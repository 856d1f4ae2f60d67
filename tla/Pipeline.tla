------------------------------ MODULE Pipeline ------------------------------
(***************************************************************************)
(* One core of the Y86 processor: the five-stage pipeline of core.cpp with *)
(* its stalls, bubbles and forwarding, the queue of saved pcs, and the     *)
(* request to suspend that the kernel may make between two clocks          *)
(* (signal_suspend).  A clock is Core::single_run: the control logic, then *)
(* the stages from the last to the first, each on what the ones before it  *)
(* have left.  The fields have the names they have in core.h.              *)
(*                                                                         *)
(* Left out: the encoding of instructions (each takes one address and is   *)
(* fetched whole), bytes within a word, counters and logs.  tag fields and *)
(* the variable isa are history: the address an instruction came from, and *)
(* the sequential machine of Y86.tla, which takes a step whenever an       *)
(* instruction gets to stage W.                                            *)
(***************************************************************************)
EXTENDS Y86

CONSTANTS
    Programs,    \* sequences of instructions, the first at address 1
    Results,     \* what a system call may leave in %eax
    Asked(_),    \* is a program ever asked to suspend?
    SignalAt,    \* the values of f_stat at which a first request to suspend may come
    MaxAge       \* the clocks it may take to have an effect

ASSUME PipelineAssumption ==
    /\ WordBits \in Nat \ {0}
    /\ MemSize \in Words /\ PcLimit \in Nat
    /\ \A prog \in Programs : \A pc \in DOMAIN prog : prog[pc] \in Instr
    /\ Results \subseteq Words
    /\ SignalAt \subseteq {"AOK", "SYS", "SPD", "HLT", "ADR", "INS"}
    /\ MaxAge \in Nat

VARIABLES
    prog,   \* the program in the text section
    core,   \* the registers of the pipeline and of the core
    mem,    \* the stack of the process
    isa,    \* history: the sequential machine
    age     \* history: the clocks since a request to suspend, the next one included

vars == <<prog, core, mem, isa, age>>

-----------------------------------------------------------------------------
(* Core::init, and the two ways context_switch goes on.                    *)

Nop == [Halt EXCEPT !.icode = "nop"]

InitCc == [ZF |-> TRUE, SF |-> FALSE, OF |-> FALSE]

InitCore(REG, pc) ==
    [F_predPC |-> 0, f_predPC |-> pc, imem_error |-> FALSE,
     f |-> [stat |-> "AOK", ins |-> Halt, valP |-> 0, tag |-> NULL],
     D |-> [stat |-> "AOK", ins |-> Halt, valP |-> 0, tag |-> NULL],
     d |-> [srcA |-> RNONE, srcB |-> RNONE, dstE |-> RNONE, dstM |-> RNONE,
            valA |-> 0, valB |-> 0],
     E |-> [stat |-> "AOK", ins |-> Halt, dstM |-> RNONE, valA |-> 0, tag |-> NULL],
     e |-> [valE |-> 0, dstE |-> RNONE, cnd |-> FALSE],
     M |-> [icode |-> "halt", Cnd |-> FALSE, valE |-> 0, valA |-> 0,
            dstE |-> RNONE, dstM |-> RNONE, tag |-> NULL],
     m |-> [stat |-> "AOK", valM |-> 0],
     W |-> [stat |-> "AOK", icode |-> "halt", valE |-> 0, valM |-> 0,
            dstE |-> RNONE, dstM |-> RNONE, tag |-> NULL],
     stat |-> "AOK", signal |-> FALSE, saved_pc |-> <<>>, cc |-> InitCc, REG |-> REG]

\* vm->stack_high
StackHigh == MemSize

InitReg == [r \in Regs |-> IF r \in {"esp", "ebp"} THEN StackHigh ELSE 0]

Init ==
    /\ prog \in Programs
    /\ core = InitCore(InitReg, 1)
    /\ mem = [a \in Addrs |-> 0]
    /\ isa = [pc |-> 1, REG |-> InitReg, cc |-> InitCc, mem |-> mem, stat |-> "AOK"]
    /\ age = 0

-----------------------------------------------------------------------------
(* PipeLogic, on the registers as the last clock left them.                *)

Stops == {"ADR", "INS", "HLT", "SYS", "SPD"}

\* The instruction in E loads a register the one in D reads.
LoadUse(c, loads) == c.E.ins.icode \in loads /\ c.E.dstM \in {c.d.srcA, c.d.srcB}

RetInPipe(c) == "ret" \in {c.D.ins.icode, c.E.ins.icode, c.M.icode}

Mispredicted(c) == c.E.ins.icode = "jxx" /\ ~ c.e.cnd

Stopping(c) == c.m.stat \in Stops \/ c.W.stat \in Stops

Loads == {"mrmovl", "popl", "leave"}

PipeLogic(c) ==
    [F_stall |-> LoadUse(c, Loads) \/ RetInPipe(c) \/ c.signal,
     D_stall |-> LoadUse(c, Loads),
     D_bubble |-> Mispredicted(c) \/ (RetInPipe(c) /\ ~ LoadUse(c, Loads)),
     E_bubble |-> Mispredicted(c) \/ LoadUse(c, {"mrmovl", "popl"}),
     M_bubble |-> Stopping(c)]

\* Slip: the request is reset and forgotten.
SignalledLost(c) == [c EXCEPT !.signal = FALSE]

\* The request to suspend goes to the instruction that was just fetched.
Signalled(c) ==
    IF c.signal THEN [c EXCEPT !.signal = FALSE, !.f.stat = "SPD"] ELSE c

\* Slip: every bubble takes a pc off the queue.
PoppedAny(saved_pc, stat) == IF saved_pc # <<>> THEN Tail(saved_pc) ELSE saved_pc

\* The queue loses its front with an instruction that was fetched in vain.
Popped(saved_pc, stat) ==
    IF stat \in {"SYS", "SPD"} /\ saved_pc # <<>> THEN Tail(saved_pc) ELSE saved_pc

-----------------------------------------------------------------------------
(* Stages W and M.  The kernel takes the process off the core as soon as   *)
(* stage W shows a status other than SAOK, so W never holds one before.    *)

Write(REG, r, n) == IF r = RNONE THEN REG ELSE [REG EXCEPT ![r] = n]

StageW(c) ==
    [c EXCEPT !.W = [stat |-> c.m.stat, icode |-> c.M.icode,
                     valE |-> c.M.valE, valM |-> c.m.valM,
                     dstE |-> c.M.dstE, dstM |-> c.M.dstM, tag |-> c.M.tag],
              !.REG = Write(Write(@, c.M.dstE, c.M.valE), c.M.dstM, c.m.valM),
              !.stat = IF c.m.stat = "BUB" THEN "AOK" ELSE c.m.stat]

Reads == {"mrmovl", "popl", "ret", "leave"}
Writes == {"rmmovl", "pushl", "call"}

\* The address stage M takes from the instruction that leaves E.
MemAddr(c) == IF c.E.ins.icode \in {"popl", "ret", "leave"} THEN c.E.valA ELSE c.e.valE

DmemError(c) == c.E.ins.icode \in Reads \cup Writes /\ MemAddr(c) \notin Addrs

\* A bubble leaves m_stat as it is.
StageM(c, bubble) ==
    IF bubble
    THEN [c EXCEPT !.M.icode = "nop", !.M.dstE = RNONE, !.M.dstM = RNONE,
                   !.M.tag = NULL, !.m.valM = 0]
    ELSE [c EXCEPT
            !.M = [icode |-> c.E.ins.icode, Cnd |-> c.e.cnd, valE |-> c.e.valE,
                   valA |-> c.E.valA, dstE |-> c.e.dstE, dstM |-> c.E.dstM,
                   tag |-> c.E.tag],
            !.m = [stat |-> IF DmemError(c) THEN "ADR" ELSE c.E.stat,
                   valM |-> IF c.E.ins.icode \notin Reads THEN @.valM
                            ELSE IF DmemError(c) THEN 0 ELSE mem[MemAddr(c)]]]

\* What the same stage does to memory.
MemAfter(c, bubble) ==
    IF bubble \/ c.E.ins.icode \notin Writes \/ DmemError(c) THEN mem
    ELSE [mem EXCEPT ![MemAddr(c)] = c.E.valA]

-----------------------------------------------------------------------------
(* Stage E.                                                                *)

\* Slip: jle forgets the overflow.
getcndNoOverflow(fun, cc) ==
    CASE fun = 0 -> TRUE
      [] fun = 1 -> cc.SF \/ cc.ZF
      [] fun = 2 -> cc.SF # cc.OF
      [] fun = 3 -> cc.ZF
      [] fun = 4 -> ~ cc.ZF
      [] fun = 5 -> ~ (cc.SF # cc.ZF)
      [] fun = 6 -> ~ (cc.SF # cc.OF \/ cc.ZF)

getcnd(fun, cc) ==
    CASE fun = 0 -> TRUE
      [] fun = 1 -> cc.SF # cc.OF \/ cc.ZF
      [] fun = 2 -> cc.SF # cc.OF
      [] fun = 3 -> cc.ZF
      [] fun = 4 -> ~ cc.ZF
      [] fun = 5 -> ~ (cc.SF # cc.ZF)
      [] fun = 6 -> ~ (cc.SF # cc.OF \/ cc.ZF)

\* Slip: no wrap-around.
AluResultWide(fun, a, b) ==
    CASE fun = 0 -> b + a
      [] fun = 1 -> b - a
      [] fun = 2 -> AndOf(a, b)
      [] fun = 3 -> XorOf(a, b)

\* alucalc: the result, in the width of an int, and the flags.
AluResult(fun, a, b) ==
    CASE fun = 0 -> Wrap(b + a)
      [] fun = 1 -> Wrap(b - a)
      [] fun = 2 -> AndOf(a, b)
      [] fun = 3 -> XorOf(a, b)

AluFlags(fun, a, b) ==
    LET res == AluResult(fun, a, b) IN
    [ZF |-> res = 0,
     SF |-> res < 0,
     OF |-> \/ fun = 0 /\ (a < 0) = (b < 0) /\ (a < 0) # (res < 0)
            \/ fun = 1 /\ (b < 0) = (a > 0) /\ (b < 0) # (res < 0)]

AluA(c) ==
    LET ins == c.D.ins IN
    CASE ins.icode \in {"rrmovl", "opl", "cmpl"} -> c.d.valA
      [] ins.icode \in {"irmovl", "rmmovl", "mrmovl"} -> ins.valC
      [] ins.icode \in {"call", "pushl"} -> -1
      [] ins.icode \in {"ret", "popl", "leave"} -> 1
      [] OTHER -> 0

AluB(c) ==
    IF c.D.ins.icode \in {"rmmovl", "mrmovl", "opl", "call", "pushl", "ret", "popl",
                          "cmpl", "leave"}
    THEN c.d.valB ELSE 0

AluFun(ins) ==
    CASE ins.icode = "opl" -> ins.ifun
      [] ins.icode = "cmpl" -> 1
      [] OTHER -> 0

\* Slip: the flags are set behind a system call, too.
SetCcAlways(c) == c.D.ins.icode \in {"opl", "cmpl"}

\* Stages W and M have moved on already.
SetCc(c) ==
    /\ c.D.ins.icode \in {"opl", "cmpl"}
    /\ c.m.stat \notin Stops
    /\ c.W.stat \notin Stops

StageE(c, bubble) ==
    IF bubble
    THEN [c EXCEPT !.saved_pc = Popped(@, c.E.stat),
                   !.E = [stat |-> "BUB", ins |-> Nop, dstM |-> RNONE, valA |-> 0,
                          tag |-> NULL],
                   !.e.valE = 0, !.e.dstE = RNONE]
    ELSE LET ins == c.D.ins
             fun == AluFun(ins)
             cc == IF SetCc(c) THEN AluFlags(fun, AluA(c), AluB(c)) ELSE c.cc
             cnd == getcnd(ins.ifun, cc)
         IN  [c EXCEPT
                !.E = [stat |-> c.D.stat, ins |-> ins, dstM |-> c.d.dstM,
                       valA |-> c.d.valA, tag |-> c.D.tag],
                !.e = [valE |-> AluResult(fun, AluA(c), AluB(c)),
                       dstE |-> IF ins.icode = "rrmovl" /\ ~ cnd THEN RNONE
                                ELSE c.d.dstE,
                       cnd |-> cnd],
                !.cc = cc]

-----------------------------------------------------------------------------
(* Stage D.                                                                *)

SrcA(ins) ==
    CASE ins.icode \in {"rrmovl", "rmmovl", "opl", "pushl", "cmpl"} -> ins.rA
      [] ins.icode \in {"popl", "ret"} -> "esp"
      [] ins.icode = "leave" -> "ebp"
      [] OTHER -> RNONE

SrcB(ins) ==
    CASE ins.icode \in {"opl", "rmmovl", "mrmovl", "cmpl"} -> ins.rB
      [] ins.icode \in {"pushl", "popl", "call", "ret"} -> "esp"
      [] ins.icode = "leave" -> "ebp"
      [] OTHER -> RNONE

DstE(ins) ==
    CASE ins.icode \in {"rrmovl", "irmovl", "opl"} -> ins.rB
      [] ins.icode \in {"pushl", "popl", "call", "ret", "leave"} -> "esp"
      [] OTHER -> RNONE

DstM(ins) ==
    CASE ins.icode \in {"mrmovl", "popl"} -> ins.rA
      [] ins.icode = "leave" -> "ebp"
      [] OTHER -> RNONE

\* Slip: nothing is forwarded from stage M.
ForwardNoM(c, r) ==
    IF r = RNONE THEN 0 ELSE IF r = c.e.dstE THEN c.e.valE ELSE c.REG[r]

\* The newest value of register r in the pipe; nobody reads that of RNONE.
Forward(c, r) ==
    IF r = RNONE THEN 0
    ELSE IF r = c.e.dstE THEN c.e.valE
    ELSE IF r = c.M.dstM THEN c.m.valM
    ELSE IF r = c.M.dstE THEN c.M.valE
    ELSE IF r = c.W.dstM THEN c.W.valM
    ELSE IF r = c.W.dstE THEN c.W.valE
    ELSE c.REG[r]

\* D, with what the instruction in it reads.
Decoded(c) ==
    LET ins == c.D.ins IN
    [c EXCEPT !.d = [srcA |-> SrcA(ins), srcB |-> SrcB(ins),
                     dstE |-> DstE(ins), dstM |-> DstM(ins),
                     valA |-> IF ins.icode \in {"call", "jxx"} THEN c.D.valP
                              ELSE Forward(c, SrcA(ins)),
                     valB |-> Forward(c, SrcB(ins))]]

\* Slip: the bubble keeps the status of what was fetched.
SquashedStat(r) == [stat |-> r.stat, ins |-> Nop, valP |-> 0, tag |-> NULL]

\* What a bubble makes of the instruction fetched.
Squashed(r) == [stat |-> "BUB", ins |-> Nop, valP |-> 0, tag |-> NULL]

StageD(c, stall, bubble) ==
    IF stall THEN Decoded(c)
    ELSE IF bubble
    THEN [c EXCEPT !.saved_pc = Popped(@, c.f.stat),
                   !.D = Squashed(c.f),
                   !.d.srcA = RNONE, !.d.srcB = RNONE,
                   !.d.dstE = RNONE, !.d.dstM = RNONE]
    ELSE Decoded([c EXCEPT !.D = c.f])

-----------------------------------------------------------------------------
(* Stage F.                                                                *)

FetchPc(c) ==
    IF c.M.icode = "jxx" /\ ~ c.M.Cnd THEN c.M.valA
    ELSE IF c.W.icode = "ret" THEN c.W.valM
    ELSE c.F_predPC

\* SSPD stays until an instruction has a status of its own.
FetchStat(c, ins) ==
    IF c.imem_error THEN "ADR"
    ELSE CASE ins.icode = "bad" -> "INS"
           [] ins.icode = "halt" -> "HLT"
           [] ins.icode = "syscall" -> "SYS"
           [] OTHER -> IF c.f.stat = "SPD" THEN "SPD" ELSE "AOK"

PredPC(c, stall) == IF stall THEN c.F_predPC ELSE c.f_predPC

\* imem_error is never reset.
StageF(c, stall) ==
    LET c1 == [c EXCEPT !.F_predPC = PredPC(c, stall)]
        pc == FetchPc(c1)
        c2 == [c1 EXCEPT !.imem_error = @ \/ pc < 0 \/ pc >= PcLimit]
        ins == IF c2.imem_error THEN Nop ELSE InstrAt(prog, pc)
        stat == FetchStat(c2, ins)
        next == IF ins.icode \in {"jxx", "call"} THEN ins.valC ELSE pc + 1
    IN  [c2 EXCEPT !.f = [stat |-> stat, ins |-> ins, valP |-> pc + 1, tag |-> pc],
                   !.f_predPC = next,
                   !.saved_pc = IF stat \in {"SYS", "SPD"} THEN Append(@, next)
                                ELSE @]

-----------------------------------------------------------------------------

Running == core.stat = "AOK"

\* Core::single_run.
Clock ==
    /\ Running
    /\ LET p == PipeLogic(core)
           w == StageW(Signalled(core))
           m == StageM(w, p.M_bubble)
           e == StageE(m, p.E_bubble)
           d == StageD(e, p.D_stall, p.D_bubble)
           retired == w.W.tag # NULL
       IN  /\ core' = StageF(d, p.F_stall)
           /\ mem' = MemAfter(w, p.M_bubble)
           /\ isa' = IF retired THEN Step(prog, isa) ELSE isa
    /\ age' = IF age = 0 THEN 0 ELSE age + 1
    /\ UNCHANGED prog

\* Kernel::arrange asks the process to suspend, never before it has run for more
\* than 50 clocks (one is enough here), and goes on asking, clock after clock,
\* until it is suspended or nobody waits any more.
Signal ==
    /\ Running
    /\ Asked(prog)
    /\ ~ core.signal
    /\ core.f.tag # NULL
    /\ age > 0 \/ core.f.stat \in SignalAt
    /\ core' = [core EXCEPT !.signal = TRUE]
    /\ age' = IF age = 0 THEN 1 ELSE age
    /\ UNCHANGED <<prog, mem, isa>>

\* The kernel suspends the process, after the system call if there is one, and
\* some time later places it on a core again.  The flags are not kept: this is
\* where the sequential machine follows the kernel.
Resume ==
    /\ core.stat \in {"SYS", "SPD"}
    /\ core.saved_pc # <<>>
    /\ \E n \in IF core.stat = "SYS" THEN Results ELSE {core.REG["eax"]} :
         /\ core' = InitCore([core.REG EXCEPT !["eax"] = n], Head(core.saved_pc))
         /\ isa' = [isa EXCEPT !.REG["eax"] = n, !.cc = InitCc, !.stat = "AOK"]
    /\ age' = 0
    /\ UNCHANGED <<prog, mem>>

Next == Clock \/ Signal \/ Resume

Spec == Init /\ [][Next]_vars

-----------------------------------------------------------------------------
(* Properties.  At every one the pipeline, where several instructions are  *)
(* under way, is compared with the sequential machine.                     *)

\* The variables stay in their types.
TypeOK ==
    /\ prog \in Seq(Instr)
    /\ core.f.ins \in Instr /\ core.D.ins \in Instr /\ core.E.ins \in Instr
    /\ {core.d.valA, core.d.valB, core.e.valE, core.M.valE, core.m.valM} \subseteq Words
    /\ core.REG \in [Regs -> Words]
    /\ core.cc \in Flags
    /\ core.stat \in Stops \cup {"AOK"}
    /\ mem \in [Addrs -> Words]
    /\ isa.REG \in [Regs -> Words]
    /\ age \in Nat

\* The instruction that gets to stage W is the one the program has come to:
\* branches, calls and returns squash all that was fetched wrongly, and
\* stalls neither lose an instruction nor run one twice.  (Every step but that
\* of Signal leaves no request pending.)
InOrder == [][~ core'.signal => core'.W.tag \in {NULL, isa.pc}]_vars

\* Once an instruction is through stage W the registers are those of the
\* sequential machine, whatever was forwarded on the way.
RegistersExact == core.stat \notin {"ADR", "INS", "HLT"} => core.REG = isa.REG

\* The core stops between two instructions: when it reports a system call, a
\* fault or a suspension, memory and flags hold what the instructions up to
\* that one have done, and nothing of those behind it.
StopPrecise ==
    core.stat # "AOK" => mem = isa.mem /\ core.cc = isa.cc

\* "the kernel check the system call whem it pass through W-stage" (README.md):
\* what the core reports is what the instruction at W asks for, and a
\* suspension is reported only for an instruction that asks for nothing.
StatusReported ==
    core.stat = isa.stat \/ (core.stat = "SPD" /\ isa.stat = "AOK")

\* "it prepares to suspend the process running on itself" (README.md): the pc
\* the kernel saves is that of the instruction to go on with.
ResumesNext ==
    core.stat \in {"SYS", "SPD"} =>
        core.saved_pc # <<>> /\ Head(core.saved_pc) = isa.pc

\* "The kernel always tries to make best use of all cores" (README.md): a request
\* to suspend takes effect within MaxAge clocks.
SuspendInTime == core.stat = "AOK" => age <= MaxAge

-----------------------------------------------------------------------------
(* Pipeline implements CoreStatus.                                         *)

\* The kernel handles all faults alike.
Reported == IF core.stat \in {"ADR", "INS", "HLT"} THEN "FLT" ELSE core.stat

Core == INSTANCE CoreStatus WITH
    MaxDrain <- MaxAge,
    stat <- Reported,
    asked <- core.signal,
    drain <- IF age = 0 THEN 0 ELSE age - 1

\* The core reports a suspension only if it was asked for one, and in time.
CoreSpec == Core!Spec

=============================================================================
