--------------------------- MODULE PipelineProofs ---------------------------
(***************************************************************************)
(* Theorems about Pipeline.tla, for any width of words, size of the stack  *)
(* and programs of a regular form.  The invariant leads the sequential     *)
(* machine on by the instructions in M, in E and in D: what each stage     *)
(* holds is what that machine does next.  A clock is then shown to move    *)
(* every one of them on by a stage, or to keep or squash it.               *)
(***************************************************************************)
EXTENDS CleanPrograms, TLAPS

-----------------------------------------------------------------------------
(* Types.                                                                  *)

Stats == Stops \cup {"AOK", "BUB"}
Tags == Int \cup {NULL}
AnyReg == Regs \cup {RNONE}

CoreType ==
    [F_predPC : Int, f_predPC : Int, imem_error : BOOLEAN,
     f : [stat : Stats, ins : Instr, valP : Int, tag : Tags],
     D : [stat : Stats, ins : Instr, valP : Int, tag : Tags],
     d : [srcA : AnyReg, srcB : AnyReg, dstE : AnyReg, dstM : AnyReg,
          valA : Words, valB : Words],
     E : [stat : Stats, ins : Instr, dstM : AnyReg, valA : Words, tag : Tags],
     e : [valE : Words, dstE : AnyReg, cnd : BOOLEAN],
     M : [icode : Icodes, Cnd : BOOLEAN, valE : Words, valA : Words,
          dstE : AnyReg, dstM : AnyReg, tag : Tags],
     m : [stat : Stats, valM : Words],
     W : [stat : Stats, icode : Icodes, valE : Words, valM : Words,
          dstE : AnyReg, dstM : AnyReg, tag : Tags],
     stat : Stops \cup {"AOK"}, signal : BOOLEAN, saved_pc : Seq(Int), cc : Flags,
     REG : [Regs -> Words]]

IsaType ==
    [pc : Int, REG : [Regs -> Words], cc : Flags, mem : [Addrs -> Words],
     stat : Stops \cup {"AOK"}]

\* Types, and that an operation and a return address fit.
TypeInv ==
    /\ prog \in Programs
    /\ core \in CoreType
    /\ mem \in [Addrs -> Words]
    /\ isa \in IsaType
    /\ age \in Nat
    /\ core.f.ins.icode \in {"call", "jxx"} => core.f.valP \in Words
    /\ core.D.ins.icode \in {"call", "jxx"} => core.D.valP \in Words
    /\ core.f.ins.icode = "opl" => core.f.ins.ifun \in 0 .. 3
    /\ core.D.ins.icode = "opl" => core.D.ins.ifun \in 0 .. 3

-----------------------------------------------------------------------------
(* What an instruction does, in the terms of the pipeline.                 *)

\* The status an instruction has of its own.
StatOf(ins) ==
    CASE ins.icode = "bad" -> "INS"
      [] ins.icode = "halt" -> "HLT"
      [] ins.icode = "syscall" -> "SYS"
      [] OTHER -> "AOK"

Rd(REG, r) == IF r = RNONE THEN 0 ELSE REG[r]

\* The operands and the result of ins, in the state s.
ValA(ins, s) == IF ins.icode \in {"call", "jxx"} THEN s.pc + 1 ELSE Rd(s.REG, SrcA(ins))

ValB(ins, s) == Rd(s.REG, SrcB(ins))

OpA(ins, s) ==
    CASE ins.icode \in {"rrmovl", "opl", "cmpl"} -> ValA(ins, s)
      [] ins.icode \in {"irmovl", "rmmovl", "mrmovl"} -> ins.valC
      [] ins.icode \in {"call", "pushl"} -> -1
      [] ins.icode \in {"ret", "popl", "leave"} -> 1
      [] OTHER -> 0

OpB(ins, s) ==
    IF ins.icode \in {"rmmovl", "mrmovl", "opl", "call", "pushl", "ret", "popl",
                      "cmpl", "leave"}
    THEN ValB(ins, s) ELSE 0

ValE(ins, s) == AluResult(AluFun(ins), OpA(ins, s), OpB(ins, s))

Cnd(ins, s) == getcnd(ins.ifun, s.cc)

DestE(ins, s) == IF ins.icode = "rrmovl" /\ ~ Cnd(ins, s) THEN RNONE ELSE DstE(ins)

\* The address it reads or writes, and whether that is a fault.
At(ins, s) == IF ins.icode \in {"popl", "ret", "leave"} THEN ValA(ins, s) ELSE ValE(ins, s)

Fails(ins, s) == ins.icode \in Reads \cup Writes /\ At(ins, s) \notin Addrs

\* The instruction at pc and its status, as stage F finds them.
InsAt(p, pc) == IF InText(pc) THEN InstrAt(p, pc) ELSE Nop
StatAt(p, pc) == IF InText(pc) THEN StatOf(InstrAt(p, pc)) ELSE "ADR"

-----------------------------------------------------------------------------
(* The invariant: the sequential machine, led on by what is under way.     *)

\* s, when the instruction of a stage has been executed, if there is one.
After(s, tag, stat) ==
    IF tag = NULL \/ s.stat # "AOK" THEN s
    ELSE LET t == Step(prog, s)
         IN  IF stat = "SPD" /\ t.stat = "AOK" THEN [t EXCEPT !.stat = "SPD"] ELSE t

\* The sequential machine after the instructions in M, in E and in D.
S1 == After(isa, core.M.tag, core.m.stat)
S2 == After(S1, core.E.tag, core.E.stat)
S3 == IF Mispredicted(core) THEN S2 ELSE After(S2, core.D.tag, core.D.stat)

Idle == {Nop, Halt}

\* An instruction under way, and the status it has.
Slot(tag, ins, stat) ==
    \/ tag = NULL /\ ins \in Idle /\ stat \in {"AOK", "BUB"}
    \/ /\ tag # NULL
       /\ \/ ins = Nop /\ stat \in {"ADR", "SPD"}
          \/ ins = InstrAt(prog, tag) /\ stat \in {StatOf(ins), "SPD"}

\* The instructions under way.
Slots ==
    /\ Slot(core.f.tag, core.f.ins, core.f.stat)
    /\ Slot(core.D.tag, core.D.ins, core.D.stat)
    /\ Slot(core.E.tag, core.E.ins, core.E.stat)
    /\ core.f.tag # NULL =>
         /\ core.f.valP = core.f.tag + 1
         /\ core.f.ins = IF core.imem_error THEN Nop ELSE InstrAt(prog, core.f.tag)
         /\ core.f.stat \in {IF core.imem_error THEN "ADR" ELSE StatOf(core.f.ins), "SPD"}
         /\ InText(core.f.tag) \/ core.imem_error
         /\ core.f_predPC = NextPc(core.f.ins, core.f.tag)
    /\ core.D.tag # NULL =>
         /\ core.D.valP = core.D.tag + 1
         /\ core.D.ins = InstrAt(prog, core.D.tag) \/ core.imem_error
    /\ core.d.srcA = SrcA(core.D.ins) /\ core.d.srcB = SrcB(core.D.ins)
    /\ core.d.dstE = DstE(core.D.ins) /\ core.d.dstM = DstM(core.D.ins)
    /\ core.E.dstM = DstM(core.E.ins)
    /\ core.E.tag = NULL => core.e.dstE = RNONE
    /\ core.E.ins.icode = "jxx" /\ core.E.ins.ifun = 0 => core.e.cnd
    /\ \A r \in Regs :
         /\ r = core.W.dstM => core.REG[r] = core.W.valM
         /\ r = core.W.dstE /\ r # core.W.dstM => core.REG[r] = core.W.valE
    /\ core.M.tag = NULL =>
         /\ core.M.dstE = RNONE /\ core.M.dstM = RNONE
         /\ core.M.icode \in {"nop", "halt"}
         /\ core.m.stat \in {"AOK", "BUB"}
    /\ core.W.stat \in {"AOK", "BUB"}
    /\ core.m.stat # "SYS" \/ core.M.icode = "syscall"

\* The order in which instructions were fetched.
Chain ==
    /\ core.D.tag # NULL /\ core.D.stat # "SPD" =>
         core.f.tag = NextPc(core.D.ins, core.D.tag)
    /\ core.E.tag # NULL /\ core.E.stat # "SPD" =>
         IF core.E.ins.icode = "ret"
         THEN core.D.tag = NULL /\ core.f.tag = core.E.tag + 1
         ELSE core.D.tag = NextPc(core.E.ins, core.E.tag)
    /\ core.M.icode = "ret" =>
         /\ core.D.tag = NULL /\ core.E.tag = NULL
         /\ core.M.tag \in DOMAIN prog /\ prog[core.M.tag].icode = "ret"
         /\ core.f.tag = core.M.tag + 1
    /\ core.F_predPC = core.f.tag
         \/ /\ core.D.tag = NULL /\ core.E.tag = NULL
            /\ core.M.icode # "ret"
            /\ Asked(prog) => core.f.tag = NULL
    /\ core.f.tag = NULL =>
         /\ core.D.tag = NULL /\ core.E.tag = NULL /\ core.M.tag = NULL
         /\ ~ core.imem_error /\ ~ core.signal /\ core.saved_pc = <<>>
         /\ core.f_predPC = isa.pc

\* What each of the stages M, E, D and F holds is what the sequential machine, led on
\* by the stages after it, is to execute next, with the operands and results it has there.
InM ==
    LET ins == InsAt(prog, isa.pc) IN
    core.M.tag # NULL =>
        /\ core.M.tag = isa.pc
        /\ core.M.icode = ins.icode
        /\ core.m.stat = S1.stat
        /\ S1.stat # "ADR" => S1.REG = Write(Write(isa.REG, core.M.dstE, core.M.valE),
                                             core.M.dstM, core.m.valM)
        /\ core.M.icode = "jxx" => core.M.valA = isa.pc + 1
        /\ S1.stat = "AOK" /\ core.M.icode = "ret" => core.m.valM = S1.pc

InE ==
    LET ins == InsAt(prog, S1.pc) IN
    S1.stat = "AOK" /\ core.E.tag # NULL =>
        /\ core.E.tag = S1.pc
        /\ core.E.ins = ins
        /\ \/ core.E.stat = StatAt(prog, S1.pc)
           \/ core.E.stat = "SPD" /\ StatAt(prog, S1.pc) = "AOK"
        /\ core.E.valA = ValA(ins, S1)
        /\ core.e.valE = ValE(ins, S1)
        /\ core.e.dstE = DestE(ins, S1)
        /\ ins.icode = "jxx" => core.e.cnd = Cnd(ins, S1)

InD ==
    LET ins == InsAt(prog, S2.pc) IN
    S2.stat = "AOK" /\ ~ Mispredicted(core) /\ core.D.tag # NULL =>
        /\ core.D.tag = S2.pc
        /\ core.D.ins = ins
        /\ \/ core.D.stat = StatAt(prog, S2.pc)
           \/ core.D.stat = "SPD" /\ StatAt(prog, S2.pc) = "AOK"
        /\ ~ LoadUse(core, Loads) =>
             core.d.valA = ValA(ins, S2) /\ core.d.valB = ValB(ins, S2)

InF ==
    S3.stat = "AOK" =>
        /\ core.f.tag # NULL => (core.imem_error <=> ~ InText(core.f.tag))
        /\ core.f.tag # NULL /\ ~ Mispredicted(core) /\ ~ RetInPipe(core)
             /\ core.D.tag = NULL => core.f.tag = S3.pc
        /\ core.D.tag # NULL => core.D.ins = InsAt(prog, core.D.tag)

\* The queue of saved pcs begins with that of the oldest system call or suspension.
Saves == {"SYS", "SPD"}

Saved ==
    /\ core.m.stat \in Saves =>
         core.saved_pc # <<>> /\ (S1.stat \in Saves => Head(core.saved_pc) = S1.pc)
    /\ core.m.stat \notin Stops =>
         IF core.E.stat \in Saves
         THEN core.saved_pc # <<>> /\ Head(core.saved_pc) = NextPc(core.E.ins, core.E.tag)
         ELSE IF core.D.stat \in Saves
         THEN core.saved_pc # <<>> /\ Head(core.saved_pc) = NextPc(core.D.ins, core.D.tag)
         ELSE IF core.f.stat \in Saves
         THEN core.saved_pc # <<>> /\ Head(core.saved_pc) = NextPc(core.f.ins, core.f.tag)
         ELSE core.saved_pc = <<>>

\* A request to suspend, by its age.
Requests ==
    /\ ~ Asked(prog) =>
         /\ ~ core.signal /\ age = 0
         /\ "SPD" \notin {core.f.stat, core.D.stat, core.E.stat, core.m.stat}
    /\ \/ age = 0 /\ ~ core.signal
       \/ age = 1 /\ core.signal /\ core.f.stat = "AOK"
       \/ age = 2 /\ core.D.stat = "SPD"
       \/ age = 3 /\ core.E.stat = "SPD"
       \/ age = 4 /\ core.m.stat \in Stops
    /\ age <= 1 => "SPD" \notin {core.f.stat, core.D.stat, core.E.stat, core.m.stat}
    /\ core.signal => core.f.tag # NULL

\* The inductive invariant.
RunInv ==
    /\ Slots /\ Chain /\ InM /\ InE /\ InD /\ InF /\ Saved /\ Requests
    /\ core.REG = isa.REG /\ mem = S1.mem /\ core.cc = S2.cc

PipeInv ==
    /\ TypeInv
    /\ Running => RunInv
    /\ RegistersExact /\ StopPrecise /\ StatusReported /\ ResumesNext

-----------------------------------------------------------------------------
(* Words and the ALU.                                                      *)

\* Whatever is wrapped is a word.
LEMMA WrapWord == ASSUME NEW n \in Int PROVE Wrap(n) \in Words
BY WordsAssumption DEF Wrap, Words

\* One wrap-around is enough for a sum or a difference of words.
LEMMA WrapOnce ==
    ASSUME NEW n \in Int, -2 * Limit <= n, n < 2 * Limit
    PROVE  Wrap(n) = IF n < -Limit THEN n + 2 * Limit
                     ELSE IF n >= Limit THEN n - 2 * Limit ELSE n
BY WordsAssumption DEF Wrap

\* A word is its own wrap.
LEMMA WrapSelf == ASSUME NEW n \in Words PROVE Wrap(n) = n
BY WrapOnce, WordsAssumption DEF Words

\* The ALU gives words, and the flags it sets by looking at signs are those of the
\* exact result.
LEMMA AluExact ==
    ASSUME NEW fun \in 0 .. 3, NEW a \in Words, NEW b \in Words
    PROVE  /\ AluResult(fun, a, b) \in Words
           /\ AluResult(fun, a, b) = Wrap(Exact(fun, a, b))
           /\ AluFlags(fun, a, b) \in Flags
           /\ AluFlags(fun, a, b) = FlagsOf(fun, a, b)
<1>0. a \in Int /\ b \in Int /\ Limit \in Nat \ {0}
      /\ -Limit <= a /\ a < Limit /\ -Limit <= b /\ b < Limit
  BY WordsAssumption DEF Words
<1>1. CASE fun \in {0, 1}
  <2> DEFINE n == IF fun = 0 THEN b + a ELSE b - a
  <2>1. n \in Int /\ -2 * Limit <= n /\ n < 2 * Limit
    BY <1>0
  <2>2. Exact(fun, a, b) = n /\ AluResult(fun, a, b) = Wrap(n)
    BY <1>1 DEF Exact, AluResult
  <2>3. Wrap(n) \in Words
    BY <2>1, WrapWord
  <2>4. Wrap(n) = IF n < -Limit THEN n + 2 * Limit
                  ELSE IF n >= Limit THEN n - 2 * Limit ELSE n
    BY <2>1, WrapOnce
  <2>5. /\ fun = 0 => (b + a \notin Words <=> (a < 0) = (b < 0) /\ (a < 0) # (Wrap(n) < 0))
        /\ fun = 1 => (b - a \notin Words <=> (b < 0) = (a > 0) /\ (b < 0) # (Wrap(n) < 0))
    BY <1>0, <2>4 DEF Words
  <2>6. n \notin Words <=> \/ fun = 0 /\ (a < 0) = (b < 0) /\ (a < 0) # (Wrap(n) < 0)
                           \/ fun = 1 /\ (b < 0) = (a > 0) /\ (b < 0) # (Wrap(n) < 0)
    BY <1>1, <2>5
  <2> HIDE DEF n
  <2>7. AluFlags(fun, a, b) = FlagsOf(fun, a, b)
    BY <2>2, <2>6 DEF AluFlags, FlagsOf
  <2>8. FlagsOf(fun, a, b) \in Flags
    BY DEF FlagsOf, Flags
  <2> QED
    BY <2>2, <2>3, <2>7, <2>8
<1>2. CASE fun \in {2, 3}
  <2> DEFINE n == IF fun = 2 THEN AndOf(a, b) ELSE XorOf(a, b)
  <2>1. n \in Words
    BY WordsAssumption
  <2>2. Exact(fun, a, b) = n /\ AluResult(fun, a, b) = n
    BY <1>2 DEF Exact, AluResult
  <2>3. Wrap(n) = n
    BY <2>1, WrapSelf
  <2> HIDE DEF n
  <2>4. AluFlags(fun, a, b) = FlagsOf(fun, a, b)
    <3>1. FlagsOf(fun, a, b) = [ZF |-> n = 0, SF |-> n < 0, OF |-> n \notin Words]
      BY <2>2, <2>3 DEF FlagsOf
    <3>2. (n \notin Words) = FALSE
      BY <2>1
    <3>3. fun # 0 /\ fun # 1
      BY <1>2
    <3>4. (\/ fun = 0 /\ (a < 0) = (b < 0) /\ (a < 0) # (n < 0)
           \/ fun = 1 /\ (b < 0) = (a > 0) /\ (b < 0) # (n < 0)) = FALSE
      BY <3>3
    <3>5. AluFlags(fun, a, b) = [ZF |-> n = 0, SF |-> n < 0, OF |-> FALSE]
      BY <2>2, <3>4, Zenon DEF AluFlags
    <3> QED
      BY <3>1, <3>2, <3>5, Zenon
  <2>5. FlagsOf(fun, a, b) \in Flags
    BY DEF FlagsOf, Flags
  <2> QED
    BY <2>1, <2>2, <2>3, <2>4, <2>5
<1> QED
  BY <1>1, <1>2

\* Only for jge does the code's condition differ from that of the instruction.
LEMMA CondExact ==
    ASSUME NEW fun \in 0 .. 6, fun # 5, NEW cc \in Flags
    PROVE  getcnd(fun, cc) = Holds(fun, cc)
BY DEF getcnd, Holds, Flags

\* A condition holds or does not.
LEMMA CondBoolean ==
    ASSUME NEW fun \in 0 .. 6, NEW cc \in Flags
    PROVE  getcnd(fun, cc) \in BOOLEAN
<1>1. CASE fun = 0
  BY <1>1 DEF getcnd
<1>2. CASE fun \in {1, 2, 3}
  BY <1>2 DEF getcnd, Flags
<1>3. CASE fun \in {4, 5, 6}
  BY <1>3 DEF getcnd, Flags
<1> QED
  BY <1>1, <1>2, <1>3

-----------------------------------------------------------------------------
(* An instruction, executed at once and stage by stage.                    *)

\* What the stages would do of the instruction s comes to.
StepOf(p, s, t) ==
    LET ins == InsAt(p, s.pc) IN
    /\ t \in IsaType
    /\ t.stat = IF ~ InText(s.pc) \/ Fails(ins, s) THEN "ADR" ELSE StatOf(ins)
    /\ t.cc = IF ins.icode \in {"opl", "cmpl"}
              THEN AluFlags(AluFun(ins), OpA(ins, s), OpB(ins, s)) ELSE s.cc
    /\ t.mem = IF ins.icode \in Writes /\ ~ Fails(ins, s)
               THEN [s.mem EXCEPT ![At(ins, s)] = ValA(ins, s)] ELSE s.mem
    /\ t.stat # "ADR" =>
         t.REG = Write(Write(s.REG, DestE(ins, s), ValE(ins, s)), DstM(ins),
                       s.mem[At(ins, s)])
    /\ t.stat # "ADR" =>
         t.pc = IF ins.icode = "ret" THEN s.mem[At(ins, s)]
                ELSE IF ins.icode = "jxx" /\ ~ Cnd(ins, s) THEN s.pc + 1
                ELSE NextPc(ins, s.pc)

\* The operands are words.
LEMMA Operands ==
    ASSUME NEW s \in IsaType, NEW ins, Formed(ins, s.pc)
    PROVE  /\ ins.icode # "jxx" => ValA(ins, s) \in Words
           /\ ValB(ins, s) \in Words
           /\ AluFun(ins) \in 0 .. 3
           /\ OpA(ins, s) \in Words /\ OpB(ins, s) \in Words
           /\ ValE(ins, s) \in Words
<1>1. ins \in Instr /\ s.REG \in [Regs -> Words] /\ s.pc \in Int
  BY DEF Formed, IsaType
<1>2. 0 \in Words
  BY WordsAssumption DEF Words
<1>3. SrcA(ins) \in AnyReg /\ SrcB(ins) \in AnyReg
  BY <1>1 DEF SrcA, SrcB, AnyReg, Regs, Instr
<1>4. Rd(s.REG, SrcA(ins)) \in Words /\ Rd(s.REG, SrcB(ins)) \in Words
  BY <1>1, <1>2, <1>3 DEF Rd, AnyReg
<1>5. ValA(ins, s) \in Words /\ ValB(ins, s) \in Words
  BY <1>4 DEF ValA, ValB, Formed
<1>6. AluFun(ins) \in 0 .. 3
  BY DEF AluFun, Formed
<1>7. OpB(ins, s) \in Words
  BY <1>2, <1>5 DEF OpB
<1>8. OpA(ins, s) \in Words
  <2>1. {-1, 0, 1} \subseteq Words
    BY WordsAssumption DEF Words
  <2>2. ins.valC \in Words /\ ValA(ins, s) \in Words
    BY <1>1, <1>5 DEF Instr
  <2> QED
    BY <2>1, <2>2 DEF OpA
<1> QED
  BY <1>5, <1>6, <1>7, <1>8, AluExact DEF ValE

\* The instructions of a bubble and of an empty core need no operands.
LEMMA IdleFormed == \A pc : /\ Formed(Nop, pc) /\ Formed(Halt, pc)
                            /\ Nop.icode = "nop" /\ Halt.icode = "halt"
                            /\ Nop.ifun = 0 /\ Halt.ifun = 0
<1>1. 0 \in Words
  BY WordsAssumption DEF Words
<1> QED
  BY <1>1 DEF Formed, Nop, Halt, Instr, Icodes

\* What is fetched from a well-formed program has its operands.
LEMMA FetchedFormed ==
    ASSUME NEW p, WellFormed(p), NEW pc
    PROVE  /\ Formed(InstrAt(p, pc), pc) /\ Formed(InsAt(p, pc), pc)
           /\ InsAt(p, pc).icode \in {"jxx", "rrmovl", "ret", "leave"} =>
                pc \in DOMAIN p /\ InsAt(p, pc) = p[pc]
           /\ InstrAt(p, pc).icode \in {"jxx", "rrmovl", "ret", "leave"} =>
                pc \in DOMAIN p /\ InstrAt(p, pc) = p[pc]
BY IdleFormed DEF WellFormed, InstrAt, InsAt

\* A register that is set, and a word that is stored.
LEMMA PutIs ==
    ASSUME NEW s \in IsaType, NEW r \in Regs, NEW n \in Words
    PROVE  /\ Put(s, r, n) \in IsaType
           /\ Put(s, r, n).REG = [s.REG EXCEPT ![r] = n]
           /\ Put(s, r, n).pc = s.pc /\ Put(s, r, n).cc = s.cc
           /\ Put(s, r, n).mem = s.mem /\ Put(s, r, n).stat = s.stat
BY DEF Put, IsaType

\* A store in the sequential machine.
LEMMA StoreIs ==
    ASSUME NEW s \in IsaType, NEW a, NEW n \in Words
    PROVE  /\ Store(s, a, n) \in IsaType
           /\ Store(s, a, n).mem = IF a \in Addrs THEN [s.mem EXCEPT ![a] = n] ELSE s.mem
           /\ Store(s, a, n).pc = s.pc /\ Store(s, a, n).cc = s.cc
           /\ Store(s, a, n).REG = s.REG
           /\ Store(s, a, n).stat = IF a \in Addrs THEN s.stat ELSE "ADR"
BY DEF Store, Stop, IsaType, Stops

\* A fault in the sequential machine.
LEMMA StopIs ==
    ASSUME NEW s \in IsaType
    PROVE  /\ Stop(s, "ADR") \in IsaType
           /\ Stop(s, "ADR").stat = "ADR" /\ Stop(s, "ADR").cc = s.cc
           /\ Stop(s, "ADR").mem = s.mem
BY DEF Stop, IsaType, Stops

\* A jump in the sequential machine.
LEMMA GotoIs ==
    ASSUME NEW s \in IsaType, NEW pc \in Int
    PROVE  /\ Goto(s, pc) \in IsaType
           /\ Goto(s, pc).pc = pc /\ Goto(s, pc).REG = s.REG /\ Goto(s, pc).cc = s.cc
           /\ Goto(s, pc).mem = s.mem /\ Goto(s, pc).stat = s.stat
BY DEF Goto, IsaType

\* One instruction of the sequential machine does what the stages compute.
LEMMA StepExact ==
    ASSUME NEW p, Regular(p), NEW s \in IsaType, s.stat = "AOK"
    PROVE  StepOf(p, s, Step(p, s))
<1> DEFINE ins == InsAt(p, s.pc)
           t == Step(p, s)
<1>1. Formed(ins, s.pc) /\ ins \in Instr
  BY FetchedFormed DEF Regular, Formed
<1>2. /\ s.pc \in Int /\ s.REG \in [Regs -> Words] /\ s.cc \in Flags
      /\ s.mem \in [Addrs -> Words]
      /\ DOMAIN s = {"pc", "REG", "cc", "mem", "stat"}
  BY DEF IsaType
<1>3. CASE ~ InText(s.pc)
  <2>1. t = [s EXCEPT !.stat = "ADR"]
    BY <1>2, <1>3, PipelineAssumption DEF Step, Stop, InText
  <2>2. ins.icode = "nop"
    BY <1>3, IdleFormed DEF InsAt
  <2> QED
    BY <1>2, <1>3, <2>1, <2>2 DEF StepOf, IsaType, Stops, Writes
<1>4. CASE InText(s.pc)
  <2> DEFINE g == [s EXCEPT !.pc = s.pc + 1]
  <2>1. t = Effect(g, ins) /\ InText(s.pc)
    BY <1>2, <1>4, PipelineAssumption DEF Step, Goto, InText, InsAt
  <2>2. /\ g \in IsaType /\ g.pc = s.pc + 1 /\ g.REG = s.REG /\ g.cc = s.cc
        /\ g.mem = s.mem /\ g.stat = "AOK"
    BY <1>2 DEF IsaType
  <2>3. /\ ins.icode # "jxx" => ValA(ins, s) \in Words
        /\ ValB(ins, s) \in Words /\ AluFun(ins) \in 0 .. 3
        /\ OpA(ins, s) \in Words /\ OpB(ins, s) \in Words /\ ValE(ins, s) \in Words
    BY <1>1, Operands
  <2>4. AluFlags(AluFun(ins), OpA(ins, s), OpB(ins, s)) \in Flags
    BY <2>3, AluExact
  <2> HIDE DEF ins, t, g
  <2>5. CASE ins.icode \in {"nop", "halt", "bad", "syscall"}
    <3>1. t = [g EXCEPT !.stat = StatOf(ins)]
      BY <2>1, <2>2, <2>5 DEF Effect, Stop, StatOf, IsaType
    <3>2. StatOf(ins) \in {"AOK", "INS", "HLT", "SYS"}
      BY DEF StatOf
    <3>3. t \in IsaType /\ t.stat = StatOf(ins) /\ t.pc = s.pc + 1 /\ t.REG = s.REG
          /\ t.cc = s.cc /\ t.mem = s.mem
      BY <2>2, <3>1, <3>2 DEF IsaType, Stops
    <3>4. DestE(ins, s) = RNONE /\ DstM(ins) = RNONE
      BY <2>5 DEF DestE, DstE, DstM
    <3>5. ~ Fails(ins, s) /\ NextPc(ins, s.pc) = s.pc + 1
      BY <2>5 DEF Fails, Reads, Writes, NextPc
    <3>6. ins.icode \notin {"opl", "cmpl", "ret", "jxx"} /\ ins.icode \notin Writes
      BY <2>5 DEF Writes
    <3> QED
      BY <2>1, <3>3, <3>4, <3>5, <3>6 DEF StepOf, Write, ins, t
  <2>6. CASE ins.icode \in {"rrmovl", "irmovl", "opl", "cmpl"}
    <3>1. ~ Fails(ins, s) /\ NextPc(ins, s.pc) = s.pc + 1 /\ DstM(ins) = RNONE
          /\ ins.icode \notin {"ret", "jxx"} /\ ins.icode \notin Writes /\ StatOf(ins) = "AOK"
      BY <2>6 DEF Fails, Reads, Writes, NextPc, DstM, StatOf
    <3>2. SUFFICES /\ t \in IsaType /\ t.stat = "AOK" /\ t.pc = s.pc + 1 /\ t.mem = s.mem
                   /\ t.cc = IF ins.icode \in {"opl", "cmpl"}
                             THEN AluFlags(AluFun(ins), OpA(ins, s), OpB(ins, s)) ELSE s.cc
                   /\ t.REG = Write(s.REG, DestE(ins, s), ValE(ins, s))
      BY <2>1, <3>1 DEF StepOf, Write, ins, t
    <3> DEFINE A == g.REG[ins.rA]
               B == g.REG[ins.rB]
    <3>3. ins.rB \in Regs /\ RNONE \notin Regs
      BY <1>1, <2>6 DEF Formed, Regs, RNONE
    <3>4. CASE ins.icode = "rrmovl"
      <4>1. A = ValA(ins, s) /\ A \in Words /\ OpA(ins, s) = A /\ OpB(ins, s) = 0
            /\ AluFun(ins) = 0
        BY <1>1, <2>2, <2>3, <3>4 DEF ValA, Rd, SrcA, OpA, OpB, AluFun, Formed, Regs, RNONE
      <4>2. ValE(ins, s) = A
        <5>1. A \in Int /\ 0 + A = A
          BY <4>1 DEF Words
        <5>2. AluResult(0, A, 0) = Wrap(0 + A)
          BY DEF AluResult
        <5> QED
          BY <4>1, <5>1, <5>2, WrapSelf DEF ValE
      <4>3. Cnd(ins, s) = Holds(ins.ifun, g.cc)
        <5>1. ins.ifun \in 0 .. 6 /\ ins.ifun # 5
          BY <1>1, <3>4, FetchedFormed DEF Instr, Regular, ins
        <5> QED
          BY <1>2, <2>2, <5>1, CondExact DEF Cnd
      <4>4. t = IF Cnd(ins, s) THEN Put(g, ins.rB, A) ELSE g
        BY <2>1, <3>4, <4>3 DEF Effect
      <4>5. DestE(ins, s) = IF Cnd(ins, s) THEN ins.rB ELSE RNONE
        BY <3>4 DEF DestE, DstE
      <4> QED
        BY <2>2, <3>3, <3>4, <4>1, <4>2, <4>4, <4>5, PutIs DEF Write
    <3>5. CASE ins.icode = "irmovl"
      <4>1. t = Put(g, ins.rB, ins.valC)
        BY <2>1, <3>5 DEF Effect
      <4>2. ins.valC \in Words /\ ins.valC \in Int
        BY <1>1 DEF Instr, Words
      <4>3. ValE(ins, s) = ins.valC
        <5>1. AluFun(ins) = 0 /\ OpA(ins, s) = ins.valC /\ OpB(ins, s) = 0
          BY <3>5 DEF OpA, OpB, AluFun
        <5>2. AluResult(0, ins.valC, 0) = Wrap(0 + ins.valC)
          BY DEF AluResult
        <5> QED
          BY <4>2, <5>1, <5>2, WrapSelf DEF ValE
      <4>4. DestE(ins, s) = ins.rB
        BY <3>5 DEF DestE, DstE
      <4> QED
        BY <2>2, <3>3, <3>5, <4>1, <4>2, <4>3, <4>4, PutIs DEF Write
    <3>6. CASE ins.icode = "opl"
      <4>1. t = [Put(g, ins.rB, Wrap(Exact(ins.ifun, A, B)))
                    EXCEPT !.cc = FlagsOf(ins.ifun, A, B)]
        BY <2>1, <3>6 DEF Effect
      <4>2. AluFun(ins) = ins.ifun /\ OpA(ins, s) = A /\ OpB(ins, s) = B
        BY <1>1, <2>2, <3>6
        DEF OpA, OpB, AluFun, ValA, ValB, Rd, SrcA, SrcB, Formed, Regs, RNONE
      <4>3. /\ ValE(ins, s) = Wrap(Exact(ins.ifun, A, B))
            /\ AluFlags(AluFun(ins), OpA(ins, s), OpB(ins, s)) = FlagsOf(ins.ifun, A, B)
            /\ FlagsOf(ins.ifun, A, B) \in Flags
        BY <2>3, <4>2, AluExact DEF ValE
      <4>4. DestE(ins, s) = ins.rB
        BY <3>6 DEF DestE, DstE
      <4> DEFINE u == Put(g, ins.rB, Wrap(Exact(ins.ifun, A, B)))
      <4>5. u \in IsaType /\ u.REG = [g.REG EXCEPT ![ins.rB] = ValE(ins, s)]
            /\ u.pc = g.pc /\ u.mem = g.mem /\ u.stat = g.stat
        BY <2>2, <2>3, <3>3, <4>3, PutIs
      <4>6. t = [u EXCEPT !.cc = FlagsOf(ins.ifun, A, B)]
        BY <4>1
      <4> HIDE DEF u
      <4>7. t \in IsaType /\ t.cc = FlagsOf(ins.ifun, A, B) /\ t.REG = u.REG
            /\ t.pc = u.pc /\ t.mem = u.mem /\ t.stat = u.stat
        BY <4>3, <4>5, <4>6 DEF IsaType
      <4> QED
        BY <2>2, <3>3, <3>6, <4>3, <4>4, <4>5, <4>7 DEF Write
    <3>7. CASE ins.icode = "cmpl"
      <4>1. t = [g EXCEPT !.cc = FlagsOf(1, A, B)]
        BY <2>1, <3>7 DEF Effect
      <4>2. AluFun(ins) = 1 /\ OpA(ins, s) = A /\ OpB(ins, s) = B
        BY <1>1, <2>2, <3>7
        DEF OpA, OpB, AluFun, ValA, ValB, Rd, SrcA, SrcB, Formed, Regs, RNONE
      <4>3. /\ AluFlags(AluFun(ins), OpA(ins, s), OpB(ins, s)) = FlagsOf(1, A, B)
            /\ FlagsOf(1, A, B) \in Flags
        BY <2>3, <4>2, AluExact
      <4>4. DestE(ins, s) = RNONE
        BY <3>7 DEF DestE, DstE
      <4>5. t \in IsaType /\ t.cc = FlagsOf(1, A, B) /\ t.REG = g.REG
            /\ t.pc = g.pc /\ t.mem = g.mem /\ t.stat = g.stat
        BY <2>2, <4>1, <4>3 DEF IsaType
      <4> QED
        BY <2>2, <3>7, <4>3, <4>4, <4>5 DEF Write
    <3> QED
      BY <2>6, <3>4, <3>5, <3>6, <3>7
  <2>7. CASE ins.icode = "jxx"
    <3>1. ~ Fails(ins, s) /\ DstM(ins) = RNONE /\ DestE(ins, s) = RNONE
          /\ StatOf(ins) = "AOK" /\ ins.icode \notin Writes /\ NextPc(ins, s.pc) = ins.valC
      BY <2>7 DEF Fails, Reads, Writes, NextPc, DstM, StatOf, DestE, DstE
    <3>2. ins.ifun \in 0 .. 6 /\ ins.ifun # 5
      BY <1>1, <2>7, FetchedFormed DEF Instr, Regular, ins
    <3>3. Cnd(ins, s) = Holds(ins.ifun, g.cc)
      BY <1>2, <2>2, <3>2, CondExact DEF Cnd
    <3>4. t = IF Cnd(ins, s) THEN Goto(g, ins.valC) ELSE g
      BY <2>1, <2>7, <3>3 DEF Effect
    <3>5. ins.valC \in Int
      BY <1>1 DEF Instr, Words
    <3>6. /\ t \in IsaType /\ t.stat = "AOK" /\ t.cc = s.cc /\ t.mem = s.mem /\ t.REG = s.REG
          /\ t.pc = IF Cnd(ins, s) THEN ins.valC ELSE s.pc + 1
      BY <2>2, <3>4, <3>5, GotoIs
    <3> QED
      BY <2>1, <2>7, <3>1, <3>6 DEF StepOf, Write, ins, t
  <2>8. CASE ins.icode \in Writes
    <3> DEFINE a == ValE(ins, s)
    <3>1. /\ DstM(ins) = RNONE /\ StatOf(ins) = "AOK" /\ At(ins, s) = a
          /\ ins.icode \notin {"opl", "cmpl", "ret", "jxx", "rrmovl"}
          /\ Fails(ins, s) <=> a \notin Addrs
      BY <2>8 DEF Fails, Writes, DstM, StatOf, At
    <3>2. SUFFICES /\ t \in IsaType
                   /\ t.stat = IF a \in Addrs THEN "AOK" ELSE "ADR"
                   /\ t.cc = s.cc
                   /\ t.mem = IF a \in Addrs THEN [s.mem EXCEPT ![a] = ValA(ins, s)] ELSE s.mem
                   /\ t.REG = Write(s.REG, DstE(ins), a)
                   /\ t.pc = NextPc(ins, s.pc)
      BY <2>1, <2>8, <3>1 DEF StepOf, DestE, Write, ins, t
    <3>3. a \in Words /\ ValA(ins, s) \in Words
      BY <2>3, <3>1
    <3> DEFINE A == g.REG[ins.rA]
               esp == g.REG["esp"]
    <3>4. CASE ins.icode = "rmmovl"
      <4> DEFINE B == g.REG[ins.rB]
      <4>1. t = Store(g, Wrap(B + ins.valC), A)
        BY <2>1, <3>4 DEF Effect
      <4>2. ValA(ins, s) = A /\ OpA(ins, s) = ins.valC /\ OpB(ins, s) = B /\ AluFun(ins) = 0
        BY <1>1, <2>2, <3>4
        DEF OpA, OpB, AluFun, ValA, ValB, Rd, SrcA, SrcB, Formed, Regs, RNONE
      <4>3. a = Wrap(B + ins.valC)
        BY <4>2 DEF ValE, AluResult
      <4>4. DstE(ins) = RNONE /\ NextPc(ins, s.pc) = s.pc + 1
        BY <3>4 DEF DstE, NextPc
      <4>5. t = Store(g, a, ValA(ins, s))
        BY <4>1, <4>2, <4>3
      <4> HIDE DEF a
      <4> QED
        <5> DEFINE n == ValA(ins, s)
        <5>1. n \in Words
          BY <3>3
        <5> HIDE DEF n
        <5> DEFINE u == Store(g, a, n)
        <5>2. /\ u \in IsaType /\ u.pc = g.pc /\ u.cc = g.cc /\ u.REG = g.REG
              /\ u.mem = IF a \in Addrs THEN [g.mem EXCEPT ![a] = n] ELSE g.mem
              /\ u.stat = IF a \in Addrs THEN g.stat ELSE "ADR"
          <6>1. g \in IsaType
            BY <2>2
          <6> HIDE DEF g
          <6> QED
            BY ONLY <5>1, <6>1, StoreIs
        <5>3. t = u
          BY <4>5 DEF n
        <5> HIDE DEF u
        <5> QED
          BY <2>2, <4>4, <5>2, <5>3 DEF Write, n
    <3>5. CASE ins.icode \in {"pushl", "call"}
      <4> DEFINE n == ValA(ins, s)
      <4>1. t = IF ins.icode = "pushl" THEN PushWord(g, n) ELSE Goto(PushWord(g, n), ins.valC)
        <5>1. ins.icode = "pushl" => t = PushWord(g, A)
          BY <2>1 DEF Effect
        <5>2. ins.icode = "call" => t = Goto(PushWord(g, g.pc), ins.valC)
          BY <2>1 DEF Effect
        <5>3. n = IF ins.icode = "pushl" THEN A ELSE g.pc
          BY <1>1, <2>2, <3>5 DEF ValA, Rd, SrcA, Formed, Regs, RNONE
        <5> QED
          BY <3>5, <5>1, <5>2, <5>3
      <4>2. OpA(ins, s) = -1 /\ OpB(ins, s) = esp /\ AluFun(ins) = 0
        BY <1>1, <2>2, <3>5 DEF OpA, OpB, AluFun, ValB, Rd, SrcB, Regs, RNONE
      <4>3. a = Wrap(esp - 1)
        <5>1. esp \in Int /\ esp + (-1) = esp - 1
          BY <2>3, <4>2 DEF Words
        <5>2. AluResult(0, -1, esp) = Wrap(esp + (-1))
          BY DEF AluResult
        <5> QED
          BY <4>2, <5>1, <5>2 DEF ValE
      <4>4. DstE(ins) = "esp" /\ "esp" \in Regs /\ "esp" # RNONE
            /\ NextPc(ins, s.pc) = IF ins.icode = "pushl" THEN s.pc + 1 ELSE ins.valC
        BY <3>5 DEF DstE, NextPc, Regs, RNONE
      <4> DEFINE u == Store(g, a, n)
                 v == Put(u, "esp", a)
      <4>5. PushWord(g, n) = v
        BY <4>3 DEF PushWord
      <4>0. n \in Words
        BY <3>3
      <4> HIDE DEF a, n
      <4>11. /\ u \in IsaType /\ u.pc = g.pc /\ u.cc = g.cc /\ u.REG = g.REG
             /\ u.mem = IF a \in Addrs THEN [g.mem EXCEPT ![a] = n] ELSE g.mem
             /\ u.stat = IF a \in Addrs THEN g.stat ELSE "ADR"
        <5>1. g \in IsaType
          BY <2>2
        <5> HIDE DEF g
        <5> QED
          BY ONLY <4>0, <5>1, StoreIs
      <4>6. /\ u \in IsaType /\ u.pc = s.pc + 1 /\ u.cc = s.cc /\ u.REG = s.REG
            /\ u.mem = IF a \in Addrs THEN [s.mem EXCEPT ![a] = n] ELSE s.mem
            /\ u.stat = IF a \in Addrs THEN "AOK" ELSE "ADR"
        BY <2>2, <4>11
      <4> HIDE DEF u
      <4>7. /\ v \in IsaType /\ v.pc = s.pc + 1 /\ v.cc = s.cc
            /\ v.REG = [s.REG EXCEPT !["esp"] = a] /\ v.mem = u.mem /\ v.stat = u.stat
        BY <3>3, <4>4, <4>6, PutIs
      <4> HIDE DEF v
      <4>8. ins.valC \in Int
        BY <1>1 DEF Instr, Words
      <4>9. t = IF ins.icode = "pushl" THEN v ELSE Goto(v, ins.valC)
        BY <4>1, <4>5
      <4>10. /\ t \in IsaType /\ t.cc = v.cc /\ t.mem = v.mem /\ t.stat = v.stat
             /\ t.REG = v.REG /\ t.pc = NextPc(ins, s.pc)
        BY <4>4, <4>7, <4>8, <4>9, GotoIs
      <4> QED
        BY <4>4, <4>6, <4>7, <4>10 DEF Write, n
    <3> QED
      BY <2>8, <3>4, <3>5 DEF Writes
  <2>9. CASE ins.icode \in Reads
    <3> DEFINE a == At(ins, s)
               n == s.mem[a]
               e == ValE(ins, s)
    <3>1. /\ StatOf(ins) = "AOK" /\ ins.icode \notin {"opl", "cmpl", "jxx", "rrmovl"}
          /\ ins.icode \notin Writes /\ NextPc(ins, s.pc) = s.pc + 1
          /\ Fails(ins, s) <=> a \notin Addrs
      BY <2>9 DEF Fails, Reads, Writes, StatOf, NextPc
    <3>2. SUFFICES /\ t \in IsaType
                   /\ t.stat = IF a \in Addrs THEN "AOK" ELSE "ADR"
                   /\ t.cc = s.cc /\ t.mem = s.mem
                   /\ a \in Addrs =>
                        /\ t.REG = Write(Write(s.REG, DstE(ins), e), DstM(ins), n)
                        /\ t.pc = IF ins.icode = "ret" THEN n ELSE s.pc + 1
      BY <2>1, <2>9, <3>1 DEF StepOf, DestE, Write, ins, t
    <3>3. e \in Words /\ (a \in Addrs => n \in Words /\ n \in Int)
      BY <1>2, <2>3 DEF Words
    <3>4. "esp" \in Regs /\ "ebp" \in Regs /\ "esp" # RNONE /\ "ebp" # RNONE
      BY DEF Regs, RNONE
    <3>5. CASE a \notin Addrs
      <4>1. t = Stop(g, "ADR")
        <5>1. CASE ins.icode = "mrmovl"
          <6>1. a = Wrap(g.REG[ins.rB] + ins.valC)
            BY <1>1, <2>2, <5>1
            DEF At, ValE, AluResult, OpA, OpB, AluFun, ValB, Rd, SrcB, Formed, Regs, RNONE
          <6>2. t = Load(g, a, LAMBDA w : Put(g, ins.rA, w))
            BY <2>1, <5>1, <6>1 DEF Effect
          <6> QED
            BY <3>5, <6>2 DEF Load
        <5>2. CASE ins.icode \in {"popl", "ret"}
          <6>1. a = g.REG["esp"]
            BY <2>2, <3>4, <5>2 DEF At, ValA, Rd, SrcA
          <6> QED
            BY <2>1, <3>5, <5>2, <6>1 DEF Effect, Load
        <5>3. CASE ins.icode = "leave"
          <6>1. a = g.REG["ebp"]
            BY <2>2, <3>4, <5>3 DEF At, ValA, Rd, SrcA
          <6> QED
            BY <2>1, <3>5, <5>3, <6>1 DEF Effect, Load
        <5> QED
          BY <2>9, <5>1, <5>2, <5>3 DEF Reads
      <4> QED
        BY <2>2, <3>5, <4>1, StopIs
    <3>6. CASE a \in Addrs
      <4> DEFINE up(r) == Wrap(g.REG[r] + 1)
      <4>1. \A r \in Regs : up(r) \in Words
        BY <2>2, WrapWord DEF IsaType, Words
      <4>2. n = g.mem[a]
        BY <2>2
      <4> HIDE DEF a, n, e, up
      <4>3. CASE ins.icode = "mrmovl"
        <5>1. a = Wrap(g.REG[ins.rB] + ins.valC)
          BY <1>1, <2>2, <4>3
          DEF At, ValE, AluResult, OpA, OpB, AluFun, ValB, Rd, SrcB, Formed, Regs, RNONE, a
        <5>2. t = Load(g, a, LAMBDA w : Put(g, ins.rA, w))
          BY <2>1, <4>3, <5>1 DEF Effect
        <5>3. t = Put(g, ins.rA, n)
          BY <3>6, <4>2, <5>2 DEF Load
        <5>4. DstE(ins) = RNONE /\ DstM(ins) = ins.rA /\ ins.rA \in Regs /\ ins.rA # RNONE
          BY <1>1, <4>3 DEF DstE, DstM, Formed, Regs, RNONE
        <5> QED
          BY <2>2, <3>3, <3>6, <4>3, <5>3, <5>4, PutIs DEF Write
      <4>4. CASE ins.icode = "popl"
        <5>1. a = g.REG["esp"] /\ e = up("esp")
          BY <2>2, <3>4, <4>4
          DEF At, ValE, AluResult, OpA, OpB, AluFun, ValA, ValB, Rd, SrcA, SrcB, a, e, up
        <5>2. t = Put(Put(g, "esp", up("esp")), ins.rA, n)
          BY <2>1, <3>6, <4>2, <4>4, <5>1 DEF Effect, Load, up
        <5>3. DstE(ins) = "esp" /\ DstM(ins) = ins.rA /\ ins.rA \in Regs /\ ins.rA # RNONE
          BY <1>1, <4>4 DEF DstE, DstM, Formed, Regs, RNONE
        <5> DEFINE u == Put(g, "esp", up("esp"))
        <5>4. u \in IsaType /\ u.REG = [g.REG EXCEPT !["esp"] = e] /\ u.pc = g.pc
              /\ u.cc = g.cc /\ u.mem = g.mem /\ u.stat = g.stat
          BY <2>2, <3>4, <4>1, <5>1, PutIs
        <5> HIDE DEF u
        <5>5. t = Put(u, ins.rA, n)
          BY <5>2 DEF u
        <5> QED
          BY <2>2, <3>3, <3>4, <3>6, <4>4, <5>3, <5>4, <5>5, PutIs DEF Write
      <4>5. CASE ins.icode = "ret"
        <5>1. a = g.REG["esp"] /\ e = up("esp")
          BY <2>2, <3>4, <4>5
          DEF At, ValE, AluResult, OpA, OpB, AluFun, ValA, ValB, Rd, SrcA, SrcB, a, e, up
        <5>2. t = Goto(Put(g, "esp", up("esp")), n)
          BY <2>1, <3>6, <4>2, <4>5, <5>1 DEF Effect, Load, up
        <5>3. DstE(ins) = "esp" /\ DstM(ins) = RNONE
          BY <4>5 DEF DstE, DstM
        <5> DEFINE u == Put(g, "esp", up("esp"))
        <5>4. u \in IsaType /\ u.REG = [g.REG EXCEPT !["esp"] = e] /\ u.pc = g.pc
              /\ u.cc = g.cc /\ u.mem = g.mem /\ u.stat = g.stat
          BY <2>2, <3>4, <4>1, <5>1, PutIs
        <5> HIDE DEF u
        <5>5. t = Goto(u, n)
          BY <5>2 DEF u
        <5> QED
          BY <2>2, <3>3, <3>4, <3>6, <4>5, <5>3, <5>4, <5>5, GotoIs DEF Write
      <4>6. CASE ins.icode = "leave"
        <5>1. a = g.REG["ebp"] /\ e = up("ebp")
          BY <2>2, <3>4, <4>6
          DEF At, ValE, AluResult, OpA, OpB, AluFun, ValA, ValB, Rd, SrcA, SrcB, a, e, up
        <5>2. t = Put(Put(g, "esp", up("ebp")), "ebp", n)
          BY <2>1, <3>6, <4>2, <4>6, <5>1 DEF Effect, Load, up
        <5>3. DstE(ins) = "esp" /\ DstM(ins) = "ebp"
          BY <4>6 DEF DstE, DstM
        <5> DEFINE u == Put(g, "esp", up("ebp"))
        <5>4. u \in IsaType /\ u.REG = [g.REG EXCEPT !["esp"] = e] /\ u.pc = g.pc
              /\ u.cc = g.cc /\ u.mem = g.mem /\ u.stat = g.stat
          BY <2>2, <3>4, <4>1, <5>1, PutIs
        <5> HIDE DEF u
        <5>5. t = Put(u, "ebp", n)
          BY <5>2 DEF u
        <5> QED
          BY <2>2, <3>3, <3>4, <3>6, <4>6, <5>3, <5>4, <5>5, PutIs DEF Write
      <4> QED
        BY <2>9, <4>3, <4>4, <4>5, <4>6 DEF Reads
    <3> QED
      BY <3>5, <3>6
  <2> QED
    BY <1>1, <2>5, <2>6, <2>7, <2>8, <2>9 DEF Instr, Icodes, Reads, Writes
<1> QED
  BY <1>3, <1>4

-----------------------------------------------------------------------------
(* What a clock makes of each field.                                       *)

\* The fields of the core.
CoreFields == {"F_predPC", "f_predPC", "imem_error", "f", "D", "d", "E", "e", "M", "m",
               "W", "stat", "signal", "saved_pc", "cc", "REG"}

\* The two are the same but for these fields.
SameBut(c, n, fields) == \A x \in CoreFields \ fields : n[x] = c[x]

\* A register is written, or none.
LEMMA WriteType ==
    ASSUME NEW REG \in [Regs -> Words], NEW r \in AnyReg, NEW n \in Words
    PROVE  Write(REG, r, n) \in [Regs -> Words]
BY DEF Write, AnyReg

\* One field of the core is replaced by another of its type.
LEMMA FieldTypes ==
    ASSUME NEW c \in CoreType
    PROVE  /\ \A x \in [stat : Stats, ins : Instr, valP : Int, tag : Tags] :
                [c EXCEPT !.f = x] \in CoreType
           /\ \A x \in [stat : Stats, ins : Instr, valP : Int, tag : Tags] :
                [c EXCEPT !.D = x] \in CoreType
           /\ \A x \in [srcA : AnyReg, srcB : AnyReg, dstE : AnyReg, dstM : AnyReg,
                  valA : Words, valB : Words] :
                [c EXCEPT !.d = x] \in CoreType
           /\ \A x \in [stat : Stats, ins : Instr, dstM : AnyReg, valA : Words, tag : Tags] :
                [c EXCEPT !.E = x] \in CoreType
           /\ \A x \in [valE : Words, dstE : AnyReg, cnd : BOOLEAN] :
                [c EXCEPT !.e = x] \in CoreType
           /\ \A x \in [icode : Icodes, Cnd : BOOLEAN, valE : Words, valA : Words,
                  dstE : AnyReg, dstM : AnyReg, tag : Tags] :
                [c EXCEPT !.M = x] \in CoreType
           /\ \A x \in [stat : Stats, valM : Words] :
                [c EXCEPT !.m = x] \in CoreType
           /\ \A x \in [stat : Stats, icode : Icodes, valE : Words, valM : Words,
                  dstE : AnyReg, dstM : AnyReg, tag : Tags] :
                [c EXCEPT !.W = x] \in CoreType
           /\ \A x \in Stops \cup {"AOK"} :
                [c EXCEPT !.stat = x] \in CoreType
           /\ \A x \in BOOLEAN :
                [c EXCEPT !.signal = x] \in CoreType
           /\ \A x \in Seq(Int) :
                [c EXCEPT !.saved_pc = x] \in CoreType
           /\ \A x \in Int :
                [c EXCEPT !.F_predPC = x] \in CoreType /\ [c EXCEPT !.f_predPC = x] \in CoreType
           /\ \A x \in BOOLEAN :
                [c EXCEPT !.imem_error = x] \in CoreType
           /\ \A x \in Flags :
                [c EXCEPT !.cc = x] \in CoreType
           /\ \A x \in [Regs -> Words] :
                [c EXCEPT !.REG = x] \in CoreType
<1>1. ASSUME NEW x \in [stat : Stats, ins : Instr, valP : Int, tag : Tags]
      PROVE  [c EXCEPT !.f = x] \in CoreType
  BY DEF CoreType
<1>2. ASSUME NEW x \in [stat : Stats, ins : Instr, valP : Int, tag : Tags]
      PROVE  [c EXCEPT !.D = x] \in CoreType
  BY DEF CoreType
<1>3. ASSUME NEW x \in [srcA : AnyReg, srcB : AnyReg, dstE : AnyReg, dstM : AnyReg,
                    valA : Words, valB : Words]
      PROVE  [c EXCEPT !.d = x] \in CoreType
  BY DEF CoreType
<1>4. ASSUME NEW x \in [stat : Stats, ins : Instr, dstM : AnyReg, valA : Words, tag : Tags]
      PROVE  [c EXCEPT !.E = x] \in CoreType
  BY DEF CoreType
<1>5. ASSUME NEW x \in [valE : Words, dstE : AnyReg, cnd : BOOLEAN]
      PROVE  [c EXCEPT !.e = x] \in CoreType
  BY DEF CoreType
<1>6. ASSUME NEW x \in [icode : Icodes, Cnd : BOOLEAN, valE : Words, valA : Words,
                    dstE : AnyReg, dstM : AnyReg, tag : Tags]
      PROVE  [c EXCEPT !.M = x] \in CoreType
  BY DEF CoreType
<1>7. ASSUME NEW x \in [stat : Stats, valM : Words]
      PROVE  [c EXCEPT !.m = x] \in CoreType
  BY DEF CoreType
<1>8. ASSUME NEW x \in [stat : Stats, icode : Icodes, valE : Words, valM : Words,
                    dstE : AnyReg, dstM : AnyReg, tag : Tags]
      PROVE  [c EXCEPT !.W = x] \in CoreType
  BY DEF CoreType
<1>9. ASSUME NEW x \in Stops \cup {"AOK"}
      PROVE  [c EXCEPT !.stat = x] \in CoreType
  BY DEF CoreType
<1>10. ASSUME NEW x \in BOOLEAN
      PROVE  [c EXCEPT !.signal = x] \in CoreType
  BY DEF CoreType
<1>11. ASSUME NEW x \in Seq(Int)
      PROVE  [c EXCEPT !.saved_pc = x] \in CoreType
  BY DEF CoreType
<1>12. ASSUME NEW x \in Flags
      PROVE  [c EXCEPT !.cc = x] \in CoreType
  BY DEF CoreType
<1>13. ASSUME NEW x \in [Regs -> Words]
      PROVE  [c EXCEPT !.REG = x] \in CoreType
  BY DEF CoreType
<1>14. ASSUME NEW x \in Int
       PROVE  [c EXCEPT !.F_predPC = x] \in CoreType /\ [c EXCEPT !.f_predPC = x] \in CoreType
  BY DEF CoreType
<1>15. ASSUME NEW x \in BOOLEAN
       PROVE  [c EXCEPT !.imem_error = x] \in CoreType
  BY DEF CoreType
<1> QED
  BY <1>1, <1>2, <1>3, <1>4, <1>5, <1>6, <1>7, <1>8, <1>9, <1>10, <1>11, <1>12, <1>13,
     <1>14, <1>15

\* A request goes to the instruction in F and is reset.
LEMMA SignalledIs ==
    ASSUME NEW c \in CoreType
    PROVE  LET n == Signalled(c) IN
           /\ n \in CoreType
           /\ SameBut(c, n, {"signal", "f"})
           /\ n.signal = FALSE
           /\ n.f = [c.f EXCEPT !.stat = IF c.signal THEN "SPD" ELSE c.f.stat]
<1> DEFINE n == Signalled(c)
           f == [c.f EXCEPT !.stat = IF c.signal THEN "SPD" ELSE c.f.stat]
<1>1. f \in [stat : Stats, ins : Instr, valP : Int, tag : Tags]
  BY DEF CoreType, Stats, Stops
<1>2. n = [c EXCEPT !.signal = FALSE, !.f = f]
  <2>1. CASE c.signal
    BY <2>1 DEF Signalled, CoreType
  <2>2. CASE ~ c.signal
    <3>1. c.f = f
      BY <2>2 DEF CoreType
    <3>2. c.signal = FALSE /\ n = c
      BY <2>2 DEF CoreType, Signalled
    <3> HIDE DEF n, f
    <3> QED
      BY <3>1, <3>2 DEF CoreType
  <2> QED
    BY <2>1, <2>2
<1> HIDE DEF f
<1>3. n \in CoreType /\ n.signal = FALSE /\ n.f = f
  <2>1. n.signal = FALSE /\ n.f = f
    BY <1>2 DEF CoreType
  <2>2. n \in CoreType
    <3> DEFINE n1 == [c EXCEPT !.signal = FALSE]
    <3>1. n1 \in CoreType
      BY <1>1, FieldTypes
    <3>2. n = [n1 EXCEPT !.f = f]
      BY <1>2
    <3> HIDE DEF n, n1
    <3> QED
      BY <3>1, <3>2, <1>1, FieldTypes
  <2> QED
    BY <2>1, <2>2
<1>4. SameBut(c, n, {"signal", "f"})
  BY <1>2 DEF SameBut, CoreFields, CoreType
<1> QED
  BY <1>3, <1>4 DEF f

\* Stage W, field by field.
LEMMA StageWIs ==
    ASSUME NEW c \in CoreType
    PROVE  LET n == StageW(c) IN
           /\ n \in CoreType
           /\ SameBut(c, n, {"W", "REG", "stat"})
           /\ n.W = [stat |-> c.m.stat, icode |-> c.M.icode,
                     valE |-> c.M.valE, valM |-> c.m.valM,
                     dstE |-> c.M.dstE, dstM |-> c.M.dstM, tag |-> c.M.tag]
           /\ n.REG = Write(Write(c.REG, c.M.dstE, c.M.valE), c.M.dstM, c.m.valM)
           /\ n.stat = IF c.m.stat = "BUB" THEN "AOK" ELSE c.m.stat
<1> DEFINE n == StageW(c)
           W == [stat |-> c.m.stat, icode |-> c.M.icode,
                 valE |-> c.M.valE, valM |-> c.m.valM,
                 dstE |-> c.M.dstE, dstM |-> c.M.dstM, tag |-> c.M.tag]
           REG == Write(Write(c.REG, c.M.dstE, c.M.valE), c.M.dstM, c.m.valM)
           stat == IF c.m.stat = "BUB" THEN "AOK" ELSE c.m.stat
<1>1. n = [c EXCEPT !.W = W, !.REG = REG, !.stat = stat]
  BY DEF StageW
<1>2. REG \in [Regs -> Words]
  <2>1. Write(c.REG, c.M.dstE, c.M.valE) \in [Regs -> Words]
    BY WriteType DEF CoreType
  <2> QED
    BY <2>1, WriteType DEF CoreType
<1>3. stat \in Stops \cup {"AOK"}
  BY DEF CoreType, Stats
<1>4. W \in [stat : Stats, icode : Icodes, valE : Words, valM : Words,
             dstE : AnyReg, dstM : AnyReg, tag : Tags]
  BY DEF CoreType
<1> HIDE DEF W, REG, stat
<1>5. n \in CoreType /\ n.W = W /\ n.REG = REG /\ n.stat = stat
  <2>1. n.W = W /\ n.REG = REG /\ n.stat = stat
    BY <1>1 DEF CoreType
  <2>2. n \in CoreType
    <3> DEFINE n1 == [c EXCEPT !.W = W]
               n2 == [n1 EXCEPT !.REG = REG]
    <3>1. n1 \in CoreType
      BY <1>4, FieldTypes
    <3>2. n2 \in CoreType
      <4> HIDE DEF n1
      <4> QED
        BY <3>1, <1>2, FieldTypes
    <3>3. n = [n2 EXCEPT !.stat = stat]
      BY <1>1
    <3> HIDE DEF n, n2
    <3> QED
      BY <3>2, <3>3, <1>3, FieldTypes
  <2> QED
    BY <2>1, <2>2
<1>6. SameBut(c, n, {"W", "REG", "stat"})
  BY <1>1 DEF SameBut, CoreFields, CoreType
<1> QED
  BY <1>5, <1>6 DEF W, REG, stat

\* Stage M, field by field.
LEMMA StageMIs ==
    ASSUME NEW c \in CoreType, mem \in [Addrs -> Words], NEW bubble \in BOOLEAN
    PROVE  LET n == StageM(c, bubble) IN
           /\ n \in CoreType
           /\ SameBut(c, n, {"M", "m"})
           /\ bubble => /\ n.M.icode = "nop" /\ n.M.dstE = RNONE /\ n.M.dstM = RNONE
                        /\ n.M.tag = NULL /\ n.m.stat = c.m.stat
           /\ ~ bubble =>
                /\ n.M = [icode |-> c.E.ins.icode, Cnd |-> c.e.cnd, valE |-> c.e.valE,
                          valA |-> c.E.valA, dstE |-> c.e.dstE, dstM |-> c.E.dstM,
                          tag |-> c.E.tag]
                /\ n.m.stat = IF DmemError(c) THEN "ADR" ELSE c.E.stat
                /\ n.m.valM = IF c.E.ins.icode \notin Reads THEN c.m.valM
                              ELSE IF DmemError(c) THEN 0 ELSE mem[MemAddr(c)]
<1> DEFINE n == StageM(c, bubble)
           MType == [icode : Icodes, Cnd : BOOLEAN, valE : Words, valA : Words,
                     dstE : AnyReg, dstM : AnyReg, tag : Tags]
           mType == [stat : Stats, valM : Words]
<1>0. 0 \in Words
  BY WordsAssumption DEF Words
<1>1. CASE bubble
  <2> DEFINE M == [c.M EXCEPT !.icode = "nop", !.dstE = RNONE, !.dstM = RNONE, !.tag = NULL]
             m == [c.m EXCEPT !.valM = 0]
  <2>1. n = [c EXCEPT !.M = M, !.m = m]
    BY <1>1 DEF StageM, CoreType
  <2>2. M \in MType /\ m \in mType /\ M.icode = "nop" /\ M.dstE = RNONE /\ M.dstM = RNONE
        /\ M.tag = NULL /\ m.stat = c.m.stat
    BY <1>0 DEF CoreType, Icodes, AnyReg, Tags
  <2> HIDE DEF M, m
  <2>3. n \in CoreType /\ n.M = M /\ n.m = m
    <3>1. n.M = M /\ n.m = m
      BY <2>1 DEF CoreType
    <3>2. n \in CoreType
      <4> DEFINE n1 == [c EXCEPT !.M = M]
      <4>1. n1 \in CoreType
        BY <2>2, FieldTypes
      <4>2. n = [n1 EXCEPT !.m = m]
        BY <2>1
      <4> HIDE DEF n, n1
      <4> QED
        BY <4>1, <4>2, <2>2, FieldTypes
    <3> QED
      BY <3>1, <3>2
  <2>4. SameBut(c, n, {"M", "m"})
    BY <2>1 DEF SameBut, CoreFields, CoreType
  <2> QED
    BY <1>1, <2>2, <2>3, <2>4
<1>2. CASE ~ bubble
  <2> DEFINE M == [icode |-> c.E.ins.icode, Cnd |-> c.e.cnd, valE |-> c.e.valE,
                   valA |-> c.E.valA, dstE |-> c.e.dstE, dstM |-> c.E.dstM, tag |-> c.E.tag]
             m == [stat |-> IF DmemError(c) THEN "ADR" ELSE c.E.stat,
                   valM |-> IF c.E.ins.icode \notin Reads THEN c.m.valM
                            ELSE IF DmemError(c) THEN 0 ELSE mem[MemAddr(c)]]
  <2>1. n = [c EXCEPT !.M = M, !.m = m]
    BY <1>2 DEF StageM, CoreType
  <2>2. M \in MType
    BY DEF CoreType, Instr
  <2>3. m \in mType
    <3>1. c.E.ins.icode \in Reads /\ ~ DmemError(c) => mem[MemAddr(c)] \in Words
      BY DEF DmemError
    <3> QED
      BY <1>0, <3>1 DEF CoreType, Stats, Stops
  <2>4. m.stat = IF DmemError(c) THEN "ADR" ELSE c.E.stat
    OBVIOUS
  <2>5. m.valM = IF c.E.ins.icode \notin Reads THEN c.m.valM
                 ELSE IF DmemError(c) THEN 0 ELSE mem[MemAddr(c)]
    OBVIOUS
  <2> HIDE DEF M, m
  <2>6. n \in CoreType /\ n.M = M /\ n.m = m
    <3>1. n.M = M /\ n.m = m
      BY <2>1 DEF CoreType
    <3>2. n \in CoreType
      <4> DEFINE n1 == [c EXCEPT !.M = M]
      <4>1. n1 \in CoreType
        BY <2>2, FieldTypes
      <4>2. n = [n1 EXCEPT !.m = m]
        BY <2>1
      <4> HIDE DEF n, n1
      <4> QED
        BY <4>1, <4>2, <2>3, FieldTypes
    <3> QED
      BY <3>1, <3>2
  <2>7. SameBut(c, n, {"M", "m"})
    BY <2>1 DEF SameBut, CoreFields, CoreType
  <2> QED
    BY <1>2, <2>4, <2>5, <2>6, <2>7 DEF M
<1> QED
  BY <1>1, <1>2

\* The ALU is given words.
LEMMA AluInputs ==
    ASSUME NEW c \in CoreType, c.D.ins.icode = "opl" => c.D.ins.ifun \in 0 .. 3
    PROVE  AluA(c) \in Words /\ AluB(c) \in Words /\ AluFun(c.D.ins) \in 0 .. 3
<1>1. {-1, 0, 1} \subseteq Words
  BY WordsAssumption DEF Words
<1>2. c.D.ins.valC \in Words /\ c.d.valA \in Words /\ c.d.valB \in Words
  BY DEF CoreType, Instr
<1> QED
  BY <1>1, <1>2 DEF AluA, AluB, AluFun

\* A queue without its front is a queue.
LEMMA PoppedType ==
    ASSUME NEW saved \in Seq(Int), NEW stat
    PROVE  Popped(saved, stat) \in Seq(Int)
BY DEF Popped

\* Stage E, field by field.
LEMMA StageEIs ==
    ASSUME NEW c \in CoreType, NEW bubble \in BOOLEAN,
           c.D.ins.icode = "opl" => c.D.ins.ifun \in 0 .. 3
    PROVE  LET n == StageE(c, bubble) IN
           /\ n \in CoreType
           /\ SameBut(c, n, {"E", "e", "cc", "saved_pc"})
           /\ bubble => /\ n.E = [stat |-> "BUB", ins |-> Nop, dstM |-> RNONE, valA |-> 0,
                                  tag |-> NULL]
                        /\ n.e.dstE = RNONE /\ n.cc = c.cc
                        /\ n.saved_pc = Popped(c.saved_pc, c.E.stat)
           /\ ~ bubble =>
                /\ n.E = [stat |-> c.D.stat, ins |-> c.D.ins, dstM |-> c.d.dstM,
                          valA |-> c.d.valA, tag |-> c.D.tag]
                /\ n.e.valE = AluResult(AluFun(c.D.ins), AluA(c), AluB(c))
                /\ n.e.cnd = getcnd(c.D.ins.ifun, n.cc)
                /\ n.e.dstE = IF c.D.ins.icode = "rrmovl" /\ ~ n.e.cnd THEN RNONE
                              ELSE c.d.dstE
                /\ n.cc = IF SetCc(c) THEN AluFlags(AluFun(c.D.ins), AluA(c), AluB(c))
                          ELSE c.cc
                /\ n.saved_pc = c.saved_pc
<1> DEFINE n == StageE(c, bubble)
           EType == [stat : Stats, ins : Instr, dstM : AnyReg, valA : Words, tag : Tags]
           eType == [valE : Words, dstE : AnyReg, cnd : BOOLEAN]
<1>0. 0 \in Words
  BY WordsAssumption DEF Words
<1>1. CASE bubble
  <2> DEFINE E == [stat |-> "BUB", ins |-> Nop, dstM |-> RNONE, valA |-> 0, tag |-> NULL]
             e == [c.e EXCEPT !.valE = 0, !.dstE = RNONE]
             saved == Popped(c.saved_pc, c.E.stat)
  <2>1. n = [c EXCEPT !.saved_pc = saved, !.E = E, !.e = e]
    BY <1>1 DEF StageE, CoreType
  <2>2. E \in EType
    BY <1>0, IdleFormed DEF Formed, Stats, AnyReg, Tags
  <2>3. e \in eType /\ e.dstE = RNONE
    BY <1>0 DEF CoreType, AnyReg
  <2>4. saved \in Seq(Int)
    BY PoppedType DEF CoreType
  <2> HIDE DEF E, e, saved
  <2>5. n \in CoreType /\ n.E = E /\ n.e = e /\ n.saved_pc = saved /\ n.cc = c.cc
    <3>1. n.E = E /\ n.e = e /\ n.saved_pc = saved /\ n.cc = c.cc
      BY <2>1 DEF CoreType
    <3>2. n \in CoreType
      <4> DEFINE n1 == [c EXCEPT !.E = E]
                 n2 == [n1 EXCEPT !.e = e]
      <4>1. n1 \in CoreType
        BY <2>2, FieldTypes
      <4>2. n2 \in CoreType
        <5> HIDE DEF n1
        <5> QED
          BY <4>1, <2>3, FieldTypes
      <4>3. n = [n2 EXCEPT !.saved_pc = saved]
        BY <2>1
      <4> HIDE DEF n, n2
      <4> QED
        BY <4>2, <4>3, <2>4, FieldTypes
    <3> QED
      BY <3>1, <3>2
  <2>6. SameBut(c, n, {"E", "e", "cc", "saved_pc"})
    BY <2>1 DEF SameBut, CoreFields, CoreType
  <2> QED
    BY <1>1, <2>3, <2>5, <2>6 DEF E, saved
<1>2. CASE ~ bubble
  <2> DEFINE fun == AluFun(c.D.ins)
             cc == IF SetCc(c) THEN AluFlags(fun, AluA(c), AluB(c)) ELSE c.cc
             cnd == getcnd(c.D.ins.ifun, cc)
             E == [stat |-> c.D.stat, ins |-> c.D.ins, dstM |-> c.d.dstM,
                   valA |-> c.d.valA, tag |-> c.D.tag]
             e == [valE |-> AluResult(fun, AluA(c), AluB(c)),
                   dstE |-> IF c.D.ins.icode = "rrmovl" /\ ~ cnd THEN RNONE ELSE c.d.dstE,
                   cnd |-> cnd]
  <2>1. n = [c EXCEPT !.E = E, !.e = e, !.cc = cc]
    BY <1>2 DEF StageE
  <2>2. AluResult(fun, AluA(c), AluB(c)) \in Words
        /\ AluFlags(fun, AluA(c), AluB(c)) \in Flags
    BY AluInputs, AluExact
  <2>3. cc \in Flags
    BY <2>2 DEF CoreType
  <2>4. cnd \in BOOLEAN
    BY <2>3, CondBoolean DEF CoreType, Instr
  <2>5. E \in EType
    BY DEF CoreType
  <2>6. e \in eType
    BY <2>2, <2>4 DEF CoreType, AnyReg
  <2>7. e.valE = AluResult(fun, AluA(c), AluB(c)) /\ e.cnd = cnd
        /\ e.dstE = IF c.D.ins.icode = "rrmovl" /\ ~ cnd THEN RNONE ELSE c.d.dstE
    OBVIOUS
  <2>8. cnd = getcnd(c.D.ins.ifun, cc)
    OBVIOUS
  <2> HIDE DEF E, e, cc, cnd
  <2>9. n \in CoreType /\ n.E = E /\ n.e = e /\ n.saved_pc = c.saved_pc /\ n.cc = cc
    <3>1. n.E = E /\ n.e = e /\ n.saved_pc = c.saved_pc /\ n.cc = cc
      BY <2>1 DEF CoreType
    <3>2. n \in CoreType
      <4> DEFINE n1 == [c EXCEPT !.E = E]
                 n2 == [n1 EXCEPT !.e = e]
      <4>1. n1 \in CoreType
        BY <2>5, FieldTypes
      <4>2. n2 \in CoreType
        <5> HIDE DEF n1
        <5> QED
          BY <4>1, <2>6, FieldTypes
      <4>3. n = [n2 EXCEPT !.cc = cc]
        BY <2>1
      <4> HIDE DEF n, n2
      <4> QED
        BY <4>2, <4>3, <2>3, FieldTypes
    <3> QED
      BY <3>1, <3>2
  <2>10. SameBut(c, n, {"E", "e", "cc", "saved_pc"})
    BY <2>1 DEF SameBut, CoreFields, CoreType
  <2> QED
    BY <1>2, <2>7, <2>8, <2>9, <2>10 DEF E, cc
<1> QED
  BY <1>1, <1>2

\* What stage D reads for an instruction with this valP.
Reading(c, ins, valP) ==
    [srcA |-> SrcA(ins), srcB |-> SrcB(ins), dstE |-> DstE(ins), dstM |-> DstM(ins),
     valA |-> IF ins.icode \in {"call", "jxx"} THEN valP ELSE Forward(c, SrcA(ins)),
     valB |-> Forward(c, SrcB(ins))]

\* An instruction names registers, or none.
LEMMA RegsOf ==
    ASSUME NEW ins \in Instr
    PROVE  {SrcA(ins), SrcB(ins), DstE(ins), DstM(ins)} \subseteq AnyReg
BY DEF SrcA, SrcB, DstE, DstM, AnyReg, Regs, Instr

\* Reading the operands, field by field.
LEMMA DecodedIs ==
    ASSUME NEW c \in CoreType, c.D.ins.icode \in {"call", "jxx"} => c.D.valP \in Words
    PROVE  LET n == Decoded(c) IN
           /\ n \in CoreType
           /\ SameBut(c, n, {"d"})
           /\ n.d = Reading(c, c.D.ins, c.D.valP)
<1> DEFINE n == Decoded(c)
           ins == c.D.ins
           d == Reading(c, ins, c.D.valP)
           dType == [srcA : AnyReg, srcB : AnyReg, dstE : AnyReg, dstM : AnyReg,
                     valA : Words, valB : Words]
<1>1. n = [c EXCEPT !.d = d]
  BY DEF Decoded, Reading
<1>2. {SrcA(ins), SrcB(ins), DstE(ins), DstM(ins)} \subseteq AnyReg
  BY RegsOf DEF CoreType
<1>3. \A r \in AnyReg : Forward(c, r) \in Words
  <2>1. 0 \in Words
    BY WordsAssumption DEF Words
  <2> QED
    BY <2>1 DEF Forward, AnyReg, CoreType
<1>4. d \in dType
  BY <1>2, <1>3 DEF Reading
<1> HIDE DEF d
<1>5. n \in CoreType /\ n.d = d
  BY <1>1, <1>4 DEF CoreType
<1>6. SameBut(c, n, {"d"})
  BY <1>1 DEF SameBut, CoreFields, CoreType
<1> QED
  BY <1>5, <1>6 DEF d

\* Stage D, field by field.
LEMMA StageDIs ==
    ASSUME NEW c \in CoreType, NEW stall \in BOOLEAN, NEW bubble \in BOOLEAN,
           c.D.ins.icode \in {"call", "jxx"} => c.D.valP \in Words,
           c.f.ins.icode \in {"call", "jxx"} => c.f.valP \in Words
    PROVE  LET n == StageD(c, stall, bubble) IN
           /\ n \in CoreType
           /\ SameBut(c, n, {"D", "d", "saved_pc"})
           /\ n.D = IF stall THEN c.D ELSE IF bubble THEN Squashed(c.f) ELSE c.f
           /\ stall \/ ~ bubble => n.d = Reading(c, n.D.ins, n.D.valP)
           /\ ~ stall /\ bubble => /\ n.d.srcA = RNONE /\ n.d.srcB = RNONE
                                  /\ n.d.dstE = RNONE /\ n.d.dstM = RNONE
           /\ n.saved_pc = IF ~ stall /\ bubble THEN Popped(c.saved_pc, c.f.stat)
                           ELSE c.saved_pc
<1> DEFINE n == StageD(c, stall, bubble)
<1>1. CASE stall
  <2>1. n = Decoded(c)
    BY <1>1 DEF StageD
  <2>2. /\ n \in CoreType /\ SameBut(c, n, {"d"}) /\ n.d = Reading(c, c.D.ins, c.D.valP)
    BY <2>1, DecodedIs
  <2> HIDE DEF n
  <2>3. n.D = c.D /\ n.saved_pc = c.saved_pc
    BY <2>2 DEF SameBut, CoreFields
  <2>4. SameBut(c, n, {"D", "d", "saved_pc"})
    BY <2>2 DEF SameBut
  <2> QED
    BY <1>1, <2>2, <2>3, <2>4 DEF n
<1>2. CASE ~ stall /\ bubble
  <2> DEFINE D == Squashed(c.f)
             d == [c.d EXCEPT !.srcA = RNONE, !.srcB = RNONE, !.dstE = RNONE,
                              !.dstM = RNONE]
             saved == Popped(c.saved_pc, c.f.stat)
  <2>1. n = [c EXCEPT !.saved_pc = saved, !.D = D, !.d = d]
    BY <1>2 DEF StageD, CoreType
  <2>2. D \in [stat : Stats, ins : Instr, valP : Int, tag : Tags]
    BY IdleFormed DEF Squashed, Formed, Stats, Tags
  <2>3. /\ d \in [srcA : AnyReg, srcB : AnyReg, dstE : AnyReg, dstM : AnyReg,
                  valA : Words, valB : Words]
        /\ d.srcA = RNONE /\ d.srcB = RNONE /\ d.dstE = RNONE /\ d.dstM = RNONE
    BY DEF CoreType, AnyReg
  <2>4. saved \in Seq(Int)
    BY PoppedType DEF CoreType
  <2> HIDE DEF D, d, saved
  <2>5. n \in CoreType /\ n.D = D /\ n.d = d /\ n.saved_pc = saved
    <3>1. n.D = D /\ n.d = d /\ n.saved_pc = saved
      BY <2>1 DEF CoreType
    <3>2. n \in CoreType
      <4> DEFINE n1 == [c EXCEPT !.D = D]
                 n2 == [n1 EXCEPT !.d = d]
      <4>1. n1 \in CoreType
        BY <2>2, FieldTypes
      <4>2. n2 \in CoreType
        <5> HIDE DEF n1
        <5> QED
          BY <4>1, <2>3, FieldTypes
      <4>3. n = [n2 EXCEPT !.saved_pc = saved]
        BY <2>1
      <4> HIDE DEF n, n2
      <4> QED
        BY <4>2, <4>3, <2>4, FieldTypes
    <3> QED
      BY <3>1, <3>2
  <2>6. SameBut(c, n, {"D", "d", "saved_pc"})
    BY <2>1 DEF SameBut, CoreFields, CoreType
  <2> QED
    BY <1>2, <2>3, <2>5, <2>6 DEF D, saved
<1>3. CASE ~ stall /\ ~ bubble
  <2> DEFINE b == [c EXCEPT !.D = c.f]
  <2>1. n = Decoded(b)
    BY <1>3 DEF StageD
  <2>2. /\ b \in CoreType /\ b.D = c.f
        /\ b.e = c.e /\ b.M = c.M /\ b.m = c.m /\ b.W = c.W /\ b.REG = c.REG
        /\ b.saved_pc = c.saved_pc
    BY DEF CoreType
  <2>3. SameBut(c, b, {"D"})
    BY DEF SameBut, CoreFields, CoreType
  <2> HIDE DEF b
  <2>4. /\ n \in CoreType /\ SameBut(b, n, {"d"}) /\ n.d = Reading(b, c.f.ins, c.f.valP)
    BY <2>1, <2>2, DecodedIs
  <2>5. \A r : Forward(b, r) = Forward(c, r)
    BY <2>2 DEF Forward
  <2>6. Reading(b, c.f.ins, c.f.valP) = Reading(c, c.f.ins, c.f.valP)
    BY <2>5 DEF Reading
  <2> HIDE DEF n
  <2>7. n.D = c.f /\ n.saved_pc = c.saved_pc
    BY <2>2, <2>4 DEF SameBut, CoreFields
  <2>8. SameBut(c, n, {"D", "d", "saved_pc"})
    BY <2>3, <2>4 DEF SameBut
  <2> QED
    BY <1>3, <2>4, <2>6, <2>7, <2>8 DEF n
<1> QED
  BY <1>1, <1>2, <1>3

\* The status stage F gives an instruction, when the one before had that status.
FetchedStat(error, ins, before) ==
    IF error THEN "ADR"
    ELSE IF StatOf(ins) # "AOK" THEN StatOf(ins)
    ELSE IF before = "SPD" THEN "SPD" ELSE "AOK"

\* Stage F, field by field.
LEMMA StageFIs ==
    ASSUME NEW c \in CoreType, NEW stall \in BOOLEAN, WellFormed(prog)
    PROVE  LET n == StageF(c, stall)
               pc == FetchPc(n)
               ins == IF n.imem_error THEN Nop ELSE InstrAt(prog, pc)
           IN
           /\ n \in CoreType
           /\ SameBut(c, n, {"F_predPC", "f_predPC", "imem_error", "f", "saved_pc"})
           /\ n.F_predPC = PredPC(c, stall)
           /\ n.imem_error = (c.imem_error \/ ~ InText(pc))
           /\ n.f = [stat |-> FetchedStat(n.imem_error, ins, c.f.stat), ins |-> ins,
                     valP |-> pc + 1, tag |-> pc]
           /\ pc \in Int
           /\ n.f_predPC = NextPc(ins, pc)
           /\ n.saved_pc = IF n.f.stat \in Saves THEN Append(c.saved_pc, n.f_predPC)
                           ELSE c.saved_pc
<1> DEFINE n == StageF(c, stall)
           F_predPC == PredPC(c, stall)
           c1 == [c EXCEPT !.F_predPC = F_predPC]
           pc == FetchPc(c1)
           imem_error == c.imem_error \/ pc < 0 \/ pc >= PcLimit
           c2 == [c1 EXCEPT !.imem_error = @ \/ pc < 0 \/ pc >= PcLimit]
           ins == IF imem_error THEN Nop ELSE InstrAt(prog, pc)
           stat == FetchedStat(imem_error, ins, c.f.stat)
           next == NextPc(ins, pc)
           saved == IF stat \in Saves THEN Append(c.saved_pc, next) ELSE c.saved_pc
           f == [stat |-> stat, ins |-> ins, valP |-> pc + 1, tag |-> pc]
<1>1. F_predPC \in Int
  BY DEF PredPC, CoreType
<1> HIDE DEF F_predPC
<1>2. /\ c1 \in CoreType /\ c1.F_predPC = F_predPC /\ c1.M = c.M /\ c1.W = c.W
      /\ c1.imem_error = c.imem_error /\ c1.f = c.f /\ c1.saved_pc = c.saved_pc
      /\ SameBut(c, c1, {"F_predPC"})
  BY <1>1 DEF CoreType, SameBut, CoreFields
<1> HIDE DEF c1
<1>3. pc \in Int
  <2>1. \A w \in Words : w \in Int
    BY WordsAssumption DEF Words
  <2>2. c1.F_predPC \in Int /\ c1.M.valA \in Words /\ c1.W.valM \in Words
    BY <1>2 DEF CoreType
  <2> QED
    BY <2>1, <2>2 DEF FetchPc
<1> HIDE DEF pc
<1>4. imem_error \in BOOLEAN /\ imem_error = (c.imem_error \/ ~ InText(pc))
  BY <1>3, PipelineAssumption DEF InText, CoreType
<1>5. c2 = [c1 EXCEPT !.imem_error = imem_error]
  BY <1>2 DEF CoreType
<1> HIDE DEF imem_error, c2
<1>6. /\ c2 \in CoreType /\ c2.F_predPC = F_predPC /\ c2.imem_error = imem_error
      /\ c2.f = c.f /\ c2.saved_pc = c.saved_pc
      /\ SameBut(c, c2, {"F_predPC", "imem_error"})
  <2>1. c2 \in CoreType
    BY <1>2, <1>4, <1>5, FieldTypes
  <2>2. /\ DOMAIN c1 = CoreFields
        /\ c2.F_predPC = c1.F_predPC /\ c2.imem_error = imem_error
        /\ c2.f = c1.f /\ c2.saved_pc = c1.saved_pc
        /\ SameBut(c1, c2, {"imem_error"})
    <3>1. c1 \in CoreType
      BY <1>2
    <3> QED
      BY ONLY <1>5, <3>1 DEF CoreType, SameBut, CoreFields
  <2> QED
    BY <1>2, <2>1, <2>2 DEF SameBut
<1>7. ins \in Instr
  BY FetchedFormed, IdleFormed DEF Formed
<1> HIDE DEF ins
<1>8. FetchStat(c2, ins) = stat
  BY <1>6 DEF FetchStat, FetchedStat, StatOf
<1>9. stat \in Stats
  BY DEF FetchedStat, StatOf, Stats, Stops
<1>10. next \in Int
  BY <1>3, <1>7 DEF NextPc, Instr, Words
<1>11. n = [c2 EXCEPT !.f = f, !.f_predPC = next, !.saved_pc = saved]
  <2>1. n = [c2 EXCEPT !.f = [stat |-> FetchStat(c2, ins), ins |-> ins,
                              valP |-> pc + 1, tag |-> pc],
                       !.f_predPC = next,
                       !.saved_pc = IF FetchStat(c2, ins) \in {"SYS", "SPD"}
                                    THEN Append(@, next) ELSE @]
    <3>1. ins = IF c2.imem_error THEN Nop ELSE InstrAt(prog, pc)
      BY <1>6 DEF ins
    <3>2. next = IF ins.icode \in {"jxx", "call"} THEN ins.valC ELSE pc + 1
      BY DEF NextPc
    <3> HIDE DEF next
    <3> QED
      BY <3>1, <3>2 DEF StageF, F_predPC, c1, pc, c2
  <2>2. saved = IF stat \in {"SYS", "SPD"} THEN Append(c2.saved_pc, next) ELSE c2.saved_pc
    BY <1>6 DEF Saves
  <2> HIDE DEF saved, next, stat
  <2> QED
    BY <1>6, <1>8, <2>1, <2>2 DEF CoreType
<1>12. saved \in Seq(Int)
  BY <1>10 DEF CoreType
<1>13. f \in [stat : Stats, ins : Instr, valP : Int, tag : Tags]
       /\ f.stat = stat
  BY <1>3, <1>7, <1>9 DEF Tags
<1> HIDE DEF stat, next, saved, f
<1>14. /\ n \in CoreType /\ n.F_predPC = F_predPC /\ n.imem_error = imem_error /\ n.f = f
       /\ n.f_predPC = next /\ n.saved_pc = saved /\ n.M = c2.M /\ n.W = c2.W
  <2> HIDE DEF n
  <2>1. DOMAIN c2 = CoreFields
    BY <1>6 DEF CoreType, CoreFields
  <2>2. n.f = f /\ n.f_predPC = next /\ n.saved_pc = saved
    BY <1>11, <2>1 DEF CoreFields
  <2>3. SameBut(c2, n, {"f", "f_predPC", "saved_pc"})
    BY <1>11, <2>1 DEF SameBut, CoreFields
  <2>4. n \in CoreType
    <3> DEFINE n1 == [c2 EXCEPT !.f = f]
               n2 == [n1 EXCEPT !.f_predPC = next]
               n3 == [n2 EXCEPT !.saved_pc = saved]
    <3>1. n1 \in CoreType
      BY <1>6, <1>13, FieldTypes
    <3> HIDE DEF n1
    <3>2. n2 \in CoreType
      BY <1>10, <3>1, FieldTypes
    <3> HIDE DEF n2
    <3>3. n3 \in CoreType
      BY <1>12, <3>2, FieldTypes
    <3>4. n = n3
      BY ONLY <1>11 DEF n1, n2
    <3> QED
      BY <3>3, <3>4
  <2> QED
    BY <1>6, <2>2, <2>3, <2>4 DEF SameBut, CoreFields
<1>15. SameBut(c, n, {"F_predPC", "f_predPC", "imem_error", "f", "saved_pc"})
  BY <1>6, <1>11 DEF SameBut, CoreFields, CoreType
<1>16. FetchPc(n) = pc
  <2>1. n.M = c.M /\ n.W = c.W
    BY <1>15 DEF SameBut, CoreFields
  <2> QED
    BY <1>2, <1>14, <2>1 DEF FetchPc, pc
<1> HIDE DEF n
<1>17. n.saved_pc = IF n.f.stat \in Saves THEN Append(c.saved_pc, n.f_predPC) ELSE c.saved_pc
  BY <1>13, <1>14 DEF saved
<1> QED
  BY <1>3, <1>4, <1>14, <1>15, <1>16, <1>17 DEF n, ins, stat, next, f, F_predPC

Bubbles == PipeLogic(core)

\* The status of the instruction in F, with a request to suspend.
FStatus == IF core.signal THEN "SPD" ELSE core.f.stat

\* The fields after a clock, stage by stage.
ClockW ==
    /\ core'.W = [stat |-> core.m.stat, icode |-> core.M.icode,
                  valE |-> core.M.valE, valM |-> core.m.valM,
                  dstE |-> core.M.dstE, dstM |-> core.M.dstM, tag |-> core.M.tag]
    /\ core'.REG = Write(Write(core.REG, core.M.dstE, core.M.valE),
                         core.M.dstM, core.m.valM)
    /\ core'.stat = IF core.m.stat = "BUB" THEN "AOK" ELSE core.m.stat
    /\ core'.signal = FALSE

ClockM ==
    /\ Bubbles.M_bubble =>
         /\ core'.M.icode = "nop" /\ core'.M.dstE = RNONE /\ core'.M.dstM = RNONE
         /\ core'.M.tag = NULL /\ core'.m.stat = core.m.stat
    /\ ~ Bubbles.M_bubble =>
         /\ core'.M = [icode |-> core.E.ins.icode, Cnd |-> core.e.cnd,
                       valE |-> core.e.valE, valA |-> core.E.valA,
                       dstE |-> core.e.dstE, dstM |-> core.E.dstM, tag |-> core.E.tag]
         /\ core'.m.stat = IF DmemError(core) THEN "ADR" ELSE core.E.stat
         /\ core'.m.valM = IF core.E.ins.icode \notin Reads THEN core.m.valM
                           ELSE IF DmemError(core) THEN 0 ELSE mem[MemAddr(core)]
    /\ mem' = IF \/ Bubbles.M_bubble \/ core.E.ins.icode \notin Writes
                 \/ DmemError(core) THEN mem
              ELSE [mem EXCEPT ![MemAddr(core)] = core.E.valA]

ClockE ==
    /\ Bubbles.E_bubble =>
         /\ core'.E = [stat |-> "BUB", ins |-> Nop, dstM |-> RNONE, valA |-> 0,
                       tag |-> NULL]
         /\ core'.e.dstE = RNONE /\ core'.cc = core.cc
    /\ ~ Bubbles.E_bubble =>
         /\ core'.E = [stat |-> core.D.stat, ins |-> core.D.ins, dstM |-> core.d.dstM,
                       valA |-> core.d.valA, tag |-> core.D.tag]
         /\ core'.e.valE = AluResult(AluFun(core.D.ins), AluA(core), AluB(core))
         /\ core'.e.cnd = getcnd(core.D.ins.ifun, core'.cc)
         /\ core'.e.dstE = IF core.D.ins.icode = "rrmovl" /\ ~ core'.e.cnd THEN RNONE
                           ELSE core.d.dstE
         /\ core'.cc = IF /\ core.D.ins.icode \in {"opl", "cmpl"}
                          /\ core'.m.stat \notin Stops /\ core'.W.stat \notin Stops
                       THEN AluFlags(AluFun(core.D.ins), AluA(core), AluB(core))
                       ELSE core.cc

ClockD ==
    /\ core'.D = IF Bubbles.D_stall THEN core.D
                 ELSE IF Bubbles.D_bubble THEN Squashed(core.f)
                 ELSE [core.f EXCEPT !.stat = FStatus]
    /\ Bubbles.D_stall \/ ~ Bubbles.D_bubble =>
         core'.d = Reading(core', core'.D.ins, core'.D.valP)
    /\ ~ Bubbles.D_stall /\ Bubbles.D_bubble =>
         /\ core'.d.srcA = RNONE /\ core'.d.srcB = RNONE
         /\ core'.d.dstE = RNONE /\ core'.d.dstM = RNONE

ClockF ==
    LET pc == FetchPc(core')
        ins == IF core'.imem_error THEN Nop ELSE InstrAt(prog, pc)
    IN  /\ core'.F_predPC = IF Bubbles.F_stall THEN core.F_predPC ELSE core.f_predPC
        /\ core'.imem_error = (core.imem_error \/ ~ InText(pc))
        /\ core'.f = [stat |-> FetchedStat(core'.imem_error, ins, FStatus), ins |-> ins,
                      valP |-> pc + 1, tag |-> pc]
        /\ pc \in Int
        /\ core'.f_predPC = NextPc(ins, pc)

\* The queue of saved pcs, which a bubble takes the front off.
ClockSaved ==
    LET saved1 == IF Bubbles.E_bubble THEN Popped(core.saved_pc, core.E.stat)
                  ELSE core.saved_pc
        saved2 == IF ~ Bubbles.D_stall /\ Bubbles.D_bubble THEN Popped(saved1, FStatus)
                  ELSE saved1
    IN  core'.saved_pc = IF core'.f.stat \in Saves THEN Append(saved2, core'.f_predPC)
                         ELSE saved2

ClockRest ==
    /\ isa' = IF core.M.tag # NULL THEN Step(prog, isa) ELSE isa
    /\ age' = IF age = 0 THEN 0 ELSE age + 1
    /\ prog' = prog

\* A clock: the five stages put together, in terms of the core before and after.
LEMMA ClockIs ==
    ASSUME TypeInv, WellFormed(prog), Clock
    PROVE  /\ core' \in CoreType
           /\ ClockW /\ ClockM /\ ClockE /\ ClockD /\ ClockF /\ ClockSaved /\ ClockRest
<1> DEFINE p == PipeLogic(core)
           s == Signalled(core)
           w == StageW(s)
           m == StageM(w, p.M_bubble)
           e == StageE(m, p.E_bubble)
           d == StageD(e, p.D_stall, p.D_bubble)
           n == StageF(d, p.F_stall)
<1>1. /\ core' = n /\ mem' = MemAfter(w, p.M_bubble)
      /\ isa' = IF w.W.tag # NULL THEN Step(prog, isa) ELSE isa
      /\ age' = (IF age = 0 THEN 0 ELSE age + 1) /\ prog' = prog
  BY DEF Clock
<1>2. /\ p.F_stall \in BOOLEAN /\ p.D_stall \in BOOLEAN /\ p.D_bubble \in BOOLEAN
      /\ p.E_bubble \in BOOLEAN /\ p.M_bubble \in BOOLEAN
  BY DEF PipeLogic, TypeInv, CoreType, LoadUse, RetInPipe, Mispredicted, Stopping
<1>3. core \in CoreType /\ mem \in [Addrs -> Words]
  BY DEF TypeInv
<1>4. /\ s \in CoreType /\ SameBut(core, s, {"signal", "f"})
      /\ s.signal = FALSE /\ s.f = [core.f EXCEPT !.stat = FStatus]
  BY <1>3, SignalledIs DEF FStatus
<1> HIDE DEF s
<1>5. /\ w \in CoreType /\ SameBut(s, w, {"W", "REG", "stat"})
      /\ w.W = [stat |-> s.m.stat, icode |-> s.M.icode,
                valE |-> s.M.valE, valM |-> s.m.valM,
                dstE |-> s.M.dstE, dstM |-> s.M.dstM, tag |-> s.M.tag]
      /\ w.REG = Write(Write(s.REG, s.M.dstE, s.M.valE), s.M.dstM, s.m.valM)
      /\ w.stat = IF s.m.stat = "BUB" THEN "AOK" ELSE s.m.stat
  BY <1>4, StageWIs
<1> HIDE DEF w
<1>6. /\ m \in CoreType /\ SameBut(w, m, {"M", "m"})
      /\ p.M_bubble => /\ m.M.icode = "nop" /\ m.M.dstE = RNONE /\ m.M.dstM = RNONE
                       /\ m.M.tag = NULL /\ m.m.stat = w.m.stat
      /\ ~ p.M_bubble =>
           /\ m.M = [icode |-> w.E.ins.icode, Cnd |-> w.e.cnd, valE |-> w.e.valE,
                     valA |-> w.E.valA, dstE |-> w.e.dstE, dstM |-> w.E.dstM,
                     tag |-> w.E.tag]
           /\ m.m.stat = IF DmemError(w) THEN "ADR" ELSE w.E.stat
           /\ m.m.valM = IF w.E.ins.icode \notin Reads THEN w.m.valM
                         ELSE IF DmemError(w) THEN 0 ELSE mem[MemAddr(w)]
  BY <1>2, <1>3, <1>5, StageMIs
<1> HIDE DEF m
<1>7. m.D = core.D /\ m.d = core.d /\ m.E = core.E /\ m.W = w.W /\ m.cc = core.cc
      /\ m.saved_pc = core.saved_pc
  BY <1>4, <1>5, <1>6 DEF SameBut, CoreFields
<1>8. m.D.ins.icode = "opl" => m.D.ins.ifun \in 0 .. 3
  BY <1>7 DEF TypeInv
<1>9. /\ e \in CoreType
      /\ SameBut(m, e, {"E", "e", "cc", "saved_pc"})
      /\ p.E_bubble => /\ e.E = [stat |-> "BUB", ins |-> Nop, dstM |-> RNONE, valA |-> 0,
                                 tag |-> NULL]
                       /\ e.e.dstE = RNONE /\ e.cc = m.cc
                       /\ e.saved_pc = Popped(m.saved_pc, m.E.stat)
      /\ ~ p.E_bubble =>
           /\ e.E = [stat |-> m.D.stat, ins |-> m.D.ins, dstM |-> m.d.dstM,
                     valA |-> m.d.valA, tag |-> m.D.tag]
           /\ e.e.valE = AluResult(AluFun(m.D.ins), AluA(m), AluB(m))
           /\ e.e.cnd = getcnd(m.D.ins.ifun, e.cc)
           /\ e.e.dstE = IF m.D.ins.icode = "rrmovl" /\ ~ e.e.cnd THEN RNONE
                         ELSE m.d.dstE
           /\ e.cc = IF SetCc(m) THEN AluFlags(AluFun(m.D.ins), AluA(m), AluB(m))
                     ELSE m.cc
           /\ e.saved_pc = m.saved_pc
  BY <1>2, <1>6, <1>8, StageEIs
<1> HIDE DEF e
<1>10. e.D = core.D /\ e.f = s.f
  BY <1>4, <1>5, <1>6, <1>9 DEF SameBut, CoreFields
<1>11. /\ e.D.ins.icode \in {"call", "jxx"} => e.D.valP \in Words
       /\ e.f.ins.icode \in {"call", "jxx"} => e.f.valP \in Words
  BY <1>3, <1>4, <1>10 DEF TypeInv, CoreType
<1>12. /\ d \in CoreType
       /\ SameBut(e, d, {"D", "d", "saved_pc"})
       /\ d.D = IF p.D_stall THEN e.D ELSE IF p.D_bubble THEN Squashed(e.f) ELSE e.f
       /\ p.D_stall \/ ~ p.D_bubble => d.d = Reading(e, d.D.ins, d.D.valP)
       /\ ~ p.D_stall /\ p.D_bubble => /\ d.d.srcA = RNONE /\ d.d.srcB = RNONE
                                       /\ d.d.dstE = RNONE /\ d.d.dstM = RNONE
       /\ d.saved_pc = IF ~ p.D_stall /\ p.D_bubble THEN Popped(e.saved_pc, e.f.stat)
                       ELSE e.saved_pc
  BY <1>2, <1>9, <1>11, StageDIs
<1> HIDE DEF d
<1> DEFINE pc == FetchPc(n)
           ins == IF n.imem_error THEN Nop ELSE InstrAt(prog, pc)
<1>13. /\ n \in CoreType
       /\ SameBut(d, n, {"F_predPC", "f_predPC", "imem_error", "f", "saved_pc"})
       /\ n.F_predPC = PredPC(d, p.F_stall)
       /\ n.imem_error = (d.imem_error \/ ~ InText(pc))
       /\ n.f = [stat |-> FetchedStat(n.imem_error, ins, d.f.stat), ins |-> ins,
                 valP |-> pc + 1, tag |-> pc]
       /\ pc \in Int
       /\ n.f_predPC = NextPc(ins, pc)
       /\ n.saved_pc = IF n.f.stat \in Saves THEN Append(d.saved_pc, n.f_predPC)
                       ELSE d.saved_pc
  BY <1>2, <1>12, StageFIs
<1> HIDE DEF n, p
<1>14. /\ n.W = w.W /\ n.REG = w.REG /\ n.stat = w.stat /\ n.signal = s.signal
       /\ n.M = m.M /\ n.m = m.m /\ n.E = e.E /\ n.e = e.e /\ n.cc = e.cc
       /\ n.D = d.D /\ n.d = d.d
  BY <1>5, <1>6, <1>9, <1>12, <1>13 DEF SameBut, CoreFields
<1>15. /\ w.E = core.E /\ w.e = core.e /\ w.M = core.M /\ w.m = core.m
       /\ s.M = core.M /\ s.m = core.m /\ s.REG = core.REG
       /\ d.F_predPC = core.F_predPC /\ d.f_predPC = core.f_predPC
       /\ d.imem_error = core.imem_error /\ d.f = s.f
  BY <1>4, <1>5, <1>6, <1>9, <1>12 DEF SameBut, CoreFields
<1>16. ClockW
  BY <1>1, <1>4, <1>5, <1>14, <1>15 DEF ClockW
<1>17. ClockM
  <2>1. MemAddr(w) = MemAddr(core) /\ (DmemError(w) <=> DmemError(core))
    BY <1>15 DEF MemAddr, DmemError
  <2>2. mem' = IF \/ p.M_bubble \/ core.E.ins.icode \notin Writes
                  \/ DmemError(core) THEN mem
               ELSE [mem EXCEPT ![MemAddr(core)] = core.E.valA]
    BY <1>1, <1>15, <2>1 DEF MemAfter
  <2> QED
    BY <1>1, <1>6, <1>14, <1>15, <2>1, <2>2 DEF ClockM, Bubbles, p
<1>18. ClockE
  <2>1. AluA(m) = AluA(core) /\ AluB(m) = AluB(core)
    BY <1>7 DEF AluA, AluB
  <2>2. SetCc(m) <=> /\ core.D.ins.icode \in {"opl", "cmpl"}
                     /\ n.m.stat \notin Stops /\ n.W.stat \notin Stops
    BY <1>7, <1>14 DEF SetCc
  <2> QED
    BY <1>1, <1>7, <1>9, <1>14, <2>1, <2>2 DEF ClockE, Bubbles, p
<1>19. ClockD
  <2>1. \A r : Forward(e, r) = Forward(n, r)
    <3>1. e.M = n.M /\ e.m = n.m /\ e.e = n.e /\ e.W = n.W /\ e.REG = n.REG
      BY <1>5, <1>6, <1>9, <1>14 DEF SameBut, CoreFields
    <3> QED
      BY <3>1 DEF Forward
  <2>2. \A i, valP : Reading(e, i, valP) = Reading(n, i, valP)
    BY <2>1 DEF Reading
  <2>3. Squashed(e.f) = Squashed(core.f)
    BY DEF Squashed
  <2> QED
    BY <1>1, <1>4, <1>10, <1>12, <1>14, <2>2, <2>3 DEF ClockD, Bubbles, p
<1>20. d.f.stat = FStatus
  BY <1>3, <1>4, <1>15 DEF CoreType
<1>21. ClockF
  <2>1. n.F_predPC = IF p.F_stall THEN core.F_predPC ELSE core.f_predPC
    BY <1>13, <1>15 DEF PredPC
  <2> QED
    BY <1>1, <1>13, <1>15, <1>20, <2>1 DEF ClockF, Bubbles, p
<1>22. ClockSaved
  <2>1. e.saved_pc = IF p.E_bubble THEN Popped(core.saved_pc, core.E.stat) ELSE core.saved_pc
    BY <1>2, <1>7, <1>9
  <2>2. e.f.stat = FStatus
    BY <1>10, <1>15, <1>20
  <2> QED
    BY <1>1, <1>12, <1>13, <2>1, <2>2 DEF ClockSaved, Bubbles, p
<1>23. ClockRest
  BY <1>1, <1>5, <1>15 DEF ClockRest
<1> QED
  BY <1>1, <1>13, <1>16, <1>17, <1>18, <1>19, <1>21, <1>22, <1>23

-----------------------------------------------------------------------------
(* The instructions under way.                                             *)

\* The state before a clock of a running core.
Pre ==
    /\ TypeInv /\ Regular(prog) /\ (Asked(prog) => NoBubble(prog))
    /\ Running /\ RunInv /\ isa.stat = "AOK"

\* What the instruction of a stage can be.
LEMMA SlotIs ==
    ASSUME Regular(prog), NEW tag, NEW ins, NEW stat, Slot(tag, ins, stat)
    PROVE  /\ tag = NULL => ins.icode \in {"nop", "halt"} /\ stat \in {"AOK", "BUB"}
           /\ ins.icode \notin {"nop", "halt"} => tag \in DOMAIN prog /\ ins = prog[tag]
           /\ Formed(ins, tag)
           /\ stat = "SYS" => ins.icode = "syscall"
           /\ stat \in {"AOK", "BUB"} => stat = StatOf(ins) \/ tag = NULL
<1>1. /\ Formed(Nop, tag) /\ Formed(Halt, tag) /\ Nop.icode = "nop" /\ Halt.icode = "halt"
  BY IdleFormed
<1>2. Formed(InstrAt(prog, tag), tag)
  BY FetchedFormed DEF Regular
<1>3. InstrAt(prog, tag) = Halt \/ (tag \in DOMAIN prog /\ InstrAt(prog, tag) = prog[tag])
  BY DEF InstrAt
<1>4. StatOf(ins) \in {"INS", "HLT", "SYS", "AOK"}
      /\ (StatOf(ins) = "SYS" => ins.icode = "syscall")
  BY DEF StatOf
<1> QED
  BY <1>1, <1>2, <1>3, <1>4 DEF Slot, Idle

\* The status an instruction has of its own.
Own(s) ==
    LET ins == InsAt(prog, s.pc)
    IN  IF ~ InText(s.pc) \/ Fails(ins, s) THEN "ADR" ELSE StatOf(ins)

\* The state after an instruction, as the stages would make it.
AfterOk(s, tag, stat) ==
    LET n == After(s, tag, stat)
        ins == InsAt(prog, s.pc)
    IN  /\ n \in IsaType
        /\ tag = NULL \/ s.stat # "AOK" => n = s
        /\ n.stat = "AOK" => s.stat = "AOK"
        /\ n.stat = "AOK" /\ tag # NULL => stat # "SPD"
        /\ tag # NULL /\ s.stat = "AOK" =>
             /\ n.stat = IF stat = "SPD" /\ Own(s) = "AOK" THEN "SPD" ELSE Own(s)
             /\ n = IF stat = "SPD" /\ Own(s) = "AOK"
                    THEN [Step(prog, s) EXCEPT !.stat = "SPD"] ELSE Step(prog, s)
             /\ n.cc = IF ins.icode \in {"opl", "cmpl"}
                       THEN AluFlags(AluFun(ins), OpA(ins, s), OpB(ins, s)) ELSE s.cc
             /\ n.mem = IF ins.icode \in Writes /\ ~ Fails(ins, s)
                        THEN [s.mem EXCEPT ![At(ins, s)] = ValA(ins, s)] ELSE s.mem
             /\ n.stat # "ADR" =>
                  /\ n.REG = Write(Write(s.REG, DestE(ins, s), ValE(ins, s)),
                                   DstM(ins), s.mem[At(ins, s)])
                  /\ n.pc = IF ins.icode = "ret" THEN s.mem[At(ins, s)]
                            ELSE IF ins.icode = "jxx" /\ ~ Cnd(ins, s) THEN s.pc + 1
                            ELSE NextPc(ins, s.pc)

LEMMA AfterIs ==
    ASSUME Regular(prog), NEW s \in IsaType, NEW tag, NEW stat
    PROVE  AfterOk(s, tag, stat)
<1> DEFINE n == After(s, tag, stat)
           ins == InsAt(prog, s.pc)
           own == Own(s)
           t == Step(prog, s)
<1>1. CASE tag = NULL \/ s.stat # "AOK"
  BY <1>1 DEF After, AfterOk
<1>2. CASE tag # NULL /\ s.stat = "AOK"
  <2>1. StepOf(prog, s, t)
    BY <1>2, StepExact
  <2>2. t \in IsaType /\ t.stat = own
    BY <2>1 DEF StepOf, Own
  <2>3. n = IF stat = "SPD" /\ own = "AOK" THEN [t EXCEPT !.stat = "SPD"] ELSE t
    BY <1>2, <2>2 DEF After
  <2> HIDE DEF t, own, n
  <2>4. /\ n \in IsaType /\ n.stat = IF stat = "SPD" /\ own = "AOK" THEN "SPD" ELSE own
        /\ n.REG = t.REG /\ n.cc = t.cc /\ n.mem = t.mem /\ n.pc = t.pc
    BY <2>2, <2>3 DEF IsaType, Stops
  <2>5. n.stat # "ADR" => t.stat # "ADR"
    BY <2>2, <2>4
  <2> QED
    BY <1>2, <2>1, <2>2, <2>3, <2>4, <2>5 DEF n, own, t, ins, StepOf, AfterOk
<1> QED
  BY <1>1, <1>2

\* AfterIs in parts, for the steps that need one of them: the type, the status,
LEMMA AfterType ==
    ASSUME Regular(prog), NEW s \in IsaType, NEW tag, NEW stat
    PROVE  /\ After(s, tag, stat) \in IsaType
           /\ After(s, tag, stat).stat = "AOK" => s.stat = "AOK"
BY AfterIs DEF AfterOk

LEMMA AfterStat ==
    ASSUME Regular(prog), NEW s \in IsaType, NEW tag, NEW stat, tag # NULL, s.stat = "AOK"
    PROVE  After(s, tag, stat).stat =
             IF stat = "SPD" /\ Own(s) = "AOK" THEN "SPD" ELSE Own(s)
BY AfterIs DEF AfterOk

\* the step of the sequential machine, the memory,
LEMMA AfterStep ==
    ASSUME Regular(prog), NEW s \in IsaType, NEW tag, NEW stat, tag # NULL, s.stat = "AOK"
    PROVE  After(s, tag, stat) =
             IF stat = "SPD" /\ Own(s) = "AOK"
             THEN [Step(prog, s) EXCEPT !.stat = "SPD"] ELSE Step(prog, s)
BY AfterIs DEF AfterOk

LEMMA AfterMem ==
    ASSUME Regular(prog), NEW s \in IsaType, NEW tag, NEW stat, tag # NULL, s.stat = "AOK"
    PROVE  LET ins == InsAt(prog, s.pc)
           IN  After(s, tag, stat).mem =
                 IF ins.icode \in Writes /\ ~ Fails(ins, s)
                 THEN [s.mem EXCEPT ![At(ins, s)] = ValA(ins, s)] ELSE s.mem
BY AfterIs DEF AfterOk

\* what went on,
LEMMA AfterAlive ==
    ASSUME Regular(prog), NEW s \in IsaType, NEW tag, NEW stat,
           After(s, tag, stat).stat = "AOK"
    PROVE  s.stat = "AOK" /\ (tag # NULL => stat # "SPD")
BY AfterIs DEF AfterOk

\* the registers,
LEMMA AfterRegs ==
    ASSUME Regular(prog), NEW s \in IsaType, NEW tag, NEW stat, tag # NULL, s.stat = "AOK",
           After(s, tag, stat).stat # "ADR"
    PROVE  LET ins == InsAt(prog, s.pc)
           IN  After(s, tag, stat).REG =
                 Write(Write(s.REG, DestE(ins, s), ValE(ins, s)), DstM(ins),
                       s.mem[At(ins, s)])
BY AfterIs DEF AfterOk

\* the pc,
LEMMA AfterPc ==
    ASSUME Regular(prog), NEW s \in IsaType, NEW tag, NEW stat, tag # NULL, s.stat = "AOK",
           After(s, tag, stat).stat # "ADR"
    PROVE  LET ins == InsAt(prog, s.pc)
           IN  After(s, tag, stat).pc =
                 IF ins.icode = "ret" THEN s.mem[At(ins, s)]
                 ELSE IF ins.icode = "jxx" /\ ~ Cnd(ins, s) THEN s.pc + 1
                 ELSE NextPc(ins, s.pc)
BY AfterIs DEF AfterOk

\* and the flags.
LEMMA AfterFlags ==
    ASSUME Regular(prog), NEW s \in IsaType, NEW tag, NEW stat, tag # NULL, s.stat = "AOK"
    PROVE  LET ins == InsAt(prog, s.pc)
           IN  After(s, tag, stat).cc =
                 IF ins.icode \in {"opl", "cmpl"}
                 THEN AluFlags(AluFun(ins), OpA(ins, s), OpB(ins, s)) ELSE s.cc
BY AfterIs DEF AfterOk

\* What the instructions of the three stages before M are.
LEMMA SlotsAre ==
    ASSUME Pre
    PROVE  /\ core.E.tag = NULL => core.E.ins.icode \in {"nop", "halt"}
           /\ core.D.tag = NULL => core.D.ins.icode \in {"nop", "halt"}
           /\ core.f.tag = NULL => core.f.ins.icode \in {"nop", "halt"}
           /\ core.E.ins.icode \notin {"nop", "halt"} =>
                core.E.tag \in DOMAIN prog /\ core.E.ins = prog[core.E.tag]
           /\ core.D.ins.icode \notin {"nop", "halt"} =>
                core.D.tag \in DOMAIN prog /\ core.D.ins = prog[core.D.tag]
           /\ core.f.ins.icode \notin {"nop", "halt"} =>
                core.f.tag \in DOMAIN prog /\ core.f.ins = prog[core.f.tag]
           /\ Formed(core.E.ins, core.E.tag) /\ Formed(core.D.ins, core.D.tag)
           /\ Formed(core.f.ins, core.f.tag)
           /\ core.E.stat = "SYS" => core.E.ins.icode = "syscall"
           /\ core.D.stat = "SYS" => core.D.ins.icode = "syscall"
           /\ core.f.stat = "SYS" => core.f.ins.icode = "syscall"
           /\ core.E.tag = NULL => core.E.stat \in {"AOK", "BUB"}
           /\ core.D.tag = NULL => core.D.stat \in {"AOK", "BUB"}
           /\ core.f.tag = NULL => core.f.stat \in {"AOK", "BUB"}
<1>1. /\ Slot(core.f.tag, core.f.ins, core.f.stat)
      /\ Slot(core.D.tag, core.D.ins, core.D.stat)
      /\ Slot(core.E.tag, core.E.ins, core.E.stat)
      /\ Regular(prog)
  BY DEF Pre, RunInv, Slots
<1> QED
  BY ONLY <1>1, SlotIs

\* No instruction has the address NULL.
LEMMA NotNull == ASSUME Regular(prog) PROVE NULL \notin DOMAIN prog /\ NULL \notin Int
<1>1. prog \in Seq(Instr)
  BY DEF Regular, WellFormed
<1>2. DOMAIN prog \subseteq Int
  BY <1>1
<1> QED
  BY <1>2, WordsAssumption

\* An instruction waits only for what a load in E is to give it.
LEMMA LoadUseIs ==
    ASSUME Pre, LoadUse(core, Loads)
    PROVE  /\ core.E.tag \in DOMAIN prog /\ core.E.ins = prog[core.E.tag]
           /\ core.D.tag \in DOMAIN prog /\ core.D.ins = prog[core.D.tag]
           /\ core.E.ins.icode \in Loads
           /\ core.E.dstM = DstM(core.E.ins) /\ Uses(core.D.ins, DstM(core.E.ins))
<1>1. core.E.ins.icode \in Loads /\ core.E.dstM \in {core.d.srcA, core.d.srcB}
  BY DEF LoadUse
<1>2. core.E.tag \in DOMAIN prog /\ core.E.ins = prog[core.E.tag]
  BY <1>1, SlotsAre DEF Loads
<1>3. core.E.dstM = DstM(core.E.ins) /\ Uses(core.D.ins, core.E.dstM)
  BY <1>1 DEF Pre, RunInv, Slots, Uses
<1>4. DstM(core.E.ins) \in Regs /\ RNONE \notin Regs
  BY <1>1, SlotsAre DEF Formed, DstM, Loads, Regs, RNONE
<1>5. core.D.ins.icode \notin {"nop", "halt"}
  BY <1>3, <1>4 DEF Uses, SrcA, SrcB
<1>6. core.D.tag \in DOMAIN prog /\ core.D.ins = prog[core.D.tag]
  BY <1>5, SlotsAre
<1> QED
  BY <1>1, <1>2, <1>3, <1>6

\* A program that may be asked to suspend makes no bubbles.
LEMMA AskedQuiet ==
    ASSUME Pre, Asked(prog)
    PROVE  ~ Mispredicted(core) /\ ~ RetInPipe(core) /\ ~ LoadUse(core, Loads)
<1>1. NoBubble(prog)
  BY DEF Pre
<1>2. ~ Mispredicted(core)
  <2>1. SUFFICES ASSUME core.E.ins.icode = "jxx" PROVE core.e.cnd
    BY DEF Mispredicted
  <2>2. core.E.ins.ifun = 0
    BY <1>1, <2>1, SlotsAre DEF NoBubble
  <2> QED
    BY <2>1, <2>2 DEF Pre, RunInv, Slots
<1>3. ~ RetInPipe(core)
  <2>1. core.M.icode = "ret" => core.M.tag \in DOMAIN prog /\ prog[core.M.tag].icode = "ret"
    BY DEF Pre, RunInv, Chain
  <2> QED
    BY <1>1, <2>1, SlotsAre DEF NoBubble, RetInPipe
<1>4. ~ LoadUse(core, Loads)
  BY <1>1, LoadUseIs DEF NoBubble
<1> QED
  BY <1>2, <1>3, <1>4

\* Requests come only to such programs.
LEMMA SuspendAsked ==
    ASSUME Pre,
           \/ core.signal
           \/ "SPD" \in {core.f.stat, core.D.stat, core.E.stat, core.m.stat}
    PROVE  Asked(prog)
BY DEF Pre, RunInv, Requests

\* Only one reason for a bubble at a time; leave never waits for what it loads, and
\* what is fetched in vain is never a system call.
LEMMA Quiet ==
    ASSUME Pre
    PROVE  /\ Bubbles.E_bubble <=> Mispredicted(core) \/ LoadUse(core, Loads)
           /\ ~ (Mispredicted(core) /\ LoadUse(core, Loads))
           /\ core.M.icode = "ret" => /\ core.M.tag # NULL /\ core.E.tag = NULL
                                      /\ core.D.tag = NULL
                                      /\ ~ Mispredicted(core) /\ ~ LoadUse(core, Loads)
           /\ LoadUse(core, Loads) => core.E.tag # NULL /\ core.D.tag # NULL
           /\ Mispredicted(core) =>
                /\ core.E.tag \in DOMAIN prog /\ core.E.ins = prog[core.E.tag]
                /\ core.E.ins.icode = "jxx" /\ core.E.ins.ifun # 0
                /\ core.D.tag \in Int /\ Vain(prog, core.D.tag)
                /\ core.f.tag = NextPc(core.D.ins, core.D.tag)
                /\ Vain(prog, NextPc(InstrAt(prog, core.D.tag), core.D.tag))
           /\ RetInPipe(core) => core.f.tag \in Int /\ Vain(prog, core.f.tag)
           /\ Bubbles.E_bubble => core.E.stat \notin Saves
           /\ Bubbles.D_bubble /\ ~ Bubbles.D_stall => FStatus \notin Saves
           /\ Mispredicted(core) => core.D.stat \notin Saves
<1>1. NULL \notin DOMAIN prog /\ NULL \notin Int
  BY NotNull DEF Pre
<1>2. Slots /\ Chain /\ Regular(prog)
  BY DEF Pre, RunInv
<1>3. ASSUME LoadUse(core, Loads) PROVE core.E.ins.icode # "leave"
  <2>1. SUFFICES ASSUME core.E.ins.icode = "leave" PROVE FALSE
    OBVIOUS
  <2>2. ~ Asked(prog)
    BY <1>3, AskedQuiet
  <2>3. core.E.stat # "SPD"
    BY <2>2, SuspendAsked
  <2>4. /\ core.E.tag \in DOMAIN prog /\ core.E.ins = prog[core.E.tag]
        /\ core.D.tag \in DOMAIN prog /\ core.D.ins = prog[core.D.tag]
        /\ Uses(core.D.ins, "ebp")
    BY <1>3, <2>1, LoadUseIs DEF DstM
  <2>5. core.D.tag = core.E.tag + 1
    BY <1>1, <1>2, <2>1, <2>3, <2>4 DEF Chain, NextPc
  <2>6. InstrAt(prog, core.E.tag + 1) = core.D.ins
    BY <2>4, <2>5 DEF InstrAt
  <2> QED
    BY <1>2, <2>1, <2>4, <2>6 DEF Regular
<1>4. LoadUse(core, Loads) <=> LoadUse(core, {"mrmovl", "popl"})
  BY <1>3 DEF LoadUse, Loads
<1>5. Bubbles.E_bubble <=> Mispredicted(core) \/ LoadUse(core, Loads)
  BY <1>4 DEF Bubbles, PipeLogic
<1>6. ~ (Mispredicted(core) /\ LoadUse(core, Loads))
  BY DEF Mispredicted, LoadUse, Loads
<1>7. core.M.icode = "ret" => /\ core.M.tag # NULL /\ core.E.tag = NULL
                              /\ core.D.tag = NULL
                              /\ ~ Mispredicted(core) /\ ~ LoadUse(core, Loads)
  BY <1>1, <1>2, SlotsAre DEF Chain, Mispredicted, LoadUse, Loads
<1>8. LoadUse(core, Loads) => core.E.tag # NULL /\ core.D.tag # NULL
  BY <1>1, LoadUseIs
<1>9. Mispredicted(core) => /\ core.E.tag \in DOMAIN prog /\ core.E.ins = prog[core.E.tag]
                            /\ core.E.ins.icode = "jxx" /\ core.E.ins.ifun # 0
  BY <1>2, SlotsAre DEF Mispredicted, Slots
<1>10. Bubbles.E_bubble => core.E.stat \notin Saves
  <2>1. SUFFICES ASSUME Bubbles.E_bubble PROVE core.E.stat # "SPD" /\ core.E.stat # "SYS"
    BY DEF Saves
  <2>2. core.E.ins.icode # "syscall"
    BY <1>5, <2>1 DEF Mispredicted, LoadUse, Loads
  <2> QED
    BY <1>5, <2>1, <2>2, SlotsAre, SuspendAsked, AskedQuiet
\* What is in D, and then in F, behind a jump that is not taken.
<1>11. ASSUME Mispredicted(core)
       PROVE  /\ core.D.tag = core.E.ins.valC /\ core.D.stat # "SPD" /\ core.f.stat # "SPD"
              /\ core.f.tag = NextPc(core.D.ins, core.D.tag)
              /\ Vain(prog, core.D.tag)
              /\ Vain(prog, NextPc(InstrAt(prog, core.D.tag), core.D.tag))
              /\ core.D.tag \in Int
  <2>1. /\ core.E.stat # "SPD" /\ core.D.stat # "SPD" /\ core.f.stat # "SPD"
    BY <1>11, AskedQuiet, SuspendAsked
  <2>2. core.D.tag = core.E.ins.valC
    BY <1>1, <1>2, <1>9, <1>11, <2>1 DEF Chain, NextPc
  <2>3. core.D.tag \in Int
    BY <1>9, <1>11, <2>2, SlotsAre DEF Formed, Instr, Words
  <2>4. core.f.tag = NextPc(core.D.ins, core.D.tag)
    BY <1>1, <1>2, <2>1, <2>3 DEF Chain
  <2> QED
    BY <1>2, <1>9, <1>11, <2>1, <2>2, <2>3, <2>4 DEF Regular
<1>12. Mispredicted(core) => core.D.stat \notin Saves
  <2>1. SUFFICES ASSUME Mispredicted(core), core.D.stat = "SYS" PROVE FALSE
    BY <1>11 DEF Saves
  <2>2. core.D.ins.icode = "syscall" /\ core.D.ins = prog[core.D.tag]
        /\ core.D.tag \in DOMAIN prog
    BY <2>1, SlotsAre
  <2> QED
    BY <1>11, <2>1, <2>2 DEF Vain, InstrAt
<1>13. ASSUME RetInPipe(core) PROVE core.f.tag \in Int /\ Vain(prog, core.f.tag)
  <2>1. core.E.stat # "SPD" /\ core.D.stat # "SPD"
    BY <1>13, AskedQuiet, SuspendAsked
  <2>2. PICK pc \in DOMAIN prog : prog[pc].icode = "ret" /\ core.f.tag = pc + 1
    <3>1. CASE core.D.ins.icode = "ret"
      BY <1>1, <1>2, <2>1, <3>1, SlotsAre DEF Chain, NextPc
    <3>2. CASE core.E.ins.icode = "ret"
      BY <1>1, <1>2, <2>1, <3>2, SlotsAre DEF Chain
    <3>3. CASE core.M.icode = "ret"
      BY <1>2, <3>3 DEF Chain
    <3> QED
      BY <1>13, <3>1, <3>2, <3>3 DEF RetInPipe
  <2>3. pc \in Int
    BY <1>2 DEF Regular, WellFormed
  <2> QED
    BY <1>2, <2>2, <2>3 DEF Regular
<1>14. Bubbles.D_bubble /\ ~ Bubbles.D_stall => FStatus \notin Saves
  <2>1. SUFFICES ASSUME Mispredicted(core) \/ RetInPipe(core), FStatus \in Saves
                 PROVE  FALSE
    BY DEF Bubbles, PipeLogic
  <2>2. core.f.stat = "SYS"
    BY <2>1, AskedQuiet, SuspendAsked DEF FStatus, Saves
  <2>3. /\ core.f.ins.icode = "syscall" /\ core.f.tag \in DOMAIN prog
        /\ core.f.ins = prog[core.f.tag]
    BY <2>2, SlotsAre
  <2>4. InstrAt(prog, core.f.tag).icode = "syscall"
    BY <2>3 DEF InstrAt
  <2>5. CASE Mispredicted(core)
    <3>1. core.D.ins = InstrAt(prog, core.D.tag) \/ core.imem_error
      BY <1>1, <1>2, <1>11, <2>5 DEF Slots
    <3>2. ~ core.imem_error
      BY <1>1, <1>2, <2>3, IdleFormed DEF Slots
    <3> QED
      BY <1>11, <2>4, <2>5, <3>1, <3>2 DEF Vain
  <2> QED
    BY <1>13, <2>1, <2>4, <2>5 DEF Vain
<1> QED
  BY <1>5, <1>6, <1>7, <1>8, <1>9, <1>10, <1>11, <1>12, <1>13, <1>14

-----------------------------------------------------------------------------
(* A clock, stage by stage.                                                *)

\* A clock, and what it makes of the state.
Clocked ==
    /\ Pre
    /\ core' \in CoreType
    /\ ClockW /\ ClockM /\ ClockE /\ ClockD /\ ClockF /\ ClockSaved /\ ClockRest

\* The instruction in M has not stopped the core.
GoesOn == core.m.stat \notin Stops

\* The core goes on if the instruction in M stops nothing; what stops stays stopped.
LEMMA Live ==
    ASSUME Pre
    PROVE  /\ isa \in IsaType /\ S1 \in IsaType /\ S2 \in IsaType /\ S3 \in IsaType
           /\ S3.stat = "AOK" => S2.stat = "AOK"
           /\ S2.stat = "AOK" => S1.stat = "AOK"
           /\ S1.stat = "AOK" => GoesOn
           /\ GoesOn => S1.stat = "AOK"
<1>1. isa \in IsaType /\ Regular(prog)
  BY DEF Pre, TypeInv
<1>2. S1 \in IsaType
  BY <1>1, AfterType DEF S1
<1>3. S2 \in IsaType /\ (S2.stat = "AOK" => S1.stat = "AOK")
  BY <1>1, <1>2, AfterType DEF S2
<1>4. S3 \in IsaType /\ (S3.stat = "AOK" => S2.stat = "AOK")
  BY <1>1, <1>3, AfterType DEF S3
<1>5. S1.stat = "AOK" <=> GoesOn
  <2>1. CASE core.M.tag = NULL
    <3>1. core.m.stat \in {"AOK", "BUB"}
      BY <2>1 DEF Pre, RunInv, Slots
    <3>2. S1 = isa
      BY <2>1 DEF S1, After
    <3> QED
      BY <3>1, <3>2 DEF GoesOn, Stops, Pre
  <2>2. CASE core.M.tag # NULL
    <3>1. core.m.stat = S1.stat
      BY <2>2 DEF Pre, RunInv, InM
    <3>2. S1.stat \in Stops \cup {"AOK"}
      BY <1>2 DEF IsaType
    <3> QED
      BY <3>1, <3>2 DEF GoesOn, Stops
  <2> QED
    BY <2>1, <2>2
<1> QED
  BY <1>1, <1>2, <1>3, <1>4, <1>5

\* The instruction in M, when it goes on, is the next of the sequential machine.
LEMMA StageWExact ==
    ASSUME Clocked, GoesOn
    PROVE  /\ isa' = S1 /\ isa'.stat = "AOK" /\ core'.REG = isa'.REG
           /\ core'.stat = "AOK" /\ ~ Bubbles.M_bubble
<1>1. S1.stat = "AOK" /\ isa \in IsaType /\ Regular(prog)
  BY Live DEF Clocked, Pre
<1>2. ~ Bubbles.M_bubble
  BY DEF Clocked, Pre, RunInv, Slots, GoesOn, Bubbles, PipeLogic, Stopping, Stops
<1>3. core'.stat = "AOK"
  BY DEF Clocked, ClockW, Pre, TypeInv, CoreType, GoesOn, Stats
<1>4. CASE core.M.tag = NULL
  <2>1. isa' = isa /\ S1 = isa
    BY <1>4 DEF Clocked, ClockRest, S1, After
  <2>2. core'.REG = core.REG
    BY <1>4 DEF Clocked, ClockW, Pre, RunInv, Slots, Write
  <2> QED
    BY <1>1, <1>2, <1>3, <2>1, <2>2 DEF Clocked, Pre, RunInv
<1>5. CASE core.M.tag # NULL
  <2>1. core.m.stat = "AOK"
    BY <1>1, <1>5 DEF Clocked, Pre, RunInv, InM
  <2>2. isa' = Step(prog, isa)
    BY <1>5 DEF Clocked, ClockRest
  <2>3. S1 = Step(prog, isa)
    BY <1>5, <2>1 DEF S1, After, Clocked, Pre
  <2>4. core'.REG = S1.REG
    BY <1>1, <1>5 DEF Clocked, ClockW, Pre, RunInv, InM
  <2> QED
    BY <1>1, <1>2, <1>3, <2>2, <2>3, <2>4
<1> QED
  BY <1>4, <1>5

\* What stage M finds of the instruction in E.
LEMMA InStageE ==
    ASSUME Pre, S1.stat = "AOK", core.E.tag # NULL
    PROVE  /\ core.E.ins = InsAt(prog, S1.pc)
           /\ MemAddr(core) = At(core.E.ins, S1)
           /\ DmemError(core) <=> Fails(core.E.ins, S1)
           /\ S2.stat = IF DmemError(core) THEN "ADR" ELSE core.E.stat
           /\ Own(S1) = IF DmemError(core) THEN "ADR"
                        ELSE IF core.E.stat = "SPD" THEN "AOK" ELSE core.E.stat
<1>1. InE /\ Regular(prog) /\ S1 \in IsaType
  BY Live DEF Pre, RunInv
<1>2. core.E.ins = InsAt(prog, S1.pc)
  BY <1>1 DEF InE
<1>3. MemAddr(core) = At(core.E.ins, S1)
  BY <1>1, <1>2 DEF InE, MemAddr, At
<1>4. DmemError(core) <=> Fails(core.E.ins, S1)
  BY <1>3 DEF DmemError, Fails
<1>5. Own(S1) = IF DmemError(core) THEN "ADR" ELSE StatAt(prog, S1.pc)
  BY <1>2, <1>4 DEF Own, InsAt, StatAt
<1>6. StatAt(prog, S1.pc) # "SPD"
  BY DEF StatAt, StatOf
<1>7. \/ core.E.stat = StatAt(prog, S1.pc)
      \/ core.E.stat = "SPD" /\ StatAt(prog, S1.pc) = "AOK"
  BY <1>1 DEF InE
<1>8. S2.stat = IF core.E.stat = "SPD" /\ Own(S1) = "AOK" THEN "SPD" ELSE Own(S1)
  BY <1>1, AfterStat DEF S2
<1> QED
  BY <1>2, <1>3, <1>4, <1>5, <1>6, <1>7, <1>8

\* Stage M does to the memory what the instruction is to do, and finds out its status.
LEMMA StageMExact ==
    ASSUME Clocked, GoesOn
    PROVE  /\ S1' = S2
           /\ core.E.tag # NULL => core'.m.stat = S2.stat
           /\ core.E.tag = NULL => core'.m.stat = core.E.stat /\ S2 = S1
           /\ core'.M.tag = core.E.tag
           /\ mem' = S1'.mem
           /\ InM'
<1> DEFINE ins == core.E.ins
<1>1. /\ Pre /\ Regular(prog) /\ S1 \in IsaType /\ S2 \in IsaType /\ S1.stat = "AOK"
      /\ mem = S1.mem
  BY Live DEF Clocked, Pre, RunInv
<1>2. isa' = S1 /\ ~ Bubbles.M_bubble /\ prog' = prog
  BY StageWExact DEF Clocked, ClockRest
<1>3. /\ core'.M = [icode |-> core.E.ins.icode, Cnd |-> core.e.cnd,
                    valE |-> core.e.valE, valA |-> core.E.valA,
                    dstE |-> core.e.dstE, dstM |-> core.E.dstM, tag |-> core.E.tag]
      /\ core'.m.stat = IF DmemError(core) THEN "ADR" ELSE core.E.stat
      /\ core'.m.valM = IF core.E.ins.icode \notin Reads THEN core.m.valM
                        ELSE IF DmemError(core) THEN 0 ELSE mem[MemAddr(core)]
      /\ mem' = IF core.E.ins.icode \notin Writes \/ DmemError(core) THEN mem
                ELSE [mem EXCEPT ![MemAddr(core)] = core.E.valA]
  BY <1>2 DEF Clocked, ClockM
<1>4. S1' = After(S1, core.E.tag, core'.m.stat)
  BY <1>2, <1>3 DEF S1, After
<1>5. CASE core.E.tag = NULL
  <2>1. core.E.ins.icode \in {"nop", "halt"}
    BY <1>1, <1>5, SlotsAre
  <2>2. ~ DmemError(core) /\ core.E.ins.icode \notin Writes
    BY <2>1 DEF DmemError, Reads, Writes
  <2>3. S1' = S1 /\ S2 = S1
    BY <1>4, <1>5 DEF S2, After
  <2>4. InM'
    BY <1>3, <1>5 DEF InM
  <2> QED
    BY <1>1, <1>3, <1>5, <2>2, <2>3, <2>4
<1>6. CASE core.E.tag # NULL
  <2>1. /\ core.E.ins = InsAt(prog, S1.pc)
        /\ MemAddr(core) = At(core.E.ins, S1)
        /\ DmemError(core) <=> Fails(core.E.ins, S1)
        /\ S2.stat = IF DmemError(core) THEN "ADR" ELSE core.E.stat
        /\ Own(S1) = IF DmemError(core) THEN "ADR"
                     ELSE IF core.E.stat = "SPD" THEN "AOK" ELSE core.E.stat
    BY <1>1, <1>6, InStageE
  <2>2. core'.m.stat = S2.stat
    BY <1>3, <2>1
  <2>3. /\ S2 = IF core.E.stat = "SPD" /\ Own(S1) = "AOK"
                THEN [Step(prog, S1) EXCEPT !.stat = "SPD"] ELSE Step(prog, S1)
        /\ S2.mem = IF ins.icode \in Writes /\ ~ Fails(ins, S1)
                    THEN [S1.mem EXCEPT ![At(ins, S1)] = ValA(ins, S1)] ELSE S1.mem
        /\ S2.stat # "ADR" =>
             /\ S2.REG = Write(Write(S1.REG, DestE(ins, S1), ValE(ins, S1)),
                               DstM(ins), S1.mem[At(ins, S1)])
             /\ S2.pc = IF ins.icode = "ret" THEN S1.mem[At(ins, S1)]
                        ELSE IF ins.icode = "jxx" /\ ~ Cnd(ins, S1) THEN S1.pc + 1
                        ELSE NextPc(ins, S1.pc)
    <3>1. S2 = After(S1, core.E.tag, core.E.stat) /\ core.E.tag # NULL /\ S1.stat = "AOK"
          /\ S1 \in IsaType /\ Regular(prog) /\ ins = InsAt(prog, S1.pc)
      BY <1>1, <1>6, <2>1 DEF S2
    <3>2. S2 = IF core.E.stat = "SPD" /\ Own(S1) = "AOK"
               THEN [Step(prog, S1) EXCEPT !.stat = "SPD"] ELSE Step(prog, S1)
      BY <3>1, AfterStep
    <3>3. S2.mem = IF ins.icode \in Writes /\ ~ Fails(ins, S1)
                   THEN [S1.mem EXCEPT ![At(ins, S1)] = ValA(ins, S1)] ELSE S1.mem
      BY <3>1, AfterMem
    <3>4. S2.stat # "ADR" =>
            S2.REG = Write(Write(S1.REG, DestE(ins, S1), ValE(ins, S1)),
                           DstM(ins), S1.mem[At(ins, S1)])
      BY <3>1, AfterRegs
    <3>5. S2.stat # "ADR" =>
            S2.pc = IF ins.icode = "ret" THEN S1.mem[At(ins, S1)]
                    ELSE IF ins.icode = "jxx" /\ ~ Cnd(ins, S1) THEN S1.pc + 1
                    ELSE NextPc(ins, S1.pc)
      BY <3>1, AfterPc
    <3> QED
      BY <3>2, <3>3, <3>4, <3>5
  <2>4. S1' = IF core'.m.stat = "SPD" /\ Own(S1) = "AOK"
              THEN [Step(prog, S1) EXCEPT !.stat = "SPD"] ELSE Step(prog, S1)
    <3>1. Step(prog, S1).stat = Own(S1)
      BY <1>1, StepExact DEF StepOf, Own
    <3> QED
      BY <1>1, <1>4, <1>6, <3>1 DEF After
  <2>5. S1' = S2
    BY <1>3, <2>1, <2>3, <2>4
  <2>6. /\ core.E.tag = S1.pc /\ core.E.valA = ValA(ins, S1)
        /\ core.e.valE = ValE(ins, S1) /\ core.e.dstE = DestE(ins, S1)
        /\ core.E.dstM = DstM(ins)
    BY <1>1, <1>6, <2>1 DEF Pre, RunInv, InE, Slots
  <2>7. mem' = S2.mem
    BY <1>1, <1>3, <2>1, <2>3, <2>6
  <2>8. S2.stat # "ADR" => S2.REG = Write(Write(S1.REG, core'.M.dstE, core'.M.valE),
                                          core'.M.dstM, core'.m.valM)
    <3>1. SUFFICES ASSUME S2.stat # "ADR" PROVE DstM(ins) # RNONE => core'.m.valM = S1.mem[At(ins, S1)]
      BY <1>3, <2>3, <2>6 DEF Write
    <3>2. DstM(ins) # RNONE => ins.icode \in Reads
      BY DEF DstM, Reads
    <3> QED
      BY <1>1, <1>3, <2>1, <3>1, <3>2
  <2>9. S2.stat = "AOK" /\ ins.icode = "ret" => core'.m.valM = S2.pc
    BY <1>1, <1>3, <2>1, <2>3 DEF Reads
  <2>10. ins.icode = "jxx" => core'.M.valA = S1.pc + 1
    BY <1>3, <2>6 DEF ValA
  <2>11. InM'
    BY <1>2, <1>3, <1>6, <2>1, <2>2, <2>5, <2>6, <2>8, <2>9, <2>10 DEF InM
  <2> QED
    BY <1>3, <1>6, <2>2, <2>5, <2>7, <2>11
<1> QED
  BY <1>5, <1>6

\* Stage E sets the flags the instruction in D is to set, behind those that go on.
LEMMA StageEExact ==
    ASSUME Clocked, GoesOn
    PROVE  /\ S2' = IF Bubbles.E_bubble THEN S2 ELSE S3
           /\ ~ Bubbles.E_bubble => ~ Mispredicted(core) /\ S3 = After(S2, core.D.tag, core.D.stat)
           /\ core'.cc = S2'.cc
           /\ InE'
<1>1. /\ Pre /\ Regular(prog) /\ S1 \in IsaType /\ S2 \in IsaType /\ S1.stat = "AOK"
      /\ core.cc = S2.cc
  BY Live DEF Clocked, Pre, RunInv
<1>2. S1' = S2 /\ prog' = prog
      /\ (core.E.tag # NULL => core'.m.stat = S2.stat)
      /\ (core.E.tag = NULL => core'.m.stat = core.E.stat /\ S2 = S1)
  BY StageMExact DEF Clocked, ClockRest
<1>3. S2' = After(S2, core'.E.tag, core'.E.stat)
  BY <1>2 DEF S2, After
<1>4. Bubbles.E_bubble <=> Mispredicted(core) \/ LoadUse(core, Loads)
  BY <1>1, Quiet
<1>5. CASE Bubbles.E_bubble
  <2>1. core'.E.tag = NULL /\ core'.cc = core.cc
    BY <1>5 DEF Clocked, ClockE
  <2>2. S2' = S2
    BY <1>3, <2>1 DEF After
  <2>3. InE'
    BY <2>1 DEF InE
  <2> QED
    BY <1>1, <1>5, <2>1, <2>2, <2>3
<1>6. CASE ~ Bubbles.E_bubble
  <2> DEFINE ins == core.D.ins
  <2>1. /\ core'.E = [stat |-> core.D.stat, ins |-> ins, dstM |-> core.d.dstM,
                      valA |-> core.d.valA, tag |-> core.D.tag]
        /\ core'.e.valE = AluResult(AluFun(ins), AluA(core), AluB(core))
        /\ core'.e.cnd = getcnd(ins.ifun, core'.cc)
        /\ core'.e.dstE = IF ins.icode = "rrmovl" /\ ~ core'.e.cnd THEN RNONE
                          ELSE core.d.dstE
        /\ core'.cc = IF /\ ins.icode \in {"opl", "cmpl"}
                         /\ core'.m.stat \notin Stops /\ core'.W.stat \notin Stops
                      THEN AluFlags(AluFun(ins), AluA(core), AluB(core))
                      ELSE core.cc
    BY <1>6 DEF Clocked, ClockE
  <2>2. ~ Mispredicted(core) /\ ~ LoadUse(core, Loads)
    BY <1>4, <1>6
  <2>3. S3 = After(S2, core.D.tag, core.D.stat) /\ S2' = S3
    BY <1>3, <2>1, <2>2 DEF S3
  <2>4. core'.W.stat \notin Stops
    BY DEF Clocked, ClockW, GoesOn
  <2>5. core'.m.stat \in Stops <=> S2.stat # "AOK"
    <3>1. S2.stat \in Stops \cup {"AOK"}
      BY <1>1 DEF IsaType
    <3>2. core.E.tag = NULL => core.E.stat \in {"AOK", "BUB"}
      BY <1>1, SlotsAre
    <3> QED
      BY <1>1, <1>2, <3>1, <3>2 DEF Stops
  <2>6. CASE core.D.tag = NULL
    <3>1. ins.icode \in {"nop", "halt"}
      BY <1>1, <2>6, SlotsAre
    <3>2. S3 = S2 /\ core'.cc = core.cc
      BY <2>1, <2>3, <2>6, <3>1 DEF After
    <3>3. InE'
      BY <2>1, <2>6 DEF InE
    <3> QED
      BY <1>1, <1>6, <2>2, <2>3, <3>2, <3>3
  <2>7. CASE S2.stat # "AOK"
    <3>1. S3 = S2 /\ core'.cc = core.cc
      BY <2>1, <2>3, <2>5, <2>7 DEF After
    <3>2. InE'
      BY <1>2, <2>7 DEF InE
    <3> QED
      BY <1>1, <1>6, <2>2, <2>3, <3>1, <3>2
  <2>8. CASE core.D.tag # NULL /\ S2.stat = "AOK"
    <3>1. /\ core.D.tag = S2.pc /\ ins = InsAt(prog, S2.pc)
          /\ \/ core.D.stat = StatAt(prog, S2.pc)
             \/ core.D.stat = "SPD" /\ StatAt(prog, S2.pc) = "AOK"
          /\ core.d.valA = ValA(ins, S2) /\ core.d.valB = ValB(ins, S2)
      BY <1>1, <2>2, <2>8 DEF Pre, RunInv, InD
    <3>2. AluA(core) = OpA(ins, S2) /\ AluB(core) = OpB(ins, S2)
      BY <3>1 DEF AluA, AluB, OpA, OpB
    <3>3. S3.cc = IF ins.icode \in {"opl", "cmpl"}
                  THEN AluFlags(AluFun(ins), OpA(ins, S2), OpB(ins, S2)) ELSE S2.cc
      <4> DEFINE i == InsAt(prog, S2.pc)
      <4>1. After(S2, core.D.tag, core.D.stat).cc =
              IF i.icode \in {"opl", "cmpl"}
              THEN AluFlags(AluFun(i), OpA(i, S2), OpB(i, S2)) ELSE S2.cc
        BY <1>1, <2>8, AfterFlags
      <4> QED
        BY <2>3, <3>1, <4>1
    <3>4. core'.cc = S3.cc
      BY <1>1, <2>1, <2>4, <2>5, <2>8, <3>2, <3>3
    <3>5. core'.e.valE = ValE(ins, S2)
      BY <2>1, <3>2 DEF ValE
    <3>6. ins.icode \in {"jxx", "rrmovl"} => core'.e.cnd = Cnd(ins, S2)
      BY <2>1, <3>3, <3>4 DEF Cnd
    <3>7. core'.e.dstE = DestE(ins, S2)
      <4>1. core.d.dstE = DstE(ins)
        BY <1>1 DEF Pre, RunInv, Slots
      <4> QED
        BY <2>1, <3>6, <4>1 DEF DestE
    <3>8. InE'
      BY <1>2, <2>1, <3>1, <3>5, <3>6, <3>7 DEF InE
    <3> QED
      BY <1>6, <2>2, <2>3, <3>4, <3>8
  <2> QED
    BY <2>6, <2>7, <2>8
<1> QED
  BY <1>5, <1>6

\* The four things a clock may do to the instructions in F, D and E.
Waits == LoadUse(core, Loads)
Jumps == Mispredicted(core)
Returns == RetInPipe(core) /\ ~ Waits /\ ~ Jumps
Plain == ~ RetInPipe(core) /\ ~ Waits /\ ~ Jumps

\* Nothing is in the stage.
Empty(s) == s.tag = NULL /\ s.ins = Nop /\ s.stat = "BUB"

\* The instruction in D moves to E.
Moves ==
    /\ core'.E = [stat |-> core.D.stat, ins |-> core.D.ins, dstM |-> core.d.dstM,
                  valA |-> core.d.valA, tag |-> core.D.tag]
    /\ core.D.tag # NULL => core'.E.tag # NULL

\* A clock waits for a load, squashes what a jump made it fetch, waits for a return,
\* or moves all on; only the last with a request to suspend under way.
LEMMA Cases ==
    ASSUME Clocked, GoesOn
    PROVE  /\ Waits \/ Jumps \/ Returns \/ Plain
           /\ core'.f.tag \in Int /\ NULL \notin Int
           /\ Bubbles.E_bubble <=> Waits \/ Jumps
           /\ Waits => /\ Empty(core'.E) /\ core'.D = core.D /\ core'.f.tag = core.f.tag
                       /\ core.D.tag # NULL /\ ~ Asked(prog) /\ ~ core.signal
                       /\ core.f.tag # NULL /\ core'.F_predPC = core'.f.tag
           /\ Jumps => /\ Empty(core'.E) /\ Empty(core'.D) /\ core'.f.tag = core.E.valA
                       /\ ~ Asked(prog) /\ ~ core.signal
           /\ Returns => /\ Moves /\ Empty(core'.D) /\ ~ Asked(prog) /\ ~ core.signal
                         /\ core'.f.tag = IF core.M.icode = "ret" THEN core.m.valM
                                          ELSE core.f.tag
                         /\ core.M.icode # "ret" => core'.F_predPC = core'.f.tag
           /\ Plain => /\ Moves /\ core'.D = [core.f EXCEPT !.stat = FStatus]
                       /\ core.M.icode # "ret"
                       /\ core'.f.tag = IF core.signal THEN core.f.tag ELSE core.f_predPC
                       /\ core'.F_predPC = core'.f.tag
<1>1. /\ Pre /\ ~ Bubbles.M_bubble /\ Slots /\ Chain /\ NULL \notin Int
      /\ core.signal => core.f.tag # NULL
  BY StageWExact, NotNull DEF Clocked, Pre, RunInv, Requests
<1>2. /\ Bubbles.E_bubble <=> Waits \/ Jumps
      /\ ~ (Jumps /\ Waits)
      /\ core.M.icode = "ret" => /\ core.E.tag = NULL /\ core.D.tag = NULL /\ ~ Jumps /\ ~ Waits
      /\ Waits => core.E.tag # NULL /\ core.D.tag # NULL
  BY <1>1, Quiet DEF Waits, Jumps
<1>3. /\ Bubbles.D_stall = Waits
      /\ Bubbles.D_bubble = (Jumps \/ (RetInPipe(core) /\ ~ Waits))
      /\ Bubbles.F_stall = (Waits \/ RetInPipe(core) \/ core.signal)
  BY DEF Bubbles, PipeLogic, Waits, Jumps
<1>4. /\ core'.D = IF Bubbles.D_stall THEN core.D
                   ELSE IF Bubbles.D_bubble THEN Squashed(core.f)
                   ELSE [core.f EXCEPT !.stat = FStatus]
      /\ Bubbles.E_bubble => Empty(core'.E)
      /\ ~ Bubbles.E_bubble => Moves
  BY DEF Clocked, ClockD, ClockE, Empty, Moves
<1>5. Empty(Squashed(core.f))
  BY DEF Empty, Squashed
<1>6. /\ core'.f.tag = FetchPc(core') /\ core'.f.tag \in Int
      /\ core'.F_predPC = IF Bubbles.F_stall THEN core.F_predPC ELSE core.f_predPC
  BY DEF Clocked, ClockF
<1>7. FetchPc(core') = IF Jumps THEN core.E.valA
                       ELSE IF core.M.icode = "ret" THEN core.m.valM ELSE core'.F_predPC
  BY <1>1 DEF Clocked, ClockM, ClockW, FetchPc, Jumps, Mispredicted
<1>8. Waits \/ Jumps \/ RetInPipe(core) => ~ Asked(prog) /\ ~ core.signal
  BY <1>1, AskedQuiet, SuspendAsked DEF Waits, Jumps
<1>9. core.F_predPC = core.f.tag
       \/ /\ core.D.tag = NULL /\ core.E.tag = NULL
          /\ core.M.icode # "ret"
          /\ Asked(prog) => core.f.tag = NULL
  BY <1>1 DEF Chain
<1>10. RetInPipe(core) /\ core.M.icode # "ret" => core.D.tag # NULL \/ core.E.tag # NULL
  BY <1>1, SlotsAre DEF RetInPipe
<1>11. core.signal => core.F_predPC = core.f.tag
  BY <1>1, <1>9, SuspendAsked
<1>12. Waits => core.f.tag # NULL
  BY <1>1, <1>2 DEF Chain
<1>13. CASE Waits
  BY <1>1, <1>2, <1>3, <1>4, <1>6, <1>7, <1>8, <1>9, <1>12, <1>13 DEF Returns, Plain
<1>14. CASE Jumps
  BY <1>1, <1>2, <1>3, <1>4, <1>5, <1>6, <1>7, <1>8, <1>14 DEF Returns, Plain
<1>15. CASE Returns
  <2>1. ~ Waits /\ ~ Jumps /\ ~ Plain /\ RetInPipe(core)
    BY <1>15 DEF Returns, Plain
  <2>2. Moves /\ Empty(core'.D) /\ ~ Asked(prog) /\ ~ core.signal
    BY <1>2, <1>3, <1>4, <1>5, <1>8, <2>1
  <2>3. core.M.icode # "ret" => core'.F_predPC = core.f.tag
    BY <1>3, <1>6, <1>9, <1>10, <2>1
  <2> QED
    BY <1>1, <1>2, <1>6, <1>7, <1>15, <2>1, <2>2, <2>3
<1>16. CASE Plain
  <2>1. ~ Waits /\ ~ Jumps /\ ~ Returns /\ ~ RetInPipe(core)
    BY <1>16 DEF Returns, Plain
  <2>2. core.M.icode # "ret"
    BY <2>1 DEF RetInPipe
  <2>3. Moves /\ core'.D = [core.f EXCEPT !.stat = FStatus]
    BY <1>2, <1>3, <1>4, <2>1
  <2>4. core'.F_predPC = IF core.signal THEN core.f.tag ELSE core.f_predPC
    BY <1>3, <1>6, <1>11, <2>1
  <2> QED
    BY <1>1, <1>2, <1>6, <1>7, <1>16, <2>1, <2>2, <2>3, <2>4
<1>17. Waits \/ Jumps \/ Returns \/ Plain
  BY DEF Returns, Plain
<1> QED
  BY <1>13, <1>14, <1>15, <1>16, <1>17

\* What is fetched.
LEMMA FetchedIs ==
    ASSUME Clocked, GoesOn
    PROVE  LET f == core'.f IN
           /\ f.tag \in Int /\ f.tag # NULL
           /\ core'.imem_error = (core.imem_error \/ ~ InText(f.tag))
           /\ f.valP = f.tag + 1
           /\ f.ins = IF core'.imem_error THEN Nop ELSE InstrAt(prog, f.tag)
           /\ f.stat = FetchedStat(core'.imem_error, f.ins, FStatus)
           /\ core'.f_predPC = NextPc(f.ins, f.tag)
<1>1. NULL \notin Int
  BY Cases
<1> QED
  BY <1>1 DEF Clocked, ClockF

\* Every stage holds an instruction with a status it can have.
LEMMA SlotsKept ==
    ASSUME Clocked, GoesOn
    PROVE  Slots'
<1>1. /\ Pre /\ Slots /\ Regular(prog) /\ prog' = prog
      /\ core \in CoreType /\ core' \in CoreType
      /\ Waits \/ Jumps \/ Returns \/ Plain
  BY Cases DEF Clocked, Pre, RunInv, ClockRest, TypeInv
<1>2. /\ Bubbles.E_bubble <=> Waits \/ Jumps
      /\ Waits => Empty(core'.E) /\ core'.D = core.D
      /\ Jumps => Empty(core'.E) /\ Empty(core'.D)
      /\ Returns => Moves /\ Empty(core'.D)
      /\ Plain => Moves /\ core'.D = [core.f EXCEPT !.stat = FStatus]
  BY Cases
<1>3. Empty(core'.E) \/ Moves
  BY <1>1, <1>2
<1>4. \/ Empty(core'.D) \/ core'.D = core.D \/ core'.D = [core.f EXCEPT !.stat = FStatus]
  BY <1>1, <1>2
<1>5. /\ core'.f.tag # NULL
      /\ core'.imem_error = (core.imem_error \/ ~ InText(core'.f.tag))
      /\ core'.f.valP = core'.f.tag + 1
      /\ core'.f.ins = IF core'.imem_error THEN Nop ELSE InstrAt(prog, core'.f.tag)
      /\ core'.f.stat = FetchedStat(core'.imem_error, core'.f.ins, FStatus)
      /\ core'.f_predPC = NextPc(core'.f.ins, core'.f.tag)
  BY FetchedIs
<1>6. core'.f.stat \in {IF core'.imem_error THEN "ADR" ELSE StatOf(core'.f.ins), "SPD"}
  BY <1>5 DEF FetchedStat
<1>7. Slot(core'.f.tag, core'.f.ins, core'.f.stat)
  BY <1>5, <1>6 DEF Slot
<1>8. Slot(core'.E.tag, core'.E.ins, core'.E.stat)
  <2>1. CASE Empty(core'.E)
    BY <2>1 DEF Empty, Slot, Idle
  <2>2. CASE Moves
    BY <1>1, <2>2 DEF Slots, Moves
  <2> QED
    BY <1>3, <2>1, <2>2
<1>9. Slot(core'.D.tag, core'.D.ins, core'.D.stat)
  <2>1. CASE Empty(core'.D)
    BY <2>1 DEF Empty, Slot, Idle
  <2>2. CASE core'.D = core.D
    BY <1>1, <2>2 DEF Slots
  <2>3. CASE core'.D = [core.f EXCEPT !.stat = FStatus]
    <3>1. core'.D.tag = core.f.tag /\ core'.D.ins = core.f.ins /\ core'.D.stat = FStatus
      BY <1>1, <2>3 DEF CoreType
    <3>2. core.signal => core.f.tag # NULL
      BY <1>1 DEF Pre, RunInv, Requests
    <3> QED
      BY <1>1, <3>1, <3>2 DEF Slots, Slot, FStatus
  <2> QED
    BY <1>4, <2>1, <2>2, <2>3
<1>10. core'.D.tag # NULL =>
         /\ core'.D.valP = core'.D.tag + 1
         /\ core'.D.ins = InstrAt(prog, core'.D.tag) \/ core'.imem_error
  <2>1. core.imem_error => core'.imem_error
    BY <1>5
  <2>2. CASE Empty(core'.D)
    BY <2>2 DEF Empty
  <2>3. CASE core'.D = core.D
    BY <1>1, <2>1, <2>3 DEF Slots
  <2>4. CASE core'.D = [core.f EXCEPT !.stat = FStatus]
    <3>1. core'.D.tag = core.f.tag /\ core'.D.ins = core.f.ins /\ core'.D.valP = core.f.valP
      BY <1>1, <2>4 DEF CoreType
    <3> QED
      BY <1>1, <2>1, <3>1 DEF Slots
  <2> QED
    BY <1>4, <2>2, <2>3, <2>4
<1>11. /\ core'.d.srcA = SrcA(core'.D.ins) /\ core'.d.srcB = SrcB(core'.D.ins)
       /\ core'.d.dstE = DstE(core'.D.ins) /\ core'.d.dstM = DstM(core'.D.ins)
  <2>1. CASE Bubbles.D_stall \/ ~ Bubbles.D_bubble
    BY <2>1 DEF Clocked, ClockD, Reading
  <2>2. CASE ~ Bubbles.D_stall /\ Bubbles.D_bubble
    <3>1. core'.D.ins = Nop
      BY <2>2 DEF Clocked, ClockD, Squashed
    <3> QED
      BY <2>2, <3>1, IdleFormed DEF Clocked, ClockD, SrcA, SrcB, DstE, DstM
  <2> QED
    BY <2>1, <2>2
<1>12. core'.E.dstM = DstM(core'.E.ins)
  <2>1. CASE Bubbles.E_bubble
    BY <2>1, IdleFormed DEF Clocked, ClockE, DstM
  <2>2. CASE ~ Bubbles.E_bubble
    BY <1>1, <2>2 DEF Clocked, ClockE, Slots
  <2> QED
    BY <2>1, <2>2
<1>13. core'.E.tag = NULL => core'.e.dstE = RNONE
  <2>1. CASE Bubbles.E_bubble
    BY <2>1 DEF Clocked, ClockE
  <2>2. CASE ~ Bubbles.E_bubble /\ core.D.tag = NULL
    <3>1. core.D.ins.icode \in {"nop", "halt"}
      BY <1>1, <2>2, SlotsAre
    <3>2. core.d.dstE = RNONE
      BY <1>1, <3>1 DEF Slots, DstE
    <3> QED
      BY <2>2, <3>2 DEF Clocked, ClockE
  <2>3. CASE ~ Bubbles.E_bubble /\ core.D.tag # NULL
    BY <2>3 DEF Clocked, ClockE
  <2> QED
    BY <2>1, <2>2, <2>3
<1>14. core'.E.ins.icode = "jxx" /\ core'.E.ins.ifun = 0 => core'.e.cnd
  <2>1. CASE Bubbles.E_bubble
    BY <2>1, IdleFormed DEF Clocked, ClockE
  <2>2. CASE ~ Bubbles.E_bubble
    <3>1. SUFFICES ASSUME core'.E.ins.ifun = 0 PROVE core'.e.cnd
      OBVIOUS
    <3>2. core'.e.cnd = getcnd(core.D.ins.ifun, core'.cc) /\ core'.E.ins = core.D.ins
      BY <2>2 DEF Clocked, ClockE
    <3>3. \A cc : getcnd(0, cc) = TRUE
      BY DEF getcnd
    <3> QED
      BY <3>1, <3>2, <3>3
  <2> QED
    BY <2>1, <2>2
<1>15. \A r \in Regs :
         /\ r = core'.W.dstM => core'.REG[r] = core'.W.valM
         /\ r = core'.W.dstE /\ r # core'.W.dstM => core'.REG[r] = core'.W.valE
  <2>1. /\ core'.W.dstM = core.M.dstM /\ core'.W.dstE = core.M.dstE
        /\ core'.W.valM = core.m.valM /\ core'.W.valE = core.M.valE
        /\ core'.REG = Write(Write(core.REG, core.M.dstE, core.M.valE),
                             core.M.dstM, core.m.valM)
    BY DEF Clocked, ClockW
  <2>2. /\ core.REG \in [Regs -> Words] /\ core.M.dstE \in AnyReg
        /\ core.M.dstM \in AnyReg /\ core.M.valE \in Words /\ core.m.valM \in Words
    BY <1>1 DEF CoreType
  <2>3. RNONE \notin Regs
    BY DEF Regs, RNONE
  <2> QED
    BY <2>1, <2>2, <2>3 DEF Write, AnyReg
<1>16. core'.M.tag = NULL =>
         /\ core'.M.dstE = RNONE /\ core'.M.dstM = RNONE
         /\ core'.M.icode \in {"nop", "halt"}
         /\ core'.m.stat \in {"AOK", "BUB"}
  <2>1. SUFFICES ASSUME core'.M.tag = NULL
                 PROVE  /\ core'.M.dstE = RNONE /\ core'.M.dstM = RNONE
                        /\ core'.M.icode \in {"nop", "halt"}
                        /\ core'.m.stat \in {"AOK", "BUB"}
    OBVIOUS
  <2>2. ~ Bubbles.M_bubble
    BY StageWExact
  <2>3. core.E.tag = NULL
    BY <2>1, <2>2 DEF Clocked, ClockM
  <2>4. core.E.ins.icode \in {"nop", "halt"} /\ core.E.stat \in {"AOK", "BUB"}
    BY <1>1, <2>3, SlotsAre
  <2>5. core.e.dstE = RNONE /\ core.E.dstM = RNONE
    BY <1>1, <2>3, <2>4 DEF Slots, DstM
  <2>6. ~ DmemError(core)
    BY <2>4 DEF DmemError, Reads, Writes
  <2> QED
    BY <2>2, <2>4, <2>5, <2>6 DEF Clocked, ClockM
<1>17. core'.W.stat \in {"AOK", "BUB"}
  BY <1>1 DEF Clocked, ClockW, CoreType, GoesOn, Stats
<1>18. core'.m.stat # "SYS" \/ core'.M.icode = "syscall"
  <2>1. ~ Bubbles.M_bubble
    BY StageWExact
  <2> QED
    BY <1>1, <2>1, SlotsAre DEF Clocked, ClockM
<1> QED
  BY <1>1, <1>5, <1>6, <1>7, <1>8, <1>9, <1>10, <1>11, <1>12, <1>13, <1>14, <1>15, <1>16,
     <1>17, <1>18 DEF Slots, Slot

\* The stages hold what follows what, in the order of fetching.
LEMMA ChainKept ==
    ASSUME Clocked, GoesOn
    PROVE  Chain'
<1>1. /\ Pre /\ Slots /\ Chain /\ prog' = prog /\ core \in CoreType
      /\ Waits \/ Jumps \/ Returns \/ Plain
      /\ ~ Bubbles.M_bubble
  BY Cases, StageWExact DEF Clocked, Pre, RunInv, ClockRest, TypeInv
<1>2. /\ Waits => /\ Empty(core'.E) /\ core'.D = core.D /\ core'.f.tag = core.f.tag
                  /\ core.D.tag # NULL /\ ~ Asked(prog)
                  /\ core'.F_predPC = core'.f.tag
      /\ Jumps => /\ Empty(core'.E) /\ Empty(core'.D) /\ ~ Asked(prog)
      /\ Returns => /\ Moves /\ Empty(core'.D) /\ ~ Asked(prog)
                    /\ core.M.icode # "ret" => core'.f.tag = core.f.tag
                    /\ core.M.icode # "ret" => core'.F_predPC = core'.f.tag
      /\ Plain => /\ Moves /\ core'.D = [core.f EXCEPT !.stat = FStatus]
                  /\ ~ core.signal => core'.f.tag = core.f_predPC
                  /\ core'.F_predPC = core'.f.tag
      /\ NULL \notin Int
  BY Cases
<1>3. core'.f.tag # NULL
  BY FetchedIs
<1>4. core'.M.icode = core.E.ins.icode /\ core'.M.tag = core.E.tag
  BY <1>1 DEF Clocked, ClockM
<1>5. core.M.icode = "ret" => core.D.tag = NULL /\ core.E.tag = NULL
  BY <1>1 DEF Chain
<1>6. core.E.ins.icode = "ret" =>
        /\ core.E.tag \in DOMAIN prog /\ prog[core.E.tag].icode = "ret" /\ core.E.tag # NULL
        /\ core.D.tag = NULL /\ core.f.tag = core.E.tag + 1 /\ core.M.icode # "ret"
        /\ Returns
  <2>1. SUFFICES ASSUME core.E.ins.icode = "ret"
                 PROVE  /\ core.E.tag \in DOMAIN prog /\ prog[core.E.tag].icode = "ret"
                        /\ core.E.tag # NULL
                        /\ core.D.tag = NULL /\ core.f.tag = core.E.tag + 1
                        /\ core.M.icode # "ret" /\ Returns
    OBVIOUS
  <2>2. Returns
    BY <2>1 DEF Returns, RetInPipe, Waits, Jumps, LoadUse, Mispredicted, Loads
  <2>3. core.E.stat # "SPD"
    BY <1>1, <1>2, <2>2, SuspendAsked
  <2>4. /\ core.E.tag \in DOMAIN prog /\ prog[core.E.tag].icode = "ret"
        /\ core.E.tag # NULL
    BY <1>1, <2>1, SlotsAre
  <2> QED
    BY <1>1, <1>5, <2>1, <2>2, <2>3, <2>4 DEF Chain
<1>7. core'.D.tag # NULL /\ core'.D.stat # "SPD" =>
        core'.f.tag = NextPc(core'.D.ins, core'.D.tag)
  <2>1. CASE Waits
    BY <1>1, <1>2, <2>1 DEF Chain
  <2>2. CASE Jumps \/ Returns
    BY <1>2, <2>2 DEF Empty
  <2>3. CASE Plain
    <3>1. core'.D.tag = core.f.tag /\ core'.D.ins = core.f.ins /\ core'.D.stat = FStatus
      BY <1>1, <1>2, <2>3 DEF CoreType
    <3>2. SUFFICES ASSUME core.f.tag # NULL, FStatus # "SPD"
                   PROVE  core'.f.tag = NextPc(core.f.ins, core.f.tag)
      BY <3>1
    <3>3. core'.f.tag = core.f_predPC
      BY <1>2, <2>3, <3>2 DEF FStatus
    <3> QED
      BY <1>1, <3>2, <3>3 DEF Slots
  <2> QED
    BY <1>1, <2>1, <2>2, <2>3
<1>8. core'.E.tag # NULL /\ core'.E.stat # "SPD" =>
        IF core'.E.ins.icode = "ret"
        THEN core'.D.tag = NULL /\ core'.f.tag = core'.E.tag + 1
        ELSE core'.D.tag = NextPc(core'.E.ins, core'.E.tag)
  <2>1. CASE Waits \/ Jumps
    BY <1>2, <2>1 DEF Empty
  <2>2. CASE Returns \/ Plain
    <3>1. core'.E.tag = core.D.tag /\ core'.E.ins = core.D.ins /\ core'.E.stat = core.D.stat
      BY <1>2, <2>2 DEF Moves
    <3>2. SUFFICES ASSUME core.D.tag # NULL, core.D.stat # "SPD"
                   PROVE  IF core.D.ins.icode = "ret"
                          THEN core'.D.tag = NULL /\ core'.f.tag = core.D.tag + 1
                          ELSE core'.D.tag = NextPc(core.D.ins, core.D.tag)
      BY <3>1
    <3>3. core.f.tag = NextPc(core.D.ins, core.D.tag) /\ core.M.icode # "ret"
      BY <1>1, <1>5, <3>2 DEF Chain
    <3>4. core.D.ins.icode = "ret" <=> Returns
      BY <1>6, <2>2, <3>2, <3>3 DEF Returns, Plain, RetInPipe
    <3>5. CASE Returns
      <4>1. NextPc(core.D.ins, core.D.tag) = core.D.tag + 1
        BY <3>4, <3>5 DEF NextPc
      <4> QED
        BY <1>2, <3>3, <3>4, <3>5, <4>1 DEF Empty
    <3>6. CASE ~ Returns
      BY <1>1, <1>2, <2>2, <3>3, <3>4, <3>6 DEF CoreType
    <3> QED
      BY <3>5, <3>6
  <2> QED
    BY <1>1, <2>1, <2>2
<1>9. core'.M.icode = "ret" =>
        /\ core'.D.tag = NULL /\ core'.E.tag = NULL
        /\ core'.M.tag \in DOMAIN prog /\ prog[core'.M.tag].icode = "ret"
        /\ core'.f.tag = core'.M.tag + 1
  BY <1>2, <1>4, <1>6 DEF Moves, Empty
<1>10. core'.F_predPC = core'.f.tag
         \/ /\ core'.D.tag = NULL /\ core'.E.tag = NULL
            /\ core'.M.icode # "ret"
            /\ Asked(prog) => core'.f.tag = NULL
  <2>1. CASE Jumps
    BY <1>2, <1>4, <2>1 DEF Empty, Jumps, Mispredicted
  <2>2. CASE Returns /\ core.M.icode = "ret"
    BY <1>2, <1>4, <1>5, <1>6, <2>2 DEF Empty, Moves
  <2> QED
    BY <1>1, <1>2, <2>1, <2>2
<1> QED
  BY <1>1, <1>3, <1>7, <1>8, <1>9, <1>10 DEF Chain

\* What is forwarded is what the register is when the instructions in E and M have
\* been executed, unless the one in E has yet to load it.
LEMMA ForwardIs ==
    ASSUME NEW c, NEW REG1, NEW REG2, NEW v, NEW r \in AnyReg,
           c.REG \in [Regs -> Words],
           c.E.dstM \in AnyReg, c.e.dstE \in AnyReg, c.M.dstM \in AnyReg,
           c.M.dstE \in AnyReg,
           \A q \in Regs :
             /\ q = c.W.dstM => c.REG[q] = c.W.valM
             /\ q = c.W.dstE /\ q # c.W.dstM => c.REG[q] = c.W.valE,
           REG1 = Write(Write(c.REG, c.M.dstE, c.M.valE), c.M.dstM, c.m.valM),
           REG2 = Write(Write(REG1, c.e.dstE, c.e.valE), c.E.dstM, v),
           r = RNONE \/ r # c.E.dstM
    PROVE  Forward(c, r) = Rd(REG2, r)
<1>1. CASE r = RNONE
  BY <1>1 DEF Forward, Rd
<1>2. CASE r # RNONE
  <2>1. r \in Regs /\ RNONE \notin Regs
    BY <1>2 DEF AnyReg, Regs, RNONE
  <2>2. /\ DOMAIN REG1 = Regs
        /\ REG1[r] = IF r = c.M.dstM THEN c.m.valM
                     ELSE IF r = c.M.dstE THEN c.M.valE ELSE c.REG[r]
    BY <2>1 DEF Write, AnyReg
  <2>3. REG2[r] = IF r = c.e.dstE THEN c.e.valE ELSE REG1[r]
    BY <1>2, <2>1, <2>2 DEF Write, AnyReg
  <2> QED
    BY <1>2, <2>1, <2>2, <2>3 DEF Forward, Rd
<1> QED
  BY <1>1, <1>2

\* No request to suspend has got to an instruction, as long as all go on.
LEMMA NoneBefore ==
    ASSUME Pre, S3.stat = "AOK"
    PROVE  /\ "SPD" \notin {core.f.stat, core.D.stat, core.E.stat, core.m.stat}
           /\ core.signal => core.f.stat = "AOK"
<1>1. /\ S2.stat = "AOK" /\ S1.stat = "AOK" /\ GoesOn
      /\ S1 \in IsaType /\ S2 \in IsaType /\ Regular(prog)
  BY Live DEF Pre
<1>2. core.E.stat # "SPD"
  <2>1. core.E.tag = NULL => core.E.stat # "SPD"
    BY SlotsAre
  <2> QED
    BY <1>1, <2>1, AfterAlive DEF S2
<1>3. core.D.stat # "SPD"
  <2>1. core.D.tag = NULL => core.D.stat # "SPD"
    BY SlotsAre
  <2>2. core.D.stat = "SPD" => ~ Mispredicted(core)
    BY AskedQuiet, SuspendAsked
  <2> QED
    BY <1>1, <2>1, <2>2, AfterAlive DEF S3
<1> QED
  BY <1>1, <1>2, <1>3 DEF Pre, RunInv, Requests, GoesOn

\* The instruction that gets to D, or stays there, is the one after those that go
\* before it, and reads what they have left.
LEMMA InDKept ==
    ASSUME Clocked, GoesOn
    PROVE  InD'
<1>1. /\ Pre /\ Slots /\ Chain /\ InD /\ InF /\ prog' = prog /\ core \in CoreType
      /\ core' \in CoreType /\ Regular(prog)
      /\ Waits \/ Jumps \/ Returns \/ Plain
      /\ S1 \in IsaType /\ S2 \in IsaType /\ S3 \in IsaType
      /\ S3.stat = "AOK" => S2.stat = "AOK"
      /\ S2.stat = "AOK" => S1.stat = "AOK"
  BY Cases, Live DEF Clocked, Pre, RunInv, ClockRest, TypeInv
<1>2. /\ Waits => /\ Empty(core'.E) /\ core'.D = core.D
      /\ Jumps => /\ Empty(core'.D)
      /\ Returns => Empty(core'.D)
      /\ Plain => /\ Moves /\ core'.D = [core.f EXCEPT !.stat = FStatus]
      /\ Bubbles.E_bubble <=> Waits \/ Jumps
      /\ ~ (Waits /\ Jumps)
  BY <1>1, Cases, Quiet DEF Waits, Jumps
<1>3. /\ S1' = S2 /\ S2' = IF Bubbles.E_bubble THEN S2 ELSE S3
      /\ ~ Bubbles.E_bubble => S3 = After(S2, core.D.tag, core.D.stat)
      /\ InM' /\ InE' /\ Slots'
      /\ isa' = S1 /\ core'.REG = isa'.REG
  BY StageWExact, StageMExact, StageEExact, SlotsKept
<1>4. SUFFICES ASSUME S2'.stat = "AOK", ~ Mispredicted(core'), core'.D.tag # NULL
               PROVE  LET ins == InsAt(prog, S2'.pc) IN
                      /\ core'.D.tag = S2'.pc
                      /\ core'.D.ins = ins
                      /\ \/ core'.D.stat = StatAt(prog, S2'.pc)
                         \/ core'.D.stat = "SPD" /\ StatAt(prog, S2'.pc) = "AOK"
                      /\ ~ LoadUse(core', Loads) =>
                           core'.d.valA = ValA(ins, S2') /\ core'.d.valB = ValB(ins, S2')
  BY <1>1 DEF InD, LoadUse, Mispredicted
<1>5. Waits \/ Plain
  BY <1>1, <1>2, <1>4 DEF Empty
<1>6. /\ core'.D.tag = S2'.pc
      /\ core'.D.ins = InsAt(prog, S2'.pc)
      /\ \/ core'.D.stat = StatAt(prog, S2'.pc)
         \/ core'.D.stat = "SPD" /\ StatAt(prog, S2'.pc) = "AOK"
  <2>1. CASE Waits
    BY <1>1, <1>2, <1>3, <1>4, <2>1 DEF InD, Jumps
  <2>2. CASE Plain
    <3>1. /\ core'.D.tag = core.f.tag /\ core'.D.ins = core.f.ins /\ core'.D.stat = FStatus
          /\ S2' = S3 /\ S3.stat = "AOK" /\ S2.stat = "AOK"
          /\ S3 = After(S2, core.D.tag, core.D.stat)
          /\ ~ Jumps /\ ~ RetInPipe(core)
      BY <1>1, <1>2, <1>3, <1>4, <2>2 DEF CoreType, Plain
    <3>2. /\ core.imem_error <=> ~ InText(core.f.tag)
          /\ core.D.tag = NULL => core.f.tag = S3.pc
      BY <1>1, <1>4, <3>1 DEF InF, Jumps
    <3>3. core.D.tag # NULL => core.f.tag = S3.pc
      <4>1. SUFFICES ASSUME core.D.tag # NULL PROVE core.f.tag = S3.pc
        OBVIOUS
      <4>2. /\ core.D.tag = S2.pc /\ core.D.ins = InsAt(prog, S2.pc)
        BY <1>1, <3>1, <4>1 DEF InD, Jumps
      <4>3. core.D.stat # "SPD" /\ core.f.tag = NextPc(core.D.ins, core.D.tag)
        BY <1>1, <3>1, <4>1, AfterAlive DEF Chain
      <4> DEFINE i == InsAt(prog, S2.pc)
      <4>4. S3.pc = IF i.icode = "ret" THEN S2.mem[At(i, S2)]
                    ELSE IF i.icode = "jxx" /\ ~ Cnd(i, S2) THEN S2.pc + 1
                    ELSE NextPc(i, S2.pc)
        <5>1. After(S2, core.D.tag, core.D.stat).stat # "ADR"
          BY <3>1
        <5>2. After(S2, core.D.tag, core.D.stat).pc =
                IF i.icode = "ret" THEN S2.mem[At(i, S2)]
                ELSE IF i.icode = "jxx" /\ ~ Cnd(i, S2) THEN S2.pc + 1
                ELSE NextPc(i, S2.pc)
          BY <1>1, <3>1, <4>1, <5>1, AfterPc
        <5> QED
          BY <3>1, <5>2
      <4>5. core.D.ins.icode # "ret"
        BY <3>1 DEF RetInPipe
      <4>6. core.D.ins.icode = "jxx" => Cnd(core.D.ins, S2)
        <5>1. core'.E.tag = core.D.tag /\ core'.E.ins = core.D.ins
          BY <1>2, <2>2 DEF Moves
        <5>2. core.D.ins.icode = "jxx" => core'.e.cnd = Cnd(core.D.ins, S2)
          BY <1>1, <1>3, <3>1, <4>1, <4>2, <5>1 DEF InE
        <5> QED
          BY <1>4, <5>1, <5>2 DEF Mispredicted
      <4> QED
        BY <4>2, <4>3, <4>4, <4>5, <4>6
    <3>4. core.f.tag = S3.pc
      BY <3>2, <3>3
    <3>5. core.f.ins = InsAt(prog, S3.pc)
      BY <1>1, <1>4, <3>1, <3>2, <3>4 DEF Slots, InsAt
    <3>6. \/ FStatus = StatAt(prog, S3.pc)
          \/ FStatus = "SPD" /\ StatAt(prog, S3.pc) = "AOK"
      <4>1. core.f.stat # "SPD" /\ (core.signal => core.f.stat = "AOK")
        BY <1>1, <3>1, NoneBefore
      <4>2. core.f.stat = IF core.imem_error THEN "ADR" ELSE StatOf(core.f.ins)
        BY <1>1, <1>4, <3>1, <4>1 DEF Slots
      <4>3. core.f.stat = StatAt(prog, S3.pc)
        BY <3>2, <3>4, <3>5, <4>2 DEF StatAt, InsAt
      <4> QED
        BY <4>1, <4>3 DEF FStatus
    <3> QED
      BY <3>1, <3>4, <3>5, <3>6
  <2> QED
    BY <1>5, <2>1, <2>2
<1>7. ASSUME ~ LoadUse(core', Loads), NEW r \in {SrcA(core'.D.ins), SrcB(core'.D.ins)}
      PROVE  Forward(core', r) = Rd(S2'.REG, r)
  <2>1. r \in AnyReg
    BY <1>1, RegsOf DEF CoreType
  <2>2. r = RNONE \/ r # core'.E.dstM
    <3>1. core'.E.ins.icode \in Loads => r # core'.E.dstM
      BY <1>3, <1>7 DEF LoadUse, Slots
    <3>2. core'.E.ins.icode \notin Loads => core'.E.dstM = RNONE
      BY <1>3 DEF Slots, DstM, Loads
    <3> QED
      BY <3>1, <3>2
  <2>3. S1'.stat = "AOK"
    BY <1>1, <1>3, <1>4
  <2>4. S1'.REG = Write(Write(core'.REG, core'.M.dstE, core'.M.valE),
                        core'.M.dstM, core'.m.valM)
    <3>1. CASE core'.M.tag = NULL
      <4>1. S1' = isa'
        BY <3>1 DEF S1, After
      <4> QED
        BY <1>3, <3>1, <4>1 DEF Slots, Write
    <3>2. CASE core'.M.tag # NULL
      BY <1>3, <2>3, <3>2 DEF InM
    <3> QED
      BY <3>1, <3>2
  <2>5. PICK v : S2'.REG = Write(Write(S1'.REG, core'.e.dstE, core'.e.valE),
                                 core'.E.dstM, v)
    <3>1. CASE core'.E.tag = NULL
      <4>1. S2' = S1'
        BY <3>1 DEF S2, After
      <4>2. core'.e.dstE = RNONE /\ core'.E.dstM = RNONE
        <5>1. Slot(core'.E.tag, core'.E.ins, core'.E.stat)
          BY <1>1, <1>3 DEF Slots, Slot
        <5>2. core'.E.ins.icode \in {"nop", "halt"}
          BY <1>1, <3>1, <5>1, SlotIs
        <5> QED
          BY <1>3, <3>1, <5>2 DEF Slots, DstM
      <4> QED
        BY <4>1, <4>2 DEF Write
    <3>2. CASE core'.E.tag # NULL
      <4> DEFINE i == InsAt(prog, S2.pc)
      <4>1. S2' = After(S2, core'.E.tag, core'.E.stat)
        BY <1>1, <1>3 DEF S2, After
      <4>2. S2.stat = "AOK" /\ S2'.stat # "ADR"
        BY <1>3, <1>4, <2>3
      <4>3. After(S2, core'.E.tag, core'.E.stat).stat # "ADR" =>
              After(S2, core'.E.tag, core'.E.stat).REG
                = Write(Write(S2.REG, DestE(i, S2), ValE(i, S2)), DstM(i), S2.mem[At(i, S2)])
        BY <1>1, <3>2, <4>2, AfterRegs
      <4>4. core'.e.dstE = DestE(i, S2) /\ core'.e.valE = ValE(i, S2) /\ core'.E.ins = i
        BY <1>1, <1>3, <2>3, <3>2 DEF InE
      <4>5. core'.E.dstM = DstM(i)
        BY <1>3, <4>4 DEF Slots
      <4> QED
        BY <1>3, <4>1, <4>2, <4>3, <4>4, <4>5
    <3> QED
      BY <3>1, <3>2
  <2>6. /\ core'.REG \in [Regs -> Words]
        /\ core'.E.dstM \in AnyReg /\ core'.e.dstE \in AnyReg /\ core'.M.dstM \in AnyReg
        /\ core'.M.dstE \in AnyReg
    BY <1>1 DEF CoreType
  <2>7. \A q \in Regs :
          /\ q = core'.W.dstM => core'.REG[q] = core'.W.valM
          /\ q = core'.W.dstE /\ q # core'.W.dstM => core'.REG[q] = core'.W.valE
    BY <1>3 DEF Slots
  <2> QED
    BY <2>1, <2>2, <2>4, <2>5, <2>6, <2>7, ForwardIs
<1>8. core'.d = Reading(core', core'.D.ins, core'.D.valP)
  <2>1. ~ Bubbles.D_bubble \/ Bubbles.D_stall
    BY <1>5 DEF Plain, Bubbles, PipeLogic, Waits, Jumps
  <2> QED
    BY <2>1 DEF Clocked, ClockD
<1>9. core'.D.valP = core'.D.tag + 1
  BY <1>3, <1>4 DEF Slots
<1> QED
  BY <1>6, <1>7, <1>8, <1>9 DEF Reading, ValA, ValB

\* What is fetched next to be executed is at the pc the sequential machine gets to.
LEMMA InFKept ==
    ASSUME Clocked, GoesOn
    PROVE  InF'
<1>1. /\ Pre /\ Slots /\ Chain /\ InM /\ InE /\ InD /\ InF /\ prog' = prog
      /\ core \in CoreType /\ core' \in CoreType /\ Regular(prog)
      /\ Waits \/ Jumps \/ Returns \/ Plain
      /\ S1 \in IsaType /\ S2 \in IsaType /\ S3 \in IsaType
      /\ S1.stat = "AOK" /\ isa.stat = "AOK" /\ NULL \notin Int
  BY Cases, Live DEF Clocked, Pre, RunInv, ClockRest, TypeInv
<1>2. /\ Waits => /\ Empty(core'.E) /\ core'.D = core.D /\ core'.f.tag = core.f.tag
                  /\ core.D.tag # NULL /\ core.f.tag # NULL
      /\ Jumps => /\ Empty(core'.E) /\ Empty(core'.D) /\ core'.f.tag = core.E.valA
      /\ Returns => /\ Moves /\ Empty(core'.D)
                    /\ core'.f.tag = IF core.M.icode = "ret" THEN core.m.valM
                                     ELSE core.f.tag
      /\ Plain => /\ Moves /\ core'.D = [core.f EXCEPT !.stat = FStatus]
                  /\ core'.f.tag = IF core.signal THEN core.f.tag ELSE core.f_predPC
      /\ Bubbles.E_bubble <=> Waits \/ Jumps
      /\ ~ (Waits /\ Jumps)
      /\ ~ ((Waits \/ Jumps) /\ (Returns \/ Plain))
  BY <1>1, Cases, Quiet DEF Waits, Jumps, Returns, Plain
<1>3. /\ S1' = S2 /\ S2' = IF Bubbles.E_bubble THEN S2 ELSE S3
      /\ ~ Bubbles.E_bubble => S3 = After(S2, core.D.tag, core.D.stat)
      /\ InE' /\ InD' /\ S2' \in IsaType
  BY <1>1, StageMExact, StageEExact, InDKept
<1>4. S3' = IF Mispredicted(core') THEN S2' ELSE After(S2', core'.D.tag, core'.D.stat)
  BY <1>1 DEF S3, After, Mispredicted
<1>5. /\ core'.f.tag \in Int
      /\ core'.imem_error = (core.imem_error \/ ~ InText(core'.f.tag))
  BY FetchedIs
<1>6. Waits \/ Jumps => ~ Mispredicted(core')
  BY <1>2, IdleFormed DEF Empty, Mispredicted
<1>7. Waits => S3' = S3
  BY <1>2, <1>3, <1>4, <1>6 DEF S3, Jumps
<1>8. Jumps => S3 = S2 /\ S3' = S2
  BY <1>2, <1>3, <1>4, <1>6 DEF S3, Jumps, After, Empty
<1>9. Returns => S3' = S3
  BY <1>2, <1>3, <1>4 DEF After, Empty
<1>10. SUFFICES ASSUME S3'.stat = "AOK"
                PROVE  /\ core'.imem_error <=> ~ InText(core'.f.tag)
                       /\ ~ Mispredicted(core') /\ ~ RetInPipe(core') /\ core'.D.tag = NULL =>
                            core'.f.tag = S3'.pc
                       /\ core'.D.tag # NULL => core'.D.ins = InsAt(prog, core'.D.tag)
  BY <1>1 DEF InF, Mispredicted, RetInPipe
<1>11. S2'.stat = "AOK"
  BY <1>1, <1>3, <1>4, <1>10, AfterAlive
<1>12. S3.stat = "AOK" /\ S2.stat = "AOK"
  BY <1>1, <1>2, <1>3, <1>7, <1>8, <1>10, <1>11, Live
<1>13. /\ core.f.tag # NULL => (core.imem_error <=> ~ InText(core.f.tag))
       /\ core.f.tag # NULL /\ ~ Jumps /\ ~ RetInPipe(core) /\ core.D.tag = NULL =>
            core.f.tag = S3.pc
       /\ core.D.tag # NULL => core.D.ins = InsAt(prog, core.D.tag)
  BY <1>1, <1>12 DEF InF, Jumps
<1>14. core'.D.tag # NULL => core'.D.ins = InsAt(prog, core'.D.tag)
  <2>1. CASE Waits
    BY <1>2, <1>13, <2>1
  <2>2. CASE Jumps \/ Returns
    BY <1>2, <2>2 DEF Empty
  <2>3. CASE Plain
    <3>1. core'.D.tag = core.f.tag /\ core'.D.ins = core.f.ins
      BY <1>1, <1>2, <2>3 DEF CoreType
    <3> QED
      BY <1>1, <1>13, <3>1 DEF Slots, InsAt
  <2> QED
    BY <1>1, <2>1, <2>2, <2>3
<1>15. core'.imem_error <=> ~ InText(core'.f.tag)
  <2>1. SUFFICES ASSUME core.imem_error PROVE ~ InText(core'.f.tag)
    BY <1>5
  <2>2. core.f.tag # NULL /\ ~ InText(core.f.tag)
    BY <1>1, <1>13, <2>1 DEF Chain
  <2>3. CASE Waits
    BY <1>2, <2>2, <2>3
  <2>4. CASE Jumps
    <3>1. /\ core.D.tag \in Int /\ Vain(prog, core.D.tag)
          /\ core.f.tag = NextPc(core.D.ins, core.D.tag)
          /\ Vain(prog, NextPc(InstrAt(prog, core.D.tag), core.D.tag))
      BY <1>1, <2>4, Quiet DEF Jumps
    <3>2. core.D.ins = InstrAt(prog, core.D.tag)
      BY <1>1, <1>13, <3>1 DEF Vain, InsAt
    <3> QED
      BY <2>2, <3>1, <3>2 DEF Vain
  <2>5. CASE Returns
    <3>1. Vain(prog, core.f.tag)
      BY <1>1, <2>5, Quiet DEF Returns
    <3> QED
      BY <2>2, <3>1 DEF Vain
  <2>6. CASE Plain
    <3>1. /\ core'.D.tag = core.f.tag /\ S2' = S3 /\ S3 = After(S2, core.D.tag, core.D.stat)
          /\ core'.E.tag = core.D.tag /\ core'.E.ins = core.D.ins
      BY <1>1, <1>2, <1>3, <2>6 DEF CoreType, Moves
    <3>2. CASE Mispredicted(core')
      \* A jump that is not taken: what is in F is what stands where it goes.
      <4>1. core.D.ins.icode = "jxx" /\ ~ core'.e.cnd
        BY <3>1, <3>2 DEF Mispredicted
      <4>2. core.D.tag \in DOMAIN prog /\ core.D.ins = prog[core.D.tag] /\ core.D.tag # NULL
        BY <1>1, <4>1, SlotsAre
      <4>3. core.D.ins.ifun # 0
        <5>1. Slots'
          BY SlotsKept
        <5> QED
          BY <3>1, <4>1, <5>1 DEF Slots
      <4>4. core.D.stat # "SPD"
        BY <1>1, <1>12, <3>1, <4>2, AfterAlive
      <4>5. core.f.tag = core.D.ins.valC
        BY <1>1, <4>1, <4>2, <4>4 DEF Chain, NextPc
      <4> QED
        BY <1>1, <2>2, <4>1, <4>2, <4>3, <4>5 DEF Regular, Vain
    <3>3. CASE ~ Mispredicted(core')
      \* An address error, which stops all.
      <4>1. core'.D.tag = S3.pc
        BY <1>3, <1>11, <2>2, <3>1, <3>3 DEF InD, Mispredicted
      <4>2. S3' = After(S3, core'.D.tag, core'.D.stat) /\ core'.D.tag # NULL
        BY <1>4, <2>2, <3>1, <3>3
      <4>3. Step(prog, S3).stat = "ADR"
        BY <1>1, <1>12, <2>2, <3>1, <4>1, StepExact DEF StepOf
      <4>4. S3'.stat = "ADR"
        BY <1>12, <4>2, <4>3 DEF After
      <4> QED
        BY <1>10, <4>4
    <3> QED
      BY <3>2, <3>3
  <2> QED
    BY <1>1, <2>3, <2>4, <2>5, <2>6
<1>16. ~ Mispredicted(core') /\ ~ RetInPipe(core') /\ core'.D.tag = NULL =>
         core'.f.tag = S3'.pc
  <2>1. SUFFICES ASSUME ~ Mispredicted(core'), ~ RetInPipe(core'), core'.D.tag = NULL
                 PROVE  core'.f.tag = S3'.pc
    OBVIOUS
  <2>2. CASE Waits
    BY <1>2, <2>1, <2>2
  <2>3. CASE Jumps
    <3> DEFINE i == InsAt(prog, S1.pc)
    <3>1. core.E.tag # NULL /\ core.E.ins.icode = "jxx" /\ ~ core.e.cnd
      BY <1>1, <2>3, SlotsAre DEF Jumps, Mispredicted
    <3>2. core.E.ins = i /\ core.E.valA = ValA(i, S1) /\ core.e.cnd = Cnd(i, S1)
      BY <1>1, <3>1 DEF InE
    <3>3. After(S1, core.E.tag, core.E.stat).stat # "ADR"
      BY <1>12 DEF S2
    <3>4. After(S1, core.E.tag, core.E.stat).pc =
             IF i.icode = "ret" THEN S1.mem[At(i, S1)]
             ELSE IF i.icode = "jxx" /\ ~ Cnd(i, S1) THEN S1.pc + 1
             ELSE NextPc(i, S1.pc)
      BY <1>1, <3>1, <3>3, AfterPc
    <3>5. S2.pc = S1.pc + 1
      BY <3>1, <3>2, <3>4 DEF S2
    <3> QED
      BY <1>2, <1>8, <2>3, <3>1, <3>2, <3>5 DEF ValA
  <2>4. CASE Returns
    <3>1. core'.M.icode = core.E.ins.icode
      BY StageWExact DEF Clocked, ClockM
    <3>2. core.M.icode = "ret"
      BY <1>2, <2>1, <2>4, <3>1 DEF Returns, RetInPipe, Moves
    <3>3. core.M.tag # NULL /\ core.E.tag = NULL /\ core.D.tag = NULL
      BY <1>1, <3>2, Quiet
    <3>4. core.m.valM = S1.pc
      BY <1>1, <3>2, <3>3 DEF InM
    <3>5. S3' = S1
      BY <1>9, <2>4, <3>3 DEF S3, S2, After
    <3> QED
      BY <1>2, <2>4, <3>2, <3>4, <3>5
  <2>5. CASE Plain
    <3>1. core.f.tag = NULL
      BY <1>1, <1>2, <2>1, <2>5 DEF CoreType
    <3>2. /\ core.D.tag = NULL /\ core.E.tag = NULL /\ core.M.tag = NULL
          /\ ~ core.signal /\ core.f_predPC = isa.pc
      BY <1>1, <3>1 DEF Chain
    <3>3. S3 = isa
      BY <3>2 DEF S3, S2, S1, After
    <3>4. S3' = S3
      BY <1>2, <1>3, <1>4, <2>1, <2>5 DEF After
    <3> QED
      BY <1>2, <2>5, <3>2, <3>3, <3>4
  <2> QED
    BY <1>1, <2>2, <2>3, <2>4, <2>5
<1> QED
  BY <1>14, <1>15, <1>16

\* A request goes from stage to stage, one with each clock.
LEMMA RequestsKept ==
    ASSUME Clocked, GoesOn
    PROVE  Requests'
<1>1. /\ Pre /\ Requests /\ prog' = prog /\ core \in CoreType /\ age \in Nat
      /\ age' = IF age = 0 THEN 0 ELSE age + 1
      /\ core'.signal = FALSE
      /\ ~ Bubbles.M_bubble
  BY StageWExact DEF Clocked, Pre, RunInv, ClockRest, TypeInv, ClockW
<1>2. /\ Waits \/ Jumps \/ Returns \/ Plain
      /\ Waits => Empty(core'.E) /\ core'.D = core.D /\ ~ Asked(prog)
      /\ Jumps => Empty(core'.E) /\ Empty(core'.D) /\ ~ Asked(prog)
      /\ Returns => Moves /\ Empty(core'.D) /\ ~ Asked(prog)
      /\ Plain => Moves /\ core'.D = [core.f EXCEPT !.stat = FStatus]
  BY Cases
<1>3. core'.m.stat = IF DmemError(core) THEN "ADR" ELSE core.E.stat
  BY <1>1 DEF Clocked, ClockM
<1>4. core'.D.stat \in {"BUB", core.D.stat, FStatus} /\ core'.E.stat \in {"BUB", core.D.stat}
  BY <1>1, <1>2 DEF Empty, Moves, CoreType
<1>5. core'.f.stat = "SPD" => FStatus = "SPD"
  <2>1. core'.f.stat = FetchedStat(core'.imem_error, core'.f.ins, FStatus)
    BY FetchedIs
  <2> QED
    BY <2>1 DEF FetchedStat, StatOf
<1>6. ASSUME ~ core.signal,
             "SPD" \notin {core.f.stat, core.D.stat, core.E.stat, core.m.stat}
      PROVE  "SPD" \notin {core'.f.stat, core'.D.stat, core'.E.stat, core'.m.stat}
  BY <1>3, <1>4, <1>5, <1>6 DEF FStatus
<1>7. CASE age = 0
  <2>1. ~ core.signal
    BY <1>1, <1>7 DEF Requests
  <2>2. "SPD" \notin {core.f.stat, core.D.stat, core.E.stat, core.m.stat}
    BY <1>1, <1>7 DEF Requests
  <2>3. "SPD" \notin {core'.f.stat, core'.D.stat, core'.E.stat, core'.m.stat}
    BY <1>6, <2>1, <2>2
  <2> QED
    BY <1>1, <1>7, <2>3 DEF Requests
<1>8. CASE age # 0
  <2>1. Asked(prog) /\ Plain /\ age' = age + 1
    BY <1>1, <1>2, <1>8 DEF Requests
  <2>2. core'.E.stat = core.D.stat /\ core'.D.stat = FStatus
    BY <1>1, <1>2, <2>1 DEF Moves, CoreType
  <2>3. \/ age' = 2 /\ core'.D.stat = "SPD"
        \/ age' = 3 /\ core'.E.stat = "SPD"
        \/ age' = 4 /\ core'.m.stat \in Stops
    BY <1>1, <1>3, <1>8, <2>1, <2>2 DEF Requests, FStatus, Stops, GoesOn
  <2> QED
    BY <1>1, <2>1, <2>3 DEF Requests
<1> QED
  BY <1>7, <1>8

\* The queue of saved pcs keeps its front.
LEMMA QueueIs ==
    ASSUME Clocked
    PROVE  LET saved == core.saved_pc IN
           /\ core'.saved_pc = IF core'.f.stat \in Saves THEN Append(saved, core'.f_predPC)
                               ELSE saved
           /\ saved # <<>> => core'.saved_pc # <<>> /\ Head(core'.saved_pc) = Head(saved)
           /\ saved = <<>> /\ core'.f.stat \in Saves =>
                core'.saved_pc # <<>> /\ Head(core'.saved_pc) = core'.f_predPC
<1>1. /\ Pre /\ core.saved_pc \in Seq(Int) /\ core'.f_predPC \in Int
  BY DEF Clocked, Pre, TypeInv, CoreType
<1>2. /\ Bubbles.E_bubble => core.E.stat \notin Saves
      /\ Bubbles.D_bubble /\ ~ Bubbles.D_stall => FStatus \notin Saves
  BY <1>1, Quiet
<1>3. core'.saved_pc = IF core'.f.stat \in Saves THEN Append(core.saved_pc, core'.f_predPC)
                       ELSE core.saved_pc
  BY <1>2 DEF Clocked, ClockSaved, Popped, Saves
<1> QED
  BY <1>1, <1>3

\* After a system call or a suspension comes the instruction behind it.
LEMMA SavedKept ==
    ASSUME Clocked, GoesOn
    PROVE  Saved'
<1>1. /\ Pre /\ Slots /\ Requests /\ Saved /\ prog' = prog /\ core \in CoreType
      /\ S1 \in IsaType /\ Regular(prog) /\ S1.stat = "AOK" /\ ~ Bubbles.M_bubble
      /\ core.m.stat \notin Stops
  BY StageWExact, Live DEF Clocked, Pre, RunInv, ClockRest, TypeInv, GoesOn
<1>2. /\ Waits \/ Jumps \/ Returns \/ Plain
      /\ Waits => /\ Empty(core'.E) /\ core'.D = core.D /\ core'.f.tag = core.f.tag
                  /\ ~ Asked(prog) /\ ~ core.signal /\ core.f.tag # NULL
      /\ Jumps => Empty(core'.E) /\ Empty(core'.D) /\ ~ core.signal
      /\ Returns => Moves /\ Empty(core'.D) /\ ~ core.signal
      /\ Plain => /\ Moves /\ core'.D = [core.f EXCEPT !.stat = FStatus]
                  /\ core'.f.tag = IF core.signal THEN core.f.tag ELSE core.f_predPC
  BY Cases
<1>3. core'.m.stat = IF DmemError(core) THEN "ADR" ELSE core.E.stat
  BY <1>1 DEF Clocked, ClockM
<1>4. LET saved == core.saved_pc IN
      /\ core'.saved_pc = IF core'.f.stat \in Saves THEN Append(saved, core'.f_predPC)
                          ELSE saved
      /\ saved # <<>> => core'.saved_pc # <<>> /\ Head(core'.saved_pc) = Head(saved)
      /\ saved = <<>> /\ core'.f.stat \in Saves =>
           core'.saved_pc # <<>> /\ Head(core'.saved_pc) = core'.f_predPC
  BY QueueIs
<1>5. /\ core'.f_predPC = NextPc(core'.f.ins, core'.f.tag)
      /\ core'.f.ins = IF core'.imem_error THEN Nop ELSE InstrAt(prog, core'.f.tag)
      /\ core'.imem_error = (core.imem_error \/ ~ InText(core'.f.tag))
      /\ core'.f.stat = FetchedStat(core'.imem_error, core'.f.ins, FStatus)
  BY FetchedIs
<1>6. Saves \subseteq Stops /\ "ADR" \in Stops /\ "BUB" \notin Stops /\ "AOK" \notin Stops
  BY DEF Saves, Stops
\* The same instruction is fetched again.
<1>7. core.f.tag # NULL /\ core'.f.tag = core.f.tag =>
        core'.f.ins = core.f.ins /\ core'.imem_error = core.imem_error
  BY <1>1, <1>5 DEF Slots, CoreType
<1>8. ASSUME core'.m.stat \in Saves
      PROVE  /\ core'.saved_pc # <<>>
             /\ S1'.stat \in Saves => Head(core'.saved_pc) = S1'.pc
  <2> DEFINE i == InsAt(prog, S1.pc)
  <2>1. core.E.stat \in Saves /\ ~ DmemError(core)
    BY <1>3, <1>8 DEF Saves
  <2>2. core.saved_pc # <<>> /\ Head(core.saved_pc) = NextPc(core.E.ins, core.E.tag)
    BY <1>1, <2>1 DEF Saved
  <2>3. core.E.tag # NULL
    BY <1>1, <2>1, SlotsAre DEF Saves
  <2>4. S1' = S2
    BY StageMExact
  <2>5. SUFFICES ASSUME S2.stat \in Saves PROVE NextPc(core.E.ins, core.E.tag) = S2.pc
    BY <1>4, <2>2, <2>4
  <2>6. core.E.tag = S1.pc /\ core.E.ins = i
        /\ (i.icode = "jxx" => core.e.cnd = Cnd(i, S1))
    BY <1>1, <2>3 DEF Pre, RunInv, InE
  <2>7. i.icode # "ret" /\ (i.icode = "jxx" => core.e.cnd)
    <3>1. CASE core.E.stat = "SYS"
      BY <1>1, <2>6, <3>1, SlotsAre
    <3>2. CASE core.E.stat = "SPD"
      BY <1>1, <2>6, <3>2, SuspendAsked, AskedQuiet DEF RetInPipe, Mispredicted
    <3> QED
      BY <2>1, <3>1, <3>2 DEF Saves
  <2>8. After(S1, core.E.tag, core.E.stat).stat # "ADR"
    BY <2>5 DEF S2, Saves
  <2>9. After(S1, core.E.tag, core.E.stat).pc =
           IF i.icode = "ret" THEN S1.mem[At(i, S1)]
           ELSE IF i.icode = "jxx" /\ ~ Cnd(i, S1) THEN S1.pc + 1
           ELSE NextPc(i, S1.pc)
    BY <1>1, <2>3, <2>8, AfterPc
  <2> QED
    BY <2>6, <2>7, <2>9 DEF S2
<1>9. ASSUME core'.m.stat \notin Stops
      PROVE  IF core'.E.stat \in Saves
             THEN core'.saved_pc # <<>>
                  /\ Head(core'.saved_pc) = NextPc(core'.E.ins, core'.E.tag)
             ELSE IF core'.D.stat \in Saves
             THEN core'.saved_pc # <<>>
                  /\ Head(core'.saved_pc) = NextPc(core'.D.ins, core'.D.tag)
             ELSE IF core'.f.stat \in Saves
             THEN core'.saved_pc # <<>>
                  /\ Head(core'.saved_pc) = NextPc(core'.f.ins, core'.f.tag)
             ELSE core'.saved_pc = <<>>
  <2>1. core.E.stat \notin Saves
    BY <1>3, <1>6, <1>9
  <2>2. IF core.D.stat \in Saves
        THEN core.saved_pc # <<>> /\ Head(core.saved_pc) = NextPc(core.D.ins, core.D.tag)
        ELSE IF core.f.stat \in Saves
        THEN core.saved_pc # <<>> /\ Head(core.saved_pc) = NextPc(core.f.ins, core.f.tag)
        ELSE core.saved_pc = <<>>
    BY <1>1, <2>1 DEF Saved
  \* Nothing is to be saved but what is fetched now.
  <2>3. ASSUME core.saved_pc = <<>>, core'.E.stat \notin Saves, core'.D.stat \notin Saves
        PROVE  IF core'.f.stat \in Saves
               THEN core'.saved_pc # <<>>
                    /\ Head(core'.saved_pc) = NextPc(core'.f.ins, core'.f.tag)
               ELSE core'.saved_pc = <<>>
    BY <1>4, <1>5, <2>3
  <2>4. CASE Waits
    <3>1. core'.E.stat \notin Saves /\ core'.D = core.D
      BY <1>2, <1>6, <2>4 DEF Empty
    <3>2. CASE core.D.stat \in Saves
      BY <1>4, <2>2, <3>1, <3>2
    <3>3. CASE core.D.stat \notin Saves /\ core.f.stat \in Saves
      <4>1. core.f.stat = "SYS" /\ FStatus = core.f.stat
        BY <1>1, <1>2, <2>4, <3>3, SuspendAsked DEF Saves, FStatus
      <4>2. ~ core.imem_error /\ StatOf(core.f.ins) = "SYS"
        BY <1>1, <1>2, <2>4, <4>1 DEF Slots
      <4>3. core'.f.stat = "SYS"
        BY <1>2, <1>5, <1>7, <2>4, <4>2 DEF FetchedStat
      <4> QED
        BY <1>2, <1>4, <1>7, <2>2, <2>4, <3>1, <3>3, <4>3 DEF Saves
    <3>4. CASE core.D.stat \notin Saves /\ core.f.stat \notin Saves
      BY <2>2, <2>3, <3>1, <3>4
    <3> QED
      BY <3>2, <3>3, <3>4
  <2>5. CASE Jumps
    <3>1. core'.E.stat \notin Saves /\ core'.D.stat \notin Saves
      BY <1>2, <1>6, <2>5 DEF Empty
    <3>2. core.D.stat \notin Saves
      BY <1>1, <2>5, Quiet DEF Jumps
    <3>3. core.f.stat \notin Saves
      <4>1. Bubbles.D_bubble /\ ~ Bubbles.D_stall
        BY <1>1, <2>5, Quiet DEF Bubbles, PipeLogic, Jumps
      <4> QED
        BY <1>1, <1>2, <2>5, <4>1, Quiet DEF FStatus
    <3> QED
      BY <2>2, <2>3, <3>1, <3>2, <3>3
  <2>6. CASE Returns
    <3>1. core'.E.stat = core.D.stat /\ core'.E.tag = core.D.tag /\ core'.E.ins = core.D.ins
          /\ core'.D.stat \notin Saves
      BY <1>2, <1>6, <2>6 DEF Empty, Moves
    <3>2. core.f.stat \notin Saves
      <4>1. Bubbles.D_bubble /\ ~ Bubbles.D_stall
        BY <2>6 DEF Bubbles, PipeLogic, Returns, Waits
      <4> QED
        BY <1>1, <1>2, <2>6, <4>1, Quiet DEF FStatus
    <3> QED
      BY <1>4, <2>2, <2>3, <3>1, <3>2
  <2>7. CASE Plain
    <3>1. /\ core'.E.stat = core.D.stat /\ core'.E.tag = core.D.tag
          /\ core'.E.ins = core.D.ins
          /\ core'.D.stat = FStatus /\ core'.D.ins = core.f.ins /\ core'.D.tag = core.f.tag
      BY <1>1, <1>2, <2>7 DEF Moves, CoreType
    <3>2. CASE core.D.stat \in Saves
      BY <1>4, <2>2, <3>1, <3>2
    <3>3. CASE core.D.stat \notin Saves /\ core.f.stat \in Saves
      <4>1. FStatus \in Saves
        BY <3>3 DEF FStatus, Saves
      <4> QED
        BY <1>4, <2>2, <3>1, <3>3, <4>1
    <3>4. CASE core.D.stat \notin Saves /\ core.f.stat \notin Saves /\ ~ core.signal
      <4>1. FStatus \notin Saves
        BY <3>4 DEF FStatus
      <4> QED
        BY <2>2, <2>3, <3>1, <3>4, <4>1
    <3>5. CASE core.D.stat \notin Saves /\ core.f.stat \notin Saves /\ core.signal
      <4>1. core.f.tag # NULL /\ core.f.stat = "AOK"
        BY <1>1, <2>1, <3>5 DEF Requests, Saves
      <4>2. core'.f.tag = core.f.tag /\ FStatus = "SPD"
        BY <1>2, <2>7, <3>5 DEF FStatus
      <4>3. core'.f.ins = core.f.ins /\ ~ core'.imem_error /\ StatOf(core.f.ins) = "AOK"
        BY <1>1, <1>7, <4>1, <4>2 DEF Slots
      <4>4. core'.f.stat = "SPD"
        BY <1>5, <4>2, <4>3 DEF FetchedStat
      <4> QED
        BY <1>4, <1>5, <2>2, <3>1, <3>5, <4>2, <4>3, <4>4 DEF Saves
    <3> QED
      BY <3>2, <3>3, <3>4, <3>5
  <2> QED
    BY <1>2, <2>4, <2>5, <2>6, <2>7
<1> QED
  BY <1>8, <1>9 DEF Saved

\* A clock that does not stop the core keeps the invariant.
LEMMA RunKept ==
    ASSUME Clocked, GoesOn
    PROVE  /\ RunInv' /\ Running'
           /\ RegistersExact' /\ StopPrecise' /\ StatusReported' /\ ResumesNext'
<1>1. /\ isa'.stat = "AOK" /\ core'.stat = "AOK" /\ core'.REG = isa'.REG
  BY StageWExact
<1>2. mem' = S1'.mem /\ core'.cc = S2'.cc /\ InM' /\ InE' /\ InD' /\ InF'
  BY StageMExact, StageEExact, InDKept, InFKept
<1>3. Slots' /\ Chain' /\ Saved' /\ Requests'
  BY SlotsKept, ChainKept, SavedKept, RequestsKept
<1>4. RunInv'
  BY <1>1, <1>2, <1>3 DEF RunInv
<1> QED
  BY <1>1, <1>4 DEF Running, RegistersExact, StopPrecise, StatusReported, ResumesNext

\* The instruction that stops the core leaves all as the sequential machine does.
LEMMA StopsExact ==
    ASSUME Clocked, ~ GoesOn
    PROVE  /\ ~ Running'
           /\ RegistersExact' /\ StopPrecise' /\ StatusReported' /\ ResumesNext'
<1>1. /\ Pre /\ Slots /\ InM /\ Saved /\ isa.stat = "AOK" /\ isa \in IsaType
      /\ S1 \in IsaType /\ Regular(prog)
      /\ core.REG = isa.REG /\ mem = S1.mem /\ core.cc = S2.cc
      /\ core.m.stat \in Stops
  BY Live DEF Clocked, Pre, RunInv, TypeInv, GoesOn
<1>2. core.M.tag # NULL
  BY <1>1 DEF Slots, Stops
<1>3. /\ core'.stat = core.m.stat /\ core'.W.stat = core.m.stat /\ isa' = Step(prog, isa)
      /\ core'.REG = Write(Write(core.REG, core.M.dstE, core.M.valE),
                           core.M.dstM, core.m.valM)
  BY <1>1, <1>2 DEF Clocked, ClockW, ClockRest, Stops
<1>4. Step(prog, isa) \in IsaType
  BY <1>1, StepExact DEF StepOf
<1>5. /\ core.m.stat = S1.stat
      /\ S1.stat # "ADR" => S1.REG = core'.REG
  BY <1>1, <1>2, <1>3 DEF InM
<1>6. /\ S1.REG = isa'.REG /\ S1.mem = isa'.mem /\ S1.cc = isa'.cc /\ S1.pc = isa'.pc
      /\ S1.stat = isa'.stat \/ (S1.stat = "SPD" /\ isa'.stat = "AOK")
  BY <1>1, <1>2, <1>3, <1>4 DEF S1, After, IsaType
<1>7. Bubbles.M_bubble
  BY <1>1 DEF Bubbles, PipeLogic, Stopping
<1>8. mem' = isa'.mem
  BY <1>1, <1>6, <1>7 DEF Clocked, ClockM
<1>9. core'.cc = isa'.cc
  <2>1. S2 = S1
    BY <1>1, <1>5 DEF S2, After, Stops
  <2>2. core'.cc = core.cc
    BY <1>1, <1>3 DEF Clocked, ClockE
  <2> QED
    BY <1>1, <1>6, <2>1, <2>2
<1>10. core'.stat # "AOK"
  BY <1>1, <1>3 DEF Stops
<1>11. RegistersExact'
  BY <1>3, <1>5, <1>6 DEF RegistersExact
<1>12. StatusReported'
  BY <1>3, <1>5, <1>6 DEF StatusReported
<1>13. ResumesNext'
  <2>1. SUFFICES ASSUME core'.stat \in {"SYS", "SPD"}
                 PROVE  core'.saved_pc # <<>> /\ Head(core'.saved_pc) = isa'.pc
    BY DEF ResumesNext
  <2>2. core.saved_pc # <<>> /\ Head(core.saved_pc) = S1.pc
    BY <1>1, <1>3, <1>5, <2>1 DEF Saved, Saves
  <2>3. core'.saved_pc # <<>> /\ Head(core'.saved_pc) = Head(core.saved_pc)
    BY <2>2, QueueIs
  <2> QED
    BY <1>6, <2>2, <2>3
<1> QED
  BY <1>8, <1>9, <1>10, <1>11, <1>12, <1>13 DEF Running, StopPrecise

\* A clock keeps the types.
LEMMA TypesKept ==
    ASSUME Clocked
    PROVE  TypeInv'
<1>1. /\ Pre /\ TypeInv /\ Regular(prog) /\ prog' = prog /\ core \in CoreType
      /\ core' \in CoreType /\ isa \in IsaType /\ mem \in [Addrs -> Words]
  BY DEF Clocked, Pre, ClockRest, TypeInv
<1>2. isa' \in IsaType
  BY <1>1, StepExact DEF Clocked, ClockRest, Pre, StepOf
<1>3. mem' \in [Addrs -> Words]
  <2>1. core.E.valA \in Words
    BY <1>1 DEF CoreType
  <2> QED
    BY <1>1, <2>1 DEF Clocked, ClockM
<1>4. /\ core'.f.ins.icode \in {"call", "jxx"} => core'.f.valP \in Words
      /\ core'.f.ins.icode = "opl" => core'.f.ins.ifun \in 0 .. 3
  <2>1. /\ core'.f.valP = core'.f.tag + 1
        /\ core'.f.ins = IF core'.imem_error THEN Nop ELSE InstrAt(prog, core'.f.tag)
    BY DEF Clocked, ClockF
  <2>2. Formed(core'.f.ins, core'.f.tag)
    BY <1>1, <2>1, IdleFormed, FetchedFormed DEF Regular
  <2> QED
    BY <2>1, <2>2 DEF Formed
<1>5. /\ core'.D.ins.icode \in {"call", "jxx"} => core'.D.valP \in Words
      /\ core'.D.ins.icode = "opl" => core'.D.ins.ifun \in 0 .. 3
  <2>1. CASE core'.D = core.D
    BY <1>1, <2>1 DEF TypeInv
  <2>2. CASE core'.D = Squashed(core.f)
    BY <2>2, IdleFormed DEF Squashed
  <2>3. CASE core'.D = [core.f EXCEPT !.stat = FStatus]
    <3>1. core'.D.ins = core.f.ins /\ core'.D.valP = core.f.valP
      BY <1>1, <2>3 DEF CoreType
    <3> QED
      BY <1>1, <3>1 DEF TypeInv
  <2> QED
    BY <2>1, <2>2, <2>3 DEF Clocked, ClockD
<1>6. age' \in Nat
  BY <1>1 DEF Clocked, ClockRest, TypeInv
<1> QED
  BY <1>1, <1>2, <1>3, <1>4, <1>5, <1>6 DEF TypeInv

-----------------------------------------------------------------------------
(* The other steps.                                                        *)

\* A core that has just been given a process.
Fresh ==
    /\ Clean /\ prog \in Programs /\ isa \in IsaType
    /\ isa.stat = "AOK" /\ isa.cc = InitCc
    /\ core = InitCore(isa.REG, isa.pc)
    /\ mem = isa.mem /\ age = 0

\* The invariant holds of a fresh core.
LEMMA FreshKept == Fresh => PipeInv
<1> SUFFICES ASSUME Fresh PROVE PipeInv
  OBVIOUS
<1> DEFINE i == isa
<1>1. core = InitCore(isa.REG, isa.pc) /\ isa \in IsaType /\ isa.stat = "AOK"
      /\ isa.cc = InitCc /\ prog \in Programs /\ mem = isa.mem /\ age = 0
  BY DEF Fresh
<1>2. Halt \in Instr /\ Halt.icode = "halt" /\ Halt.ifun = 0 /\ 0 \in Words /\ NULL \notin Int
  <2>1. Formed(Halt, 0) /\ Halt.icode = "halt" /\ Halt.ifun = 0
    BY IdleFormed
  <2>2. 0 \in Words /\ NULL \notin Int
    BY WordsAssumption DEF Words
  <2> QED
    BY <2>1, <2>2 DEF Formed
<1> HIDE DEF Halt
<1>3. /\ core.f = [stat |-> "AOK", ins |-> Halt, valP |-> 0, tag |-> NULL]
      /\ core.D = [stat |-> "AOK", ins |-> Halt, valP |-> 0, tag |-> NULL]
      /\ core.d = [srcA |-> RNONE, srcB |-> RNONE, dstE |-> RNONE, dstM |-> RNONE,
                   valA |-> 0, valB |-> 0]
      /\ core.E = [stat |-> "AOK", ins |-> Halt, dstM |-> RNONE, valA |-> 0, tag |-> NULL]
      /\ core.e = [valE |-> 0, dstE |-> RNONE, cnd |-> FALSE]
      /\ core.M = [icode |-> "halt", Cnd |-> FALSE, valE |-> 0, valA |-> 0,
                   dstE |-> RNONE, dstM |-> RNONE, tag |-> NULL]
      /\ core.m = [stat |-> "AOK", valM |-> 0]
      /\ core.W = [stat |-> "AOK", icode |-> "halt", valE |-> 0, valM |-> 0,
                   dstE |-> RNONE, dstM |-> RNONE, tag |-> NULL]
      /\ core.f_predPC = isa.pc /\ core.imem_error = FALSE /\ core.signal = FALSE
      /\ core.saved_pc = <<>> /\ core.stat = "AOK" /\ core.cc = isa.cc /\ core.REG = isa.REG
  BY <1>1 DEF InitCore
<1>4. TypeInv
  <2>1. InitCc \in Flags
    BY DEF InitCc, Flags
  <2>2. core \in CoreType
    BY <1>1, <1>2, <2>1 DEF InitCore, CoreType, IsaType, Stats, Stops, Tags, AnyReg, Icodes
  <2>3. mem \in [Addrs -> Words]
    BY <1>1 DEF IsaType
  <2> QED
    BY <1>1, <1>2, <1>3, <2>2, <2>3 DEF TypeInv
<1>5. S1 = isa /\ S2 = isa
  BY <1>3 DEF S1, S2, After
<1>6. ~ Mispredicted(core) /\ ~ RetInPipe(core)
  BY <1>2, <1>3 DEF Mispredicted, RetInPipe
<1>7. S3 = isa
  BY <1>3, <1>5, <1>6 DEF S3, After
<1>8. Slots
  BY <1>2, <1>3 DEF Slots, Slot, Idle, SrcA, SrcB, DstE, DstM, Regs, RNONE
<1>9. Chain
  BY <1>2, <1>3 DEF Chain
<1>10. InM /\ InE /\ InD /\ InF
  BY <1>3 DEF InM, InE, InD, InF
<1>11. Saved /\ Requests
  BY <1>1, <1>3 DEF Saved, Saves, Requests, Stops
<1>12. RunInv
  BY <1>1, <1>3, <1>5, <1>8, <1>9, <1>10, <1>11 DEF RunInv
<1> QED
  BY <1>1, <1>3, <1>4, <1>12 DEF PipeInv, RegistersExact, StopPrecise, StatusReported,
                                 ResumesNext

\* The steps of the specification, one by one.
LEMMA ClockKept ==
    ASSUME Clean, PipeInv, Clock
    PROVE  PipeInv' /\ core'.W.tag \in {NULL, isa.pc}
<1>1. TypeInv /\ Running /\ RunInv /\ prog \in Programs /\ Regular(prog)
  BY DEF PipeInv, TypeInv, Clock, Clean
<1>2. isa.stat = "AOK"
  BY <1>1 DEF PipeInv, StatusReported, Running
<1>3. Pre
  BY <1>1, <1>2 DEF Pre, Clean
<1>4. Clocked
  BY <1>1, <1>3, ClockIs DEF Clocked, Regular
<1>5. TypeInv'
  BY <1>4, TypesKept
<1>6. PipeInv'
  BY <1>4, <1>5, RunKept, StopsExact DEF PipeInv
<1>7. core'.W.tag \in {NULL, isa.pc}
  BY <1>1, <1>4 DEF RunInv, InM, Clocked, ClockW
<1> QED
  BY <1>6, <1>7

\* A request to suspend changes nothing but that it is pending.
LEMMA SignalKept ==
    ASSUME Clean, PipeInv, Signal
    PROVE  PipeInv'
<1>1. /\ TypeInv /\ Running /\ RunInv /\ core \in CoreType /\ age \in Nat
      /\ Asked(prog) /\ ~ core.signal /\ core.f.tag # NULL
      /\ age > 0 \/ core.f.stat = "AOK"
      /\ core' = [core EXCEPT !.signal = TRUE]
      /\ age' = IF age = 0 THEN 1 ELSE age
      /\ prog' = prog /\ mem' = mem /\ isa' = isa
  BY DEF PipeInv, TypeInv, Signal, Clean
<1>2. /\ core' \in CoreType
      /\ core'.F_predPC = core.F_predPC /\ core'.f_predPC = core.f_predPC
      /\ core'.imem_error = core.imem_error /\ core'.f = core.f
      /\ core'.D = core.D /\ core'.d = core.d /\ core'.E = core.E /\ core'.e = core.e
      /\ core'.M = core.M /\ core'.m = core.m /\ core'.W = core.W
      /\ core'.stat = core.stat /\ core'.saved_pc = core.saved_pc /\ core'.cc = core.cc
      /\ core'.REG = core.REG /\ core'.signal = TRUE
  <2>1. core' \in CoreType
    BY <1>1, FieldTypes
  <2> QED
    BY ONLY <1>1, <2>1 DEF CoreType
<1>3. TypeInv'
  BY <1>1, <1>2 DEF TypeInv
<1>4. S1' = S1 /\ S2' = S2 /\ S3' = S3
      /\ (Mispredicted(core))' = Mispredicted(core) /\ (RetInPipe(core))' = RetInPipe(core)
      /\ (LoadUse(core, Loads))' = LoadUse(core, Loads)
  BY <1>1, <1>2 DEF S1, S2, S3, After, Mispredicted, RetInPipe, LoadUse
<1>5. Slots'
  BY <1>1, <1>2 DEF RunInv, Slots, Slot
<1>6. Chain'
  BY <1>1, <1>2 DEF RunInv, Chain
<1>7. InM' /\ InE'
  BY <1>1, <1>2, <1>4 DEF RunInv, InM, InE
<1>8. InD'
  BY <1>1, <1>2, <1>4 DEF RunInv, InD
<1>9. InF'
  BY <1>1, <1>2, <1>4 DEF RunInv, InF
<1>10. Saved'
  BY <1>1, <1>2, <1>4 DEF RunInv, Saved
<1>11. Requests'
  BY <1>1, <1>2 DEF RunInv, Requests
<1>12. RunInv'
  BY <1>1, <1>2, <1>4, <1>5, <1>6, <1>7, <1>8, <1>9, <1>10, <1>11 DEF RunInv
<1>13. RegistersExact' /\ StopPrecise' /\ StatusReported' /\ ResumesNext'
  BY <1>1, <1>2 DEF PipeInv, RegistersExact, StopPrecise, StatusReported, ResumesNext
<1> QED
  BY <1>3, <1>12, <1>13 DEF PipeInv

\* A process that is placed on a core again finds a fresh one.
LEMMA ResumeKept ==
    ASSUME Clean, PipeInv, Resume
    PROVE  Fresh' /\ core'.W.tag = NULL
<1>1. PICK n \in (IF core.stat = "SYS" THEN Results ELSE {core.REG["eax"]}) :
        /\ core' = InitCore([core.REG EXCEPT !["eax"] = n], Head(core.saved_pc))
        /\ isa' = [isa EXCEPT !.REG["eax"] = n, !.cc = InitCc, !.stat = "AOK"]
  BY DEF Resume
<1>2. /\ core.stat \in {"SYS", "SPD"} /\ core.saved_pc # <<>>
      /\ age' = 0 /\ prog' = prog /\ mem' = mem
      /\ TypeInv
  BY DEF Resume, PipeInv
<1>3. core.REG = isa.REG /\ mem = isa.mem /\ Head(core.saved_pc) = isa.pc
  BY <1>2 DEF PipeInv, RegistersExact, StopPrecise, ResumesNext
<1>4. isa \in IsaType /\ core \in CoreType /\ prog \in Programs
  BY <1>2 DEF TypeInv
<1>5. n \in Words
  <2>1. core.REG["eax"] \in Words
    BY <1>4 DEF CoreType, Regs
  <2> QED
    BY <1>1, <2>1, PipelineAssumption
<1>6. InitCc \in Flags
  BY DEF InitCc, Flags
<1>7. /\ isa' \in IsaType /\ isa'.stat = "AOK" /\ isa'.cc = InitCc
      /\ isa'.REG = [isa.REG EXCEPT !["eax"] = n] /\ isa'.pc = isa.pc
      /\ isa'.mem = isa.mem
  BY <1>1, <1>4, <1>5, <1>6 DEF IsaType
<1>8. core' = InitCore(isa'.REG, isa'.pc)
  BY <1>1, <1>3, <1>7
<1>9. core'.W.tag = NULL
  BY <1>8 DEF InitCore
<1> QED
  BY <1>2, <1>3, <1>4, <1>7, <1>8, <1>9 DEF Fresh

\* So does the first one.
LEMMA InitFresh == ASSUME Clean, Init PROVE Fresh
<1>1. MemSize \in Words /\ 0 \in Words
  BY PipelineAssumption, WordsAssumption DEF Words
<1>2. InitReg \in [Regs -> Words] /\ InitCc \in Flags
  BY <1>1 DEF InitReg, StackHigh, InitCc, Flags
<1>3. isa \in IsaType
  BY <1>1, <1>2 DEF Init, IsaType
<1> QED
  BY <1>3 DEF Init, Fresh

-----------------------------------------------------------------------------
(* Theorems.                                                               *)

\* For every regular program the pipeline and the sequential machine go together.
THEOREM PipeInvHolds == ASSUME Clean PROVE Spec => []PipeInv
<1>1. Init => PipeInv
  BY InitFresh, FreshKept
<1>2. PipeInv /\ [Next]_vars => PipeInv'
  <2>1. ASSUME PipeInv, Clock PROVE PipeInv'
    BY <2>1, ClockKept
  <2>2. ASSUME PipeInv, Signal PROVE PipeInv'
    BY <2>2, SignalKept
  <2>3. ASSUME PipeInv, Resume PROVE PipeInv'
    <3>1. Fresh'
      BY <2>3, ResumeKept
    <3> QED
      BY <3>1, FreshKept, PTL
  <2>4. ASSUME PipeInv, UNCHANGED vars PROVE PipeInv'
    <3>1. prog' = prog /\ core' = core /\ mem' = mem /\ isa' = isa /\ age' = age
      BY <2>4 DEF vars
    <3>2. S1' = S1 /\ S2' = S2 /\ S3' = S3
      BY <3>1 DEF S1, S2, S3, After
    <3>3. TypeInv' <=> TypeInv
      BY <3>1 DEF TypeInv
    <3>4. /\ Slots' <=> Slots
          /\ Chain' <=> Chain
          /\ Requests' <=> Requests
      BY <3>1 DEF Slots, Slot, Chain, Requests
    <3>5. InM' /\ InE' /\ InD' /\ InF' /\ Saved' <=> InM /\ InE /\ InD /\ InF /\ Saved
      BY <3>1, <3>2 DEF InM, InE, InD, InF, Saved
    <3> QED
      BY <2>4, <3>1, <3>2, <3>3, <3>4, <3>5
      DEF PipeInv, RunInv, Running, RegistersExact, StopPrecise, StatusReported, ResumesNext
  <2> QED
    BY <2>1, <2>2, <2>3, <2>4 DEF Next
<1> QED
  BY <1>1, <1>2, PTL DEF Spec

\* The variables stay in their types: every value forwarded, computed, loaded or
\* popped is a word, whatever the widths and the program.
THEOREM PipelineTypes == ASSUME Clean PROVE Spec => []TypeOK
<1>1. PipeInv => TypeOK
  <2> SUFFICES ASSUME PipeInv PROVE TypeOK
    OBVIOUS
  <2>1. TypeInv /\ prog \in Programs /\ core \in CoreType
    BY DEF PipeInv, TypeInv
  <2>2. prog \in Seq(Instr)
    BY <2>1 DEF Clean, Regular, WellFormed
  <2> QED
    BY <2>1, <2>2 DEF TypeInv, TypeOK, CoreType, IsaType
<1> QED
  BY <1>1, PipeInvHolds, PTL

\* Forwarding is exact: at the end of every clock that retires an instruction the
\* registers are those the sequential machine has after it.
THEOREM RegistersExactHolds == ASSUME Clean PROVE Spec => []RegistersExact
<1>1. PipeInv => RegistersExact
  BY DEF PipeInv
<1> QED
  BY <1>1, PipeInvHolds, PTL

\* The core stops between two instructions, also when the next ones have reached
\* the stages that write memory and flags.
THEOREM StopPreciseHolds == ASSUME Clean PROVE Spec => []StopPrecise
<1>1. PipeInv => StopPrecise
  BY DEF PipeInv
<1> QED
  BY <1>1, PipeInvHolds, PTL

\* The core reports what the instruction at stage W asks for, and never what one
\* fetched in vain behind a jump or a return would have.
THEOREM StatusReportedHolds == ASSUME Clean PROVE Spec => []StatusReported
<1>1. PipeInv => StatusReported
  BY DEF PipeInv
<1> QED
  BY <1>1, PipeInvHolds, PTL

\* The front of the queue of saved pcs is where the process has to go on, however
\* many system calls and requests were under way when the core stopped.
THEOREM ResumesNextHolds == ASSUME Clean PROVE Spec => []ResumesNext
<1>1. PipeInv => ResumesNext
  BY DEF PipeInv
<1> QED
  BY <1>1, PipeInvHolds, PTL

\* Instructions get to stage W in the order of the sequential machine, none lost and
\* none twice.
THEOREM InOrderHolds == ASSUME Clean PROVE Spec => InOrder
<1>1. ASSUME PipeInv, [Next]_vars
      PROVE  [~ core'.signal => core'.W.tag \in {NULL, isa.pc}]_vars
  <2>1. CASE Clock
    BY <1>1, <2>1, ClockKept
  <2>2. CASE Signal
    <3>1. core \in CoreType
      BY <1>1 DEF PipeInv, TypeInv
    <3>2. core'.signal = TRUE
      BY <2>2, <3>1 DEF Signal, CoreType
    <3> QED
      BY <3>2
  <2>3. CASE Resume
    BY <1>1, <2>3, ResumeKept
  <2>4. CASE UNCHANGED vars
    BY <2>4
  <2> QED
    BY <1>1, <2>1, <2>2, <2>3, <2>4 DEF Next
<1> QED
  BY <1>1, PipeInvHolds, PTL DEF Spec, InOrder

\* A request to suspend takes effect within four clocks: it goes down the pipe with
\* the instruction fetched last, and nothing squashes it.
THEOREM SuspendInTimeHolds ==
    ASSUME Clean, MaxAge >= 4
    PROVE  Spec => []SuspendInTime
<1>1. PipeInv => SuspendInTime
  <2> SUFFICES ASSUME PipeInv, Running PROVE age <= MaxAge
    BY DEF SuspendInTime, Running
  <2>1. age \in 0 .. 4
    BY DEF PipeInv, RunInv, Requests
  <2> QED
    BY <2>1, PipelineAssumption
<1> QED
  BY <1>1, PipeInvHolds, PTL

\* What the core reports at a clock, and how long a request has been under way.
LEMMA ClockReports ==
    ASSUME Clean, PipeInv, Clock, MaxAge >= 4
    PROVE  Core!Clock
<1>1. TypeInv /\ Running /\ RunInv /\ prog \in Programs /\ Regular(prog) /\ age \in Nat
  BY DEF PipeInv, TypeInv, Clock, Clean
<1>2. /\ core'.stat = IF core.m.stat = "BUB" THEN "AOK" ELSE core.m.stat
      /\ core'.signal = FALSE
      /\ age' = IF age = 0 THEN 0 ELSE age + 1
      /\ core' \in CoreType
  BY <1>1, ClockIs DEF Regular, ClockW, ClockRest
<1>3. /\ Requests /\ core.m.stat \in {"AOK", "BUB"} \cup Stops
  BY <1>1 DEF RunInv, TypeInv, CoreType, Stats, Stops
<1>4. /\ core.signal => age > 0
      /\ age = 0 => core.signal = FALSE
      /\ core.m.stat = "SPD" => age > 1
      /\ core.m.stat \in {"AOK", "BUB"} => age < 4
      /\ MaxAge \in Nat
  BY <1>1, <1>3, PipelineAssumption DEF Requests, Stops, TypeInv, CoreType
<1>5. Reported = "AOK"
  BY <1>1 DEF Reported, Running
<1>6. CASE age = 0
  <2>1. Reported' \in {"AOK", "SYS", "FLT"}
    BY <1>2, <1>3, <1>4, <1>6 DEF Reported, Stops
  <2> QED
    BY <1>2, <1>4, <1>5, <1>6, <2>1 DEF Core!Clock, Core!Drained, Core!Outcomes
<1>7. CASE age # 0
  <2>1. age' = age + 1 /\ (core.signal \/ age - 1 > 0)
    BY <1>1, <1>2, <1>3, <1>7 DEF Requests
  <2>2. /\ Reported' \in {"AOK", "SYS", "SPD", "FLT"}
        /\ Reported' = "AOK" => age < MaxAge
    BY <1>1, <1>2, <1>3, <1>4 DEF Reported, Stops
  <2>3. (IF age' = 0 THEN 0 ELSE age' - 1) = age /\ age > 0
    BY <1>1, <1>7, <2>1
  <2>4. Core!Drained = age
    BY <1>1, <1>7, <2>1 DEF Core!Drained
  <2>5. Reported' \in Core!Outcomes(age)
    BY <2>2, <2>3 DEF Core!Outcomes
  <2> QED
    BY <1>2, <1>5, <2>3, <2>4, <2>5 DEF Core!Clock
<1> QED
  BY <1>6, <1>7

\* What Kernel.tla takes for granted of a core: it reports a suspension only when it
\* was asked for one, and stops within four clocks of the request.
THEOREM PipelineImplementsCore ==
    ASSUME Clean, MaxAge >= 4
    PROVE  Spec => CoreSpec
<1>1. Init => Core!Init
  BY DEF Init, InitCore, Core!Init, Reported
<1>2. PipeInv /\ [Next]_vars => [Core!Next]_(Core!vars)
  <2> SUFFICES ASSUME PipeInv, [Next]_vars PROVE [Core!Next]_(Core!vars)
    OBVIOUS
  <2>1. core \in CoreType /\ age \in Nat
    BY DEF PipeInv, TypeInv
  <2>2. CASE Clock
    BY <2>2, ClockReports DEF Core!Next
  <2>3. CASE Signal
    <3>1. /\ core.stat = "AOK" /\ core'.stat = core.stat /\ core'.signal = TRUE
          /\ age' = IF age = 0 THEN 1 ELSE age
      BY <2>1, <2>3 DEF Signal, Running, CoreType
    <3>2. (IF age' = 0 THEN 0 ELSE age' - 1) = IF age = 0 THEN 0 ELSE age - 1
      BY <2>1, <3>1
    <3>3. Reported = "AOK" /\ Reported' = "AOK"
      BY <3>1 DEF Reported
    <3> QED
      BY <3>1, <3>2, <3>3 DEF Core!Next, Core!Ask
  <2>4. CASE Resume
    <3>1. core.stat \in {"SYS", "SPD"} /\ age' = 0
      BY <2>4 DEF Resume
    <3>2. core'.stat = "AOK" /\ core'.signal = FALSE
      BY <2>4 DEF Resume, InitCore
    <3> QED
      BY <3>1, <3>2 DEF Core!Next, Core!Reload, Reported
  <2>5. CASE UNCHANGED vars
    BY <2>5 DEF vars, Core!vars, Reported
  <2> QED
    BY <2>2, <2>3, <2>4, <2>5 DEF Next
<1> QED
  BY <1>1, <1>2, PipeInvHolds, PTL DEF Spec, CoreSpec, Core!Spec

=============================================================================
