---------------------------- MODULE CleanPrograms ----------------------------
(***************************************************************************)
(* The programs the theorems about Pipeline.tla are for.                   *)
(***************************************************************************)
EXTENDS Pipeline

\* The text section.
InText(pc) == 0 <= pc /\ pc < PcLimit

\* Where an instruction is followed by the next in the absence of returns, and
\* where jumps are taken.
NextPc(ins, pc) == IF ins.icode \in {"jxx", "call"} THEN ins.valC ELSE pc + 1

\* An instruction with the operands it needs, that calls from an address a word holds.
Formed(ins, pc) ==
    /\ ins \in Instr
    /\ ins.icode \in {"rrmovl", "rmmovl", "mrmovl", "opl", "pushl", "popl", "cmpl"} =>
         ins.rA \in Regs
    /\ ins.icode \in {"rrmovl", "irmovl", "rmmovl", "mrmovl", "opl", "cmpl"} =>
         ins.rB \in Regs
    /\ ins.icode = "opl" => ins.ifun \in 0 .. 3
    /\ ins.icode \in {"call", "jxx"} => pc + 1 \in Words

\* A program of such instructions.
WellFormed(p) == p \in Seq(Instr) /\ \A pc \in DOMAIN p : Formed(p[pc], pc)

\* What is fetched in vain is in the text section and no system call.
Vain(p, pc) == InText(pc) /\ InstrAt(p, pc).icode # "syscall"

\* Reads the register r.
Uses(ins, r) == r \in {SrcA(ins), SrcB(ins)}

\* The programs the pipeline executes exactly: none jumps on jge or moves on cmovge, uses
\* %ebp right behind a leave, or has a system call or the end of the text section where
\* it is fetched in vain.
Regular(p) ==
    /\ WellFormed(p)
    /\ \A pc \in DOMAIN p :
         /\ p[pc].icode \in {"jxx", "rrmovl"} => p[pc].ifun # 5
         /\ p[pc].icode = "leave" => ~ Uses(InstrAt(p, pc + 1), "ebp")
         /\ p[pc].icode = "ret" => Vain(p, pc + 1)
         /\ p[pc].icode = "jxx" /\ p[pc].ifun # 0 =>
              LET to == p[pc].valC
              IN  Vain(p, to) /\ Vain(p, NextPc(InstrAt(p, to), to))

\* A program that makes no bubbles.
NoBubble(p) ==
    \A pc \in DOMAIN p :
        /\ p[pc].icode # "ret"
        /\ p[pc].icode = "jxx" => p[pc].ifun = 0
        /\ p[pc].icode \in Loads => \A q \in DOMAIN p : ~ Uses(p[q], DstM(p[pc]))

\* The programs are regular; those that are asked to suspend make no bubbles, and the
\* request comes when what is in F has no status of its own.
Clean ==
    /\ \A p \in Programs : Regular(p) /\ (Asked(p) => NoBubble(p))
    /\ SignalAt \subseteq {"AOK"}

=============================================================================
