----------------------------- MODULE MCPipeline -----------------------------
(* Small instances of Pipeline for TLC: words of four bits, a stack of four  *)
(* words, and the programs each run tries.  TLC evaluates for them that they *)
(* are of the kind the theorems are for.                                     *)
EXTENDS CleanPrograms

I(icode, ifun, rA, rB, valC) ==
    [icode |-> icode, ifun |-> ifun, rA |-> rA, rB |-> rB, valC |-> valC]

Irmovl(n, r) == I("irmovl", 0, RNONE, r, n)
Jxx(fun, pc) == I("jxx", fun, RNONE, RNONE, pc)
Call(pc) == I("call", 0, RNONE, RNONE, pc)
Ret == I("ret", 0, RNONE, RNONE, 0)
Push(r) == I("pushl", 0, r, RNONE, 0)
Pop(r) == I("popl", 0, r, RNONE, 0)
Mrmovl(n, rB, rA) == I("mrmovl", 0, rA, rB, n)
Rmmovl(rA, n, rB) == I("rmmovl", 0, rA, rB, n)
Rrmovl(fun, rA, rB) == I("rrmovl", fun, rA, rB, 0)
Opl(fun, rA, rB) == I("opl", fun, rA, rB, 0)
Cmpl(rA, rB) == I("cmpl", 0, rA, rB, 0)
Leave == I("leave", 0, RNONE, RNONE, 0)
Syscall == I("syscall", 0, RNONE, RNONE, 0)

\* A function with the usual entry and exit, and a system call after its call.
Function == <<Call(3), Syscall, Push("ebp"), Rrmovl(0, "esp", "ebp"), Push("eax"),
              Leave, Ret>>

\* All programs of four instructions out of S.
Four(S) == {<<a, b, c, d>> : a \in S, b \in S, c \in S, d \in S}

\* Data, branches, calls and the stack; no system call.
UserPrograms ==
    Four({Irmovl(7, "eax"), Irmovl(-8, "ebx"), Opl(1, "eax", "ebx"),
          Cmpl("eax", "ebx"), Jxx(1, 6), Push("ebx"), Pop("eax"),
          Call(3), Ret, Rmmovl("eax", -2, "esp"), Mrmovl(-1, "esp", "ebx"),
          Rrmovl(2, "ebx", "eax"), Opl(3, "ebx", "eax"), Jxx(4, 2)})

\* An instruction of S is followed by one of T.
Follows(p, S, T) == \E i \in 1 .. Len(p) - 1 : p[i] \in S /\ p[i + 1] \in T

\* System calls among loads, stores, calls and returns.  Jumps are taken, and no
\* system call stands behind a return, where it would be fetched in vain.
SystemPrograms ==
    {Function} \cup
    {p \in Four({Irmovl(2, "ebx"), Mrmovl(-1, "esp", "eax"), Opl(0, "eax", "ebx"),
                 Push("eax"), Pop("ebx"), Rmmovl("ebx", -2, "esp"), Jxx(0, 3), Call(3),
                 Ret, Syscall}) :
        ~ Follows(p, {Ret}, {Syscall})}

\* Programs that never make the pipeline insert a bubble (no system call, no
\* return, no use of what is being loaded, and every jump taken), for requests to
\* suspend at any time the instruction just fetched has no status of its own.
SuspendPrograms ==
    Four({Irmovl(2, "ebx"), Mrmovl(-1, "esp", "ebp"), Opl(0, "eax", "ebx"),
          Push("eax"), Rmmovl("ebx", -2, "esp"), Jxx(0, 3), Call(2)})

\* Is p a program of that kind?
Bubbleless(p) ==
    \A i \in 1 .. Len(p) :
        /\ p[i].icode \in {"irmovl", "mrmovl", "opl", "pushl", "rmmovl", "jxx", "call"}
        /\ p[i].icode = "mrmovl" => p[i].rA = "ebp"
        /\ p[i].icode = "jxx" => p[i].ifun = 0

AllPrograms == UserPrograms \cup SystemPrograms \cup SuspendPrograms

\* The programs meet the hypothesis of the theorems.
ASSUME ProgramsClean == Clean

=============================================================================
