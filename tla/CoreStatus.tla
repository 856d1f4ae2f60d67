------------------------------ MODULE CoreStatus ------------------------------
(***************************************************************************)
(* What the kernel and one core may count on of each other: the status at  *)
(* stage W, which the kernel reads, and signal_suspend, which it sets.     *)
(* The kernel clocks a core, asks it to suspend and gives it a process     *)
(* only when it may; the core reports a suspension only when asked to, and *)
(* stops MaxDrain clocks after it was asked at the latest.  Pipeline.tla   *)
(* implements this for one core, Kernel.tla for every one of its cores.    *)
(***************************************************************************)
EXTENDS Naturals

CONSTANT MaxDrain   \* clocks from a request to the end of the process's turn

VARIABLES stat,    \* the status at stage W: "AOK", "SYS", "SPD" or "FLT"
          asked,   \* has the kernel asked since the last clock?
          drain    \* clocks since it first asked this process

vars == <<stat, asked, drain>>

Init ==
    /\ stat = "AOK"
    /\ asked = FALSE
    /\ drain = 0

Drained == IF asked \/ drain > 0 THEN drain + 1 ELSE 0

\* What a core may report d clocks after the first request, 0 if there was none.
Outcomes(d) ==
    {"SYS", "FLT"} \cup (IF d > 0 THEN {"SPD"} ELSE {})
                   \cup (IF d < MaxDrain THEN {"AOK"} ELSE {})

\* The core: a clock, which only a core that has not stopped gets.
Clock ==
    /\ stat = "AOK"
    /\ drain' = Drained
    /\ stat' \in Outcomes(drain')
    /\ asked' = FALSE

\* The kernel, between two clocks: a request, to no core that has stopped,
Ask ==
    /\ stat = "AOK"
    /\ asked' = TRUE
    /\ UNCHANGED <<stat, drain>>

\* and the next process, which finds no request of the last one's.
Reload ==
    /\ stat # "AOK"
    /\ stat' = "AOK"
    /\ asked' = FALSE
    /\ drain' = 0

Next == Clock \/ Ask \/ Reload

Spec == Init /\ [][Next]_vars

=============================================================================
