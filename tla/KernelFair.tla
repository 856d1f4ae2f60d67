----------------------------- MODULE KernelFair -----------------------------
(***************************************************************************)
(* Kernel with a history variable, to say how fair arrange() is: a ready   *)
(* process is overtaken by any other at most once before it gets a core.   *)
(* kernel.cpp has no such variable; it records, for every process, who was *)
(* given a core since the process last became ready.                       *)
(***************************************************************************)
EXTENDS Kernel

VARIABLE passed   \* passed[p]: the processes started while p was ready

fairVars == <<vars, passed>>

\* The processes this step gives a core.
StartedNow == {q \in Pids : pid_set[q].status = "S" /\ pid_set'[q].status = "R"}

FairInit == Init /\ passed = [p \in Pids |-> {}]

FairNext ==
    /\ Next
    /\ passed' = [p \in Pids |->
                    IF p \in Ready /\ p \in Ready' THEN passed[p] \cup StartedNow
                                                   ELSE {}]

FairSpec == FairInit /\ [][FairNext]_fairVars /\ Fairness

\* arrange() serves the longest-resting first: no process is given a core a
\* second time while another is ready all along.
NoSecondOvertake ==
    [][\A p \in Pids : p \in Ready /\ p \in Ready' =>
         passed[p] \cap StartedNow = {}]_fairVars

=============================================================================
