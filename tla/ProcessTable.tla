---------------------------- MODULE ProcessTable ----------------------------
(***************************************************************************)
(* What the Y86 kernel promises about processes, with no clock, no         *)
(* quantum, no accounting and no order of service: every pid has one life  *)
(* (it is spawned once, runs and rests in turn, dies and stays dead), a    *)
(* core runs at most one process and a process at most one core, and a     *)
(* process that waits for another is not given a core while that one lives.*)
(* Kernel.tla implements it.                                               *)
(***************************************************************************)
EXTENDS Integers

CONSTANTS Pids,    \* the pids that may be handed out
          Slots,   \* the cores that may ever exist
          NULL     \* no process

VARIABLES life,    \* life[p]: "none", "ready", "running" or "dead"
          runs,    \* runs[c]: the process core c runs, or NULL
          awaits   \* awaits[p]: the pid process p waits for, or NULL

vars == <<life, runs, awaits>>

Init ==
    \E first \in Pids, c \in Slots :
        /\ life = [p \in Pids |-> IF p = first THEN "running" ELSE "none"]
        /\ runs = [d \in Slots |-> IF d = c THEN first ELSE NULL]
        /\ awaits = [p \in Pids |-> NULL]

\* p may be given a core: it is ready and what it waits for is gone.
Runnable(p) ==
    /\ life[p] = "ready"
    /\ awaits[p] # NULL => life[awaits[p]] \in {"none", "dead"}

Start(c, p) ==
    /\ Runnable(p)
    /\ runs[c] = NULL
    /\ life' = [life EXCEPT ![p] = "running"]
    /\ runs' = [runs EXCEPT ![c] = p]
    /\ UNCHANGED awaits

\* p gives its core up: preempted, or at the end of a system call that may
\* have changed what it waits for.
Yield(c, p) ==
    /\ runs[c] = p
    /\ life' = [life EXCEPT ![p] = "ready"]
    /\ runs' = [runs EXCEPT ![c] = NULL]
    /\ \E w \in Pids \cup {NULL} : awaits' = [awaits EXCEPT ![p] = w]

\* p spawns q and gives its core up; q starts out waiting for what p waits for.
Spawn(c, p, q) ==
    /\ runs[c] = p
    /\ life[q] = "none"
    /\ life' = [life EXCEPT ![p] = "ready", ![q] = "ready"]
    /\ runs' = [runs EXCEPT ![c] = NULL]
    /\ awaits' = [awaits EXCEPT ![q] = awaits[p]]

Die(c, p) ==
    /\ runs[c] = p
    /\ life' = [life EXCEPT ![p] = "dead"]
    /\ runs' = [runs EXCEPT ![c] = NULL]
    /\ UNCHANGED awaits

Next ==
    \E c \in Slots, p \in Pids :
        \/ Start(c, p)
        \/ Yield(c, p)
        \/ Die(c, p)
        \/ \E q \in Pids : Spawn(c, p, q)

Spec == Init /\ [][Next]_vars

=============================================================================
