--------------------------- MODULE AddressSpaces ---------------------------
(***************************************************************************)
(* What virtual memory promises: every process has memory of its own.  A   *)
(* store changes one byte of one process, fork gives the child a copy, and *)
(* execve replaces the memory of one process but for its arguments.        *)
(* VirtualMemory.tla implements it with shared pages and copy-on-write.    *)
(***************************************************************************)
EXTENDS Integers

CONSTANTS Pids, Addr, Args,   \* Args: the addresses execve keeps
          NoSpace             \* the process does not exist

VARIABLE space   \* space[p][a]: what process p reads at its private address a

Init == \E p \in Pids : \A q \in Pids : space[q] = NoSpace <=> q # p

\* Nothing but process p changes.
Others(p) == \A q \in Pids \ {p} : space'[q] = space[q]

Store(p) ==
    /\ space[p] # NoSpace
    /\ \E a \in Addr : \A x \in Addr \ {a} : space'[p][x] = space[p][x]
    /\ Others(p)

Fork(p, q) ==
    /\ space[p] # NoSpace
    /\ space[q] = NoSpace
    /\ space'[q] = space[p]
    /\ Others(q)

Execve(p) ==
    /\ space[p] # NoSpace
    /\ \A a \in Args : space'[p][a] = space[p][a]
    /\ Others(p)

Next ==
    \E p \in Pids :
        \/ Store(p)
        \/ \E q \in Pids : Fork(p, q)
        \/ Execve(p)

Spec == Init /\ [][Next]_space

=============================================================================
