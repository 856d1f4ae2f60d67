----------------------------- MODULE FileSystem -----------------------------
(***************************************************************************)
(* What the file system calls promise, with files as plain sequences of    *)
(* bytes: every open has an offset of its own, the descriptors a child     *)
(* inherits share theirs with the parent's, a read delivers the bytes from *)
(* the offset on, a write puts its bytes there, and both move the offset   *)
(* past them.  Files.tla implements it.                                    *)
(***************************************************************************)
EXTENDS Integers, Sequences

CONSTANTS Pids, Fds, Vals, MaxChunk,
          NoProcess   \* the process does not exist

VARIABLES files,   \* files[v]: the contents of file v; 1 is what the user types
          opened,  \* opened[o]: [file, offset], one for every open
          fds,     \* fds[p][fd]: an index of opened, or 0
          got      \* the bytes the last read delivered

vars == <<files, opened, fds, got>>

Init ==
    /\ files = <<<<>>, <<>>>>
    /\ opened = <<[file |-> 1, offset |-> 0], [file |-> 2, offset |-> 0]>>
    /\ \E p \in Pids : fds = [q \in Pids |->
         IF q = p THEN [fd \in Fds |-> IF fd < 2 THEN fd + 1 ELSE 0] ELSE NoProcess]
    /\ got = <<>>

\* A new file, with any contents.
Create ==
    /\ Len(files') = Len(files) + 1
    /\ SubSeq(files', 1, Len(files)) = files
    /\ UNCHANGED <<opened, fds, got>>

Typed ==
    /\ \E n \in 0 .. MaxChunk : \E s \in [1 .. n -> Vals] :
         files' = [files EXCEPT ![1] = @ \o s]
    /\ UNCHANGED <<opened, fds, got>>

Open(p, v) ==
    /\ v \in DOMAIN files
    /\ opened' = Append(opened, [file |-> v, offset |-> 0])
    /\ \E fd \in Fds :
         /\ fds[p][fd] = 0
         /\ \A g \in Fds : g < fd => fds[p][g] # 0
         /\ fds' = [fds EXCEPT ![p][fd] = Len(opened')]
    /\ UNCHANGED <<files, got>>

\* The open that descriptor fd of process p stands for is o.
Refers(p, fd, o) == fds[p][fd] = o /\ o # 0

Read(o, n) ==
    LET file == files[opened[o].file]
        from == opened[o].offset
        upto == IF from + n < Len(file) THEN from + n ELSE Len(file)
    IN  /\ got' = SubSeq(file, from + 1, upto)
        /\ opened' = [opened EXCEPT ![o].offset = upto]
        /\ UNCHANGED <<files, fds>>

Write(o, bytes) ==
    LET v == opened[o].file
        from == opened[o].offset
        upto == from + Len(bytes)
    IN  /\ files' = [files EXCEPT ![v] =
                       SubSeq(@, 1, from) \o bytes \o SubSeq(@, upto + 1, Len(@))]
        /\ opened' = [opened EXCEPT ![o].offset = upto]
        /\ UNCHANGED <<fds, got>>

Fork(p, q) ==
    /\ fds[q] = NoProcess
    /\ fds' = [fds EXCEPT ![q] = fds[p]]
    /\ UNCHANGED <<files, opened, got>>

Next ==
    \/ Create
    \/ Typed
    \/ \E p \in Pids :
         /\ fds[p] # NoProcess
         /\ \/ \E v \in DOMAIN files : Open(p, v)
            \/ \E q \in Pids : Fork(p, q)
            \/ \E fd \in Fds, o \in DOMAIN opened, n \in 0 .. MaxChunk :
                 /\ Refers(p, fd, o)
                 /\ \/ Read(o, n)
                    \/ \E bytes \in [1 .. n -> Vals] : Write(o, bytes)

Spec == Init /\ [][Next]_vars

=============================================================================
