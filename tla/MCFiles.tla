------------------------------- MODULE MCFiles -------------------------------
(* Small instances of Files for TLC: buffers of three bytes, of which a write  *)
(* may fill two.                                                               *)
EXTENDS Files, TLC

NoImports == {}

\* A file named a of one byte.
ShortImports == {[name |-> "a", bytes |-> <<b>>] : b \in Vals}

\* No module tells one byte from another.
Symmetry == Permutations(Vals)

=============================================================================
