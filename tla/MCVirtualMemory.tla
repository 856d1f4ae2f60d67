--------------------------- MODULE MCVirtualMemory ---------------------------
(* Small instances of VirtualMemory for TLC: pages of four bytes, one page    *)
(* of program, one of stack and one of arguments, with a gap after the        *)
(* program.                                                                   *)
EXTENDS VirtualMemory

\* One byte of text and two of data, the second of which is Private.
Small == [text |-> <<1>>, data |-> <<0, 1>>, bss |-> 0]
SmallImages == {Small}

\* With all bytes equal, where only the pages matter, and one byte of bss.
Blank == [text |-> <<0>>, data |-> <<0, 0>>, bss |-> 0]
BlankBss == [text |-> <<0>>, data |-> <<0>>, bss |-> 1]
BlankImages == {Blank, BlankBss}

\* The last byte of data or bss, and one of the arguments.
PrivateStores == {2, ArgsStart}

=============================================================================
