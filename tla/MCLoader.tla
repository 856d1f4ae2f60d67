------------------------------ MODULE MCLoader ------------------------------
(* Small instances of Loader for TLC: pages of eight bytes, up to three of    *)
(* program, one of stack and one of arguments, in which a name of one or two  *)
(* characters fits.                                                           *)
EXTENDS Loader

Bytes(n) == <<n, 0, 0, 0>>

\* A file laid out as the ones in y86-code: the header, text, data, rodata, bss
\* and the table, with t, d, r and b bytes in the four sections.
File(t, d, r, b) ==
    LET data == 4 + t
        rodata == data + d
        bss == rodata + r
    IN  Bytes(bss + b) \o [i \in 1 .. t |-> 100 + i] \o [i \in 1 .. d |-> 200 + i]
          \o [i \in 1 .. r + b |-> 0]
          \o Bytes(4) \o Bytes(data) \o Bytes(rodata) \o Bytes(bss)

Named(name, file) == [filename |-> name, content |-> file]

\* Sections that end within a page, at the end of one, and with an aligned
\* section behind; two files have the same name, and one name begins another.
Fitting ==
    << Named(<<1>>, File(1, 1, 0, 1)),
       Named(<<1, 2>>, File(7, 2, 0, 2)),
       Named(<<2>>, File(12, 3, 0, 2)),
       Named(<<2>>, File(2, 0, 0, 0)),
       Named(<<2, 1>>, File(4, 9, 0, 1)) >>

InitScript == Parse(File(2, 1, 0, 0))
Scripts == {InitScript}

NameStores == {ArgsStart, ArgsStart + 4}

\* An address in text, data or bss.
ProgramStores == {6}

=============================================================================
