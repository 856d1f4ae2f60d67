-------------------------------- MODULE ELF --------------------------------
(***************************************************************************)
(* The executable files of Y86-OS and ELF::parse_from_binary, which takes  *)
(* one apart (elf.h, kernel.cpp).  A file is a sequence of bytes; offset i *)
(* of the code is file[i + 1].  Its first word is the offset of a table    *)
(* with the offsets of text, data, rodata and bss, which follow one        *)
(* another and end at the table.                                           *)
(***************************************************************************)
EXTENDS Integers, Sequences

Byte == 0 .. 255

NOP == 16

\* The little-endian word at offset i.
Word(file, i) ==
    file[i + 1] + 256 * (file[i + 2] + 256 * (file[i + 3] + 256 * file[i + 4]))

section_header_begin(file) == Word(file, 0)

text_begin(file) == Word(file, section_header_begin(file))
data_begin(file) == Word(file, section_header_begin(file) + 4)
rodata_begin(file) == Word(file, section_header_begin(file) + 8)
bss_begin(file) == Word(file, section_header_begin(file) + 12)

\* The bytes from one offset up to another.
Part(file, from, upto) == SubSeq(file, from + 1, upto)

\* Slip: no room is made in front of the text.
ParseFlush(file) ==
    [text |-> Part(file, text_begin(file), data_begin(file)),
     data |-> Part(file, data_begin(file), rodata_begin(file)),
     bss  |-> section_header_begin(file) - bss_begin(file)]

\* Four nops come before the text, where the first word of the file is, and
\* nothing becomes of rodata.
Parse(file) ==
    [text |-> <<NOP, NOP, NOP, NOP>> \o Part(file, text_begin(file), data_begin(file)),
     data |-> Part(file, data_begin(file), rodata_begin(file)),
     bss  |-> section_header_begin(file) - bss_begin(file)]

=============================================================================
