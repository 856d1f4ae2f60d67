------------------------------- MODULE Loader -------------------------------
(***************************************************************************)
(* The system call execve from the name in memory to the sections in the   *)
(* address space: the walk over the name (ysyscall.cpp), the search for    *)
(* the file, ELF::parse_from_binary and yexecve, over VirtualMemory, with  *)
(* processes that fork and write the names of programs to their arguments. *)
(***************************************************************************)
EXTENDS VirtualMemory, ELF

CONSTANTS
    vnode_list,  \* the files: a sequence of [filename, content : Seq(Byte)]
    Chars,       \* what a process writes to a byte of its arguments
    NameAddrs,   \* the addresses it writes them to
    Stride,      \* 4, the characters of a name are that far apart, downwards
    MaxName      \* 99, the longest name that is read

ASSUME LoaderAssumption ==
    /\ Byte \subseteq Vals
    /\ Chars \subseteq Vals
    /\ NameAddrs \subseteq ArgsStart .. ArgsEnd - 1
    /\ {Stride, MaxName} \subseteq Nat \ {0}

\* The files hold programs that end before the stack begins, as the start-up script.
ASSUME FilesAssumption ==
    \A i \in DOMAIN vnode_list :
        LET program == Parse(vnode_list[i].content)
        IN  /\ program \in [text : Seq(Vals), data : Seq(Vals), bss : Nat]
            /\ Len(program.text) + Len(program.data) + program.bss <= StackStart

VARIABLE image   \* history: image[p] is the file p executes, NULL at the start

loaderVars == <<vars, image>>

-----------------------------------------------------------------------------

\* VM::read, which gives 0 when it fails.
CharAt(v, m, a) ==
    IF a \in Addr /\ v.pgd_valid[PageOf(a)] # "INVALID" /\ InArea(v, a)
    THEN m[PhyAddr(v, a)] ELSE 0

\* The name that starts at address a, up to the first 0.  Further arguments are
\* read the same way and not used.
NameAt(v, m, a) ==
    LET chars == [j \in 1 .. MaxName |-> CharAt(v, m, a - (j - 1) * Stride)]
        ends == {j \in 1 .. MaxName : chars[j] = 0}
    IN  SubSeq(chars, 1, IF ends = {} THEN MaxName
                         ELSE (CHOOSE j \in ends : \A k \in ends : j <= k) - 1)

\* yexecve_wrapper takes the first file of that name.
Lookup(name, i) ==
    /\ vnode_list[i].filename = name
    /\ \A j \in DOMAIN vnode_list : j < i => vnode_list[j].filename # name

\* execve by process p, with the address of its arguments in %ebx.  With no
\* such file nothing happens.
HandleExecve(p, a) ==
    /\ vm[p] # NULL
    /\ \E i \in DOMAIN vnode_list :
         /\ Lookup(NameAt(vm[p], mem, a), i)
         /\ Execve(p, Parse(vnode_list[i].content))
         /\ image' = [image EXCEPT ![p] = vnode_list[i].content]

\* A process writes a character of its arguments, or to another address.
Stores(p) ==
    /\ \E a \in NameAddrs \cup StoreAddrs, b \in Chars :
         StoreByte(p, a, b) \/ BeginCopy(p, a, b)
    /\ UNCHANGED image

Copied(p) == EndCopy(p) /\ UNCHANGED image

Spawn(p, q) == Fork(p, q) /\ image' = [image EXCEPT ![q] = image[p]]

LoaderInit == Init /\ image = [p \in Pids |-> NULL]

LoaderNext ==
    \E p \in Pids :
        \/ Stores(p)
        \/ Copied(p)
        \/ \E q \in Pids : Spawn(p, q)
        \/ \E a \in NameAddrs : HandleExecve(p, a)

LoaderSpec == LoaderInit /\ [][LoaderNext]_loaderVars

-----------------------------------------------------------------------------
(* Properties.                                                             *)

\* The addresses of the sections of the image made of a file.
SectionAddrs(file) ==
    LET i == Parse(file) IN 0 .. Len(i.text) + Len(i.data) + i.bss - 1

\* Every section of a program is there: each of its addresses is on a page the
\* process has.  "you should first import a file(ascii or binary, limited to
\* 10kb)" and "A y86 code should include elf_header, data, rodata, text, bss, and
\* section header table sections to run in YOS" (README.md).
SectionsMapped ==
    \A p \in Live : image[p] # NULL =>
        \A a \in SectionAddrs(image[p]) : Maps(p, PageOf(a))

\* An address in a program is an offset in its file: at the address the
\* assembler gave to a label in text, data or rodata the process finds the byte
\* that stands there in the file, and in bss zeros, but where processes store.
\* A word comes before the text in the file, the header, and in memory, the nops.
LabelsAreAddresses ==
    \A p \in Live : image[p] # NULL =>
        LET file == image[p]
            byte(a) == CharAt(vm[p], mem, a)
            bytes == text_begin(file) .. bss_begin(file) - 1
            zeros == bss_begin(file) .. section_header_begin(file) - 1
        IN  /\ \A a \in bytes \ StoreAddrs : byte(a) = file[a + 1]
            /\ \A a \in zeros \ StoreAddrs : InArea(vm[p], a) /\ byte(a) = 0

\* "sysarg stack is not smashed!" (ysyscall.cpp): a new program finds its name
\* and arguments where the old one put them.
ArgsNotSmashed ==
    [][\A p \in Live : image'[p] # image[p] /\ vm'[p].vm_area # vm[p].vm_area =>
         \A a \in NameAddrs : NameAt(vm[p], mem, a) = NameAt(vm'[p], mem', a)]_loaderVars

=============================================================================
