-------------------------------- MODULE Files --------------------------------
(***************************************************************************)
(* The file side of the kernel: the vnode table and the open-file table    *)
(* (kernel.h), the descriptors of a VM (fd_set of vm.h), the system calls  *)
(* open, read and write and what fork does to descriptors (ysyscall.cpp),  *)
(* and what the user interface does to files: importing them and typing    *)
(* into stdin (fileui.cpp) and showing stdout (print_stdout of y86ui.cpp). *)
(*                                                                         *)
(* System calls are handled one after the other, with all core threads     *)
(* joined, so each is one step.  The memory of a process is left to        *)
(* VirtualMemory; here a buffer is the bytes it holds or receives, and the *)
(* number of them before the first that no section holds.                  *)
(***************************************************************************)
EXTENDS Integers, Sequences

CONSTANTS
    MaxPid,      \* bound: processes
    MaxFd,       \* 512, the length of fd_set
    MaxLen,      \* 10000, the length of file_content
    MaxFiles,    \* bound: vnodes
    MaxOpen,     \* bound: entries of open_file_table
    MaxChunk,    \* bound: bytes per system call, and typed at a time
    Vals,        \* values of a byte
    Imports,     \* what the user may import: pairs of a name and a sequence of bytes
    OpenNames,   \* the names that processes open
    Faults,      \* may a buffer reach beyond its section?
    OverOpen,    \* may a process open more than MaxFd files?
    JUNK,        \* what a byte of a new buffer holds
    NULL

Pids == 1 .. MaxPid
Fds == 0 .. MaxFd - 1
Positions == 0 .. MaxLen - 1

ASSUME FilesAssumption ==
    /\ MaxPid \in Nat \ {0}
    /\ MaxFd \in Nat \ {0, 1}
    /\ {MaxLen, MaxFiles, MaxOpen, MaxChunk} \subseteq Nat
    /\ JUNK \notin Vals
    /\ \A i \in Imports : i.bytes \in Seq(Vals)
    /\ {Faults, OverOpen} \subseteq BOOLEAN

VARIABLES
    vnode_list,       \* the files, in the order they came
    open_file_table,  \* one entry per open, never removed
    fd_set,           \* fd_set[p][fd]: an index of open_file_table, 0 if not open
    ret,              \* the result of the last call, in %eax of its process
    got,              \* the bytes the last read stored in its buffer
    console           \* last_pos of print_stdout and what it has appended

vars == <<vnode_list, open_file_table, fd_set, ret, got, console>>

-----------------------------------------------------------------------------

STDIN == 1
STDOUT == 2

\* A file's buffer is not initialised.
NewVnode(name) ==
    [filename |-> name, filesize |-> 0, file_content |-> [i \in Positions |-> JUNK]]

NewOpen(v) == [vnode |-> v, pos |-> 0]

\* Slip: the bytes always go to the start of the buffer.
FilledAtStart(content, from, bytes) ==
    [i \in Positions |-> IF i < Len(bytes) THEN bytes[i + 1] ELSE content[i]]

\* The bytes go to the buffer from position from on.
Filled(content, from, bytes) ==
    [i \in Positions |-> IF from <= i /\ i < from + Len(bytes)
                         THEN bytes[i - from + 1] ELSE content[i]]

Prefix(bytes, n) == SubSeq(bytes, 1, IF n < Len(bytes) THEN n ELSE Len(bytes))

Bytes(v, from, upto) == [i \in 1 .. upto - from |-> v.file_content[from + i - 1]]

Min2(a, b) == IF a < b THEN a ELSE b

\* The first file of that name, if there is one.
Named(name, v) ==
    /\ v \in DOMAIN vnode_list
    /\ vnode_list[v].filename = name
    /\ \A w \in 1 .. v - 1 : vnode_list[w].filename # name

Missing(name) == \A v \in DOMAIN vnode_list : vnode_list[v].filename # name

\* Slip: the test the wrong way round.
FreeTaken(p, fd) == fd_set[p][fd] # 0 /\ \A g \in Fds : g < fd => fd_set[p][g] = 0

\* The first descriptor of p not in use.
Free(p, fd) == fd_set[p][fd] = 0 /\ \A g \in Fds : g < fd => fd_set[p][g] # 0

NoneFree(p) == \A fd \in Fds : fd_set[p][fd] # 0

\* Kernel::init.
Init ==
    /\ vnode_list = <<NewVnode("stdin"), NewVnode("stdout")>>
    /\ open_file_table = <<NewOpen(STDIN), NewOpen(STDOUT)>>
    /\ fd_set = [p \in Pids |-> IF p = 1
                   THEN [fd \in Fds |-> IF fd = 0 THEN 1 ELSE IF fd = 1 THEN 2 ELSE 0]
                   ELSE NULL]
    /\ ret = 0
    /\ got = <<>>
    /\ console = [last_pos |-> 0, text |-> <<>>]

-----------------------------------------------------------------------------
(* The user interface.                                                     *)

\* load_binary_file and load_ascii_file: the file up to the length of a
\* buffer.  A name that is taken is taken twice.
Import ==
    /\ Len(vnode_list) < MaxFiles
    /\ \E i \in Imports :
         LET bytes == Prefix(i.bytes, MaxLen) IN
         vnode_list' = Append(vnode_list,
             [filename |-> i.name, filesize |-> Len(bytes),
              file_content |-> Filled(NewVnode(i.name).file_content, 0, bytes)])
    /\ UNCHANGED <<open_file_table, fd_set, ret, got, console>>

\* Slip: no test of the length of the buffer.
RoomAny(v) == MaxLen

\* The bytes that still go into the buffer of a file.
Room(v) == MaxLen - v.filesize

\* stdin_readline: what does not fit is dropped.
StdinReadline ==
    /\ \E n \in 1 .. MaxChunk : \E line \in [1 .. n -> Vals] :
         LET bytes == Prefix(line, Room(vnode_list[STDIN])) IN
         vnode_list' = [vnode_list EXCEPT
             ![STDIN].file_content = Filled(@, vnode_list[STDIN].filesize, bytes),
             ![STDIN].filesize = @ + Len(bytes)]
    /\ UNCHANGED <<open_file_table, fd_set, ret, got, console>>

\* Slip: what has been shown is shown again.
ShownAgain(v) == 0

ShownUpto(v) == v.filesize

\* print_stdout, after every cycle.
PrintStdout ==
    LET v == vnode_list[STDOUT] IN
    /\ console.last_pos # v.filesize
    /\ console' = [last_pos |-> ShownUpto(v),
                   text |-> console.text \o Bytes(v, console.last_pos, v.filesize)]
    /\ UNCHANGED <<vnode_list, open_file_table, fd_set, ret, got>>

-----------------------------------------------------------------------------
(* System calls of process p.                                              *)

Exists(p) == fd_set[p] # NULL

Fork(p, q) ==
    /\ Exists(p)
    /\ ~ Exists(q)
    /\ \A r \in Pids : r < q => Exists(r)
    /\ fd_set' = [fd_set EXCEPT ![q] = fd_set[p]]
    /\ UNCHANGED <<vnode_list, open_file_table, ret, got, console>>

\* yopen makes the entry before it looks for a descriptor.
Opened(v) ==
    /\ Len(open_file_table) < MaxOpen
    /\ open_file_table' = Append(open_file_table, NewOpen(v))

Open(p, name) ==
    /\ Exists(p)
    /\ \E v \in DOMAIN vnode_list : Named(name, v) /\ Opened(v)
    /\ \E fd \in Fds :
         /\ Free(p, fd)
         /\ fd_set' = [fd_set EXCEPT ![p][fd] = Len(open_file_table')]
         /\ ret' = fd
    /\ UNCHANGED <<vnode_list, got, console>>

\* With no descriptor free the variable fd is never set: it may hold 512 by
\* chance, which is an error, or any number, and then that entry is overwritten
\* or, if there is none, something else.
OpenOver(p, name) ==
    /\ OverOpen
    /\ Exists(p)
    /\ \E v \in DOMAIN vnode_list : Named(name, v) /\ Opened(v)
    /\ NoneFree(p)
    /\ \/ ret' = -1 /\ fd_set' = fd_set
       \/ \E fd \in Fds :
            /\ fd_set' = [fd_set EXCEPT ![p][fd] = Len(open_file_table')]
            /\ ret' = fd
    /\ UNCHANGED <<vnode_list, got, console>>

\* No such file, a descriptor that is not open, or, for a read, one beyond 512.
\* The handler of open does not set its variable error; if that is not 0 by
\* chance, CPU::read gives up at once and the name is empty.
Refused(p) ==
    /\ Exists(p)
    /\ \/ \E name \in OpenNames \cup {""} : Missing(name)
       \/ \E fd \in Fds : fd_set[p][fd] = 0
    /\ ret' = -1
    /\ UNCHANGED <<vnode_list, open_file_table, fd_set, got, console>>

\* The bytes a read of n finds.
ToRead(v, pos, n) == IF pos < v.filesize THEN Min2(n, v.filesize - pos) ELSE 0

\* Slip: the position moves by what was asked for.
MovedAsked(o, n, cnt) == [o EXCEPT !.pos = @ + n]

\* The position moves by what was transferred.
Moved(o, n, cnt) == [o EXCEPT !.pos = @ + cnt]

\* yread of n bytes through entry o, into a buffer that takes room bytes.  The
\* result is the number of bytes NOT read.
Read(o, n, room) ==
    LET file == open_file_table[o]
        v == vnode_list[file.vnode]
        cnt == ToRead(v, file.pos, n)
    IN
    /\ got' = Bytes(v, file.pos, file.pos + Min2(cnt, room))
    /\ IF room < cnt
       THEN ret' = -1 /\ UNCHANGED open_file_table
       ELSE /\ open_file_table' = [open_file_table EXCEPT ![o] = Moved(@, n, cnt)]
            /\ ret' = n - cnt
    /\ UNCHANGED <<vnode_list, fd_set, console>>

\* Slip: the file ends where the write does.
LengthAtEnd(v, upto) == upto

Length(v, upto) == IF upto > v.filesize THEN upto ELSE v.filesize

\* ywrite of bytes through entry o, from a buffer of which room bytes are
\* there.  The size is set before the first byte is copied.
Write(o, bytes, room) ==
    LET file == open_file_table[o]
        v == vnode_list[file.vnode]
        size == Length(v, file.pos + Len(bytes))
    IN
    /\ IF size >= MaxLen
       THEN ret' = -1 /\ UNCHANGED <<vnode_list, open_file_table>>
       ELSE /\ vnode_list' = [vnode_list EXCEPT
                   ![file.vnode].filesize = size,
                   ![file.vnode].file_content =
                       Filled(@, file.pos, Prefix(bytes, room))]
            /\ IF room < Len(bytes)
               THEN ret' = -2 /\ UNCHANGED open_file_table
               ELSE /\ open_file_table' = [open_file_table EXCEPT
                           ![o] = Moved(@, Len(bytes), Len(bytes))]
                    /\ ret' = 0
    /\ UNCHANGED <<fd_set, got, console>>

\* A read or a write of n bytes through a descriptor that is open.
Transfer(p, n) ==
    /\ Exists(p)
    /\ \E fd \in Fds, room \in IF Faults THEN 0 .. n ELSE {n} :
         /\ fd_set[p][fd] # 0
         /\ \/ Read(fd_set[p][fd], n, room)
            \/ \E bytes \in [1 .. n -> Vals] : Write(fd_set[p][fd], bytes, room)

Next ==
    \/ Import
    \/ StdinReadline
    \/ PrintStdout
    \/ \E p \in Pids :
         \/ \E q \in Pids : Fork(p, q)
         \/ \E name \in OpenNames : Open(p, name) \/ OpenOver(p, name)
         \/ Refused(p)
         \/ \E n \in 0 .. MaxChunk : Transfer(p, n)

Spec == Init /\ [][Next]_vars

-----------------------------------------------------------------------------
(* Properties.                                                             *)

Bytewise == Vals \cup {JUNK}

FileNames == {"stdin", "stdout"} \cup {i.name : i \in Imports}

VnodeType == [filename : FileNames, filesize : 0 .. MaxLen,
              file_content : [Positions -> Bytewise]]

\* The variables stay in their types.
TypeOK ==
    /\ vnode_list \in Seq(VnodeType)
    /\ open_file_table \in Seq([vnode : DOMAIN vnode_list, pos : Nat])
    /\ fd_set \in [Pids -> {NULL} \cup [Fds -> {0} \cup DOMAIN open_file_table]]
    /\ ret \in Int
    /\ got \in Seq(Bytewise)
    /\ console.last_pos \in 0 .. MaxLen
    /\ console.text \in Seq(Bytewise)

\* No position is ever beyond the end of its file, whoever else writes to the
\* file and wherever a call fails: a write leaves no hole.
PosInFile ==
    \A o \in DOMAIN open_file_table :
        open_file_table[o].pos <= vnode_list[open_file_table[o].vnode].filesize

\* "The meanings of each syscalls are equal to the ones in Linux" (README.md):
\* a file holds what was put into it; every byte before its end was imported,
\* typed or written.
Written ==
    \A v \in DOMAIN vnode_list : \A i \in 0 .. vnode_list[v].filesize - 1 :
        vnode_list[v].file_content[i] # JUNK

\* What the console has shown is what stdout holds up to there: no write changes
\* what has been shown and none is passed over.
ConsoleShows ==
    console.text = Bytes(vnode_list[STDOUT], 0, console.last_pos)

\* "stdin and stdout is always opened by a process running on Y86" (README.md).
StdOpen ==
    \A p \in Pids : Exists(p) =>
        \A fd \in {0, 1} :
            /\ fd_set[p][fd] # 0
            /\ open_file_table[fd_set[p][fd]].vnode = fd + 1

\* Files implements FileSystem.
System == INSTANCE FileSystem WITH
    NoProcess <- NULL,
    files <- [v \in DOMAIN vnode_list |->
                Bytes(vnode_list[v], 0, vnode_list[v].filesize)],
    opened <- [o \in DOMAIN open_file_table |->
                 [file |-> open_file_table[o].vnode, offset |-> open_file_table[o].pos]],
    fds <- fd_set

FileSystemSpec == System!Spec

=============================================================================
