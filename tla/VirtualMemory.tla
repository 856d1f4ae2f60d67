--------------------------- MODULE VirtualMemory ---------------------------
(***************************************************************************)
(* Virtual memory: the page tables and areas of a VM (vm.h, vm.cpp), the   *)
(* physical memory they map to (mem.h), and what fork and execve do to     *)
(* them (ysyscall.cpp).  Addresses are numbers, pages are PageSize long    *)
(* and named by their first address, as in the code; a physical page is    *)
(* named by its number.                                                    *)
(*                                                                         *)
(* Loads and stores come from the core threads and may interleave; fork    *)
(* and execve run in the kernel, with all threads joined.                  *)
(***************************************************************************)
EXTENDS Integers, FiniteSets, Sequences

CONSTANTS
    MaxPid,      \* bound: processes
    PageSize,    \* 4096
    StackStart,  \* 0x3FFF0000
    ArgsStart,   \* 0x40000000, where the stack ends and cmd_args starts
    ArgsEnd,     \* 0x40010000
    Frames,      \* bound: physical pages, numbered from 0
    Reserve,     \* bound: execve runs only while so many of them are free
    Vals,        \* contents of a byte, 0 among them
    Images,      \* the ELF files: [text, data : Seq(Vals), bss : Nat]
    Boot,        \* the start-up script, one of them
    StoreAddrs,  \* the addresses processes store to
    Threads,     \* do the stores of two processes interleave?
    NULL

Pids == 1 .. MaxPid
Addr == 0 .. ArgsEnd
PageOf(a) == a - (a % PageSize)
Pages == {PageOf(a) : a \in Addr}
Phys == (0 .. Frames - 1) \X (0 .. PageSize - 1)

ASSUME MemoryAssumption ==
    /\ PageSize \in Nat \ {0}
    /\ {StackStart, ArgsStart, ArgsEnd} \subseteq {n \in Nat : n % PageSize = 0}
    /\ StackStart < ArgsStart /\ ArgsStart < ArgsEnd
    /\ Frames \in Nat \ {0}
    /\ 0 \in Vals
    /\ Boot \in Images
    /\ StoreAddrs \subseteq Addr
    /\ Threads \in BOOLEAN

\* A program ends before the stack begins.  The code does not look, but a file has
\* 10 kB at most and the stack begins at nearly 1 GB.
ASSUME ImagesAssumption ==
    \A image \in Images :
        /\ image \in [text : Seq(Vals), data : Seq(Vals), bss : Nat]
        /\ Len(image.text) + Len(image.data) + image.bss <= StackStart

VARIABLES
    vm,              \* vm[p]: page table and areas of process p, or NULL
    mem,             \* mem[x]: the byte at physical address x
    allocated_page,  \* the physical pages that were handed out
    store            \* store[p]: the copy-on-write process p is busy with

vars == <<vm, mem, allocated_page, store>>

-----------------------------------------------------------------------------
(* Page tables and areas.                                                  *)

\* A page table entry that operator[] creates on the way maps to page 0.
Frame(v, pg) == IF v.pgd[pg] = NULL THEN 0 ELSE v.pgd[pg]

PhyAddr(v, a) == <<Frame(v, PageOf(a)), a % PageSize>>

Touched(v, pg) == [v EXCEPT !.pgd[pg] = Frame(v, pg)]

\* The areas are searched in order, and both ends belong to an area.
Holds(area, a) == area.start <= a /\ a <= area.end

InArea(v, a) == \E i \in DOMAIN v.vm_area : Holds(v.vm_area[i], a)

AreaOf(v, a) ==
    v.vm_area[CHOOSE i \in DOMAIN v.vm_area :
                /\ Holds(v.vm_area[i], a)
                /\ \A j \in DOMAIN v.vm_area : Holds(v.vm_area[j], a) => i <= j]

\* Mem::allocate_page: the first page not handed out, or page 0 when all are.
FirstFree(used) ==
    LET free == (0 .. Frames - 1) \ used
    IN  IF free = {} THEN 0 ELSE CHOOSE f \in free : \A g \in free : f <= g

\* Slip: the page is not entered in allocated_page.
TakenTwice(used, f) == used

Taken(used, f) == used \cup {f}

-----------------------------------------------------------------------------
(* execve.  m is a VM v together with the memory and the pages handed out. *)

\* allocate_page_pte refuses an address that is not that of a page and a page
\* that is valid already.
AllocatePage(m, a) ==
    LET f == FirstFree(m.used) IN
    IF a % PageSize # 0 \/ m.v.pgd_valid[PageOf(a)] # "INVALID" THEN m
    ELSE [m EXCEPT !.v.pgd[a] = f, !.v.pgd_valid[a] = "RW", !.used = Taken(@, f)]

\* VM::write to the section being filled, where nothing is copy-on-write.
PutByte(m, a, b) ==
    [m EXCEPT !.v = Touched(@, PageOf(a)), !.mem[PhyAddr(m.v, a)] = b]

\* Slip: the end of a section rounded up to that of its page.
SectionEndRounded(start, len) == PageOf(start + len) + PageSize

SectionEnd(start, len) == start + len

\* Slip: the last page is left out when it is not full.
StepsFull(start, len) ==
    [i \in 1 .. len \div PageSize |-> start + (i - 1) * PageSize]

\* The addresses the pages of a section are allocated at: one a page length after
\* the other from its start on, wherever in a page that is.
Steps(start, len) ==
    [i \in 1 .. (len + PageSize - 1) \div PageSize |-> start + (i - 1) * PageSize]

\* The first loop of VM::allocate_section: the pages.
AllocatePages(m, start, len) ==
    LET steps == Steps(start, len)
        paged[i \in 0 .. Len(steps)] ==
            IF i = 0 THEN m ELSE AllocatePage(paged[i - 1], steps[i])
    IN  paged[Len(steps)]

\* The second loop: the bytes.
PutBytes(m, start, bytes) ==
    LET filled[i \in 0 .. Len(bytes)] ==
            IF i = 0 THEN m ELSE PutByte(filled[i - 1], start + i - 1, bytes[i])
    IN  filled[Len(bytes)]

\* VM::allocate_section: the pages, the bytes and the area.
AllocateSection(m, name, start, bytes, prot) ==
    LET len == Len(bytes)
        filled == PutBytes(AllocatePages(m, start, len), start, bytes)
        area == [section_name |-> name, start |-> start, end |-> SectionEnd(start, len),
                 prot |-> prot]
    IN  [filled EXCEPT !.v.vm_area = Append(@, area)]

Zeros(n) == [i \in 1 .. n |-> 0]

BlankVm == [pgd |-> [pg \in Pages |-> NULL],
            pgd_valid |-> [pg \in Pages |-> "INVALID"],
            vm_area |-> <<>>]

\* The first area named cmd_args, if there is one.
ArgsAreas(vm_area) ==
    LET args == {i \in DOMAIN vm_area : vm_area[i].section_name = "cmd_args"}
    IN  IF args = {} THEN <<>>
        ELSE <<vm_area[CHOOSE i \in args : \A j \in args : i <= j]>>

\* Slips: the arguments are cleared like any other section; the pages are not
\* freed.
ClearedArgs(v) == BlankVm

ClearedAreas(v) == [v EXCEPT !.vm_area = ArgsAreas(@)]

\* free_page_pte invalidates a page and keeps its entry; Mem::free_page does
\* nothing.  Only cmd_args survives.
Cleared(v) ==
    [v EXCEPT !.vm_area = ArgsAreas(@),
              !.pgd_valid = [pg \in Pages |->
                  IF v.pgd[pg] # NULL /\ (pg < ArgsStart \/ pg > ArgsEnd)
                  THEN "INVALID" ELSE @[pg]]]

\* yexecve.
Executed(m, image) ==
    LET t == Len(image.text)
        d == t + Len(image.data)
        kept == Cleared(m.v)
        text == AllocateSection([m EXCEPT !.v = kept], "text", 0, image.text, "RONLY")
        data == AllocateSection(text, "data", t, image.data, "RW")
        bss == AllocateSection(data, "bss", d, Zeros(image.bss), "RW")
        stack == AllocateSection(bss, "stack", StackStart,
                                 Zeros(ArgsStart - StackStart), "RW")
    IN  IF kept.vm_area # <<>> THEN stack
        ELSE AllocateSection(stack, "cmd_args", ArgsStart,
                             Zeros(ArgsEnd - ArgsStart), "RW")

-----------------------------------------------------------------------------

\* Kernel::init: process 1 executes the start-up script.
Init ==
    LET m == Executed([v |-> BlankVm, mem |-> [x \in Phys |-> 0], used |-> {}], Boot)
    IN  /\ vm = [p \in Pids |-> IF p = 1 THEN m.v ELSE NULL]
        /\ mem = m.mem
        /\ allocated_page = m.used
        /\ store = [p \in Pids |-> NULL]

\* All threads are joined.
Quiet == \A p \in Pids : store[p] = NULL

\* VM::read.  A valid page without an entry gets one.
Load(p, a) ==
    /\ vm[p] # NULL
    /\ store[p] = NULL
    /\ vm[p].pgd_valid[PageOf(a)] # "INVALID"
    /\ InArea(vm[p], a)
    /\ vm' = [vm EXCEPT ![p] = Touched(@, PageOf(a))]
    /\ UNCHANGED <<mem, allocated_page, store>>

\* Does VM::write copy the page first?
MustCopy(v, a) ==
    /\ AreaOf(v, a).prot = "COPY_ON_WRITE"
    /\ v.pgd_valid[PageOf(a)] = "RONLY"

\* VM::write to an address no area holds fails and changes nothing; to any
\* other it stores the byte, after clearing the errors it came upon.
StoreByte(p, a, b) ==
    /\ vm[p] # NULL
    /\ store[p] = NULL
    /\ InArea(vm[p], a)
    /\ ~ MustCopy(vm[p], a)
    /\ mem' = [mem EXCEPT ![PhyAddr(vm[p], a)] = b]
    /\ vm' = [vm EXCEPT ![p] = Touched(@, PageOf(a))]
    /\ UNCHANGED <<allocated_page, store>>

\* The copy: the old contents are read and a free physical page is looked up.
BeginCopy(p, a, b) ==
    /\ vm[p] # NULL
    /\ store[p] = NULL
    /\ InArea(vm[p], a)
    /\ MustCopy(vm[p], a)
    /\ Threads \/ Quiet
    /\ store' = [store EXCEPT ![p] =
         [addr |-> a, val |-> b, frame |-> FirstFree(allocated_page),
          buf |-> [i \in 0 .. PageSize - 1 |-> mem[PhyAddr(vm[p], PageOf(a) + i)]]]]
    /\ UNCHANGED <<vm, mem, allocated_page>>

\* The page is marked as handed out and mapped, and contents and byte go there.
EndCopy(p) ==
    LET s == store[p]
        pg == PageOf(s.addr)
    IN
    /\ s # NULL
    /\ allocated_page' = Taken(allocated_page, s.frame)
    /\ vm' = [vm EXCEPT ![p].pgd[pg] = s.frame, ![p].pgd_valid[pg] = "RW"]
    /\ mem' = [x \in Phys |-> IF x = <<s.frame, s.addr % PageSize>> THEN s.val
                              ELSE IF x[1] = s.frame THEN s.buf[x[2]]
                              ELSE mem[x]]
    /\ store' = [store EXCEPT ![p] = NULL]

\* yfork: what becomes of both copies of the VM.  An area that is
\* copy-on-write already is passed over, and so are its pages.
Protected(v) ==
    LET rw == {i \in DOMAIN v.vm_area : v.vm_area[i].prot = "RW"} IN
    [v EXCEPT
       !.vm_area = [i \in DOMAIN @ |-> IF i \in rw
                                       THEN [@[i] EXCEPT !.prot = "COPY_ON_WRITE"]
                                       ELSE @[i]],
       !.pgd_valid = [pg \in Pages |->
           IF \E i \in rw : /\ PageOf(v.vm_area[i].start) <= pg
                            /\ pg <= PageOf(v.vm_area[i].end)
           THEN "RONLY" ELSE @[pg]]]

\* Slip: one of the two loops left out.
Unprotected(v) == v

\* The two loops of yfork(), over the VM of the parent and that of the child.
Parent(v) == Protected(v)

Child(v) == Protected(v)

Fork(p, q) ==
    /\ Quiet
    /\ vm[p] # NULL
    /\ vm[q] = NULL
    /\ \A r \in Pids : r < q => vm[r] # NULL
    /\ vm' = [vm EXCEPT ![p] = Parent(vm[p]), ![q] = Child(vm[p])]
    /\ UNCHANGED <<mem, allocated_page, store>>

Execve(p, image) ==
    LET m == Executed([v |-> vm[p], mem |-> mem, used |-> allocated_page], image)
    IN
    /\ Quiet
    /\ vm[p] # NULL
    /\ Frames - Cardinality(allocated_page) >= Reserve
    /\ vm' = [vm EXCEPT ![p] = m.v]
    /\ mem' = m.mem
    /\ allocated_page' = m.used
    /\ UNCHANGED store

Next ==
    \E p \in Pids :
        \/ \E a \in StoreAddrs :
             \/ Load(p, a)
             \/ \E b \in Vals : StoreByte(p, a, b) \/ BeginCopy(p, a, b)
        \/ EndCopy(p)
        \/ \E q \in Pids : Fork(p, q)
        \/ \E image \in Images : Execve(p, image)

Spec == Init /\ [][Next]_vars

-----------------------------------------------------------------------------
(* Properties.                                                             *)

VmType == [pgd : [Pages -> (0 .. Frames - 1) \cup {NULL}],
           pgd_valid : [Pages -> {"INVALID", "RW", "RONLY"}],
           vm_area : Seq([section_name : {"text", "data", "bss", "stack", "cmd_args"},
                          start : Addr, end : Addr,
                          prot : {"RONLY", "RW", "COPY_ON_WRITE"}])]

StoreType == [addr : Addr, val : Vals, frame : 0 .. Frames - 1,
              buf : [0 .. PageSize - 1 -> Vals]]

\* NULL is none of the values it stands in for.
ASSUME NullAssumption ==
    /\ MaxPid \in Nat \ {0}
    /\ NULL \notin Nat
    /\ NULL \notin VmType
    /\ NULL \notin StoreType
    /\ NULL \notin [Addr -> Vals]

\* The variables stay in their types.
TypeOK ==
    /\ vm \in [Pids -> VmType \cup {NULL}]
    /\ mem \in [Phys -> Vals]
    /\ allocated_page \subseteq 0 .. Frames - 1
    /\ store \in [Pids -> StoreType \cup {NULL}]

Live == {p \in Pids : vm[p] # NULL}

\* a is an address of a section of v, on a page that v may write.
Private(v, a) ==
    /\ v.pgd_valid[PageOf(a)] # "INVALID"
    /\ \E i \in DOMAIN v.vm_area : v.vm_area[i].start <= a /\ a < v.vm_area[i].end
    /\ AreaOf(v, a).prot # "RONLY"

\* Process p maps page pg to a physical page of its own right.
Maps(p, pg) == vm[p].pgd_valid[pg] # "INVALID" /\ vm[p].pgd[pg] # NULL

\* The pages of p that share their physical page with a page of another process.
Shared(p) ==
    {x \in Pages : \E q \in Live \ {p} : \E y \in Pages :
        Maps(p, x) /\ Maps(q, y) /\ vm[p].pgd[x] = vm[q].pgd[y]}

\* Copy-on-write protects what it shares ("It also handlers circumstances of
\* copy-on-writes", README.md): as long as two processes map the same physical
\* page, a store of either of them to a private address on it copies first.
SharedProtected ==
    \A p \in Live : \A a \in Addr :
        PageOf(a) \in Shared(p) /\ Private(vm[p], a) => MustCopy(vm[p], a)

\* No process maps a physical page that could be handed out once more.
MappedAllocated ==
    \A p \in Live : \A pg \in Pages : Maps(p, pg) => vm[p].pgd[pg] \in allocated_page

\* execve leaves a process with no page, other than its arguments, that
\* another process maps too.
ExecveUnshares ==
    [][\A p \in Live :
         vm'[p].vm_area # vm[p].vm_area /\ (\A q \in Live \ {p} : vm'[q] = vm[q])
             /\ (\A q \in Pids : vm'[q] # NULL => vm[q] # NULL) =>
           \A x \in {pg \in Pages : pg < ArgsStart} : x \notin Shared(p)']_vars

\* VirtualMemory implements AddressSpaces: what a process reads at its private
\* addresses depends on its own stores, forks and execves only.
Spaces == INSTANCE AddressSpaces WITH
    Args <- ArgsStart .. ArgsEnd - 1,
    NoSpace <- NULL,
    space <- [p \in Pids |->
                IF vm[p] = NULL THEN NULL
                ELSE [a \in Addr |-> IF Private(vm[p], a)
                                     THEN mem[PhyAddr(vm[p], a)] ELSE 0]]

SpacesSpec == Spaces!Spec

=============================================================================
