# A verification of the Y86 OS simulator

The program under `src/` simulates a small computer: CPUs whose cores are
five-stage Y86 pipelines, physical memory, and a kernel written in C++ that runs
Y86 processes on the cores. This directory holds TLA+ models of it, the TLC
configurations that check them on small instances, and theorems about each
of them that TLAPS proves for every instance.

Seven groups of modules stand for the parts in which a mistake is hard to find by
running the simulator; each can be read by itself.

| group | modules | code |
|---|---|---|
| processes and scheduling | `Kernel`, `KernelFair`, `ProcessTable` and `CoreStatus` (abstract), `MCKernel`, `KernelProofs` | `kernel.cpp`, `ysyscall.cpp`, `cpu.h`, `mainwindow.cpp` |
| virtual memory | `VirtualMemory`, `AddressSpaces` (abstract), `MCVirtualMemory`, `VirtualMemoryProofs`, `AddressSpacesProofs` | `vm.cpp`, `vm.h`, `mem.h`, `ysyscall.cpp` |
| loading programs | `Loader` (over `VirtualMemory`), `ELF`, `MCLoader`, `LoaderProofs` | `ysyscall.cpp`, `kernel.cpp`, `elf.h`, `vm.cpp` |
| pipeline | `Pipeline`, `Y86` (the instruction set, sequential), `CleanPrograms` (the programs they agree on), `CoreStatus` (abstract), `MCPipeline`, `PipelineProofs` | `core.cpp`, `core.h` |
| files | `Files`, `FileSystem` (abstract), `MCFiles`, `FilesProofs` | `ysyscall.cpp`, `kernel.h`, `fileui.cpp`, `y86ui.cpp` |
| main window | `MainWindow` (over `ProcessTable`), `MainWindowProofs` | `mainwindow.cpp`, `hardwareui.cpp`, `y86ui.cpp` |
| L1 cache | `L1Cache`, `L1CacheProofs` | `cache.h`, `cpu.h` |

`PROJECT.json` lists components, runs, properties, findings and hazards, and maps
every definition to the lines it translates. An operator whose comment begins with
"Slip" is not part of the model: it is a plausible mistake, put in the place of the
definition after it to see that a property notices (`mutants` in `PROJECT.json`).

## 1. Inventory

**Kernel** (`kernel.h`, `kernel.cpp`). State: `pid_set` (pid to VM), `running_set`
and the two time counters `pid_run_time` and `pid_stop_time`, the vnode list and
the open-file table. `Kernel::cycle` is one clock of the machine: it starts a
thread for every core with a process, joins them, looks at each core's status
(a system call, a fault or a suspension), does the accounting and calls
`arrange()`, which puts the longest-resting ready processes on free cores and,
if there are not enough, sets `signal_suspend` on cores whose process has run for
more than 50 clocks. *Hard:* the link between `Core::vm` and `VM::cpu` is kept by
hand in five places; registers live in the core or in the VM and are copied at
every change; requests to suspend take effect some clocks later, when the process
may have left; waiting processes may stall one another; who gets a core next
depends on a sort and on counters that are erased and recreated. *Correct* when
the pointers agree, no register is lost, requests hit the process they were meant
for, no core idles without need, and nobody ready starves.

**System calls** (`ysyscall.cpp`): exit, fork, read, write, open, waitpid, execve,
called from `cycle()` after the joins, so one at a time. All but exit end in
`suspend()`. *Hard:* fork copies a VM whose fields are those of an earlier
moment; execve rebuilds a VM whose pages are shared; a failing transfer stops half
way.

**Core and CPU** (`core.h`, `core.cpp`, `cpu.h`). State: the registers of the
pipeline F, D, E, M, W, the register file, the flags, a queue `saved_pc`,
`signal_suspend`. One operation, `single_run`: the control logic and the stages,
last to first, on shared fields. *Hard:* stalls, bubbles and forwarding interact
with statuses under way, with requests to suspend and with the queue of pcs.
*Correct* when instruction by instruction it does what the instruction set says,
and stops between two instructions with the right pc in the queue.

**Virtual memory** (`vm.h`, `vm.cpp`). State of a VM: page table `pgd`, validity
and protection of pages `pgd_valid`, areas `vm_area`. Operations: read, write
(which copies a page on the first store after a fork), allocation and release of
sections. **Physical memory** (`mem.h`): bytes and the set of pages handed out.
*Hard:* protection is kept per area and per page; areas share their end points;
core threads allocate pages at the same time. *Correct* when no process can see
another's stores.

**Files** (`kernel.h`, `vm.h`, `ysyscall.cpp`, `fileui.cpp`, `y86ui.cpp`). State:
vnodes with a buffer of 10000 bytes and a size, open-file entries with a position,
a table of 512 descriptors per VM, the position up to which the console has shown
stdout. *Hard:* positions shared between parent and child, sizes and positions
that change in different steps of one call, tables at their limits. *Correct* when
files hold what was written, at the place where it was written.

**Loading** (`ysyscall.cpp`, `kernel.cpp`, `elf.h`). Without state of its own:
`execve` reads the name of a file from the memory of the caller, looks for it in the
vnode list, takes the file apart (`ELF::parse_from_binary`) and lays out its sections
in the address space. *Hard:* offsets in the file, addresses of the assembler and
addresses in memory agree only if several lengths add up; sections are not aligned
and pages are; what is read is in the space that is being rebuilt. *Correct* when
the program of that name is there, each byte at the address of its label.

**Main window** (`mainwindow.cpp`, `hardwareui.cpp`, `y86ui.cpp`, `fileui.cpp`,
`debug.cpp`, `main.cpp`). State: `running`, `speed`, the core on display and
`current_vm`, the process on it; and how many `autorun_handler`s are on the stack.
Calls `cycle()` step by step or, in `autorun_handler`, again and again, and processes
events in between; adds CPUs and cores; imports files; types into stdin; shows stdout,
tables and logs. *Hard:* a handler runs inside another, and the pointer behind the
view is that of an earlier moment. *Correct* when the run button starts and stops the
machine and buttons act on what is displayed.

**L1 cache** (`cache.h`, `bit.*`). State: per CPU a state, a tag and a block for each
index. Constructed but bypassed: every call of it is commented out in `cpu.h`.
*Correct* when caches and memory agree in the way of MESI.

**CS:APP** (`csapp.*`): third-party wrappers. **y86-code**: an assembler in Python and
samples.

Interactions: the user interface calls the kernel; the kernel starts cores, reads
their status, and writes their registers when it places a process; cores reach
memory through CPU and VM from several threads at a time; system calls read the
core's registers and change VM, files and the process table.

`PROJECT.json` has the hazards, each at its line, with the properties that would
show it going wrong.

## 2. Processes and scheduling

**State.** `pid_set[p]` has the VM fields the scheduler uses: status, `cpu`,
`waiting_pid`, the saved registers and whether there are any, and the two time
counters. `core[c]` has `vm`, the status at stage W, `signal_suspend`, registers,
flags, and `drain`, the clocks since a request to suspend went into the pipe.
`pc` and `todo` say where `cycle()` is; `waiting` is the local vector of
`arrange()`. `arch` is history: what each process computed last.

**Actions.** `StartThreads`, `RunCore` (one thread, in any order) and `JoinThreads`
are the first loop; `HandleExit`, `HandleFork`, `HandleExecve`, `HandleWaitpid`,
`HandleSuspend` and `HandleFault` the second, in the order of cores; `Account` the
accounting and the collection of ready processes; `Dispatch`, `ArrangeDone` and
`SignalOverrun` are `arrange()`. `AddCpu` and `AddCore` happen between cycles.
`Init` is `Kernel::init` followed by `MainWindow::startup`, which places process 1.

**What stands for what.**
- What a process computes is open: any registers, flags and status, but for
  `drain`: a request comes out within `DrainMax` clocks unless another status does
  first. That a core does so is not taken on trust: `CoreStatus` states it, `Kernel`
  counts on no more (`CoresSpec`) and `Pipeline` implements it (`CoreSpec`), with 4
  for `DrainMax` and for the programs of section 5; with other programs a request may be
  lost, and arrange() makes it again. The kernel runs use 1 or 2, the theorems any number.
- An erased time and a time of 0 are read alike by `arrange()` and by the
  accounting (`operator[]`), so both are 0. The run time is only compared with the
  quantum and saturates above it; the resting time saturates at `StopCap`.
- Among processes that rest equally long any may come first: the selection sort
  leaves ties in an order of its own, one of those the model allows.
- `suspend()` and `terminate()` erase a map node and then increment an iterator to
  it. Builds differ; with `EraseMayTrap` the model includes the program's end there.
- The branch of `context_switch` for an old VM is never taken: every call passes
  NULL.

| run | instance | question |
|---|---|---|
| `kernel_safety` | 2 processes, 2 CPUs of 2 cores, 3 register contents, `EraseMayTrap` | `TypeOK`; `Placement`; `ContextIntact`; `PreemptJustified`; `WorkConserving`; `CoresSpec` |
| `kernel_service` | 3 processes, a CPU of up to 2 cores, fair cycles | `NoStarvation`; `NoSecondOvertake`; `TableSpec` |
| `kernel_fork_registers` | violated | `ForkCopiesRegisters`: the child has the registers of the call |
| `kernel_flags` | violated | `FlagsIntact`: flags survive a suspension |

The bounds are enough for what the properties are about. Two processes are a
process and the one that comes to its core after it; the second CPU and the second
cores make the loops of `cycle()` and `arrange()` go from core to core and from CPU to
CPU. Three processes, in `kernel_service`, let two compete for the core of a third
and wait for one another in chains. Three register contents tell a process's
registers from another's and from those of `Core::init`. A quantum of 2, or 1,
separates "before", "at" and "past" the quantum. In `kernel_service` resting times are told apart up
to 9; a ready process is served before that, and only one that is stalled rests
longer, after which the model lets it come before or after another such.
Deadlock is allowed where `EraseMayTrap` ends the program, and checked in
`kernel_service`.

**Fairness.** `kernel_service` assumes weak fairness of `Cycle`, all that the
program does by itself. `autorun_handler` calls `clk()` in a loop, each call is one
`cycle()`, its threads run a fixed number of stages, and nothing in it waits for
the user. Nothing is assumed of the user, nor which status a process comes to.
`NoStarvation` excepts a process waiting for one that is alive: that one may live
for ever, and a cycle of `waitpid` is a deadlock of the processes, not of the
kernel. `NoSecondOvertake`, over the history that `KernelFair` adds, says how
fair the order of service is: while a process is ready no other gets a core twice.

**Kernel and cores.** The kernel and the pipeline meet in the status at stage W, which
the kernel reads, and in `signal_suspend`, which it sets. `CoreStatus` is the contract
between the two, for one core: the kernel clocks and asks a core only as long as its
status is SAOK, and the next process finds neither a status nor a request there
(`Ask`, `Reload` and the guard of `Clock`); the core reports SSPD only if asked to, and
goes on for less than `MaxDrain` clocks after a request (`Outcomes`). `CoresSpec` says
that every core of `Kernel` keeps to it through all loops of `cycle()`, which reads a
status in one loop, takes the process away in the next and gives the core away in the
third. `CoreSpec` says the same of `Pipeline`, with all its stages between the request
and the report. What `Kernel` leaves open of a clock is thus what the pipeline may do,
and no more, as far as the status goes; registers are any in `Kernel` in any case.

## 3. Virtual memory

**State.** `vm[p]` is page table, protection and areas; `mem`, `allocated_page` as
in `mem.h`; `store[p]` the copy a process is in the middle of, between looking for
a free page and marking it. **Actions.** `Load` and `StoreByte` are `VM::read` and
`VM::write`; a store that must copy first is `BeginCopy`, `EndCopy`; `Fork` has
`yfork`'s two loops over the areas of parent and child; `Execve` is `yexecve` with
the release of the old pages and the allocation and filling of all sections.

| run | instance | question |
|---|---|---|
| `vm_spaces` | 2 processes, pages of 4 bytes, 2 byte values, 10 frames | `SharedProtected`; `SpacesSpec`: separate address spaces |
| `vm_threads` | violated | `SharedProtected` with two threads copying at once |

`vm_loader`, of the next section, checks `TypeOK`, `SharedProtected`,
`MappedAllocated` and `ExecveUnshares` over longer behaviours and larger programs.

The passing runs hold within limits that the model shows to be necessary, as it has
the code's behaviour beyond them too:

- one fork: with a third process (`MaxPid = 3`) TLC finds `SharedProtected` violated at
  the second fork of process 1, whose pages were copied after the first and are now
  shared as `RW`, because `yfork` passes over areas that are copy-on-write already
  (`ysyscall.cpp:137`);
- threads that do not copy at the same time (`vm_threads`);
- images in which no section begins within a page and ends in the next, and none ends
  with its page (see section 4);
- stores that are neither to text, which `VM::write` stores to like anything else, nor
  to the first byte of a section, which is found in the area before it.

Within them there are all the interleavings of loads, stores, fork and execve by parent
and child, with stores to the program's page and to the arguments' page, which
execve keeps. The stack page is allocated, shared, protected and released, but no run
stores to it: its rules are those of data. `Reserve` keeps execve from running when
there are not enough frames for it and for the copies that may follow;
`allocate_page` would hand out page 0 again, with 2^18 pages a limit no sample program
comes near. Pages are never freed in the code (`free_page` is empty), so the number of
frames also bounds the number of copies and of execves in a behaviour: with 10, where
every byte counts, one execve, before the copies or after the first; with the 12 of
`vm_loader` several.

## 4. Loading programs

`Loader` extends `VirtualMemory` with the names: a process stores characters to its
arguments (`Stores`, with `Copied` for a store that copies its page first), forks
(`Spawn`) and calls `execve` (`HandleExecve`), which reads the name at the address in
`%ebx` (`NameAt`: characters four addresses apart, downwards, as the assembler's shell
pushes them), takes the first file of that name (`Lookup`) and executes what `ELF`
makes of its bytes (`Parse`). `image[p]` is history: the file `p` executes. Files are
byte sequences laid out as the samples in `y86-code`: a word with the offset of the
section table, text, data, rodata, bss, and the table.

| run | instance | question |
|---|---|---|
| `vm_loader` | 2 processes, pages of 8 bytes, 12 frames, 5 files, names of one or two characters | `TypeOK`; `SharedProtected`; `MappedAllocated`; `ExecveUnshares`; `SectionsMapped`; `LabelsAreAddresses`; `ArgsNotSmashed` |

The five files have text that ends within a page, at the end of one and in the second
page, data on the page of the text or on its own, up to three pages in all, empty data,
and bss; two files have the same name, and two names begin with another. Names that
no file has are written too. Programs grow and shrink from one execve to the next, so
pages that were released are allocated again. `LabelsAreAddresses` compares memory
with the file itself, not with what `Parse` made of it, so that the four nops, the
offset of the text and the order of sections have to fit together.

The run leaves out three kinds of files, with which the code, and with it the model,
does not do what the properties say. Each can be seen by putting one of them in the
place of a file of `Fitting`, or of the start-up script:

- a data or bss section that begins within a page and ends in the next:
  `allocate_section` steps from its start by pages and asks for one address within a
  page, which `allocate_page_pte` refuses (`File(3, 4, 0, 0)`); `VM::write` stores the bytes all the same,
  to physical page 0, the program of process 1 (`vm.cpp:42`; `SectionsMapped`). The
  README's limit for a file is 10 kB, more than two pages;
- data or bss that ends with its page: fork marks the page behind it as valid, without
  an entry in the page table (`ysyscall.cpp:141`), and a later execve of a longer program
  allocates none there and writes to physical page 0 (a start-up script
  `File(3, 1, 0, 0)`; `ExecveUnshares`, `LabelsAreAddresses`);
- files with rodata: it is parsed and zeroed but never loaded, and the addresses of bss
  are off by its length (`kernel.cpp:340`, `File(0, 1, 2, 1)`; `LabelsAreAddresses`).

## 5. Pipeline

**State.** `core` has the fields of `core.h` under their names, capital letters for
the registers of the pipe and small ones for the signals. `mem` is the stack.
`isa` is the sequential machine of `Y86`, which takes a step each time an
instruction reaches W; `tag` fields carry the address an instruction was fetched
from; `age` counts the clocks since the first request to suspend. These
three are history. **Actions.** `Clock` is `single_run`: `PipeLogic`, then the
stages from `StageW` to `StageF`, each on what the others have left, as in the
code. `Signal` is the request of `arrange()`, which may be repeated every clock.
`Resume` is the kernel's handling of the call or suspension and the later
`context_switch`.

| run | programs | question |
|---|---|---|
| `pipe_programs` | 14^4 programs without system calls, 10^4 with them, a function, and 7^4 without bubbles; those of the last kind asked to suspend at any clock | `TypeOK`; `RegistersExact`; `StopPrecise`; `StatusReported`; `ResumesNext`; `SuspendInTime`; `InOrder`; `CoreSpec` |

Words have four bits and the stack four of them, so that overflow, an address out
of range and wrap-around happen within four instructions. Four instructions are
enough to bring every pair of a producer and a consumer at every distance at which
the pipeline forwards or stalls, and every jump, call and return with what it
squashes; memory behind the program reads as `halt`, as zeroed memory does. Some
programs are left out of `pipe_programs` because the code, and with it the model,
does not do what the properties say. Those that are left meet `Clean`, the hypothesis of
the theorems of section 9, which TLC evaluates at the start of the run:

- `jge`, which compares SF with ZF (`core.cpp:89`);
- `leave` followed by an instruction that reads `%ebp`: `ILEAVE` is missing where
  `PipeLogic` lists the loads that make E a bubble (`core.cpp:226`), and the
  instruction behind runs twice;
- a system call that is fetched in vain, behind a return or a jump that is not taken:
  the queue of saved pcs then loses or keeps one too many (`core.cpp:359`, `446`);
- requests to suspend in programs that make bubbles, for the same reason
  (`core.cpp:444`);
- requests to suspend at a clock at which an instruction with a status of its own has
  just been fetched: `PipeLogic` overwrites `f_stat`, whatever it is, and the call or
  fault is lost (`core.cpp:198`; with `SYS` in `SignalAt`, and calls among the programs
  asked to suspend, TLC finds `StatusReported` violated);
- a wrong path that leaves the text section, which sets `imem_error` for good
  (`core.cpp:622`).

An instruction takes one address and a word one cell, so the split of an instruction
over pages and misaligned words are not covered.

The flags are not kept by the kernel (`kernel_flags`); `Resume` resets those of the
sequential machine too, so that this one defect does not hide the others.

## 6. Files

**State.** `vnode_list`, `open_file_table` and `fd_set` as in the code; `ret` and
`got`, the result and the bytes of the last call; `console`, the static variable
`last_pos` of `print_stdout` and the text it has appended. **Actions.** One per
system call and outcome (`Open`, `OpenOver`, `Refused`, `Read`, `Write` within
`Transfer`, `Fork`), and `Import`, `StdinReadline`, `PrintStdout` of the user
interface. `PrintStdout` runs after every cycle in the code and at any time in the
model. A system call is one step because the kernel handles it with all threads
joined. A buffer is the bytes it holds, and `room`, how many of them exist.

| run | instance | question |
|---|---|---|
| `files_safety` | 2 processes, full descriptor tables, buffers that end early | `TypeOK`; `PosInFile` |
| `files_system` | 2 processes, imports, 2 byte values | `Written`; `ConsoleShows`; `StdOpen`; `FileSystemSpec` |

Files of at most three bytes and transfers of at most two let writes end at, before
and behind the end of a file and at the limit of the buffer; three open-file
entries let two processes share two and hold one of their own, or one process open
a file twice. `files_system` leaves out two behaviours of the model under which its
properties do not hold: a write whose buffer ends early has set the size of the file
before it fails (`ysyscall.cpp:292`), and an open with a full table uses a variable
that was never set (`ysyscall.cpp:226`). `read` returns the number of bytes it has
*not* read, in the model as in the code, so no property speaks of its result. The run
uses symmetry over byte values, which is sound as no
definition tells one from another. Descriptors outside 0 .. 511 and negative
lengths, where the code reads outside its arrays, are left out. A position grows
with every write, so the state space is finite by the length of files alone.

## 7. Main window

**State.** `running`, `speed`, `current` (`current_cpu_id` and `current_core_num`) and
`current_vm` are the fields of `MainWindow`; `depth` is the number of
`autorun_handler`s that have not returned, which the code keeps on its stack;
`phase` says whether events are processed or a clock is running, and for whom;
`corenum` is what the hardware view shows; `life`, `runs`, `awaits` are the machine, as
`ProcessTable` has it, which `Kernel` implements. `stop` is history. **Actions.**
`PressRun` is `on_b_run_clicked` with the test that `autorun_handler` begins with;
`Tick` ends the wait of the innermost handler; `PressStep` is the step button. `Machine`
is what `cycle()` does to the processes, in any number of steps; `CycleUi` ends the
clock: the view is refreshed and a loop that finds `running` switched off is left.
`ShowCore`, `AddCpu`, `AddCore` are the handlers of the hardware view, and `Crash` the
uses of `current_vm` when there is no running process behind it: the pointer was
never set, is NULL, or its `cpu` is.

| run | instance | question |
|---|---|---|
| `window_loop` | 2 processes, 2 CPUs of up to 2 cores, 3 nested loops | `TypeOK`; `StopBound`; `ActsOnDisplay`; `StopEnds`; `RunsOn` |

Three loops inside one another are two that are switched off and one that runs;
the code has no bound on them. Two processes and two CPUs let the process on display
end, be suspended, or move to a core of the other CPU while its view is open. Deadlock
is allowed because the program may crash.

**Fairness.** Weak fairness of `CycleUi`: a clock ends. Strong fairness of `Tick`: the
loop reads the time again after every round of events, and time goes on, so it calls
`clk()` however often the user lets events be processed in between; strong, as a
press of the step button takes control away from the waiting loop again and again.
With a speed of 0, which the field of the window allows, `t.elapsed() * speed` never
reaches its bound: the loop does no clock and cannot be left (`mainwindow.cpp:86`).
`StopEnds` and `RunsOn` except it.

## 8. L1 cache

`L1Cache` has one index, as no operation touches lines of two: per CPU a state, a tag
and a block, and the blocks of memory with that index. `Load` is `read` and, on a miss,
`burst_load`; `Store` is `lazy_write`, in the order of the code that is commented out in
`CPU::read` and `CPU::write`. Tags and blocks hold anything at first, as they are not
initialised. `last` and `own` are history: the byte written last to an address, and
the offsets a CPU has written since it owns its line.

| run | instance | question |
|---|---|---|
| `cache_lines` | 2 caches, 2 tags, blocks of 2 bytes, 2 byte values | `TypeOK`; `SingleWriter`; `OwnWritesLast` |

Two tags let a line be evicted and loaded again, two offsets let one byte of a block be
written and the other not. That a load returns what was written last does not hold of
this code: `burst_load` writes back its own line, whatever state it is in
(`cache.h:79`), and `lazy_write` does not load the block it writes a byte of. The
properties say what is left: one writer, and its own bytes.

## 9. Theorems

`KernelProofs` proves, from `KernelAssumption` alone and so for any number of
processes, CPUs, cores and any quantum:

| theorem | statement |
|---|---|
| `TypeCorrect` | `Spec => []TypeOK` |
| `PlacementHolds` | `Spec => []Placement` |
| `ContextIntactHolds` | `Spec => []ContextIntact` |
| `PreemptJustifiedHolds` | `Spec => []PreemptJustified` |
| `WorkConservingHolds` | `Spec => WorkConserving` |
| `KernelImplementsTable` | `Spec => TableSpec` |
| `NoSecondOvertakeHolds` | `FairSpec /\ []Counted => NoSecondOvertake` |
| `KernelDrivesCores` | `Spec => CoresSpec` |

The argument rests on one inductive invariant, `Inv == TypeOK /\ LoopOK /\
Placement`. `Placement` by itself is not inductive: `Dispatch` would overwrite the
process of a core if `todo` held a busy one, or place a process that already runs.
`LoopOK` says what each loop of `cycle()` may count on: the first two visit busy
cores only; during `arrange()` `todo` is the set of idle cores, or empty because it
has been gone through, and `waiting` holds ready processes only. `HandleEffect`
describes the whole second loop in three cases (a process dies, rests, or rests and
bears another); `StepInv` has one step per action. `ContextIntact` and
`PreemptJustified` are inductive relative to `Inv`; `WorkConserving` follows from
`Inv` at the return of `arrange()`; the refinement maps every action to one of
`ProcessTable` or to a stutter.

`NoSecondOvertake` needs what the order of resting times says of the past, `FairInv`:
whoever was given a core while `p` was ready has rested less than `p` since
(`PassedBehind`), and who rests when `arrange()` sorts has been credited with this
clock, who does not rest has no resting time (`Credited`). A clock credits both or only
`p`, and `Dispatch` takes one of those that rest longest, so a process of `passed[p]`
cannot be the one it takes. `Counted` says that the resting times of the ready are
below `StopCap`, where the model stops counting. The code counts on, so the hypothesis
holds of any number of its clocks for some `StopCap`; without it two processes at the
cap are equals whichever came first. In the run the property holds without it: there
a process that was passed at the cap is served before the other has got there.

`KernelDrivesCores` needs `CoreInv`: a core with a process has a status other than SAOK
only between the clock that stopped it and its turn in the second loop, and a core that
is SAOK without a process has no request. `CoreClocks` shows that `StatAfter` of `Kernel`
and `Outcomes` of `CoreStatus` are the same sets.

`FilesProofs` proves, from `FilesAssumption`:

| theorem | statement |
|---|---|
| `FilesTypes` | `Spec => []TypeOK` |
| `PosInFileHolds` | `Spec => []PosInFile` |
| `StdOpenHolds` | `~ OverOpen => (Spec => []StdOpen)` |
| `WrittenHolds` | `~ Faults => (Spec => []Written)` |
| `ConsoleShowsHolds` | `~ Faults /\ "stdout" \notin OpenNames => (Spec => []ConsoleShows)` |
| `FilesImplementFileSystem` | `~ Faults /\ ~ OverOpen => (Spec => FileSystemSpec)` |

The hypotheses are those of the run `files_system`, and the code breaks the statement
without them: a write that fails on its way leaves a longer file of which the end was
never written (`Faults`); `open` in a process whose descriptors are all taken gives
descriptor 0 away (`OverOpen`); a program that opens `stdout` by name has an offset of
its own there and overwrites what the console has shown. The invariant is `FilesInv ==
TypeOK /\ StdFiles /\ PosInFile`: the types say of a vnode that its content has bytes
exactly up to `filesize`, `StdFiles` that the console's vnodes and entries are there. No
file has a hole because every write starts at an offset inside its file
(`PosInFile`), which is why the two are proved together. `ConsoleShows` needs
`ConsoleInv` on top: that one entry only stands for stdout, and that its offset is the
end of the file, so that writing appends. For the refinement the abstract contents of a
file are `Bytes` of its vnode; the lemmas `WholeTransfer`, `NoHole`, `BytesJoined` and
`ContentPut` relate a transfer byte by byte to one of whole sequences, and one lemma
per action maps it to an action of `FileSystem` or to a stutter.

`VirtualMemoryProofs` and `AddressSpacesProofs` prove, from
`MemoryAssumption`, `ImagesAssumption` (a program ends below the stack) and
`NullAssumption`, for any size of pages, memory and programs and any stores:

| theorem | statement |
|---|---|
| `VmTypes` | `Spec => []TypeOK` |
| `MappedAllocatedHolds` | `Spec => []MappedAllocated` |
| `ExecveUnsharesHolds` | `AllPacked` gives `Spec /\ []Room => ExecveUnshares` |
| `SharedProtectedHolds` | `AllPacked /\ ~ Threads /\ MaxPid <= 2` gives `Spec /\ []Room => []SharedProtected` |
| `SpacesHold` | `AllPacked /\ StoresOK /\ ~ Threads /\ MaxPid <= 2` gives `Spec /\ []Room => SpacesSpec` |

Each hypothesis is a limit of section 3, and the code breaks the statement beyond it.
`Room`: a physical page is free, without which `allocate_page` hands out page 0 a second
time. `AllPacked`: every byte of a program, and the one behind its end, is on a page of a
section that begins with its page; `allocate_section` gives a section that does not no
page of its own, so where this fails a byte is stored to page 0. `~ Threads`: stores that
copy do not
interleave (`vm_threads`). `MaxPid <= 2`: a third process comes from a second fork, which
passes over what is copy-on-write already. `StoresOK`: no store is to a text or the byte
behind one, which `VM::write` does not refuse, nor behind the last area. All of them hold
in the run `vm_spaces`; there TLC has also found `Room` and the whole inductive
invariant, `SpaceInv`, true of every state.

The first part of `VirtualMemoryProofs` says what `AllocateSection` and `Executed` do to page table, areas
and memory. Both are recursive functions over a sequence of pages or bytes; what they do
for every length follows from `LeastNumber`: if the set of steps behind which a fact fails
were not empty it would have a least element. `Grows(m, n)`, the heart of it, says that
pages new in `n` have physical pages that `m` had not handed out, to each its own, and
that all others keep theirs; it is transitive, so it holds of the four or five sections
together.

The inductive invariants build on one another. `VmInv`: types, areas in the order and
places that execve gives them (`AreasOK`), and every page table entry, valid or not, in
`allocated_page`; `MappedAllocated` alone is not inductive because fork makes pages valid
and `operator[]` makes entries. `LayoutInv` adds `PagesOK`: all that an area holds is on
valid, mapped pages; that is what keeps fork from making pages valid that have no entry.
`CowInv` adds `Guarded`, `SharedProtected` for every address an area holds and not only
those inside it, as the areas overlap by a byte; `AreasInv`, that no area is copy-on-write
before the first fork, and that the area of the arguments, which execve keeps with its
protection and puts first, protects what it protected; and `StoreFresh`, that the page
picked for a copy is still the first free one when the copy ends. `SpaceInv` adds
`OneFrame`, that two pages of a process are two physical pages; `TextSafe`, that it does
not store to its text; and `StoreMatches`, that the buffer of a copy is still what memory
holds. A step of another process cannot change it because the page it would have to write
is shared, and so protected. In the refinement a load and the begin of a copy are stutters,
the end of a copy and a store without one are `Store`, and execve needs `ExecutedMemory`:
the bytes it writes are on new pages, so neither the other process nor the arguments
see them.

`LoaderProofs` proves, from the same assumptions, `LoaderAssumption` and
`FilesAssumption` (a file has the bytes it is parsed from, and its program ends below the
stack), for any files, names and addresses of names:

| theorem | statement |
|---|---|
| `LoaderTypes` | `LoaderSpec => []TypeOK` |
| `LoaderMappedAllocated` | `LoaderSpec => []MappedAllocated` |
| `LoaderExecveUnshares` | `FilesPacked` gives `LoaderSpec /\ []Room => ExecveUnshares` |
| `LoaderSharedProtected` | `FilesPacked /\ ~ Threads /\ MaxPid <= 2` gives `LoaderSpec /\ []Room => []SharedProtected` |
| `SectionsMappedHolds` | `FilesPacked` gives `LoaderSpec => []SectionsMapped` |
| `ArgsNotSmashedHolds` | `FilesPacked /\ NamesFit` gives `LoaderSpec /\ []Room => ArgsNotSmashed` |
| `LabelsAreAddressesHold` | `FilesPacked`, stores to no text, `~ Threads /\ MaxPid <= 2`, and every file `Assembled`, give `LoaderSpec /\ []Room => []LabelsAreAddresses` |

`FilesPacked` is `AllPacked` of the programs in the files and of the start-up script; it
excludes the first two kinds of files that section 4 leaves out, and `Assembled` the
third: the header is one word, text, data and bss follow in this order, rodata is empty,
the table is behind. `NamesFit` says that the longest name that is read lies in the
arguments: the samples push their arguments from 0x4000fffc or 0x4000fefc downwards, and 99
characters of four bytes each end far above the beginning of that area. In `vm_loader`,
whose page of arguments is tiny, the walk goes on into the stack, which nobody stores to.
The other hypotheses hold in `vm_loader`, but that its frames can be used up; TLC has
found `LoaderInv` and `SectionsInv` true of every state of it in which `Room` holds.

Every step of `Loader` is one of `VirtualMemory` with the addresses `LoaderAddrs` and the
programs `LoaderImages`, or changes no address space (`LoaderStep`). The lemmas about virtual
memory have the two sets as parameters, so the invariants are inductive here too and
give the first four theorems. `SectionsInv` adds that the areas of a process hold every
address of its program (`InPlace`): `LayoutInv` alone knows that what an area holds is on valid
pages, not which areas a program should have. `LoaderInv` adds `Content`, that the process
reads each byte of the program where it belongs. For a step of the process itself that is
`ExecutedContent`: a section's bytes are on the pages it was given, and the sections
loaded after it write to other physical pages (`SectionKeeps`), for which the program must
have no two pages on one frame. For a step of the other process it is `CarryStep`: a frame
it may write without a copy is one it does not share. `LabelPlaces` and `LabelBytes` relate
the offsets in the file to the addresses `AllocateSection` uses. `ArgsNotSmashed` needs no
content: the arguments' area is kept with its page table entries, and new bytes are on new
pages.

`PipelineProofs` proves, from `PipelineAssumption`, `WordsAssumption` and `Clean`, for words
and stacks of any size and for programs of any length:

| theorem | statement |
|---|---|
| `PipelineTypes` | `Spec => []TypeOK` |
| `RegistersExactHolds` | `Spec => []RegistersExact` |
| `StopPreciseHolds` | `Spec => []StopPrecise` |
| `StatusReportedHolds` | `Spec => []StatusReported` |
| `ResumesNextHolds` | `Spec => []ResumesNext` |
| `InOrderHolds` | `Spec => InOrder` |
| `SuspendInTimeHolds` | `MaxAge >= 4` gives `Spec => []SuspendInTime` |
| `PipelineImplementsCore` | `MaxAge >= 4` gives `Spec => CoreSpec` |

`Clean` says of programs what section 5 says of those of the run. `Regular`: no `jge`, no use
of `%ebp` right behind `leave`, and where something is fetched in vain, behind a return or
a jump that is not taken, neither a system call nor the end of the text section. `NoBubble`,
for programs that may be asked to suspend: no return, every jump unconditional, no register
that is loaded is used. `SignalAt`: the first request comes when what is in F has no status
of its own. The code breaks the statements without them. `WordsAssumption` has three parts:
the word 1 exists, `NULL` is no number, and the bitwise operations give words; the last is
true of every width, but it is an induction over bits.

The inductive invariant, `PipeInv`, says where the sequential machine will be: `S1` is `isa`
led on by the instruction in M, `S2` by the one in E as well, `S3` by the one in D too, unless a
jump in E is found mispredicted. While the core runs, the registers are those of `isa`, memory
is that of `S1`, as stage M has written it, and the flags are those of `S2`. What M holds is the
instruction at the pc of `isa` with its results (`InM`), E holds the one at the pc of `S1` with its
operands and results there (`InE`), D the one at the pc of `S2` with its operands unless it waits
for a load (`InD`), and F has fetched from the pc of `S3` (`InF`), each only if what is ahead of it
does not stop. Four more parts make this inductive: `Slots`, what an instruction under way and
a bubble look like; `Chain`, that each stage holds what was fetched behind the next; `Saved`, that
the queue begins with the pc of the oldest call or suspension under way; and `Requests`, that
a request of age *n* is in a certain stage.

The proof goes from `ClockIs`, which composes the five stages into one description of each
field after a clock, and `StepExact`, which says what a step of `Y86` does in the terms of the
stages, `AluExact` and `CondExact` among its parts, which compare the two sets of formulas for
overflow and conditions. `Cases` splits a clock in four: a load is waited for, a jump was
mispredicted, a return is waited for, or everything moves on. `ForwardIs` is the heart of it: the
value `Forward` picks among E, M, W and the registers is that of the register in the state the
instruction is to be executed in. `PipelineImplementsCore` follows from `Requests`: a clock reports
SSPD only when the request is at least two clocks old, and SAOK only before it is four.

`MainWindowProofs` proves, from `WindowAssumption`:

| theorem | statement |
|---|---|
| `WindowTypes` | `Spec => []TypeOK` |
| `StopBoundHolds` | `Spec => []StopBound` |
| `ActsOnDisplayHolds` | `Spec => ActsOnDisplay` |

Its invariant adds three facts to the types. `Count`: while run is off, the handlers
left and the clocks taken are together no more than the handlers there were, where a
handler that has taken its clock and not returned yet counts once; `StopBound` alone says
nothing of the handlers left and is not inductive. `Fresh`: between clocks
`current_vm` is the process on the displayed core, if there is one. `OneCore`: a process
runs on one core only, so that its pointer names a core; `TableStep` shows that every
step of `ProcessTable` keeps this. The last two give `ActsOnDisplay`.

`L1CacheProofs` proves `CacheTypes`, `SingleWriterHolds` and `OwnWritesLastHolds`, that
is `[]TypeOK`, `[]SingleWriter` and `[]OwnWritesLast`, from `CacheAssumption`, for any
number of caches, tags, offsets and values. `SingleWriter` is inductive relative to the
types; `OwnWritesLast` needs `OwnersOnly`, that what is recorded of a line that is not
modified is empty.

Only model-checked: `NoStarvation`, `StopEnds` and `RunsOn`, because liveness under
fairness is out of the prover's reach.

## 10. Findings

Each violated run checks one statement of the repository's README against the
code; `PROJECT.json` quotes both. The child of a fork gets stale registers
(`kernel_fork_registers`); flags do not survive a suspension (`kernel_flags`);
copy-on-write fails when two threads copy at once (`vm_threads`). What else the models
do that a reader of the README would not expect is said with the limits of the runs in
sections 3 to 8, and with the hazards: a second fork, sections at the end of a page,
system calls lost to a request to suspend, a speed of 0.

## 11. Not modelled

- The CS:APP wrappers, which are third-party; the assembler, which is a program of its
  own; displays, tables, filters and logs, which change nothing but the window;
  conversions to and from hexadecimal text.
- Counters for display, the function stack and the debugger's view of a core.
- Arguments of execve behind the name: they are read into a buffer that nobody uses,
  and more than ten of them overflow it (`ysyscall.cpp:58`).
- The data race of two threads on the `std::map` of physical memory itself: the
  race on the page they allocate stands for it.
- Closing the window while the loop runs: what happens then is up to Qt.

## 12. Plan

Done, in the order of importance: `Kernel` with its abstract specification and
proofs, `VirtualMemory` and `Files` with theirs and both refinements, `Pipeline`,
`Loader` with `ELF`, `MainWindow` and `L1Cache` with their proofs, and `CoreStatus`,
which joins `Kernel` and `Pipeline`. What would come next: the bytes of an instruction,
which the pipeline fetches over two pages if it must, and a `Kernel` whose cores are
`Pipeline` in full, registers and memory included.
