------------------------------- MODULE Kernel -------------------------------
(***************************************************************************)
(* The process side of the Y86 kernel: Kernel::cycle with the core threads *)
(* it starts and joins, the handling of their status, the accounting and   *)
(* Kernel::arrange (kernel.cpp), the process system calls exit, fork,      *)
(* execve and waitpid (ysyscall.cpp), and the two buttons that add         *)
(* hardware between two cycles (mainwindow.cpp).                           *)
(*                                                                         *)
(* A VM is a process, as in the code.  pid_set[p] is the VM record, core[c]*)
(* the Core object.  pc says which loop of cycle() is executing and todo   *)
(* which cores that loop has still to visit.  What a core does in a clock  *)
(* is left open (Core::single_run): it leaves some registers behind and a  *)
(* status.  VM contents, files and the system calls on them are elsewhere. *)
(***************************************************************************)
EXTENDS Integers, FiniteSets

CONSTANTS
    MaxPid,       \* bound: fork hands out the pids 1 .. MaxPid
    MaxCpu,       \* bound: CPUs the user adds
    MaxCore,      \* MAX_CORE of cpu.h, cores per CPU
    Quantum,      \* clocks a process may run while others wait, 50 in arrange()
    StopCap,      \* bound: pid_stop_time saturates here
    DrainMax,     \* clocks from signal_suspend to a status at W (CoreStatus)
    RegVals,      \* contents of the registers other than %eax
    InitReg,      \* what Core::init and context_switch leave in them
    CcVals,       \* values of the flags ZF, SF, OF
    InitCc,       \* ZF = 1, SF = OF = 0, the flags after Core::init
    EraseMayTrap, \* may the walk over an erased map node fault?
    NULL

Pids == 1 .. MaxPid
Cpus == 0 .. MaxCpu - 1
CoreIds == Cpus \X (0 .. MaxCore - 1)
Status == {"none", "R", "S", "T"}
Stat == {"AOK", "SYS", "SPD", "FLT"}
WaitArgs == {-1} \cup Pids

ASSUME KernelAssumption ==
    /\ MaxPid \in Nat \ {0}
    /\ MaxCpu \in Nat \ {0}
    /\ MaxCore \in Nat \ {0}
    /\ Quantum \in Nat
    /\ StopCap \in Nat
    /\ DrainMax \in Nat \ {0}
    /\ InitReg \in RegVals
    /\ InitCc \in CcVals
    /\ EraseMayTrap \in BOOLEAN
    /\ NULL \notin Pids
    /\ NULL \notin CoreIds

VARIABLES
    pc,        \* "idle", "run", "handle", "arrange", or "trapped"
    todo,      \* cores the current loop of cycle() has still to visit
    corenum,   \* corenum[i]: cores of CPU i, 0 when there is no CPU i
    core,      \* core[c]: the Core object
    pid_set,   \* pid_set[p]: the VM with pid p, with its two time counters
    waiting,   \* the local vector of arrange(), as the set left to place
    arch       \* history: the registers and flags process p computed last

vars == <<pc, todo, corenum, core, pid_set, waiting, arch>>

ArchType == [reg : RegVals, cc : CcVals]

VmType == [status : Status, cpu : CoreIds \cup {NULL}, waiting_pid : WaitArgs,
           saved : BOOLEAN, saved_reg : RegVals,
           run : 0 .. Quantum + 1, stop : 0 .. StopCap]
CoreType == [vm : Pids \cup {NULL}, stat : Stat, signal : BOOLEAN,
             drain : 0 .. DrainMax, REG : RegVals, cc : CcVals]

-----------------------------------------------------------------------------
(* Hardware.                                                               *)

\* The cores that exist.
Cores == {c \in CoreIds : c[2] < corenum[c[1]]}

Busy == {c \in Cores : core[c].vm # NULL}

\* Slip: the loop of arrange() bounded by MAX_CORE instead of corenum.
IdleBeyondCorenum == {c \in CoreIds : core[c].vm = NULL}

Idle == {c \in Cores : core[c].vm = NULL}

\* The loops visit the CPUs in order and the cores of each in order.
Before(c, d) == c[1] < d[1] \/ (c[1] = d[1] /\ c[2] < d[2])

IsFirst(c, S) == c \in S /\ \A d \in S \ {c} : Before(c, d)

\* Core::init, after which nothing of the previous process is left.
InitCore == [vm |-> NULL, stat |-> "AOK", signal |-> FALSE, drain |-> 0,
             REG |-> InitReg, cc |-> InitCc]

InitArch == [reg |-> InitReg, cc |-> InitCc]

-----------------------------------------------------------------------------
(* Processes.                                                              *)

\* Slips: a process waited for counts as alive only while it runs, and a dead
\* one goes on stalling its waiter.
StalledByRunning(p) ==
    LET w == pid_set[p].waiting_pid
    IN  w > 0 /\ pid_set[w].status = "R"

StalledByDead(p) ==
    LET w == pid_set[p].waiting_pid
    IN  w > 0 /\ pid_set[w].status # "none"

\* waitpid_stall
Stalled(p) ==
    LET w == pid_set[p].waiting_pid
    IN  w > 0 /\ pid_set[w].status \notin {"none", "T"}

\* No entry in pid_set yet.
NoVm == [status |-> "none", cpu |-> NULL, waiting_pid |-> -1, saved |-> FALSE,
         saved_reg |-> InitReg, run |-> 0, stop |-> 0]

\* Slip: the registers are not copied to the VM.
SuspendedUnsaved(v, r) ==
    [v EXCEPT !.status = "S", !.cpu = NULL, !.saved = TRUE, !.run = 0]

\* suspend(): the registers go to the VM and the run time is erased.  An
\* erased time and a time of 0 are read alike, by the accounting and by
\* arrange() (operator[]), so both are 0 here.
Suspended(v, r) ==
    [v EXCEPT !.status = "S", !.cpu = NULL, !.saved = TRUE, !.saved_reg = r,
              !.run = 0]

\* terminate(): both times are erased.
Terminated(v) ==
    [v EXCEPT !.status = "T", !.cpu = NULL, !.run = 0, !.stop = 0]

\* Slip: yfork() leaves the status it copied.
ForkedRunning(v) ==
    [v EXCEPT !.saved = TRUE, !.run = 0, !.stop = 0]

\* The VM yfork() and the handler make from the parent's: a copy of the VM,
\* registers, waiting_pid, cpu pointer and all, with no time entry of its own.
\* saved_reg holds the registers of the parent's last suspension.
Forked(v) ==
    [v EXCEPT !.status = "S", !.saved = TRUE, !.run = 0, !.stop = 0]

\* context_switch(): the VM's side and the core's.
Started(v, c) ==
    [v EXCEPT !.status = "R", !.cpu = c, !.saved = FALSE, !.run = 0, !.stop = 0]

Loaded(v, p) ==
    [InitCore EXCEPT !.vm = p, !.REG = IF v.saved THEN v.saved_reg ELSE InitReg]

\* yfork() takes the smallest pid that was never used.
IsNewPid(q) ==
    /\ pid_set[q].status = "none"
    /\ \A r \in Pids : r < q => pid_set[r].status # "none"

-----------------------------------------------------------------------------
(* Kernel::init and MainWindow::startup: one CPU with one core, on which   *)
(* process 1 is placed.  Its saved_reg is not initialised.                 *)

Init ==
    /\ pc = "idle"
    /\ todo = {}
    /\ corenum = [i \in Cpus |-> IF i = 0 THEN 1 ELSE 0]
    /\ \E r \in RegVals :
         pid_set = [p \in Pids |->
                      IF p = 1 THEN [Started(NoVm, <<0, 0>>) EXCEPT !.saved_reg = r]
                               ELSE NoVm]
    /\ core = [c \in CoreIds |-> IF c = <<0, 0>> THEN Loaded(NoVm, 1) ELSE InitCore]
    /\ waiting = {}
    /\ arch = [p \in Pids |-> InitArch]

-----------------------------------------------------------------------------
(* First loop of cycle(): one thread per busy core, then the joins.        *)

StartThreads ==
    /\ pc = "idle"
    /\ pc' = "run"
    /\ todo' = Busy
    /\ UNCHANGED <<corenum, core, pid_set, waiting, arch>>

\* How long a request to suspend has been in the pipe of core k.
Drain(k) ==
    IF k.signal \/ k.drain > 0
    THEN IF k.drain < DrainMax THEN k.drain + 1 ELSE DrainMax
    ELSE 0

\* The status a clock may leave at stage W: a request in the pipe comes out
\* as SSPD, unless a system call or a fault comes out first.
StatAfter(k) ==
    {"SYS", "FLT"} \cup (IF Drain(k) > 0 THEN {"SPD"} ELSE {})
                   \cup (IF Drain(k) < DrainMax THEN {"AOK"} ELSE {})

\* Core::single_run in the thread of core c.
RunCore(c) ==
    /\ pc = "run"
    /\ c \in todo
    /\ todo' = todo \ {c}
    /\ \E s \in StatAfter(core[c]), r \in RegVals, f \in CcVals :
         /\ core' = [core EXCEPT ![c] =
                       [@ EXCEPT !.stat = s, !.REG = r, !.cc = f, !.signal = FALSE,
                                 !.drain = Drain(core[c])]]
         /\ arch' = [arch EXCEPT ![core[c].vm] = [reg |-> r, cc |-> f]]
    /\ UNCHANGED <<pc, corenum, pid_set, waiting>>

\* Slip: the second loop does nothing about a fault.
JoinThreadsNoFaults ==
    /\ pc = "run"
    /\ todo = {}
    /\ pc' = "handle"
    /\ todo' = {c \in Busy : core[c].stat \in {"SYS", "SPD"}}
    /\ UNCHANGED <<corenum, core, pid_set, waiting, arch>>

\* All threads are joined.  The second loop acts on the cores whose status
\* asks for it; what it does to one core changes neither vm nor stat of another.
JoinThreads ==
    /\ pc = "run"
    /\ todo = {}
    /\ pc' = "handle"
    /\ todo' = {c \in Busy : core[c].stat # "AOK"}
    /\ UNCHANGED <<corenum, core, pid_set, waiting, arch>>

-----------------------------------------------------------------------------
(* Second loop of cycle(): the cores in order, each by its status.         *)

AtCore(c, s) ==
    /\ pc = "handle"
    /\ IsFirst(c, todo)
    /\ core[c].stat = s
    /\ todo' = todo \ {c}
    /\ UNCHANGED <<pc, corenum, waiting>>

\* suspend(core->vm), at the end of every system call but exit.
SuspendOn(c) == core' = [core EXCEPT ![c].vm = NULL]

HandleExit(c) ==
    /\ AtCore(c, "SYS")
    /\ pid_set' = [pid_set EXCEPT ![core[c].vm] = Terminated(@)]
    /\ core' = [core EXCEPT ![c].vm = NULL]
    /\ UNCHANGED arch

HandleFork(c) ==
    LET p == core[c].vm IN
    /\ AtCore(c, "SYS")
    /\ \E q \in Pids :
         /\ IsNewPid(q)
         /\ pid_set' = [pid_set EXCEPT ![p] = Suspended(@, core[c].REG),
                                       ![q] = Forked(pid_set[p])]
         /\ arch' = [arch EXCEPT ![q] = [reg |-> pid_set[p].saved_reg,
                                         cc |-> core[c].cc]]
    /\ SuspendOn(c)

\* A successful execve: the core is initialised before the VM is suspended.
HandleExecve(c) ==
    LET p == core[c].vm IN
    /\ AtCore(c, "SYS")
    /\ pid_set' = [pid_set EXCEPT ![p] = Suspended(@, InitReg)]
    /\ core' = [core EXCEPT ![c] = InitCore]
    /\ arch' = [arch EXCEPT ![p] = InitArch]

HandleWaitpid(c) ==
    LET p == core[c].vm IN
    /\ AtCore(c, "SYS")
    /\ \E w \in WaitArgs :
         pid_set' = [pid_set EXCEPT ![p] =
                       [Suspended(@, core[c].REG) EXCEPT !.waiting_pid = w]]
    /\ SuspendOn(c)
    /\ UNCHANGED arch

\* open, read, write, an execve of a file that is not there and an unknown
\* number touch %eax at most; a core that reports SSPD makes no call at all.
HandleSuspend(c) ==
    LET p == core[c].vm IN
    /\ AtCore(c, "SYS") \/ AtCore(c, "SPD")
    /\ pid_set' = [pid_set EXCEPT ![p] = Suspended(@, core[c].REG)]
    /\ SuspendOn(c)
    /\ UNCHANGED arch

HandleFault(c) ==
    /\ AtCore(c, "FLT")
    /\ pid_set' = [pid_set EXCEPT ![core[c].vm] = Terminated(@)]
    /\ core' = [core EXCEPT ![c].vm = NULL]
    /\ UNCHANGED arch

Handle(c) ==
    \/ HandleExit(c)
    \/ HandleFork(c)
    \/ HandleExecve(c)
    \/ HandleWaitpid(c)
    \/ HandleSuspend(c)
    \/ HandleFault(c)

\* suspend() and terminate() erase a map node and then step the iterator
\* that pointed to it.  The walk may go on, as in the actions above, or the
\* program may fault, and with it everything ends.
EraseTrap ==
    /\ EraseMayTrap
    /\ pc = "handle"
    /\ todo # {}
    /\ pc' = "trapped"
    /\ UNCHANGED <<todo, corenum, core, pid_set, waiting, arch>>

-----------------------------------------------------------------------------
(* The accounting at the end of cycle() and arrange().                     *)

Bump(n, cap) == IF n < cap THEN n + 1 ELSE cap

\* One more clock for a VM that runs or rests.  Only "> Quantum" is read of
\* the run time, so it saturates just above.
Timed(v) ==
    IF v.status = "R" THEN [v EXCEPT !.run = Bump(@, Quantum + 1)]
    ELSE IF v.status = "S" THEN [v EXCEPT !.stop = Bump(@, StopCap)]
    ELSE v

\* The processes arrange() collects: resting and not stalled.
Ready == {p \in Pids : pid_set[p].status = "S" /\ ~Stalled(p)}

Account ==
    /\ pc = "handle"
    /\ todo = {}
    /\ pid_set' = [p \in Pids |-> Timed(pid_set[p])]
    /\ waiting' = Ready
    /\ todo' = Idle
    /\ pc' = "arrange"
    /\ UNCHANGED <<corenum, core, arch>>

\* Slip: the sort the wrong way round.
ShortestResting(p, S) == \A q \in S : pid_set[p].stop <= pid_set[q].stop

\* The selection sort puts the longest-resting process first; ties fall as
\* its swaps leave them, and any of them may be next here.
LongestResting(p, S) == \A q \in S : pid_set[p].stop >= pid_set[q].stop

\* The next free core takes the next process: context_switch(NULL, p, c).
Dispatch(c, p) ==
    /\ pc = "arrange"
    /\ IsFirst(c, todo)
    /\ p \in waiting
    /\ LongestResting(p, waiting)
    /\ pid_set' = [pid_set EXCEPT ![p] = Started(@, c)]
    /\ core' = [core EXCEPT ![c] = Loaded(pid_set[p], p)]
    /\ todo' = todo \ {c}
    /\ waiting' = waiting \ {p}
    /\ UNCHANGED <<pc, corenum, arch>>

\* Slip: arrange() gives up after the first CPU.
ArrangeFirstCpu ==
    /\ pc = "arrange"
    /\ waiting = {} \/ \A c \in todo : c[1] > 0
    /\ pc' = "idle"
    /\ todo' = {}
    /\ waiting' = {}
    /\ UNCHANGED <<corenum, core, pid_set, arch>>

\* arrange() returns as soon as everybody is placed.
ArrangeDone ==
    /\ pc = "arrange"
    /\ waiting = {}
    /\ pc' = "idle"
    /\ todo' = {}
    /\ UNCHANGED <<corenum, core, pid_set, waiting, arch>>

\* Slip: the test of the run time one clock early.
OverrunEarly(v) == v.status = "R" /\ v.run >= Quantum

Overrun(v) == v.status = "R" /\ v.run > Quantum

\* With every core taken and somebody still waiting, it asks each process
\* past its quantum to suspend.
SignalOverrun ==
    /\ pc = "arrange"
    /\ todo = {}
    /\ waiting # {}
    /\ core' = [c \in CoreIds |->
                  IF \E p \in Pids : Overrun(pid_set[p]) /\ pid_set[p].cpu = c
                  THEN [core[c] EXCEPT !.signal = TRUE] ELSE core[c]]
    /\ pc' = "idle"
    /\ waiting' = {}
    /\ UNCHANGED <<todo, corenum, pid_set, arch>>

-----------------------------------------------------------------------------
(* The user, between two cycles.                                           *)

AddCpu ==
    /\ pc = "idle"
    /\ \E i \in Cpus :
         /\ corenum[i] = 0
         /\ \A j \in Cpus : j < i => corenum[j] > 0
         /\ corenum' = [corenum EXCEPT ![i] = 1]
    /\ UNCHANGED <<pc, todo, core, pid_set, waiting, arch>>

\* The core goes to the CPU of the process on display, which must be running.
AddCore ==
    /\ pc = "idle"
    /\ \E c \in Busy :
         /\ corenum[c[1]] < MaxCore
         /\ corenum' = [corenum EXCEPT ![c[1]] = @ + 1]
    /\ UNCHANGED <<pc, todo, core, pid_set, waiting, arch>>

-----------------------------------------------------------------------------

Cycle ==
    \/ StartThreads
    \/ JoinThreads
    \/ Account
    \/ ArrangeDone
    \/ SignalOverrun
    \/ EraseTrap
    \/ \E c \in CoreIds :
         \/ RunCore(c)
         \/ Handle(c)
         \/ \E p \in Pids : Dispatch(c, p)

User == AddCpu \/ AddCore

Next == Cycle \/ User

Spec == Init /\ [][Next]_vars

\* autorun_handler calls clk() again and again, and the threads it joins run
\* a fixed number of stages: the cycle goes on.  The user need not do anything.
Fairness == WF_vars(Cycle)

-----------------------------------------------------------------------------
(* Properties.                                                             *)

\* The variables stay in their types.
TypeOK ==
    /\ pc \in {"idle", "run", "handle", "arrange", "trapped"}
    /\ todo \subseteq Cores
    /\ corenum \in [Cpus -> 0 .. MaxCore]
    /\ core \in [CoreIds -> CoreType]
    /\ pid_set \in [Pids -> VmType]
    /\ waiting \subseteq Pids
    /\ arch \in [Pids -> ArchType]

\* A process that runs is on exactly the core its VM names, that core exists
\* and runs it, and no core runs a process that is not running: the two
\* pointers Core::vm and VM::cpu agree at every point of the cycle.
Placement ==
    /\ \A c \in CoreIds : core[c].vm # NULL =>
         /\ c \in Cores
         /\ pid_set[core[c].vm].status = "R"
         /\ pid_set[core[c].vm].cpu = c
    /\ \A p \in Pids : pid_set[p].status = "R" =>
         /\ pid_set[p].cpu \in CoreIds
         /\ core[pid_set[p].cpu].vm = p

\* Wherever a process's registers are kept, on its core or in its VM, they
\* are the ones it computed last: no other process and no kernel step that
\* came between has touched them.
ContextIntact ==
    \A p \in Pids :
        /\ pid_set[p].status = "R" => core[pid_set[p].cpu].REG = arch[p].reg
        /\ pid_set[p].status = "S" => 
              pid_set[p].saved /\ pid_set[p].saved_reg = arch[p].reg

\* A request to suspend only ever reaches the process it was meant for: one
\* past its quantum.
PreemptJustified ==
    \A c \in CoreIds :
        core[c].vm # NULL /\ (core[c].signal \/ core[c].drain > 0)
            => pid_set[core[c].vm].run > Quantum

\* "The kernel always tries to make best use of all cores" (README.md): when
\* arrange() is through, no core stands idle while a process is ready.
WorkConserving ==
    [][pc = "arrange" /\ pc' = "idle" =>
         \/ Ready' = {}
         \/ \A c \in Cores' : core'[c].vm # NULL]_vars

\* A process that is ready, and whose wait nobody can renew, gets a core.
NoStarvation ==
    \A p \in Pids :
        (/\ pid_set[p].status = "S"
         /\ \/ pid_set[p].waiting_pid <= 0
            \/ pid_set[pid_set[p].waiting_pid].status = "T")
            ~> pid_set[p].status = "R"

\* "The meanings of each syscalls are equal to the ones in Linux" (README.md):
\* the child of a fork starts with the registers its parent has at the call.
ForkCopiesRegisters ==
    [][\A q \in Pids :
         pid_set[q].status = "none" /\ pid_set'[q].status # "none" =>
           \E c \in Busy : /\ core'[c].vm = NULL
                           /\ pid_set'[q].saved_reg = core[c].REG]_vars

\* The same claim: a system call leaves the flags alone, and "SSPD is very
\* similar to SSYS" (README.md): the flags are part of what a process gets
\* back when it is placed on a core again.
FlagsIntact ==
    \A p \in Pids :
        pid_set[p].status = "R" => core[pid_set[p].cpu].cc = arch[p].cc

-----------------------------------------------------------------------------
(* Kernel implements ProcessTable.                                         *)

LifeOf == [none |-> "none", S |-> "ready", R |-> "running", T |-> "dead"]

Table == INSTANCE ProcessTable WITH
    Slots <- CoreIds,
    life <- [p \in Pids |-> LifeOf[pid_set[p].status]],
    runs <- [c \in CoreIds |-> core[c].vm],
    awaits <- [p \in Pids |-> IF pid_set[p].waiting_pid > 0
                               THEN pid_set[p].waiting_pid ELSE NULL]

TableSpec == Table!Spec

-----------------------------------------------------------------------------
(* Kernel drives each of its cores as CoreStatus says.                     *)

CoreOf(c) == INSTANCE CoreStatus WITH
    MaxDrain <- DrainMax,
    stat <- core[c].stat,
    asked <- core[c].signal,
    drain <- core[c].drain

\* Whatever a cycle does with the cores, none that has stopped is clocked again or
\* asked to suspend before it has the next process, and that one inherits neither a
\* status nor a request.
CoresSpec ==
    /\ \A c \in CoreIds : CoreOf(c)!Init
    /\ [][\A c \in CoreIds : [CoreOf(c)!Next]_(CoreOf(c)!vars)]_core

=============================================================================
