----------------------------- MODULE MainWindow -----------------------------
(***************************************************************************)
(* The main window over the machine: the run and step buttons and the      *)
(* autorun loop (mainwindow.cpp), the view of one core and what the user   *)
(* does through it (hardwareui.cpp, y86ui.cpp).                            *)
(*                                                                         *)
(* autorun_handler lets Qt process events while it waits, so every handler *)
(* can run inside it, and the run button can start it once more inside     *)
(* itself: depth is the number of autorun_handlers on the stack.  A clock  *)
(* processes no events.  What the kernel does in one is ProcessTable, of   *)
(* which Kernel is an implementation.                                      *)
(***************************************************************************)
EXTENDS Integers

CONSTANTS
    Pids,      \* the processes
    MaxCpu,    \* bound: CPUs the user adds
    MaxCore,   \* MAX_CORE of cpu.h, cores per CPU
    MaxDepth,  \* bound: autorun_handlers inside one another
    JUNK,      \* the contents of a pointer that was never set
    NULL

Cpus == 0 .. MaxCpu - 1
CoreIds == Cpus \X (0 .. MaxCore - 1)

ASSUME WindowAssumption ==
    /\ {MaxCpu, MaxCore, MaxDepth} \subseteq Nat \ {0}
    /\ {JUNK, NULL} \cap (Pids \cup CoreIds) = {}
    /\ JUNK # NULL

VARIABLES
    life, runs, awaits,  \* the machine, as in ProcessTable
    corenum,     \* corenum[i]: cores of CPU i, 0 when there is no CPU i
    current,     \* current_cpu_id and current_core_num: the core on display
    current_vm,  \* the pid the pointer of that name stands for, NULL or JUNK
    running,     \* is the run button on?
    speed,       \* the number in s_speed when it was pressed: 0 or more
    depth,       \* the autorun_handlers that have not returned
    phase,       \* who has control: "events", a clock from "step" or from
                 \* "loop", or nobody, "crashed"
    stop         \* history: depth when run was switched off, and how many
                 \* clocks the loop has taken since, up to MaxDepth + 1

machine == <<life, runs, awaits>>
view == <<current, current_vm>>
loop == <<running, speed, depth, stop>>
vars == <<machine, corenum, view, loop, phase>>

Table == INSTANCE ProcessTable WITH Slots <- CoreIds

Cores == {c \in CoreIds : c[2] < corenum[c[1]]}

\* Kernel::init and MainWindow::startup.  current_vm is not initialised.
Init ==
    /\ Table!Init
    /\ runs[<<0, 0>>] # NULL
    /\ corenum = [i \in Cpus |-> IF i = 0 THEN 1 ELSE 0]
    /\ current = NULL
    /\ current_vm = JUNK
    /\ running = FALSE
    /\ speed = 1
    /\ depth = 0
    /\ phase = "events"
    /\ stop = [depth |-> 0, clocks |-> 0]

-----------------------------------------------------------------------------
(* The run button and the loop.                                            *)

\* Slip: the body of the loop comes before its test, in a handler that is
\* started to switch running off as well.
EntersAlways == depth' = depth + 1

\* autorun_handler returns at once when running has been switched off.
Enters == depth' = IF running' THEN depth + 1 ELSE depth

\* on_b_run_clicked.  The button toggles, whatever called the event loop.
PressRun ==
    /\ phase = "events"
    /\ running \/ depth < MaxDepth
    /\ running' = ~ running
    /\ speed' \in {0, 1}
    /\ Enters
    /\ stop' = IF running THEN [depth |-> depth, clocks |-> 0] ELSE stop
    /\ UNCHANGED <<machine, corenum, view, phase>>

\* on_step_clicked
PressStep ==
    /\ phase = "events"
    /\ phase' = "step"
    /\ UNCHANGED <<machine, corenum, view, loop>>

\* The innermost autorun_handler has waited long enough and calls clk().  With
\* a speed of 0 no time is long enough.
Tick ==
    /\ phase = "events"
    /\ depth > 0
    /\ speed > 0
    /\ phase' = "loop"
    /\ stop' = IF running \/ stop.clocks > MaxDepth THEN stop
               ELSE [stop EXCEPT !.clocks = @ + 1]
    /\ UNCHANGED <<machine, corenum, view, running, speed, depth>>

-----------------------------------------------------------------------------
(* A clock.                                                                *)

\* Kernel::cycle, on the cores there are.
Machine ==
    /\ phase \in {"step", "loop"}
    /\ Table!Next
    /\ \A c \in CoreIds \ Cores : runs'[c] = NULL
    /\ UNCHANGED <<corenum, view, loop, phase>>

\* Slip: current_vm stays what it was when the core was chosen.
ViewedOnce == UNCHANGED current_vm

\* cpu_viewer: nothing changes if no core, or an idle one, is on display.
Viewed ==
    current_vm' = IF current # NULL /\ runs[current] # NULL
                  THEN runs[current] ELSE current_vm

\* Slips: a step takes a loop off the stack too; the loop is left while it
\* should go on, or goes on when it should be left.
LeavesStep == depth' = IF ~ running THEN depth - 1 ELSE depth

LeavesRunning == depth' = IF phase = "loop" THEN depth - 1 ELSE depth

LeavesNever == depth' = depth

\* After its clock a loop that finds running switched off is left.
Leaves == depth' = IF phase = "loop" /\ ~ running THEN depth - 1 ELSE depth

\* The end of clk(): cycle_ui, and back to whoever called it.
CycleUi ==
    /\ phase \in {"step", "loop"}
    /\ Viewed
    /\ Leaves
    /\ phase' = "events"
    /\ UNCHANGED <<machine, corenum, current, running, speed, stop>>

-----------------------------------------------------------------------------
(* The hardware and its view.                                              *)

\* alter_cpu_core_view: a double click on one of the cores.
ShowCore ==
    /\ phase = "events"
    /\ \E c \in Cores : current' = c /\ current_vm' = runs[c]
    /\ UNCHANGED <<machine, corenum, loop, phase>>

AddCpu ==
    /\ phase = "events"
    /\ \E i \in Cpus :
         /\ corenum[i] = 0
         /\ \A j \in Cpus : j < i => corenum[j] > 0
         /\ corenum' = [corenum EXCEPT ![i] = 1]
    /\ UNCHANGED <<machine, view, loop, phase>>

\* on_b_add_core_clicked: current_vm->cpu->add_core().  cpu is set while a
\* process runs only.
AddCore ==
    /\ phase = "events"
    /\ \E c \in CoreIds :
         /\ runs[c] = current_vm
         /\ runs[c] # NULL
         /\ corenum[c[1]] < MaxCore
         /\ corenum' = [corenum EXCEPT ![c[1]] = @ + 1]
    /\ UNCHANGED <<machine, view, loop, phase>>

\* on_b_add_core_clicked and show_addr_slot (which reads a byte through
\* current_vm) when there is no process behind the pointer, or none that runs.
Crash ==
    /\ phase = "events"
    /\ \A c \in CoreIds : runs[c] = current_vm => runs[c] = NULL
    /\ phase' = "crashed"
    /\ UNCHANGED <<machine, corenum, view, loop>>

-----------------------------------------------------------------------------

Next ==
    \/ PressRun
    \/ PressStep
    \/ Tick
    \/ Machine
    \/ CycleUi
    \/ ShowCore
    \/ AddCpu
    \/ AddCore
    \/ Crash

\* A clock ends.  The loop reads the time again after every round of events,
\* so it calls clk() however often the user has the event loop do other things.
Fairness == WF_vars(CycleUi) /\ SF_vars(Tick)

Spec == Init /\ [][Next]_vars /\ Fairness

-----------------------------------------------------------------------------
(* Properties.                                                             *)

\* The variables stay in their types.
TypeOK ==
    /\ life \in [Pids -> {"none", "ready", "running", "dead"}]
    /\ runs \in [CoreIds -> Pids \cup {NULL}]
    /\ awaits \in [Pids -> Pids \cup {NULL}]
    /\ corenum \in [Cpus -> 0 .. MaxCore]
    /\ current \in CoreIds \cup {NULL}
    /\ current_vm \in Pids \cup {NULL, JUNK}
    /\ running \in BOOLEAN
    /\ speed \in {0, 1}
    /\ depth \in 0 .. MaxDepth
    /\ phase \in {"events", "step", "loop", "crashed"}
    /\ stop \in [depth : 0 .. MaxDepth, clocks : 0 .. MaxDepth + 1]

\* Once run is switched off the machine takes at most one more clock by itself
\* for each autorun_handler that was on the stack (usually one), and with none
\* left it takes no more; while run is on there is one.
StopBound ==
    /\ ~ running => stop.clocks <= stop.depth
    /\ running => depth > 0

\* As long as the core on display is busy the buttons act on what is displayed:
\* a core is added to its CPU, and the pointer behind the view is good.
ActsOnDisplay ==
    [][current # NULL /\ runs[current] # NULL =>
         /\ phase' # "crashed"
         /\ \A i \in Cpus : corenum[i] > 0 /\ corenum'[i] # corenum[i] =>
              i = current[1]]_vars

\* Switching run off stops the machine: every autorun_handler returns, unless
\* the speed is 0, with which the one that waits never ends.
StopEnds ==
    ~ running /\ speed > 0 ~> depth = 0 \/ running \/ speed = 0 \/ phase = "crashed"

\* While run is on the machine takes one clock after the other.
RunsOn ==
    running /\ speed > 0 ~>
        phase = "loop" \/ ~ running \/ speed = 0 \/ phase = "crashed"

=============================================================================
