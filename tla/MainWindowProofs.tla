-------------------------- MODULE MainWindowProofs --------------------------
(***************************************************************************)
(* Theorems about MainWindow, for any number of processes, CPUs, cores and *)
(* autorun_handlers inside one another, from WindowAssumption.             *)
(*                                                                         *)
(* StopBound rests on a count: while run is off, the handlers left and the *)
(* clocks taken are together no more than the handlers there were.  That a *)
(* button acts on what is displayed rests on the machine: a process runs   *)
(* on one core only, so its pointer names the core.                        *)
(***************************************************************************)
EXTENDS MainWindow, TLAPS

\* The types of the machine.
TableType ==
    /\ life \in [Pids -> {"none", "ready", "running", "dead"}]
    /\ runs \in [CoreIds -> Pids \cup {NULL}]
    /\ awaits \in [Pids -> Pids \cup {NULL}]

\* What runs is running, on one core.
OneCore ==
    /\ \A c \in CoreIds : runs[c] # NULL => life[runs[c]] = "running"
    /\ \A c, d \in CoreIds : runs[c] # NULL /\ runs[c] = runs[d] => c = d

-----------------------------------------------------------------------------

LEMMA NullIsNone == NULL \notin Pids /\ JUNK \notin Pids /\ NULL \notin CoreIds
  BY WindowAssumption

LEMMA Bounds == {MaxCpu, MaxCore, MaxDepth} \subseteq Nat /\ 1 <= MaxCore /\ 1 <= MaxDepth
<1>1. {MaxCpu, MaxCore, MaxDepth} \subseteq Nat \ {0}
  BY WindowAssumption
<1>2. QED
  BY <1>1

\* The machine has its types and places at the start.
LEMMA TableInit == ASSUME Table!Init PROVE TableType /\ OneCore
<1>1. PICK first \in Pids, c \in CoreIds :
        /\ life = [p \in Pids |-> IF p = first THEN "running" ELSE "none"]
        /\ runs = [d \in CoreIds |-> IF d = c THEN first ELSE NULL]
        /\ awaits = [p \in Pids |-> NULL]
  BY DEF Table!Init
<1>2. QED
  BY <1>1, NullIsNone DEF TableType, OneCore

\* and keeps them.
LEMMA TableStep ==
    ASSUME TableType, OneCore, Table!Next
    PROVE  TableType' /\ OneCore'
<1>1. PICK c \in CoreIds, p \in Pids :
        \/ Table!Start(c, p)
        \/ Table!Yield(c, p)
        \/ Table!Die(c, p)
        \/ \E q \in Pids : Table!Spawn(c, p, q)
  BY DEF Table!Next
<1>2. CASE Table!Start(c, p)
  <2>1. life[p] = "ready" /\ runs[c] = NULL
    BY <1>2 DEF Table!Start, Table!Runnable
  <2>2. \A d \in CoreIds : runs[d] # p
    BY <2>1, NullIsNone DEF OneCore
  <2>3. TableType'
    BY <1>2 DEF Table!Start, TableType
  <2>4. OneCore'
    BY <1>2, <2>1, <2>2, NullIsNone DEF Table!Start, TableType, OneCore
  <2>5. QED
    BY <2>3, <2>4
<1>3. CASE Table!Yield(c, p)
  <2>1. TableType'
    BY <1>3 DEF Table!Yield, TableType
  <2>2. OneCore'
    BY <1>3, NullIsNone DEF Table!Yield, TableType, OneCore
  <2>3. QED
    BY <2>1, <2>2
<1>4. CASE Table!Die(c, p)
  <2>1. TableType'
    BY <1>4 DEF Table!Die, TableType
  <2>2. OneCore'
    BY <1>4, NullIsNone DEF Table!Die, TableType, OneCore
  <2>3. QED
    BY <2>1, <2>2
<1>5. ASSUME NEW q \in Pids, Table!Spawn(c, p, q)
      PROVE  TableType' /\ OneCore'
  <2>1. TableType'
    BY <1>5 DEF Table!Spawn, TableType
  <2>2. OneCore'
    BY <1>5, NullIsNone DEF Table!Spawn, TableType, OneCore
  <2>3. QED
    BY <2>1, <2>2
<1>6. QED
  BY <1>1, <1>2, <1>3, <1>4, <1>5

-----------------------------------------------------------------------------

\* How many clocks of the loop have been promised and not counted yet: the
\* handlers on the stack, but for one that has taken its clock and not left.
Left == IF phase = "loop" THEN depth - 1 ELSE depth

\* The handlers left and the clocks since run was switched off.
Count ==
    /\ phase = "loop" => depth > 0
    /\ running => depth > 0
    /\ ~ running => stop.clocks + Left <= stop.depth

\* Between two clocks the view shows what is on its core.
Fresh ==
    phase = "events" /\ current # NULL /\ runs[current] # NULL =>
        current_vm = runs[current]

Inv == TypeOK /\ OneCore /\ Count /\ Fresh

LEMMA InvInit == Init => Inv
<1> SUFFICES ASSUME Init PROVE Inv
  OBVIOUS
<1>1. TableType /\ OneCore
  BY TableInit DEF Init
<1>2. TypeOK
  <2>1. corenum \in [Cpus -> 0 .. MaxCore]
    BY Bounds DEF Init
  <2>2. depth \in 0 .. MaxDepth /\ stop \in [depth : 0 .. MaxDepth, clocks : 0 .. MaxDepth + 1]
    BY Bounds DEF Init
  <2>3. QED
    BY <1>1, <2>1, <2>2 DEF Init, TypeOK, TableType
<1>3. Count
  BY DEF Init, Count, Left
<1>4. Fresh
  BY DEF Init, Fresh
<1>5. QED
  BY <1>1, <1>2, <1>3, <1>4 DEF Inv

\* One step for each action: the handlers of the run button and the loop move
\* Count, a clock and the view Fresh.
LEMMA InvStep == Inv /\ [Next]_vars => Inv'
<1> SUFFICES ASSUME Inv, [Next]_vars PROVE Inv'
  OBVIOUS
<1> USE Bounds
<1>1. CASE PressRun
  <2>1. TypeOK'
    <3>1. running' \in BOOLEAN
      BY <1>1 DEF PressRun
    <3>2. depth' \in 0 .. MaxDepth
      <4>1. CASE running
        BY <1>1, <4>1 DEF Inv, TypeOK, PressRun, Enters
      <4>2. CASE ~ running
        <5>1. depth' = depth + 1 /\ depth < MaxDepth
          BY <1>1, <4>2 DEF PressRun, Enters
        <5>2. QED
          BY <5>1 DEF Inv, TypeOK
      <4>3. QED
        BY <4>1, <4>2
    <3>3. stop' \in [depth : 0 .. MaxDepth, clocks : 0 .. MaxDepth + 1]
      BY <1>1 DEF Inv, TypeOK, PressRun
    <3>4. QED
      BY <1>1, <3>1, <3>2, <3>3 DEF Inv, TypeOK, PressRun, machine, view
  <2>2. Count'
    BY <1>1 DEF Inv, TypeOK, PressRun, Enters, Count, Left, machine, view
  <2>3. OneCore' /\ Fresh'
    BY <1>1 DEF Inv, PressRun, OneCore, Fresh, machine, view
  <2>4. QED
    BY <2>1, <2>2, <2>3 DEF Inv
<1>2. CASE PressStep
  BY <1>2 DEF Inv, TypeOK, PressStep, OneCore, Count, Left, Fresh, machine, view, loop
<1>3. CASE Tick
  <2>1. TypeOK'
    BY <1>3 DEF Inv, TypeOK, Tick, machine, view
  <2>2. Count'
    BY <1>3 DEF Inv, TypeOK, Tick, Count, Left, machine, view
  <2>3. OneCore' /\ Fresh'
    BY <1>3 DEF Inv, Tick, OneCore, Fresh, machine, view
  <2>4. QED
    BY <2>1, <2>2, <2>3 DEF Inv
<1>4. CASE Machine
  <2>1. TableType' /\ OneCore'
    BY <1>4, TableStep DEF Inv, TypeOK, TableType, Machine
  <2>2. TypeOK'
    BY <1>4, <2>1 DEF Inv, TypeOK, TableType, Machine, view, loop
  <2>3. Count' /\ Fresh'
    BY <1>4 DEF Inv, Machine, Count, Left, Fresh, view, loop
  <2>4. QED
    BY <2>1, <2>2, <2>3 DEF Inv
<1>5. CASE CycleUi
  <2>1. depth' \in 0 .. MaxDepth
    BY <1>5 DEF Inv, TypeOK, CycleUi, Leaves, Count
  <2>2. current_vm' \in Pids \cup {NULL, JUNK}
    BY <1>5 DEF Inv, TypeOK, CycleUi, Viewed
  <2>3. TypeOK'
    BY <1>5, <2>1, <2>2 DEF Inv, TypeOK, CycleUi, machine
  <2>4. Count'
    BY <1>5 DEF Inv, TypeOK, CycleUi, Leaves, Count, Left
  <2>5. OneCore' /\ Fresh'
    BY <1>5 DEF Inv, CycleUi, Viewed, OneCore, Fresh, machine
  <2>6. QED
    BY <2>3, <2>4, <2>5 DEF Inv
<1>6. CASE ShowCore
  <2>1. TypeOK'
    BY <1>6 DEF Inv, TypeOK, ShowCore, Cores, machine, loop
  <2>2. OneCore' /\ Count' /\ Fresh'
    BY <1>6 DEF Inv, ShowCore, OneCore, Count, Left, Fresh, machine, loop
  <2>3. QED
    BY <2>1, <2>2 DEF Inv
<1>7. CASE AddCpu
  <2>1. TypeOK'
    BY <1>7 DEF Inv, TypeOK, AddCpu, machine, view, loop
  <2>2. OneCore' /\ Count' /\ Fresh'
    BY <1>7 DEF Inv, AddCpu, OneCore, Count, Left, Fresh, machine, view, loop
  <2>3. QED
    BY <2>1, <2>2 DEF Inv
<1>8. CASE AddCore
  <2>1. PICK c \in CoreIds :
          /\ corenum[c[1]] < MaxCore
          /\ corenum' = [corenum EXCEPT ![c[1]] = @ + 1]
    BY <1>8 DEF AddCore
  <2>2. c[1] \in Cpus
    BY DEF CoreIds
  <2>3. corenum' \in [Cpus -> 0 .. MaxCore]
    BY <2>1, <2>2 DEF Inv, TypeOK
  <2>4. TypeOK'
    BY <1>8, <2>3 DEF Inv, TypeOK, AddCore, machine, view, loop
  <2>5. OneCore' /\ Count' /\ Fresh'
    BY <1>8 DEF Inv, AddCore, OneCore, Count, Left, Fresh, machine, view, loop
  <2>6. QED
    BY <2>4, <2>5 DEF Inv
<1>9. CASE Crash
  BY <1>9 DEF Inv, TypeOK, Crash, OneCore, Count, Left, Fresh, machine, view, loop
<1>10. CASE UNCHANGED vars
  BY <1>10 DEF Inv, TypeOK, OneCore, Count, Left, Fresh, vars, machine, view, loop
<1>11. QED
  BY <1>1, <1>2, <1>3, <1>4, <1>5, <1>6, <1>7, <1>8, <1>9, <1>10 DEF Next

LEMMA InvHolds == Spec => []Inv
  BY InvInit, InvStep, PTL DEF Spec

-----------------------------------------------------------------------------

\* The variables of MainWindow stay in their types.
THEOREM WindowTypes == Spec => []TypeOK
<1>1. Inv => TypeOK
  BY DEF Inv
<1>2. QED
  BY <1>1, InvHolds, PTL

\* Switched off, the loop takes at most one more clock for each
\* autorun_handler that was on the stack.
THEOREM StopBoundHolds == Spec => []StopBound
<1>1. Inv => StopBound
  BY DEF Inv, TypeOK, Count, Left, StopBound
<1>2. QED
  BY <1>1, InvHolds, PTL

\* While the core on display is busy, no use of current_vm crashes, and a core
\* is added to the CPU on display.
THEOREM ActsOnDisplayHolds == Spec => ActsOnDisplay
<1> DEFINE Acts == current # NULL /\ runs[current] # NULL =>
                     /\ phase' # "crashed"
                     /\ \A i \in Cpus : corenum[i] > 0 /\ corenum'[i] # corenum[i] =>
                          i = current[1]
<1>1. Inv /\ Next => Acts
  <2> SUFFICES ASSUME Inv, Next, current # NULL, runs[current] # NULL
               PROVE  /\ phase' # "crashed"
                      /\ \A i \in Cpus : corenum[i] > 0 /\ corenum'[i] # corenum[i] =>
                           i = current[1]
    OBVIOUS
  <2>1. current \in CoreIds
    BY DEF Inv, TypeOK
  <2>2. phase = "events" => current_vm = runs[current]
    BY DEF Inv, Fresh
  <2>3. CASE AddCore
    <3>1. PICK c \in CoreIds :
            /\ runs[c] = current_vm
            /\ corenum' = [corenum EXCEPT ![c[1]] = @ + 1]
      BY <2>3 DEF AddCore
    <3>2. c = current
      BY <2>1, <2>2, <2>3, <3>1 DEF Inv, OneCore, AddCore
    <3>3. QED
      BY <2>3, <3>1, <3>2 DEF Inv, TypeOK, AddCore
  <2>4. CASE Crash
    BY <2>1, <2>2, <2>4 DEF Crash
  <2>5. CASE AddCpu
    BY <2>5, WindowAssumption DEF Inv, TypeOK, AddCpu
  <2>6. CASE PressRun \/ PressStep \/ Tick \/ Machine \/ CycleUi \/ ShowCore
    BY <2>6 DEF PressRun, PressStep, Tick, Machine, CycleUi, ShowCore
  <2>7. QED
    BY <2>3, <2>4, <2>5, <2>6 DEF Next
<1>2. Inv /\ [Next]_vars => [Acts]_vars
  BY <1>1
<1>3. QED
  BY <1>2, InvHolds, PTL DEF Spec, ActsOnDisplay

=============================================================================
