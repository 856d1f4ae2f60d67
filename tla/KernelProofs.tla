---------------------------- MODULE KernelProofs ----------------------------
(***************************************************************************)
(* Theorems about Kernel, for every number of processes, CPUs and cores    *)
(* and every quantum, from KernelAssumption alone.                         *)
(*                                                                         *)
(* Everything rests on one inductive invariant, Inv.  TypeOK and Placement *)
(* alone are not inductive: Dispatch would overwrite the vm of a core, and *)
(* place a process that runs already, but for what LoopOK says of the      *)
(* loops that cycle() is in.  The lemmas follow the code: what each helper *)
(* does to a VM or a core, what a handler does as a whole (HandleEffect),  *)
(* and then one step per action.                                           *)
(*                                                                         *)
(* The order of service, for KernelFair, and the terms of CoreStatus have  *)
(* invariants of their own on top, FairInv and CoreInv.                    *)
(***************************************************************************)
EXTENDS KernelFair, TLAPS

\* What the loops of cycle() may count on: the first two visit busy cores
\* only, and arrange() has in todo exactly the idle ones and in waiting none
\* but ready processes.
LoopOK ==
    /\ pc \in {"run", "handle"} => todo \subseteq Busy
    /\ pc = "arrange" => todo = Idle /\ Ready \subseteq waiting
    /\ pc # "arrange" => waiting = {}
    /\ \A p \in waiting : pid_set[p].status = "S" /\ ~ Stalled(p)

\* The inductive invariant.
Inv == TypeOK /\ LoopOK /\ Placement

-----------------------------------------------------------------------------

\* The records Init is built from have their types.
LEMMA InitialTypes ==
    /\ InitCore \in CoreType
    /\ InitCore.vm = NULL
    /\ InitCore.signal = FALSE
    /\ InitCore.drain = 0
    /\ InitCore.REG = InitReg
    /\ NoVm \in VmType
    /\ NoVm.status = "none"
    /\ NoVm.waiting_pid = -1
    /\ <<0, 0>> \in CoreIds
    /\ 0 \in Cpus
    /\ 1 \in Pids
<1> USE KernelAssumption
<1>1. InitCore \in CoreType
  BY DEF InitCore, CoreType, Stat
<1>2. NoVm \in VmType
  BY DEF NoVm, VmType, Status, WaitArgs
<1> QED
  BY <1>1, <1>2 DEF InitCore, NoVm, CoreIds, Cpus, Pids

\* A time that is erased is within its bounds.
LEMMA ZeroTimes == 0 \in 0 .. Quantum + 1 /\ 0 \in 0 .. StopCap
  BY KernelAssumption

\* suspend(): the VM rests, with the registers of the core in it.
LEMMA SuspendedType ==
    ASSUME NEW v \in VmType, NEW r \in RegVals
    PROVE  /\ Suspended(v, r) \in VmType
           /\ Suspended(v, r).status = "S"
           /\ Suspended(v, r).waiting_pid = v.waiting_pid
           /\ Suspended(v, r).saved = TRUE
           /\ Suspended(v, r).saved_reg = r
<1>1. /\ v.cpu \in CoreIds \cup {NULL}
      /\ v.waiting_pid \in WaitArgs
      /\ v.saved \in BOOLEAN
      /\ v.saved_reg \in RegVals
      /\ v.stop \in 0 .. StopCap
  BY DEF VmType
<1>2. Suspended(v, r) \in VmType
  BY <1>1, ZeroTimes DEF Suspended, VmType, Status
<1> QED
  BY <1>2 DEF Suspended, VmType

\* terminate(): the VM is dead.
LEMMA TerminatedType ==
    ASSUME NEW v \in VmType
    PROVE  /\ Terminated(v) \in VmType
           /\ Terminated(v).status = "T"
           /\ Terminated(v).waiting_pid = v.waiting_pid
<1>1. /\ v.cpu \in CoreIds \cup {NULL}
      /\ v.waiting_pid \in WaitArgs
      /\ v.saved \in BOOLEAN
      /\ v.saved_reg \in RegVals
      /\ v.stop \in 0 .. StopCap
  BY DEF VmType
<1>2. Terminated(v) \in VmType
  BY <1>1, ZeroTimes DEF Terminated, VmType, Status
<1> QED
  BY <1>2 DEF Terminated, VmType

\* yfork(): the child rests, with what the parent's VM held.
LEMMA ForkedType ==
    ASSUME NEW v \in VmType
    PROVE  /\ Forked(v) \in VmType
           /\ Forked(v).status = "S"
           /\ Forked(v).waiting_pid = v.waiting_pid
           /\ Forked(v).saved = TRUE
           /\ Forked(v).saved_reg = v.saved_reg
<1>1. /\ v.cpu \in CoreIds \cup {NULL}
      /\ v.waiting_pid \in WaitArgs
      /\ v.saved \in BOOLEAN
      /\ v.saved_reg \in RegVals
      /\ v.stop \in 0 .. StopCap
  BY DEF VmType
<1>2. Forked(v) \in VmType
  BY <1>1, ZeroTimes DEF Forked, VmType, Status
<1> QED
  BY <1>2 DEF Forked, VmType

\* context_switch(), the VM's side: it runs on core c.
LEMMA StartedType ==
    ASSUME NEW v \in VmType, NEW c \in CoreIds
    PROVE  /\ Started(v, c) \in VmType
           /\ Started(v, c).status = "R"
           /\ Started(v, c).cpu = c
           /\ Started(v, c).waiting_pid = v.waiting_pid
<1>1. /\ v.cpu \in CoreIds \cup {NULL}
      /\ v.waiting_pid \in WaitArgs
      /\ v.saved \in BOOLEAN
      /\ v.saved_reg \in RegVals
      /\ v.stop \in 0 .. StopCap
  BY DEF VmType
<1>2. Started(v, c) \in VmType
  BY <1>1, ZeroTimes DEF Started, VmType, Status
<1> QED
  BY <1>2 DEF Started, VmType

\* context_switch(), the core's side: no request is left over, and the
\* registers are those of the VM.
LEMMA LoadedType ==
    ASSUME NEW v \in VmType, NEW p \in Pids
    PROVE  /\ Loaded(v, p) \in CoreType
           /\ Loaded(v, p).vm = p
           /\ Loaded(v, p).signal = FALSE
           /\ Loaded(v, p).drain = 0
           /\ v.saved => Loaded(v, p).REG = v.saved_reg
           /\ ~ v.saved => Loaded(v, p).REG = InitReg
<1>1. CASE v.saved
  BY <1>1, KernelAssumption, InitialTypes DEF Loaded, CoreType, VmType
<1>2. CASE ~ v.saved
  BY <1>2, KernelAssumption, InitialTypes DEF Loaded, CoreType, VmType
<1> QED
  BY <1>1, <1>2

\* The accounting changes nothing but the two times, and no run time falls.
LEMMA TimedType ==
    ASSUME NEW v \in VmType
    PROVE  /\ Timed(v) \in VmType
           /\ Timed(v).status = v.status
           /\ Timed(v).cpu = v.cpu
           /\ Timed(v).waiting_pid = v.waiting_pid
           /\ Timed(v).saved = v.saved
           /\ Timed(v).saved_reg = v.saved_reg
           /\ Timed(v).run >= v.run
<1>1. CASE v.status = "R"
  BY <1>1, KernelAssumption DEF Timed, Bump, VmType
<1>2. CASE v.status = "S"
  BY <1>2, KernelAssumption DEF Timed, Bump, VmType
<1>3. CASE v.status \notin {"R", "S"}
  BY <1>3, KernelAssumption DEF Timed, Bump, VmType
<1> QED
  BY <1>1, <1>2, <1>3

-----------------------------------------------------------------------------

\* Kernel::init establishes the invariant.
LEMMA InitInv == Init => Inv
<1> SUFFICES ASSUME Init PROVE Inv
  OBVIOUS
<1> USE KernelAssumption, InitialTypes
<1>1. PICK r \in RegVals :
        pid_set = [p \in Pids |->
                     IF p = 1 THEN [Started(NoVm, <<0, 0>>) EXCEPT !.saved_reg = r]
                              ELSE NoVm]
  BY DEF Init
<1>2. /\ pid_set \in [Pids -> VmType]
      /\ pid_set[1].status = "R"
      /\ pid_set[1].cpu = <<0, 0>>
      /\ \A p \in Pids \ {1} : pid_set[p].status = "none"
  BY <1>1, StartedType DEF VmType
<1>3. /\ core \in [CoreIds -> CoreType]
      /\ core[<<0, 0>>].vm = 1
      /\ \A c \in CoreIds \ {<<0, 0>>} : core[c].vm = NULL
  BY LoadedType DEF Init
<1>4. TypeOK
  BY <1>2, <1>3 DEF Init, TypeOK, InitArch, ArchType, Cores
<1>5. LoopOK
  BY DEF Init, LoopOK
<1>6. Placement
  <2>1. <<0, 0>> \in Cores
    BY DEF Init, Cores
  <2>2. 1 # NULL
    BY DEF Pids
  <2> QED
    BY <1>2, <1>3, <2>1, <2>2 DEF Placement
<1> QED
  BY <1>4, <1>5, <1>6 DEF Inv

-----------------------------------------------------------------------------

\* A core whose process is no longer running lets it go, and the others keep
\* theirs: the two pointers still agree.
LEMMA Released ==
    ASSUME TypeOK, Placement,
           NEW c \in CoreIds, NEW p \in Pids, core[c].vm = p,
           corenum' = corenum,
           core'[c].vm = NULL,
           \A d \in CoreIds \ {c} : core'[d].vm = core[d].vm,
           pid_set'[p].status # "R",
           \A q \in Pids \ {p} :
             \/ pid_set'[q] = pid_set[q]
             \/ pid_set[q].status # "R" /\ pid_set'[q].status # "R"
    PROVE  Placement'
<1> Cores' = Cores
  BY DEF Cores
<1>1. ASSUME NEW d \in CoreIds, core'[d].vm # NULL
      PROVE  /\ d \in Cores'
             /\ pid_set'[core'[d].vm].status = "R"
             /\ pid_set'[core'[d].vm].cpu = d
  <2>1. d # c /\ core'[d].vm = core[d].vm
    BY <1>1
  <2>2. core[d].vm \in Pids \ {p}
    <3>1. core[d].vm \in Pids
      BY <1>1, <2>1 DEF TypeOK, CoreType
    <3> QED
      BY <1>1, <2>1, <3>1 DEF Placement
  <2> QED
    BY <1>1, <2>1, <2>2 DEF Placement
<1>2. ASSUME NEW q \in Pids, pid_set'[q].status = "R"
      PROVE  /\ pid_set'[q].cpu \in CoreIds
             /\ core'[pid_set'[q].cpu].vm = q
  <2>1. q # p /\ pid_set'[q] = pid_set[q]
    BY <1>2
  <2> QED
    BY <1>2, <2>1 DEF Placement
<1> QED
  BY <1>1, <1>2 DEF Placement

\* What every action of the second loop of cycle() starts from.
LEMMA Handled ==
    ASSUME Inv, NEW c \in CoreIds, NEW s, AtCore(c, s)
    PROVE  /\ core[c].vm \in Pids
           /\ core[c].REG \in RegVals
           /\ core[c].cc \in CcVals
           /\ pid_set[core[c].vm] \in VmType
           /\ pid_set[core[c].vm].status = "R"
           /\ pid_set[core[c].vm].cpu = c
           /\ pc = "handle" /\ pc' = "handle"
           /\ todo' = todo \ {c}
           /\ todo \subseteq Busy
           /\ waiting = {} /\ waiting' = {}
           /\ corenum' = corenum
           /\ Cores' = Cores
  BY DEF Inv, TypeOK, LoopOK, Placement, AtCore, Busy, IsFirst, CoreType, Cores

\* What a handler does to the process p of core c: it dies, it rests, or it
\* rests and q is born.
Dies(c, p) ==
    /\ pid_set'[p].status = "T"
    /\ pid_set'[p].waiting_pid = pid_set[p].waiting_pid
    /\ \A q \in Pids \ {p} : pid_set'[q] = pid_set[q]
    /\ arch' = arch

Rests(c, p) ==
    /\ pid_set'[p].status = "S"
    /\ pid_set'[p].saved
    /\ \/ pid_set'[p].saved_reg = core[c].REG /\ arch'[p] = arch[p]
       \/ pid_set'[p].saved_reg = arch'[p].reg

RestsAlone(c, p) ==
    /\ Rests(c, p)
    /\ \A q \in Pids \ {p} : pid_set'[q] = pid_set[q] /\ arch'[q] = arch[q]

Bears(c, p, q) ==
    /\ Rests(c, p)
    /\ q # p
    /\ pid_set[q].status = "none"
    /\ pid_set'[q].status = "S"
    /\ pid_set'[q].saved
    /\ pid_set'[q].saved_reg = arch'[q].reg
    /\ pid_set'[q].waiting_pid = pid_set[p].waiting_pid
    /\ pid_set'[p].waiting_pid = pid_set[p].waiting_pid
    /\ \A r \in Pids \ {p, q} : pid_set'[r] = pid_set[r] /\ arch'[r] = arch[r]

\* Every handler takes its process off the core, and does one of these three
\* things to it; what the theorems need to know of the second loop of cycle().
LEMMA HandleEffect ==
    ASSUME Inv, NEW c \in CoreIds, Handle(c)
    PROVE  /\ \E s \in Stat : AtCore(c, s)
           /\ core' \in [CoreIds -> CoreType]
           /\ pid_set' \in [Pids -> VmType]
           /\ arch' \in [Pids -> ArchType]
           /\ core'[c].vm = NULL
           /\ core'[c].drain > 0 \/ core'[c].signal => core[c].drain > 0 \/ core[c].signal
           /\ \A d \in CoreIds \ {c} : core'[d] = core[d]
           /\ \/ Dies(c, core[c].vm)
              \/ RestsAlone(c, core[c].vm)
              \/ \E q \in Pids : Bears(c, core[c].vm, q)
<1> DEFINE p == core[c].vm
<1>1. /\ core \in [CoreIds -> CoreType]
      /\ pid_set \in [Pids -> VmType]
      /\ arch \in [Pids -> ArchType]
      /\ InitArch \in ArchType
      /\ InitArch.reg = InitReg
      /\ InitReg \in RegVals
  BY KernelAssumption DEF Inv, TypeOK, InitArch, ArchType
<1>2. PICK s \in Stat : AtCore(c, s)
  BY DEF Handle, HandleExit, HandleFork, HandleExecve, HandleWaitpid, HandleSuspend,
         HandleFault, Stat
<1>3. /\ p \in Pids /\ pid_set[p] \in VmType /\ pid_set[p].status = "R"
      /\ core[c].REG \in RegVals /\ core[c].cc \in CcVals
  BY <1>2, Handled
<1>4. ASSUME core' = [core EXCEPT ![c].vm = NULL]
      PROVE  /\ core' \in [CoreIds -> CoreType]
             /\ core'[c].vm = NULL
             /\ core'[c].signal = core[c].signal
             /\ core'[c].drain = core[c].drain
             /\ \A d \in CoreIds \ {c} : core'[d] = core[d]
  BY <1>1, <1>4 DEF CoreType
<1>5. ASSUME NEW r \in RegVals,
             pid_set' = [pid_set EXCEPT ![p] = Suspended(@, r)]
      PROVE  /\ pid_set' \in [Pids -> VmType]
             /\ pid_set'[p].status = "S"
             /\ pid_set'[p].saved
             /\ pid_set'[p].saved_reg = r
             /\ \A q \in Pids \ {p} : pid_set'[q] = pid_set[q]
  BY <1>1, <1>3, <1>5, SuspendedType
<1>6. CASE HandleExit(c) \/ HandleFault(c)
  <2>1. /\ pid_set' = [pid_set EXCEPT ![p] = Terminated(@)]
        /\ core' = [core EXCEPT ![c].vm = NULL]
        /\ arch' = arch
    BY <1>6 DEF HandleExit, HandleFault
  <2>2. pid_set' \in [Pids -> VmType] /\ Dies(c, p)
    BY <1>1, <1>3, <2>1, TerminatedType DEF Dies
  <2> QED
    BY <1>1, <1>2, <1>4, <2>1, <2>2
<1>7. CASE HandleSuspend(c)
  <2>1. /\ pid_set' = [pid_set EXCEPT ![p] = Suspended(@, core[c].REG)]
        /\ core' = [core EXCEPT ![c].vm = NULL]
        /\ arch' = arch
    BY <1>7 DEF HandleSuspend, SuspendOn
  <2>2. pid_set' \in [Pids -> VmType] /\ RestsAlone(c, p)
    BY <1>3, <1>5, <2>1 DEF RestsAlone, Rests
  <2> QED
    BY <1>1, <1>2, <1>4, <2>1, <2>2
<1>8. CASE HandleExecve(c)
  <2>1. /\ pid_set' = [pid_set EXCEPT ![p] = Suspended(@, InitReg)]
        /\ core' = [core EXCEPT ![c] = InitCore]
        /\ arch' = [arch EXCEPT ![p] = InitArch]
    BY <1>8 DEF HandleExecve
  <2>2. pid_set' \in [Pids -> VmType] /\ RestsAlone(c, p) /\ arch' \in [Pids -> ArchType]
    BY <1>1, <1>3, <1>5, <2>1 DEF RestsAlone, Rests
  <2>3. /\ core' \in [CoreIds -> CoreType]
        /\ core'[c] = InitCore
        /\ \A d \in CoreIds \ {c} : core'[d] = core[d]
    BY <1>1, <2>1, InitialTypes
  <2> QED
    BY <1>2, <2>2, <2>3, InitialTypes
<1>9. CASE HandleWaitpid(c)
  <2>1. PICK w \in WaitArgs :
          pid_set' = [pid_set EXCEPT ![p] =
                        [Suspended(@, core[c].REG) EXCEPT !.waiting_pid = w]]
    BY <1>9 DEF HandleWaitpid
  <2>2. core' = [core EXCEPT ![c].vm = NULL] /\ arch' = arch
    BY <1>9 DEF HandleWaitpid, SuspendOn
  <2>3. \A v \in VmType : LET u == [v EXCEPT !.waiting_pid = w]
                          IN  /\ u \in VmType
                              /\ u.status = v.status
                              /\ u.saved = v.saved
                              /\ u.saved_reg = v.saved_reg
    BY DEF VmType
  <2>4. /\ pid_set' \in [Pids -> VmType]
        /\ pid_set'[p].status = "S"
        /\ pid_set'[p].saved
        /\ pid_set'[p].saved_reg = core[c].REG
        /\ \A q \in Pids \ {p} : pid_set'[q] = pid_set[q]
    <3>1. /\ Suspended(pid_set[p], core[c].REG) \in VmType
          /\ Suspended(pid_set[p], core[c].REG).status = "S"
          /\ Suspended(pid_set[p], core[c].REG).saved
          /\ Suspended(pid_set[p], core[c].REG).saved_reg = core[c].REG
      BY <1>3, SuspendedType
    <3> QED
      BY <1>1, <1>3, <2>1, <2>3, <3>1
  <2>5. RestsAlone(c, p)
    BY <2>2, <2>4 DEF RestsAlone, Rests
  <2> QED
    BY <1>1, <1>2, <1>4, <2>2, <2>4, <2>5
<1>10. CASE HandleFork(c)
  <2>1. PICK q \in Pids :
          /\ IsNewPid(q)
          /\ pid_set' = [pid_set EXCEPT ![p] = Suspended(@, core[c].REG),
                                        ![q] = Forked(pid_set[p])]
          /\ arch' = [arch EXCEPT ![q] = [reg |-> pid_set[p].saved_reg,
                                          cc |-> core[c].cc]]
    BY <1>10 DEF HandleFork
  <2>2. core' = [core EXCEPT ![c].vm = NULL]
    BY <1>10 DEF HandleFork, SuspendOn
  <2>3. q # p /\ pid_set[q].status = "none"
    BY <1>3, <2>1 DEF IsNewPid
  <2>4. /\ arch' \in [Pids -> ArchType]
        /\ arch'[q].reg = pid_set[p].saved_reg
        /\ \A r \in Pids \ {q} : arch'[r] = arch[r]
    BY <1>1, <1>3, <2>1 DEF ArchType, VmType
  <2>5. /\ pid_set'[p] = Suspended(pid_set[p], core[c].REG)
        /\ pid_set'[q] = Forked(pid_set[p])
        /\ \A r \in Pids \ {p, q} : pid_set'[r] = pid_set[r]
        /\ pid_set' \in [Pids -> VmType]
    BY <1>1, <1>3, <2>1, <2>3, SuspendedType, ForkedType
  <2>6. Rests(c, p) /\ pid_set'[p].waiting_pid = pid_set[p].waiting_pid
    <3>1. /\ pid_set'[p].status = "S"
          /\ pid_set'[p].saved
          /\ pid_set'[p].saved_reg = core[c].REG
          /\ pid_set'[p].waiting_pid = pid_set[p].waiting_pid
      <4>1. /\ Suspended(pid_set[p], core[c].REG).status = "S"
            /\ Suspended(pid_set[p], core[c].REG).saved
            /\ Suspended(pid_set[p], core[c].REG).saved_reg = core[c].REG
            /\ Suspended(pid_set[p], core[c].REG).waiting_pid = pid_set[p].waiting_pid
        BY <1>3, SuspendedType
      <4> QED
        BY <2>5, <4>1
    <3>2. arch'[p] = arch[p]
      BY <1>3, <2>3, <2>4
    <3> QED
      BY <3>1, <3>2 DEF Rests
  <2>7. /\ pid_set'[q].status = "S"
        /\ pid_set'[q].saved
        /\ pid_set'[q].saved_reg = arch'[q].reg
        /\ pid_set'[q].waiting_pid = pid_set[p].waiting_pid
    BY <1>3, <2>4, <2>5, ForkedType
  <2>8. Bears(c, p, q)
    BY <2>3, <2>4, <2>5, <2>6, <2>7 DEF Bears
  <2> QED
    BY <1>2, <1>4, <2>2, <2>4, <2>5, <2>8
<1> QED
  BY <1>6, <1>7, <1>8, <1>9, <1>10 DEF Handle

\* The second loop of cycle() keeps the invariant.
LEMMA HandleInv == ASSUME Inv, NEW c \in CoreIds, Handle(c) PROVE Inv'
<1> DEFINE p == core[c].vm
<1>1. PICK s \in Stat : AtCore(c, s)
  BY HandleEffect
<1> USE <1>1, Handled
<1>2. TypeOK'
  BY HandleEffect DEF Inv, TypeOK
<1>3. LoopOK'
  BY HandleEffect DEF LoopOK, Busy, Cores
<1>4. /\ pid_set'[p].status # "R"
      /\ \A q \in Pids \ {p} :
           \/ pid_set'[q] = pid_set[q]
           \/ pid_set[q].status # "R" /\ pid_set'[q].status # "R"
  BY HandleEffect DEF Dies, RestsAlone, Rests, Bears
<1>5. Placement'
  BY <1>4, HandleEffect, Released DEF Inv
<1> QED
  BY <1>2, <1>3, <1>5 DEF Inv

-----------------------------------------------------------------------------

\* Adding hardware between two cycles takes no core away.
LEMMA GrownInv ==
    ASSUME Inv, pc = "idle",
           UNCHANGED <<pc, todo, core, pid_set, waiting, arch>>,
           corenum' \in [Cpus -> 0 .. MaxCore],
           \A i \in Cpus : corenum[i] <= corenum'[i]
    PROVE  Inv'
<1>1. Cores \subseteq Cores'
  <2> SUFFICES ASSUME NEW c \in CoreIds, c[2] < corenum[c[1]]
               PROVE  c[2] < corenum'[c[1]]
    BY DEF Cores
  <2>1. c[1] \in Cpus /\ c[2] \in Int
    BY KernelAssumption DEF CoreIds
  <2>2. corenum[c[1]] \in Int /\ corenum'[c[1]] \in Int
    BY <2>1, KernelAssumption DEF Inv, TypeOK
  <2> QED
    BY <2>1, <2>2
<1>2. TypeOK'
  BY <1>1 DEF Inv, TypeOK
<1>3. LoopOK'
  BY DEF Inv, LoopOK
<1>4. Placement'
  BY <1>1 DEF Inv, Placement
<1> QED
  BY <1>2, <1>3, <1>4 DEF Inv

\* Every step keeps the invariant; one step of the proof for each action.
LEMMA StepInv == Inv /\ [Next]_vars => Inv'
<1> SUFFICES ASSUME Inv, [Next]_vars PROVE Inv'
  OBVIOUS
<1>1. /\ core \in [CoreIds -> CoreType]
      /\ pid_set \in [Pids -> VmType]
      /\ arch \in [Pids -> ArchType]
  BY DEF Inv, TypeOK
<1>2. CASE StartThreads
  <2>1. TypeOK'
    BY <1>2 DEF Inv, TypeOK, StartThreads, Busy, Cores
  <2>2. LoopOK'
    BY <1>2 DEF Inv, LoopOK, StartThreads, Busy, Cores
  <2>3. Placement'
    BY <1>2 DEF Inv, Placement, StartThreads, Cores
  <2> QED
    BY <2>1, <2>2, <2>3 DEF Inv
<1>3. CASE JoinThreads
  <2>1. TypeOK'
    BY <1>3 DEF Inv, TypeOK, JoinThreads, Busy, Cores
  <2>2. LoopOK'
    BY <1>3 DEF Inv, LoopOK, JoinThreads, Busy, Cores
  <2>3. Placement'
    BY <1>3 DEF Inv, Placement, JoinThreads, Cores
  <2> QED
    BY <2>1, <2>2, <2>3 DEF Inv
<1>4. CASE Account
  <2>1. /\ pid_set' \in [Pids -> VmType]
        /\ \A p \in Pids : /\ pid_set'[p].status = pid_set[p].status
                           /\ pid_set'[p].cpu = pid_set[p].cpu
                           /\ pid_set'[p].waiting_pid = pid_set[p].waiting_pid
    BY <1>1, <1>4, TimedType DEF Account
  <2>2. TypeOK'
    BY <1>4, <2>1 DEF Inv, TypeOK, Account, Idle, Cores, Ready
  <2>3. LoopOK'
    <3>1. \A p \in waiting' : pid_set'[p].status = "S" /\ ~ Stalled(p)'
      <4>1. \A p \in Pids : pid_set[p].waiting_pid > 0 => pid_set[p].waiting_pid \in Pids
        BY <1>1 DEF VmType, WaitArgs, Pids
      <4> QED
        BY <1>4, <2>1, <4>1 DEF Account, Ready, Stalled
    <3>2. Ready' \subseteq waiting'
      <4>1. \A p \in Pids : pid_set[p].waiting_pid > 0 => pid_set[p].waiting_pid \in Pids
        BY <1>1 DEF VmType, WaitArgs, Pids
      <4> QED
        BY <1>4, <2>1, <4>1 DEF Account, Ready, Stalled
    <3> QED
      BY <1>4, <3>1, <3>2 DEF LoopOK, Account, Idle, Cores
  <2>4. Placement'
    <3>1. \A c \in CoreIds : core[c].vm # NULL => core[c].vm \in Pids
      BY <1>1 DEF CoreType
    <3> QED
      BY <1>4, <2>1, <3>1 DEF Inv, Placement, Account, Cores
  <2> QED
    BY <2>2, <2>3, <2>4 DEF Inv
<1>5. CASE ArrangeDone
  <2>1. TypeOK'
    BY <1>5 DEF Inv, TypeOK, ArrangeDone, Cores
  <2>2. LoopOK'
    BY <1>5 DEF Inv, LoopOK, ArrangeDone
  <2>3. Placement'
    BY <1>5 DEF Inv, Placement, ArrangeDone, Cores
  <2> QED
    BY <2>1, <2>2, <2>3 DEF Inv
<1>6. CASE SignalOverrun
  <2>1. /\ core' \in [CoreIds -> CoreType]
        /\ \A c \in CoreIds : core'[c].vm = core[c].vm
    BY <1>1, <1>6 DEF SignalOverrun, CoreType
  <2>2. TypeOK'
    BY <1>6, <2>1 DEF Inv, TypeOK, SignalOverrun, Cores
  <2>3. LoopOK'
    BY <1>6 DEF Inv, LoopOK, SignalOverrun
  <2>4. Placement'
    BY <1>6, <2>1 DEF Inv, Placement, SignalOverrun, Cores
  <2> QED
    BY <2>2, <2>3, <2>4 DEF Inv
<1>7. CASE EraseTrap
  <2>1. TypeOK'
    BY <1>7 DEF Inv, TypeOK, EraseTrap, Cores
  <2>2. LoopOK'
    BY <1>7 DEF Inv, LoopOK, EraseTrap
  <2>3. Placement'
    BY <1>7 DEF Inv, Placement, EraseTrap, Cores
  <2> QED
    BY <2>1, <2>2, <2>3 DEF Inv
<1>8. ASSUME NEW c \in CoreIds, RunCore(c)
      PROVE  Inv'
  <2>1. c \in Busy /\ pc = "run"
    BY <1>8 DEF Inv, LoopOK, RunCore
  <2>2. core[c].vm \in Pids
    BY <1>1, <2>1 DEF Busy, CoreType
  <2>3. PICK s \in StatAfter(core[c]), r \in RegVals, f \in CcVals :
          /\ core' = [core EXCEPT ![c] =
                        [@ EXCEPT !.stat = s, !.REG = r, !.cc = f, !.signal = FALSE,
                                  !.drain = Drain(core[c])]]
          /\ arch' = [arch EXCEPT ![core[c].vm] = [reg |-> r, cc |-> f]]
    BY <1>8 DEF RunCore
  <2>4. s \in Stat /\ Drain(core[c]) \in 0 .. DrainMax
    BY <1>1, KernelAssumption DEF StatAfter, Stat, Drain, CoreType
  <2>5. /\ core' \in [CoreIds -> CoreType]
        /\ \A d \in CoreIds : core'[d].vm = core[d].vm
    BY <1>1, <2>3, <2>4 DEF CoreType
  <2>6. TypeOK'
    BY <1>1, <1>8, <2>2, <2>3, <2>5 DEF Inv, TypeOK, RunCore, Cores, ArchType
  <2>7. LoopOK'
    BY <1>8, <2>5 DEF Inv, LoopOK, RunCore, Busy, Cores, Stalled
  <2>8. Placement'
    BY <1>8, <2>5 DEF Inv, Placement, RunCore, Cores
  <2> QED
    BY <2>6, <2>7, <2>8 DEF Inv
<1>9. ASSUME NEW c \in CoreIds, Handle(c)
      PROVE  Inv'
  BY <1>9, HandleInv
<1>10. ASSUME NEW c \in CoreIds, NEW p \in Pids, Dispatch(c, p)
       PROVE  Inv'
  <2>1. /\ pc = "arrange" /\ pc' = "arrange"
        /\ c \in todo /\ todo' = todo \ {c}
        /\ p \in waiting /\ waiting' = waiting \ {p}
        /\ pid_set' = [pid_set EXCEPT ![p] = Started(pid_set[p], c)]
        /\ core' = [core EXCEPT ![c] = Loaded(pid_set[p], p)]
        /\ corenum' = corenum /\ arch' = arch /\ Cores' = Cores
    BY <1>10 DEF Dispatch, IsFirst, Cores
  <2>2. c \in Cores /\ core[c].vm = NULL /\ pid_set[p].status = "S" /\ pid_set[p] \in VmType
    BY <1>1, <2>1 DEF Inv, LoopOK, Idle
  <2>3. /\ pid_set' \in [Pids -> VmType]
        /\ pid_set'[p].status = "R"
        /\ pid_set'[p].cpu = c
        /\ pid_set'[p].waiting_pid = pid_set[p].waiting_pid
        /\ \A q \in Pids \ {p} : pid_set'[q] = pid_set[q]
    BY <1>1, <2>1, <2>2, StartedType
  <2>4. /\ core' \in [CoreIds -> CoreType]
        /\ core'[c].vm = p
        /\ \A d \in CoreIds \ {c} : core'[d] = core[d]
    BY <1>1, <2>1, <2>2, LoadedType
  <2>5. TypeOK'
    BY <2>1, <2>3, <2>4 DEF Inv, TypeOK
  <2>6. LoopOK'
    <3>1. todo' = Idle'
      BY <2>1, <2>2, <2>4, KernelAssumption DEF Inv, LoopOK, Idle, Cores
    <3>2. ASSUME NEW q \in waiting'
          PROVE  pid_set'[q].status = "S" /\ ~ Stalled(q)'
      <4>1. q \in Pids \ {p} /\ pid_set[q].status = "S" /\ ~ Stalled(q)
        BY <2>1, <3>2 DEF Inv, TypeOK, LoopOK
      <4>2. pid_set[q].waiting_pid > 0 => pid_set[q].waiting_pid \in Pids
        BY <1>1, <4>1 DEF VmType, WaitArgs, Pids
      <4> QED
        BY <2>2, <2>3, <4>1, <4>2 DEF Stalled
    <3>3. ASSUME NEW q \in Ready' PROVE q \in waiting'
      <4>1. q \in Pids \ {p} /\ pid_set[q].status = "S" /\ ~ Stalled(q)'
        BY <2>3, <3>3 DEF Ready
      <4>2. pid_set[q].waiting_pid > 0 => pid_set[q].waiting_pid \in Pids
        BY <1>1, <4>1 DEF VmType, WaitArgs, Pids
      <4>3. ~ Stalled(q)
        BY <2>2, <2>3, <4>1, <4>2 DEF Stalled
      <4> QED
        BY <2>1, <4>1, <4>3 DEF Inv, LoopOK, Ready
    <3> QED
      BY <2>1, <3>1, <3>2, <3>3 DEF LoopOK
  <2>7. Placement'
    <3>1. \A d \in CoreIds \ {c} : core[d].vm # NULL => core[d].vm \in Pids \ {p}
      BY <1>1, <2>2 DEF Inv, Placement, CoreType
    <3>2. \A q \in Pids \ {p} : pid_set[q].status = "R" => pid_set[q].cpu # c
      BY <2>2, KernelAssumption DEF Inv, Placement
    <3> QED
      BY <2>1, <2>2, <2>3, <2>4, <3>1, <3>2 DEF Inv, Placement
  <2> QED
    BY <2>5, <2>6, <2>7 DEF Inv
<1>11. CASE AddCpu
  <2>1. PICK i \in Cpus : corenum[i] = 0 /\ corenum' = [corenum EXCEPT ![i] = 1]
    BY <1>11 DEF AddCpu
  <2>2. corenum' \in [Cpus -> 0 .. MaxCore] /\ \A j \in Cpus : corenum[j] <= corenum'[j]
    BY <2>1, KernelAssumption DEF Inv, TypeOK
  <2> QED
    BY <1>11, <2>2, GrownInv DEF AddCpu
<1>12. CASE AddCore
  <2>1. PICK c \in Busy : /\ corenum[c[1]] < MaxCore
                          /\ corenum' = [corenum EXCEPT ![c[1]] = @ + 1]
    BY <1>12 DEF AddCore
  <2>2. c[1] \in Cpus
    BY <2>1 DEF Busy, Cores, CoreIds
  <2>3. corenum' \in [Cpus -> 0 .. MaxCore] /\ \A j \in Cpus : corenum[j] <= corenum'[j]
    BY <2>1, <2>2, KernelAssumption DEF Inv, TypeOK
  <2> QED
    BY <1>12, <2>3, GrownInv DEF AddCore
<1>13. CASE UNCHANGED vars
  <2>1. TypeOK'
    BY <1>13 DEF Inv, TypeOK, vars, Cores
  <2>2. LoopOK'
    <3>1. Busy' = Busy /\ Idle' = Idle /\ Ready' = Ready
      BY <1>13 DEF vars, Busy, Idle, Cores, Ready, Stalled
    <3> QED
      BY <1>13, <3>1 DEF Inv, LoopOK, vars, Stalled
  <2>3. Placement'
    BY <1>13 DEF Inv, Placement, vars, Cores
  <2> QED
    BY <2>1, <2>2, <2>3 DEF Inv
<1> QED
  BY <1>2, <1>3, <1>4, <1>5, <1>6, <1>7, <1>8, <1>9, <1>10, <1>11, <1>12, <1>13
     DEF Next, Cycle, User

\* The inductive invariant holds always.
LEMMA Invariance == Spec => []Inv
<1>1. Init => Inv
  BY InitInv
<1>2. Inv /\ [Next]_vars => Inv'
  BY StepInv
<1> QED
  BY <1>1, <1>2, PTL DEF Spec

\* The variables stay in their types.
THEOREM TypeCorrect == Spec => []TypeOK
  BY Invariance, PTL DEF Inv

\* Core::vm and VM::cpu agree at every point of cycle(), on any number of CPUs
\* and cores and with any number of processes.
THEOREM PlacementHolds == Spec => []Placement
  BY Invariance, PTL DEF Inv

-----------------------------------------------------------------------------
(* The registers of a process.                                             *)

\* At the start the registers of process 1 are those of a fresh core.
LEMMA InitContext == Init => ContextIntact
<1> SUFFICES ASSUME Init PROVE ContextIntact
  OBVIOUS
<1>1. PICK r \in RegVals :
        pid_set = [p \in Pids |->
                     IF p = 1 THEN [Started(NoVm, <<0, 0>>) EXCEPT !.saved_reg = r]
                              ELSE NoVm]
  BY DEF Init
<1>2. /\ pid_set[1].status = "R"
      /\ pid_set[1].cpu = <<0, 0>>
      /\ \A p \in Pids \ {1} : pid_set[p].status = "none"
  BY <1>1, StartedType, InitialTypes DEF VmType
<1>3. core[<<0, 0>>].REG = InitReg
  <2>1. ~ NoVm.saved
    BY DEF NoVm
  <2> QED
    BY <2>1, LoadedType, InitialTypes DEF Init
<1>4. arch[1].reg = InitReg
  BY InitialTypes DEF Init, InitArch
<1> QED
  BY <1>2, <1>3, <1>4, InitialTypes DEF ContextIntact

\* Every step keeps the registers of every process where it will look for
\* them.
LEMMA StepContext == Inv /\ ContextIntact /\ [Next]_vars => ContextIntact'
<1> SUFFICES ASSUME Inv, ContextIntact, [Next]_vars PROVE ContextIntact'
  OBVIOUS
<1>1. /\ core \in [CoreIds -> CoreType]
      /\ pid_set \in [Pids -> VmType]
      /\ arch \in [Pids -> ArchType]
  BY DEF Inv, TypeOK
<1>2. \A p \in Pids : pid_set[p].status = "R" =>
        pid_set[p].cpu \in CoreIds /\ core[pid_set[p].cpu].vm = p
  BY DEF Inv, Placement
<1>3. CASE UNCHANGED <<core, pid_set, arch>>
  BY <1>3 DEF ContextIntact
<1>4. CASE Account
  <2>1. \A p \in Pids : /\ pid_set'[p].status = pid_set[p].status
                       /\ pid_set'[p].cpu = pid_set[p].cpu
                       /\ pid_set'[p].saved = pid_set[p].saved
                       /\ pid_set'[p].saved_reg = pid_set[p].saved_reg
    BY <1>1, <1>4, TimedType DEF Account
  <2> QED
    BY <1>4, <2>1 DEF ContextIntact, Account
<1>5. CASE SignalOverrun
  <2>1. \A c \in CoreIds : core'[c].REG = core[c].REG
    BY <1>1, <1>5 DEF SignalOverrun, CoreType
  <2> QED
    BY <1>2, <1>5, <2>1 DEF ContextIntact, SignalOverrun
<1>6. ASSUME NEW c \in CoreIds, RunCore(c)
      PROVE  ContextIntact'
  <2>1. core[c].vm \in Pids
    BY <1>1, <1>6 DEF Inv, LoopOK, RunCore, Busy, CoreType
  <2>2. PICK r \in RegVals :
          /\ core'[c].REG = r
          /\ \A d \in CoreIds \ {c} : core'[d] = core[d]
          /\ arch'[core[c].vm].reg = r
          /\ \A q \in Pids \ {core[c].vm} : arch'[q] = arch[q]
    BY <1>1, <1>6, <2>1 DEF RunCore, CoreType
  <2>3. pid_set' = pid_set
    BY <1>6 DEF RunCore
  <2>4. pid_set[core[c].vm].status = "R" /\ pid_set[core[c].vm].cpu = c
    BY <1>6, <2>1, KernelAssumption DEF Inv, Placement
  <2> QED
    BY <1>2, <2>1, <2>2, <2>3, <2>4 DEF ContextIntact
<1>7. ASSUME NEW c \in CoreIds, Handle(c)
      PROVE  ContextIntact'
  <2> DEFINE p == core[c].vm
  <2>1. p \in Pids /\ pid_set[p].status = "R" /\ pid_set[p].cpu = c
    BY <1>7, HandleEffect, Handled
  <2>2. \A d \in CoreIds \ {c} : core'[d] = core[d]
    BY <1>7, HandleEffect
  <2>3. ASSUME NEW q \in Pids, pid_set'[q] = pid_set[q], arch'[q] = arch[q], q # p
        PROVE  /\ pid_set'[q].status = "R" => core'[pid_set'[q].cpu].REG = arch'[q].reg
               /\ pid_set'[q].status = "S" =>
                    pid_set'[q].saved /\ pid_set'[q].saved_reg = arch'[q].reg
    BY <1>2, <2>1, <2>2, <2>3 DEF ContextIntact
  <2>4. CASE Dies(c, p)
    BY <2>1, <2>3, <2>4 DEF ContextIntact, Dies
  <2>5. ASSUME Rests(c, p)
        PROVE  pid_set'[p].status = "S" /\ pid_set'[p].saved
               /\ pid_set'[p].saved_reg = arch'[p].reg
    BY <2>1, <2>5 DEF ContextIntact, Rests
  <2>6. CASE RestsAlone(c, p)
    BY <2>1, <2>3, <2>5, <2>6 DEF ContextIntact, RestsAlone
  <2>7. CASE \E q \in Pids : Bears(c, p, q)
    BY <2>1, <2>3, <2>5, <2>7 DEF ContextIntact, Bears
  <2> QED
    BY <1>7, <2>4, <2>6, <2>7, HandleEffect
<1>8. ASSUME NEW c \in CoreIds, NEW p \in Pids, Dispatch(c, p)
      PROVE  ContextIntact'
  <2>1. /\ pid_set[p].status = "S" /\ pid_set[p] \in VmType
        /\ core[c].vm = NULL
    BY <1>1, <1>8 DEF Inv, LoopOK, Dispatch, IsFirst, Idle
  <2>2. /\ pid_set'[p].status = "R"
        /\ pid_set'[p].cpu = c
        /\ \A q \in Pids \ {p} : pid_set'[q] = pid_set[q]
        /\ arch' = arch
    BY <1>1, <1>8, <2>1, StartedType DEF Dispatch
  <2>3. /\ core'[c].REG = arch[p].reg
        /\ \A d \in CoreIds \ {c} : core'[d] = core[d]
    BY <1>1, <1>8, <2>1, LoadedType DEF Dispatch, ContextIntact
  <2>4. \A q \in Pids : pid_set[q].status = "R" => pid_set[q].cpu # c
    BY <1>2, <2>1, KernelAssumption
  <2> QED
    BY <1>2, <2>1, <2>2, <2>3, <2>4 DEF ContextIntact
<1> QED
  BY <1>3, <1>4, <1>5, <1>6, <1>7, <1>8
     DEF Next, Cycle, User, vars, StartThreads, JoinThreads, ArrangeDone, EraseTrap,
         AddCpu, AddCore

\* However often a process is suspended, preempted and moved between cores, the
\* registers it finds are the ones it left.
THEOREM ContextIntactHolds == Spec => []ContextIntact
<1>1. Init => ContextIntact
  BY InitContext
<1>2. Inv /\ ContextIntact /\ [Next]_vars => ContextIntact'
  BY StepContext
<1> QED
  BY <1>1, <1>2, Invariance, PTL DEF Spec

-----------------------------------------------------------------------------
(* Preemption.                                                             *)

\* Every step keeps requests to suspend off processes within their quantum.
LEMMA StepPreempt == Inv /\ PreemptJustified /\ [Next]_vars => PreemptJustified'
<1> SUFFICES ASSUME Inv, PreemptJustified, [Next]_vars PROVE PreemptJustified'
  OBVIOUS
<1>1. /\ core \in [CoreIds -> CoreType]
      /\ pid_set \in [Pids -> VmType]
  BY DEF Inv, TypeOK
<1>2. \A c \in CoreIds : core[c].vm # NULL =>
        /\ core[c].vm \in Pids
        /\ pid_set[core[c].vm].status = "R"
        /\ pid_set[core[c].vm].cpu = c
  BY <1>1 DEF Inv, Placement, CoreType
<1>3. CASE UNCHANGED <<core, pid_set>>
  BY <1>3 DEF PreemptJustified
<1>4. CASE Account
  <2>1. \A p \in Pids : /\ pid_set[p].run \in Int
                       /\ pid_set'[p].run \in Int
                       /\ pid_set'[p].run >= pid_set[p].run
    BY <1>1, <1>4, TimedType DEF Account, VmType
  <2> QED
    <3> SUFFICES ASSUME NEW c \in CoreIds, core[c].vm # NULL,
                        core[c].signal \/ core[c].drain > 0
                 PROVE  pid_set'[core[c].vm].run > Quantum
      BY <1>4 DEF PreemptJustified, Account
    <3>1. PICK p \in Pids : p = core[c].vm /\ pid_set[p].status = "R"
      BY <1>2
    <3>2. pid_set[p].run > Quantum
      BY <3>1 DEF PreemptJustified
    <3>3. pid_set[p].run \in Int /\ pid_set'[p].run \in Int /\ pid_set'[p].run >= pid_set[p].run
      BY <2>1, <3>1
    <3>4. Quantum \in Int
      BY KernelAssumption
    <3> QED
      BY <3>1, <3>2, <3>3, <3>4
<1>5. CASE SignalOverrun
  <2>1. ASSUME NEW c \in CoreIds, core'[c].vm # NULL, core'[c].signal \/ core'[c].drain > 0
        PROVE  pid_set'[core'[c].vm].run > Quantum
    <3>1. CASE \E p \in Pids : Overrun(pid_set[p]) /\ pid_set[p].cpu = c
      BY <1>1, <1>5, <3>1 DEF SignalOverrun, Overrun, CoreType, Inv, Placement
    <3>2. CASE ~ \E p \in Pids : Overrun(pid_set[p]) /\ pid_set[p].cpu = c
      BY <1>1, <1>5, <2>1, <3>2 DEF SignalOverrun, PreemptJustified
    <3> QED
      BY <3>1, <3>2
  <2> QED
    BY <2>1 DEF PreemptJustified
<1>6. ASSUME NEW c \in CoreIds, RunCore(c)
      PROVE  PreemptJustified'
  <2>1. /\ core'[c].vm = core[c].vm
        /\ core'[c].signal = FALSE
        /\ core'[c].drain = Drain(core[c])
        /\ \A d \in CoreIds \ {c} : core'[d] = core[d]
    BY <1>1, <1>6 DEF RunCore, CoreType
  <2>2. \A d \in CoreIds : core'[d].vm = core[d].vm /\ pid_set' = pid_set
    BY <1>6, <2>1 DEF RunCore
  <2>3. Drain(core[c]) > 0 => core[c].signal \/ core[c].drain > 0
    BY DEF Drain
  <2> QED
    BY <2>1, <2>2, <2>3 DEF PreemptJustified
<1>7. ASSUME NEW c \in CoreIds, Handle(c)
      PROVE  PreemptJustified'
  <2>1. /\ core'[c].vm = NULL
        /\ \A d \in CoreIds \ {c} : core'[d] = core[d]
    BY <1>7, HandleEffect
  <2>2. \A q \in Pids \ {core[c].vm} : pid_set[q].status = "R" => pid_set'[q] = pid_set[q]
    BY <1>7, HandleEffect DEF Dies, RestsAlone, Bears
  <2>3. core[c].vm \in Pids /\ pid_set[core[c].vm].cpu = c
    BY <1>7, HandleEffect, Handled
  <2> QED
    BY <1>2, <2>1, <2>2, <2>3 DEF PreemptJustified
<1>8. ASSUME NEW c \in CoreIds, NEW p \in Pids, Dispatch(c, p)
      PROVE  PreemptJustified'
  <2>1. pid_set[p].status = "S" /\ pid_set[p] \in VmType
    BY <1>1, <1>8 DEF Inv, LoopOK, Dispatch
  <2>2. \A q \in Pids \ {p} : pid_set'[q] = pid_set[q]
    BY <1>1, <1>8 DEF Dispatch
  <2>3. /\ core'[c].signal = FALSE
        /\ core'[c].drain = 0
        /\ \A d \in CoreIds \ {c} : core'[d] = core[d]
    BY <1>1, <1>8, <2>1, LoadedType DEF Dispatch
  <2> QED
    BY <1>2, <2>1, <2>2, <2>3 DEF PreemptJustified
<1> QED
  BY <1>3, <1>4, <1>5, <1>6, <1>7, <1>8
     DEF Next, Cycle, User, vars, StartThreads, JoinThreads, ArrangeDone, EraseTrap,
         AddCpu, AddCore

\* No process is asked to suspend before its quantum is over, not even by a
\* request meant for the process that had the core before it.
THEOREM PreemptJustifiedHolds == Spec => []PreemptJustified
<1>1. Init => PreemptJustified
  <2> SUFFICES ASSUME Init PROVE PreemptJustified
    OBVIOUS
  <2>1. \A c \in CoreIds : core[c].signal = FALSE /\ core[c].drain = 0
    BY InitialTypes, LoadedType DEF Init
  <2> QED
    BY <2>1 DEF PreemptJustified
<1>2. Inv /\ PreemptJustified /\ [Next]_vars => PreemptJustified'
  BY StepPreempt
<1> QED
  BY <1>1, <1>2, Invariance, PTL DEF Spec

-----------------------------------------------------------------------------
(* Work conservation.                                                      *)

\* When arrange() returns, a ready process means that every core is taken.
THEOREM WorkConservingHolds == Spec => WorkConserving
<1>1. ASSUME Inv, [Next]_vars, pc = "arrange", pc' = "idle"
      PROVE  Ready' = {} \/ \A c \in Cores' : core'[c].vm # NULL
  <2>1. CASE ArrangeDone
    <3>1. Ready = {}
      BY <1>1, <2>1 DEF Inv, LoopOK, ArrangeDone
    <3> QED
      BY <2>1, <3>1 DEF ArrangeDone, Ready, Stalled
  <2>2. CASE SignalOverrun
    <3>1. \A c \in Cores : core[c].vm # NULL
      BY <1>1, <2>2 DEF Inv, LoopOK, SignalOverrun, Idle
    <3>2. \A c \in CoreIds : core'[c].vm = core[c].vm
      BY <1>1, <2>2 DEF Inv, TypeOK, SignalOverrun, CoreType
    <3>3. Cores' = Cores /\ Cores \subseteq CoreIds
      BY <2>2 DEF SignalOverrun, Cores
    <3> QED
      BY <3>1, <3>2, <3>3
  <2> QED
    BY <1>1, <2>1, <2>2
       DEF Next, Cycle, User, vars, StartThreads, JoinThreads, Account, EraseTrap, RunCore,
           Handle, HandleExit, HandleFork, HandleExecve, HandleWaitpid, HandleSuspend,
           HandleFault, AtCore, Dispatch, AddCpu, AddCore
<1> QED
  BY <1>1, Invariance, PTL DEF Spec, WorkConserving

-----------------------------------------------------------------------------
(* The order of service.                                                   *)

\* Who does not rest has no resting time, and whoever rests when arrange() sorts
\* has been credited with this clock.
Credited ==
    \A p \in Pids :
        /\ pid_set[p].status # "S" => pid_set[p].stop = 0
        /\ pc = "arrange" /\ pid_set[p].status = "S" =>
             pid_set[p].stop > 0 \/ pid_set[p].stop = StopCap

\* Whoever overtook a ready process has rested less, as far as times are counted.
PassedBehind ==
    /\ passed \in [Pids -> SUBSET Pids]
    /\ \A p \in Pids : \A q \in passed[p] :
         /\ p \in Ready
         /\ pid_set[q].stop < pid_set[p].stop \/ pid_set[p].stop = StopCap

FairInv == Inv /\ Credited /\ PassedBehind

\* No ready process has rested so long that the model stops counting; the code does
\* count on, so this holds of any number of its clocks for some StopCap.
Counted == \A p \in Ready : pid_set[p].stop < StopCap

\* What a step can do to the times of rest, and whom it starts.  Most steps leave
\* the processes that rest alone, and no time grows,
Undisturbed ==
    /\ pc' # "arrange"
    /\ \A q \in Pids :
         /\ pid_set'[q].stop \in Nat /\ pid_set'[q].stop <= pid_set[q].stop
         /\ pid_set[q].status = "S" => pid_set'[q] = pid_set[q]
         /\ pid_set'[q].status # "S" => pid_set'[q].stop = 0

\* the accounting credits each of them with a clock,
Credits ==
    \A q \in Pids :
        /\ pid_set'[q].status = pid_set[q].status
        /\ pid_set'[q].stop = IF pid_set[q].status = "S"
                              THEN Bump(pid_set[q].stop, StopCap) ELSE pid_set[q].stop

\* and arrange() starts one that nobody ready has rested longer than.
Serves(r) ==
    /\ pc = "arrange"
    /\ pid_set[r].status = "S"
    /\ \A p \in Ready : pid_set[p].stop <= pid_set[r].stop
    /\ pid_set'[r].status = "R" /\ pid_set'[r].stop = 0
    /\ \A q \in Pids \ {r} : pid_set'[q] = pid_set[q]

\* A VM's times of rest.
LEMMA RestTimes ==
    ASSUME NEW v \in VmType, NEW r \in RegVals, NEW w \in WaitArgs
    PROVE  /\ v.stop \in 0 .. StopCap /\ v.stop \in Nat
           /\ Suspended(v, r).stop = v.stop
           /\ [Suspended(v, r) EXCEPT !.waiting_pid = w].stop = v.stop
           /\ [Suspended(v, r) EXCEPT !.waiting_pid = w].status = "S"
           /\ Terminated(v).stop = 0
           /\ Forked(v).stop = 0
<1>1. v.stop \in 0 .. StopCap /\ v.stop \in Nat
  BY KernelAssumption DEF VmType
<1>2. /\ Suspended(v, r).stop = v.stop
      /\ Terminated(v).stop = 0
      /\ Forked(v).stop = 0
  BY DEF VmType, Suspended, Terminated, Forked
<1>3. /\ [Suspended(v, r) EXCEPT !.waiting_pid = w].stop = v.stop
      /\ [Suspended(v, r) EXCEPT !.waiting_pid = w].status = "S"
  BY DEF VmType, Suspended
<1> QED
  BY <1>1, <1>2, <1>3

\* No handler makes a time of rest grow: the process it handles has not rested,
\* and a child begins with nothing.
LEMMA HandleTimes ==
    ASSUME Inv, NEW c \in CoreIds, Handle(c)
    PROVE  \A q \in Pids : pid_set'[q].stop <= pid_set[q].stop
<1> DEFINE p == core[c].vm
<1>1. /\ pid_set \in [Pids -> VmType] /\ p \in Pids /\ pid_set[p] \in VmType
      /\ core[c].REG \in RegVals /\ InitReg \in RegVals
  <2>1. PICK s \in Stat : AtCore(c, s)
    BY HandleEffect
  <2> QED
    BY <2>1, Handled, KernelAssumption DEF Inv, TypeOK
<1>2. \A q \in Pids : pid_set[q].stop \in Nat
  BY <1>1, RestTimes, KernelAssumption DEF WaitArgs
<1> HIDE DEF p
<1>3. ASSUME NEW v, v.stop <= pid_set[p].stop, pid_set' = [pid_set EXCEPT ![p] = v]
      PROVE  \A q \in Pids : pid_set'[q].stop <= pid_set[q].stop
  BY ONLY <1>1, <1>2, <1>3
<1>4. CASE HandleExit(c) \/ HandleFault(c)
  <2>1. pid_set' = [pid_set EXCEPT ![p] = Terminated(pid_set[p])]
    BY <1>4 DEF HandleExit, HandleFault, p
  <2>2. Terminated(pid_set[p]).stop = 0
    BY <1>1, RestTimes DEF WaitArgs
  <2> QED
    BY <1>1, <1>2, <1>3, <2>1, <2>2
<1>5. CASE HandleSuspend(c) \/ HandleExecve(c)
  <2>1. PICK r \in RegVals : pid_set' = [pid_set EXCEPT ![p] = Suspended(pid_set[p], r)]
    BY <1>1, <1>5 DEF HandleSuspend, HandleExecve, p
  <2>2. Suspended(pid_set[p], r).stop = pid_set[p].stop
    BY <1>1, RestTimes DEF WaitArgs
  <2> QED
    BY <1>1, <1>2, <1>3, <2>1, <2>2
<1>6. CASE HandleWaitpid(c)
  <2>1. PICK w \in WaitArgs :
          pid_set' = [pid_set EXCEPT ![p] =
                        [Suspended(pid_set[p], core[c].REG) EXCEPT !.waiting_pid = w]]
    BY <1>6 DEF HandleWaitpid, p
  <2>2. [Suspended(pid_set[p], core[c].REG) EXCEPT !.waiting_pid = w].stop = pid_set[p].stop
    BY <1>1, RestTimes
  <2> QED
    BY <1>1, <1>2, <1>3, <2>1, <2>2
<1>7. CASE HandleFork(c)
  <2>1. PICK q \in Pids :
          pid_set' = [pid_set EXCEPT ![p] = Suspended(pid_set[p], core[c].REG),
                                     ![q] = Forked(pid_set[p])]
    BY <1>7 DEF HandleFork, p
  <2>2. /\ Suspended(pid_set[p], core[c].REG).stop = pid_set[p].stop
        /\ Forked(pid_set[p]).stop = 0
    BY <1>1, RestTimes DEF WaitArgs
  <2> QED
    BY ONLY <1>1, <1>2, <2>1, <2>2
<1> QED
  BY <1>4, <1>5, <1>6, <1>7 DEF Handle

\* Every step does one of the three.
LEMMA TimesStep ==
    ASSUME Inv, Credited, Next
    PROVE  Undisturbed \/ (pc = "handle" /\ Credits) \/ \E r \in Pids : Serves(r)
<1>1. /\ pid_set \in [Pids -> VmType]
      /\ \A q \in Pids : pid_set[q].stop \in Nat
  <2>1. pid_set \in [Pids -> VmType]
    BY DEF Inv, TypeOK
  <2> QED
    BY <2>1, RestTimes, KernelAssumption DEF WaitArgs
<1>2. CASE UNCHANGED pid_set /\ pc' # "arrange"
  BY <1>1, <1>2 DEF Undisturbed, Credited
<1>3. ASSUME NEW c \in CoreIds, Handle(c)
      PROVE  Undisturbed
  <2> DEFINE p == core[c].vm
  <2>1. PICK s \in Stat : AtCore(c, s)
    BY <1>3, HandleEffect
  <2>2. p \in Pids /\ pid_set[p].status = "R" /\ pc' = "handle"
    BY <2>1, Handled
  <2>3. pid_set' \in [Pids -> VmType]
    BY <1>3, HandleEffect
  <2>4. \A q \in Pids : pid_set'[q].stop \in Nat /\ pid_set'[q].stop <= pid_set[q].stop
    <3>1. \A q \in Pids : pid_set'[q].stop \in Nat
      BY <2>3, RestTimes, KernelAssumption DEF WaitArgs
    <3> QED
      BY <1>3, <3>1, HandleTimes
  <2>5. \A q \in Pids : pid_set[q].status = "S" => pid_set'[q] = pid_set[q]
    BY <1>3, <2>2, HandleEffect DEF Dies, RestsAlone, Bears
  <2>6. pid_set[p].stop = 0
    BY <2>2 DEF Credited
  <2>7. \A q \in Pids : pid_set'[q].status # "S" => pid_set'[q].stop = 0
    <3>1. SUFFICES ASSUME NEW q \in Pids, pid_set'[q].status # "S"
                   PROVE  pid_set'[q].stop = 0
      OBVIOUS
    <3>2. q = p \/ pid_set'[q] = pid_set[q]
      BY <1>3, <3>1, HandleEffect DEF Dies, RestsAlone, Bears
    <3>3. CASE q = p
      BY <2>4, <2>6, <3>3
    <3>4. CASE pid_set'[q] = pid_set[q]
      BY <3>1, <3>4 DEF Credited
    <3> QED
      BY <3>2, <3>3, <3>4
  <2> QED
    BY <2>2, <2>4, <2>5, <2>7 DEF Undisturbed
<1>4. CASE Account
  <2>1. \A q \in Pids : pid_set'[q] = Timed(pid_set[q])
    BY <1>4 DEF Account
  <2>2. ASSUME NEW v \in VmType
        PROVE  Timed(v).stop = IF v.status = "S" THEN Bump(v.stop, StopCap) ELSE v.stop
    BY DEF Timed, VmType
  <2>3. \A q \in Pids : Timed(pid_set[q]).status = pid_set[q].status
    BY <1>1, TimedType
  <2> QED
    BY <1>1, <1>4, <2>1, <2>2, <2>3 DEF Credits, Account
<1>5. ASSUME NEW c \in CoreIds, NEW r \in Pids, Dispatch(c, r)
      PROVE  Serves(r)
  <2>1. /\ pc = "arrange" /\ r \in waiting /\ LongestResting(r, waiting)
        /\ pid_set' = [pid_set EXCEPT ![r] = Started(pid_set[r], c)]
    BY <1>5 DEF Dispatch
  <2>2. pid_set[r].status = "S" /\ Ready \subseteq waiting
    BY <2>1 DEF Inv, LoopOK
  <2>3. \A p \in Ready : pid_set[p].stop <= pid_set[r].stop
    BY <1>1, <2>1, <2>2 DEF LongestResting, Ready
  <2>4. Started(pid_set[r], c).status = "R" /\ Started(pid_set[r], c).stop = 0
    BY <1>1 DEF Started, VmType
  <2> QED
    BY ONLY <1>1, <2>1, <2>2, <2>3, <2>4, r \in Pids DEF Serves
<1>6. (\E c \in CoreIds : RunCore(c)) => UNCHANGED pid_set /\ pc' # "arrange"
  BY DEF RunCore
<1> QED
  BY <1>2, <1>3, <1>4, <1>5, <1>6
     DEF Next, Cycle, User, StartThreads, JoinThreads, Account, ArrangeDone, SignalOverrun,
         EraseTrap, AddCpu, AddCore

\* Whoever is started rests before.
LEMMA FairStep == FairInv /\ [FairNext]_fairVars => FairInv'
<1> SUFFICES ASSUME FairInv, [FairNext]_fairVars PROVE FairInv'
  OBVIOUS
<1>1. Inv'
  BY StepInv DEF FairInv, FairNext, fairVars
<1>2. CASE UNCHANGED fairVars
  <2>1. Ready' = Ready
    BY <1>2 DEF fairVars, vars, Ready, Stalled
  <2> QED
    BY <1>1, <1>2, <2>1 DEF FairInv, Credited, PassedBehind, fairVars, vars
<1>3. CASE FairNext
  <2>1. /\ \A q \in Pids : pid_set[q].stop \in 0 .. StopCap
        /\ StopCap \in Nat
        /\ \A q \in Pids : pid_set'[q].stop \in 0 .. StopCap
    <3>1. pid_set \in [Pids -> VmType] /\ pid_set' \in [Pids -> VmType]
      BY <1>1 DEF FairInv, Inv, TypeOK
    <3> QED
      BY <3>1, KernelAssumption DEF VmType
  <2>2. /\ Credited
        /\ Undisturbed \/ (pc = "handle" /\ Credits) \/ \E r \in Pids : Serves(r)
    BY <1>3, TimesStep DEF FairInv, FairNext
  <2>3. Credited'
    <3>1. CASE Undisturbed
      BY <3>1 DEF Undisturbed, Credited
    <3>2. CASE Credits
      BY <2>1, <2>2, <3>2 DEF Credits, Credited, Bump
    <3>3. ASSUME NEW r \in Pids, Serves(r)
          PROVE  Credited'
      BY <2>2, <3>3 DEF Serves, Credited
    <3> QED
      BY <2>2, <3>1, <3>2, <3>3
  <2>4. passed' \in [Pids -> SUBSET Pids]
    BY <1>3 DEF FairInv, PassedBehind, FairNext, StartedNow
  <2>5. ASSUME NEW p \in Pids, NEW q \in passed'[p]
        PROVE  /\ p \in Ready'
               /\ pid_set'[q].stop < pid_set'[p].stop \/ pid_set'[p].stop = StopCap
    <3>1. p \in Ready /\ p \in Ready' /\ q \in passed[p] \cup StartedNow
      BY <1>3, <2>5 DEF FairNext
    <3>2. /\ q \in Pids /\ pid_set[p].status = "S" /\ pid_set'[p].status = "S"
      BY <2>4, <2>5, <3>1 DEF Ready
    <3>3. q \in passed[p] =>
            pid_set[q].stop < pid_set[p].stop \/ pid_set[p].stop = StopCap
      BY DEF FairInv, PassedBehind
    <3>4. CASE Undisturbed
      <4>1. q \notin StartedNow /\ pid_set'[p] = pid_set[p]
            /\ pid_set'[q].stop <= pid_set[q].stop
        BY <3>2, <3>4 DEF Undisturbed, StartedNow
      <4> QED
        BY <2>1, <3>1, <3>2, <3>3, <4>1
    <3>5. CASE Credits
      <4>1. q \notin StartedNow
        BY <3>2, <3>5 DEF Credits, StartedNow
      <4>2. /\ pid_set'[p].stop = Bump(pid_set[p].stop, StopCap)
            /\ \/ pid_set'[q].stop = Bump(pid_set[q].stop, StopCap)
               \/ pid_set'[q].stop = pid_set[q].stop
        BY <3>2, <3>5 DEF Credits
      <4> QED
        BY <2>1, <3>1, <3>2, <3>3, <4>1, <4>2 DEF Bump
    <3>6. ASSUME NEW r \in Pids, Serves(r)
          PROVE  pid_set'[q].stop < pid_set'[p].stop \/ pid_set'[p].stop = StopCap
      <4>1. p # r /\ pid_set'[p] = pid_set[p]
        BY <3>2, <3>6 DEF Serves
      <4>2. CASE q = r
        <5>1. pid_set[p].stop > 0 \/ pid_set[p].stop = StopCap
          BY <2>2, <3>2, <3>6 DEF Credited, Serves
        <5> QED
          BY <3>6, <4>1, <4>2, <5>1, <2>1 DEF Serves
      <4>3. CASE q # r
        <5>1. pid_set'[q] = pid_set[q] /\ q \notin StartedNow
          BY <3>2, <3>6, <4>3 DEF Serves, StartedNow
        <5> QED
          BY <3>1, <3>3, <4>1, <5>1
      <4> QED
        BY <4>2, <4>3
    <3> QED
      BY <2>2, <3>1, <3>4, <3>5, <3>6
  <2> QED
    BY <1>1, <2>3, <2>4, <2>5 DEF FairInv, PassedBehind
<1> QED
  BY <1>2, <1>3

\* No process is given a core a second time while another is ready all along, however
\* many processes and cores there are, as long as times of rest are counted.
THEOREM NoSecondOvertakeHolds == FairSpec /\ []Counted => NoSecondOvertake
<1>1. FairInit => FairInv
  <2> SUFFICES ASSUME FairInit PROVE FairInv
    OBVIOUS
  <2>1. Inv
    BY InitInv DEF FairInit
  <2>2. PICK r \in RegVals : pid_set = [p \in Pids |->
          IF p = 1 THEN [Started(NoVm, <<0, 0>>) EXCEPT !.saved_reg = r] ELSE NoVm]
    BY DEF FairInit, Init
  <2>3. NoVm.stop = 0 /\ [Started(NoVm, <<0, 0>>) EXCEPT !.saved_reg = r].stop = 0
    BY DEF NoVm, Started
  <2>4. pc = "idle" /\ passed = [p \in Pids |-> {}]
    BY DEF FairInit, Init
  <2> QED
    BY <2>1, <2>2, <2>3, <2>4 DEF FairInv, Credited, PassedBehind
<1>2. FairInv /\ [FairNext]_fairVars => FairInv'
  BY FairStep
<1>3. FairInv /\ Counted /\ [FairNext]_fairVars =>
        [\A p \in Pids : p \in Ready /\ p \in Ready' =>
           passed[p] \cap StartedNow = {}]_fairVars
  <2> SUFFICES ASSUME FairInv, Counted, FairNext, NEW p \in Pids, p \in Ready,
                      NEW q \in passed[p], q \in StartedNow
               PROVE  FALSE
    BY DEF FairNext
  <2>1. /\ q \in Pids /\ pid_set[q].status = "S" /\ pid_set'[q].status = "R"
    BY DEF StartedNow
  <2>2. pid_set[p].stop \in 0 .. StopCap /\ pid_set[q].stop \in 0 .. StopCap
    <3>1. pid_set[p] \in VmType /\ pid_set[q] \in VmType
      BY <2>1 DEF FairInv, Inv, TypeOK, Ready
    <3> QED
      BY <3>1 DEF VmType
  <2>3. pid_set[q].stop < pid_set[p].stop
    BY <2>2, KernelAssumption DEF FairInv, PassedBehind, Counted
  <2>4. Undisturbed \/ (pc = "handle" /\ Credits) \/ \E r \in Pids : Serves(r)
    BY TimesStep DEF FairInv, FairNext
  <2>5. Serves(q)
    BY <2>1, <2>4 DEF Undisturbed, Credits, Serves
  <2> QED
    BY <2>2, <2>3, <2>5, KernelAssumption DEF Serves
<1> QED
  BY <1>1, <1>2, <1>3, PTL DEF FairSpec, NoSecondOvertake

-----------------------------------------------------------------------------
(* What the kernel makes of its cores.                                     *)

\* A core with a process has stopped only from the clock that stopped it until the
\* second loop has handled it; one that has never had a process, or was initialised
\* by execve, has no request to suspend.
CoreInv ==
    \A c \in CoreIds :
        /\ core[c].stat = "AOK" => core[c].drain < DrainMax
        /\ core[c].vm = NULL /\ core[c].stat = "AOK" =>
             core[c].signal = FALSE /\ core[c].drain = 0
        /\ core[c].vm # NULL =>
             /\ pc \in {"idle", "arrange"} => core[c].stat = "AOK"
             /\ pc = "run" /\ c \in todo => core[c].stat = "AOK"
             /\ pc = "handle" /\ c \notin todo => core[c].stat = "AOK"

\* What a step makes of the core c, as CoreStatus has it.
CoreSteps(c) == [CoreOf(c)!Next]_(CoreOf(c)!vars)

\* The fields of a core that has just been initialised.
LEMMA CoreFresh ==
    /\ InitCore.stat = "AOK" /\ InitCore.signal = FALSE /\ InitCore.drain = 0
    /\ \A v, p : /\ Loaded(v, p).stat = "AOK" /\ Loaded(v, p).signal = FALSE
                 /\ Loaded(v, p).drain = 0 /\ Loaded(v, p).vm = p
  BY DEF InitCore, Loaded

\* A core that a step leaves alone stutters.
LEMMA CoreRests ==
    ASSUME NEW c \in CoreIds, core'[c].stat = core[c].stat,
           core'[c].signal = core[c].signal, core'[c].drain = core[c].drain
    PROVE  CoreSteps(c)
  BY DEF CoreSteps, CoreOf!vars

\* The clock of a core that runs is one of CoreStatus, with the same outcomes.
LEMMA CoreClocks ==
    ASSUME NEW c \in CoreIds, NEW k \in CoreType, k = core[c], k.stat = "AOK",
           k.drain < DrainMax, core'[c].stat \in StatAfter(k),
           core'[c].signal = FALSE, core'[c].drain = Drain(k)
    PROVE  /\ CoreSteps(c)
           /\ core'[c].stat = "AOK" => core'[c].drain < DrainMax
<1>1. k.drain \in Nat /\ DrainMax \in Nat
  BY KernelAssumption DEF CoreType
<1>2. Drain(k) = CoreOf(c)!Drained
  BY <1>1 DEF Drain, CoreOf!Drained
<1>3. StatAfter(k) = CoreOf(c)!Outcomes(Drain(k))
  BY DEF StatAfter, CoreOf!Outcomes
<1>4. CoreOf(c)!Clock
  BY <1>2, <1>3 DEF CoreOf!Clock
<1>5. "AOK" \in StatAfter(k) => Drain(k) < DrainMax
  BY DEF StatAfter
<1> QED
  BY <1>4, <1>5 DEF CoreSteps, CoreOf!Next

\* What a handler leaves of its core: what there was, without a process, or a core
\* that has been initialised.
LEMMA CoreHandled ==
    ASSUME Inv, NEW c \in CoreIds, Handle(c)
    PROVE  /\ pc = "handle" /\ pc' = "handle" /\ c \in todo /\ todo' = todo \ {c}
           /\ core[c].stat # "AOK"
           /\ core' = [core EXCEPT ![c].vm = NULL] \/ core' = [core EXCEPT ![c] = InitCore]
<1>1. CASE HandleExit(c)
  BY <1>1 DEF HandleExit, AtCore, IsFirst
<1>2. CASE HandleFork(c)
  BY <1>2 DEF HandleFork, AtCore, IsFirst, SuspendOn
<1>3. CASE HandleExecve(c)
  BY <1>3 DEF HandleExecve, AtCore, IsFirst
<1>4. CASE HandleWaitpid(c)
  BY <1>4 DEF HandleWaitpid, AtCore, IsFirst, SuspendOn
<1>5. CASE HandleSuspend(c)
  BY <1>5 DEF HandleSuspend, AtCore, IsFirst, SuspendOn
<1>6. CASE HandleFault(c)
  BY <1>6 DEF HandleFault, AtCore, IsFirst
<1> QED
  BY <1>1, <1>2, <1>3, <1>4, <1>5, <1>6 DEF Handle

\* A step between two clocks of the cores that leaves all cores as they are.
LEMMA CoresRest ==
    ASSUME CoreInv, core' = core,
           \A c \in CoreIds : core[c].vm # NULL =>
             /\ pc' \in {"idle", "arrange"} => core[c].stat = "AOK"
             /\ pc' = "run" /\ c \in todo' => core[c].stat = "AOK"
             /\ pc' = "handle" /\ c \notin todo' => core[c].stat = "AOK"
    PROVE  CoreInv' /\ \A c \in CoreIds : CoreSteps(c)
<1>1. CoreInv'
  BY DEF CoreInv
<1> QED
  BY <1>1, CoreRests

LEMMA StepCores ==
    Inv /\ CoreInv /\ [Next]_vars => CoreInv' /\ \A c \in CoreIds : CoreSteps(c)
<1> SUFFICES ASSUME Inv, CoreInv, [Next]_vars
             PROVE  CoreInv' /\ \A c \in CoreIds : CoreSteps(c)
  OBVIOUS
<1>1. core \in [CoreIds -> CoreType] /\ pid_set \in [Pids -> VmType]
  BY DEF Inv, TypeOK
<1>2. \A c \in CoreIds : core[c].vm # NULL => c \in Busy
  BY DEF Inv, Placement, Busy
<1>3. CASE StartThreads
  <2>1. pc = "idle" /\ pc' = "run" /\ core' = core
    BY <1>3 DEF StartThreads
  <2>2. \A c \in CoreIds : core[c].vm # NULL => core[c].stat = "AOK"
    BY <2>1 DEF CoreInv
  <2> QED
    BY <2>1, <2>2, CoresRest
<1>4. CASE JoinThreads
  <2>1. pc' = "handle" /\ core' = core /\ todo' = {c \in Busy : core[c].stat # "AOK"}
    BY <1>4 DEF JoinThreads
  <2> QED
    BY <1>2, <2>1, CoresRest
<1>5. CASE Account
  <2>1. pc = "handle" /\ todo = {} /\ pc' = "arrange" /\ core' = core
    BY <1>5 DEF Account
  <2>2. \A c \in CoreIds : core[c].vm # NULL => core[c].stat = "AOK"
    BY <2>1 DEF CoreInv
  <2> QED
    BY <2>1, <2>2, CoresRest
<1>6. CASE ArrangeDone
  <2>1. pc = "arrange" /\ pc' = "idle" /\ core' = core
    BY <1>6 DEF ArrangeDone
  <2>2. \A c \in CoreIds : core[c].vm # NULL => core[c].stat = "AOK"
    BY <2>1 DEF CoreInv
  <2> QED
    BY <2>1, <2>2, CoresRest
<1>7. CASE SignalOverrun
  <2>1. /\ pc = "arrange" /\ pc' = "idle"
        /\ core' = [c \in CoreIds |->
                      IF \E p \in Pids : Overrun(pid_set[p]) /\ pid_set[p].cpu = c
                      THEN [core[c] EXCEPT !.signal = TRUE] ELSE core[c]]
    BY <1>7 DEF SignalOverrun
  <2>2. ASSUME NEW c \in CoreIds
        PROVE  /\ core'[c].vm = core[c].vm /\ core'[c].stat = core[c].stat
               /\ core'[c].drain = core[c].drain
               /\ \/ core'[c].signal = core[c].signal
                  \/ core'[c].signal = TRUE /\ core[c].vm # NULL
    <3>1. CASE \E p \in Pids : Overrun(pid_set[p]) /\ pid_set[p].cpu = c
      <4>1. core'[c] = [core[c] EXCEPT !.signal = TRUE]
        BY <2>1, <3>1
      <4>2. core[c].vm # NULL
        BY <3>1, KernelAssumption DEF Inv, Placement, Overrun
      <4> QED
        BY <1>1, <4>1, <4>2 DEF CoreType
    <3>2. CASE ~ \E p \in Pids : Overrun(pid_set[p]) /\ pid_set[p].cpu = c
      <4>1. core'[c] = core[c]
        BY <2>1, <3>2
      <4> QED
        BY <4>1
    <3> QED
      BY <3>1, <3>2
  <2>3. \A c \in CoreIds : core[c].vm # NULL => core[c].stat = "AOK"
    BY <2>1 DEF CoreInv
  <2>4. CoreInv'
    <3>1. ASSUME NEW c \in CoreIds
          PROVE  /\ core'[c].stat = "AOK" => core'[c].drain < DrainMax
                 /\ core'[c].vm = NULL /\ core'[c].stat = "AOK" =>
                      core'[c].signal = FALSE /\ core'[c].drain = 0
                 /\ core'[c].vm # NULL => core'[c].stat = "AOK"
      BY <2>2, <2>3 DEF CoreInv
    <3> QED
      BY <2>1, <3>1 DEF CoreInv
  <2>5. ASSUME NEW c \in CoreIds PROVE CoreSteps(c)
    <3>1. CASE core'[c].signal = core[c].signal
      BY <2>2, <3>1, CoreRests
    <3>2. CASE core'[c].signal # core[c].signal
      <4>1. CoreOf(c)!Ask
        BY <2>2, <2>3, <3>2 DEF CoreOf!Ask
      <4> QED
        BY <4>1 DEF CoreSteps, CoreOf!Next
    <3> QED
      BY <3>1, <3>2
  <2> QED
    BY <2>4, <2>5
<1>8. CASE EraseTrap
  <2>1. pc' = "trapped" /\ core' = core
    BY <1>8 DEF EraseTrap
  <2> QED
    BY <2>1, CoresRest
<1>9. ASSUME NEW c \in CoreIds, RunCore(c)
      PROVE  CoreInv' /\ \A d \in CoreIds : CoreSteps(d)
  <2>1. /\ pc = "run" /\ pc' = "run" /\ c \in todo /\ todo' = todo \ {c} /\ c \in Busy
        /\ core[c] \in CoreType
    BY <1>1, <1>9 DEF Inv, LoopOK, RunCore
  <2>2. PICK s \in StatAfter(core[c]), r \in RegVals, f \in CcVals :
          /\ core' = [core EXCEPT ![c] =
                        [@ EXCEPT !.stat = s, !.REG = r, !.cc = f, !.signal = FALSE,
                                  !.drain = Drain(core[c])]]
          /\ arch' = [arch EXCEPT ![core[c].vm] = [reg |-> r, cc |-> f]]
    BY <1>9 DEF RunCore
  <2>3. /\ core'[c].stat = s /\ core'[c].signal = FALSE /\ core'[c].drain = Drain(core[c])
        /\ core'[c].vm = core[c].vm
        /\ \A d \in CoreIds \ {c} : core'[d] = core[d]
    BY <1>1, <2>2 DEF CoreType
  <2>4. core[c].vm # NULL /\ core[c].stat = "AOK" /\ core[c].drain < DrainMax
    BY <2>1 DEF CoreInv, Busy
  <2>5. CoreSteps(c) /\ (core'[c].stat = "AOK" => core'[c].drain < DrainMax)
    BY <2>1, <2>3, <2>4, CoreClocks
  <2>6. CoreInv'
    BY <2>1, <2>3, <2>4, <2>5 DEF CoreInv
  <2> QED
    BY <2>3, <2>5, <2>6, CoreRests
<1>10. ASSUME NEW c \in CoreIds, Handle(c)
       PROVE  CoreInv' /\ \A d \in CoreIds : CoreSteps(d)
  <2>1. /\ pc = "handle" /\ pc' = "handle" /\ todo' = todo \ {c}
        /\ core[c].stat # "AOK"
        /\ core' = [core EXCEPT ![c].vm = NULL] \/ core' = [core EXCEPT ![c] = InitCore]
    BY <1>10, CoreHandled
  <2>2. /\ core'[c].vm = NULL
        /\ \A d \in CoreIds \ {c} : core'[d] = core[d]
    BY <1>1, <2>1 DEF CoreType, InitCore
  <2>3. CASE core' = [core EXCEPT ![c].vm = NULL]
    <3>1. core'[c].stat = core[c].stat /\ core'[c].signal = core[c].signal
          /\ core'[c].drain = core[c].drain
      BY <1>1, <2>3 DEF CoreType
    <3>2. CoreInv'
      BY <2>1, <2>2, <3>1 DEF CoreInv
    <3> QED
      BY <2>2, <3>1, <3>2, CoreRests
  <2>4. CASE core' = [core EXCEPT ![c] = InitCore]
    <3>1. core'[c].stat = "AOK" /\ core'[c].signal = FALSE /\ core'[c].drain = 0
      BY <1>1, <2>4, CoreFresh
    <3>2. CoreSteps(c)
      BY <2>1, <3>1 DEF CoreSteps, CoreOf!Next, CoreOf!Reload
    <3>3. CoreInv'
      BY <2>1, <2>2, <3>1, KernelAssumption DEF CoreInv
    <3> QED
      BY <2>2, <3>2, <3>3, CoreRests
  <2> QED
    BY <2>1, <2>3, <2>4
<1>11. ASSUME NEW c \in CoreIds, NEW p \in Pids, Dispatch(c, p)
       PROVE  CoreInv' /\ \A d \in CoreIds : CoreSteps(d)
  <2>1. /\ pc = "arrange" /\ pc' = "arrange" /\ c \in todo
        /\ core' = [core EXCEPT ![c] = Loaded(pid_set[p], p)]
    BY <1>11 DEF Dispatch, IsFirst
  <2>2. /\ core'[c].stat = "AOK" /\ core'[c].signal = FALSE /\ core'[c].drain = 0
        /\ \A d \in CoreIds \ {c} : core'[d] = core[d]
    BY <1>1, <2>1, CoreFresh
  <2>3. core[c].vm = NULL
    BY <2>1 DEF Inv, LoopOK, Idle
  <2>4. CoreInv'
    BY <2>1, <2>2, KernelAssumption DEF CoreInv
  <2>5. CASE core[c].stat = "AOK"
    <3>1. core[c].signal = FALSE /\ core[c].drain = 0
      BY <2>3, <2>5 DEF CoreInv
    <3> QED
      BY <2>2, <2>4, <2>5, <3>1, CoreRests
  <2>6. CASE core[c].stat # "AOK"
    <3>1. CoreSteps(c)
      BY <2>2, <2>6 DEF CoreSteps, CoreOf!Next, CoreOf!Reload
    <3> QED
      BY <2>2, <2>4, <3>1, CoreRests
  <2> QED
    BY <2>5, <2>6
<1>12. CASE AddCpu \/ AddCore \/ UNCHANGED vars
  <2>1. pc' = pc /\ todo' = todo /\ core' = core
    BY <1>12 DEF AddCpu, AddCore, vars
  <2>2. \A c \in CoreIds : core[c].vm # NULL =>
          /\ pc' \in {"idle", "arrange"} => core[c].stat = "AOK"
          /\ pc' = "run" /\ c \in todo' => core[c].stat = "AOK"
          /\ pc' = "handle" /\ c \notin todo' => core[c].stat = "AOK"
    BY <2>1 DEF CoreInv
  <2> QED
    BY <2>1, <2>2, CoresRest
<1> QED
  BY <1>3, <1>4, <1>5, <1>6, <1>7, <1>8, <1>9, <1>10, <1>11, <1>12
     DEF Next, Cycle, User

\* The kernel clocks, asks and loads its cores as it may, and counts on no more of
\* them than CoreStatus promises: for any number of cores, whatever they run.
THEOREM KernelDrivesCores == Spec => CoresSpec
<1>1. Init => CoreInv /\ \A c \in CoreIds : CoreOf(c)!Init
  <2> SUFFICES ASSUME Init
               PROVE  CoreInv /\ \A c \in CoreIds : CoreOf(c)!Init
    OBVIOUS
  <2>1. \A c \in CoreIds :
          core[c].stat = "AOK" /\ core[c].signal = FALSE /\ core[c].drain = 0
    BY CoreFresh DEF Init
  <2> QED
    BY <2>1, KernelAssumption DEF CoreInv, CoreOf!Init
<1>2. Inv /\ CoreInv /\ [Next]_vars => CoreInv'
  BY StepCores
<1>3. Inv /\ CoreInv /\ [Next]_vars
        => [\A c \in CoreIds : [CoreOf(c)!Next]_(CoreOf(c)!vars)]_core
  BY StepCores DEF CoreSteps
<1> QED
  BY <1>1, <1>2, <1>3, Invariance, PTL DEF Spec, CoresSpec

-----------------------------------------------------------------------------
(* Kernel implements ProcessTable.                                         *)

\* The first state of the kernel is one of the table's.
LEMMA TableInit == Init => Table!Init
<1> SUFFICES ASSUME Init PROVE Table!Init
  OBVIOUS
<1>1. PICK r \in RegVals :
        pid_set = [p \in Pids |->
                     IF p = 1 THEN [Started(NoVm, <<0, 0>>) EXCEPT !.saved_reg = r]
                              ELSE NoVm]
  BY DEF Init
<1>2. /\ pid_set[1].status = "R"
      /\ pid_set[1].waiting_pid = -1
      /\ \A p \in Pids \ {1} : pid_set[p].status = "none" /\ pid_set[p].waiting_pid = -1
  BY <1>1, StartedType, InitialTypes DEF VmType
<1>3. /\ core[<<0, 0>>].vm = 1
      /\ \A c \in CoreIds \ {<<0, 0>>} : core[c].vm = NULL
  BY InitialTypes, LoadedType DEF Init
<1> QED
  BY <1>2, <1>3, InitialTypes DEF Table!Init, LifeOf

\* A step of the kernel that leaves who lives, who runs where and who waits
\* for whom as they are is a stutter of the table.
LEMMA TableStutter ==
    ASSUME TypeOK,
           \A c \in CoreIds : core'[c].vm = core[c].vm,
           \A p \in Pids : /\ pid_set'[p].status = pid_set[p].status
                           /\ pid_set'[p].waiting_pid = pid_set[p].waiting_pid
    PROVE  UNCHANGED Table!vars
  BY DEF Table!vars, LifeOf

\* The refinement mapping of a status, value by value.
LEMMA LifeOfStatus ==
    /\ LifeOf["none"] = "none"
    /\ LifeOf["S"] = "ready"
    /\ LifeOf["R"] = "running"
    /\ LifeOf["T"] = "dead"
  BY DEF LifeOf

\* Every step of the kernel is a step of the table or a stutter.
LEMMA TableStep == Inv /\ [Next]_vars => [Table!Next]_(Table!vars)
<1> SUFFICES ASSUME Inv, [Next]_vars PROVE Table!Next \/ UNCHANGED Table!vars
  OBVIOUS
<1> DEFINE life == [p \in Pids |-> LifeOf[pid_set[p].status]]
           runs == [c \in CoreIds |-> core[c].vm]
           awaits == [p \in Pids |-> IF pid_set[p].waiting_pid > 0
                                     THEN pid_set[p].waiting_pid ELSE NULL]
<1>1. /\ core \in [CoreIds -> CoreType]
      /\ pid_set \in [Pids -> VmType]
  BY DEF Inv, TypeOK
<1>2. CASE UNCHANGED <<core, pid_set>>
  BY <1>2, TableStutter DEF Inv
<1>3. CASE Account
  <2>1. \A p \in Pids : /\ pid_set'[p].status = pid_set[p].status
                       /\ pid_set'[p].waiting_pid = pid_set[p].waiting_pid
    BY <1>1, <1>3, TimedType DEF Account
  <2> QED
    BY <1>3, <2>1, TableStutter DEF Account, Inv
<1>4. CASE SignalOverrun
  <2>1. \A c \in CoreIds : core'[c].vm = core[c].vm
    BY <1>1, <1>4 DEF SignalOverrun, CoreType
  <2> QED
    BY <1>4, <2>1, TableStutter DEF SignalOverrun, Inv
<1>5. ASSUME NEW c \in CoreIds, RunCore(c)
      PROVE  UNCHANGED Table!vars
  <2>1. \A d \in CoreIds : core'[d].vm = core[d].vm
    BY <1>1, <1>5 DEF RunCore, CoreType
  <2> QED
    BY <1>5, <2>1, TableStutter DEF RunCore, Inv
<1>6. ASSUME NEW c \in CoreIds, Handle(c)
      PROVE  Table!Next
  <2>1. PICK p \in Pids :
          p = core[c].vm /\ pid_set[p].status = "R" /\ pid_set[p] \in VmType
    BY <1>6, HandleEffect, Handled
  <2>2. /\ pid_set' \in [Pids -> VmType]
        /\ core'[c].vm = NULL
        /\ \A d \in CoreIds \ {c} : core'[d] = core[d]
    BY <1>6, HandleEffect
  <2>3. runs[c] = p /\ runs' = [runs EXCEPT ![c] = NULL]
    BY <2>1, <2>2
  <2>4. CASE Dies(c, p)
    <3>1. life' = [life EXCEPT ![p] = "dead"]
      BY <2>4, LifeOfStatus DEF Dies
    <3>2. awaits' = awaits
      BY <2>1, <2>4 DEF Dies
    <3>3. Table!Die(c, p)
      BY <2>3, <3>1, <3>2 DEF Table!Die
    <3> QED
      BY <2>1, <3>3 DEF Table!Next
  <2>5. CASE RestsAlone(c, p)
    <3>1. life' = [life EXCEPT ![p] = "ready"]
      BY <2>5, LifeOfStatus DEF RestsAlone, Rests
    <3>2. awaits' = [awaits EXCEPT ![p] = awaits'[p]]
      BY <2>5 DEF RestsAlone, Rests
    <3>3. awaits'[p] \in Pids \cup {NULL}
      BY <2>2 DEF VmType, WaitArgs, Pids
    <3>4. Table!Yield(c, p)
      BY <2>3, <3>1, <3>2, <3>3 DEF Table!Yield
    <3> QED
      BY <2>1, <3>4 DEF Table!Next
  <2>6. ASSUME NEW q \in Pids, Bears(c, p, q)
        PROVE  Table!Next
    <3>1. life[q] = "none" /\ life' = [life EXCEPT ![p] = "ready", ![q] = "ready"]
      <4>1. /\ pid_set[q].status = "none" /\ pid_set'[q].status = "S"
            /\ pid_set'[p].status = "S" /\ q # p
            /\ \A r \in Pids \ {p, q} : pid_set'[r].status = pid_set[r].status
        BY <2>6 DEF Bears, Rests
      <4>2. life[q] = "none" /\ \A r \in Pids : life'[r] =
              IF r \in {p, q} THEN "ready" ELSE life[r]
        BY <4>1, LifeOfStatus
      <4> QED
        BY ONLY <4>1, <4>2
    <3>2. awaits' = [awaits EXCEPT ![q] = awaits[p]]
      <4>1. /\ pid_set'[q].waiting_pid = pid_set[p].waiting_pid
            /\ \A r \in Pids \ {q} : pid_set'[r].waiting_pid = pid_set[r].waiting_pid
        BY <2>6 DEF Bears
      <4> QED
        BY <2>1, <4>1
    <3>3. Table!Spawn(c, p, q)
      BY <2>3, <3>1, <3>2 DEF Table!Spawn
    <3> QED
      BY <2>1, <3>3 DEF Table!Next
  <2> QED
    BY <1>6, <2>1, <2>4, <2>5, <2>6, HandleEffect
<1>7. ASSUME NEW c \in CoreIds, NEW p \in Pids, Dispatch(c, p)
      PROVE  Table!Next
  <2>1. /\ core[c].vm = NULL
        /\ pid_set[p].status = "S" /\ ~ Stalled(p)
        /\ pid_set[p] \in VmType
    BY <1>1, <1>7 DEF Inv, LoopOK, Dispatch, IsFirst, Idle
  <2>2. /\ pid_set'[p].status = "R"
        /\ pid_set'[p].waiting_pid = pid_set[p].waiting_pid
        /\ \A q \in Pids \ {p} : pid_set'[q] = pid_set[q]
    BY <1>1, <1>7, <2>1, StartedType DEF Dispatch
  <2>3. /\ core'[c].vm = p
        /\ \A d \in CoreIds \ {c} : core'[d] = core[d]
    BY <1>1, <1>7, <2>1, LoadedType DEF Dispatch
  <2>4. Table!Runnable(p)
    <3>1. life[p] = "ready"
      BY <2>1, LifeOfStatus
    <3>2. awaits[p] # NULL => life[awaits[p]] \in {"none", "dead"}
      <4>1. pid_set[p].waiting_pid > 0 => pid_set[p].waiting_pid \in Pids
        BY <2>1 DEF VmType, WaitArgs, Pids
      <4> QED
        BY <2>1, <4>1, LifeOfStatus DEF Stalled
    <3> QED
      BY <3>1, <3>2 DEF Table!Runnable
  <2>5. life' = [life EXCEPT ![p] = "running"]
    BY <2>2, LifeOfStatus
  <2>6. runs[c] = NULL /\ runs' = [runs EXCEPT ![c] = p]
    BY <2>1, <2>3
  <2>7. awaits' = awaits
    BY <2>2
  <2>8. Table!Start(c, p)
    BY <2>4, <2>5, <2>6, <2>7 DEF Table!Start
  <2> QED
    BY <2>8 DEF Table!Next
<1> QED
  BY <1>2, <1>3, <1>4, <1>5, <1>6, <1>7
     DEF Next, Cycle, User, vars, StartThreads, JoinThreads, ArrangeDone, EraseTrap,
         AddCpu, AddCore

\* The kernel keeps the promises of ProcessTable: its clocks, its accounting,
\* its order of service and its hardware are all details of it.
THEOREM KernelImplementsTable == Spec => TableSpec
<1>1. Init => Table!Init
  BY TableInit
<1>2. Inv /\ [Next]_vars => [Table!Next]_(Table!vars)
  BY TableStep
<1> QED
  BY <1>1, <1>2, Invariance, PTL DEF Spec, TableSpec, Table!Spec

=============================================================================
