--------------------------- MODULE L1CacheProofs ---------------------------
(***************************************************************************)
(* What L1Cache promises for any number of caches, tags, offsets and       *)
(* values: its types, a single writer, and that this writer has the last   *)
(* bytes.                                                                  *)
(***************************************************************************)
EXTENDS L1Cache, TLAPS

-----------------------------------------------------------------------------

\* Memory keeps its type when lines are written back.
LEMMA WrittenBackType ==
    ASSUME TypeOK, NEW c \in Cpus, NEW t \in Tags
    PROVE  WrittenBack(c, t) \in [Tags -> Blocks]
<1>1. CASE Dirty(c, t) = {}
  BY <1>1 DEF TypeOK, WrittenBack
<1>2. CASE Dirty(c, t) # {}
  <2>1. (CHOOSE d \in Dirty(c, t) : TRUE) \in Cpus
    BY <1>2 DEF Dirty
  <2>2. QED
    BY <2>1, <1>2 DEF TypeOK, WrittenBack
<1>3. QED
  BY <1>1, <1>2

\* The variables of L1Cache stay in their types.
THEOREM CacheTypes == Spec => []TypeOK
<1>1. Init => TypeOK
  BY CacheAssumption DEF Init, TypeOK, Blocks
<1>2. TypeOK /\ [Next]_vars => TypeOK'
  <2>1. SUFFICES ASSUME TypeOK, [Next]_vars
                 PROVE  TypeOK'
    OBVIOUS
  <2>2. ASSUME NEW c \in Cpus, NEW t \in Tags, Load(c, t)
        PROVE  TypeOK'
    <3>1. [WrittenBack(c, t) EXCEPT ![tag[c]] = block[c]] \in [Tags -> Blocks]
      BY <2>1, WrittenBackType DEF TypeOK
    <3>2. mem' \in [Tags -> Blocks] /\ block' \in [Cpus -> Blocks]
      BY <2>1, <2>2, <3>1 DEF TypeOK, Load
    <3>3. valid' \in [Cpus -> {"I", "M", "S"}]
      BY <2>1, <2>2 DEF TypeOK, Load, Shared
    <3>4. /\ tag' \in [Cpus -> Tags]
          /\ own' \in [Cpus -> SUBSET Offsets]
          /\ last' \in [Tags -> Blocks]
      BY <2>1, <2>2 DEF TypeOK, Load
    <3>5. QED
      BY <3>2, <3>3, <3>4 DEF TypeOK
  <2>3. ASSUME NEW c \in Cpus, NEW t \in Tags, NEW o \in Offsets, NEW b \in Vals,
               Store(c, t, o, b)
        PROVE  TypeOK'
    <3>1. block' \in [Cpus -> Blocks] /\ last' \in [Tags -> Blocks]
      BY <2>1, <2>3 DEF TypeOK, Store, Blocks
    <3>2. valid' \in [Cpus -> {"I", "M", "S"}]
      BY <2>1, <2>3 DEF TypeOK, Store, Invalidated
    <3>3. mem' \in [Tags -> Blocks] /\ tag' \in [Cpus -> Tags]
      BY <2>1, <2>3 DEF TypeOK, Store
    <3>4. own' \in [Cpus -> SUBSET Offsets]
      BY <2>1, <2>3 DEF TypeOK, Store
    <3>5. QED
      BY <3>1, <3>2, <3>3, <3>4 DEF TypeOK
  <2>4. CASE UNCHANGED vars
    BY <2>1, <2>4 DEF TypeOK, vars
  <2>5. QED
    BY <2>1, <2>2, <2>3, <2>4 DEF Next
<1>3. QED
  BY <1>1, <1>2, PTL DEF Spec

-----------------------------------------------------------------------------

\* While one cache has a line modified no other has a valid copy of it: a load
\* leaves the lines it had written back shared, a store invalidates the others.
THEOREM SingleWriterHolds == Spec => []SingleWriter
<1>1. Init => SingleWriter
  BY DEF Init, SingleWriter
<1>2. TypeOK /\ SingleWriter /\ [Next]_vars => SingleWriter'
  <2>1. SUFFICES ASSUME TypeOK, SingleWriter, [Next]_vars,
                        NEW x \in Cpus, NEW y \in Cpus,
                        x # y, valid'[x] = "M", tag'[y] = tag'[x]
                 PROVE  valid'[y] = "I"
    BY DEF SingleWriter
  <2>2. ASSUME NEW c \in Cpus, NEW t \in Tags, Load(c, t)
        PROVE  valid'[y] = "I"
    <3>1. x # c /\ valid[x] = "M" /\ x \notin Dirty(c, t)
      BY <2>1, <2>2 DEF TypeOK, Load, Shared
    <3>2. tag[x] # t
      BY <3>1 DEF Dirty
    <3>3. y # c /\ tag[y] = tag[x]
      BY <2>1, <2>2, <3>1, <3>2 DEF TypeOK, Load
    <3>4. valid[y] = "I" /\ y \notin Dirty(c, t)
      BY <2>1, <3>1, <3>3 DEF SingleWriter, Dirty
    <3>5. QED
      BY <2>2, <3>3, <3>4 DEF Load, Shared
  <2>3. ASSUME NEW c \in Cpus, NEW t \in Tags, NEW o \in Offsets, NEW b \in Vals,
               Store(c, t, o, b)
        PROVE  valid'[y] = "I"
    <3>1. CASE x = c
      BY <2>1, <2>3, <3>1 DEF TypeOK, Store, Invalidated
    <3>2. CASE x # c
      <4>1. valid[x] = "M" /\ tag[x] # t /\ tag'[x] = tag[x]
        BY <2>1, <2>3, <3>2 DEF TypeOK, Store, Invalidated
      <4>2. y # c /\ tag[y] = tag[x]
        BY <2>1, <2>3, <4>1 DEF TypeOK, Store
      <4>3. QED
        BY <2>1, <2>3, <4>1, <4>2 DEF SingleWriter, Store, Invalidated
    <3>3. QED
      BY <3>1, <3>2
  <2>4. CASE UNCHANGED vars
    BY <2>1, <2>4 DEF SingleWriter, vars
  <2>5. QED
    BY <2>1, <2>2, <2>3, <2>4 DEF Next
<1>3. QED
  BY <1>1, <1>2, CacheTypes, PTL DEF Spec

-----------------------------------------------------------------------------

\* Only the owner of a line has written to it since it is modified.
OwnersOnly == \A c \in Cpus : valid[c] # "M" => own[c] = {}

\* The bytes a CPU has written since it owns a line are, in its cache, the last
\* that any CPU wrote there: nobody writes to that block without invalidating it.
THEOREM OwnWritesLastHolds == Spec => []OwnWritesLast
<1> DEFINE IInv == OwnersOnly /\ OwnWritesLast
<1>1. Init => IInv
  BY DEF Init, OwnersOnly, OwnWritesLast
<1>2. TypeOK /\ IInv /\ [Next]_vars => IInv'
  <2>1. SUFFICES ASSUME TypeOK, IInv, [Next]_vars
                 PROVE  IInv'
    OBVIOUS
  <2>2. ASSUME NEW c \in Cpus, NEW t \in Tags, Load(c, t)
        PROVE  IInv'
    <3>1. OwnersOnly'
      BY <2>1, <2>2 DEF Load, OwnersOnly
    <3>2. ASSUME NEW d \in Cpus, valid'[d] = "M", NEW p \in own'[d]
          PROVE  block'[d][p] = last'[tag'[d]][p]
      <4>1. d # c /\ valid[d] = "M"
        BY <2>1, <2>2, <3>2 DEF TypeOK, Load, Shared
      <4>2. block'[d] = block[d] /\ tag'[d] = tag[d] /\ own'[d] = own[d] /\ last' = last
        BY <2>1, <2>2, <3>2, <4>1 DEF TypeOK, Load
      <4>3. QED
        BY <2>1, <3>2, <4>1, <4>2 DEF OwnWritesLast
    <3>3. QED
      BY <3>1, <3>2 DEF OwnWritesLast
  <2>3. ASSUME NEW c \in Cpus, NEW t \in Tags, NEW o \in Offsets, NEW b \in Vals,
               Store(c, t, o, b)
        PROVE  IInv'
    <3>1. OwnersOnly'
      BY <2>1, <2>3 DEF TypeOK, Store, Invalidated, OwnersOnly
    <3>2. ASSUME NEW d \in Cpus, valid'[d] = "M", NEW p \in own'[d]
          PROVE  block'[d][p] = last'[tag'[d]][p]
      <4>1. p \in Offsets
        BY <2>1, <2>3, <3>2 DEF TypeOK, Store
      <4>2. CASE d # c
        <5>1. valid[d] = "M" /\ tag[d] # t
          BY <2>1, <2>3, <3>2, <4>2 DEF TypeOK, Store, Invalidated
        <5>2. /\ block'[d] = block[d] /\ tag'[d] = tag[d]
              /\ own'[d] = own[d] /\ last'[tag[d]] = last[tag[d]]
          BY <2>1, <2>3, <3>2, <4>2, <5>1 DEF TypeOK, Store
        <5>3. QED
          BY <2>1, <3>2, <5>1, <5>2 DEF OwnWritesLast
      <4>3. CASE d = c /\ p = o
        BY <2>1, <2>3, <4>1, <4>3 DEF TypeOK, Store, Blocks
      <4>4. CASE d = c /\ p # o
        <5>1. p \in own[c] /\ Hit(c, t)
          BY <2>1, <2>3, <3>2, <4>4 DEF TypeOK, Store
        <5>2. valid[c] = "M" /\ tag[c] = t
          BY <2>1, <5>1 DEF OwnersOnly, Hit
        <5>3. block'[c][p] = block[c][p] /\ last'[t][p] = last[t][p] /\ tag'[c] = t
          BY <2>1, <2>3, <4>1, <4>4 DEF TypeOK, Store, Blocks
        <5>4. QED
          BY <2>1, <4>4, <5>1, <5>2, <5>3 DEF OwnWritesLast
      <4>5. QED
        BY <4>2, <4>3, <4>4
    <3>3. QED
      BY <3>1, <3>2 DEF OwnWritesLast
  <2>4. CASE UNCHANGED vars
    BY <2>1, <2>4 DEF OwnersOnly, OwnWritesLast, vars
  <2>5. QED
    BY <2>1, <2>2, <2>3, <2>4 DEF Next
<1>3. QED
  BY <1>1, <1>2, CacheTypes, PTL DEF Spec

=============================================================================
