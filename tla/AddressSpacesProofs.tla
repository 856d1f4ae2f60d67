------------------------ MODULE AddressSpacesProofs ------------------------
(***************************************************************************)
(* VirtualMemory.tla implements AddressSpaces.tla: with two processes that *)
(* take turns, every one of them has the memory of its own that it reads.  *)
(***************************************************************************)
EXTENDS VirtualMemoryProofs

-----------------------------------------------------------------------------
(* What a process reads.                                                   *)

\* The stores are to no text, nor to the address behind one, which its area holds
\* too, and not to the address behind the last area, which is on no page.
StoresTo(addrs, images) ==
    \A a \in addrs : a < ArgsEnd /\ \A image \in images : DataAt(image) < a

StoresOK == StoresTo(StoreAddrs, Images)

\* Steps with these addresses and programs.
Suits(addrs, images) ==
    /\ Possible(addrs, images)
    /\ \A image \in images : Packed(image)
    /\ StoresTo(addrs, images)

\* Two pages of a process are two physical pages.
OneFrame(v) ==
    \A x, y \in Pages :
        x < ArgsEnd /\ y < ArgsEnd /\ x # y /\ Valid(v, x) /\ Valid(v, y) =>
            Frame(v, x) # Frame(v, y)

\* No store is to a text.
TextSafe(v, addrs) ==
    \A i \in DOMAIN v.vm_area : v.vm_area[i].section_name = "text" =>
        \A a \in addrs : ~ Holds(v.vm_area[i], a)

\* The store under way still finds in memory what it read.
StoreMatches(addrs) ==
    \A p \in Pids : store[p] # NULL =>
        /\ store[p].addr \in addrs
        /\ MustCopy(vm[p], store[p].addr)
        /\ \A x \in Phys : x[1] = Frame(vm[p], PageOf(store[p].addr)) =>
             store[p].buf[x[2]] = mem[x]

\* The inductive invariant for the refinement.
SpaceInv(addrs) ==
    /\ CowInv
    /\ \A p \in Live : OneFrame(vm[p]) /\ TextSafe(vm[p], addrs)
    /\ StoreMatches(addrs)

\* What is read at the private addresses of a VM.
SpaceOf(v, bytes) ==
    [a \in Addr |-> IF Private(v, a) THEN bytes[PhyAddr(v, a)] ELSE 0]

SpaceMap ==
    [p \in Pids |-> IF vm[p] = NULL THEN NULL
                    ELSE [a \in Addr |-> IF Private(vm[p], a)
                                         THEN mem[PhyAddr(vm[p], a)] ELSE 0]]

LEMMA SpaceType ==
    ASSUME NEW v \in VmType, NEW bytes \in [Phys -> Vals]
    PROVE  /\ SpaceOf(v, bytes) \in [Addr -> Vals]
           /\ SpaceOf(v, bytes) # NULL
<1>1. \A a \in Addr : PhyAddr(v, a) \in Phys
  BY PhyAddrType
<1>2. SpaceOf(v, bytes) \in [Addr -> Vals]
  BY <1>1, MemoryAssumption DEF SpaceOf
<1> QED
  BY <1>2, NullAssumption

\* A private address is on a valid page below the end.
LEMMA PrivatePage ==
    ASSUME NEW v \in VmType, AreasOK(v), NEW a \in Addr, Private(v, a)
    PROVE  /\ InArea(v, a) /\ a < ArgsEnd /\ a \in Nat
           /\ PageOf(a) \in Pages /\ PageOf(a) < ArgsEnd
           /\ Valid(v, PageOf(a))
<1>1. PICK i \in DOMAIN v.vm_area : v.vm_area[i].start <= a /\ a < v.vm_area[i].end
  BY DEF Private
<1>2. v.vm_area \in Seq(AreaType)
  BY DEF VmType, AreaType, AreaNames
<1>3. v.vm_area[i] \in AreaType
  BY <1>2
<1>4. v.vm_area[i].end \in Nat /\ v.vm_area[i].end <= ArgsEnd /\ a \in Nat
  BY <1>3, Sizes DEF AreaType, Addr
<1>5. InArea(v, a)
  BY <1>1, <1>4 DEF InArea, Holds
<1>6. a < ArgsEnd
  BY <1>1, <1>4, Sizes
<1>7. PageOf(a) \in Pages /\ PageOf(a) \in Nat /\ PageOf(a) <= a
  BY <1>4, PagesAre, PageFacts
<1> QED
  BY <1>4, <1>5, <1>6, <1>7, Sizes DEF Private, Valid

\* Within a process two private addresses are two bytes.
LEMMA OneByte ==
    ASSUME NEW v, OneFrame(v), NEW a \in Nat, NEW b \in Nat,
           PageOf(a) \in Pages, PageOf(b) \in Pages,
           PageOf(a) < ArgsEnd, PageOf(b) < ArgsEnd,
           Valid(v, PageOf(a)), Valid(v, PageOf(b)),
           PhyAddr(v, a) = PhyAddr(v, b)
    PROVE  a = b
<1>1. Frame(v, PageOf(a)) = Frame(v, PageOf(b)) /\ a % PageSize = b % PageSize
  BY DEF PhyAddr
<1>2. PageOf(a) = PageOf(b)
  BY <1>1 DEF OneFrame
<1>3. /\ a = PageOf(a) + (a % PageSize) /\ b = PageOf(b) + (b % PageSize)
  BY PageFacts
<1> QED
  BY <1>1, <1>2, <1>3

\* What is private depends on the areas and on what is valid.
LEMMA SamePrivate ==
    ASSUME NEW v, NEW w, NEW a \in Addr, w.vm_area = v.vm_area,
           Valid(v, PageOf(a)) <=> Valid(w, PageOf(a))
    PROVE  Private(w, a) <=> Private(v, a)
BY DEF Private, AreaOf, Valid

LEMMA SameSpace ==
    ASSUME NEW v, NEW w, NEW b, NEW c,
           \A a \in Addr : Private(w, a) <=> Private(v, a),
           \A a \in Addr : Private(v, a) => c[PhyAddr(w, a)] = b[PhyAddr(v, a)]
    PROVE  SpaceOf(w, c) = SpaceOf(v, b)
BY DEF SpaceOf

-----------------------------------------------------------------------------
(* execve writes to the pages it was given, and to no other.               *)

\* The addresses of a section are on pages that are new since m0.
OnNew(m0, k, start, len) ==
    \A a \in start .. start + len - 1 : New(m0, k, PageOf(a)) /\ PageOf(a) \in Pages

\* The bytes m0 uses are the same in m and k.
SameBytes(m0, m, k) ==
    \A x \in Phys : x[1] \in m0.used => k.mem[x] = m.mem[x]

\* The bytes of a section on pages that are new since m0 are no byte m0 uses.
LEMMA SectionMemory ==
    ASSUME NEW m0, NEW m, NEW k, NEW name, NEW start \in Nat, NEW len \in Nat, NEW prot,
           Section(m, k, name, start, len, prot), Grows(m0, k),
           AllFrames \ k.used # {}, OnNew(m0, k, start, len)
    PROVE  SameBytes(m0, m, k)
<1> SUFFICES ASSUME NEW x \in Phys, x[1] \in m0.used,
                    NEW a \in start .. start + len - 1, x = PhyAddr(k.v, a)
             PROVE  FALSE
  BY DEF Section, SameBytes
<1>1. New(m0, k, PageOf(a)) /\ PageOf(a) \in Pages
  BY DEF OnNew
<1>2. k.v.pgd[PageOf(a)] \notin m0.used /\ k.v.pgd[PageOf(a)] \in k.used
  BY <1>1 DEF Grows
<1>3. k.v.pgd[PageOf(a)] # NULL
  BY <1>2, NullAssumption, Sizes DEF Section, MemState, AllFrames
<1>4. x[1] = Frame(k.v, PageOf(a))
  BY DEF PhyAddr
<1> QED
  BY <1>2, <1>3, <1>4 DEF Frame

\* An address below the end of a part of the program is on a page of a section
\* that begins below.
LEMMA PartPages ==
    ASSUME NEW image \in ImageType, EndAt(image) <= StackStart, Packed(image),
           NEW a \in Nat
    PROVE  /\ a < DataAt(image) => Covers(0, DataAt(image), PageOf(a))
           /\ a < BssAt(image) => \/ Covers(0, DataAt(image), PageOf(a))
                                  \/ Covers(DataAt(image), Len(image.data), PageOf(a))
           /\ a <= EndAt(image) => Covered(image, PageOf(a))
<1>1. /\ DataAt(image) \in Nat /\ BssAt(image) \in Nat /\ EndAt(image) \in Nat
      /\ DataAt(image) <= BssAt(image) /\ BssAt(image) <= EndAt(image)
  BY ImagePlaces
<1>2. PageOf(a) \in Nat /\ PageOf(a) <= a
  BY PageFacts
<1>3. a <= EndAt(image) => Covered(image, PageOf(a))
  BY <1>1 DEF Packed
<1>4. a < BssAt(image) => ~ Covers(BssAt(image), image.bss, PageOf(a))
  BY <1>1, <1>2 DEF Covers
<1>5. a < DataAt(image) => ~ Covers(DataAt(image), Len(image.data), PageOf(a))
  BY <1>1, <1>2 DEF Covers
<1>6. a < BssAt(image) => a <= EndAt(image)
  BY <1>1
<1>7. a < DataAt(image) => a < BssAt(image)
  BY <1>1
<1> QED
  BY <1>3, <1>4, <1>5, <1>6, <1>7 DEF Covered

LEMMA LowAddresses ==
    ASSUME NEW a \in Nat, a < ArgsStart
    PROVE  PageOf(a) \in Pages /\ PageOf(a) < ArgsStart
<1>1. a \in Addr
  BY Sizes DEF Addr
<1>2. PageOf(a) \in Nat /\ PageOf(a) <= a
  BY PageFacts
<1> QED
  BY <1>1, <1>2, PagesAre, Sizes

LEMMA Between ==
    ASSUME NEW x \in Nat, NEW len \in Nat, NEW a \in x .. x + len - 1
    PROVE  a \in Nat /\ x <= a /\ a < x + len
OBVIOUS

\* execve of an image where there are arguments already brings m to n, with the VM
\* after each section of the program between: what is written where, and that it is
\* on pages that were allocated for it.
Built(m, image, text, data, bss, n) ==
    LET m0 == ClearedOf(m) IN
    /\ m0.used = m.used /\ m0.mem = m.mem
    /\ \A pg \in Pages : pg < ArgsStart => ~ Valid(m0.v, pg)
    /\ text \in MemState /\ data \in MemState /\ bss \in MemState /\ n \in MemState
    /\ Section(m0, text, "text", 0, DataAt(image), "RONLY")
    /\ Section(text, data, "data", DataAt(image), Len(image.data), "RW")
    /\ Section(data, bss, "bss", BssAt(image), image.bss, "RW")
    /\ Section(bss, n, "stack", StackStart, ArgsStart - StackStart, "RW")
    /\ Filled(text, 0, image.text)
    /\ Filled(data, DataAt(image), image.data)
    /\ Filled(bss, BssAt(image), Zeros(image.bss))
    /\ Grows(m0, text) /\ Grows(m0, data) /\ Grows(m0, bss) /\ Grows(m0, n)
    /\ \A a \in Nat : /\ a < DataAt(image) => Valid(text.v, PageOf(a))
                      /\ a < BssAt(image) => Valid(data.v, PageOf(a))
                      /\ a <= EndAt(image) => Valid(bss.v, PageOf(a))
                      /\ StackStart <= a /\ a < ArgsStart => Valid(n.v, PageOf(a))

\* The places of the sections, in numbers.
Places(image) ==
    /\ DataAt(image) \in Nat /\ BssAt(image) \in Nat /\ EndAt(image) \in Nat
    /\ DataAt(image) <= BssAt(image) /\ BssAt(image) <= EndAt(image)
    /\ EndAt(image) <= StackStart
    /\ DataAt(image) + Len(image.data) = BssAt(image)
    /\ BssAt(image) + image.bss = EndAt(image)
    /\ StackStart + (ArgsStart - StackStart) = ArgsStart
    /\ Len(image.data) \in Nat /\ image.bss \in Nat /\ ArgsStart - StackStart \in Nat

LEMMA ImageInPlace ==
    ASSUME NEW image \in ImageType, EndAt(image) <= StackStart
    PROVE  Places(image)
<1>1. image.data \in Seq(Vals) /\ image.bss \in Nat
  BY DEF ImageType
<1>2. Len(image.data) \in Nat
  BY <1>1, LenProperties
<1>3. ArgsStart - StackStart \in Nat
  BY Sizes
<1> QED
  BY <1>1, <1>2, <1>3, ImagePlaces DEF Places

LEMMA ExecutedBuilt ==
    ASSUME NEW m \in MemState, AreasOK(m.v), PagesOK(m.v), NEW image \in ImageType,
           EndAt(image) <= StackStart, Packed(image)
    PROVE  \E text, data, bss : Built(m, image, text, data, bss, Executed(m, image))
<1> DEFINE n == Executed(m, image)
           m0 == ClearedOf(m)
<1>0. Base(m.v) /\ m.v \in VmType /\ m.v.vm_area # <<>>
  BY DEF Base, MemState, AreasOK
<1>1. PICK text, data, bss, stack \in MemState :
         Sections(m, image, text, data, bss, stack, n)
  BY <1>0, ExecutedSections
<1> HIDE DEF n
<1>2. /\ m0 \in MemState /\ m0.v = Cleared(m.v) /\ m0.used = m.used /\ m0.mem = m.mem
      /\ Grows(m0, m0)
  BY <1>0, ClearedIs, GrowsReflexive DEF ClearedOf, MemState
<1>3. \A pg \in Pages : pg < ArgsStart => ~ Valid(m0.v, pg)
  <2> SUFFICES ASSUME NEW pg \in Pages, pg < ArgsStart
               PROVE  Cleared(m.v).pgd_valid[pg] = "INVALID"
    BY <1>2 DEF Valid
  <2>1. Cleared(m.v).pgd_valid[pg] =
          IF m.v.pgd[pg] # NULL /\ pg < ArgsStart THEN "INVALID" ELSE m.v.pgd_valid[pg]
    BY <1>0, ClearedIs
  <2>2. pg < ArgsEnd
    BY PagesAre, Sizes
  <2> QED
    BY <2>1, <2>2 DEF PagesOK, Valid
<1>4. Cleared(m.v).vm_area # <<>>
  <2>1. PICK j \in DOMAIN m.v.vm_area : Cleared(m.v).vm_area = <<m.v.vm_area[j]>>
    BY <1>0, ClearedIs
  <2> QED
    BY <2>1
<1>5. /\ Section(m0, text, "text", 0, DataAt(image), "RONLY")
      /\ Section(text, data, "data", DataAt(image), Len(image.data), "RW")
      /\ Section(data, bss, "bss", BssAt(image), image.bss, "RW")
      /\ Section(bss, stack, "stack", StackStart, ArgsStart - StackStart, "RW")
      /\ n = stack
  BY <1>1, <1>4 DEF Sections
<1> HIDE DEF m0
<1>6. /\ Grows(m0, text)
      /\ \A pg \in Pages : Covers(0, DataAt(image), pg) => Valid(text.v, pg)
  BY <1>2, <1>5, SectionGrows
<1>7. /\ Grows(m0, data)
      /\ \A pg \in Pages : Valid(text.v, pg) => Valid(data.v, pg)
      /\ \A pg \in Pages : Covers(DataAt(image), Len(image.data), pg) => Valid(data.v, pg)
  BY <1>5, <1>6, SectionGrows
<1>8. /\ Grows(m0, bss)
      /\ \A pg \in Pages : Valid(data.v, pg) => Valid(bss.v, pg)
      /\ \A pg \in Pages : Covers(BssAt(image), image.bss, pg) => Valid(bss.v, pg)
  BY <1>5, <1>7, SectionGrows
<1>9. /\ Grows(m0, stack)
      /\ \A pg \in Pages :
           Covers(StackStart, ArgsStart - StackStart, pg) => Valid(stack.v, pg)
  BY <1>5, <1>8, SectionGrows
<1>10. Places(image)
  BY ImageInPlace
<1>11. ASSUME NEW a \in Nat, a < ArgsStart
       PROVE  PageOf(a) \in Pages /\ PageOf(a) < ArgsStart
  BY <1>11, LowAddresses
<1>12. ASSUME NEW a \in Nat, a < DataAt(image)
       PROVE  Valid(text.v, PageOf(a))
  <2>1. a < ArgsStart
    BY <1>10, <1>12, Sizes DEF Places
  <2> QED
    BY <1>6, <1>11, <1>12, <2>1, PartPages
<1>13. ASSUME NEW a \in Nat, a < BssAt(image)
       PROVE  Valid(data.v, PageOf(a))
  <2>1. a < ArgsStart
    BY <1>10, <1>13, Sizes DEF Places
  <2> QED
    BY <1>6, <1>7, <1>11, <1>13, <2>1, PartPages
<1>14. ASSUME NEW a \in Nat, a <= EndAt(image)
       PROVE  Valid(bss.v, PageOf(a))
  <2>1. a < ArgsStart
    BY <1>10, <1>14, Sizes DEF Places
  <2>2. Covered(image, PageOf(a))
    BY <1>14, PartPages
  <2> QED
    BY <1>6, <1>7, <1>8, <1>11, <2>1, <2>2 DEF Covered
<1>15. ASSUME NEW a \in Nat, StackStart <= a, a < ArgsStart
       PROVE  Valid(stack.v, PageOf(a))
  <2>1. StackStart <= PageOf(a)
    BY <1>15, PageAbove, Sizes
  <2>2. Covers(StackStart, ArgsStart - StackStart, PageOf(a))
    BY <1>10, <1>11, <1>15, <2>1, Sizes DEF Covers, Places
  <2> QED
    BY <1>9, <1>11, <1>15, <2>2
<1>16. /\ Filled(text, 0, image.text)
       /\ Filled(data, DataAt(image), image.data)
       /\ Filled(bss, BssAt(image), Zeros(image.bss))
  BY <1>1 DEF Sections
<1>17. Built(m, image, text, data, bss, n)
  BY <1>2, <1>3, <1>5, <1>6, <1>7, <1>8, <1>9, <1>12, <1>13, <1>14, <1>15, <1>16
     DEF Built, m0
<1> QED
  BY <1>17 DEF n

LEMMA ExecutedMemory ==
    ASSUME NEW m \in MemState, AreasOK(m.v), PagesOK(m.v), NEW image \in ImageType,
           EndAt(image) <= StackStart, Packed(image),
           AllFrames \ Executed(m, image).used # {}
    PROVE  SameBytes(m, m, Executed(m, image))
<1> DEFINE n == Executed(m, image)
           m0 == ClearedOf(m)
<1>1. PICK text, data, bss : Built(m, image, text, data, bss, n)
  BY ExecutedBuilt
<1>2. AllFrames \ n.used # {}
  OBVIOUS
<1> HIDE DEF n, m0
<1>3. Places(image)
  BY ImageInPlace
<1>4. /\ m0.used = m.used /\ m0.mem = m.mem
      /\ Section(m0, text, "text", 0, DataAt(image), "RONLY")
      /\ Section(text, data, "data", DataAt(image), Len(image.data), "RW")
      /\ Section(data, bss, "bss", BssAt(image), image.bss, "RW")
      /\ Section(bss, n, "stack", StackStart, ArgsStart - StackStart, "RW")
      /\ Grows(m0, text) /\ Grows(m0, data) /\ Grows(m0, bss) /\ Grows(m0, n)
  BY <1>1 DEF Built, m0
<1>5. /\ AllFrames \ text.used # {} /\ AllFrames \ data.used # {}
      /\ AllFrames \ bss.used # {}
  <2>1. /\ text.used \subseteq data.used /\ data.used \subseteq bss.used
        /\ bss.used \subseteq n.used
    BY <1>4 DEF Section, Grows
  <2> QED
    BY <1>2, <2>1
<1>6. \A a \in Nat : a < ArgsStart => PageOf(a) \in Pages /\ ~ Valid(m0.v, PageOf(a))
  BY <1>1, LowAddresses DEF Built, m0
<1>7. /\ 0 \in Nat /\ StackStart \in Nat /\ ArgsStart \in Nat /\ StackStart < ArgsStart
      /\ 0 + DataAt(image) = DataAt(image)
  BY <1>3, Sizes DEF Places
<1>8. \A a \in Nat : /\ a < DataAt(image) => Valid(text.v, PageOf(a))
                     /\ a < BssAt(image) => Valid(data.v, PageOf(a))
                     /\ a <= EndAt(image) => Valid(bss.v, PageOf(a))
                     /\ StackStart <= a /\ a < ArgsStart => Valid(n.v, PageOf(a))
  BY <1>1 DEF Built
<1>9. SameBytes(m0, m0, text)
  <2>1. ASSUME NEW a \in 0 .. 0 + DataAt(image) - 1
        PROVE  New(m0, text, PageOf(a)) /\ PageOf(a) \in Pages
    <3>1. a \in Nat /\ a < 0 + DataAt(image)
      BY ONLY <1>3, <1>7, Between DEF Places
    <3>2. a < DataAt(image) /\ a < ArgsStart
      BY ONLY <1>3, <1>7, <3>1 DEF Places
    <3> QED
      BY <1>6, <1>8, <3>1, <3>2 DEF New
  <2>2. OnNew(m0, text, 0, DataAt(image)) /\ DataAt(image) \in Nat
    BY <1>3, <2>1 DEF OnNew, Places
  <2> QED
    BY ONLY <1>4, <1>5, <1>7, <2>2, SectionMemory
<1>10. SameBytes(m0, text, data)
  <2>1. ASSUME NEW a \in DataAt(image) .. DataAt(image) + Len(image.data) - 1
        PROVE  New(m0, data, PageOf(a)) /\ PageOf(a) \in Pages
    <3>1. a \in Nat /\ a < DataAt(image) + Len(image.data)
      BY ONLY <1>3, Between DEF Places
    <3>2. a < BssAt(image) /\ a < ArgsStart
      BY ONLY <1>3, <1>7, <3>1 DEF Places
    <3> QED
      BY <1>6, <1>8, <3>1, <3>2 DEF New
  <2>2. OnNew(m0, data, DataAt(image), Len(image.data))
    BY <2>1 DEF OnNew
  <2>3. DataAt(image) \in Nat /\ Len(image.data) \in Nat
    BY <1>3 DEF Places
  <2> QED
    BY ONLY <1>4, <1>5, <2>2, <2>3, SectionMemory
<1>11. SameBytes(m0, data, bss)
  <2>1. ASSUME NEW a \in BssAt(image) .. BssAt(image) + image.bss - 1
        PROVE  New(m0, bss, PageOf(a)) /\ PageOf(a) \in Pages
    <3>1. a \in Nat /\ a < BssAt(image) + image.bss
      BY ONLY <1>3, Between DEF Places
    <3>2. a <= EndAt(image) /\ a < ArgsStart
      BY ONLY <1>3, <1>7, <3>1 DEF Places
    <3> QED
      BY <1>6, <1>8, <3>1, <3>2 DEF New
  <2>2. OnNew(m0, bss, BssAt(image), image.bss)
    BY <2>1 DEF OnNew
  <2>3. BssAt(image) \in Nat /\ image.bss \in Nat
    BY <1>3 DEF Places
  <2> QED
    BY ONLY <1>4, <1>5, <2>2, <2>3, SectionMemory
<1>12. SameBytes(m0, bss, n)
  <2>1. ASSUME NEW a \in StackStart .. StackStart + (ArgsStart - StackStart) - 1
        PROVE  New(m0, n, PageOf(a)) /\ PageOf(a) \in Pages
    <3>1. a \in Nat /\ StackStart <= a /\ a < StackStart + (ArgsStart - StackStart)
      BY ONLY <1>3, <1>7, Between DEF Places
    <3>2. a < ArgsStart
      BY ONLY <1>3, <1>7, <3>1 DEF Places
    <3> QED
      BY <1>6, <1>8, <3>1, <3>2 DEF New
  <2>2. OnNew(m0, n, StackStart, ArgsStart - StackStart)
    BY <2>1 DEF OnNew
  <2>3. ArgsStart - StackStart \in Nat
    BY <1>3 DEF Places
  <2> QED
    BY ONLY <1>2, <1>4, <1>7, <2>2, <2>3, SectionMemory
<1> QED
  BY <1>4, <1>9, <1>10, <1>11, <1>12 DEF n, SameBytes

\* What execve allocates is on pages of its own, apart from those of before.
LEMMA ExecutedOneFrame ==
    ASSUME NEW m \in MemState, AreasOK(m.v), PagesOK(m.v), OneFrame(m.v),
           NEW image \in ImageType, EndAt(image) <= StackStart,
           \A pg \in Pages : Frame(m.v, pg) \in m.used,
           AllFrames \ Executed(m, image).used # {}
    PROVE  OneFrame(Executed(m, image).v)
<1> DEFINE n == Executed(m, image)
           m0 == ClearedOf(m)
<1>0. Base(m.v) /\ m0.used = m.used
  BY DEF Base, ClearedOf, MemState
<1>1. n \in MemState /\ Grows(m0, n)
  BY <1>0, ExecutedEffect
<1>2. \A pg \in Pages : Valid(n.v, pg) /\ ~ New(m0, n, pg) =>
         Frame(n.v, pg) = Frame(m.v, pg) /\ Valid(m.v, pg)
  BY ExecutedOldPages
<1>3. AllFrames \ n.used # {}
  OBVIOUS
<1> HIDE DEF n, m0
<1>4. \A pg \in Pages : New(m0, n, pg) =>
         /\ Frame(n.v, pg) = n.v.pgd[pg]
         /\ Frame(n.v, pg) \notin m.used
  <2> SUFFICES ASSUME NEW pg \in Pages, New(m0, n, pg)
               PROVE  n.v.pgd[pg] # NULL /\ n.v.pgd[pg] \notin m.used
    BY DEF Frame
  <2>1. n.v.pgd[pg] \in n.used /\ n.v.pgd[pg] \notin m.used
    BY <1>0, <1>1, <1>3 DEF Grows
  <2> QED
    BY <1>1, <2>1, NullAssumption, Sizes DEF MemState, AllFrames
<1> SUFFICES ASSUME NEW x \in Pages, NEW y \in Pages, x < ArgsEnd, y < ArgsEnd, x # y,
                    Valid(n.v, x), Valid(n.v, y)
             PROVE  Frame(n.v, x) # Frame(n.v, y)
  BY DEF OneFrame, n
<1>5. CASE New(m0, n, x) /\ New(m0, n, y)
  BY <1>1, <1>3, <1>4, <1>5 DEF Grows
<1>6. CASE New(m0, n, x) /\ ~ New(m0, n, y)
  BY <1>2, <1>4, <1>6
<1>7. CASE ~ New(m0, n, x) /\ New(m0, n, y)
  BY <1>2, <1>4, <1>7
<1>8. CASE ~ New(m0, n, x) /\ ~ New(m0, n, y)
  BY <1>2, <1>8 DEF OneFrame
<1> QED
  BY <1>5, <1>6, <1>7, <1>8

\* The same for the first process.
LEMMA FirstOneFrame ==
    ASSUME NEW m \in MemState, m.v = BlankVm, NEW image \in ImageType,
           EndAt(image) <= StackStart, AllFrames \ Executed(m, image).used # {}
    PROVE  OneFrame(Executed(m, image).v)
<1> DEFINE n == Executed(m, image)
           m0 == ClearedOf(m)
<1>0. Base(m.v) /\ m0.v = Cleared(m.v) /\ m.v \in VmType
  BY DEF Base, ClearedOf, MemState, BlankVm
<1>1. n \in MemState /\ Grows(m0, n)
  BY <1>0, ExecutedEffect
<1>2. AllFrames \ n.used # {}
  OBVIOUS
<1> HIDE DEF n, m0
<1>3. \A pg \in Pages : ~ Valid(m0.v, pg)
  BY <1>0, ClearedIs DEF Valid, BlankVm
<1>4. \A pg \in Pages : Valid(n.v, pg) => New(m0, n, pg)
  BY <1>3 DEF New
<1>5. \A pg \in Pages : New(m0, n, pg) => Frame(n.v, pg) = n.v.pgd[pg]
  <2> SUFFICES ASSUME NEW pg \in Pages, New(m0, n, pg)
               PROVE  n.v.pgd[pg] # NULL
    BY DEF Frame
  <2>1. n.v.pgd[pg] \in n.used
    BY <1>1, <1>2 DEF Grows
  <2> QED
    BY <1>1, <2>1, NullAssumption, Sizes DEF MemState, AllFrames
<1> SUFFICES ASSUME NEW x \in Pages, NEW y \in Pages, x # y, Valid(n.v, x), Valid(n.v, y)
             PROVE  Frame(n.v, x) # Frame(n.v, y)
  BY DEF OneFrame, n
<1> QED
  BY <1>1, <1>2, <1>4, <1>5 DEF Grows

LEMMA ExecutedText ==
    ASSUME NEW addrs, NEW images, Suits(addrs, images), NEW m \in MemState, Base(m.v),
           NEW image \in images
    PROVE  TextSafe(Executed(m, image).v, addrs)
<1> DEFINE s == Executed(m, image).v.vm_area
<1>1. image \in ImageType /\ EndAt(image) <= StackStart
  BY DEF Suits, Possible, Fits
<1>2. /\ m.v.vm_area = <<>> => NewAreas(s, image)
      /\ m.v.vm_area # <<>> =>
           \E j \in DOMAIN m.v.vm_area :
              m.v.vm_area[j].section_name = "cmd_args" /\ KeptAreas(s, image, m.v.vm_area[j])
  BY <1>1, ExecutedEffect
<1>3. /\ TextArea(image).section_name = "text" /\ TextArea(image).end = DataAt(image)
      /\ DataArea(image).section_name = "data" /\ BssArea(image).section_name = "bss"
      /\ StackArea.section_name = "stack" /\ ArgsArea.section_name = "cmd_args"
  BY DEF TextArea, DataArea, BssArea, StackArea, ArgsArea, Area
<1> HIDE DEF s
<1>4. \A i \in DOMAIN s : s[i].section_name = "text" => s[i].end = DataAt(image)
  BY <1>2, <1>3 DEF NewAreas, KeptAreas
<1>5. \A a \in addrs : DataAt(image) < a
  BY DEF Suits, StoresTo
<1>6. DataAt(image) \in Nat /\ \A a \in addrs : a \in Nat
  BY <1>1, ImagePlaces, Sizes DEF Addr, Suits, Possible
<1>7. \A i \in DOMAIN s : s[i].section_name = "text" =>
        \A a \in addrs : ~ Holds(s[i], a)
  BY <1>4, <1>5, <1>6 DEF Holds
<1> QED
  BY <1>7 DEF TextSafe, s

\* The arguments are private and, in a VM with this layout, always so.
LEMMA ArgsPrivate ==
    ASSUME NEW v \in VmType, AreasOK(v), PagesOK(v), NEW a \in ArgsStart .. ArgsEnd - 1
    PROVE  Private(v, a)
<1>0. a \in Nat /\ ArgsStart <= a /\ a < ArgsEnd /\ a \in 0 .. ArgsEnd - 1
  BY Sizes
<1>1. PICK j \in DOMAIN v.vm_area : v.vm_area[j].section_name = "cmd_args"
  BY DEF AreasOK
<1>2. v.vm_area[j].start = ArgsStart /\ v.vm_area[j].end = ArgsEnd
  BY <1>1 DEF AreasOK, AreaOK
<1>3. Holds(v.vm_area[j], a) /\ InArea(v, a)
  BY <1>0, <1>2, Sizes DEF Holds, InArea
<1>4. Valid(v, PageOf(a))
  BY <1>0, <1>3 DEF PagesOK, Backed
<1>5. PICK i \in DOMAIN v.vm_area : AreaOf(v, a) = v.vm_area[i] /\ Holds(v.vm_area[i], a)
  BY <1>3, AreaOfIs
<1>6. v.vm_area[i].end \in Nat
  <2>1. v.vm_area \in Seq(AreaType)
    BY DEF VmType, AreaType, AreaNames
  <2>2. v.vm_area[i] \in AreaType
    BY <2>1
  <2> QED
    BY <2>2, Sizes DEF AreaType, Addr
<1>7. v.vm_area[i].section_name # "text"
  BY <1>0, <1>5, <1>6, Sizes DEF Holds, AreasOK, AreaOK
<1>8. AreaOf(v, a).prot # "RONLY"
  BY <1>5, <1>7 DEF AreasOK, AreaOK
<1> QED
  BY <1>0, <1>2, <1>4, <1>8 DEF Private, Valid

\* execve leaves the bytes of the arguments where they are.
LEMMA ExecutedArgs ==
    ASSUME NEW m \in MemState, AreasOK(m.v), PagesOK(m.v), NEW image \in ImageType,
           EndAt(image) <= StackStart, Packed(image), NEW a \in ArgsStart .. ArgsEnd - 1
    PROVE  /\ Private(m.v, a)
           /\ Private(Executed(m, image).v, a)
           /\ PhyAddr(Executed(m, image).v, a) = PhyAddr(m.v, a)
<1> DEFINE n == Executed(m, image)
           m0 == ClearedOf(m)
           pg == PageOf(a)
<1>0. Base(m.v) /\ m.v \in VmType /\ m0.v = Cleared(m.v)
  BY DEF Base, ClearedOf, MemState
<1>1. n.v \in VmType /\ AreasOK(n.v) /\ PagesOK(n.v)
  BY <1>0, ExecutedEffect, ExecutedAreas, ExecutedPages DEF MemState
<1>2. Private(m.v, a) /\ Private(n.v, a)
  BY <1>0, <1>1, ArgsPrivate
<1>3. a \in Nat /\ pg \in Pages /\ ArgsStart <= pg
  <2>1. a \in Nat /\ a \in Addr /\ ArgsStart <= a
    BY Sizes DEF Addr
  <2> QED
    BY <2>1, PagesAre, PageAbove, Sizes
<1>4. Valid(m0.v, pg)
  <2>1. Valid(m.v, pg) /\ pg \in Nat
    BY <1>2, <1>3, PagesAre DEF Private, Valid
  <2> QED
    BY <1>0, <1>3, <2>1, ClearedIs, Sizes DEF Valid
<1>5. Valid(n.v, pg) /\ ~ New(m0, n, pg)
  BY <1>2, <1>4 DEF Private, Valid, New
<1>6. Frame(n.v, pg) = Frame(m.v, pg)
  BY <1>3, <1>5, ExecutedOldPages
<1> QED
  BY <1>2, <1>6 DEF PhyAddr

\* fork changes neither what is private nor what pages there are.
LEMMA ProtectedValid ==
    ASSUME NEW v \in VmType, AreasOK(v), PagesOK(v), NEW pg \in Pages, pg < ArgsEnd
    PROVE  Valid(Protected(v), pg) <=> Valid(v, pg)
<1> DEFINE w == Protected(v)
<1>1. w.pgd_valid[pg] =
         IF \E i \in DOMAIN v.vm_area :
              /\ v.vm_area[i].prot = "RW"
              /\ PageOf(v.vm_area[i].start) <= pg
              /\ pg <= PageOf(v.vm_area[i].end)
         THEN "RONLY" ELSE v.pgd_valid[pg]
  BY ProtectedEffect
<1> HIDE DEF w
<1>2. ASSUME NEW i \in DOMAIN v.vm_area,
             PageOf(v.vm_area[i].start) <= pg, pg <= PageOf(v.vm_area[i].end)
      PROVE  Valid(v, pg)
  <2>1. v.vm_area \in Seq(AreaType)
    BY DEF VmType, AreaType, AreaNames
  <2>2. v.vm_area[i] \in AreaType /\ AreaOK(v.vm_area[i])
    BY <2>1 DEF AreasOK
  <2>3. PICK a \in 0 .. ArgsEnd - 1 : Holds(v.vm_area[i], a) /\ PageOf(a) = pg
    BY <1>2, <2>2, AreaPages
  <2> QED
    BY <2>3 DEF PagesOK, Backed
<1> QED
  BY <1>1, <1>2 DEF Valid, w

LEMMA ProtectedPrivate ==
    ASSUME NEW v \in VmType, AreasOK(v), PagesOK(v), NEW a \in Addr
    PROVE  Private(Protected(v), a) <=> Private(v, a)
<1> DEFINE w == Protected(v)
<1>1. /\ w \in VmType
      /\ DOMAIN w.vm_area = DOMAIN v.vm_area
      /\ \A i \in DOMAIN v.vm_area :
           /\ w.vm_area[i].start = v.vm_area[i].start
           /\ w.vm_area[i].end = v.vm_area[i].end
           /\ w.vm_area[i].prot = IF v.vm_area[i].prot = "RW" THEN "COPY_ON_WRITE"
                                  ELSE v.vm_area[i].prot
  BY ProtectedEffect
<1>2. PageOf(a) < ArgsEnd => (Valid(w, PageOf(a)) <=> Valid(v, PageOf(a)))
  BY PagesAre, ProtectedValid
<1>3. AreasOK(w)
  BY ProtectedAreas
<1> HIDE DEF w
<1> DEFINE Within == \E i \in DOMAIN v.vm_area :
                        v.vm_area[i].start <= a /\ a < v.vm_area[i].end
<1>4. Within <=> \E i \in DOMAIN w.vm_area :
                    w.vm_area[i].start <= a /\ a < w.vm_area[i].end
  BY <1>1
<1>5. Within => PageOf(a) < ArgsEnd /\ InArea(v, a)
  <2> SUFFICES ASSUME NEW i \in DOMAIN v.vm_area,
                      v.vm_area[i].start <= a, a < v.vm_area[i].end
               PROVE  PageOf(a) < ArgsEnd /\ InArea(v, a)
    OBVIOUS
  <2>1. v.vm_area \in Seq(AreaType)
    BY DEF VmType, AreaType, AreaNames
  <2>2. v.vm_area[i] \in AreaType
    BY <2>1
  <2>3. v.vm_area[i].end \in Nat /\ v.vm_area[i].end <= ArgsEnd /\ a \in Nat
    BY <2>2, Sizes DEF AreaType, Addr
  <2>4. PageOf(a) \in Nat /\ PageOf(a) <= a
    BY <2>3, PageFacts
  <2> QED
    BY <2>3, <2>4, Sizes DEF InArea, Holds
<1>6. InArea(v, a) => (AreaOf(w, a).prot = "RONLY" <=> AreaOf(v, a).prot = "RONLY")
  <2> SUFFICES ASSUME InArea(v, a)
               PROVE  AreaOf(w, a).prot = "RONLY" <=> AreaOf(v, a).prot = "RONLY"
    OBVIOUS
  <2>1. \A i \in DOMAIN v.vm_area : Holds(w.vm_area[i], a) <=> Holds(v.vm_area[i], a)
    BY <1>1 DEF Holds
  <2>2. InArea(w, a)
    BY <1>1, <2>1 DEF InArea
  <2>3. PICK i \in DOMAIN v.vm_area :
           /\ AreaOf(v, a) = v.vm_area[i]
           /\ Holds(v.vm_area[i], a)
           /\ \A j \in DOMAIN v.vm_area : Holds(v.vm_area[j], a) => i <= j
    BY AreaOfIs
  <2>4. PICK k \in DOMAIN w.vm_area :
           /\ AreaOf(w, a) = w.vm_area[k]
           /\ Holds(w.vm_area[k], a)
           /\ \A j \in DOMAIN w.vm_area : Holds(w.vm_area[j], a) => k <= j
    BY <1>1, <2>2, AreaOfIs
  <2>5. i = k
    <3>1. v.vm_area \in Seq(AreaType)
      BY DEF VmType, AreaType, AreaNames
    <3>2. i \in Nat /\ k \in Nat
      BY <1>1, <3>1
    <3>3. i <= k /\ k <= i
      BY <1>1, <2>1, <2>3, <2>4
    <3> QED
      BY <3>2, <3>3
  <2>6. w.vm_area[i].prot = "RONLY" <=> v.vm_area[i].prot = "RONLY"
    BY <1>1
  <2> QED
    BY <2>3, <2>4, <2>5, <2>6
<1>7. Private(v, a) <=> Within /\ Valid(v, PageOf(a)) /\ AreaOf(v, a).prot # "RONLY"
  BY DEF Private, Valid
<1>8. Private(w, a) <=> Within /\ Valid(w, PageOf(a)) /\ AreaOf(w, a).prot # "RONLY"
  BY <1>4 DEF Private, Valid
<1> QED
  BY <1>2, <1>5, <1>6, <1>7, <1>8 DEF w

-----------------------------------------------------------------------------
(* The steps.                                                              *)

\* What SpaceMap shows of a process.
LEMMA SpaceMapIs ==
    ASSUME TypeOK
    PROVE  /\ \A p \in Live : SpaceMap[p] = SpaceOf(vm[p], mem) /\ SpaceMap[p] # NULL
           /\ \A p \in Pids \ Live : SpaceMap[p] = NULL
<1>1. \A p \in Live : SpaceMap[p] = SpaceOf(vm[p], mem)
  BY DEF SpaceMap, SpaceOf, Live
<1>2. \A p \in Live : SpaceOf(vm[p], mem) # NULL
  BY SpaceType, LiveTypes DEF TypeOK
<1>3. \A p \in Pids \ Live : SpaceMap[p] = NULL
  BY DEF SpaceMap, Live
<1> QED
  BY <1>1, <1>2, <1>3

\* The step of AddressSpaces that a step of VirtualMemory is, in terms of SpaceMap.
Unseen(p) == \A q \in Pids \ {p} : SpaceMap'[q] = SpaceMap[q]

Stored(p) ==
    /\ p \in Live
    /\ \E a \in Addr : \A x \in Addr \ {a} : SpaceMap'[p][x] = SpaceMap[p][x]
    /\ Unseen(p)

Forked(p, q) ==
    /\ p \in Live /\ q \in Pids \ Live
    /\ SpaceMap'[q] = SpaceMap[p]
    /\ Unseen(q)

Replaced(p) ==
    /\ p \in Live
    /\ \A a \in ArgsStart .. ArgsEnd - 1 : SpaceMap'[p][a] = SpaceMap[p][a]
    /\ Unseen(p)

\* What process q finds at address x stays.
Stays(q, x) ==
    Valid(vm[q], PageOf(x)) =>
        /\ Valid(vm'[q], PageOf(x))
        /\ mem'[PhyAddr(vm'[q], x)] = mem[PhyAddr(vm[q], x)]

\* The addresses that are on pages.
Below == 0 .. ArgsEnd - 1

LEMMA BelowPages ==
    ASSUME NEW x \in Below
    PROVE  /\ x \in Nat /\ x \in Addr /\ x < ArgsEnd
           /\ PageOf(x) \in Pages /\ PageOf(x) < ArgsEnd
<1>1. x \in Nat /\ x \in Addr /\ x < ArgsEnd
  BY Sizes DEF Below, Addr
<1>2. PageOf(x) \in Pages /\ PageOf(x) \in Nat /\ PageOf(x) <= x
  BY <1>1, PagesAre, PageFacts
<1> QED
  BY <1>1, <1>2, Sizes

\* In a live process the page of an address has a physical page that was handed out.
LEMMA LiveFrame ==
    ASSUME LayoutInv, NEW q \in Live, NEW x \in Addr
    PROVE  /\ PhyAddr(vm[q], x) \in Phys
           /\ PhyAddr(vm[q], x)[1] = Frame(vm[q], PageOf(x))
           /\ Frame(vm[q], PageOf(x)) \in allocated_page
<1>1. vm[q] \in VmType /\ PageOf(x) \in Pages
  BY LiveTypes, PagesAre DEF LayoutInv, VmInv
<1> QED
  BY <1>1, PhyAddrType DEF PhyAddr, LayoutInv, VmInv, MappedOK

\* What stays is shown as it was.
LEMMA ByteShown ==
    ASSUME LayoutInv, NEW q \in Live, q \in Live', NEW x \in Addr,
           Private(vm'[q], x) <=> Private(vm[q], x),
           x \in Below => Stays(q, x)
    PROVE  SpaceMap'[q][x] = SpaceMap[q][x]
<1>1. SpaceMap[q][x] = IF Private(vm[q], x) THEN mem[PhyAddr(vm[q], x)] ELSE 0
  BY DEF SpaceMap, Live
<1>2. SpaceMap'[q][x] = IF Private(vm'[q], x) THEN mem'[PhyAddr(vm'[q], x)] ELSE 0
  BY DEF SpaceMap, Live
<1>3. ASSUME Private(vm[q], x)
      PROVE  mem'[PhyAddr(vm'[q], x)] = mem[PhyAddr(vm[q], x)]
  <2>1. vm[q] \in VmType /\ AreasOK(vm[q])
    BY LiveTypes DEF LayoutInv, VmInv
  <2>2. Valid(vm[q], PageOf(x)) /\ x \in Below
    BY <1>3, <2>1, PrivatePage, Sizes DEF Below
  <2> QED
    BY <2>2 DEF Stays
<1> QED
  BY <1>1, <1>2, <1>3

\* A process of which all that stays is shown as it was.
LEMMA SpaceShown ==
    ASSUME LayoutInv, NEW q \in Live, q \in Live',
           \A x \in Addr : Private(vm'[q], x) <=> Private(vm[q], x),
           \A x \in Below : Stays(q, x)
    PROVE  SpaceMap'[q] = SpaceMap[q]
<1>1. SpaceMap[q] = [x \in Addr |-> SpaceMap[q][x]]
  BY DEF SpaceMap, Live
<1>2. SpaceMap'[q] = [x \in Addr |-> SpaceMap'[q][x]]
  BY DEF SpaceMap, Live, Addr
<1>3. \A x \in Addr : SpaceMap'[q][x] = SpaceMap[q][x]
  BY ByteShown
<1> QED
  BY <1>1, <1>2, <1>3

\* What p stores at a, and nothing else, may be found there afterwards.
StoreTo(p, a) ==
    /\ p \in Live /\ a \in Addr
    /\ Live' = Live
    /\ \A q \in Live :
         /\ vm'[q].vm_area = vm[q].vm_area
         /\ \A pg \in Pages : Valid(vm'[q], pg) <=> Valid(vm[q], pg)
         /\ \A x \in Below : q # p \/ x # a => Stays(q, x)

LEMMA StoreShown ==
    ASSUME LayoutInv, NEW p, NEW a, StoreTo(p, a)
    PROVE  Stored(p)
<1>1. p \in Live /\ a \in Addr /\ Live' = Live
  BY DEF StoreTo
<1>2. \A q \in Live : \A x \in Addr : Private(vm'[q], x) <=> Private(vm[q], x)
  BY SamePrivate, PagesAre DEF StoreTo
<1>3. \A x \in Addr \ {a} : SpaceMap'[p][x] = SpaceMap[p][x]
  <2> SUFFICES ASSUME NEW x \in Addr \ {a}
               PROVE  SpaceMap'[p][x] = SpaceMap[p][x]
    OBVIOUS
  <2>1. x \in Below => Stays(p, x)
    BY <1>1 DEF StoreTo
  <2> QED
    BY <1>1, <1>2, <2>1, ByteShown
<1>4. ASSUME NEW q \in Pids \ {p}
      PROVE  SpaceMap'[q] = SpaceMap[q]
  <2>1. CASE q \in Live
    <3>1. \A x \in Below : Stays(q, x)
      BY <2>1 DEF StoreTo
    <3> QED
      BY <1>1, <1>2, <2>1, <3>1, SpaceShown
  <2>2. CASE q \notin Live
    <3>1. vm[q] = NULL /\ vm'[q] = NULL
      BY <1>1, <2>2 DEF Live
    <3> QED
      BY <3>1 DEF SpaceMap
  <2> QED
    BY <2>1, <2>2
<1> QED
  BY <1>1, <1>3, <1>4 DEF Stored, Unseen

LEMMA TouchedSame ==
    ASSUME NEW v \in VmType, NEW pg \in Pages, v.pgd[pg] # NULL
    PROVE  Touched(v, pg) = v
<1>1. [v.pgd EXCEPT ![pg] = v.pgd[pg]] = v.pgd
  BY DEF VmType
<1>2. Touched(v, pg) = [v EXCEPT !.pgd = [v.pgd EXCEPT ![pg] = v.pgd[pg]]]
  BY DEF Touched, Frame
<1> QED
  BY <1>1, <1>2 DEF VmType

\* A load changes nothing: its page has an entry.
LEMMA LoadSame ==
    ASSUME LayoutInv, NEW p \in Pids, NEW a \in Below,
           vm[p] # NULL, vm' = [vm EXCEPT ![p] = Touched(@, PageOf(a))],
           Valid(vm[p], PageOf(a)) \/ InArea(vm[p], a)
    PROVE  vm' = vm
<1>1. p \in Live /\ vm[p] \in VmType /\ vm \in [Pids -> VmType \cup {NULL}]
  BY LiveTypes DEF Live, LayoutInv, VmInv, TypeOK
<1>2. a \in Nat /\ a < ArgsEnd /\ a \in Addr /\ a \in 0 .. ArgsEnd - 1
  BY Sizes DEF Below, Addr
<1>3. PageOf(a) \in Pages /\ PageOf(a) < ArgsEnd
  <2>1. PageOf(a) \in Pages
    BY <1>2, PagesAre
  <2>2. PageOf(a) \in Nat /\ PageOf(a) <= a
    BY <1>2, PageFacts
  <2> QED
    BY <1>2, <2>1, <2>2, Sizes
<1>4. PagesOK(vm[p])
  BY <1>1 DEF LayoutInv
<1>5. vm[p].pgd[PageOf(a)] # NULL
  BY <1>2, <1>3, <1>4 DEF PagesOK, InArea, Backed
<1>6. Touched(vm[p], PageOf(a)) = vm[p]
  BY <1>1, <1>3, <1>5, TouchedSame
<1>7. vm' = [vm EXCEPT ![p] = Touched(vm[p], PageOf(a))]
  OBVIOUS
<1> QED
  BY ONLY <1>1, <1>6, <1>7

\* A process may write where it may store, and a store that does not copy is to a
\* page that no other process maps.
LEMMA StoreWritable ==
    ASSUME NEW addrs, SpaceInv(addrs), NEW p \in Live, NEW a \in addrs, InArea(vm[p], a)
    PROVE  AreaOf(vm[p], a).prot # "RONLY"
<1>1. vm[p] \in VmType /\ AreasOK(vm[p]) /\ TextSafe(vm[p], addrs)
  BY LiveTypes DEF SpaceInv, CowInv, LayoutInv, VmInv
<1>2. PICK i \in DOMAIN vm[p].vm_area :
        AreaOf(vm[p], a) = vm[p].vm_area[i] /\ Holds(vm[p].vm_area[i], a)
  BY <1>1, AreaOfIs
<1>3. vm[p].vm_area[i].section_name # "text"
  BY <1>1, <1>2 DEF TextSafe
<1> QED
  BY <1>1, <1>2, <1>3 DEF AreasOK, AreaOK

LEMMA OwnPage ==
    ASSUME NEW addrs, SpaceInv(addrs), NEW p \in Live, NEW a \in addrs, a \in Below,
           InArea(vm[p], a), ~ MustCopy(vm[p], a),
           NEW q \in Live \ {p}, NEW y \in Pages, Valid(vm[q], y)
    PROVE  Frame(vm[p], PageOf(a)) # Frame(vm[q], y)
<1>1. a \in Addr /\ PageOf(a) \in Pages /\ a \in 0 .. ArgsEnd - 1
  BY BelowPages DEF Below
<1>2. Valid(vm[p], PageOf(a))
  BY <1>1 DEF InArea, SpaceInv, CowInv, LayoutInv, PagesOK, Backed
<1>3. Writable(vm[p], a)
  BY <1>2, StoreWritable DEF Writable
<1>4. ~ SafePage(vm[p], PageOf(a))
  BY <1>1, <1>3 DEF SafePage
<1>5. GuardedFrom(vm[p], vm[q])
  BY DEF SpaceInv, CowInv, Guarded
<1> QED
  BY <1>1, <1>2, <1>4, <1>5 DEF GuardedFrom

\* What does not depend on memory stays when the VMs do.
LEMMA SameVms ==
    ASSUME NEW addrs, SpaceInv(addrs), CowInv', StoreMatches(addrs)', vm' = vm
    PROVE  SpaceInv(addrs)'
<1>1. Live' = Live
  BY DEF Live, Pids
<1>2. \A p \in Live : OneFrame(vm'[p]) /\ TextSafe(vm'[p], addrs)
  BY DEF SpaceInv
<1>3. \A p \in Live' : OneFrame(vm[p])' /\ TextSafe(vm[p], addrs)'
  BY <1>1, <1>2
<1> QED
  BY <1>3 DEF SpaceInv

\* A store that does not copy.
LEMMA StoreByteSpace ==
    ASSUME NEW addrs, addrs \subseteq Below, SpaceInv(addrs), CowInv',
           NEW p \in Pids, NEW a \in addrs, NEW b \in Vals, StoreByte(p, a, b)
    PROVE  SpaceInv(addrs)' /\ StoreTo(p, a)
<1>1. /\ p \in Live /\ InArea(vm[p], a) /\ ~ MustCopy(vm[p], a)
      /\ mem' = [mem EXCEPT ![PhyAddr(vm[p], a)] = b]
      /\ UNCHANGED <<allocated_page, store>>
  BY DEF StoreByte, Live
<1>2. vm' = vm
  BY LoadSame DEF StoreByte, SpaceInv, CowInv
<1>3. /\ a \in Below /\ a \in Addr /\ a \in Nat
      /\ PageOf(a) \in Pages /\ PageOf(a) < ArgsEnd
  BY BelowPages
<1>4. mem \in [Phys -> Vals] /\ LayoutInv /\ LayoutInv'
  BY DEF SpaceInv, CowInv, LayoutInv, VmInv, TypeOK
<1>5. \A x \in Phys : x[1] # Frame(vm[p], PageOf(a)) => mem'[x] = mem[x]
  BY <1>1, <1>4 DEF PhyAddr
<1>6. \A q \in Live \ {p} : \A y \in Pages :
         Valid(vm[q], y) => Frame(vm[p], PageOf(a)) # Frame(vm[q], y)
  BY <1>1, OwnPage
<1>7. StoreMatches(addrs)'
  <2> SUFFICES ASSUME NEW q \in Pids, store[q] # NULL
               PROVE  /\ store[q].addr \in addrs
                      /\ MustCopy(vm[q], store[q].addr)
                      /\ \A x \in Phys : x[1] = Frame(vm[q], PageOf(store[q].addr)) =>
                           store[q].buf[x[2]] = mem'[x]
    BY <1>1, <1>2 DEF StoreMatches, Pids, Phys
  <2>1. /\ store[q].addr \in addrs
        /\ MustCopy(vm[q], store[q].addr)
        /\ \A x \in Phys : x[1] = Frame(vm[q], PageOf(store[q].addr)) =>
             store[q].buf[x[2]] = mem[x]
    BY DEF SpaceInv, StoreMatches
  <2>2. q \in Live \ {p}
    BY DEF StoreByte, SpaceInv, CowInv, LayoutInv, VmInv, StoreOK
  <2>3. Valid(vm[q], PageOf(store[q].addr)) /\ PageOf(store[q].addr) \in Pages
    BY <2>1, BelowPages DEF MustCopy, Valid
  <2>4. Frame(vm[p], PageOf(a)) # Frame(vm[q], PageOf(store[q].addr))
    BY <1>6, <2>2, <2>3
  <2> QED
    BY <1>5, <2>1, <2>4
<1>8. SpaceInv(addrs)'
  BY <1>2, <1>7, SameVms
<1>9. ASSUME NEW q \in Live, NEW x \in Below, q # p \/ x # a, Valid(vm[q], PageOf(x))
      PROVE  mem'[PhyAddr(vm[q], x)] = mem[PhyAddr(vm[q], x)]
  <2>1. /\ x \in Addr /\ x \in Nat /\ PageOf(x) \in Pages /\ PageOf(x) < ArgsEnd
    BY BelowPages
  <2>2. /\ PhyAddr(vm[q], x) \in Phys
        /\ PhyAddr(vm[q], x)[1] = Frame(vm[q], PageOf(x))
    BY <1>4, <2>1, LiveFrame
  <2>3. CASE q # p
    BY <1>5, <1>6, <1>9, <2>1, <2>2, <2>3
  <2>4. CASE q = p
    <3>1. OneFrame(vm[p]) /\ PagesOK(vm[p])
      BY <1>1, <1>4 DEF SpaceInv, LayoutInv
    <3>2. Valid(vm[p], PageOf(a))
      BY <1>1, <1>3, <3>1 DEF InArea, PagesOK, Backed, Below
    <3>3. PhyAddr(vm[p], x) # PhyAddr(vm[p], a)
      BY <1>3, <1>9, <2>1, <2>4, <3>1, <3>2, OneByte
    <3> QED
      BY <1>1, <1>4, <2>2, <2>4, <3>3
  <2> QED
    BY <2>3, <2>4
<1>10. Live' = Live
  BY <1>2 DEF Live, Pids
<1> QED
  BY <1>1, <1>2, <1>3, <1>8, <1>9, <1>10 DEF StoreTo, Stays

\* The old contents of the page are read.
LEMMA BeginCopySpace ==
    ASSUME ~ Threads, NEW addrs, addrs \subseteq Below, SpaceInv(addrs), CowInv',
           NEW p \in Pids, NEW a \in addrs, NEW b \in Vals, BeginCopy(p, a, b)
    PROVE  SpaceInv(addrs)' /\ UNCHANGED <<vm, mem>>
<1>1. /\ UNCHANGED <<vm, mem, allocated_page>>
      /\ store \in [Pids -> StoreType \cup {NULL}]
      /\ \A q \in Pids \ {p} : store'[q] = NULL
      /\ store'[p].addr = a
      /\ store'[p].buf = [i \in 0 .. PageSize - 1 |-> mem[PhyAddr(vm[p], PageOf(a) + i)]]
      /\ MustCopy(vm[p], a)
  BY DEF BeginCopy, Quiet, SpaceInv, CowInv, LayoutInv, VmInv, TypeOK
<1>2. a \in Nat /\ PageOf(a) \in Nat /\ PageOf(a) % PageSize = 0
  BY BelowPages, PageFacts
<1>3. ASSUME NEW x \in Phys, x[1] = Frame(vm[p], PageOf(a))
      PROVE  store'[p].buf[x[2]] = mem[x]
  <2>1. x[2] \in 0 .. PageSize - 1 /\ x = <<x[1], x[2]>>
    BY DEF Phys
  <2> DEFINE i == x[2]
             c == PageOf(a) + i
  <2>2. /\ c \in Nat /\ PageOf(a) <= c /\ c < PageOf(a) + PageSize
        /\ i \in Nat /\ c = PageOf(a) + i
    BY <1>2, <2>1, Sizes
  <2>3. store'[p].buf[i] = mem[PhyAddr(vm[p], c)]
    BY <1>1, <2>1
  <2> HIDE DEF c
  <2>4. PageOf(c) = PageOf(a)
    BY <1>2, <2>2, PageIs
  <2>5. c = PageOf(c) + (c % PageSize) /\ c % PageSize \in 0 .. PageSize - 1
    BY <2>2, PageFacts
  <2>6. c % PageSize = i
    <3>1. c % PageSize \in Nat
      BY <2>5, Sizes
    <3> QED
      BY <1>2, <2>2, <2>4, <2>5, <3>1
  <2>7. PhyAddr(vm[p], c) = x
    BY <1>3, <2>1, <2>4, <2>6 DEF PhyAddr
  <2> QED
    BY <2>3, <2>7
<1>4. StoreMatches(addrs)'
  <2> SUFFICES ASSUME NEW q \in Pids, store'[q] # NULL
               PROVE  /\ store'[q].addr \in addrs
                      /\ MustCopy(vm[q], store'[q].addr)
                      /\ \A x \in Phys : x[1] = Frame(vm[q], PageOf(store'[q].addr)) =>
                           store'[q].buf[x[2]] = mem[x]
    BY <1>1 DEF StoreMatches, Pids, Phys
  <2>1. q = p
    BY <1>1
  <2> QED
    BY <1>1, <1>3, <2>1
<1> QED
  BY <1>1, <1>4, SameVms

\* The copy and the byte go to a page that nobody maps.
LEMMA EndCopySpace ==
    ASSUME NEW addrs, addrs \subseteq Below, SpaceInv(addrs), CowInv', Room,
           NEW p \in Pids, EndCopy(p)
    PROVE  SpaceInv(addrs)' /\ store[p].addr \in addrs /\ StoreTo(p, store[p].addr)
<1> DEFINE f == store[p].frame
           a == store[p].addr
           pg == PageOf(a)
           w == [vm[p] EXCEPT !.pgd[pg] = f, !.pgd_valid[pg] = "RW"]
<1>1. /\ p \in Live /\ vm[p] \in VmType /\ vm[p] # NULL /\ store[p] \in StoreType
      /\ store[p] # NULL /\ store \in [Pids -> StoreType \cup {NULL}]
      /\ vm \in [Pids -> VmType \cup {NULL}] /\ LayoutInv /\ LayoutInv'
  BY DEF EndCopy, SpaceInv, CowInv, LayoutInv, VmInv, TypeOK, StoreOK, Live
<1>2. /\ pg \in Pages /\ f \in AllFrames /\ f # NULL
      /\ a \in addrs /\ a \in Addr /\ a \in Nat
  <2>1. a \in addrs /\ f \in AllFrames
    BY <1>1 DEF SpaceInv, StoreMatches, StoreType, AllFrames
  <2> QED
    BY <2>1, BelowPages, NullAssumption, Sizes DEF AllFrames
<1>3. /\ w \in VmType /\ w.vm_area = vm[p].vm_area
      /\ w.pgd[pg] = f /\ w.pgd_valid[pg] = "RW"
      /\ \A x \in Pages \ {pg} :
           w.pgd[x] = vm[p].pgd[x] /\ w.pgd_valid[x] = vm[p].pgd_valid[x]
  BY <1>1, <1>2 DEF VmType, AllFrames
<1>4. vm' = [vm EXCEPT ![p] = w]
  BY <1>1 DEF EndCopy, VmType
<1>5. \A q \in Pids : store'[q] = NULL
  BY <1>1 DEF EndCopy, SpaceInv, CowInv, StoreFresh
<1>6. f \notin allocated_page
  BY <1>1, FirstFreeIs DEF SpaceInv, CowInv, StoreFresh, Room
<1>7. MustCopy(vm[p], a)
  BY <1>1 DEF SpaceInv, StoreMatches
<1>8. \A x \in Phys : x[1] = Frame(vm[p], pg) => store[p].buf[x[2]] = mem[x]
  BY <1>1 DEF SpaceInv, StoreMatches
<1>9. \A x \in Phys :
         mem'[x] = IF x = <<f, a % PageSize>> THEN store[p].val
                   ELSE IF x[1] = f THEN store[p].buf[x[2]] ELSE mem[x]
  BY DEF EndCopy
<1> HIDE DEF w, f, pg, a
<1>10. vm'[p] = w /\ \A q \in Pids \ {p} : vm'[q] = vm[q]
  BY <1>1, <1>4
<1>11. Live' = Live
  BY <1>1, <1>3, <1>10, NullAssumption DEF Live
<1>12. /\ Frame(w, pg) = f
       /\ \A x \in Pages \ {pg} : Frame(w, x) = Frame(vm[p], x)
  BY <1>2, <1>3 DEF Frame
<1>13. \A q \in Live : \A y \in Pages : Frame(vm[q], y) # f
  BY <1>6 DEF SpaceInv, CowInv, LayoutInv, VmInv, MappedOK
<1>14. \A x \in Pages : Valid(w, x) <=> Valid(vm[p], x)
  BY <1>2, <1>3, <1>7 DEF Valid, MustCopy, pg
<1>15. SpaceInv(addrs)'
  <2>1. OneFrame(w)
    BY <1>1, <1>12, <1>13, <1>14 DEF SpaceInv, OneFrame
  <2>2. TextSafe(w, addrs)
    BY <1>1, <1>3 DEF SpaceInv, TextSafe
  <2>3. \A q \in Live : OneFrame(vm'[q]) /\ TextSafe(vm'[q], addrs)
    BY <1>10, <2>1, <2>2 DEF SpaceInv, Live
  <2>4. \A q \in Live' : OneFrame(vm[q])' /\ TextSafe(vm[q], addrs)'
    BY <1>11, <2>3
  <2>5. StoreMatches(addrs)'
    BY <1>5 DEF StoreMatches
  <2> QED
    BY <2>4, <2>5 DEF SpaceInv
<1>16. ASSUME NEW q \in Live \ {p}, NEW x \in Below
       PROVE  mem'[PhyAddr(vm[q], x)] = mem[PhyAddr(vm[q], x)]
  <2>1. x \in Addr /\ PageOf(x) \in Pages
    BY BelowPages
  <2>2. /\ PhyAddr(vm[q], x) \in Phys
        /\ PhyAddr(vm[q], x)[1] = Frame(vm[q], PageOf(x))
    BY <1>1, <2>1, LiveFrame
  <2>3. PhyAddr(vm[q], x)[1] # f
    BY <1>13, <2>1, <2>2
  <2> QED
    BY <1>9, <2>2, <2>3
<1>17. ASSUME NEW x \in Below, x # a
       PROVE  mem'[PhyAddr(w, x)] = mem[PhyAddr(vm[p], x)]
  <2>1. x \in Nat /\ x \in Addr /\ PageOf(x) \in Pages
    BY BelowPages
  <2>2. PhyAddr(w, x) \in Phys /\ PhyAddr(vm[p], x) \in Phys
    BY <1>1, <1>3, <2>1, PhyAddrType
  <2>3. CASE PageOf(x) = pg
    <3>1. PhyAddr(w, x) = <<f, x % PageSize>>
      BY <1>12, <2>3 DEF PhyAddr
    <3>2. PhyAddr(vm[p], x) = <<Frame(vm[p], pg), x % PageSize>>
      BY <2>3 DEF PhyAddr
    <3>3. x % PageSize # a % PageSize
      <4>1. x = PageOf(x) + (x % PageSize) /\ a = PageOf(a) + (a % PageSize)
        BY <1>2, <2>1, PageFacts
      <4> QED
        BY <1>17, <2>3, <4>1 DEF pg
    <3>4. mem'[PhyAddr(w, x)] = store[p].buf[x % PageSize]
      <4>1. PhyAddr(w, x) # <<f, a % PageSize>>
        BY <3>1, <3>3
      <4> QED
        BY <1>9, <2>2, <3>1, <4>1
    <3>5. store[p].buf[x % PageSize] = mem[PhyAddr(vm[p], x)]
      BY <1>8, <2>2, <3>2
    <3> QED
      BY <3>4, <3>5
  <2>4. CASE PageOf(x) # pg
    <3>1. PhyAddr(w, x) = PhyAddr(vm[p], x)
      BY <1>12, <2>1, <2>4 DEF PhyAddr
    <3>2. PhyAddr(vm[p], x)[1] # f
      BY <1>1, <1>13, <2>1 DEF PhyAddr
    <3> QED
      BY <1>9, <2>2, <3>1, <3>2
  <2> QED
    BY <2>3, <2>4
<1>18. ASSUME NEW q \in Live
       PROVE  /\ vm'[q].vm_area = vm[q].vm_area
              /\ \A x \in Pages : Valid(vm'[q], x) <=> Valid(vm[q], x)
              /\ \A x \in Below : q # p \/ x # a => Stays(q, x)
  <2>1. CASE q # p
    <3>1. q \in Live \ {p} /\ vm'[q] = vm[q]
      BY <1>10, <2>1 DEF Live
    <3> QED
      BY <1>16, <3>1 DEF Stays
  <2>2. CASE q = p
    <3>1. \A x \in Below : PageOf(x) \in Pages
      BY BelowPages
    <3> QED
      BY <1>3, <1>10, <1>14, <1>17, <2>2, <3>1 DEF Stays
  <2> QED
    BY <2>1, <2>2
<1>19. StoreTo(p, a)
  BY <1>1, <1>2, <1>11, <1>18 DEF StoreTo
<1> QED
  BY <1>2, <1>15, <1>19 DEF a

\* Both processes read what the one read.
LEMMA ForkSpace ==
    ASSUME NEW addrs, SpaceInv(addrs), CowInv', NEW p \in Pids, NEW q \in Pids, Fork(p, q)
    PROVE  SpaceInv(addrs)' /\ Forked(p, q)
<1> DEFINE v == vm[p]
           w == Protected(v)
<1>1. /\ p \in Live /\ v \in VmType /\ v # NULL /\ p # q /\ vm[q] = NULL
      /\ vm \in [Pids -> VmType \cup {NULL}]
      /\ AreasOK(v) /\ PagesOK(v) /\ OneFrame(v) /\ TextSafe(v, addrs)
      /\ \A r \in Pids : store[r] = NULL
  BY DEF Fork, Quiet, SpaceInv, CowInv, LayoutInv, VmInv, TypeOK, Live
<1>2. vm' = [vm EXCEPT ![p] = w, ![q] = w] /\ UNCHANGED <<mem, allocated_page, store>>
  BY DEF Fork, Parent, Child
<1>3. /\ w \in VmType
      /\ \A x \in Pages : Frame(w, x) = Frame(v, x)
      /\ \A x \in Pages : x < ArgsEnd => (Valid(w, x) <=> Valid(v, x))
      /\ \A a \in Addr : Private(w, a) <=> Private(v, a)
  BY <1>1, ProtectedEffect, ProtectedAreas, ProtectedValid, ProtectedPrivate
<1>4. OneFrame(w)
  BY <1>1, <1>3 DEF OneFrame
<1>5. TextSafe(w, addrs)
  <2>1. /\ DOMAIN w.vm_area = DOMAIN v.vm_area
        /\ \A i \in DOMAIN v.vm_area :
             /\ w.vm_area[i].section_name = v.vm_area[i].section_name
             /\ w.vm_area[i].start = v.vm_area[i].start
             /\ w.vm_area[i].end = v.vm_area[i].end
    BY <1>1, ProtectedEffect
  <2> HIDE DEF w, v
  <2> QED
    BY <1>1, <2>1 DEF TextSafe, Holds
<1>6. SpaceOf(w, mem) = SpaceOf(v, mem)
  <2>1. \A a \in Addr : PhyAddr(w, a) = PhyAddr(v, a)
    BY <1>3, PagesAre DEF PhyAddr
  <2> HIDE DEF w, v
  <2> QED
    BY <1>3, <2>1, SameSpace
<1>v. v = vm[p]
  OBVIOUS
<1> HIDE DEF w, v
<1>7. /\ vm'[p] = w /\ vm'[q] = w
      /\ \A r \in Pids \ {p, q} : vm'[r] = vm[r]
  BY <1>1, <1>2
<1>8. w # NULL
  BY <1>3, NullAssumption
<1>9. SpaceInv(addrs)'
  <2>1. \A r \in Pids : vm'[r] # NULL => OneFrame(vm'[r]) /\ TextSafe(vm'[r], addrs)
    BY <1>4, <1>5, <1>7 DEF SpaceInv, Live
  <2>2. \A r \in Live' : OneFrame(vm[r])' /\ TextSafe(vm[r], addrs)'
    BY <2>1 DEF Live, Pids
  <2>3. StoreMatches(addrs)'
    BY <1>1, <1>2 DEF StoreMatches, Pids
  <2> QED
    BY <2>2, <2>3 DEF SpaceInv
<1>10. SpaceMap[p] = SpaceOf(v, mem)
  BY <1>1, <1>v DEF SpaceMap, SpaceOf
<1>11. SpaceMap'[p] = SpaceOf(w, mem) /\ SpaceMap'[q] = SpaceOf(w, mem)
  <2>1. vm'[p] # NULL /\ vm'[q] # NULL
    BY <1>7, <1>8
  <2>2. SpaceMap'[p] = SpaceOf(vm'[p], mem') /\ SpaceMap'[q] = SpaceOf(vm'[q], mem')
    BY <2>1 DEF SpaceMap, SpaceOf, Addr
  <2> QED
    BY <1>2, <1>7, <2>2
<1>12. Unseen(q)
  <2> SUFFICES ASSUME NEW r \in Pids \ {q}
               PROVE  SpaceMap'[r] = SpaceMap[r]
    BY DEF Unseen
  <2>1. CASE r = p
    BY <1>6, <1>10, <1>11, <2>1
  <2>2. CASE r # p /\ vm[r] = NULL
    BY <1>7, <2>2 DEF SpaceMap
  <2>3. CASE r # p /\ vm[r] # NULL
    <3>1. r \in Live /\ r \in Live' /\ vm'[r] = vm[r] /\ LayoutInv
      BY <1>7, <2>3 DEF Live, SpaceInv, CowInv
    <3>2. \A x \in Below : Stays(r, x)
      BY <1>2, <3>1 DEF Stays
    <3> QED
      BY <3>1, <3>2, SpaceShown
  <2> QED
    BY <2>1, <2>2, <2>3
<1> QED
  BY <1>1, <1>6, <1>9, <1>10, <1>11, <1>12 DEF Forked, Live

\* The others' bytes stay, and so do those of the arguments.
ExecveBy(p) ==
    /\ p \in Live /\ Live' = Live
    /\ \A q \in Live \ {p} : vm'[q] = vm[q]
    /\ \A q \in Live : \A x \in Below : q # p \/ ArgsStart <= x => Stays(q, x)

LEMMA ExecveStays ==
    ASSUME LayoutInv, Room', NEW p \in Pids, NEW image, Fits(image), Packed(image),
           Execve(p, image)
    PROVE  ExecveBy(p)
<1> DEFINE m == [v |-> vm[p], mem |-> mem, used |-> allocated_page]
           n == Executed(m, image)
<1>1. /\ p \in Live /\ vm[p] \in VmType /\ vm[p] # NULL
      /\ vm \in [Pids -> VmType \cup {NULL}]
      /\ AreasOK(vm[p]) /\ PagesOK(vm[p])
  BY DEF Execve, LayoutInv, VmInv, TypeOK, Live
<1>2. /\ m \in MemState /\ Base(m.v)
      /\ m.v = vm[p] /\ m.used = allocated_page /\ m.mem = mem
  BY <1>1 DEF LayoutInv, VmInv, TypeOK, MemState, Base, AllFrames
<1>3. vm' = [vm EXCEPT ![p] = n.v] /\ mem' = n.mem /\ allocated_page' = n.used
  BY DEF Execve
<1> HIDE DEF m
<1>4. image \in ImageType /\ EndAt(image) <= StackStart /\ Packed(image)
  BY DEF Fits
<1>5. AllFrames \ n.used # {}
  BY <1>3 DEF Room
<1>6. n.v \in VmType
  BY <1>2, <1>4, ExecutedEffect DEF MemState
<1>7. SameBytes(m, m, n)
  BY <1>1, <1>2, <1>4, <1>5, ExecutedMemory
<1>8. \A a \in ArgsStart .. ArgsEnd - 1 :
         Private(n.v, a) /\ PhyAddr(n.v, a) = PhyAddr(vm[p], a)
  BY <1>1, <1>2, <1>4, ExecutedArgs
<1> HIDE DEF n
<1>9. \A x \in Phys : x[1] \in allocated_page => mem'[x] = mem[x]
  BY <1>2, <1>3, <1>7 DEF SameBytes
<1>10. vm'[p] = n.v /\ \A q \in Pids \ {p} : vm'[q] = vm[q]
  BY <1>1, <1>3
<1>11. n.v # NULL
  BY <1>6, NullAssumption
<1>12. Live' = Live
  BY <1>1, <1>10, <1>11 DEF Live
<1>13. ASSUME NEW q \in Live, NEW x \in Below
       PROVE  mem'[PhyAddr(vm[q], x)] = mem[PhyAddr(vm[q], x)]
  BY <1>9, BelowPages, LiveFrame
<1>14. ASSUME NEW q \in Live, NEW x \in Below, q # p \/ ArgsStart <= x
       PROVE  Stays(q, x)
  <2>1. CASE q # p
    BY <1>10, <1>13, <2>1 DEF Stays, Live
  <2>2. CASE q = p
    <3>1. x \in ArgsStart .. ArgsEnd - 1
      BY <1>14, <2>2, BelowPages, Sizes
    <3> QED
      BY <1>8, <1>10, <1>13, <2>2, <3>1 DEF Stays, Private, Valid
  <2> QED
    BY <2>1, <2>2
<1> QED
  BY <1>1, <1>10, <1>12, <1>14 DEF ExecveBy, Live

LEMMA ExecveShown ==
    ASSUME LayoutInv, LayoutInv', NEW p, ExecveBy(p)
    PROVE  Replaced(p)
<1>1. p \in Live /\ p \in Live' /\ Live' = Live
  BY DEF ExecveBy
<1>2. ASSUME NEW q \in Pids \ {p}
      PROVE  SpaceMap'[q] = SpaceMap[q]
  <2>1. CASE q \in Live
    <3>1. vm'[q] = vm[q] /\ \A x \in Below : Stays(q, x)
      BY <2>1 DEF ExecveBy
    <3> QED
      BY <1>1, <2>1, <3>1, SpaceShown
  <2>2. CASE q \notin Live
    <3>1. vm[q] = NULL /\ vm'[q] = NULL
      BY <1>1, <2>2 DEF Live
    <3> QED
      BY <3>1 DEF SpaceMap
  <2> QED
    BY <2>1, <2>2
<1>3. ASSUME NEW a \in ArgsStart .. ArgsEnd - 1
      PROVE  SpaceMap'[p][a] = SpaceMap[p][a]
  <2>1. a \in Addr /\ a \in Below /\ ArgsStart <= a
    BY Sizes DEF Addr, Below
  <2>2. /\ vm[p] \in VmType /\ AreasOK(vm[p]) /\ PagesOK(vm[p])
        /\ vm'[p] \in VmType /\ AreasOK(vm'[p]) /\ PagesOK(vm'[p])
    BY <1>1, LiveTypes DEF LayoutInv, VmInv, TypeOK, Live
  <2>3. Private(vm[p], a) /\ Private(vm'[p], a)
    BY <2>2, ArgsPrivate
  <2>4. Stays(p, a)
    BY <1>1, <2>1 DEF ExecveBy
  <2> QED
    BY <1>1, <2>1, <2>3, <2>4, ByteShown
<1> QED
  BY <1>1, <1>2, <1>3 DEF Replaced, Unseen

LEMMA ExecveSpace ==
    ASSUME NEW addrs, NEW images, Suits(addrs, images), SpaceInv(addrs), CowInv', Room',
           NEW p \in Pids, NEW image \in images, Execve(p, image)
    PROVE  SpaceInv(addrs)'
<1> DEFINE m == [v |-> vm[p], mem |-> mem, used |-> allocated_page]
           n == Executed(m, image)
<1>1. /\ p \in Live /\ vm[p] \in VmType /\ vm[p] # NULL
      /\ vm \in [Pids -> VmType \cup {NULL}]
      /\ AreasOK(vm[p]) /\ PagesOK(vm[p]) /\ OneFrame(vm[p])
      /\ \A r \in Pids : store[r] = NULL
      /\ \A pg \in Pages : Frame(vm[p], pg) \in allocated_page
  BY DEF Execve, Quiet, SpaceInv, CowInv, LayoutInv, VmInv, TypeOK, MappedOK, Live
<1>2. /\ m \in MemState /\ Base(m.v)
      /\ m.v = vm[p] /\ m.used = allocated_page
  BY <1>1 DEF SpaceInv, CowInv, LayoutInv, VmInv, TypeOK, MemState, Base, AllFrames
<1>3. vm' = [vm EXCEPT ![p] = n.v] /\ allocated_page' = n.used /\ UNCHANGED store
  BY DEF Execve
<1> HIDE DEF m
<1>4. image \in ImageType /\ EndAt(image) <= StackStart
  BY DEF Suits, Possible, Fits
<1>5. AllFrames \ n.used # {}
  BY <1>3 DEF Room
<1>6. OneFrame(n.v)
  BY <1>1, <1>2, <1>4, <1>5, ExecutedOneFrame
<1>7. TextSafe(n.v, addrs)
  BY <1>2, ExecutedText
<1> HIDE DEF n
<1>8. vm'[p] = n.v /\ \A q \in Pids \ {p} : vm'[q] = vm[q]
  BY <1>1, <1>3
<1>9. \A r \in Pids : vm'[r] # NULL => OneFrame(vm'[r]) /\ TextSafe(vm'[r], addrs)
  BY <1>6, <1>7, <1>8 DEF SpaceInv, Live
<1>10. \A r \in Live' : OneFrame(vm[r])' /\ TextSafe(vm[r], addrs)'
  BY <1>9 DEF Live, Pids
<1>11. StoreMatches(addrs)'
  BY <1>1, <1>3 DEF StoreMatches, Pids
<1> QED
  BY <1>10, <1>11 DEF SpaceInv

LEMMA InitSpace ==
    ASSUME NEW addrs, NEW images, Suits(addrs, images), Boot \in images, Init, Room
    PROVE  SpaceInv(addrs) /\ 1 \in Live
<1> DEFINE z == [v |-> BlankVm, mem |-> [x \in Phys |-> 0], used |-> {}]
           n == Executed(z, Boot)
<1>1. BlankVm \in VmType /\ BlankVm.vm_area = <<>>
  BY DEF VmType, BlankVm
<1>2. z \in MemState /\ z.v = BlankVm /\ Base(z.v)
  BY <1>1, MemoryAssumption DEF MemState, Base
<1>3. /\ vm = [p \in Pids |-> IF p = 1 THEN n.v ELSE NULL]
      /\ store = [p \in Pids |-> NULL] /\ allocated_page = n.used
  BY DEF Init
<1> HIDE DEF z
<1>4. Boot \in ImageType /\ EndAt(Boot) <= StackStart /\ Packed(Boot)
  BY DEF Suits, Possible, Fits
<1>5. OneFrame(n.v)
  BY <1>2, <1>3, <1>4, FirstOneFrame DEF Room
<1>6. TextSafe(n.v, addrs)
  BY <1>2, <1>4, ExecutedText
<1>7. n.v \in VmType
  BY <1>2, <1>4, ExecutedEffect DEF MemState
<1> HIDE DEF n
<1>8. \A p \in Live : OneFrame(vm[p]) /\ TextSafe(vm[p], addrs)
  BY <1>3, <1>5, <1>6 DEF Live
<1>9. StoreMatches(addrs)
  BY <1>3 DEF StoreMatches
<1>10. 1 \in Live
  BY <1>3, <1>7, NullAssumption DEF Live, Pids
<1> QED
  BY <1>4, <1>8, <1>9, <1>10, InitCow DEF SpaceInv

-----------------------------------------------------------------------------
(* The theorem.                                                            *)

\* The inductive step, and what the step is for those who read.
LEMMA SpaceStep ==
    ASSUME NEW addrs, NEW images, Suits(addrs, images), ~ Threads, MaxPid <= 2,
           SpaceInv(addrs), Room, Room', StepOf(addrs, images) \/ UNCHANGED vars
    PROVE  /\ SpaceInv(addrs)'
           /\ \/ UNCHANGED <<vm, mem>>
              \/ \E p \in Pids :
                    \/ \E a \in addrs : StoreTo(p, a)
                    \/ \E q \in Pids : Fork(p, q)
                    \/ \E image \in images : Execve(p, image) /\ ExecveBy(p)
<1>0. addrs \subseteq Below
  BY Sizes DEF Suits, Possible, StoresTo, Addr, Below
<1>1. CowInv'
  BY CowStep DEF SpaceInv, Suits
<1>2. ASSUME UNCHANGED <<vm, mem, store>>
      PROVE  SpaceInv(addrs)'
  <2>1. StoreMatches(addrs)'
    BY <1>2 DEF SpaceInv, StoreMatches, Pids, Phys
  <2> QED
    BY <1>1, <1>2, <2>1, SameVms
<1>3. CASE UNCHANGED vars
  BY <1>2, <1>3 DEF vars
<1>4. ASSUME NEW p \in Pids, NEW a \in addrs, Load(p, a)
      PROVE  SpaceInv(addrs)' /\ UNCHANGED <<vm, mem>>
  <2>1. vm' = vm /\ UNCHANGED <<mem, store>>
    BY <1>0, <1>4, LoadSame DEF Load, SpaceInv, CowInv
  <2> QED
    BY <1>2, <2>1
<1>5. ASSUME NEW p \in Pids, NEW a \in addrs, NEW b \in Vals, StoreByte(p, a, b)
      PROVE  SpaceInv(addrs)' /\ StoreTo(p, a)
  BY <1>0, <1>1, <1>5, StoreByteSpace
<1>6. ASSUME NEW p \in Pids, NEW a \in addrs, NEW b \in Vals, BeginCopy(p, a, b)
      PROVE  SpaceInv(addrs)' /\ UNCHANGED <<vm, mem>>
  BY <1>0, <1>1, <1>6, BeginCopySpace
<1>7. ASSUME NEW p \in Pids, EndCopy(p)
      PROVE  SpaceInv(addrs)' /\ \E a \in addrs : StoreTo(p, a)
  BY <1>0, <1>1, <1>7, EndCopySpace
<1>8. ASSUME NEW p \in Pids, NEW q \in Pids, Fork(p, q)
      PROVE  SpaceInv(addrs)'
  BY <1>1, <1>8, ForkSpace
<1>9. ASSUME NEW p \in Pids, NEW image \in images, Execve(p, image)
      PROVE  SpaceInv(addrs)' /\ ExecveBy(p)
  <2>1. SpaceInv(addrs)'
    BY <1>1, <1>9, ExecveSpace
  <2>2. LayoutInv /\ Fits(image) /\ Packed(image)
    BY DEF SpaceInv, CowInv, Suits, Possible
  <2> QED
    BY <1>9, <2>1, <2>2, ExecveStays
<1> QED
  BY <1>2, <1>3, <1>4, <1>5, <1>6, <1>7, <1>8, <1>9 DEF StepOf, vars

\* Such a step is one of AddressSpaces, or changes nothing there.
LEMMA SpaceShows ==
    ASSUME NEW addrs, NEW images, Suits(addrs, images), ~ Threads, MaxPid <= 2,
           SpaceInv(addrs), Room, Room', StepOf(addrs, images) \/ UNCHANGED vars
    PROVE  \/ SpaceMap' = SpaceMap
           \/ \E p \in Pids : \/ Stored(p)
                              \/ \E q \in Pids : Forked(p, q)
                              \/ Replaced(p)
<1>1. SpaceInv(addrs)' /\ LayoutInv /\ LayoutInv' /\ CowInv'
  BY SpaceStep DEF SpaceInv, CowInv
<1>2. UNCHANGED <<vm, mem>> => SpaceMap' = SpaceMap
  BY DEF SpaceMap, Addr, Pids
<1>3. ASSUME NEW p \in Pids, NEW a \in addrs, StoreTo(p, a)
      PROVE  Stored(p)
  BY <1>1, <1>3, StoreShown
<1>4. ASSUME NEW p \in Pids, NEW q \in Pids, Fork(p, q)
      PROVE  Forked(p, q)
  BY <1>1, <1>4, ForkSpace
<1>5. ASSUME NEW p \in Pids, ExecveBy(p)
      PROVE  Replaced(p)
  BY <1>1, <1>5, ExecveShown
<1> QED
  BY <1>2, <1>3, <1>4, <1>5, SpaceStep

LEMMA SuitsNext ==
    ASSUME AllPacked, StoresOK
    PROVE  Suits(StoreAddrs, Images)
BY NextIs DEF AllPacked, StoresOK, Suits

\* Virtual memory gives every process memory of its own: what a process reads at its
\* private addresses changes by its own stores, forks and execves only, one byte a
\* store, and the child of a fork reads what its parent does.  It takes what
\* SharedProtectedHolds takes, and stores that are to no text.
THEOREM SpacesHold ==
    ASSUME AllPacked, StoresOK, ~ Threads, MaxPid <= 2
    PROVE  Spec /\ []Room => SpacesSpec
<1> DEFINE Inv == SpaceInv(StoreAddrs)
<1>0. Suits(StoreAddrs, Images) /\ Boot \in Images
  BY SuitsNext, MemoryAssumption
<1>1. Init /\ Room => Inv /\ 1 \in Live
  BY <1>0, InitSpace
<1>2. Inv /\ Room /\ Room' /\ [Next]_vars => Inv'
  BY <1>0, SpaceStep, NextIs
<1> HIDE DEF Inv
<1>3. Init /\ Room => Spaces!Init
  <2> SUFFICES ASSUME Init, Room
               PROVE  Spaces!Init
    OBVIOUS
  <2>1. 1 \in Pids
    BY NullAssumption DEF Pids
  <2>2. TypeOK
    BY InitVmInv DEF VmInv
  <2>3. \A q \in Pids : vm[q] = NULL <=> q # 1
    BY <1>1 DEF Init, Live
  <2>4. \A q \in Pids : SpaceMap[q] = NULL <=> q # 1
    BY <2>2, <2>3, SpaceMapIs DEF Live
  <2> QED
    BY <2>1, <2>4 DEF Spaces!Init, SpaceMap
<1>4. Inv /\ Room /\ Room' /\ [Next]_vars => [Spaces!Next]_SpaceMap
  <2> SUFFICES ASSUME Inv, Room, Room', [Next]_vars, SpaceMap' # SpaceMap
               PROVE  Spaces!Next
    OBVIOUS
  <2>1. PICK p \in Pids : \/ Stored(p)
                          \/ \E q \in Pids : Forked(p, q)
                          \/ Replaced(p)
    BY <1>0, SpaceShows, NextIs DEF Inv
  <2>2. /\ \A q \in Live : SpaceMap[q] # NULL
        /\ \A q \in Pids \ Live : SpaceMap[q] = NULL
    BY SpaceMapIs DEF Inv, SpaceInv, CowInv, LayoutInv, VmInv
  <2>3. \A q \in Pids : Unseen(q) => Spaces!Others(q)
    BY DEF Unseen, Spaces!Others, SpaceMap
  <2>4. CASE Stored(p)
    <3>1. \E a \in Addr : \A x \in Addr \ {a} : SpaceMap'[p][x] = SpaceMap[p][x]
      BY <2>4 DEF Stored
    <3>2. SpaceMap[p] # NULL /\ Spaces!Others(p)
      BY <2>2, <2>3, <2>4 DEF Stored
    <3>3. Spaces!Store(p)
      BY <3>1, <3>2 DEF Spaces!Store, SpaceMap
    <3> QED
      BY <3>3 DEF Spaces!Next
  <2>5. ASSUME NEW q \in Pids, Forked(p, q)
        PROVE  Spaces!Next
    <3>1. /\ SpaceMap[p] # NULL /\ SpaceMap[q] = NULL
          /\ SpaceMap'[q] = SpaceMap[p] /\ Spaces!Others(q)
      BY <2>2, <2>3, <2>5 DEF Forked
    <3>2. Spaces!Fork(p, q)
      BY <3>1 DEF Spaces!Fork, SpaceMap
    <3> QED
      BY <3>2 DEF Spaces!Next
  <2>6. CASE Replaced(p)
    <3>1. /\ SpaceMap[p] # NULL /\ Spaces!Others(p)
          /\ \A a \in ArgsStart .. ArgsEnd - 1 : SpaceMap'[p][a] = SpaceMap[p][a]
      BY <2>2, <2>3, <2>6 DEF Replaced
    <3>2. Spaces!Execve(p)
      BY <3>1 DEF Spaces!Execve, SpaceMap
    <3> QED
      BY <3>2 DEF Spaces!Next
  <2> QED
    BY <2>1, <2>4, <2>5, <2>6
<1> QED
  BY <1>1, <1>2, <1>3, <1>4, PTL DEF Spec, SpacesSpec, Spaces!Spec, SpaceMap

=============================================================================
