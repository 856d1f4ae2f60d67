---------------------------- MODULE LoaderProofs ----------------------------
(***************************************************************************)
(* Proofs about Loader.tla, for any page size, memory, processes, files    *)
(* and names: the theorems of virtual memory where the programs come from  *)
(* files, that a program is there after execve, byte for byte, and that it *)
(* finds its arguments.                                                    *)
(***************************************************************************)
EXTENDS Loader, AddressSpacesProofs

-----------------------------------------------------------------------------
(* A step of Loader is one of virtual memory.                              *)

LoaderAddrs == NameAddrs \cup StoreAddrs

Files == {vnode_list[i].content : i \in DOMAIN vnode_list}

LoaderImages == {Parse(file) : file \in Files} \cup {Boot}

\* All programs lie on pages that their own sections allocate.
FilesPacked == Packed(Boot) /\ \A file \in Files : Packed(Parse(file))

LEMMA FilesFit ==
    /\ \A file \in Files : Fits(Parse(file))
    /\ Possible(LoaderAddrs, LoaderImages)
    /\ \A a \in NameAddrs : a \in Nat /\ ArgsStart <= a /\ a < ArgsEnd
<1>1. \A file \in Files : Fits(Parse(file))
  <2> SUFFICES ASSUME NEW i \in DOMAIN vnode_list
               PROVE  Fits(Parse(vnode_list[i].content))
    BY DEF Files
  <2> DEFINE program == Parse(vnode_list[i].content)
  <2>1. /\ program \in ImageType
        /\ Len(program.text) + Len(program.data) + program.bss <= StackStart
    BY FilesAssumption DEF ImageType
  <2> HIDE DEF program
  <2>2. EndAt(program) <= StackStart
    BY <2>1 DEF EndAt, BssAt, DataAt
  <2> QED
    BY <2>1, <2>2 DEF Fits, program
<1>2. Fits(Boot)
  BY ImagesOK, MemoryAssumption
<1>3. \A a \in NameAddrs : a \in Nat /\ ArgsStart <= a /\ a < ArgsEnd
  <2> SUFFICES ASSUME NEW a \in NameAddrs
               PROVE  a \in Nat /\ ArgsStart <= a /\ a < ArgsEnd
    OBVIOUS
  <2>1. a \in ArgsStart .. ArgsEnd - 1
    BY LoaderAssumption
  <2> QED
    BY <2>1, Sizes
<1>4. LoaderAddrs \subseteq Addr
  <2>1. \A a \in NameAddrs : a \in Addr
    BY <1>3, Sizes DEF Addr
  <2> QED
    BY <2>1, MemoryAssumption DEF LoaderAddrs
<1>5. \A program \in LoaderImages : Fits(program)
  BY <1>1, <1>2 DEF LoaderImages
<1> QED
  BY <1>1, <1>3, <1>4, <1>5 DEF Possible

LEMMA ProgramsPacked ==
    ASSUME FilesPacked
    PROVE  \A program \in LoaderImages : Packed(program)
BY DEF FilesPacked, LoaderImages

LEMMA LoaderStep ==
    ASSUME LoaderNext \/ UNCHANGED loaderVars
    PROVE  StepOf(LoaderAddrs, LoaderImages) \/ UNCHANGED vars
<1>1. CASE UNCHANGED loaderVars
  BY <1>1 DEF loaderVars
<1>2. CASE LoaderNext
  <2>1. PICK p \in Pids : \/ Stores(p)
                          \/ Copied(p)
                          \/ \E q \in Pids : Spawn(p, q)
                          \/ \E a \in NameAddrs : HandleExecve(p, a)
    BY <1>2 DEF LoaderNext
  <2>2. CASE Stores(p)
    <3>1. PICK a \in LoaderAddrs, b \in Chars : StoreByte(p, a, b) \/ BeginCopy(p, a, b)
      BY <2>2 DEF Stores, LoaderAddrs
    <3>2. b \in Vals
      BY LoaderAssumption
    <3> QED
      BY <3>1, <3>2 DEF StepOf
  <2>3. CASE Copied(p)
    BY <2>3 DEF Copied, StepOf
  <2>4. CASE \E q \in Pids : Spawn(p, q)
    BY <2>4 DEF Spawn, StepOf
  <2>5. CASE \E a \in NameAddrs : HandleExecve(p, a)
    <3>1. PICK i \in DOMAIN vnode_list : Execve(p, Parse(vnode_list[i].content))
      BY <2>5 DEF HandleExecve
    <3>2. Parse(vnode_list[i].content) \in LoaderImages
      BY DEF LoaderImages, Files
    <3> QED
      BY <3>1, <3>2 DEF StepOf
  <2> QED
    BY <2>1, <2>2, <2>3, <2>4, <2>5
<1> QED
  BY <1>1, <1>2

-----------------------------------------------------------------------------
(* The theorems of virtual memory.                                         *)

LEMMA LoaderVmInv == LoaderSpec => []VmInv
<1>1. LoaderInit => VmInv
  BY InitVmInv DEF LoaderInit
<1>2. VmInv /\ [LoaderNext]_loaderVars => VmInv'
  BY LoaderStep, FilesFit, VmInvStep
<1> QED
  BY <1>1, <1>2, PTL DEF LoaderSpec

\* The variables of virtual memory stay in their types when programs come from files
\* and processes write the names of the next ones.
THEOREM LoaderTypes == LoaderSpec => []TypeOK
<1>1. VmInv => TypeOK
  BY DEF VmInv
<1> QED
  BY <1>1, LoaderVmInv, PTL

\* No process maps a page that could be handed out once more, whatever programs are
\* loaded.
THEOREM LoaderMappedAllocated == LoaderSpec => []MappedAllocated
<1>1. VmInv => MappedAllocated
  BY DEF VmInv, MappedOK, MappedAllocated, Maps, Frame
<1> QED
  BY <1>1, LoaderVmInv, PTL

LEMMA LoaderLayout ==
    ASSUME FilesPacked
    PROVE  LoaderSpec => []LayoutInv
<1>1. LoaderInit => LayoutInv
  BY InitLayout DEF LoaderInit, FilesPacked
<1>2. LayoutInv /\ [LoaderNext]_loaderVars => LayoutInv'
  BY LoaderStep, FilesFit, ProgramsPacked, LayoutStep
<1> QED
  BY <1>1, <1>2, PTL DEF LoaderSpec

\* execve of a file leaves a process with no page that another one maps, but for
\* those of its arguments.
THEOREM LoaderExecveUnshares ==
    ASSUME FilesPacked
    PROVE  LoaderSpec /\ []Room => ExecveUnshares
<1>1. LayoutInv /\ Room' /\ [LoaderNext]_loaderVars => [UnsharesStep]_vars
  BY LoaderStep, FilesFit, UnsharesInStep
<1>2. LoaderSpec /\ []Room => [][UnsharesStep]_vars
  BY <1>1, LoaderLayout, PTL DEF LoaderSpec
<1> QED
  BY <1>2, PTL DEF ExecveUnshares, UnsharesStep

\* What two processes share is protected, their arguments with the names they
\* write there too.
THEOREM LoaderSharedProtected ==
    ASSUME FilesPacked, ~ Threads, MaxPid <= 2
    PROVE  LoaderSpec /\ []Room => []SharedProtected
<1>1. LoaderInit => CowInv
  BY InitCow DEF LoaderInit, FilesPacked
<1>2. CowInv /\ Room /\ Room' /\ [LoaderNext]_loaderVars => CowInv'
  BY LoaderStep, FilesFit, ProgramsPacked, CowStep
<1>3. CowInv => SharedProtected
  BY CowProtects
<1> QED
  BY <1>1, <1>2, <1>3, PTL DEF LoaderSpec

-----------------------------------------------------------------------------
(* Every section of a program is there.                                    *)

\* A process executes one of the files, or the start-up script.
ImageInv == image \in [Pids -> Files \cup {NULL}]

\* The areas of v hold every address of the program.
InPlace(v, program) == \A a \in 0 .. EndAt(program) - 1 : InArea(v, a)

\* The inductive invariant for SectionsMapped.
SectionsInv ==
    /\ LayoutInv
    /\ ImageInv
    /\ \A p \in Live : image[p] # NULL => InPlace(vm[p], Parse(image[p]))

SameAreas(v, w) == \A a \in Addr : InArea(v, a) => InArea(w, a)

LEMMA AddressesOf ==
    ASSUME NEW program \in ImageType
    PROVE  Len(program.text) + Len(program.data) + program.bss - 1 = EndAt(program) - 1
<1> DEFINE t == Len(program.text)
           d == Len(program.data)
           b == program.bss
<1>1. t \in Nat /\ d \in Nat /\ b \in Nat
  <2>1. program.text \in Seq(Vals) /\ program.data \in Seq(Vals) /\ program.bss \in Nat
    BY DEF ImageType
  <2> QED
    BY <2>1, LenProperties
<1>2. EndAt(program) = t + d + b
  BY DEF EndAt, BssAt, DataAt
<1> HIDE DEF t, d, b
<1>3. t + d + b - 1 = EndAt(program) - 1
  BY <1>1, <1>2
<1> QED
  BY <1>3 DEF t, d, b

LEMMA ExecutedInPlace ==
    ASSUME NEW m \in MemState, AreasOK(m.v), NEW program, Fits(program)
    PROVE  InPlace(Executed(m, program).v, program)
<1> DEFINE s == Executed(m, program).v.vm_area
<1>1. PICK r : KeptAreas(s, program, r)
  BY ExecutedEffect DEF AreasOK, Base, Fits
<1>2. /\ DataAt(program) \in Nat /\ BssAt(program) \in Nat /\ EndAt(program) \in Nat
  BY ImagePlaces DEF Fits
<1> HIDE DEF s
<1>3. ASSUME NEW a \in 0 .. EndAt(program) - 1
      PROVE  \E i \in DOMAIN s : Holds(s[i], a)
  <2>1. /\ 2 \in DOMAIN s /\ s[2].start = 0 /\ s[2].end = DataAt(program)
        /\ 3 \in DOMAIN s /\ s[3].start = DataAt(program) /\ s[3].end = BssAt(program)
        /\ 4 \in DOMAIN s /\ s[4].start = BssAt(program) /\ s[4].end = EndAt(program)
    BY <1>1 DEF KeptAreas, TextArea, DataArea, BssArea, Area
  <2>2. Holds(s[2], a) \/ Holds(s[3], a) \/ Holds(s[4], a)
    BY <1>2, <2>1 DEF Holds
  <2> QED
    BY <2>1, <2>2
<1> QED
  BY <1>3 DEF InPlace, InArea, s

\* A step leaves a process what its areas hold, gives the child of a fork what those
\* of its parent do, or is execve.
LEMMA ImageStep ==
    ASSUME LayoutInv, ImageInv, LoaderNext \/ UNCHANGED loaderVars, NEW q \in Live'
    PROVE  \/ \E p \in Live : image'[q] = image[p] /\ SameAreas(vm[p], vm'[q])
           \/ \E file \in Files : image'[q] = file /\ q \in Live /\ Execve(q, Parse(file))
<1>1. /\ vm \in [Pids -> VmType \cup {NULL}] /\ image \in [Pids -> Files \cup {NULL}]
      /\ q \in Pids /\ vm'[q] # NULL
  BY DEF LayoutInv, VmInv, TypeOK, ImageInv, Live
<1>2. ASSUME image'[q] = image[q], vm'[q] = vm[q] \/ vm'[q].vm_area = vm[q].vm_area,
             vm[q] # NULL
      PROVE  \E p \in Live : image'[q] = image[p] /\ SameAreas(vm[p], vm'[q])
  <2>1. q \in Live /\ SameAreas(vm[q], vm'[q])
    BY <1>1, <1>2 DEF SameAreas, InArea, Live
  <2> QED
    BY <1>2, <2>1
<1>3. CASE UNCHANGED loaderVars
  BY <1>1, <1>2, <1>3 DEF loaderVars, vars
<1>4. ASSUME NEW p \in Pids, Stores(p)
      PROVE  image'[q] = image[q] /\ vm'[q].vm_area = vm[q].vm_area /\ vm[q] # NULL
  <2>1. PICK a, b : StoreByte(p, a, b) \/ BeginCopy(p, a, b)
    BY <1>4 DEF Stores
  <2>2. vm' = [vm EXCEPT ![p] = Touched(vm[p], PageOf(a))] \/ vm' = vm
    BY <2>1 DEF StoreByte, BeginCopy
  <2>3. vm[p] # NULL /\ vm[p] \in VmType
    BY <1>1, <2>1 DEF StoreByte, BeginCopy
  <2>4. Touched(vm[p], PageOf(a)).vm_area = vm[p].vm_area
    BY <2>3 DEF Touched, VmType
  <2> QED
    BY <1>1, <1>4, <2>2, <2>3, <2>4 DEF Stores
<1>5. ASSUME NEW p \in Pids, Copied(p)
      PROVE  image'[q] = image[q] /\ vm'[q].vm_area = vm[q].vm_area /\ vm[q] # NULL
  <2>1. vm[p] # NULL /\ vm[p] \in VmType
    BY <1>1, <1>5 DEF Copied, EndCopy, LayoutInv, VmInv, StoreOK, Live
  <2>2. PICK pg, f : vm' = [vm EXCEPT ![p].pgd[pg] = f, ![p].pgd_valid[pg] = "RW"]
    BY <1>5 DEF Copied, EndCopy
  <2>3. vm'[q] = IF q = p THEN [vm[p] EXCEPT !.pgd[pg] = f, !.pgd_valid[pg] = "RW"]
                 ELSE vm[q]
    BY <1>1, <2>1, <2>2 DEF VmType
  <2>4. [vm[p] EXCEPT !.pgd[pg] = f, !.pgd_valid[pg] = "RW"].vm_area = vm[p].vm_area
    BY <2>1 DEF VmType
  <2> QED
    BY <1>1, <1>5, <2>1, <2>3, <2>4 DEF Copied
<1>6. ASSUME NEW p \in Pids, NEW r \in Pids, Spawn(p, r)
      PROVE  \E x \in Live : image'[q] = image[x] /\ SameAreas(vm[x], vm'[q])
  <2>1. p \in Live /\ vm[p] \in VmType /\ vm[r] = NULL /\ p # r
    BY <1>1, <1>6 DEF Spawn, Fork, Live
  <2>2. /\ vm' = [vm EXCEPT ![p] = Protected(vm[p]), ![r] = Protected(vm[p])]
        /\ image' = [image EXCEPT ![r] = image[p]]
    BY <1>6 DEF Spawn, Fork, Parent, Child
  <2>3. SameAreas(vm[p], Protected(vm[p]))
    BY <2>1, ProtectedEffect DEF SameAreas, InArea, Holds
  <2>4. CASE q \in {p, r}
    <3>1. vm'[q] = Protected(vm[p]) /\ image'[q] = image[p]
      BY <1>1, <2>1, <2>2, <2>4
    <3> QED
      BY <2>1, <2>3, <3>1
  <2>5. CASE q \notin {p, r}
    BY <1>1, <1>2, <2>2, <2>5
  <2> QED
    BY <2>4, <2>5
<1>7. ASSUME NEW p \in Pids, NEW a \in NameAddrs, HandleExecve(p, a)
      PROVE  \/ image'[q] = image[q] /\ vm'[q] = vm[q] /\ vm[q] # NULL
             \/ \E file \in Files : image'[q] = file /\ q \in Live /\ Execve(q, Parse(file))
  <2>1. PICK i \in DOMAIN vnode_list :
          /\ Execve(p, Parse(vnode_list[i].content))
          /\ image' = [image EXCEPT ![p] = vnode_list[i].content]
    BY <1>7 DEF HandleExecve
  <2>2. CASE q = p
    <3>1. q \in Live /\ image'[q] = vnode_list[i].content /\ vnode_list[i].content \in Files
      BY <1>1, <2>1, <2>2 DEF Execve, Live, Files
    <3> QED
      BY <2>1, <2>2, <3>1
  <2>3. CASE q # p
    BY <1>1, <2>1, <2>3 DEF Execve
  <2> QED
    BY <2>2, <2>3
<1> QED
  BY <1>2, <1>3, <1>4, <1>5, <1>6, <1>7 DEF LoaderNext

LEMMA ImageInvStep ==
    ASSUME ImageInv, LoaderNext \/ UNCHANGED loaderVars
    PROVE  ImageInv'
<1>1. CASE UNCHANGED loaderVars
  BY <1>1 DEF loaderVars, ImageInv, Pids, Files
<1>2. CASE LoaderNext
  <2>1. \/ UNCHANGED image
        \/ \E p, q \in Pids : image' = [image EXCEPT ![q] = image[p]]
        \/ \E p \in Pids : \E i \in DOMAIN vnode_list :
             image' = [image EXCEPT ![p] = vnode_list[i].content]
    BY <1>2 DEF LoaderNext, Stores, Copied, Spawn, HandleExecve
  <2> QED
    BY <2>1 DEF ImageInv, Files, Pids
<1> QED
  BY <1>1, <1>2

LEMMA SectionsInvariant ==
    ASSUME FilesPacked
    PROVE  LoaderSpec => []SectionsInv
<1>1. LoaderInit => ImageInv /\ \A p \in Pids : image[p] = NULL
  BY DEF LoaderInit, ImageInv
<1>2. ASSUME SectionsInv, LayoutInv', LoaderNext \/ UNCHANGED loaderVars
      PROVE  SectionsInv'
  <2>1. ImageInv'
    BY <1>2, ImageInvStep DEF SectionsInv
  <2>2. ASSUME NEW q \in Live', image'[q] # NULL
        PROVE  InPlace(vm'[q], Parse(image'[q]))
    <3>1. CASE \E p \in Live : image'[q] = image[p] /\ SameAreas(vm[p], vm'[q])
      <4>1. PICK p \in Live : image'[q] = image[p] /\ SameAreas(vm[p], vm'[q])
        BY <3>1
      <4>2. InPlace(vm[p], Parse(image[p])) /\ image[p] \in Files
        BY <1>2, <2>2, <4>1 DEF SectionsInv, ImageInv, Live
      <4>3. EndAt(Parse(image[p])) \in Nat /\ EndAt(Parse(image[p])) <= StackStart
        BY <4>2, FilesFit, ImagePlaces DEF Fits
      <4>4. 0 .. EndAt(Parse(image[p])) - 1 \subseteq Addr
        BY <4>3, Sizes DEF Addr
      <4> QED
        BY <4>1, <4>2, <4>4 DEF InPlace, SameAreas
    <3>2. ASSUME NEW file \in Files, image'[q] = file, q \in Live, Execve(q, Parse(file))
          PROVE  InPlace(vm'[q], Parse(file))
      <4> DEFINE m == [v |-> vm[q], mem |-> mem, used |-> allocated_page]
      <4>1. /\ q \in Pids /\ vm[q] \in VmType /\ AreasOK(vm[q])
            /\ vm \in [Pids -> VmType \cup {NULL}]
        BY <1>2, <3>2 DEF SectionsInv, LayoutInv, VmInv, TypeOK, Live
      <4>2. m \in MemState /\ m.v = vm[q]
        BY <1>2, <4>1 DEF SectionsInv, LayoutInv, VmInv, TypeOK, MemState, AllFrames
      <4>3. vm' = [vm EXCEPT ![q] = Executed(m, Parse(file)).v]
        BY <3>2 DEF Execve
      <4> HIDE DEF m
      <4>4. InPlace(Executed(m, Parse(file)).v, Parse(file))
        BY <3>2, <4>1, <4>2, FilesFit, ExecutedInPlace
      <4> QED
        BY <4>1, <4>3, <4>4
    <3> QED
      BY <1>2, <3>1, <3>2, ImageStep DEF SectionsInv
  <2>3. \A q \in Live' : image'[q] # NULL => InPlace(vm'[q], Parse(image'[q]))
    BY <2>2
  <2> QED
    BY <1>2, <2>1, <2>3 DEF SectionsInv
<1>3. LoaderInit /\ LayoutInv => SectionsInv
  BY <1>1 DEF SectionsInv, Live
<1>4. LoaderSpec => []LayoutInv
  BY LoaderLayout
<1> QED
  BY <1>2, <1>3, <1>4, PTL DEF LoaderSpec

\* Every section of a program is there, however its process came to execute it: each
\* of its addresses is on a page that the process has, and another one is not handed.
THEOREM SectionsMappedHolds ==
    ASSUME FilesPacked
    PROVE  LoaderSpec => []SectionsMapped
<1>1. SectionsInv => SectionsMapped
  <2> SUFFICES ASSUME SectionsInv, NEW p \in Live, image[p] # NULL,
                      NEW a \in SectionAddrs(image[p])
               PROVE  Maps(p, PageOf(a))
    BY DEF SectionsMapped
  <2> DEFINE program == Parse(image[p])
  <2>1. image[p] \in Files
    BY DEF SectionsInv, ImageInv, Live
  <2>2. EndAt(program) \in Nat /\ EndAt(program) <= StackStart
    BY <2>1, FilesFit, ImagePlaces DEF Fits
  <2>3. a \in 0 .. EndAt(program) - 1
    BY <2>1, FilesFit, AddressesOf DEF SectionAddrs, Fits
  <2>4. InArea(vm[p], a)
    BY <2>3 DEF SectionsInv, InPlace
  <2> HIDE DEF program
  <2>5. a \in 0 .. ArgsEnd - 1
    BY <2>2, <2>3, Sizes
  <2>6. Backed(vm[p], PageOf(a))
    BY <2>4, <2>5 DEF SectionsInv, LayoutInv, PagesOK, InArea
  <2> QED
    BY <2>6 DEF Backed, Valid, Maps
<1> QED
  BY <1>1, SectionsInvariant, PTL

-----------------------------------------------------------------------------
(* A new program finds its name and its arguments.                         *)

\* The longest name that begins at one of the addresses lies in the arguments.
NamesFit == \A a \in NameAddrs : ArgsStart <= a - (MaxName - 1) * Stride

\* Each character of a name is one of the arguments.
LEMMA NameInArgs ==
    ASSUME NamesFit, NEW a \in NameAddrs, NEW j \in 1 .. MaxName
    PROVE  a - (j - 1) * Stride \in ArgsStart .. ArgsEnd - 1
<1>1. MaxName \in Nat \ {0} /\ Stride \in Nat \ {0} /\ a \in Nat /\ a < ArgsEnd
  BY LoaderAssumption, FilesFit
<1>2. j - 1 \in Nat /\ MaxName - 1 \in Nat /\ j - 1 <= MaxName - 1
  BY <1>1
<1> DEFINE l == (j - 1) * Stride
           h == (MaxName - 1) * Stride
<1>3. l \in Nat /\ h \in Nat /\ l <= h
  BY <1>1, <1>2, Monotone
<1>4. ArgsStart <= a - h
  BY DEF NamesFit
<1> HIDE DEF l, h
<1>5. a - l \in ArgsStart .. ArgsEnd - 1
  BY <1>1, <1>3, <1>4, Sizes
<1> QED
  BY <1>5 DEF l

\* The characters of a name, up to the first 0.
UpTo(chars) ==
    LET ends == {j \in 1 .. MaxName : chars[j] = 0}
    IN  SubSeq(chars, 1, IF ends = {} THEN MaxName
                         ELSE (CHOOSE j \in ends : \A k \in ends : j <= k) - 1)

\* A byte of the arguments is read as it is in memory.
LEMMA ArgsRead ==
    ASSUME NEW v \in VmType, AreasOK(v), PagesOK(v), NEW m,
           NEW a \in ArgsStart .. ArgsEnd - 1
    PROVE  Valid(v, PageOf(a)) /\ CharAt(v, m, a) = m[PhyAddr(v, a)]
<1>1. a \in Addr
  BY Sizes DEF Addr
<1>2. InArea(v, a) /\ Valid(v, PageOf(a))
  BY <1>1, ArgsPrivate, PrivatePage
<1> QED
  BY <1>1, <1>2 DEF CharAt, Valid

\* A new program finds its name and its arguments where the old one put them: the walk
\* of execve over an address of a name reads what it read before, although all sections
\* but the arguments are new.
THEOREM ArgsNotSmashedHolds ==
    ASSUME FilesPacked, NamesFit
    PROVE  LoaderSpec /\ []Room => ArgsNotSmashed
<1> DEFINE Finds == \A p \in Live : image'[p] # image[p] /\ vm'[p].vm_area # vm[p].vm_area =>
                      \A a \in NameAddrs : NameAt(vm[p], mem, a) = NameAt(vm'[p], mem', a)
<1>1. ASSUME LayoutInv, LayoutInv', Room', LoaderNext \/ UNCHANGED loaderVars,
             NEW p \in Live, image'[p] # image[p], vm'[p].vm_area # vm[p].vm_area,
             NEW a \in NameAddrs
      PROVE  NameAt(vm[p], mem, a) = NameAt(vm'[p], mem', a)
  <2>1. PICK file \in Files : Execve(p, Parse(file))
    <3>1. p \in Pids /\ vm[p] # NULL
      BY DEF Live
    <3>2. image' # image
      BY <1>1
    <3>3. PICK r \in Pids : \/ \E q \in Pids : Spawn(r, q)
                            \/ \E b \in NameAddrs : HandleExecve(r, b)
      BY <1>1, <3>2 DEF LoaderNext, loaderVars, Stores, Copied
    <3>4. ASSUME NEW q \in Pids, Spawn(r, q)
          PROVE  FALSE
      <4>1. vm[q] = NULL /\ image' = [image EXCEPT ![q] = image[r]]
        BY <3>4 DEF Spawn, Fork
      <4> QED
        BY <1>1, <3>1, <4>1
    <3>5. PICK b \in NameAddrs : HandleExecve(r, b)
      BY <3>3, <3>4
    <3>6. PICK i \in DOMAIN vnode_list :
            /\ Execve(r, Parse(vnode_list[i].content))
            /\ image' = [image EXCEPT ![r] = vnode_list[i].content]
      BY <3>5 DEF HandleExecve
    <3>7. r = p
      BY <1>1, <3>6
    <3> QED
      BY <3>6, <3>7 DEF Files
  <2>2. ExecveBy(p)
    BY <1>1, <2>1, FilesFit, ExecveStays DEF FilesPacked, Live
  <2>3. /\ vm[p] \in VmType /\ AreasOK(vm[p]) /\ PagesOK(vm[p])
        /\ vm'[p] \in VmType /\ AreasOK(vm'[p]) /\ PagesOK(vm'[p])
    <3>1. p \in Live /\ p \in Live'
      BY <2>2 DEF ExecveBy
    <3> QED
      BY <1>1, <3>1, LiveTypes DEF LayoutInv, VmInv, TypeOK, Live
  <2>4. ASSUME NEW j \in 1 .. MaxName
        PROVE  CharAt(vm[p], mem, a - (j - 1) * Stride)
                 = CharAt(vm'[p], mem', a - (j - 1) * Stride)
    <3> DEFINE x == a - (j - 1) * Stride
    <3>1. x \in ArgsStart .. ArgsEnd - 1
      BY <1>1, NameInArgs
    <3> HIDE DEF x
    <3>2. x \in Below /\ ArgsStart <= x
      BY <3>1, Sizes DEF Below
    <3>3. Stays(p, x)
      BY <2>2, <3>2 DEF ExecveBy
    <3>4. /\ Valid(vm[p], PageOf(x))
          /\ CharAt(vm[p], mem, x) = mem[PhyAddr(vm[p], x)]
          /\ CharAt(vm'[p], mem', x) = mem'[PhyAddr(vm'[p], x)]
      BY <2>3, <3>1, ArgsRead
    <3>5. CharAt(vm[p], mem, x) = CharAt(vm'[p], mem', x)
      BY <3>3, <3>4 DEF Stays
    <3> QED
      BY <3>5 DEF x
  <2>5. [j \in 1 .. MaxName |-> CharAt(vm[p], mem, a - (j - 1) * Stride)]
          = [j \in 1 .. MaxName |-> CharAt(vm'[p], mem', a - (j - 1) * Stride)]
    BY <2>4
  <2>6. /\ NameAt(vm[p], mem, a)
             = UpTo([j \in 1 .. MaxName |-> CharAt(vm[p], mem, a - (j - 1) * Stride)])
        /\ NameAt(vm'[p], mem', a)
             = UpTo([j \in 1 .. MaxName |-> CharAt(vm'[p], mem', a - (j - 1) * Stride)])
    BY Zenon DEF NameAt, UpTo
  <2> QED
    BY ONLY <2>5, <2>6
<1>2. LayoutInv /\ LayoutInv' /\ Room' /\ [LoaderNext]_loaderVars => [Finds]_loaderVars
  BY <1>1
<1> HIDE DEF Finds
<1>3. LoaderSpec /\ []Room => [][Finds]_loaderVars
  BY <1>2, LoaderLayout, PTL DEF LoaderSpec
<1> QED
  BY <1>3, PTL DEF ArgsNotSmashed, Finds

-----------------------------------------------------------------------------
(* Every byte of a program is there.                                       *)

\* What a program has at an address.
ProgramByte(program, a) ==
    IF a < DataAt(program) THEN program.text[a + 1]
    ELSE IF a < BssAt(program) THEN program.data[a - DataAt(program) + 1]
    ELSE 0

\* v reads b at address a.
Shows(v, m, a, b) == Valid(v, PageOf(a)) /\ m[PhyAddr(v, a)] = b

\* v has the program, but where processes store.
Content(v, m, program) ==
    \A a \in 0 .. EndAt(program) - 1 :
        a \notin StoreAddrs => Shows(v, m, a, ProgramByte(program, a))

\* The inductive invariant for LabelsAreAddresses.
LoaderInv ==
    /\ SpaceInv(LoaderAddrs)
    /\ ImageInv
    /\ \A p \in Live : image[p] # NULL => Content(vm[p], mem, Parse(image[p]))

\* A page that was valid keeps its physical page as others are allocated, so if two
\* pages are two physical pages in the end, they were before.
LEMMA OneFrameBefore ==
    ASSUME NEW k, NEW n, Grows(k, n), OneFrame(n.v)
    PROVE  /\ OneFrame(k.v)
           /\ \A x \in Pages : Valid(k.v, x) => Valid(n.v, x) /\ Frame(n.v, x) = Frame(k.v, x)
<1>1. \A x \in Pages : Valid(k.v, x) => Valid(n.v, x) /\ Frame(n.v, x) = Frame(k.v, x)
  BY DEF Grows, New, Kept, Valid
<1> QED
  BY <1>1 DEF OneFrame

\* The addresses of a section are on valid pages.
OnValid(v, start, len) == \A a \in start .. start + len - 1 : Valid(v, PageOf(a))

\* A section leaves the bytes beside it.
LEMMA SectionKeeps ==
    ASSUME NEW k, NEW n, NEW name, NEW start \in Nat, NEW len \in Nat, NEW prot,
           Section(k, n, name, start, len, prot), OneFrame(n.v), OnValid(n.v, start, len),
           start + len <= ArgsStart,
           NEW a \in Nat, a < ArgsStart, a < start \/ start + len <= a,
           NEW b, Shows(k.v, k.mem, a, b)
    PROVE  Shows(n.v, n.mem, a, b)
<1>1. PageOf(a) \in Pages /\ PageOf(a) < ArgsStart
  BY LowAddresses
<1>2. Valid(n.v, PageOf(a)) /\ Frame(n.v, PageOf(a)) = Frame(k.v, PageOf(a))
  BY <1>1, OneFrameBefore DEF Section, Shows
<1>3. PhyAddr(n.v, a) = PhyAddr(k.v, a)
  BY <1>2 DEF PhyAddr
<1>4. ASSUME NEW c \in start .. start + len - 1
      PROVE  PhyAddr(n.v, a) # PhyAddr(n.v, c)
  <2>1. c \in Nat /\ start <= c /\ c < start + len
    BY Between
  <2>2. c # a /\ c < ArgsStart
    BY <2>1, Sizes
  <2>3. PageOf(c) \in Pages /\ PageOf(c) < ArgsStart /\ Valid(n.v, PageOf(c))
    BY <2>1, <2>2, LowAddresses DEF OnValid
  <2>4. PageOf(a) < ArgsEnd /\ PageOf(c) < ArgsEnd
    BY <1>1, <2>3, PagesAre, Sizes
  <2> QED
    BY <1>1, <1>2, <2>1, <2>2, <2>3, <2>4, OneByte
<1>5. PhyAddr(n.v, a) \in Phys
  <2>1. n.v \in VmType /\ a \in Addr
    BY Sizes DEF Section, MemState, Addr
  <2> QED
    BY <2>1, PhyAddrType
<1>6. n.mem[PhyAddr(n.v, a)] = k.mem[PhyAddr(n.v, a)]
  BY <1>4, <1>5 DEF Section
<1> QED
  BY <1>2, <1>3, <1>6 DEF Shows

\* A section has the bytes it was made of.
LEMMA SectionHas ==
    ASSUME NEW n, NEW start \in Nat, NEW bytes \in Seq(Vals), Filled(n, start, bytes),
           OneFrame(n.v), OnValid(n.v, start, Len(bytes)),
           start + Len(bytes) <= ArgsStart,
           NEW a \in Nat, start <= a, a < start + Len(bytes)
    PROVE  Shows(n.v, n.mem, a, bytes[a - start + 1])
<1>1. Len(bytes) \in Nat
  BY LenProperties
<1> DEFINE len == Len(bytes)
<1>2. ASSUME NEW c \in start .. start + len - 1
      PROVE  /\ c \in Nat /\ PageOf(c) \in Pages /\ PageOf(c) < ArgsEnd
             /\ Valid(n.v, PageOf(c))
  <2>1. c \in Nat /\ c < start + len
    BY <1>1, Between
  <2>2. c < ArgsStart
    BY <1>1, <2>1, Sizes
  <2>3. PageOf(c) \in Pages /\ PageOf(c) < ArgsStart
    BY <2>1, <2>2, LowAddresses
  <2>4. PageOf(c) < ArgsEnd
    BY <2>3, PagesAre, Sizes
  <2>5. Valid(n.v, PageOf(c))
    BY DEF OnValid
  <2> QED
    BY <2>1, <2>3, <2>4, <2>5
<1>3. Apart(n.v, start, len)
  BY <1>2, OneByte DEF Apart
<1>4. /\ a - start + 1 \in 1 .. len /\ start + (a - start + 1) - 1 = a
      /\ a \in start .. start + len - 1
  BY <1>1
<1>5. n.mem[PhyAddr(n.v, a)] = bytes[a - start + 1]
  BY <1>3, <1>4 DEF Filled
<1> QED
  BY <1>2, <1>4, <1>5 DEF Shows

\* The pages of a section stay valid.
LEMMA StaysValid ==
    ASSUME NEW k, NEW n, Grows(k, n), NEW start \in Nat, NEW len \in Nat,
           start + len <= ArgsStart,
           \A a \in Nat : start <= a /\ a < start + len => Valid(k.v, PageOf(a))
    PROVE  OnValid(k.v, start, len) /\ OnValid(n.v, start, len)
<1> SUFFICES ASSUME NEW a \in start .. start + len - 1
             PROVE  Valid(k.v, PageOf(a)) /\ Valid(n.v, PageOf(a))
  BY DEF OnValid
<1>1. a \in Nat /\ start <= a /\ a < start + len
  BY Between
<1>2. a < ArgsStart
  BY <1>1, Sizes
<1>3. PageOf(a) \in Pages /\ Valid(k.v, PageOf(a))
  BY <1>1, <1>2, LowAddresses
<1> QED
  BY <1>3 DEF Grows, New, Kept, Valid

\* execve leaves every byte of the program at its place.
LEMMA ExecutedContent ==
    ASSUME NEW m \in MemState, AreasOK(m.v), PagesOK(m.v), NEW program, Fits(program),
           Packed(program), OneFrame(Executed(m, program).v),
           NEW a \in 0 .. EndAt(program) - 1
    PROVE  LET n == Executed(m, program)
           IN  Shows(n.v, n.mem, a, ProgramByte(program, a))
<1> DEFINE n == Executed(m, program)
           m0 == ClearedOf(m)
           b == ProgramByte(program, a)
<1>1. program \in ImageType /\ EndAt(program) <= StackStart
  BY DEF Fits
<1>2. PICK text, data, bss : Built(m, program, text, data, bss, n)
  BY <1>1, ExecutedBuilt
<1>3. OneFrame(n.v)
  OBVIOUS
<1> HIDE DEF n
<1>4. Places(program)
  BY <1>1, ImageInPlace
<1>5. /\ Section(m0, text, "text", 0, DataAt(program), "RONLY")
      /\ Section(text, data, "data", DataAt(program), Len(program.data), "RW")
      /\ Section(data, bss, "bss", BssAt(program), program.bss, "RW")
      /\ Section(bss, n, "stack", StackStart, ArgsStart - StackStart, "RW")
      /\ Filled(text, 0, program.text)
      /\ Filled(data, DataAt(program), program.data)
      /\ Filled(bss, BssAt(program), Zeros(program.bss))
      /\ \A c \in Nat : /\ c < DataAt(program) => Valid(text.v, PageOf(c))
                        /\ c < BssAt(program) => Valid(data.v, PageOf(c))
                        /\ c <= EndAt(program) => Valid(bss.v, PageOf(c))
                        /\ StackStart <= c /\ c < ArgsStart => Valid(n.v, PageOf(c))
  BY <1>2 DEF Built
<1> HIDE DEF m0
<1>6. /\ program.text \in Seq(Vals) /\ program.data \in Seq(Vals)
      /\ Zeros(program.bss) \in Seq(Vals) /\ Len(Zeros(program.bss)) = program.bss
      /\ Len(program.text) = DataAt(program)
  BY <1>1, ZerosType DEF ImageType, DataAt
<1>7. /\ OneFrame(bss.v) /\ OneFrame(data.v) /\ OneFrame(text.v)
      /\ Grows(text, data) /\ Grows(data, bss) /\ Grows(bss, n)
  BY <1>3, <1>5, OneFrameBefore DEF Section
<1>8. /\ a \in Nat /\ a < EndAt(program) /\ a < ArgsStart /\ a < StackStart
      /\ 0 \in Nat /\ StackStart \in Nat /\ ArgsStart \in Nat /\ StackStart < ArgsStart
      /\ 0 + DataAt(program) = DataAt(program)
      /\ DataAt(program) <= ArgsStart /\ BssAt(program) <= ArgsStart
      /\ EndAt(program) <= ArgsStart
  BY <1>4, Sizes DEF Places
<1>9. OnValid(text.v, 0, DataAt(program))
  BY ONLY <1>4, <1>5, <1>7, <1>8, StaysValid DEF Places
<1>10. OnValid(data.v, DataAt(program), Len(program.data))
  BY ONLY <1>4, <1>5, <1>7, <1>8, StaysValid DEF Places
<1>11. OnValid(bss.v, BssAt(program), program.bss)
  <2>1. \A c \in Nat : BssAt(program) <= c /\ c < BssAt(program) + program.bss =>
          Valid(bss.v, PageOf(c))
    BY ONLY <1>4, <1>5 DEF Places
  <2> QED
    BY ONLY <1>4, <1>7, <1>8, <2>1, StaysValid DEF Places
<1>12. OnValid(n.v, StackStart, ArgsStart - StackStart)
  <2>1. \A c \in StackStart .. StackStart + (ArgsStart - StackStart) - 1 :
          c \in Nat /\ StackStart <= c /\ c < ArgsStart
    BY Sizes
  <2> QED
    BY ONLY <1>5, <2>1 DEF OnValid
<1> HIDE DEF b
<1>13. ASSUME Shows(text.v, text.mem, a, b), a < DataAt(program)
       PROVE  Shows(data.v, data.mem, a, b)
  <2>1. DataAt(program) + Len(program.data) <= ArgsStart
    BY ONLY <1>4, <1>8 DEF Places
  <2> QED
    BY ONLY <1>4, <1>5, <1>7, <1>8, <1>10, <1>13, <2>1, SectionKeeps DEF Places
<1>14. ASSUME Shows(data.v, data.mem, a, b), a < BssAt(program)
       PROVE  Shows(bss.v, bss.mem, a, b)
  <2>1. BssAt(program) + program.bss <= ArgsStart
    BY ONLY <1>4, <1>8 DEF Places
  <2> QED
    BY ONLY <1>4, <1>5, <1>7, <1>8, <1>11, <1>14, <2>1, SectionKeeps DEF Places
<1>15. ASSUME Shows(bss.v, bss.mem, a, b)
       PROVE  Shows(n.v, n.mem, a, b)
  <2>1. StackStart + (ArgsStart - StackStart) <= ArgsStart
    BY ONLY <1>4, <1>8 DEF Places
  <2> QED
    BY ONLY <1>3, <1>4, <1>5, <1>8, <1>12, <1>15, <2>1, SectionKeeps DEF Places
<1>16. ASSUME a < DataAt(program)
       PROVE  Shows(n.v, n.mem, a, b)
  <2>1. Shows(text.v, text.mem, a, program.text[a - 0 + 1])
    BY <1>5, <1>6, <1>7, <1>8, <1>9, <1>16, SectionHas
  <2>2. b = program.text[a - 0 + 1]
    BY <1>8, <1>16 DEF ProgramByte, b
  <2>3. a < BssAt(program)
    BY <1>4, <1>8, <1>16 DEF Places
  <2> QED
    BY <1>13, <1>14, <1>15, <1>16, <2>1, <2>2, <2>3
<1>17. ASSUME DataAt(program) <= a, a < BssAt(program)
       PROVE  Shows(n.v, n.mem, a, b)
  <2>1. Shows(data.v, data.mem, a, program.data[a - DataAt(program) + 1])
    BY <1>4, <1>5, <1>6, <1>7, <1>8, <1>10, <1>17, SectionHas DEF Places
  <2>2. b = program.data[a - DataAt(program) + 1]
    BY <1>4, <1>8, <1>17 DEF ProgramByte, Places, b
  <2> QED
    BY <1>14, <1>15, <1>17, <2>1, <2>2
<1>18. ASSUME BssAt(program) <= a
       PROVE  Shows(n.v, n.mem, a, b)
  <2>1. Shows(bss.v, bss.mem, a, Zeros(program.bss)[a - BssAt(program) + 1])
    BY <1>4, <1>5, <1>6, <1>7, <1>8, <1>11, <1>18, SectionHas DEF Places
  <2>2. a - BssAt(program) + 1 \in 1 .. program.bss
    <3> DEFINE start == BssAt(program)
    <3>1. start \in Int /\ program.bss \in Nat /\ a \in Int /\ a < start + program.bss
      BY <1>4, <1>8 DEF Places
    <3> HIDE DEF start
    <3>2. start <= a
      BY <1>18 DEF start
    <3> QED
      BY <3>1, <3>2 DEF start
  <2>3. Zeros(program.bss)[a - BssAt(program) + 1] = 0
    BY <2>2 DEF Zeros
  <2>4. b = 0
    BY <1>4, <1>8, <1>18 DEF ProgramByte, Places, b
  <2> QED
    BY <1>15, <2>1, <2>3, <2>4
<1>19. Shows(n.v, n.mem, a, b)
  BY <1>4, <1>8, <1>16, <1>17, <1>18 DEF Places
<1> QED
  BY <1>19 DEF n, b

\* What q reads after a step is what p read before, but where processes store.
Carries(p, q) ==
    \A x \in Below \ LoaderAddrs : Valid(vm[p], PageOf(x)) =>
        /\ Valid(vm'[q], PageOf(x))
        /\ mem'[PhyAddr(vm'[q], x)] = mem[PhyAddr(vm[p], x)]

\* The stores to names are to arguments, so only the others could be to a program.
LEMMA LoaderSuits ==
    ASSUME FilesPacked, StoresTo(StoreAddrs, LoaderImages)
    PROVE  /\ Suits(LoaderAddrs, LoaderImages) /\ Boot \in LoaderImages
           /\ LoaderAddrs \subseteq Below
<1>1. ASSUME NEW a \in NameAddrs
      PROVE  a < ArgsEnd /\ \A program \in LoaderImages : DataAt(program) < a
  <2>1. a \in Nat /\ ArgsStart <= a /\ a < ArgsEnd
    BY FilesFit
  <2>2. ASSUME NEW program \in LoaderImages
        PROVE  DataAt(program) < a
    <3>1. Fits(program)
      BY FilesFit DEF Possible
    <3>2. /\ DataAt(program) \in Nat /\ BssAt(program) \in Nat /\ EndAt(program) \in Nat
          /\ DataAt(program) <= BssAt(program) /\ BssAt(program) <= EndAt(program)
          /\ EndAt(program) <= StackStart
      BY <3>1, ImagePlaces DEF Fits
    <3> QED
      BY <2>1, <3>2, Sizes
  <2> QED
    BY <2>1, <2>2
<1>2. StoresTo(LoaderAddrs, LoaderImages)
  BY <1>1 DEF StoresTo, LoaderAddrs
<1>3. Suits(LoaderAddrs, LoaderImages)
  BY <1>2, FilesFit, ProgramsPacked DEF Suits
<1>4. LoaderAddrs \subseteq Below
  BY <1>2, FilesFit, Sizes DEF StoresTo, Possible, Addr, Below
<1> QED
  BY <1>3, <1>4 DEF LoaderImages

\* A step leaves a process what it reads, gives the child of a fork what its parent
\* does, or is execve.
LEMMA CarryStep ==
    ASSUME FilesPacked, StoresTo(StoreAddrs, LoaderImages), ~ Threads,
           SpaceInv(LoaderAddrs), SpaceInv(LoaderAddrs)', ImageInv, Room, Room',
           LoaderNext \/ UNCHANGED loaderVars, NEW q \in Live'
    PROVE  \/ \E p \in Live : image'[q] = image[p] /\ Carries(p, q)
           \/ \E file \in Files : image'[q] = file /\ q \in Live /\ Execve(q, Parse(file))
<1>1. /\ vm \in [Pids -> VmType \cup {NULL}] /\ image \in [Pids -> Files \cup {NULL}]
      /\ q \in Pids /\ vm'[q] # NULL /\ LayoutInv /\ CowInv'
      /\ LoaderAddrs \subseteq Below
  BY LoaderSuits DEF SpaceInv, CowInv, LayoutInv, VmInv, TypeOK, ImageInv, Live
<1>2. ASSUME image'[q] = image[q], UNCHANGED <<vm, mem>>
      PROVE  \E p \in Live : image'[q] = image[p] /\ Carries(p, q)
  <2>1. q \in Live /\ Carries(q, q)
    BY <1>1, <1>2 DEF Carries, Live
  <2> QED
    BY <1>2, <2>1
<1>3. ASSUME image'[q] = image[q], NEW p, NEW a \in LoaderAddrs, StoreTo(p, a)
      PROVE  \E r \in Live : image'[q] = image[r] /\ Carries(r, q)
  <2>1. q \in Live /\ \A x \in Below \ LoaderAddrs : Stays(q, x)
    BY <1>3 DEF StoreTo
  <2>2. Carries(q, q)
    BY <2>1 DEF Carries, Stays
  <2> QED
    BY <1>3, <2>1, <2>2
<1>4. CASE UNCHANGED loaderVars
  BY <1>2, <1>4 DEF loaderVars, vars
<1>5. ASSUME NEW p \in Pids, Stores(p)
      PROVE  \E r \in Live : image'[q] = image[r] /\ Carries(r, q)
  <2>1. PICK a \in LoaderAddrs, b \in Chars : StoreByte(p, a, b) \/ BeginCopy(p, a, b)
    BY <1>5 DEF Stores, LoaderAddrs
  <2>2. b \in Vals /\ image'[q] = image[q]
    BY <1>5, LoaderAssumption DEF Stores
  <2>3. CASE StoreByte(p, a, b)
    BY <1>1, <1>3, <2>2, <2>3, StoreByteSpace
  <2>4. CASE BeginCopy(p, a, b)
    BY <1>2, <2>2, <2>4 DEF BeginCopy
  <2> QED
    BY <2>1, <2>3, <2>4
<1>6. ASSUME NEW p \in Pids, Copied(p)
      PROVE  \E r \in Live : image'[q] = image[r] /\ Carries(r, q)
  <2>1. EndCopy(p) /\ image'[q] = image[q]
    BY <1>6 DEF Copied
  <2>2. store[p].addr \in LoaderAddrs /\ StoreTo(p, store[p].addr)
    BY <1>1, <2>1, EndCopySpace
  <2> QED
    BY <1>3, <2>1, <2>2
<1>7. ASSUME NEW p \in Pids, NEW r \in Pids, Spawn(p, r)
      PROVE  \E x \in Live : image'[q] = image[x] /\ Carries(x, q)
  <2>1. /\ p \in Live /\ vm[p] \in VmType /\ vm[r] = NULL /\ p # r
        /\ AreasOK(vm[p]) /\ PagesOK(vm[p])
    BY <1>1, <1>7 DEF Spawn, Fork, LayoutInv, VmInv, Live
  <2>2. /\ vm' = [vm EXCEPT ![p] = Protected(vm[p]), ![r] = Protected(vm[p])]
        /\ mem' = mem /\ image' = [image EXCEPT ![r] = image[p]]
    BY <1>7 DEF Spawn, Fork, Parent, Child
  <2>3. CASE q \in {p, r}
    <3>1. vm'[q] = Protected(vm[p]) /\ image'[q] = image[p]
      BY <1>1, <2>1, <2>2, <2>3
    <3>2. ASSUME NEW x \in Below
          PROVE  /\ Valid(vm'[q], PageOf(x)) <=> Valid(vm[p], PageOf(x))
                 /\ PhyAddr(vm'[q], x) = PhyAddr(vm[p], x)
      <4>1. PageOf(x) \in Pages /\ PageOf(x) < ArgsEnd
        BY BelowPages
      <4>2. Frame(Protected(vm[p]), PageOf(x)) = Frame(vm[p], PageOf(x))
        BY <2>1, <4>1, ProtectedAreas
      <4> QED
        BY <2>1, <3>1, <4>1, <4>2, ProtectedValid DEF PhyAddr
    <3>3. Carries(p, q)
      BY <2>2, <3>2 DEF Carries
    <3> QED
      BY <2>1, <3>1, <3>3
  <2>4. CASE q \notin {p, r}
    <3>1. vm'[q] = vm[q] /\ image'[q] = image[q] /\ q \in Live
      BY <1>1, <2>2, <2>4 DEF Live
    <3>2. Carries(q, q)
      BY <2>2, <3>1 DEF Carries
    <3> QED
      BY <3>1, <3>2
  <2> QED
    BY <2>3, <2>4
<1>8. ASSUME NEW p \in Pids, NEW a \in NameAddrs, HandleExecve(p, a)
      PROVE  \/ \E r \in Live : image'[q] = image[r] /\ Carries(r, q)
             \/ \E file \in Files : image'[q] = file /\ q \in Live /\ Execve(q, Parse(file))
  <2>1. PICK file \in Files : Execve(p, Parse(file)) /\ image' = [image EXCEPT ![p] = file]
    BY <1>8 DEF HandleExecve, Files
  <2>2. CASE q = p
    BY <1>1, <2>1, <2>2 DEF Execve, Live
  <2>3. CASE q # p
    <3>1. ExecveBy(p)
      BY <1>1, <2>1, FilesFit, ExecveStays DEF FilesPacked
    <3>2. q \in Live /\ \A x \in Below : Stays(q, x)
      BY <2>3, <3>1 DEF ExecveBy
    <3>3. Carries(q, q) /\ image'[q] = image[q]
      BY <1>1, <2>1, <2>3, <3>2 DEF Carries, Stays
    <3> QED
      BY <3>2, <3>3
  <2> QED
    BY <2>2, <2>3
<1> QED
  BY <1>4, <1>5, <1>6, <1>7, <1>8 DEF LoaderNext

\* A file laid out as the assembler lays out those of y86-code: the header is one
\* word, text, data and bss follow, rodata is empty, and the table is behind.
Assembled(file) ==
    /\ file \in Seq(Byte)
    /\ {data_begin(file), bss_begin(file), section_header_begin(file)} \subseteq Nat
    /\ text_begin(file) = 4 /\ 4 <= data_begin(file)
    /\ rodata_begin(file) = bss_begin(file) /\ data_begin(file) <= bss_begin(file)
    /\ bss_begin(file) <= section_header_begin(file)
    /\ section_header_begin(file) <= Len(file)

\* A part of a file has its bytes in their order.
LEMMA PartIs ==
    ASSUME NEW file \in Seq(Byte), NEW from \in Nat, NEW upto \in Nat,
           from <= upto, upto <= Len(file)
    PROVE  /\ Part(file, from, upto) \in Seq(Byte)
           /\ Len(Part(file, from, upto)) = upto - from
           /\ \A i \in 1 .. upto - from : Part(file, from, upto)[i] = file[from + i]
<1>1. Len(file) \in Nat /\ \A i \in 1 .. Len(file) : file[i] \in Byte
  BY LenProperties, ElementOfSeq
<1>2. from + 1 \in Int /\ upto \in Int /\ \A i \in from + 1 .. upto : file[i] \in Byte
  BY <1>1
<1> DEFINE part == SubSeq(file, from + 1, upto)
<1>3. /\ part \in Seq(Byte)
      /\ Len(part) = IF from + 1 <= upto THEN upto - (from + 1) + 1 ELSE 0
      /\ \A i \in 1 .. upto - (from + 1) + 1 : part[i] = file[(from + 1) + i - 1]
  BY <1>2, SubSeqProperties
<1> HIDE DEF part
<1>4. Len(part) = upto - from
  BY <1>3
<1>5. \A i \in 1 .. upto - from : part[i] = file[from + i]
  <2>1. upto - (from + 1) + 1 = upto - from
    OBVIOUS
  <2>2. \A i \in 1 .. upto - from : (from + 1) + i - 1 = from + i
    OBVIOUS
  <2> QED
    BY <1>3, <2>1, <2>2
<1> QED
  BY <1>3, <1>4, <1>5 DEF Part, part

\* The places of the sections in the program are those in the file.
LEMMA LabelPlaces ==
    ASSUME NEW file, Assembled(file)
    PROVE  /\ DataAt(Parse(file)) = data_begin(file)
           /\ BssAt(Parse(file)) = bss_begin(file)
           /\ EndAt(Parse(file)) = section_header_begin(file)
           /\ \A a \in 4 .. data_begin(file) - 1 : Parse(file).text[a + 1] = file[a + 1]
           /\ \A a \in data_begin(file) .. bss_begin(file) - 1 :
                Parse(file).data[a - data_begin(file) + 1] = file[a + 1]
<1> DEFINE d == data_begin(file)
           b == bss_begin(file)
           e == section_header_begin(file)
           nops == <<NOP, NOP, NOP, NOP>>
           text == Part(file, 4, d)
           data == Part(file, d, b)
<1>1. /\ file \in Seq(Byte) /\ d \in Nat /\ b \in Nat /\ e \in Nat
      /\ 4 <= d /\ d <= b /\ b <= e /\ e <= Len(file) /\ Len(file) \in Nat
  BY LenProperties DEF Assembled
<1>2. Parse(file) = [text |-> nops \o text, data |-> data, bss |-> e - b]
  BY DEF Parse, Assembled
<1> HIDE DEF d, b, e
<1>3. /\ text \in Seq(Byte) /\ Len(text) = d - 4
      /\ \A i \in 1 .. d - 4 : text[i] = file[4 + i]
  <2>1. 4 \in Nat /\ d <= Len(file)
    BY <1>1
  <2> QED
    BY ONLY <1>1, <2>1, PartIs
<1>4. /\ Len(data) = b - d
      /\ \A i \in 1 .. b - d : data[i] = file[d + i]
  <2>1. b <= Len(file)
    BY <1>1
  <2> QED
    BY ONLY <1>1, <2>1, PartIs
<1>5. nops \in Seq(Byte) /\ Len(nops) = 4
  BY DEF NOP, Byte
<1> HIDE DEF text, data, nops
<1>6. /\ Len(nops \o text) = d
      /\ \A i \in 1 .. d : (nops \o text)[i] = IF i <= 4 THEN nops[i] ELSE text[i - 4]
  <2>1. /\ Len(nops \o text) = Len(nops) + Len(text)
        /\ \A i \in 1 .. Len(nops) + Len(text) :
             (nops \o text)[i] = IF i <= Len(nops) THEN nops[i] ELSE text[i - Len(nops)]
    BY ONLY <1>3, <1>5, ConcatProperties
  <2>2. Len(nops) + Len(text) = d
    BY <1>1, <1>3, <1>5
  <2> QED
    BY ONLY <1>5, <2>1, <2>2
<1>7. DataAt(Parse(file)) = d
  BY <1>2, <1>6 DEF DataAt
<1>8. BssAt(Parse(file)) = b
  BY <1>1, <1>2, <1>4, <1>7 DEF BssAt
<1>9. EndAt(Parse(file)) = e
  BY <1>1, <1>2, <1>8 DEF EndAt
<1>10. ASSUME NEW a \in 4 .. d - 1
       PROVE  Parse(file).text[a + 1] = file[a + 1]
  <2>1. a + 1 \in 1 .. d /\ ~ (a + 1 <= 4) /\ (a + 1) - 4 \in 1 .. d - 4
        /\ 4 + ((a + 1) - 4) = a + 1
    BY <1>1
  <2>2. (nops \o text)[a + 1] = text[(a + 1) - 4]
    BY <1>6, <2>1
  <2>3. text[(a + 1) - 4] = file[4 + ((a + 1) - 4)]
    BY <1>3, <2>1
  <2>4. Parse(file).text = nops \o text
    BY <1>2
  <2> QED
    BY ONLY <2>1, <2>2, <2>3, <2>4
<1>11. ASSUME NEW a \in d .. b - 1
       PROVE  Parse(file).data[a - d + 1] = file[a + 1]
  <2>1. a - d + 1 \in 1 .. b - d /\ d + (a - d + 1) = a + 1
    BY <1>1
  <2> QED
    BY <1>2, <1>4, <2>1
<1> QED
  BY <1>7, <1>8, <1>9, <1>10, <1>11 DEF d, b, e

\* At the address of a label in the file the program has the byte of the file.
LEMMA LabelBytes ==
    ASSUME NEW file, Assembled(file), NEW a
    PROVE  /\ a \in text_begin(file) .. bss_begin(file) - 1 =>
                /\ a \in 0 .. EndAt(Parse(file)) - 1
                /\ ProgramByte(Parse(file), a) = file[a + 1]
           /\ a \in bss_begin(file) .. section_header_begin(file) - 1 =>
                /\ a \in 0 .. EndAt(Parse(file)) - 1
                /\ ProgramByte(Parse(file), a) = 0
<1> DEFINE d == data_begin(file)
           b == bss_begin(file)
           e == section_header_begin(file)
<1>1. /\ d \in Nat /\ b \in Nat /\ e \in Nat /\ text_begin(file) = 4
      /\ 4 <= d /\ d <= b /\ b <= e
  BY DEF Assembled
<1>2. /\ DataAt(Parse(file)) = d /\ BssAt(Parse(file)) = b /\ EndAt(Parse(file)) = e
      /\ \A c \in 4 .. d - 1 : Parse(file).text[c + 1] = file[c + 1]
      /\ \A c \in d .. b - 1 : Parse(file).data[c - d + 1] = file[c + 1]
  BY LabelPlaces
<1> HIDE DEF d, b, e
<1>3. a \in 4 .. b - 1 => a \in 0 .. e - 1 /\ ProgramByte(Parse(file), a) = file[a + 1]
  BY <1>1, <1>2 DEF ProgramByte
<1>4. a \in b .. e - 1 => a \in 0 .. e - 1 /\ ProgramByte(Parse(file), a) = 0
  BY <1>1, <1>2 DEF ProgramByte
<1> QED
  BY <1>1, <1>2, <1>3, <1>4 DEF b, e

LEMMA LoaderInvStep ==
    ASSUME FilesPacked, StoresTo(StoreAddrs, LoaderImages), ~ Threads, MaxPid <= 2,
           LoaderInv, Room, Room', LoaderNext \/ UNCHANGED loaderVars
    PROVE  LoaderInv'
<1>1. SpaceInv(LoaderAddrs) /\ ImageInv /\ LayoutInv
  BY DEF LoaderInv, SpaceInv, CowInv
<1>2. SpaceInv(LoaderAddrs)' /\ ImageInv'
  BY <1>1, LoaderSuits, LoaderStep, SpaceStep, ImageInvStep
<1>3. ASSUME NEW q \in Live', image'[q] # NULL
      PROVE  Content(vm'[q], mem', Parse(image'[q]))
  <2>1. image'[q] \in Files /\ q \in Pids /\ vm'[q] # NULL
    BY <1>2, <1>3 DEF ImageInv, Live
  <2> DEFINE program == Parse(image'[q])
  <2>2. /\ Fits(program) /\ Packed(program)
        /\ EndAt(program) \in Nat /\ EndAt(program) <= StackStart
    BY <2>1, FilesFit, ImagePlaces DEF FilesPacked, Fits
  <2>3. \A a \in 0 .. EndAt(program) - 1 :
          a \in Below /\ (a \in LoaderAddrs => a \in StoreAddrs)
    <3> HIDE DEF program
    <3>1. ASSUME NEW a \in 0 .. EndAt(program) - 1
          PROVE  a \in Below /\ ~ (ArgsStart <= a)
      BY <2>2, Sizes DEF Below
    <3> QED
      BY <3>1, FilesFit DEF LoaderAddrs
  <2>4. ASSUME NEW p \in Live, image'[q] = image[p], Carries(p, q)
        PROVE  Content(vm'[q], mem', program)
    <3>1. Content(vm[p], mem, program)
      BY <1>3, <2>4 DEF LoaderInv
    <3> HIDE DEF program
    <3> QED
      BY <2>3, <2>4, <3>1 DEF Content, Shows, Carries
  <2>5. ASSUME NEW file \in Files, image'[q] = file, q \in Live, Execve(q, Parse(file))
        PROVE  Content(vm'[q], mem', program)
    <3> DEFINE m == [v |-> vm[q], mem |-> mem, used |-> allocated_page]
               n == Executed(m, program)
    <3>1. /\ vm[q] \in VmType /\ AreasOK(vm[q]) /\ PagesOK(vm[q])
          /\ vm \in [Pids -> VmType \cup {NULL}]
      BY <1>1, <2>1, <2>5 DEF LayoutInv, VmInv, TypeOK, Live
    <3>2. m \in MemState /\ m.v = vm[q]
      BY <1>1, <3>1 DEF LayoutInv, VmInv, TypeOK, MemState, AllFrames
    <3>3. vm' = [vm EXCEPT ![q] = n.v] /\ mem' = n.mem
      BY <2>5 DEF Execve
    <3> HIDE DEF m, program
    <3>4. vm'[q] = n.v
      BY <2>1, <3>1, <3>3
    <3>5. OneFrame(n.v)
      <4>1. q \in Live'
        OBVIOUS
      <4>2. \A r \in Live' : OneFrame(vm'[r])
        BY <1>2 DEF SpaceInv, OneFrame, Pages, Addr
      <4> QED
        BY <3>4, <4>1, <4>2
    <3>6. \A a \in 0 .. EndAt(program) - 1 : Shows(n.v, n.mem, a, ProgramByte(program, a))
      BY <2>2, <3>1, <3>2, <3>5, ExecutedContent
    <3> HIDE DEF n
    <3> QED
      BY <3>3, <3>4, <3>6 DEF Content
  <2> QED
    BY <1>1, <1>2, <2>4, <2>5, CarryStep
<1>4. \A q \in Live' : image'[q] # NULL => Content(vm'[q], mem', Parse(image'[q]))
  BY <1>3
<1> QED
  BY <1>2, <1>4 DEF LoaderInv

\* An address in a program is an offset in its file: in text and data the process finds
\* the bytes of the file, in bss zeros, but where processes store.  After execve, as
\* often as they fork, whatever pages they share and copy, as long as two processes
\* take turns, programs lie on pages of their own, files are laid out as those of the
\* assembler, and stores are to no text.
THEOREM LabelsAreAddressesHold ==
    ASSUME FilesPacked, StoresTo(StoreAddrs, LoaderImages), ~ Threads, MaxPid <= 2,
           \A file \in Files : Assembled(file)
    PROVE  LoaderSpec /\ []Room => []LabelsAreAddresses
<1>1. LoaderInit /\ Room => LoaderInv
  <2> SUFFICES ASSUME LoaderInit, Room
               PROVE  LoaderInv
    OBVIOUS
  <2>1. SpaceInv(LoaderAddrs)
    BY LoaderSuits, InitSpace DEF LoaderInit
  <2> QED
    BY <2>1 DEF LoaderInit, LoaderInv, ImageInv, Live
<1>2. LoaderInv /\ Room /\ Room' /\ [LoaderNext]_loaderVars => LoaderInv'
  BY LoaderInvStep
<1>3. LoaderInv /\ SectionsInv => LabelsAreAddresses
  <2> SUFFICES ASSUME LoaderInv, SectionsInv, NEW p \in Live, image[p] # NULL
               PROVE  LET file == image[p]
                          byte(a) == CharAt(vm[p], mem, a)
                          bytes == text_begin(file) .. bss_begin(file) - 1
                          zeros == bss_begin(file) .. section_header_begin(file) - 1
                      IN  /\ \A a \in bytes \ StoreAddrs : byte(a) = file[a + 1]
                          /\ \A a \in zeros \ StoreAddrs :
                               InArea(vm[p], a) /\ byte(a) = 0
    BY DEF LabelsAreAddresses
  <2> DEFINE file == image[p]
  <2>1. file \in Files /\ Assembled(file)
    BY DEF LoaderInv, ImageInv, Live
  <2>2. Content(vm[p], mem, Parse(file)) /\ InPlace(vm[p], Parse(file))
    BY DEF LoaderInv, SectionsInv
  <2>3. EndAt(Parse(file)) \in Nat /\ EndAt(Parse(file)) <= StackStart
    BY <2>1, FilesFit, ImagePlaces DEF Fits
  <2> HIDE DEF file
  <2>4. ASSUME NEW a \in 0 .. EndAt(Parse(file)) - 1, a \notin StoreAddrs
        PROVE  InArea(vm[p], a) /\ CharAt(vm[p], mem, a) = ProgramByte(Parse(file), a)
    <3>1. a \in Addr
      BY <2>3, Sizes DEF Addr
    <3>2. InArea(vm[p], a) /\ Shows(vm[p], mem, a, ProgramByte(Parse(file), a))
      BY <2>2, <2>4 DEF Content, InPlace
    <3> QED
      BY <3>1, <3>2 DEF CharAt, Shows, Valid
  <2>5. /\ \A a \in (text_begin(file) .. bss_begin(file) - 1) \ StoreAddrs :
             CharAt(vm[p], mem, a) = file[a + 1]
        /\ \A a \in (bss_begin(file) .. section_header_begin(file) - 1) \ StoreAddrs :
             InArea(vm[p], a) /\ CharAt(vm[p], mem, a) = 0
    BY <2>1, <2>4, LabelBytes
  <2> QED
    BY <2>5 DEF file
<1> QED
  BY <1>1, <1>2, <1>3, SectionsInvariant, PTL DEF LoaderSpec

=============================================================================
