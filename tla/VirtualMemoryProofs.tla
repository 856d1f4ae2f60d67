------------------------ MODULE VirtualMemoryProofs ------------------------
(***************************************************************************)
(* Theorems about VirtualMemory.tla, for any page size, number of physical *)
(* pages, processes and programs; first lemmas about its operators:        *)
(* addresses and pages, what allocate_page, allocate_section and yexecve   *)
(* do, step after step.                                                    *)
(***************************************************************************)
EXTENDS VirtualMemory, FiniteSetTheorems, SequenceTheorems, TLAPS

-----------------------------------------------------------------------------
(* Addresses and pages.                                                    *)

\* What the proofs use of the assumptions on addresses.
LEMMA Sizes ==
    /\ PageSize \in Nat \ {0}
    /\ StackStart \in Nat /\ ArgsStart \in Nat /\ ArgsEnd \in Nat
    /\ StackStart < ArgsStart /\ ArgsStart < ArgsEnd
    /\ StackStart % PageSize = 0 /\ ArgsStart % PageSize = 0 /\ ArgsEnd % PageSize = 0
    /\ Frames \in Nat \ {0}
BY MemoryAssumption

LEMMA Division ==
    ASSUME NEW P \in Nat \ {0}, NEW a \in Nat
    PROVE  /\ a % P \in 0 .. P - 1
           /\ a \div P \in Nat
           /\ a = (P * (a \div P)) + (a % P)
OBVIOUS

LEMMA DivisionUnique ==
    ASSUME NEW P \in Nat \ {0}, NEW k \in Nat, NEW r \in 0 .. P - 1
    PROVE  /\ ((P * k) + r) % P = r
           /\ ((P * k) + r) \div P = k
OBVIOUS

LEMMA Multiple ==
    ASSUME NEW b \in Nat, b % PageSize = 0
    PROVE  \E k \in Nat : b = PageSize * k
<1>1. b \div PageSize \in Nat /\ b = (PageSize * (b \div PageSize)) + 0
  BY Division, Sizes
<1>2. b = PageSize * (b \div PageSize)
  BY <1>1, Sizes
<1> QED
  BY <1>1, <1>2

\* An address is that of its page and an offset.
LEMMA PageFacts ==
    ASSUME NEW a \in Nat
    PROVE  /\ PageOf(a) \in Nat
           /\ PageOf(a) % PageSize = 0
           /\ PageOf(a) <= a
           /\ a < PageOf(a) + PageSize
           /\ a % PageSize \in 0 .. PageSize - 1
           /\ a = PageOf(a) + (a % PageSize)
<1>1. /\ a % PageSize \in 0 .. PageSize - 1
      /\ a \div PageSize \in Nat
      /\ a = (PageSize * (a \div PageSize)) + (a % PageSize)
  BY Division, Sizes
<1>2. PICK k \in Nat : k = a \div PageSize
  BY <1>1
<1>3. PageOf(a) % PageSize = 0
  <2>1. PageOf(a) = (PageSize * k) + 0
    BY <1>1, <1>2, Sizes DEF PageOf
  <2>2. 0 \in 0 .. PageSize - 1
    BY Sizes
  <2>3. ((PageSize * k) + 0) % PageSize = 0
    BY ONLY <2>2, k \in Nat, DivisionUnique, Sizes
  <2> QED
    BY ONLY <2>1, <2>3
<1> QED
  BY <1>1, <1>3, Sizes DEF PageOf

\* The page that begins at b has the addresses from b on, a page length of them.
LEMMA PageIs ==
    ASSUME NEW a \in Nat, NEW b \in Nat, b % PageSize = 0,
           b <= a, a < b + PageSize
    PROVE  PageOf(a) = b
<1>1. PICK k \in Nat : b = PageSize * k
  BY Multiple
<1>2. PICK r \in 0 .. PageSize - 1 : a = b + r
  BY Sizes
<1>3. a % PageSize = r
  BY <1>1, <1>2, DivisionUnique, Sizes
<1> QED
  BY <1>2, <1>3 DEF PageOf

\* Pages do not overlap.
LEMMA PagesApart ==
    ASSUME NEW x \in Nat, NEW y \in Nat,
           x % PageSize = 0, y % PageSize = 0, x < y
    PROVE  x + PageSize <= y
<1>1. ASSUME y < x + PageSize PROVE FALSE
  <2>1. PageOf(y) = x
    BY <1>1, PageIs
  <2>2. PageOf(y) = y
    BY PageIs, Sizes
  <2> QED
    BY <2>1, <2>2
<1> QED
  BY <1>1, Sizes

\* The pages are the addresses that begin one.
LEMMA PagesAre ==
    /\ Pages = {n \in Addr : n % PageSize = 0}
    /\ \A n \in Addr : PageOf(n) \in Pages
    /\ \A pg \in Pages : pg \in Nat /\ pg \in Addr /\ pg % PageSize = 0 /\ PageOf(pg) = pg
<1>1. \A n \in Addr : PageOf(n) \in Pages /\ PageOf(n) \in Addr /\ PageOf(n) % PageSize = 0
  <2> TAKE n \in Addr
  <2>1. n \in Nat /\ n <= ArgsEnd
    BY Sizes DEF Addr
  <2>2. PageOf(n) \in Nat /\ PageOf(n) <= n /\ PageOf(n) % PageSize = 0
    BY <2>1, PageFacts
  <2> QED
    BY <2>1, <2>2, Sizes DEF Pages, Addr
<1>2. \A n \in Addr : n % PageSize = 0 => PageOf(n) = n
  BY PageIs, Sizes DEF Addr
<1> QED
  BY <1>1, <1>2, Sizes DEF Pages, Addr

-----------------------------------------------------------------------------
(* Induction and recursion.  The library's theorems take the property as   *)
(* an operator, which the provers cannot instantiate; the ones here take   *)
(* sets and functions.                                                     *)

\* A set of numbers that is not empty has a least element.
LEMMA LeastNumber ==
    ASSUME NEW T, T \subseteq Nat, T # {}
    PROVE  \E n \in T : \A k \in T : n <= k
<1> DEFINE R == StrictSubsetOrdering(Nat)
           F == FiniteSubsetsOf(Nat)
           U == {1 .. n : n \in T}
<1>1. IsWellFoundedOn(R, F)
  BY FS_StrictSubsetOrderingWellFounded
<1>2. U \subseteq F
  BY FS_Interval DEF FiniteSubsetsOf
<1>3. U # {}
  OBVIOUS
<1>4. \E s \in U : \A t \in U : ~ (<<t, s>> \in R)
  <2> HIDE DEF R, F, U
  <2> QED
    BY <1>1, <1>2, <1>3, WFMin
<1>5. PICK n \in T : \A k \in T : ~ (<<1 .. k, 1 .. n>> \in R)
  BY <1>4
<1>6. ASSUME NEW k \in T, k < n PROVE FALSE
  <2>1. 1 .. k \subseteq 1 .. n /\ 1 .. k # 1 .. n
    <3>1. n \in 1 .. n /\ n \notin 1 .. k
      BY <1>6
    <3> QED
      BY <3>1, <1>6
  <2>2. <<1 .. k, 1 .. n>> \in R
    <3> DEFINE s == 1 .. k
               t == 1 .. n
    <3>1. s \in SUBSET Nat /\ t \in SUBSET Nat
      OBVIOUS
    <3>2. s \subseteq t /\ s # t
      BY <2>1
    <3> HIDE DEF s, t
    <3>3. <<s, t>> \in R
      BY <3>1, <3>2 DEF StrictSubsetOrdering
    <3> QED
      BY <3>3 DEF s, t
  <2> QED
    BY <2>2, <1>5
<1> QED
  BY <1>6

\* Induction up to n, over a set of numbers.
LEMMA Induction ==
    ASSUME NEW n \in Nat, NEW T, 0 \in T,
           \A i \in 1 .. n : i - 1 \in T => i \in T
    PROVE  0 .. n \subseteq T
<1> DEFINE U == (0 .. n) \ T
<1>1. SUFFICES ASSUME U # {} PROVE FALSE
  OBVIOUS
<1>2. PICK k \in U : \A j \in U : k <= j
  <2>1. U \subseteq Nat
    OBVIOUS
  <2> HIDE DEF U
  <2> QED
    BY <1>1, <2>1, LeastNumber
<1> QED
  BY <1>2

\* f is the sequence of values from b on that the functions G give.
Iterates(f, M, b, n, G) ==
    /\ f \in [0 .. n -> M]
    /\ f[0] = b
    /\ \A i \in 1 .. n : f[i] = G[i][f[i - 1]]

\* A value and functions to apply to it one after the other define such a sequence.
LEMMA Iteration ==
    ASSUME NEW M, NEW b \in M, NEW n \in Nat, NEW G \in [1 .. n -> [M -> M]]
    PROVE  \E f : Iterates(f, M, b, n, G)
<1> DEFINE To(k, f) == f[0] = b /\ \A i \in 1 .. k : f[i] = G[i][f[i - 1]]
           T == {k \in 0 .. n : \E f \in [0 .. n -> M] : To(k, f)}
<1>1. 0 \in T
  <2> DEFINE f == [i \in 0 .. n |-> b]
  <2>1. f \in [0 .. n -> M] /\ f[0] = b
    OBVIOUS
  <2>2. To(0, f)
    BY <2>1
  <2> HIDE DEF f, To
  <2> QED
    BY <2>1, <2>2
<1>2. ASSUME NEW k \in 1 .. n, k - 1 \in T PROVE k \in T
  <2>1. PICK f \in [0 .. n -> M] : To(k - 1, f)
    BY <1>2
  <2>2. f[k - 1] \in M /\ G[k] \in [M -> M]
    OBVIOUS
  <2> DEFINE x == G[k][f[k - 1]]
             g == [f EXCEPT ![k] = x]
  <2>3. x \in M
    BY <2>2
  <2>4. g[k] = x /\ \A i \in 0 .. k - 1 : g[i] = f[i]
    OBVIOUS
  <2>5. g \in [0 .. n -> M]
    BY <2>3
  <2> HIDE DEF g
  <2>6. g[0] = b
    BY <2>1, <2>4
  <2>7. \A i \in 1 .. k : g[i] = G[i][g[i - 1]]
    <3> TAKE i \in 1 .. k
    <3>1. CASE i = k
      <4>1. g[k - 1] = f[k - 1]
        BY <2>4
      <4> QED
        BY <3>1, <4>1, <2>4
    <3>2. CASE i < k
      <4>1. i \in 1 .. k - 1 /\ i - 1 \in 0 .. k - 1 /\ i \in 0 .. k - 1
        BY <3>2
      <4>2. g[i] = f[i] /\ g[i - 1] = f[i - 1]
        BY <2>4, <4>1
      <4> QED
        BY <2>1, <4>1, <4>2
    <3> QED
      BY <3>1, <3>2
  <2>8. To(k, g)
    BY <2>6, <2>7
  <2> HIDE DEF To
  <2> QED
    BY <2>5, <2>8
<1>3. 0 .. n \subseteq T
  <2> HIDE DEF T
  <2> QED
    BY <1>1, <1>2, Induction
<1>4. n \in T
  <2> HIDE DEF T
  <2>1. n \in 0 .. n
    OBVIOUS
  <2> QED
    BY <1>3, <2>1
<1> QED
  BY <1>4 DEF Iterates

-----------------------------------------------------------------------------
(* The operators on page tables and memory.                                *)

AllFrames == 0 .. Frames - 1

\* Mem::allocate_page: a page number, and one not handed out if there is one.
LEMMA FirstFreeIs ==
    ASSUME NEW used
    PROVE  /\ FirstFree(used) \in AllFrames
           /\ AllFrames \ used # {} => FirstFree(used) \notin used
           /\ used = {} => FirstFree(used) = 0
<1> DEFINE free == AllFrames \ used
<1>1. CASE free = {}
  BY <1>1, Sizes DEF FirstFree, AllFrames
<1>2. CASE free # {}
  <2>1. free \subseteq Nat
    BY Sizes DEF AllFrames
  <2> HIDE DEF free
  <2>2. \E f \in free : \A g \in free : f <= g
    BY <1>2, <2>1, LeastNumber
  <2>3. FirstFree(used) = CHOOSE f \in free : \A g \in free : f <= g
    BY <1>2 DEF FirstFree, free, AllFrames
  <2>4. FirstFree(used) \in free /\ \A g \in free : FirstFree(used) <= g
    BY <2>2, <2>3
  <2>5. used = {} => 0 \in free
    BY Sizes DEF free, AllFrames
  <2>6. FirstFree(used) \in Nat
    BY <2>1, <2>4
  <2> QED
    BY <2>4, <2>5, <2>6 DEF free
<1> QED
  BY <1>1, <1>2

\* A VM with the memory and the pages handed out, as the operators of execve
\* have it.
MemState == [v : VmType, mem : [Phys -> Vals], used : SUBSET AllFrames]

\* A page table entry, or page 0 where there is none, is a page.
LEMMA FrameType ==
    ASSUME NEW v \in VmType, NEW pg \in Pages
    PROVE  Frame(v, pg) \in AllFrames
BY Sizes DEF Frame, VmType, AllFrames

LEMMA PhyAddrType ==
    ASSUME NEW v \in VmType, NEW a \in Addr
    PROVE  PhyAddr(v, a) \in Phys
<1>1. PageOf(a) \in Pages
  BY PagesAre
<1>2. Frame(v, PageOf(a)) \in AllFrames
  BY <1>1, FrameType
<1>3. a % PageSize \in 0 .. PageSize - 1
  BY PageFacts, Sizes DEF Addr
<1> QED
  BY <1>2, <1>3 DEF PhyAddr, Phys, AllFrames

\* Touching a page changes no frame and nothing else.
LEMMA TouchedType ==
    ASSUME NEW v \in VmType, NEW pg \in Pages
    PROVE  /\ Touched(v, pg) \in VmType
           /\ Touched(v, pg).vm_area = v.vm_area
           /\ Touched(v, pg).pgd_valid = v.pgd_valid
           /\ \A x \in Pages : /\ Frame(Touched(v, pg), x) = Frame(v, x)
                               /\ v.pgd[x] # NULL => Touched(v, pg).pgd[x] = v.pgd[x]
<1> DEFINE f == Frame(v, pg)
           t == [v.pgd EXCEPT ![pg] = f]
<1>1. f \in AllFrames
  BY FrameType
<1>2. v.pgd \in [Pages -> AllFrames \cup {NULL}]
  BY DEF VmType, AllFrames
<1> HIDE DEF f
<1>3. t \in [Pages -> AllFrames \cup {NULL}] /\ t[pg] = f /\ \A x \in Pages \ {pg} : t[x] = v.pgd[x]
  BY <1>1, <1>2
<1>4. Touched(v, pg) = [v EXCEPT !.pgd = t]
  BY DEF Touched, VmType, f
<1> HIDE DEF t
<1>5. /\ [v EXCEPT !.pgd = t] \in VmType
      /\ [v EXCEPT !.pgd = t].pgd = t
      /\ [v EXCEPT !.pgd = t].vm_area = v.vm_area
      /\ [v EXCEPT !.pgd = t].pgd_valid = v.pgd_valid
  BY <1>3 DEF VmType, AllFrames
<1>6. f # NULL
  BY <1>1, Sizes, NullAssumption DEF AllFrames
<1>7. \A x \in Pages : (IF t[x] = NULL THEN 0 ELSE t[x]) = Frame(v, x)
  BY <1>3, <1>6 DEF Frame, f
<1>8. \A x \in Pages : v.pgd[x] # NULL => t[x] = v.pgd[x]
  BY <1>3 DEF Frame, f
<1> QED
  BY <1>4, <1>5, <1>7, <1>8 DEF Frame

Valid(v, pg) == v.pgd_valid[pg] # "INVALID"

\* A page that is valid in n and was not in m.
New(m, n, pg) == ~ Valid(m.v, pg) /\ Valid(n.v, pg)

Kept(m, n, pg) ==
    /\ n.v.pgd_valid[pg] = m.v.pgd_valid[pg]
    /\ Frame(n.v, pg) = Frame(m.v, pg)
    /\ m.v.pgd[pg] # NULL => n.v.pgd[pg] = m.v.pgd[pg]

\* From m to n pages were allocated and touched: the pages that are new have
\* physical pages that were handed out to them, to each its own as long as one is
\* left, and the others keep what they have.
Grows(m, n) ==
    /\ m.used \subseteq n.used
    /\ 0 \in m.used \/ m.used = {} => 0 \in n.used \/ n.used = {}
    /\ \A pg \in Pages :
         IF New(m, n, pg) THEN n.v.pgd_valid[pg] = "RW" /\ n.v.pgd[pg] \in n.used
         ELSE Kept(m, n, pg)
    /\ AllFrames \ n.used # {} =>
         \A x \in Pages : New(m, n, x) =>
            /\ n.v.pgd[x] \notin m.used
            /\ \A y \in Pages : New(m, n, y) /\ y # x => n.v.pgd[x] # n.v.pgd[y]

LEMMA GrowsReflexive ==
    ASSUME NEW m
    PROVE  Grows(m, m)
BY DEF Grows, New, Kept

LEMMA GrowsTransitive ==
    ASSUME NEW m, NEW n \in MemState, NEW k \in MemState, Grows(m, n), Grows(n, k)
    PROVE  Grows(m, k)
<1>1. \A pg \in Pages : New(n, k, pg) => ~ New(m, n, pg) /\ New(m, k, pg)
  BY DEF Grows, New, Kept, Valid
<1>2. \A pg \in Pages : New(m, k, pg) => New(m, n, pg) \/ New(n, k, pg)
  BY DEF New
<1>3. \A pg \in Pages : New(m, n, pg) => Kept(n, k, pg) /\ k.v.pgd[pg] = n.v.pgd[pg]
  <2> TAKE pg \in Pages
  <2> HAVE New(m, n, pg)
  <2>1. ~ New(n, k, pg)
    BY <1>1
  <2>2. n.v.pgd[pg] \in n.used
    BY DEF Grows
  <2>3. n.v.pgd[pg] # NULL
    BY <2>2, Sizes, NullAssumption DEF MemState, AllFrames
  <2> QED
    BY <2>1, <2>3 DEF Grows, Kept
<1>4. m.used \subseteq n.used /\ n.used \subseteq k.used
  BY DEF Grows
<1>5. \A pg \in Pages :
        IF New(m, k, pg) THEN k.v.pgd_valid[pg] = "RW" /\ k.v.pgd[pg] \in k.used
        ELSE Kept(m, k, pg)
  <2> TAKE pg \in Pages
  <2>1. CASE New(n, k, pg)
    BY <2>1, <1>1 DEF Grows
  <2>2. CASE New(m, n, pg)
    <3>1. Kept(n, k, pg) /\ New(m, k, pg)
      BY <1>3, <2>2 DEF Kept, New, Valid
    <3> QED
      BY <3>1, <2>2, <1>3, <1>4 DEF Grows, Kept
  <2>3. CASE ~ New(n, k, pg) /\ ~ New(m, n, pg)
    <3>1. Kept(m, n, pg) /\ Kept(n, k, pg)
      BY <2>3 DEF Grows
    <3>2. Kept(m, k, pg)
      BY <3>1 DEF Kept
    <3> QED
      BY <3>2, <2>3, <1>2
  <2> QED
    BY <2>1, <2>2, <2>3
<1>6. ASSUME AllFrames \ k.used # {}
      PROVE  \A x \in Pages : New(m, k, x) =>
                /\ k.v.pgd[x] \notin m.used
                /\ \A y \in Pages : New(m, k, y) /\ y # x => k.v.pgd[x] # k.v.pgd[y]
  <2>1. AllFrames \ n.used # {}
    BY <1>6, <1>4
  <2>2. \A x \in Pages : New(m, n, x) =>
          /\ k.v.pgd[x] \in n.used
          /\ k.v.pgd[x] \notin m.used
          /\ \A y \in Pages : New(m, n, y) /\ y # x => k.v.pgd[x] # k.v.pgd[y]
    BY <2>1, <1>3 DEF Grows
  <2>3. \A x \in Pages : New(n, k, x) =>
          /\ k.v.pgd[x] \notin n.used
          /\ \A y \in Pages : New(n, k, y) /\ y # x => k.v.pgd[x] # k.v.pgd[y]
    BY <1>6 DEF Grows
  <2> QED
    BY <2>2, <2>3, <1>2, <1>4
<1>7. 0 \in m.used \/ m.used = {} => 0 \in k.used \/ k.used = {}
  BY DEF Grows
<1> QED
  BY <1>4, <1>5, <1>6, <1>7 DEF Grows

\* VM::allocate_page_pte.
LEMMA AllocatePageEffect ==
    ASSUME NEW m \in MemState, NEW a \in Addr
    PROVE  /\ AllocatePage(m, a) \in MemState
           /\ AllocatePage(m, a).mem = m.mem
           /\ AllocatePage(m, a).v.vm_area = m.v.vm_area
           /\ Grows(m, AllocatePage(m, a))
           /\ a % PageSize = 0 => Valid(AllocatePage(m, a).v, a)
<1>1. CASE a % PageSize # 0 \/ Valid(m.v, PageOf(a))
  <2>1. AllocatePage(m, a) = m
    BY <1>1 DEF AllocatePage, Valid
  <2>2. a % PageSize = 0 => PageOf(a) = a
    BY PagesAre
  <2> QED
    BY <2>1, <2>2, <1>1, GrowsReflexive
<1>2. CASE a % PageSize = 0 /\ ~ Valid(m.v, PageOf(a))
  <2>1. a \in Pages /\ PageOf(a) = a
    BY <1>2, PagesAre
  <2> DEFINE f == FirstFree(m.used)
             t == [m.v.pgd EXCEPT ![a] = f]
             w == [m.v.pgd_valid EXCEPT ![a] = "RW"]
             u == m.used \cup {f}
  <2>2. /\ m.v.pgd \in [Pages -> AllFrames \cup {NULL}]
        /\ m.v.pgd_valid \in [Pages -> {"INVALID", "RW", "RONLY"}]
        /\ m.used \subseteq AllFrames
    BY DEF MemState, VmType, AllFrames
  <2>3. f \in AllFrames /\ (AllFrames \ u # {} => f \notin m.used) /\ (m.used = {} => f = 0)
    BY FirstFreeIs
  <2>4. AllocatePage(m, a) = [m EXCEPT !.v.pgd[a] = f, !.v.pgd_valid[a] = "RW", !.used = u]
    BY <1>2 DEF AllocatePage, Taken, Valid
  <2> HIDE DEF f
  <2>5. /\ t \in [Pages -> AllFrames \cup {NULL}]
        /\ t[a] = f /\ \A x \in Pages \ {a} : t[x] = m.v.pgd[x]
    BY <2>1, <2>2, <2>3
  <2>6. /\ w \in [Pages -> {"INVALID", "RW", "RONLY"}]
        /\ w[a] = "RW" /\ \A x \in Pages \ {a} : w[x] = m.v.pgd_valid[x]
    BY <2>1, <2>2
  <2>7. u \in SUBSET AllFrames
    BY <2>2, <2>3
  <2> DEFINE n == [v |-> [pgd |-> t, pgd_valid |-> w, vm_area |-> m.v.vm_area],
                   mem |-> m.mem, used |-> u]
  <2>8. AllocatePage(m, a) = n
    BY <2>4 DEF MemState, VmType
  <2> HIDE DEF t, w
  <2>9. n.v \in VmType
    BY <2>5, <2>6 DEF MemState, VmType, AllFrames
  <2>10. n \in MemState
    BY <2>9, <2>7 DEF MemState
  <2>11. \A x \in Pages : New(m, n, x) <=> x = a
    BY <1>2, <2>1, <2>6 DEF New, Valid
  <2>12. \A x \in Pages \ {a} : Kept(m, n, x)
    BY <2>5, <2>6 DEF Kept, Frame
  <2>13. Grows(m, n)
    BY <2>1, <2>3, <2>5, <2>6, <2>11, <2>12 DEF Grows
  <2>14. Valid(n.v, a)
    BY <2>6 DEF Valid
  <2> QED
    BY <2>8, <2>10, <2>13, <2>14
<1> QED
  BY <1>1, <1>2

LEMMA Monotone ==
    ASSUME NEW P \in Nat, NEW a \in Nat, NEW b \in Nat, a <= b
    PROVE  P * a <= P * b
OBVIOUS

\* The addresses the pages of a section are allocated at are addresses of the
\* section, and when it begins with a page they are all of its pages.
LEMMA StepsFacts ==
    ASSUME NEW start \in Nat, NEW len \in Nat
    PROVE  /\ Len(Steps(start, len)) \in Nat
           /\ \A i \in 1 .. Len(Steps(start, len)) :
                Steps(start, len)[i] \in start .. start + len - 1
           /\ start % PageSize = 0 =>
                \A pg \in Nat :
                  pg % PageSize = 0 /\ start <= pg /\ pg < start + len =>
                    \E i \in 1 .. Len(Steps(start, len)) : Steps(start, len)[i] = pg
<1> DEFINE N == len + PageSize - 1
           n == N \div PageSize
           s == [i \in 1 .. n |-> start + (i - 1) * PageSize]
<1>1. N \in Nat
  BY Sizes
<1>2. n \in Nat /\ PageSize * n <= N /\ N < (PageSize * n) + PageSize
  <2> HIDE DEF N
  <2> QED
    BY <1>1, Division, Sizes
<1>3. Steps(start, len) = s
  BY DEF Steps
<1> HIDE DEF n
<1>4. s \in Seq(Int) /\ Len(s) = n /\ \A i \in 1 .. n : s[i] = start + (i - 1) * PageSize
  <2>1. s \in [1 .. n -> Int]
    BY Sizes
  <2> QED
    BY <2>1, <1>2
<1> HIDE DEF s
<1>5. ASSUME NEW i \in 1 .. n PROVE s[i] \in start .. start + len - 1
  <2>1. PageSize * (i - 1) <= PageSize * (n - 1)
    BY Monotone, <1>2, Sizes
  <2>2. PageSize * (n - 1) = (PageSize * n) - PageSize
    BY <1>2, Sizes
  <2>3. (i - 1) * PageSize = PageSize * (i - 1) /\ PageSize * (i - 1) \in Nat
    BY <1>2, Sizes
  <2>4. (i - 1) * PageSize \in 0 .. len - 1
    BY <2>1, <2>2, <2>3, <1>2, Sizes
  <2> QED
    BY <2>4, <1>4
<1>6. ASSUME start % PageSize = 0, NEW pg \in Nat, pg % PageSize = 0,
             start <= pg, pg < start + len
      PROVE  \E i \in 1 .. n : s[i] = pg
  <2>1. PICK j \in Nat, l \in Nat : start = PageSize * j /\ pg = PageSize * l
    <3>1. \E j \in Nat : start = PageSize * j
      BY <1>6, Multiple
    <3>2. \E l \in Nat : pg = PageSize * l
      BY <1>6, Multiple
    <3> QED
      BY <3>1, <3>2
  <2>2. j <= l
    <3>1. ASSUME l + 1 <= j PROVE FALSE
      <4>1. PageSize * (l + 1) <= PageSize * j
        BY <3>1, Monotone, Sizes
      <4>2. PageSize * (l + 1) = (PageSize * l) + PageSize
        BY Sizes
      <4> QED
        BY <4>1, <4>2, <2>1, <1>6, Sizes
    <3> QED
      BY <3>1
  <2> DEFINE k == l - j
  <2>3. k \in Nat /\ pg = start + PageSize * k
    BY <2>1, <2>2, Sizes
  <2>4. k < n
    <3>1. ASSUME n <= k PROVE FALSE
      <4>1. PageSize * n <= PageSize * k
        BY <3>1, <2>3, <1>2, Monotone, Sizes
      <4>2. PageSize * k \in Nat /\ PageSize * n \in Nat
        BY <2>3, <1>2, Sizes
      <4> HIDE DEF k
      <4> QED
        BY <4>1, <4>2, <2>3, <1>2, <1>6, Sizes
    <3> QED
      BY <3>1, <2>3, <1>2
  <2>5. k + 1 \in 1 .. n /\ s[k + 1] = start + ((k + 1) - 1) * PageSize
    BY <2>3, <2>4, <1>2, <1>4
  <2>6. ((k + 1) - 1) * PageSize = PageSize * k
    BY <2>3, Sizes
  <2> QED
    BY <2>5, <2>6, <2>3
<1> QED
  BY <1>2, <1>3, <1>4, <1>5, <1>6

\* The loop over the pages of a section ends in what it says, page by page.
LEMMA PagesInTurn ==
    ASSUME NEW m \in MemState, NEW start \in Nat, NEW len \in Nat,
           start + len <= ArgsEnd
    PROVE  LET n == Len(Steps(start, len)) IN
           \E f \in [0 .. n -> MemState] :
              /\ f[0] = m
              /\ \A i \in 1 .. n : f[i] = AllocatePage(f[i - 1], Steps(start, len)[i])
              /\ AllocatePages(m, start, len) = f[n]
<1> DEFINE steps == Steps(start, len)
           n == Len(steps)
           G == [i \in 1 .. n |-> [k \in MemState |-> AllocatePage(k, steps[i])]]
           Def(f) == f = [i \in 0 .. n |->
                            IF i = 0 THEN m ELSE AllocatePage(f[i - 1], steps[i])]
<1>1. n \in Nat /\ \A i \in 1 .. n : steps[i] \in Addr
  <2>1. n \in Nat /\ \A i \in 1 .. n : steps[i] \in start .. start + len - 1
    BY StepsFacts
  <2>2. start .. start + len - 1 \subseteq Addr
    BY Sizes DEF Addr
  <2> HIDE DEF n, steps
  <2> QED
    BY <2>1, <2>2
<1> HIDE DEF steps, n
<1>2. \A k \in MemState, i \in 1 .. n : AllocatePage(k, steps[i]) \in MemState
  BY <1>1, AllocatePageEffect
<1>3. G \in [1 .. n -> [MemState -> MemState]]
  BY <1>2
<1>4. \A k \in MemState, i \in 1 .. n : G[i][k] = AllocatePage(k, steps[i])
  OBVIOUS
<1> HIDE DEF G
<1>5. PICK f : Iterates(f, MemState, m, n, G)
  BY <1>1, <1>3, Iteration
<1>6. ASSUME NEW i \in 1 .. n PROVE f[i] = AllocatePage(f[i - 1], steps[i])
  <2>1. f[i - 1] \in MemState
    BY <1>1, <1>5 DEF Iterates
  <2> QED
    BY <2>1, <1>4, <1>5 DEF Iterates
<1>7. Def(f)
  BY <1>1, <1>5, <1>6 DEF Iterates
<1> DEFINE h == CHOOSE g : Def(g)
<1>8. Def(h)
  BY <1>7
<1>9. AllocatePages(m, start, len) = h[n]
  BY DEF AllocatePages, steps, n
<1> HIDE DEF h
<1>10. h[0] = m /\ \A i \in 1 .. n : h[i] = AllocatePage(h[i - 1], steps[i])
  BY <1>1, <1>8
<1>11. h \in [0 .. n -> MemState]
  <2> DEFINE T == {i \in 0 .. n : h[i] \in MemState}
  <2>1. 0 \in T
    BY <1>1, <1>10
  <2>2. ASSUME NEW i \in 1 .. n, i - 1 \in T PROVE i \in T
    BY <2>2, <1>2, <1>10
  <2>3. 0 .. n \subseteq T
    <3> HIDE DEF T
    <3> QED
      BY <2>1, <2>2, <1>1, Induction
  <2>4. \A i \in 0 .. n : h[i] \in MemState
    BY <2>3
  <2> QED
    BY <2>4, <1>8
<1> QED
  BY <1>9, <1>10, <1>11 DEF steps, n

\* From m to n nothing was allocated.
Fills(m, n) ==
    /\ n.used = m.used
    /\ n.v.vm_area = m.v.vm_area
    /\ n.v.pgd_valid = m.v.pgd_valid
    /\ \A pg \in Pages : Kept(m, n, pg)

\* VM::write of a byte of a section.
LEMMA PutByteEffect ==
    ASSUME NEW m \in MemState, NEW a \in Addr, NEW b \in Vals
    PROVE  /\ PutByte(m, a, b) \in MemState
           /\ Fills(m, PutByte(m, a, b))
           /\ \A x \in Phys \ {PhyAddr(m.v, a)} : PutByte(m, a, b).mem[x] = m.mem[x]
           /\ PutByte(m, a, b).mem[PhyAddr(m.v, a)] = b
<1> DEFINE w == Touched(m.v, PageOf(a))
           x0 == PhyAddr(m.v, a)
           c == [m.mem EXCEPT ![x0] = b]
           n == [v |-> w, mem |-> c, used |-> m.used]
<1>1. m.v \in VmType /\ m.mem \in [Phys -> Vals] /\ m.used \in SUBSET AllFrames
  BY DEF MemState
<1>2. PageOf(a) \in Pages /\ x0 \in Phys
  BY <1>1, PagesAre, PhyAddrType
<1>3. /\ w \in VmType /\ w.vm_area = m.v.vm_area /\ w.pgd_valid = m.v.pgd_valid
      /\ \A pg \in Pages : /\ Frame(w, pg) = Frame(m.v, pg)
                           /\ m.v.pgd[pg] # NULL => w.pgd[pg] = m.v.pgd[pg]
  BY <1>1, <1>2, TouchedType
<1>4. PutByte(m, a, b) = [m EXCEPT !.v = w, !.mem = c]
  BY DEF PutByte, MemState
<1> HIDE DEF w, x0
<1>5. c \in [Phys -> Vals] /\ c[x0] = b /\ \A x \in Phys \ {x0} : c[x] = m.mem[x]
  BY <1>1, <1>2
<1> HIDE DEF c
<1>6. PutByte(m, a, b) = n
  BY <1>4 DEF MemState
<1>7. n \in MemState
  BY <1>1, <1>3, <1>5 DEF MemState
<1>8. Fills(m, n)
  BY <1>3 DEF Fills, Kept
<1> QED
  BY <1>5, <1>6, <1>7, <1>8 DEF x0

\* The loop over the bytes of a section.
LEMMA BytesInTurn ==
    ASSUME NEW m \in MemState, NEW start \in Nat, NEW bytes \in Seq(Vals),
           start + Len(bytes) <= ArgsEnd
    PROVE  LET n == Len(bytes) IN
           \E f \in [0 .. n -> MemState] :
              /\ f[0] = m
              /\ \A i \in 1 .. n : f[i] = PutByte(f[i - 1], start + i - 1, bytes[i])
              /\ PutBytes(m, start, bytes) = f[n]
<1> DEFINE n == Len(bytes)
           Put(k, i) == PutByte(k, start + i - 1, bytes[i])
           G == [i \in 1 .. n |-> [k \in MemState |-> Put(k, i)]]
           Def(f) == f = [i \in 0 .. n |-> IF i = 0 THEN m ELSE Put(f[i - 1], i)]
<1>1. n \in Nat /\ \A i \in 1 .. n : start + i - 1 \in Addr /\ bytes[i] \in Vals
  BY Sizes DEF Addr
<1> HIDE DEF n
<1>2. \A k \in MemState, i \in 1 .. n : Put(k, i) \in MemState
  BY <1>1, PutByteEffect
<1>3. PutBytes(m, start, bytes) = (CHOOSE f : Def(f))[n]
  BY DEF PutBytes, n
<1> HIDE DEF Put
<1>4. G \in [1 .. n -> [MemState -> MemState]]
  BY <1>2
<1>5. \A k \in MemState, i \in 1 .. n : G[i][k] = Put(k, i)
  OBVIOUS
<1> HIDE DEF G
<1>6. PICK f : Iterates(f, MemState, m, n, G)
  BY <1>1, <1>4, Iteration
<1>7. ASSUME NEW i \in 1 .. n PROVE f[i] = Put(f[i - 1], i)
  <2>1. f[i - 1] \in MemState
    BY <1>1, <1>6 DEF Iterates
  <2> QED
    BY <2>1, <1>5, <1>6 DEF Iterates
<1>8. Def(f)
  BY <1>1, <1>6, <1>7 DEF Iterates
<1> DEFINE h == CHOOSE g : Def(g)
<1>9. Def(h)
  BY <1>8
<1>10. PutBytes(m, start, bytes) = h[n]
  BY <1>3
<1> HIDE DEF h
<1>11. h[0] = m /\ \A i \in 1 .. n : h[i] = Put(h[i - 1], i)
  BY <1>1, <1>9
<1>12. h \in [0 .. n -> MemState]
  <2> DEFINE T == {i \in 0 .. n : h[i] \in MemState}
  <2>1. 0 \in T
    BY <1>1, <1>11
  <2>2. ASSUME NEW i \in 1 .. n, i - 1 \in T PROVE i \in T
    BY <2>2, <1>2, <1>11
  <2>3. 0 .. n \subseteq T
    <3> HIDE DEF T
    <3> QED
      BY <2>1, <2>2, <1>1, Induction
  <2>4. \A i \in 0 .. n : h[i] \in MemState
    BY <2>3
  <2> QED
    BY <2>4, <1>9
<1> QED
  BY <1>10, <1>11, <1>12 DEF n, Put

LEMMA GrowsValid ==
    ASSUME NEW m, NEW n, Grows(m, n), NEW pg \in Pages, Valid(m.v, pg)
    PROVE  Valid(n.v, pg)
BY DEF Grows, New, Kept, Valid

\* The first loop of VM::allocate_section.
LEMMA AllocatePagesEffect ==
    ASSUME NEW m \in MemState, NEW start \in Nat, NEW len \in Nat,
           start + len <= ArgsEnd
    PROVE  LET n == AllocatePages(m, start, len) IN
           /\ n \in MemState
           /\ n.mem = m.mem
           /\ n.v.vm_area = m.v.vm_area
           /\ Grows(m, n)
           /\ start % PageSize = 0 =>
                \A pg \in Pages : start <= pg /\ pg < start + len => Valid(n.v, pg)
<1> DEFINE steps == Steps(start, len)
           k == Len(steps)
<1>1. /\ k \in Nat
      /\ \A i \in 1 .. k : steps[i] \in start .. start + len - 1
      /\ start % PageSize = 0 =>
           \A pg \in Nat : pg % PageSize = 0 /\ start <= pg /\ pg < start + len =>
             \E i \in 1 .. k : steps[i] = pg
  BY StepsFacts
<1>2. PICK f \in [0 .. k -> MemState] :
        /\ f[0] = m
        /\ \A i \in 1 .. k : f[i] = AllocatePage(f[i - 1], steps[i])
        /\ AllocatePages(m, start, len) = f[k]
  BY PagesInTurn
<1> HIDE DEF steps, k
<1>3. \A i \in 1 .. k : steps[i] \in Addr
  BY <1>1, Sizes DEF Addr
<1> DEFINE Done(i) ==
             /\ f[i].mem = m.mem
             /\ f[i].v.vm_area = m.v.vm_area
             /\ Grows(m, f[i])
             /\ \A j \in 1 .. i : steps[j] % PageSize = 0 => Valid(f[i].v, steps[j])
           T == {i \in 0 .. k : Done(i)}
<1>4. 0 \in T
  BY <1>1, <1>2, GrowsReflexive
<1>5. ASSUME NEW i \in 1 .. k, i - 1 \in T PROVE i \in T
  <2> DEFINE g == f[i - 1]
             h == f[i]
  <2>1. g \in MemState /\ h \in MemState /\ steps[i] \in Addr
    BY <1>1, <1>2, <1>3
  <2>2. h = AllocatePage(g, steps[i])
    BY <1>2
  <2>3. /\ g.mem = m.mem
        /\ g.v.vm_area = m.v.vm_area
        /\ Grows(m, g)
        /\ \A j \in 1 .. i - 1 : steps[j] % PageSize = 0 => Valid(g.v, steps[j])
    BY <1>5
  <2> HIDE DEF g, h
  <2>4. /\ h.mem = g.mem
        /\ h.v.vm_area = g.v.vm_area
        /\ Grows(g, h)
        /\ steps[i] % PageSize = 0 => Valid(h.v, steps[i])
    BY <2>1, <2>2, AllocatePageEffect
  <2>5. Grows(m, h)
    BY <2>1, <2>3, <2>4, GrowsTransitive
  <2>6. ASSUME NEW j \in 1 .. i, steps[j] % PageSize = 0 PROVE Valid(h.v, steps[j])
    <3>1. CASE j = i
      BY <3>1, <2>6, <2>4
    <3>2. CASE j # i
      <4>1. j \in 1 .. i - 1 /\ j \in 1 .. k
        BY <3>2, <1>1
      <4>2. Valid(g.v, steps[j]) /\ steps[j] \in Pages
        BY <4>1, <2>3, <2>6, <1>3, PagesAre
      <4> QED
        BY <4>2, <2>4, GrowsValid
    <3> QED
      BY <3>1, <3>2
  <2>7. Done(i)
    BY <2>3, <2>4, <2>5, <2>6 DEF g, h
  <2> QED
    BY <2>7
<1>6. 0 .. k \subseteq T
  <2> HIDE DEF T
  <2> QED
    BY <1>1, <1>4, <1>5, Induction
<1>7. k \in T
  <2> HIDE DEF T
  <2>1. k \in 0 .. k
    BY <1>1
  <2> QED
    BY <1>6, <2>1
<1>8. Done(k) /\ f[k] \in MemState
  BY <1>7, <1>1
<1> DEFINE n == AllocatePages(m, start, len)
<1>9. n = f[k]
  BY <1>2
<1> HIDE DEF n
<1>10. ASSUME start % PageSize = 0, NEW pg \in Pages, start <= pg, pg < start + len
       PROVE  Valid(n.v, pg)
  <2>1. pg \in Nat /\ pg % PageSize = 0
    BY PagesAre
  <2>2. PICK j \in 1 .. k : steps[j] = pg
    BY <2>1, <1>1, <1>10
  <2> QED
    BY <2>1, <2>2, <1>8, <1>9
<1>11. n \in MemState /\ n.mem = m.mem /\ n.v.vm_area = m.v.vm_area /\ Grows(m, n)
  BY <1>8, <1>9
<1> QED
  BY <1>10, <1>11 DEF n

LEMMA FillsGrows ==
    ASSUME NEW m, NEW n, Fills(m, n)
    PROVE  Grows(m, n)
BY DEF Fills, Grows, New, Valid

\* The second loop.
LEMMA PutBytesEffect ==
    ASSUME NEW m \in MemState, NEW start \in Nat, NEW bytes \in Seq(Vals),
           start + Len(bytes) <= ArgsEnd
    PROVE  LET n == PutBytes(m, start, bytes) IN
           /\ n \in MemState
           /\ Fills(m, n)
           /\ \A x \in Phys :
                (\A a \in start .. start + Len(bytes) - 1 : x # PhyAddr(m.v, a)) =>
                  n.mem[x] = m.mem[x]
<1> DEFINE k == Len(bytes)
           Away(x) == \A a \in start .. start + k - 1 : x # PhyAddr(m.v, a)
<1>1. k \in Nat /\ \A i \in 1 .. k : /\ start + i - 1 \in start .. start + k - 1
                                     /\ start + i - 1 \in Addr
                                     /\ bytes[i] \in Vals
  BY Sizes DEF Addr
<1>2. PICK f \in [0 .. k -> MemState] :
        /\ f[0] = m
        /\ \A i \in 1 .. k : f[i] = PutByte(f[i - 1], start + i - 1, bytes[i])
        /\ PutBytes(m, start, bytes) = f[k]
  BY BytesInTurn
<1> HIDE DEF k
<1> DEFINE Done(i) == Fills(m, f[i]) /\ \A x \in Phys : Away(x) => f[i].mem[x] = m.mem[x]
           T == {i \in 0 .. k : Done(i)}
<1> HIDE DEF Away
<1>3. 0 \in T
  BY <1>1, <1>2 DEF Fills, Kept
<1>4. ASSUME NEW i \in 1 .. k, i - 1 \in T PROVE i \in T
  <2> DEFINE g == f[i - 1]
             h == f[i]
             a == start + i - 1
  <2>1. g \in MemState /\ h \in MemState
    BY <1>1, <1>2
  <2>2. h = PutByte(g, a, bytes[i]) /\ a \in Addr /\ a \in start .. start + k - 1 /\ bytes[i] \in Vals
    BY <1>1, <1>2
  <2>3. Fills(m, g) /\ \A x \in Phys : Away(x) => g.mem[x] = m.mem[x]
    BY <1>4
  <2> HIDE DEF g, h, a
  <2>4. Fills(g, h) /\ \A x \in Phys \ {PhyAddr(g.v, a)} : h.mem[x] = g.mem[x]
    BY <2>1, <2>2, PutByteEffect
  <2>5. Fills(m, h)
    BY <2>3, <2>4 DEF Fills, Kept
  <2>6. PhyAddr(g.v, a) = PhyAddr(m.v, a)
    <3>1. PageOf(a) \in Pages
      BY <2>2, PagesAre
    <3> QED
      BY <3>1, <2>3 DEF Fills, Kept, PhyAddr
  <2>7. \A x \in Phys : Away(x) => h.mem[x] = m.mem[x]
    BY <2>2, <2>3, <2>4, <2>6 DEF Away
  <2>8. Done(i)
    BY <2>5, <2>7 DEF h
  <2> QED
    BY <2>8
<1>5. 0 .. k \subseteq T
  <2> HIDE DEF T
  <2> QED
    BY <1>1, <1>3, <1>4, Induction
<1>6. k \in T
  <2> HIDE DEF T
  <2>1. k \in 0 .. k
    BY <1>1
  <2> QED
    BY <1>5, <2>1
<1>7. Done(k) /\ f[k] \in MemState
  BY <1>6, <1>1
<1> QED
  BY <1>2, <1>7 DEF Away, k

\* No two addresses of a section are the same byte.
Apart(v, start, len) ==
    \A a, b \in start .. start + len - 1 : a # b => PhyAddr(v, a) # PhyAddr(v, b)

\* The bytes are there in the end, each at its address, where these are apart.
LEMMA PutBytesFills ==
    ASSUME NEW m \in MemState, NEW start \in Nat, NEW bytes \in Seq(Vals),
           start + Len(bytes) <= ArgsEnd, Apart(m.v, start, Len(bytes))
    PROVE  \A i \in 1 .. Len(bytes) :
              PutBytes(m, start, bytes).mem[PhyAddr(m.v, start + i - 1)] = bytes[i]
<1> DEFINE k == Len(bytes)
           at == [i \in 1 .. k |-> PhyAddr(m.v, start + i - 1)]
<1>1. k \in Nat /\ \A i \in 1 .. k : start + i - 1 \in Addr /\ bytes[i] \in Vals
  BY Sizes DEF Addr
<1>2. PICK f \in [0 .. k -> MemState] :
        /\ f[0] = m
        /\ \A i \in 1 .. k : f[i] = PutByte(f[i - 1], start + i - 1, bytes[i])
        /\ PutBytes(m, start, bytes) = f[k]
  BY BytesInTurn
<1>3. /\ \A i \in 1 .. k : at[i] = PhyAddr(m.v, start + i - 1) /\ at[i] \in Phys
      /\ \A i, j \in 1 .. k : i # j => at[i] # at[j]
  <2>1. \A i \in 1 .. k : start + i - 1 \in start .. start + k - 1
    BY <1>1
  <2>2. \A i, j \in 1 .. k : i # j => start + i - 1 # start + j - 1
    BY <1>1
  <2>3. m.v \in VmType
    BY DEF MemState
  <2> QED
    BY <1>1, <2>1, <2>2, <2>3, PhyAddrType DEF Apart
<1> HIDE DEF k, at
<1> DEFINE Done(i) == /\ \A pg \in Pages : Frame(f[i].v, pg) = Frame(m.v, pg)
                      /\ \A j \in 1 .. i : f[i].mem[at[j]] = bytes[j]
           T == {i \in 0 .. k : Done(i)}
<1>4. 0 \in T
  BY <1>1, <1>2
<1>5. ASSUME NEW i \in 1 .. k, i - 1 \in T PROVE i \in T
  <2> DEFINE g == f[i - 1]
             h == f[i]
             a == start + i - 1
  <2>1. g \in MemState
    BY <1>1, <1>2
  <2>2. h = PutByte(g, a, bytes[i]) /\ a \in Addr /\ bytes[i] \in Vals
    BY <1>1, <1>2
  <2>3. /\ \A pg \in Pages : Frame(g.v, pg) = Frame(m.v, pg)
        /\ \A j \in 1 .. i - 1 : g.mem[at[j]] = bytes[j]
    BY <1>5
  <2>a. at[i] = PhyAddr(m.v, a)
    BY <1>3
  <2> HIDE DEF g, h, a
  <2>4. /\ Fills(g, h)
        /\ \A x \in Phys \ {PhyAddr(g.v, a)} : h.mem[x] = g.mem[x]
        /\ h.mem[PhyAddr(g.v, a)] = bytes[i]
    BY <2>1, <2>2, PutByteEffect
  <2>5. PhyAddr(g.v, a) = at[i]
    BY <2>2, <2>3, <2>a, PagesAre DEF PhyAddr
  <2>6. \A pg \in Pages : Frame(h.v, pg) = Frame(m.v, pg)
    BY <2>3, <2>4 DEF Fills, Kept
  <2>7. ASSUME NEW j \in 1 .. i
        PROVE  h.mem[at[j]] = bytes[j]
    <3>1. CASE j = i
      BY <2>4, <2>5, <3>1
    <3>2. CASE j # i
      <4>1. j \in 1 .. i - 1 /\ j \in 1 .. k /\ i \in 1 .. k
        BY <1>1, <3>2
      <4>2. at[j] \in Phys \ {at[i]}
        BY <1>3, <3>2, <4>1
      <4> QED
        BY <2>3, <2>4, <2>5, <4>1, <4>2
    <3> QED
      BY <3>1, <3>2
  <2>8. Done(i)
    BY <2>6, <2>7 DEF h
  <2> QED
    BY <2>8
<1>6. 0 .. k \subseteq T
  <2> HIDE DEF T
  <2> QED
    BY <1>1, <1>4, <1>5, Induction
<1>7. k \in T
  <2> HIDE DEF T
  <2>1. k \in 0 .. k
    BY <1>1
  <2> QED
    BY <1>6, <2>1
<1>8. Done(k)
  BY <1>7
<1> QED
  BY <1>2, <1>3, <1>8 DEF k

AreaNames == {"text", "data", "bss", "stack", "cmd_args"}

AreaType == [section_name : AreaNames, start : Addr, end : Addr,
             prot : {"RONLY", "RW", "COPY_ON_WRITE"}]

Area(name, start, end, prot) ==
    [section_name |-> name, start |-> start, end |-> end, prot |-> prot]

\* What VM::allocate_section does: pages and area are there, and memory changes
\* at the section's addresses only.
Section(m, n, name, start, len, prot) ==
    /\ n \in MemState
    /\ Grows(m, n)
    /\ n.v.vm_area = Append(m.v.vm_area, Area(name, start, start + len, prot))
    /\ start % PageSize = 0 =>
         \A pg \in Pages : start <= pg /\ pg < start + len => Valid(n.v, pg)
    /\ \A x \in Phys :
         (\A a \in start .. start + len - 1 : x # PhyAddr(n.v, a)) => n.mem[x] = m.mem[x]

LEMMA SectionEffect ==
    ASSUME NEW m \in MemState, NEW name \in AreaNames, NEW start \in Nat,
           NEW bytes \in Seq(Vals), NEW prot \in {"RONLY", "RW"},
           start + Len(bytes) <= ArgsEnd
    PROVE  Section(m, AllocateSection(m, name, start, bytes, prot),
                   name, start, Len(bytes), prot)
<1> DEFINE len == Len(bytes)
           k == AllocatePages(m, start, len)
           f == PutBytes(k, start, bytes)
           area == Area(name, start, start + len, prot)
           v == [f.v EXCEPT !.vm_area = Append(@, area)]
           n == [f EXCEPT !.v = v]
<1>1. len \in Nat
  OBVIOUS
<1>2. /\ k \in MemState /\ k.mem = m.mem /\ k.v.vm_area = m.v.vm_area /\ Grows(m, k)
      /\ start % PageSize = 0 =>
           \A pg \in Pages : start <= pg /\ pg < start + len => Valid(k.v, pg)
  BY AllocatePagesEffect
<1> HIDE DEF k
<1>3. /\ f \in MemState /\ Fills(k, f)
      /\ \A x \in Phys :
           (\A a \in start .. start + len - 1 : x # PhyAddr(k.v, a)) => f.mem[x] = k.mem[x]
  BY <1>2, PutBytesEffect
<1>4. AllocateSection(m, name, start, bytes, prot) = n
  BY <1>3 DEF AllocateSection, k, SectionEnd, Area, MemState, VmType
<1> HIDE DEF f
<1>5. f.v \in VmType /\ f.v.vm_area \in Seq(AreaType) /\ area \in AreaType
  BY <1>1, <1>3, Sizes DEF MemState, VmType, AreaType, AreaNames, Area, Addr
<1> HIDE DEF area
<1>6. Append(f.v.vm_area, area) \in Seq(AreaType)
  BY <1>5
<1>7. /\ v \in VmType
      /\ v.vm_area = Append(f.v.vm_area, area)
      /\ v.pgd = f.v.pgd
      /\ v.pgd_valid = f.v.pgd_valid
  BY <1>5, <1>6 DEF VmType, AreaType, AreaNames
<1> HIDE DEF v
<1>8. n \in MemState /\ n.v = v /\ n.mem = f.mem /\ n.used = f.used
  BY <1>3, <1>7 DEF MemState
<1> HIDE DEF n
<1>9. Grows(k, n)
  <2>1. Grows(k, f)
    BY <1>3, FillsGrows
  <2> QED
    BY <2>1, <1>7, <1>8 DEF Grows, New, Valid, Kept, Frame
<1>10. Grows(m, n)
  BY <1>2, <1>8, <1>9, GrowsTransitive
<1>11. n.v.vm_area = Append(m.v.vm_area, area)
  BY <1>2, <1>3, <1>7, <1>8 DEF Fills
<1>12. start % PageSize = 0 =>
         \A pg \in Pages : start <= pg /\ pg < start + len => Valid(n.v, pg)
  BY <1>2, <1>9, GrowsValid
<1>13. ASSUME NEW a \in start .. start + len - 1 PROVE PhyAddr(n.v, a) = PhyAddr(k.v, a)
  <2>1. a \in Addr
    BY <1>1, Sizes DEF Addr
  <2>2. PageOf(a) \in Pages
    BY <2>1, PagesAre
  <2> QED
    BY <2>2, <1>3, <1>7, <1>8 DEF PhyAddr, Fills, Kept, Frame
<1>14. \A x \in Phys :
         (\A a \in start .. start + len - 1 : x # PhyAddr(n.v, a)) => n.mem[x] = m.mem[x]
  BY <1>2, <1>3, <1>8, <1>13
<1> QED
  BY <1>4, <1>8, <1>10, <1>11, <1>12, <1>14 DEF Section, area

\* The bytes of a section stand in memory as they were given.
Filled(n, start, bytes) ==
    Apart(n.v, start, Len(bytes)) =>
        \A i \in 1 .. Len(bytes) : n.mem[PhyAddr(n.v, start + i - 1)] = bytes[i]

LEMMA SectionFilled ==
    ASSUME NEW m \in MemState, NEW name \in AreaNames, NEW start \in Nat,
           NEW bytes \in Seq(Vals), NEW prot \in {"RONLY", "RW"},
           start + Len(bytes) <= ArgsEnd
    PROVE  Filled(AllocateSection(m, name, start, bytes, prot), start, bytes)
<1> DEFINE len == Len(bytes)
           k == AllocatePages(m, start, len)
           f == PutBytes(k, start, bytes)
           n == AllocateSection(m, name, start, bytes, prot)
<1>1. len \in Nat /\ \A i \in 1 .. len : start + i - 1 \in start .. start + len - 1
  OBVIOUS
<1>2. k \in MemState
  BY AllocatePagesEffect
<1> HIDE DEF k
<1>3. f \in MemState /\ Fills(k, f)
  BY <1>2, PutBytesEffect
<1>4. Apart(k.v, start, len) =>
        \A i \in 1 .. len : f.mem[PhyAddr(k.v, start + i - 1)] = bytes[i]
  BY <1>2, PutBytesFills
<1>5. n.mem = f.mem /\ n.v.pgd = f.v.pgd
  <2> DEFINE v == [f.v EXCEPT !.vm_area =
                     Append(@, Area(name, start, SectionEnd(start, len), prot))]
  <2>1. n = [f EXCEPT !.v = v]
    BY <1>3 DEF AllocateSection, k, Area, MemState, VmType
  <2>2. v.pgd = f.v.pgd
    BY <1>3 DEF MemState, VmType
  <2> HIDE DEF f, v
  <2> QED
    BY <1>3, <2>1, <2>2 DEF MemState
<1> HIDE DEF f, n
<1>6. ASSUME NEW a \in start .. start + len - 1 PROVE PhyAddr(n.v, a) = PhyAddr(k.v, a)
  <2>1. PageOf(a) \in Pages
    BY <1>1, PagesAre, Sizes DEF Addr
  <2> QED
    BY <2>1, <1>3, <1>5 DEF PhyAddr, Fills, Kept, Frame
<1>7. Apart(n.v, start, len) => Apart(k.v, start, len)
  BY <1>6 DEF Apart
<1>8. ASSUME Apart(n.v, start, len), NEW i \in 1 .. len
      PROVE  n.mem[PhyAddr(n.v, start + i - 1)] = bytes[i]
  BY <1>1, <1>4, <1>5, <1>6, <1>7, <1>8
<1> QED
  BY <1>8 DEF Filled, n

\* What holds of every area of a process.
AreaOK(r) ==
    /\ r.start <= r.end
    /\ r.prot = "RONLY" <=> r.section_name = "text"
    /\ IF r.section_name = "cmd_args" THEN r.start = ArgsStart /\ r.end = ArgsEnd
       ELSE r.end <= ArgsStart
    /\ r.section_name = "text" => r.end < ArgsStart

\* The areas of a process: one of them, and only one, is that of the arguments.
AreasOK(v) ==
    /\ \A i \in DOMAIN v.vm_area : AreaOK(v.vm_area[i])
    /\ \E j \in DOMAIN v.vm_area : \A i \in DOMAIN v.vm_area :
         v.vm_area[i].section_name = "cmd_args" <=> i = j

\* What execve keeps of the areas.
LEMMA ArgsAreasOfNone == ArgsAreas(<<>>) = <<>>
BY DEF ArgsAreas

LEMMA ArgsAreasOfOne ==
    ASSUME NEW s \in Seq(AreaType), NEW j \in DOMAIN s,
           \A i \in DOMAIN s : s[i].section_name = "cmd_args" <=> i = j
    PROVE  ArgsAreas(s) = <<s[j]>>
<1> DEFINE args == {i \in DOMAIN s : s[i].section_name = "cmd_args"}
<1>1. args = {j} /\ j \in Nat
  OBVIOUS
<1>2. (CHOOSE i \in args : \A k \in args : i <= k) = j
  BY <1>1
<1> QED
  BY <1>1, <1>2 DEF ArgsAreas

LEMMA ZerosType ==
    ASSUME NEW n \in Nat
    PROVE  Zeros(n) \in Seq(Vals) /\ Len(Zeros(n)) = n
<1>1. Zeros(n) \in [1 .. n -> Vals]
  BY MemoryAssumption DEF Zeros
<1> QED
  BY <1>1

ImageType == [text : Seq(Vals), data : Seq(Vals), bss : Nat]

\* Where the data, the bss and what follows begin.
DataAt(image) == Len(image.text)
BssAt(image) == DataAt(image) + Len(image.data)
EndAt(image) == BssAt(image) + image.bss

\* A new VM, or one that was executed.
Base(v) == v.vm_area = <<>> \/ AreasOK(v)

ClearedOf(m) == [m EXCEPT !.v = Cleared(@)]

\* execve of an image brings m to n, with the VM after each section between.
Sections(m, image, text, data, bss, stack, n) ==
    /\ Section(ClearedOf(m), text, "text", 0, DataAt(image), "RONLY")
    /\ Section(text, data, "data", DataAt(image), Len(image.data), "RW")
    /\ Section(data, bss, "bss", BssAt(image), image.bss, "RW")
    /\ Section(bss, stack, "stack", StackStart, ArgsStart - StackStart, "RW")
    /\ Filled(text, 0, image.text)
    /\ Filled(data, DataAt(image), image.data)
    /\ Filled(bss, BssAt(image), Zeros(image.bss))
    /\ IF Cleared(m.v).vm_area # <<>> THEN n = stack
       ELSE Section(stack, n, "cmd_args", ArgsStart, ArgsEnd - ArgsStart, "RW")

\* free_page_pte and the areas that go.
LEMMA ClearedIs ==
    ASSUME NEW v \in VmType, Base(v)
    PROVE  /\ Cleared(v) \in VmType
           /\ Cleared(v).pgd = v.pgd
           /\ \A pg \in Pages :
                Cleared(v).pgd_valid[pg] =
                  IF v.pgd[pg] # NULL /\ pg < ArgsStart THEN "INVALID" ELSE v.pgd_valid[pg]
           /\ v.vm_area = <<>> => Cleared(v).vm_area = <<>>
           /\ v.vm_area # <<>> =>
                \E j \in DOMAIN v.vm_area :
                   /\ v.vm_area[j].section_name = "cmd_args"
                   /\ Cleared(v).vm_area = <<v.vm_area[j]>>
<1> DEFINE areas == ArgsAreas(v.vm_area)
           w == [pg \in Pages |-> IF v.pgd[pg] # NULL /\ (pg < ArgsStart \/ pg > ArgsEnd)
                                  THEN "INVALID" ELSE v.pgd_valid[pg]]
<1>1. /\ v.pgd \in [Pages -> (0 .. Frames - 1) \cup {NULL}]
      /\ v.pgd_valid \in [Pages -> {"INVALID", "RW", "RONLY"}]
      /\ v.vm_area \in Seq(AreaType)
  BY DEF VmType, AreaType, AreaNames
<1>2. v.vm_area = <<>> => areas = <<>>
  BY ArgsAreasOfNone
<1>3. v.vm_area # <<>> =>
        \E j \in DOMAIN v.vm_area :
          v.vm_area[j].section_name = "cmd_args" /\ areas = <<v.vm_area[j]>>
  BY <1>1, ArgsAreasOfOne DEF Base, AreasOK
<1>4. areas \in Seq(AreaType)
  <2>1. CASE v.vm_area = <<>>
    <3>1. areas = <<>>
      BY <2>1, <1>2
    <3> HIDE DEF areas
    <3> QED
      BY <3>1
  <2>2. CASE v.vm_area # <<>>
    <3>1. PICK j \in DOMAIN v.vm_area : areas = <<v.vm_area[j]>>
      BY <2>2, <1>3
    <3>2. v.vm_area[j] \in AreaType
      BY <1>1
    <3>3. areas = <<v.vm_area[j]>>
      BY <3>1
    <3> HIDE DEF areas, AreaType
    <3>4. <<v.vm_area[j]>> \in Seq(AreaType)
      BY <3>2
    <3> QED
      BY <3>3, <3>4
  <2> QED
    BY <2>1, <2>2
<1>5. Cleared(v) = [v EXCEPT !.vm_area = areas, !.pgd_valid = w]
  BY DEF Cleared, VmType
<1> HIDE DEF areas
<1>6. w \in [Pages -> {"INVALID", "RW", "RONLY"}]
  BY <1>1
<1>7. \A pg \in Pages :
        w[pg] = IF v.pgd[pg] # NULL /\ pg < ArgsStart THEN "INVALID" ELSE v.pgd_valid[pg]
  BY PagesAre, Sizes DEF Addr
<1> HIDE DEF w
<1>8. /\ Cleared(v) \in VmType
      /\ Cleared(v).pgd = v.pgd
      /\ Cleared(v).pgd_valid = w
      /\ Cleared(v).vm_area = areas
  BY <1>1, <1>4, <1>5, <1>6 DEF VmType, AreaType, AreaNames
<1> QED
  BY <1>2, <1>3, <1>7, <1>8

\* yexecve.
LEMMA ExecutedSections ==
    ASSUME NEW m \in MemState, Base(m.v), NEW image \in ImageType,
           EndAt(image) <= StackStart
    PROVE  \E text, data, bss, stack \in MemState :
              Sections(m, image, text, data, bss, stack, Executed(m, image))
<1>1. /\ image.text \in Seq(Vals) /\ image.data \in Seq(Vals) /\ image.bss \in Nat
      /\ DataAt(image) \in Nat /\ BssAt(image) \in Nat
      /\ DataAt(image) = Len(image.text)
      /\ BssAt(image) = DataAt(image) + Len(image.data)
      /\ 0 + Len(image.text) <= ArgsEnd
      /\ DataAt(image) + Len(image.data) <= ArgsEnd
      /\ BssAt(image) + image.bss <= ArgsEnd
  <2>1. /\ image.text \in Seq(Vals) /\ image.data \in Seq(Vals) /\ image.bss \in Nat
        /\ DataAt(image) = Len(image.text)
        /\ BssAt(image) = DataAt(image) + Len(image.data)
        /\ BssAt(image) + image.bss <= StackStart
    BY DEF ImageType, DataAt, BssAt, EndAt
  <2> DEFINE t == Len(image.text)
             d == Len(image.data)
             b == image.bss
             end == BssAt(image)
  <2>2. t \in Nat /\ d \in Nat /\ b \in Nat /\ end = t + d /\ end + b <= StackStart
    <3>1. t \in Nat /\ d \in Nat
      BY ONLY <2>1, LenProperties
    <3>2. b \in Nat
      BY ONLY <2>1
    <3>3. end = t + d /\ end + b <= StackStart
      BY ONLY <2>1
    <3> QED
      BY ONLY <3>1, <3>2, <3>3
  <2> HIDE DEF t, d, b, end
  <2>3. /\ end \in Nat /\ 0 + t <= ArgsEnd
        /\ t + d <= ArgsEnd /\ end + b <= ArgsEnd
    BY ONLY <2>2, Sizes
  <2> QED
    BY <2>1, <2>2, <2>3 DEF t, d, b, end
<1> DEFINE m0 == ClearedOf(m)
           text == AllocateSection(m0, "text", 0, image.text, "RONLY")
           data == AllocateSection(text, "data", DataAt(image), image.data, "RW")
           bss == AllocateSection(data, "bss", BssAt(image), Zeros(image.bss), "RW")
           stack == AllocateSection(bss, "stack", StackStart,
                                    Zeros(ArgsStart - StackStart), "RW")
           args == AllocateSection(stack, "cmd_args", ArgsStart,
                                   Zeros(ArgsEnd - ArgsStart), "RW")
<1>2. m0 \in MemState
  BY ClearedIs DEF ClearedOf, MemState
<1>3. Section(m0, text, "text", 0, DataAt(image), "RONLY") /\ Filled(text, 0, image.text)
  <2>2. "text" \in AreaNames /\ "RONLY" \in {"RONLY", "RW"} /\ 0 \in Nat
    BY DEF AreaNames
  <2> HIDE DEF m0
  <2>3. Section(m0, text, "text", 0, Len(image.text), "RONLY")
    BY <1>1, <1>2, <2>2, SectionEffect
  <2>4. Filled(text, 0, image.text)
    BY <1>1, <1>2, <2>2, SectionFilled
  <2> QED
    BY <2>3, <2>4, <1>1
<1>4. text \in MemState
  BY <1>3 DEF Section
<1> HIDE DEF text
<1>5. /\ Section(text, data, "data", DataAt(image), Len(image.data), "RW")
      /\ Filled(data, DataAt(image), image.data)
  <2>2. "data" \in AreaNames /\ "RW" \in {"RONLY", "RW"}
    BY DEF AreaNames
  <2> QED
    BY <1>1, <1>4, <2>2, SectionEffect, SectionFilled
<1>6. data \in MemState
  BY <1>5 DEF Section
<1> HIDE DEF data
<1>7. /\ Section(data, bss, "bss", BssAt(image), image.bss, "RW")
      /\ Filled(bss, BssAt(image), Zeros(image.bss))
  <2>1. Zeros(image.bss) \in Seq(Vals) /\ Len(Zeros(image.bss)) = image.bss
    BY <1>1, ZerosType
  <2>2. BssAt(image) + Len(Zeros(image.bss)) <= ArgsEnd
    BY <1>1, <2>1
  <2>3. "bss" \in AreaNames /\ "RW" \in {"RONLY", "RW"}
    BY DEF AreaNames
  <2>4. Section(data, bss, "bss", BssAt(image), Len(Zeros(image.bss)), "RW")
    BY <1>1, <1>6, <2>1, <2>2, <2>3, SectionEffect
  <2>5. Filled(bss, BssAt(image), Zeros(image.bss))
    BY <1>1, <1>6, <2>1, <2>2, <2>3, SectionFilled
  <2> QED
    BY <2>1, <2>4, <2>5
<1>8. bss \in MemState
  BY <1>7 DEF Section
<1> HIDE DEF bss
<1>9. Section(bss, stack, "stack", StackStart, ArgsStart - StackStart, "RW")
  <2> DEFINE n == ArgsStart - StackStart
  <2>1. n \in Nat /\ StackStart + n <= ArgsEnd
    BY Sizes
  <2>2. Zeros(n) \in Seq(Vals) /\ Len(Zeros(n)) = n
    BY <2>1, ZerosType
  <2> QED
    BY <1>8, <2>1, <2>2, SectionEffect, Sizes DEF AreaNames
<1>10. stack \in MemState
  BY <1>9 DEF Section
<1> HIDE DEF stack
<1>11. Section(stack, args, "cmd_args", ArgsStart, ArgsEnd - ArgsStart, "RW")
  <2> DEFINE n == ArgsEnd - ArgsStart
  <2>1. n \in Nat /\ ArgsStart + n <= ArgsEnd
    BY Sizes
  <2>2. Zeros(n) \in Seq(Vals) /\ Len(Zeros(n)) = n
    BY <2>1, ZerosType
  <2> QED
    BY <1>10, <2>1, <2>2, SectionEffect, Sizes DEF AreaNames
<1> HIDE DEF args
<1>12. m0 = [m EXCEPT !.v = Cleared(m.v)]
  BY DEF ClearedOf, MemState
<1>13. Executed(m, image) = IF Cleared(m.v).vm_area # <<>> THEN stack ELSE args
  BY <1>12 DEF Executed, text, data, bss, stack, args, DataAt, BssAt
<1> HIDE DEF m0
<1>14. Sections(m, image, text, data, bss, stack, Executed(m, image))
  BY <1>3, <1>5, <1>7, <1>9, <1>11, <1>13 DEF Sections, m0
<1> QED
  BY <1>4, <1>6, <1>8, <1>10, <1>14

\* The areas of an image, where the arguments are new and where they are kept.
TextArea(image) == Area("text", 0, DataAt(image), "RONLY")

DataArea(image) == Area("data", DataAt(image), BssAt(image), "RW")

BssArea(image) == Area("bss", BssAt(image), EndAt(image), "RW")

StackArea == Area("stack", StackStart, ArgsStart, "RW")

ArgsArea == Area("cmd_args", ArgsStart, ArgsEnd, "RW")

NewAreas(s, image) ==
    /\ DOMAIN s = 1 .. 5
    /\ s[1] = TextArea(image) /\ s[2] = DataArea(image) /\ s[3] = BssArea(image)
    /\ s[4] = StackArea /\ s[5] = ArgsArea

KeptAreas(s, image, r) ==
    /\ DOMAIN s = 1 .. 5
    /\ s[1] = r
    /\ s[2] = TextArea(image) /\ s[3] = DataArea(image) /\ s[4] = BssArea(image)
    /\ s[5] = StackArea

\* t has one element more than s, which has n.
Longer(s, t, n, e) ==
    DOMAIN s = 1 .. n =>
        /\ DOMAIN t = 1 .. n + 1
        /\ t[n + 1] = e
        /\ \A i \in 1 .. n : t[i] = s[i]

LEMMA Appended ==
    ASSUME NEW S, NEW s \in Seq(S), NEW e \in S
    PROVE  \A n \in Nat : Longer(s, Append(s, e), n, e)
<1> SUFFICES ASSUME NEW n \in Nat, DOMAIN s = 1 .. n
             PROVE  /\ DOMAIN Append(s, e) = 1 .. n + 1
                    /\ Append(s, e)[n + 1] = e
                    /\ \A i \in 1 .. n : Append(s, e)[i] = s[i]
  BY DEF Longer
<1>1. Len(s) = n
  BY LenProperties
<1>2. Append(s, e) \in Seq(S) /\ Len(Append(s, e)) = n + 1
  BY <1>1, AppendProperties
<1> QED
  BY <1>1, <1>2, AppendProperties, LenProperties

\* A section with its first byte at the start of a page has all its pages allocated.
Covers(start, len, pg) ==
    start % PageSize = 0 /\ start <= pg /\ pg < start + len

Covered(image, pg) ==
    \/ Covers(0, DataAt(image), pg)
    \/ Covers(DataAt(image), Len(image.data), pg)
    \/ Covers(BssAt(image), image.bss, pg)

\* s0 becomes s4 as the elements t, d, b and s are appended.
InTurn(S, s0, s1, s2, s3, s4, t, d, b, s) ==
    /\ t \in S /\ d \in S /\ b \in S /\ s \in S
    /\ s0 \in Seq(S) /\ s1 \in Seq(S) /\ s2 \in Seq(S) /\ s3 \in Seq(S) /\ s4 \in Seq(S)
    /\ s1 = Append(s0, t) /\ s2 = Append(s1, d)
    /\ s3 = Append(s2, b) /\ s4 = Append(s3, s)

Behind(s0, s4, s5, t, d, b, s, a) ==
    /\ s0 = <<>> =>
         /\ DOMAIN s5 = 1 .. 5
         /\ s5[1] = t /\ s5[2] = d /\ s5[3] = b /\ s5[4] = s /\ s5[5] = a
    /\ \A r : s0 = <<r>> =>
         /\ DOMAIN s4 = 1 .. 5
         /\ s4[1] = r /\ s4[2] = t /\ s4[3] = d /\ s4[4] = b /\ s4[5] = s

\* Four elements one after the other behind none or one, and a fifth.
LEMMA AppendedInTurn ==
    ASSUME NEW S, NEW t, NEW d, NEW b, NEW s, NEW a \in S,
           NEW s0, NEW s1, NEW s2, NEW s3, NEW s4,
           InTurn(S, s0, s1, s2, s3, s4, t, d, b, s)
    PROVE  Behind(s0, s4, Append(s4, a), t, d, b, s, a)
<1> USE DEF InTurn
<1>1. \A n \in Nat : Longer(s0, s1, n, t)
  BY Appended
<1>2. \A n \in Nat : Longer(s1, s2, n, d)
  BY Appended
<1>3. \A n \in Nat : Longer(s2, s3, n, b)
  BY Appended
<1>4. \A n \in Nat : Longer(s3, s4, n, s)
  BY Appended
<1>5. ASSUME s0 = <<>>
      PROVE  /\ DOMAIN Append(s4, a) = 1 .. 5
             /\ Append(s4, a)[1] = t /\ Append(s4, a)[2] = d /\ Append(s4, a)[3] = b
             /\ Append(s4, a)[4] = s /\ Append(s4, a)[5] = a
  <2>1. DOMAIN s0 = 1 .. 0
    BY <1>5
  <2> DEFINE s5 == Append(s4, a)
  <2>2. \A n \in Nat : Longer(s4, s5, n, a)
    BY Appended
  <2> HIDE DEF s5
  <2>3. Longer(s0, s1, 0, t)
    BY <1>1
  <2>4. DOMAIN s1 = 1 .. 1 /\ s1[1] = t
    BY ONLY <2>1, <2>3 DEF Longer
  <2>5. Longer(s1, s2, 1, d)
    BY <1>2
  <2>6. DOMAIN s2 = 1 .. 2 /\ s2[1] = t /\ s2[2] = d
    BY ONLY <2>4, <2>5 DEF Longer
  <2>7. Longer(s2, s3, 2, b)
    BY <1>3
  <2>8. DOMAIN s3 = 1 .. 3 /\ s3[1] = t /\ s3[2] = d /\ s3[3] = b
    BY ONLY <2>6, <2>7 DEF Longer
  <2>9. Longer(s3, s4, 3, s)
    BY <1>4
  <2>10. DOMAIN s4 = 1 .. 4 /\ s4[1] = t /\ s4[2] = d /\ s4[3] = b /\ s4[4] = s
    BY ONLY <2>8, <2>9 DEF Longer
  <2>11. Longer(s4, s5, 4, a)
    BY <2>2
  <2>12. /\ DOMAIN s5 = 1 .. 5
         /\ s5[1] = t /\ s5[2] = d /\ s5[3] = b /\ s5[4] = s /\ s5[5] = a
    BY ONLY <2>10, <2>11 DEF Longer
  <2> QED
    BY <2>12 DEF s5
<1>6. ASSUME NEW r, s0 = <<r>>
      PROVE  /\ DOMAIN s4 = 1 .. 5
             /\ s4[1] = r /\ s4[2] = t /\ s4[3] = d /\ s4[4] = b /\ s4[5] = s
  <2>1. DOMAIN s0 = 1 .. 1 /\ s0[1] = r
    BY <1>6
  <2>2. Longer(s0, s1, 1, t)
    BY <1>1
  <2>3. DOMAIN s1 = 1 .. 2 /\ s1[1] = r /\ s1[2] = t
    BY ONLY <2>1, <2>2 DEF Longer
  <2>4. Longer(s1, s2, 2, d)
    BY <1>2
  <2>5. DOMAIN s2 = 1 .. 3 /\ s2[1] = r /\ s2[2] = t /\ s2[3] = d
    BY ONLY <2>3, <2>4 DEF Longer
  <2>6. Longer(s2, s3, 3, b)
    BY <1>3
  <2>7. DOMAIN s3 = 1 .. 4 /\ s3[1] = r /\ s3[2] = t /\ s3[3] = d /\ s3[4] = b
    BY ONLY <2>5, <2>6 DEF Longer
  <2>8. Longer(s3, s4, 4, s)
    BY <1>4
  <2> QED
    BY ONLY <2>7, <2>8 DEF Longer
<1> QED
  BY <1>5, <1>6 DEF Behind

LEMMA SectionGrows ==
    ASSUME NEW m, NEW n, NEW k, NEW name, NEW start, NEW len, NEW prot,
           n \in MemState, Grows(m, n), Section(n, k, name, start, len, prot)
    PROVE  /\ k \in MemState
           /\ Grows(m, k)
           /\ \A pg \in Pages : Valid(n.v, pg) => Valid(k.v, pg)
           /\ \A pg \in Pages : Covers(start, len, pg) => Valid(k.v, pg)
<1>1. k \in MemState /\ Grows(n, k)
  BY DEF Section
<1>2. Grows(m, k)
  BY <1>1, GrowsTransitive
<1>3. \A pg \in Pages : Covers(start, len, pg) => Valid(k.v, pg)
  BY DEF Section, Covers
<1> QED
  BY <1>1, <1>2, <1>3, GrowsValid

\* The places of the sections.
LEMMA ImagePlaces ==
    ASSUME NEW image \in ImageType, EndAt(image) <= StackStart
    PROVE  /\ DataAt(image) \in Nat /\ BssAt(image) \in Nat /\ EndAt(image) \in Nat
           /\ DataAt(image) <= BssAt(image) /\ BssAt(image) <= EndAt(image)
           /\ 0 + DataAt(image) = DataAt(image)
           /\ DataAt(image) + Len(image.data) = BssAt(image)
           /\ BssAt(image) + image.bss = EndAt(image)
           /\ StackStart + (ArgsStart - StackStart) = ArgsStart
           /\ ArgsStart + (ArgsEnd - ArgsStart) = ArgsEnd
<1> DEFINE t == Len(image.text)
           d == Len(image.data)
           b == image.bss
<1>1. t \in Nat /\ d \in Nat /\ b \in Nat
  <2>1. image.text \in Seq(Vals) /\ image.data \in Seq(Vals) /\ image.bss \in Nat
    BY DEF ImageType
  <2> QED
    BY <2>1, LenProperties
<1>2. DataAt(image) = t /\ BssAt(image) = t + d /\ EndAt(image) = t + d + b
  BY DEF DataAt, BssAt, EndAt
<1> HIDE DEF t, d, b
<1>3. BssAt(image) + b = EndAt(image)
  BY DEF EndAt, b
<1>4. DataAt(image) + d = BssAt(image)
  BY DEF BssAt, d
<1> QED
  BY <1>1, <1>2, <1>3, <1>4, Sizes DEF d, b

\* What yexecve makes of a VM: only the pages of its sections are allocated, and
\* its areas are those of the image and the arguments.
LEMMA ExecutedEffect ==
    ASSUME NEW m \in MemState, Base(m.v), NEW image \in ImageType,
           EndAt(image) <= StackStart
    PROVE  LET n == Executed(m, image) IN
           /\ n \in MemState
           /\ Grows(ClearedOf(m), n)
           /\ m.v.vm_area = <<>> => NewAreas(n.v.vm_area, image)
           /\ m.v.vm_area # <<>> =>
                \E j \in DOMAIN m.v.vm_area :
                   /\ m.v.vm_area[j].section_name = "cmd_args"
                   /\ KeptAreas(n.v.vm_area, image, m.v.vm_area[j])
           /\ \A pg \in Pages : Covered(image, pg) => Valid(n.v, pg)
           /\ \A pg \in Pages : StackStart <= pg /\ pg < ArgsStart => Valid(n.v, pg)
           /\ m.v.vm_area = <<>> =>
                \A pg \in Pages : ArgsStart <= pg /\ pg < ArgsEnd => Valid(n.v, pg)
<1> DEFINE n == Executed(m, image)
           m0 == ClearedOf(m)
<1>1. PICK text, data, bss, stack \in MemState :
         Sections(m, image, text, data, bss, stack, n)
  BY ExecutedSections
<1> HIDE DEF n
<1>2. m0 \in MemState /\ m0.v = Cleared(m.v) /\ Grows(m0, m0)
  BY ClearedIs, GrowsReflexive DEF ClearedOf, MemState
<1> HIDE DEF m0
<1>3. /\ Section(m0, text, "text", 0, DataAt(image), "RONLY")
      /\ Section(text, data, "data", DataAt(image), Len(image.data), "RW")
      /\ Section(data, bss, "bss", BssAt(image), image.bss, "RW")
      /\ Section(bss, stack, "stack", StackStart, ArgsStart - StackStart, "RW")
      /\ Cleared(m.v).vm_area # <<>> => n = stack
      /\ Cleared(m.v).vm_area = <<>> =>
           Section(stack, n, "cmd_args", ArgsStart, ArgsEnd - ArgsStart, "RW")
  BY <1>1 DEF Sections, m0
<1>4. /\ Grows(m0, text)
      /\ \A pg \in Pages : Covers(0, DataAt(image), pg) => Valid(text.v, pg)
  BY <1>2, <1>3, SectionGrows
<1>5. /\ Grows(m0, data)
      /\ \A pg \in Pages : Valid(text.v, pg) => Valid(data.v, pg)
      /\ \A pg \in Pages : Covers(DataAt(image), Len(image.data), pg) => Valid(data.v, pg)
  BY <1>3, <1>4, SectionGrows
<1>6. /\ Grows(m0, bss)
      /\ \A pg \in Pages : Valid(data.v, pg) => Valid(bss.v, pg)
      /\ \A pg \in Pages : Covers(BssAt(image), image.bss, pg) => Valid(bss.v, pg)
  BY <1>3, <1>5, SectionGrows
<1>7. /\ Grows(m0, stack)
      /\ \A pg \in Pages : Valid(bss.v, pg) => Valid(stack.v, pg)
      /\ \A pg \in Pages :
           Covers(StackStart, ArgsStart - StackStart, pg) => Valid(stack.v, pg)
  BY <1>3, <1>6, SectionGrows
<1>8. /\ Grows(m0, n) /\ n \in MemState
      /\ \A pg \in Pages : Valid(stack.v, pg) => Valid(n.v, pg)
      /\ Cleared(m.v).vm_area = <<>> =>
           \A pg \in Pages : Covers(ArgsStart, ArgsEnd - ArgsStart, pg) => Valid(n.v, pg)
  <2>1. CASE Cleared(m.v).vm_area = <<>>
    BY <1>3, <1>7, <2>1, SectionGrows
  <2>2. CASE Cleared(m.v).vm_area # <<>>
    BY <1>3, <1>7, <2>2
  <2> QED
    BY <2>1, <2>2
<1>9. \A pg \in Pages : Covered(image, pg) => Valid(n.v, pg)
  BY <1>4, <1>5, <1>6, <1>7, <1>8 DEF Covered
<1>10. \A pg \in Pages : StackStart <= pg /\ pg < ArgsStart => Valid(n.v, pg)
  BY <1>7, <1>8, ImagePlaces, Sizes DEF Covers
<1>11. m.v.vm_area = <<>> =>
         \A pg \in Pages : ArgsStart <= pg /\ pg < ArgsEnd => Valid(n.v, pg)
  BY <1>8, ClearedIs, ImagePlaces, Sizes DEF Covers, MemState
<1>12. /\ text.v.vm_area = Append(Cleared(m.v).vm_area, TextArea(image))
       /\ data.v.vm_area = Append(text.v.vm_area, DataArea(image))
       /\ bss.v.vm_area = Append(data.v.vm_area, BssArea(image))
       /\ stack.v.vm_area = Append(bss.v.vm_area, StackArea)
       /\ Cleared(m.v).vm_area = <<>> => n.v.vm_area = Append(stack.v.vm_area, ArgsArea)
  BY <1>2, <1>3, ImagePlaces DEF Section, TextArea, DataArea, BssArea, StackArea, ArgsArea
<1>13. /\ Cleared(m.v).vm_area \in Seq(AreaType)
       /\ text.v.vm_area \in Seq(AreaType)
       /\ data.v.vm_area \in Seq(AreaType)
       /\ bss.v.vm_area \in Seq(AreaType)
       /\ stack.v.vm_area \in Seq(AreaType)
       /\ n.v.vm_area \in Seq(AreaType)
  BY <1>2, <1>8 DEF MemState, VmType, AreaType, AreaNames
<1>14. /\ TextArea(image) \in AreaType /\ DataArea(image) \in AreaType
       /\ BssArea(image) \in AreaType /\ StackArea \in AreaType /\ ArgsArea \in AreaType
  BY ImagePlaces, Sizes DEF TextArea, DataArea, BssArea, StackArea, ArgsArea, Area,
    AreaType, AreaNames, Addr
<1> DEFINE A == AreaType
           s0 == Cleared(m.v).vm_area
           s1 == text.v.vm_area
           s2 == data.v.vm_area
           s3 == bss.v.vm_area
           s4 == stack.v.vm_area
<1>15. /\ s0 \in Seq(A) /\ s1 \in Seq(A) /\ s2 \in Seq(A) /\ s3 \in Seq(A) /\ s4 \in Seq(A)
       /\ s1 = Append(s0, TextArea(image))
       /\ s2 = Append(s1, DataArea(image))
       /\ s3 = Append(s2, BssArea(image))
       /\ s4 = Append(s3, StackArea)
  BY <1>12, <1>13
<1>16. /\ TextArea(image) \in A /\ DataArea(image) \in A /\ BssArea(image) \in A
       /\ StackArea \in A /\ ArgsArea \in A
  BY <1>14
<1>17. /\ s0 = <<>> => n.v.vm_area = Append(s4, ArgsArea)
       /\ s0 # <<>> => n.v.vm_area = s4
  BY <1>3, <1>12
<1> HIDE DEF s0, s1, s2, s3, s4, A
<1>18. /\ s0 = <<>> => NewAreas(Append(s4, ArgsArea), image)
       /\ \A r : s0 = <<r>> => KeptAreas(s4, image, r)
  <2>1. InTurn(A, s0, s1, s2, s3, s4,
               TextArea(image), DataArea(image), BssArea(image), StackArea)
    BY <1>15, <1>16 DEF InTurn
  <2>2. Behind(s0, s4, Append(s4, ArgsArea),
               TextArea(image), DataArea(image), BssArea(image), StackArea, ArgsArea)
    BY <1>16, <2>1, AppendedInTurn
  <2> QED
    BY <2>2 DEF Behind, NewAreas, KeptAreas
<1>19. m.v.vm_area = <<>> => NewAreas(n.v.vm_area, image)
  <2>1. m.v.vm_area = <<>> => s0 = <<>>
    BY ClearedIs DEF MemState, s0
  <2> QED
    BY <1>17, <1>18, <2>1
<1>20. m.v.vm_area # <<>> =>
         \E j \in DOMAIN m.v.vm_area :
            /\ m.v.vm_area[j].section_name = "cmd_args"
            /\ KeptAreas(n.v.vm_area, image, m.v.vm_area[j])
  <2> SUFFICES ASSUME m.v.vm_area # <<>>
               PROVE  \E j \in DOMAIN m.v.vm_area :
                        /\ m.v.vm_area[j].section_name = "cmd_args"
                        /\ KeptAreas(n.v.vm_area, image, m.v.vm_area[j])
    OBVIOUS
  <2>1. PICK j \in DOMAIN m.v.vm_area :
          /\ m.v.vm_area[j].section_name = "cmd_args"
          /\ s0 = <<m.v.vm_area[j]>>
    BY ClearedIs DEF MemState, s0
  <2> DEFINE r == m.v.vm_area[j]
  <2>2. s0 = <<r>>
    BY <2>1
  <2> HIDE DEF r
  <2>3. s0 # <<>>
    BY <2>2
  <2>4. KeptAreas(n.v.vm_area, image, r)
    BY <1>17, <1>18, <2>2, <2>3
  <2> QED
    BY <2>1, <2>4 DEF r
<1> QED
  BY <1>8, <1>9, <1>10, <1>11, <1>19, <1>20 DEF n, m0

-----------------------------------------------------------------------------
(* Types, areas and the pages handed out.                                  *)

\* Every page of a process, valid or not, is a page handed out.
MappedOK ==
    /\ 0 \in allocated_page
    /\ \A p \in Live : \A pg \in Pages : Frame(vm[p], pg) \in allocated_page

StoreOK == \A p \in Pids : store[p] # NULL => p \in Live

\* The inductive invariant for the types and for MappedAllocated.
VmInv ==
    /\ TypeOK
    /\ StoreOK
    /\ \A p \in Live : AreasOK(vm[p])
    /\ MappedOK

\* A program that ends below the stack.
Fits(image) == image \in ImageType /\ EndAt(image) <= StackStart

LEMMA ImagesOK ==
    ASSUME NEW image \in Images
    PROVE  Fits(image) /\ image \in ImageType /\ EndAt(image) <= StackStart
BY ImagesAssumption DEF Fits, ImageType, EndAt, BssAt, DataAt

LEMMA LiveTypes ==
    ASSUME TypeOK, NEW p \in Live
    PROVE  p \in Pids /\ vm[p] \in VmType /\ vm[p] # NULL
BY DEF TypeOK, Live

\* After an execve there is one area of arguments.
LEMMA ExecutedAreas ==
    ASSUME NEW m \in MemState, Base(m.v), NEW image \in ImageType,
           EndAt(image) <= StackStart
    PROVE  AreasOK(Executed(m, image).v)
<1> DEFINE n == Executed(m, image)
           s == n.v.vm_area
<1>1. /\ AreaOK(TextArea(image)) /\ TextArea(image).section_name = "text"
      /\ AreaOK(DataArea(image)) /\ DataArea(image).section_name = "data"
      /\ AreaOK(BssArea(image)) /\ BssArea(image).section_name = "bss"
      /\ AreaOK(StackArea) /\ StackArea.section_name = "stack"
      /\ AreaOK(ArgsArea) /\ ArgsArea.section_name = "cmd_args"
  BY ImagePlaces, Sizes
  DEF TextArea, DataArea, BssArea, StackArea, ArgsArea, Area, AreaOK
<1>2. CASE m.v.vm_area = <<>>
  <2>1. NewAreas(s, image)
    BY <1>2, ExecutedEffect
  <2> HIDE DEF s
  <2>2. /\ \A i \in DOMAIN s : AreaOK(s[i])
        /\ 5 \in DOMAIN s
        /\ \A i \in DOMAIN s : s[i].section_name = "cmd_args" <=> i = 5
    BY <1>1, <2>1 DEF NewAreas
  <2> QED
    BY <2>2 DEF AreasOK, s
<1>3. CASE m.v.vm_area # <<>>
  <2>1. PICK j \in DOMAIN m.v.vm_area :
          /\ m.v.vm_area[j].section_name = "cmd_args"
          /\ KeptAreas(s, image, m.v.vm_area[j])
    BY <1>3, ExecutedEffect
  <2> DEFINE r == m.v.vm_area[j]
  <2>2. AreaOK(r) /\ r.section_name = "cmd_args" /\ KeptAreas(s, image, r)
    BY <1>3, <2>1 DEF Base, AreasOK
  <2> HIDE DEF s, r
  <2>3. /\ \A i \in DOMAIN s : AreaOK(s[i])
        /\ 1 \in DOMAIN s
        /\ \A i \in DOMAIN s : s[i].section_name = "cmd_args" <=> i = 1
    BY <1>1, <2>2 DEF KeptAreas
  <2> QED
    BY <2>3 DEF AreasOK, s
<1> QED
  BY <1>2, <1>3

\* After an execve every page of the VM is one handed out.
LEMMA ExecutedMapped ==
    ASSUME NEW m \in MemState, Base(m.v), NEW image \in ImageType,
           EndAt(image) <= StackStart,
           0 \in m.used \/ m.used = {},
           m.used # {} => \A pg \in Pages : Frame(m.v, pg) \in m.used,
           m.used = {} => \A pg \in Pages : Frame(m.v, pg) = 0 /\ ~ Valid(m.v, pg)
    PROVE  LET n == Executed(m, image) IN
           /\ m.used \subseteq n.used
           /\ 0 \in n.used
           /\ \A pg \in Pages : Frame(n.v, pg) \in n.used
<1> DEFINE n == Executed(m, image)
           m0 == ClearedOf(m)
<1>1. n \in MemState /\ Grows(m0, n)
  BY ExecutedEffect
<1>2. \A pg \in Pages : StackStart <= pg /\ pg < ArgsStart => Valid(n.v, pg)
  BY ExecutedEffect
<1> HIDE DEF n
<1>3. m0.used = m.used /\ m0.v = Cleared(m.v)
  BY DEF ClearedOf, MemState
<1>4. /\ m0.v.pgd = m.v.pgd
      /\ \A pg \in Pages : Frame(m0.v, pg) = Frame(m.v, pg)
      /\ \A pg \in Pages : Valid(m0.v, pg) => Valid(m.v, pg)
  BY <1>3, ClearedIs DEF MemState, Frame, Valid
<1> HIDE DEF m0
<1>5. n.v.pgd \in [Pages -> AllFrames \cup {NULL}] /\ 0 \in AllFrames
  BY <1>1, Sizes DEF MemState, VmType, AllFrames
<1>6. \A pg \in Pages : New(m0, n, pg) => Frame(n.v, pg) \in n.used
  BY <1>1, <1>3, NullAssumption, Sizes DEF Grows, Frame, MemState, AllFrames
<1>7. \A pg \in Pages : ~ New(m0, n, pg) => Frame(n.v, pg) = Frame(m.v, pg)
  BY <1>1, <1>4 DEF Grows, Kept
<1>8. m.used \subseteq n.used /\ (0 \in n.used \/ n.used = {})
  BY <1>1, <1>3 DEF Grows
<1>9. 0 \in n.used
  <2> SUFFICES ASSUME n.used = {}
               PROVE  FALSE
    BY <1>8
  <2>1. m.used = {}
    BY <1>8
  <2>2. StackStart \in Pages
    BY Sizes, PagesAre DEF Addr
  <2>3. Valid(n.v, StackStart)
    BY <1>2, <2>2, Sizes
  <2>4. ~ New(m0, n, StackStart)
    BY <1>6, <2>2
  <2>5. ~ Valid(m.v, StackStart)
    BY <2>1, <2>2
  <2> QED
    BY <1>4, <2>2, <2>3, <2>4, <2>5 DEF New
<1> QED
  BY <1>6, <1>7, <1>8, <1>9 DEF n

\* The two loops of yfork: all that is RW becomes copy-on-write.
LEMMA ProtectedEffect ==
    ASSUME NEW v \in VmType
    PROVE  LET w == Protected(v) IN
           /\ w \in VmType
           /\ w.pgd = v.pgd
           /\ DOMAIN w.vm_area = DOMAIN v.vm_area
           /\ \A i \in DOMAIN v.vm_area :
                /\ w.vm_area[i].section_name = v.vm_area[i].section_name
                /\ w.vm_area[i].start = v.vm_area[i].start
                /\ w.vm_area[i].end = v.vm_area[i].end
                /\ w.vm_area[i].prot = IF v.vm_area[i].prot = "RW" THEN "COPY_ON_WRITE"
                                       ELSE v.vm_area[i].prot
           /\ \A pg \in Pages :
                w.pgd_valid[pg] =
                  IF \E i \in DOMAIN v.vm_area :
                       /\ v.vm_area[i].prot = "RW"
                       /\ PageOf(v.vm_area[i].start) <= pg
                       /\ pg <= PageOf(v.vm_area[i].end)
                  THEN "RONLY" ELSE v.pgd_valid[pg]
<1> DEFINE w == Protected(v)
           rw == {i \in DOMAIN v.vm_area : v.vm_area[i].prot = "RW"}
           areas == [i \in DOMAIN v.vm_area |->
                       IF i \in rw THEN [v.vm_area[i] EXCEPT !.prot = "COPY_ON_WRITE"]
                       ELSE v.vm_area[i]]
           valid == [pg \in Pages |->
                       IF \E i \in rw : /\ PageOf(v.vm_area[i].start) <= pg
                                        /\ pg <= PageOf(v.vm_area[i].end)
                       THEN "RONLY" ELSE v.pgd_valid[pg]]
<1>1. /\ v.pgd_valid \in [Pages -> {"INVALID", "RW", "RONLY"}]
      /\ v.vm_area \in Seq(AreaType)
      /\ v = [pgd |-> v.pgd, pgd_valid |-> v.pgd_valid, vm_area |-> v.vm_area]
  BY DEF VmType, AreaType, AreaNames
<1>2. w = [v EXCEPT !.vm_area = areas, !.pgd_valid = valid]
  BY <1>1 DEF Protected
<1>3. \A i \in DOMAIN v.vm_area :
        /\ areas[i] \in AreaType
        /\ areas[i].section_name = v.vm_area[i].section_name
        /\ areas[i].start = v.vm_area[i].start
        /\ areas[i].end = v.vm_area[i].end
        /\ areas[i].prot = IF v.vm_area[i].prot = "RW" THEN "COPY_ON_WRITE"
                           ELSE v.vm_area[i].prot
  <2> SUFFICES ASSUME NEW i \in DOMAIN v.vm_area
               PROVE  /\ areas[i] \in AreaType
                      /\ areas[i].section_name = v.vm_area[i].section_name
                      /\ areas[i].start = v.vm_area[i].start
                      /\ areas[i].end = v.vm_area[i].end
                      /\ areas[i].prot = IF v.vm_area[i].prot = "RW"
                                         THEN "COPY_ON_WRITE" ELSE v.vm_area[i].prot
    OBVIOUS
  <2>1. v.vm_area[i] \in AreaType
    BY <1>1
  <2>2. areas[i] = IF v.vm_area[i].prot = "RW"
                   THEN [v.vm_area[i] EXCEPT !.prot = "COPY_ON_WRITE"] ELSE v.vm_area[i]
    OBVIOUS
  <2> HIDE DEF areas
  <2> QED
    BY <2>1, <2>2 DEF AreaType
<1>4. areas \in Seq(AreaType) /\ DOMAIN areas = DOMAIN v.vm_area
  <2>1. DOMAIN areas = 1 .. Len(v.vm_area) /\ Len(v.vm_area) \in Nat
    BY <1>1, LenProperties
  <2>2. areas \in [1 .. Len(v.vm_area) -> AreaType]
    BY <1>3, <2>1
  <2> HIDE DEF areas
  <2> QED
    BY <2>1, <2>2, <1>1, LenProperties
<1>5. valid \in [Pages -> {"INVALID", "RW", "RONLY"}]
  BY <1>1
<1>6. \A pg \in Pages :
        valid[pg] = IF \E i \in DOMAIN v.vm_area :
                         /\ v.vm_area[i].prot = "RW"
                         /\ PageOf(v.vm_area[i].start) <= pg
                         /\ pg <= PageOf(v.vm_area[i].end)
                    THEN "RONLY" ELSE v.pgd_valid[pg]
  OBVIOUS
<1> HIDE DEF w, areas, valid
<1>7. w = [pgd |-> v.pgd, pgd_valid |-> valid, vm_area |-> areas]
  BY <1>1, <1>2
<1>8. w \in VmType /\ w.pgd = v.pgd /\ w.vm_area = areas /\ w.pgd_valid = valid
  BY <1>4, <1>5, <1>7 DEF VmType, AreaType, AreaNames
<1> QED
  BY <1>3, <1>4, <1>6, <1>8 DEF w

LEMMA ProtectedAreas ==
    ASSUME NEW v \in VmType, AreasOK(v)
    PROVE  AreasOK(Protected(v)) /\ \A pg \in Pages : Frame(Protected(v), pg) = Frame(v, pg)
<1> DEFINE w == Protected(v)
<1>1. /\ w.pgd = v.pgd
      /\ DOMAIN w.vm_area = DOMAIN v.vm_area
      /\ \A i \in DOMAIN v.vm_area :
           /\ w.vm_area[i].section_name = v.vm_area[i].section_name
           /\ w.vm_area[i].start = v.vm_area[i].start
           /\ w.vm_area[i].end = v.vm_area[i].end
           /\ w.vm_area[i].prot = IF v.vm_area[i].prot = "RW" THEN "COPY_ON_WRITE"
                                  ELSE v.vm_area[i].prot
  BY ProtectedEffect
<1> HIDE DEF w
<1>2. \A i \in DOMAIN w.vm_area : AreaOK(w.vm_area[i])
  BY <1>1 DEF AreasOK, AreaOK
<1>3. \E j \in DOMAIN w.vm_area : \A i \in DOMAIN w.vm_area :
         w.vm_area[i].section_name = "cmd_args" <=> i = j
  BY <1>1 DEF AreasOK
<1> QED
  BY <1>1, <1>2, <1>3 DEF AreasOK, Frame, w

\* The state of Kernel::init.
LEMMA InitVmInv == Init => VmInv
<1> SUFFICES ASSUME Init
             PROVE  VmInv
  OBVIOUS
<1> DEFINE z == [v |-> BlankVm, mem |-> [x \in Phys |-> 0], used |-> {}]
           n == Executed(z, Boot)
<1>1. BlankVm \in VmType /\ BlankVm.vm_area = <<>>
  BY DEF VmType, BlankVm
<1>2. z \in MemState /\ z.v.vm_area = <<>> /\ Base(z.v)
  BY <1>1, MemoryAssumption DEF MemState, Base
<1>3. \A pg \in Pages : Frame(z.v, pg) = 0 /\ ~ Valid(z.v, pg)
  BY DEF BlankVm, Frame, Valid
<1>4. z.used = {}
  OBVIOUS
<1>5. /\ vm = [p \in Pids |-> IF p = 1 THEN n.v ELSE NULL]
      /\ mem = n.mem
      /\ allocated_page = n.used
      /\ store = [p \in Pids |-> NULL]
  BY DEF Init
<1> HIDE DEF z
<1>6. Boot \in ImageType /\ EndAt(Boot) <= StackStart
  BY MemoryAssumption, ImagesOK
<1>7. n \in MemState
  BY <1>2, <1>6, ExecutedEffect
<1>8. AreasOK(n.v)
  BY <1>2, <1>6, ExecutedAreas
<1>9. 0 \in n.used /\ \A pg \in Pages : Frame(n.v, pg) \in n.used
  BY <1>2, <1>3, <1>4, <1>6, ExecutedMapped
<1> HIDE DEF n
<1>10. n.v \in VmType /\ n.mem \in [Phys -> Vals] /\ n.used \subseteq AllFrames
  BY <1>7 DEF MemState
<1>11. \A p \in Live : vm[p] = n.v
  BY <1>5, NullAssumption DEF Live
<1>12. TypeOK
  BY <1>5, <1>10 DEF TypeOK, AllFrames
<1>13. StoreOK
  BY <1>5 DEF StoreOK
<1>14. MappedOK
  BY <1>5, <1>9, <1>11 DEF MappedOK
<1> QED
  BY <1>8, <1>11, <1>12, <1>13, <1>14 DEF VmInv

\* One process has a new VM, no page is given back.
LEMMA OneVmChanges ==
    ASSUME VmInv, NEW p \in Live, NEW w \in VmType,
           vm' = [vm EXCEPT ![p] = w],
           allocated_page \subseteq allocated_page',
           allocated_page' \subseteq AllFrames,
           mem' \in [Phys -> Vals],
           store' \in [Pids -> StoreType \cup {NULL}],
           \A q \in Pids : store[q] = NULL => store'[q] = NULL \/ q = p,
           AreasOK(w),
           \A pg \in Pages : Frame(w, pg) \in allocated_page'
    PROVE  VmInv'
<1>1. p \in Pids /\ vm \in [Pids -> VmType \cup {NULL}] /\ vm[p] # NULL
  BY DEF VmInv, TypeOK, Live
<1>2. /\ vm' \in [Pids -> VmType \cup {NULL}]
      /\ vm'[p] = w
      /\ \A q \in Pids \ {p} : vm'[q] = vm[q]
  BY <1>1
<1>3. Live' = Live
  BY <1>1, <1>2, NullAssumption DEF Live
<1>4. TypeOK'
  BY <1>2 DEF TypeOK, AllFrames
<1>5. StoreOK'
  BY <1>3 DEF StoreOK, VmInv
<1>6. \A q \in Live' : AreasOK(vm'[q])
  BY <1>2, <1>3 DEF VmInv, Live
<1>7. MappedOK'
  <2>1. 0 \in allocated_page'
    BY DEF VmInv, MappedOK
  <2>2. \A q \in Live : \A pg \in Pages : Frame(vm'[q], pg) \in allocated_page'
    BY <1>2 DEF VmInv, MappedOK, Live
  <2> QED
    BY <1>3, <2>1, <2>2 DEF MappedOK
<1> QED
  BY <1>4, <1>5, <1>6, <1>7 DEF VmInv

LEMMA LoadVmInv ==
    ASSUME VmInv, NEW p \in Pids, NEW a \in Addr, Load(p, a)
    PROVE  VmInv'
<1> DEFINE w == Touched(vm[p], PageOf(a))
<1>1. p \in Live /\ vm[p] \in VmType /\ PageOf(a) \in Pages
  BY PagesAre, MemoryAssumption DEF Load, VmInv, TypeOK, Live
<1>2. /\ w \in VmType
      /\ w.vm_area = vm[p].vm_area
      /\ \A pg \in Pages : Frame(w, pg) = Frame(vm[p], pg)
  BY <1>1, TouchedType
<1>3. vm' = [vm EXCEPT ![p] = w] /\ UNCHANGED <<mem, allocated_page, store>>
  BY DEF Load
<1> HIDE DEF w
<1>4. AreasOK(w) /\ \A pg \in Pages : Frame(w, pg) \in allocated_page
  BY <1>1, <1>2 DEF VmInv, AreasOK, MappedOK
<1>5. /\ allocated_page' \subseteq AllFrames /\ allocated_page \subseteq allocated_page'
      /\ mem' \in [Phys -> Vals]
      /\ store' \in [Pids -> StoreType \cup {NULL}]
      /\ \A q \in Pids : store[q] = NULL => store'[q] = NULL \/ q = p
      /\ \A pg \in Pages : Frame(w, pg) \in allocated_page'
  BY <1>3, <1>4 DEF VmInv, TypeOK, AllFrames
<1> QED
  BY <1>1, <1>2, <1>3, <1>4, <1>5, OneVmChanges

LEMMA StoreByteVmInv ==
    ASSUME VmInv, NEW p \in Pids, NEW a \in Addr, NEW b \in Vals,
           StoreByte(p, a, b)
    PROVE  VmInv'
<1> DEFINE w == Touched(vm[p], PageOf(a))
           x == PhyAddr(vm[p], a)
<1>1. p \in Live /\ vm[p] \in VmType /\ PageOf(a) \in Pages /\ a \in Addr
  BY PagesAre, MemoryAssumption DEF StoreByte, VmInv, TypeOK, Live
<1>2. /\ w \in VmType
      /\ w.vm_area = vm[p].vm_area
      /\ \A pg \in Pages : Frame(w, pg) = Frame(vm[p], pg)
  BY <1>1, TouchedType
<1>3. /\ vm' = [vm EXCEPT ![p] = w] /\ UNCHANGED <<allocated_page, store>>
      /\ mem' = [mem EXCEPT ![x] = b]
  BY DEF StoreByte
<1> HIDE DEF w, x
<1>4. AreasOK(w) /\ \A pg \in Pages : Frame(w, pg) \in allocated_page
  BY <1>1, <1>2 DEF VmInv, AreasOK, MappedOK
<1>5. /\ allocated_page' \subseteq AllFrames /\ allocated_page \subseteq allocated_page'
      /\ mem' \in [Phys -> Vals]
      /\ store' \in [Pids -> StoreType \cup {NULL}]
      /\ \A q \in Pids : store[q] = NULL => store'[q] = NULL \/ q = p
      /\ \A pg \in Pages : Frame(w, pg) \in allocated_page'
  BY <1>3, <1>4 DEF VmInv, TypeOK, AllFrames
<1> QED
  BY <1>1, <1>2, <1>3, <1>4, <1>5, OneVmChanges

LEMMA BeginCopyVmInv ==
    ASSUME VmInv, NEW p \in Pids, NEW a \in Addr, NEW b \in Vals,
           BeginCopy(p, a, b)
    PROVE  VmInv'
<1>1. p \in Live /\ vm[p] \in VmType /\ PageOf(a) \in Pages /\ a \in Addr
  BY PagesAre, MemoryAssumption DEF BeginCopy, VmInv, TypeOK, Live
<1> DEFINE buf == [i \in 0 .. PageSize - 1 |-> mem[PhyAddr(vm[p], PageOf(a) + i)]]
           s == [addr |-> a, val |-> b, frame |-> FirstFree(allocated_page), buf |-> buf]
<1>2. buf \in [0 .. PageSize - 1 -> Vals]
  <2> SUFFICES ASSUME NEW i \in 0 .. PageSize - 1
               PROVE  mem[PhyAddr(vm[p], PageOf(a) + i)] \in Vals
    OBVIOUS
  <2>1. PageOf(a) \in Nat /\ PageOf(a) % PageSize = 0
    BY <1>1, PagesAre
  <2> DEFINE c == PageOf(a) + i
  <2>2. c \in Nat /\ PageOf(a) <= c /\ c < PageOf(a) + PageSize
    BY <2>1, Sizes
  <2>3. PageOf(c) = PageOf(a) /\ c % PageSize \in 0 .. PageSize - 1
    BY <2>1, <2>2, PageIs, PageFacts
  <2>4. Frame(vm[p], PageOf(c)) \in AllFrames
    BY <1>1, <2>3, FrameType
  <2> HIDE DEF c
  <2>5. PhyAddr(vm[p], c) \in Phys
    BY <2>3, <2>4 DEF PhyAddr, Phys, AllFrames
  <2>6. mem[PhyAddr(vm[p], c)] \in Vals
    BY <2>5 DEF VmInv, TypeOK
  <2> QED
    BY <2>6 DEF c
<1>3. store' = [store EXCEPT ![p] = s] /\ UNCHANGED <<vm, mem, allocated_page>>
  BY DEF BeginCopy
<1> HIDE DEF buf
<1>4. s \in StoreType
  BY <1>1, <1>2, FirstFreeIs DEF StoreType, AllFrames
<1> HIDE DEF s
<1>5. TypeOK'
  BY <1>3, <1>4 DEF VmInv, TypeOK
<1>6. StoreOK'
  BY <1>1, <1>3 DEF VmInv, StoreOK, TypeOK, Live
<1>7. (\A q \in Live : AreasOK(vm[q]))' /\ MappedOK'
  BY <1>3 DEF VmInv, MappedOK, Live
<1> QED
  BY <1>5, <1>6, <1>7 DEF VmInv

LEMMA EndCopyVmInv ==
    ASSUME VmInv, NEW p \in Pids, EndCopy(p)
    PROVE  VmInv'
<1> DEFINE s == store[p]
           f == s.frame
           pg == PageOf(s.addr)
           w == [vm[p] EXCEPT !.pgd[pg] = f, !.pgd_valid[pg] = "RW"]
<1>1. p \in Live /\ vm[p] \in VmType /\ s \in StoreType
  BY DEF EndCopy, VmInv, TypeOK, StoreOK, Live
<1>2. pg \in Pages /\ f \in AllFrames /\ s.val \in Vals
      /\ s.buf \in [0 .. PageSize - 1 -> Vals]
  BY <1>1, PagesAre DEF StoreType, AllFrames
<1>3. /\ w \in VmType
      /\ w.vm_area = vm[p].vm_area
      /\ w.pgd[pg] = f
      /\ \A x \in Pages \ {pg} : w.pgd[x] = vm[p].pgd[x]
  BY <1>1, <1>2 DEF VmType, AllFrames
<1>4. vm' = [vm EXCEPT ![p] = w]
  BY <1>1 DEF EndCopy, VmInv, TypeOK, VmType
<1>5. mem' \in [Phys -> Vals]
  BY <1>1, <1>2 DEF EndCopy, VmInv, TypeOK, Phys
<1>6. /\ allocated_page' = allocated_page \cup {f}
      /\ store' = [store EXCEPT ![p] = NULL]
  BY DEF EndCopy, Taken
<1> HIDE DEF w, f, pg, s
<1>7. \A x \in Pages : Frame(w, x) \in allocated_page'
  BY <1>1, <1>3, <1>6, NullAssumption DEF VmInv, MappedOK, Frame
<1>8. AreasOK(w)
  BY <1>1, <1>3 DEF VmInv, AreasOK
<1>9. /\ allocated_page' \subseteq AllFrames /\ allocated_page \subseteq allocated_page'
      /\ store' \in [Pids -> StoreType \cup {NULL}]
      /\ \A q \in Pids : store[q] = NULL => store'[q] = NULL \/ q = p
  BY <1>2, <1>6 DEF VmInv, TypeOK, AllFrames
<1> QED
  BY <1>1, <1>3, <1>4, <1>5, <1>7, <1>8, <1>9, OneVmChanges

LEMMA ForkVmInv ==
    ASSUME VmInv, NEW p \in Pids, NEW q \in Pids, Fork(p, q)
    PROVE  VmInv'
<1> DEFINE w == Protected(vm[p])
<1>1. p \in Live /\ vm[p] \in VmType /\ p # q /\ vm[q] = NULL
  BY DEF Fork, VmInv, TypeOK, Live
<1>2. AreasOK(vm[p]) /\ \A pg \in Pages : Frame(vm[p], pg) \in allocated_page
  BY <1>1 DEF VmInv, MappedOK
<1>3. /\ w \in VmType /\ AreasOK(w)
      /\ \A pg \in Pages : Frame(w, pg) \in allocated_page
  BY <1>1, <1>2, ProtectedEffect, ProtectedAreas
<1>4. /\ vm' = [vm EXCEPT ![p] = w, ![q] = w]
      /\ UNCHANGED <<mem, allocated_page, store>>
  BY DEF Fork, Parent, Child
<1> HIDE DEF w
<1>5. \A r \in Pids : vm'[r] = IF r \in {p, q} THEN w ELSE vm[r]
  BY <1>4 DEF VmInv, TypeOK
<1>6. Live' = Live \cup {q}
  BY <1>1, <1>3, <1>5, NullAssumption DEF Live
<1>7. TypeOK'
  BY <1>3, <1>4 DEF VmInv, TypeOK
<1>8. StoreOK'
  BY <1>4, <1>6 DEF VmInv, StoreOK
<1>9. \A r \in Live' : AreasOK(vm'[r])
  BY <1>3, <1>5, <1>6 DEF VmInv, Live
<1>10. MappedOK'
  <2>1. 0 \in allocated_page'
    BY <1>4 DEF VmInv, MappedOK
  <2>2. \A r \in Live' : \A pg \in Pages : Frame(vm'[r], pg) \in allocated_page'
    <3> SUFFICES ASSUME NEW r \in Live', NEW pg \in Pages
                 PROVE  Frame(vm'[r], pg) \in allocated_page
      BY <1>4
    <3>1. CASE r \in {p, q}
      BY <1>1, <1>3, <1>5, <3>1 DEF Live
    <3>2. CASE r \notin {p, q}
      BY <1>5, <1>6, <3>2 DEF VmInv, MappedOK, Live
    <3> QED
      BY <3>1, <3>2
  <2> QED
    BY <2>1, <2>2 DEF MappedOK
<1> QED
  BY <1>7, <1>8, <1>9, <1>10 DEF VmInv

\* A step of VirtualMemory, with stores to any of addrs and execve of any of images.
StepOf(addrs, images) ==
    \E p \in Pids :
        \/ \E a \in addrs :
             \/ Load(p, a)
             \/ \E b \in Vals : StoreByte(p, a, b) \/ BeginCopy(p, a, b)
        \/ EndCopy(p)
        \/ \E q \in Pids : Fork(p, q)
        \/ \E image \in images : Execve(p, image)

\* Addresses and programs such as these there may be.
Possible(addrs, images) ==
    addrs \subseteq Addr /\ \A image \in images : Fits(image)

LEMMA NextIs ==
    /\ Possible(StoreAddrs, Images)
    /\ Next <=> StepOf(StoreAddrs, Images)
BY ImagesOK, MemoryAssumption DEF Possible, Next, StepOf

LEMMA ExecveVmInv ==
    ASSUME VmInv, NEW p \in Pids, NEW image, Fits(image), Execve(p, image)
    PROVE  VmInv'
<1> DEFINE m == [v |-> vm[p], mem |-> mem, used |-> allocated_page]
           n == Executed(m, image)
<1>1. p \in Live /\ vm[p] \in VmType
  BY DEF Execve, VmInv, TypeOK, Live
<1>2. /\ m \in MemState /\ Base(m.v) /\ m.used = allocated_page
      /\ 0 \in m.used
      /\ \A pg \in Pages : Frame(m.v, pg) \in m.used
  BY <1>1 DEF VmInv, TypeOK, MappedOK, MemState, Base, AllFrames
<1>3. vm' = [vm EXCEPT ![p] = n.v] /\ mem' = n.mem /\ allocated_page' = n.used
      /\ UNCHANGED store
  BY DEF Execve
<1> HIDE DEF m
<1>4. image \in ImageType /\ EndAt(image) <= StackStart
  BY DEF Fits
<1>5. n \in MemState /\ AreasOK(n.v)
  BY <1>2, <1>4, ExecutedEffect, ExecutedAreas
<1>6. m.used \subseteq n.used /\ \A pg \in Pages : Frame(n.v, pg) \in n.used
  BY <1>2, <1>4, ExecutedMapped
<1> HIDE DEF n
<1>7. n.v \in VmType /\ n.mem \in [Phys -> Vals] /\ n.used \subseteq AllFrames
  BY <1>5 DEF MemState
<1>8. /\ store' \in [Pids -> StoreType \cup {NULL}]
      /\ \A q \in Pids : store[q] = NULL => store'[q] = NULL \/ q = p
  BY <1>3 DEF VmInv, TypeOK
<1> QED
  BY <1>1, <1>2, <1>3, <1>5, <1>6, <1>7, <1>8, OneVmChanges

LEMMA VmInvStep ==
    ASSUME VmInv, NEW addrs, NEW images, Possible(addrs, images),
           StepOf(addrs, images) \/ UNCHANGED vars
    PROVE  VmInv'
<1>1. CASE UNCHANGED vars
  BY <1>1 DEF vars, VmInv, TypeOK, StoreOK, MappedOK, Live
<1>2. ASSUME NEW p \in Pids, NEW a \in addrs, Load(p, a)
      PROVE  VmInv'
  BY <1>2, LoadVmInv DEF Possible
<1>3. ASSUME NEW p \in Pids, NEW a \in addrs, NEW b \in Vals, StoreByte(p, a, b)
      PROVE  VmInv'
  BY <1>3, StoreByteVmInv DEF Possible
<1>4. ASSUME NEW p \in Pids, NEW a \in addrs, NEW b \in Vals, BeginCopy(p, a, b)
      PROVE  VmInv'
  BY <1>4, BeginCopyVmInv DEF Possible
<1>5. ASSUME NEW p \in Pids, EndCopy(p)
      PROVE  VmInv'
  BY <1>5, EndCopyVmInv
<1>6. ASSUME NEW p \in Pids, NEW q \in Pids, Fork(p, q)
      PROVE  VmInv'
  BY <1>6, ForkVmInv
<1>7. ASSUME NEW p \in Pids, NEW image \in images, Execve(p, image)
      PROVE  VmInv'
  BY <1>7, ExecveVmInv DEF Possible
<1> QED
  BY <1>1, <1>2, <1>3, <1>4, <1>5, <1>6, <1>7 DEF StepOf

LEMMA VmInvariant == Spec => []VmInv
<1>1. VmInv /\ [Next]_vars => VmInv'
  BY VmInvStep, NextIs
<1> QED
  BY <1>1, InitVmInv, PTL DEF Spec

\* The variables stay in their types, whatever loads, stores, forks and execves
\* happen in which order: none of them leaves a page table or an area behind that
\* is not one.
THEOREM VmTypes == Spec => []TypeOK
<1>1. VmInv => TypeOK
  BY DEF VmInv
<1> QED
  BY <1>1, VmInvariant, PTL

\* A page that a process maps is marked as handed out, in Mem::allocated_page,
\* even when memory has run out: allocate_page can give it to nobody else.
THEOREM MappedAllocatedHolds == Spec => []MappedAllocated
<1>1. VmInv => MappedAllocated
  <2> SUFFICES ASSUME VmInv, NEW p \in Live, NEW pg \in Pages, Maps(p, pg)
               PROVE  vm[p].pgd[pg] \in allocated_page
    BY DEF MappedAllocated
  <2> QED
    BY DEF VmInv, MappedOK, Maps, Frame
<1> QED
  BY <1>1, VmInvariant, PTL

-----------------------------------------------------------------------------
(* Sections and pages.                                                     *)

\* The program of an image lies on pages that its sections allocate: none of its
\* addresses, nor the one behind it, is on a page that only a section that begins
\* within a page reaches.
Packed(image) == \A a \in 0 .. EndAt(image) : Covered(image, PageOf(a))

AllPacked == \A image \in Images : Packed(image)

\* A physical page is free.
Room == AllFrames \ allocated_page # {}

Backed(v, pg) == Valid(v, pg) /\ v.pgd[pg] # NULL

\* What an area holds is on a valid page, and a valid page has a physical one.
PagesOK(v) ==
    /\ \A i \in DOMAIN v.vm_area : \A a \in 0 .. ArgsEnd - 1 :
         Holds(v.vm_area[i], a) => Backed(v, PageOf(a))
    /\ \A pg \in Pages : pg < ArgsEnd /\ Valid(v, pg) => v.pgd[pg] # NULL

LayoutInv ==
    /\ VmInv
    /\ \A p \in Live : PagesOK(vm[p])

LEMMA PageAbove ==
    ASSUME NEW a \in Nat, NEW b \in Nat, b % PageSize = 0, b <= a
    PROVE  b <= PageOf(a)
<1>1. PageOf(a) \in Nat /\ PageOf(a) % PageSize = 0 /\ a < PageOf(a) + PageSize
  BY PageFacts
<1>2. PageOf(a) < b => PageOf(a) + PageSize <= b
  BY <1>1, PagesApart
<1> QED
  BY <1>1, <1>2, Sizes

LEMMA ExecutedPages ==
    ASSUME NEW m \in MemState, Base(m.v), NEW image \in ImageType,
           EndAt(image) <= StackStart, Packed(image), PagesOK(m.v)
    PROVE  PagesOK(Executed(m, image).v)
<1> DEFINE n == Executed(m, image)
           m0 == ClearedOf(m)
           s == n.v.vm_area
<1>1. /\ n \in MemState /\ Grows(m0, n)
      /\ m.v.vm_area = <<>> => NewAreas(s, image)
      /\ m.v.vm_area # <<>> =>
           \E j \in DOMAIN m.v.vm_area :
              /\ m.v.vm_area[j].section_name = "cmd_args"
              /\ KeptAreas(s, image, m.v.vm_area[j])
      /\ \A pg \in Pages : Covered(image, pg) => Valid(n.v, pg)
      /\ \A pg \in Pages : StackStart <= pg /\ pg < ArgsStart => Valid(n.v, pg)
      /\ m.v.vm_area = <<>> =>
           \A pg \in Pages : ArgsStart <= pg /\ pg < ArgsEnd => Valid(n.v, pg)
  BY ExecutedEffect
<1>2. /\ m0.v.pgd = m.v.pgd
      /\ \A pg \in Pages : Valid(m0.v, pg) => Valid(m.v, pg)
      /\ \A pg \in Pages : ArgsStart <= pg /\ Valid(m.v, pg) => Valid(m0.v, pg)
  <2>1. m0.v = Cleared(m.v) /\ m.v \in VmType
    BY DEF ClearedOf, MemState
  <2>2. \A pg \in Pages : pg \in Nat
    BY PagesAre
  <2> QED
    BY <2>1, <2>2, ClearedIs, Sizes DEF Valid
<1> HIDE DEF n, m0, s
<1>3. \A pg \in Pages : pg < ArgsEnd /\ Valid(n.v, pg) => n.v.pgd[pg] # NULL
  <2> SUFFICES ASSUME NEW pg \in Pages, pg < ArgsEnd, Valid(n.v, pg)
               PROVE  n.v.pgd[pg] # NULL
    OBVIOUS
  <2>1. CASE New(m0, n, pg)
    <3>1. n.v.pgd[pg] \in AllFrames
      BY <1>1, <2>1 DEF Grows, MemState
    <3> QED
      BY <3>1, NullAssumption, Sizes DEF AllFrames
  <2>2. CASE ~ New(m0, n, pg)
    <3>1. Kept(m0, n, pg)
      BY <1>1, <2>2 DEF Grows
    <3>2. Valid(m0.v, pg)
      BY <2>2 DEF New
    <3>3. m.v.pgd[pg] # NULL
      BY <1>2, <3>2 DEF PagesOK
    <3> QED
      BY <1>2, <3>1, <3>3 DEF Kept
  <2> QED
    BY <2>1, <2>2
<1>4. ASSUME NEW a \in 0 .. ArgsEnd - 1
      PROVE  PageOf(a) \in Pages /\ PageOf(a) < ArgsEnd /\ a \in Nat
  <2>1. a \in Nat /\ a < ArgsEnd /\ a \in Addr
    BY Sizes DEF Addr
  <2>2. PageOf(a) \in Nat /\ PageOf(a) <= a
    BY <2>1, PageFacts
  <2> QED
    BY <2>1, <2>2, PagesAre, Sizes
<1>5. ASSUME NEW a \in 0 .. ArgsEnd - 1, ArgsStart <= a
      PROVE  Valid(n.v, PageOf(a))
  <2>1. ArgsStart <= PageOf(a) /\ PageOf(a) \in Pages /\ PageOf(a) < ArgsEnd
    BY <1>4, <1>5, PageAbove, Sizes
  <2>2. CASE m.v.vm_area = <<>>
    BY <1>1, <2>1, <2>2
  <2>3. CASE m.v.vm_area # <<>>
    <3>1. PICK j \in DOMAIN m.v.vm_area : m.v.vm_area[j].section_name = "cmd_args"
      BY <1>1, <2>3
    <3>2. AreaOK(m.v.vm_area[j])
      BY <2>3 DEF Base, AreasOK
    <3>3. Holds(m.v.vm_area[j], a)
      BY <1>4, <1>5, <3>1, <3>2, Sizes DEF AreaOK, Holds
    <3>4. Valid(m.v, PageOf(a))
      BY <3>3 DEF PagesOK, Backed
    <3>5. Valid(m0.v, PageOf(a))
      BY <1>2, <2>1, <3>4
    <3> QED
      BY <1>1, <2>1, <3>5, GrowsValid
  <2> QED
    BY <2>2, <2>3
<1>6. ASSUME NEW a \in 0 .. ArgsEnd - 1, StackStart <= a
      PROVE  Valid(n.v, PageOf(a))
  <2>1. CASE ArgsStart <= a
    BY <1>5, <2>1
  <2>2. CASE a < ArgsStart
    <3>1. StackStart <= PageOf(a) /\ PageOf(a) \in Pages /\ PageOf(a) <= a
      BY <1>4, <1>6, PageAbove, PageFacts, Sizes
    <3>2. PageOf(a) < ArgsStart
      BY <1>4, <2>2, <3>1, PagesAre, Sizes
    <3> QED
      BY <1>1, <3>1, <3>2
  <2> QED
    BY <1>4, <2>1, <2>2, Sizes
<1>7. ASSUME NEW a \in 0 .. ArgsEnd - 1, a <= EndAt(image)
      PROVE  Valid(n.v, PageOf(a))
  <2>1. a \in 0 .. EndAt(image)
    BY <1>7, ImagePlaces
  <2> QED
    BY <1>1, <1>4, <2>1 DEF Packed
<1>8. ASSUME NEW i \in DOMAIN s, NEW a \in 0 .. ArgsEnd - 1, Holds(s[i], a)
      PROVE  StackStart <= a \/ a <= EndAt(image)
  <2> DEFINE ok(r) == Holds(r, a) => StackStart <= a \/ a <= EndAt(image)
  <2>1. /\ ok(TextArea(image)) /\ ok(DataArea(image)) /\ ok(BssArea(image))
        /\ ok(StackArea) /\ ok(ArgsArea)
    BY <1>4, ImagePlaces, Sizes
    DEF Holds, TextArea, DataArea, BssArea, StackArea, ArgsArea, Area
  <2>2. ASSUME NEW j \in DOMAIN m.v.vm_area, m.v.vm_area # <<>>,
               m.v.vm_area[j].section_name = "cmd_args"
        PROVE  ok(m.v.vm_area[j])
    <3>1. AreaOK(m.v.vm_area[j])
      BY <2>2 DEF Base, AreasOK
    <3> QED
      BY <1>4, <2>2, <3>1, Sizes DEF AreaOK, Holds
  <2>3. ok(s[i])
    <3> HIDE DEF ok
    <3>1. CASE m.v.vm_area = <<>>
      BY <1>1, <2>1, <3>1 DEF NewAreas
    <3>2. CASE m.v.vm_area # <<>>
      BY <1>1, <2>1, <2>2, <3>2 DEF KeptAreas
    <3> QED
      BY <3>1, <3>2
  <2> QED
    BY <1>8, <2>3
<1>9. ASSUME NEW i \in DOMAIN s, NEW a \in 0 .. ArgsEnd - 1, Holds(s[i], a)
      PROVE  Backed(n.v, PageOf(a))
  <2>1. Valid(n.v, PageOf(a))
    BY <1>6, <1>7, <1>8, <1>9
  <2> QED
    BY <1>3, <1>4, <2>1 DEF Backed
<1> QED
  BY <1>3, <1>9 DEF PagesOK, n, s

\* An area reaches every page from its first to its last.
LEMMA AreaPages ==
    ASSUME NEW r \in AreaType, AreaOK(r), NEW pg \in Pages, pg < ArgsEnd,
           PageOf(r.start) <= pg, pg <= PageOf(r.end)
    PROVE  \E a \in 0 .. ArgsEnd - 1 : Holds(r, a) /\ PageOf(a) = pg
<1>1. r.start \in Nat /\ r.end \in Nat /\ r.start <= r.end
  BY Sizes DEF AreaType, AreaOK, Addr
<1>2. pg \in Nat /\ pg % PageSize = 0 /\ PageOf(pg) = pg
  BY PagesAre
<1>3. /\ PageOf(r.end) <= r.end
      /\ PageOf(r.start) \in Nat /\ PageOf(r.start) % PageSize = 0
      /\ PageOf(r.start) <= r.start /\ r.start < PageOf(r.start) + PageSize
      /\ PageOf(r.end) \in Nat
  BY <1>1, PageFacts
<1>4. CASE r.start <= pg
  <2>1. Holds(r, pg) /\ pg \in 0 .. ArgsEnd - 1
    BY <1>1, <1>2, <1>3, <1>4, Sizes DEF Holds
  <2> QED
    BY <1>2, <2>1
<1>5. CASE pg < r.start
  <2>1. PageOf(r.start) = pg
    <3>1. PageOf(r.start) < pg => PageOf(r.start) + PageSize <= pg
      BY <1>2, <1>3, PagesApart
    <3> QED
      BY <1>1, <1>2, <1>3, <1>5, <3>1, Sizes
  <2>2. pg + PageSize <= ArgsEnd
    BY <1>2, PagesApart, Sizes
  <2>3. Holds(r, r.start) /\ r.start \in 0 .. ArgsEnd - 1
    BY <1>1, <1>2, <1>3, <2>1, <2>2, Sizes DEF Holds
  <2> QED
    BY <2>1, <2>3
<1> QED
  BY <1>1, <1>2, <1>4, <1>5

LEMMA ProtectedPages ==
    ASSUME NEW v \in VmType, AreasOK(v), PagesOK(v)
    PROVE  PagesOK(Protected(v))
<1> DEFINE w == Protected(v)
<1>1. /\ w.pgd = v.pgd
      /\ DOMAIN w.vm_area = DOMAIN v.vm_area
      /\ \A i \in DOMAIN v.vm_area :
           /\ w.vm_area[i].start = v.vm_area[i].start
           /\ w.vm_area[i].end = v.vm_area[i].end
      /\ \A pg \in Pages :
           w.pgd_valid[pg] =
             IF \E i \in DOMAIN v.vm_area :
                  /\ v.vm_area[i].prot = "RW"
                  /\ PageOf(v.vm_area[i].start) <= pg
                  /\ pg <= PageOf(v.vm_area[i].end)
             THEN "RONLY" ELSE v.pgd_valid[pg]
  BY ProtectedEffect
<1> HIDE DEF w
<1>2. \A pg \in Pages : Valid(v, pg) => Valid(w, pg)
  BY <1>1 DEF Valid
<1>3. \A a \in 0 .. ArgsEnd - 1 : PageOf(a) \in Pages
  BY PagesAre, Sizes DEF Addr
<1>4. \A i \in DOMAIN w.vm_area : \A a \in 0 .. ArgsEnd - 1 :
        Holds(w.vm_area[i], a) => Backed(w, PageOf(a))
  BY <1>1, <1>2, <1>3 DEF PagesOK, Backed, Holds
<1>5. ASSUME NEW pg \in Pages, pg < ArgsEnd, Valid(w, pg)
      PROVE  w.pgd[pg] # NULL
  <2>1. CASE Valid(v, pg)
    BY <1>1, <1>5, <2>1 DEF PagesOK
  <2>2. CASE ~ Valid(v, pg)
    <3>1. PICK i \in DOMAIN v.vm_area :
            /\ PageOf(v.vm_area[i].start) <= pg
            /\ pg <= PageOf(v.vm_area[i].end)
      BY <1>1, <1>5, <2>2 DEF Valid
    <3>2. v.vm_area \in Seq(AreaType)
      BY DEF VmType, AreaType, AreaNames
    <3>3. v.vm_area[i] \in AreaType /\ AreaOK(v.vm_area[i])
      BY <3>2 DEF AreasOK
    <3>4. \E a \in 0 .. ArgsEnd - 1 : Holds(v.vm_area[i], a) /\ PageOf(a) = pg
      BY <1>5, <3>1, <3>3, AreaPages
    <3> QED
      BY <2>2, <3>4 DEF PagesOK, Backed
  <2> QED
    BY <2>1, <2>2
<1> QED
  BY <1>4, <1>5 DEF PagesOK, w

\* A VM that gets physical pages keeps them for its areas.
LEMMA MorePages ==
    ASSUME NEW v, NEW w, PagesOK(v), w.vm_area = v.vm_area,
           \A pg \in Pages : \/ /\ w.pgd_valid[pg] = v.pgd_valid[pg]
                                /\ v.pgd[pg] # NULL => w.pgd[pg] # NULL
                             \/ Valid(w, pg) /\ w.pgd[pg] # NULL
    PROVE  PagesOK(w)
<1>1. \A pg \in Pages : Backed(v, pg) => Backed(w, pg)
  BY DEF Backed, Valid
<1>2. \A a \in 0 .. ArgsEnd - 1 : PageOf(a) \in Pages
  BY PagesAre, Sizes DEF Addr
<1> QED
  BY <1>1, <1>2 DEF PagesOK, Valid, Backed

\* What Touched and EndCopy make of a VM.
LEMMA TouchedPages ==
    ASSUME NEW v \in VmType, NEW pg \in Pages, PagesOK(v)
    PROVE  PagesOK(Touched(v, pg))
<1> DEFINE w == Touched(v, pg)
<1>1. /\ w.vm_area = v.vm_area /\ w.pgd_valid = v.pgd_valid
      /\ \A x \in Pages : v.pgd[x] # NULL => w.pgd[x] = v.pgd[x]
  BY TouchedType
<1> HIDE DEF w
<1>2. PagesOK(w)
  BY <1>1, MorePages
<1> QED
  BY <1>2 DEF w

LEMMA LayoutStep ==
    ASSUME LayoutInv, NEW addrs, NEW images, Possible(addrs, images),
           \A image \in images : Packed(image),
           StepOf(addrs, images) \/ UNCHANGED vars
    PROVE  LayoutInv'
<1>1. VmInv'
  BY VmInvStep DEF LayoutInv
<1>2. \A p \in Live' : PagesOK(vm'[p])
  <2>0. \A p \in Live : p \in Pids /\ vm[p] \in VmType
    BY LiveTypes DEF LayoutInv, VmInv
  <2>1. CASE UNCHANGED vars
    BY <2>1 DEF vars, LayoutInv, Live
  <2>2. ASSUME NEW p \in Pids, NEW w, vm[p] # NULL, vm' = [vm EXCEPT ![p] = w], PagesOK(w)
        PROVE  \A q \in Live' : PagesOK(vm'[q])
    BY <2>2 DEF LayoutInv, VmInv, TypeOK, Live
  <2>3. ASSUME NEW p \in Pids, NEW a \in addrs, vm[p] # NULL,
               vm' = [vm EXCEPT ![p] = Touched(vm[p], PageOf(a))]
        PROVE  \A q \in Live' : PagesOK(vm'[q])
    <3>1. p \in Live /\ vm[p] \in VmType /\ PageOf(a) \in Pages
      BY <2>0, <2>3, PagesAre DEF Live, Possible
    <3>2. PagesOK(Touched(vm[p], PageOf(a)))
      BY <3>1, TouchedPages DEF LayoutInv
    <3> QED
      BY <2>2, <2>3, <3>2
  <2>4. ASSUME NEW p \in Pids, NEW a \in addrs, Load(p, a)
        PROVE  \A q \in Live' : PagesOK(vm'[q])
    BY <2>3, <2>4 DEF Load
  <2>5. ASSUME NEW p \in Pids, NEW a \in addrs, NEW b \in Vals, StoreByte(p, a, b)
        PROVE  \A q \in Live' : PagesOK(vm'[q])
    BY <2>3, <2>5 DEF StoreByte
  <2>6. ASSUME NEW p \in Pids, NEW a \in addrs, NEW b \in Vals, BeginCopy(p, a, b)
        PROVE  \A q \in Live' : PagesOK(vm'[q])
    BY <2>6 DEF BeginCopy, LayoutInv, Live
  <2>7. ASSUME NEW p \in Pids, EndCopy(p)
        PROVE  \A q \in Live' : PagesOK(vm'[q])
    <3> DEFINE s == store[p]
               pg == PageOf(s.addr)
               w == [vm[p] EXCEPT !.pgd[pg] = s.frame, !.pgd_valid[pg] = "RW"]
    <3>1. p \in Live /\ vm[p] \in VmType /\ s \in StoreType
      BY <2>7 DEF EndCopy, LayoutInv, VmInv, TypeOK, StoreOK, Live
    <3>2. pg \in Pages /\ s.frame \in AllFrames /\ s.frame # NULL
      BY <3>1, PagesAre, NullAssumption, Sizes DEF StoreType, AllFrames
    <3>3. vm' = [vm EXCEPT ![p] = w]
      BY <2>7, <3>1 DEF EndCopy, LayoutInv, VmInv, TypeOK, VmType
    <3>4. /\ w.vm_area = vm[p].vm_area
          /\ w.pgd[pg] = s.frame /\ w.pgd_valid[pg] = "RW"
          /\ \A x \in Pages \ {pg} :
               w.pgd[x] = vm[p].pgd[x] /\ w.pgd_valid[x] = vm[p].pgd_valid[x]
      BY <3>1, <3>2 DEF VmType
    <3> HIDE DEF w
    <3>5. \A x \in Pages : \/ /\ w.pgd_valid[x] = vm[p].pgd_valid[x]
                              /\ vm[p].pgd[x] # NULL => w.pgd[x] # NULL
                           \/ Valid(w, x) /\ w.pgd[x] # NULL
      BY <3>2, <3>4 DEF Valid
    <3>6. PagesOK(w)
      BY <3>1, <3>4, <3>5, MorePages DEF LayoutInv
    <3> QED
      BY <2>2, <3>1, <3>3, <3>6 DEF Live
  <2>8. ASSUME NEW p \in Pids, NEW q \in Pids, Fork(p, q)
        PROVE  \A r \in Live' : PagesOK(vm'[r])
    <3> DEFINE w == Protected(vm[p])
    <3>1. p \in Live /\ vm[p] \in VmType
      BY <2>8, <2>0 DEF Fork, Live
    <3>2. PagesOK(w)
      BY <3>1, ProtectedPages DEF LayoutInv, VmInv
    <3>3. vm' = [vm EXCEPT ![p] = w, ![q] = w]
      BY <2>8 DEF Fork, Parent, Child
    <3> HIDE DEF w
    <3>4. \A r \in Pids : vm'[r] = IF r \in {p, q} THEN w ELSE vm[r]
      BY <3>3 DEF LayoutInv, VmInv, TypeOK
    <3> QED
      BY <3>2, <3>4 DEF LayoutInv, Live
  <2>9. ASSUME NEW p \in Pids, NEW image \in images, Execve(p, image)
        PROVE  \A q \in Live' : PagesOK(vm'[q])
    <3> DEFINE m == [v |-> vm[p], mem |-> mem, used |-> allocated_page]
    <3>1. p \in Live /\ vm[p] \in VmType /\ vm[p] # NULL
      BY <2>9, <2>0 DEF Execve, Live
    <3>2. m \in MemState /\ Base(m.v) /\ PagesOK(m.v)
      BY <3>1 DEF LayoutInv, VmInv, TypeOK, MemState, Base, AllFrames
    <3>3. image \in ImageType /\ EndAt(image) <= StackStart /\ Packed(image)
      BY DEF Possible, Fits
    <3>4. vm' = [vm EXCEPT ![p] = Executed(m, image).v]
      BY <2>9 DEF Execve
    <3> HIDE DEF m
    <3>5. PagesOK(Executed(m, image).v)
      BY <3>2, <3>3, ExecutedPages
    <3> QED
      BY <2>2, <3>1, <3>4, <3>5
  <2> QED
    BY <2>1, <2>4, <2>5, <2>6, <2>7, <2>8, <2>9 DEF StepOf
<1> QED
  BY <1>1, <1>2 DEF LayoutInv

LEMMA InitLayout ==
    ASSUME Packed(Boot), Init
    PROVE  LayoutInv
<1> DEFINE z == [v |-> BlankVm, mem |-> [x \in Phys |-> 0], used |-> {}]
           n == Executed(z, Boot)
<1>1. BlankVm \in VmType /\ BlankVm.vm_area = <<>>
  BY DEF VmType, BlankVm
<1>2. z \in MemState /\ z.v = BlankVm /\ Base(z.v)
  BY <1>1, MemoryAssumption DEF MemState, Base
<1>3. PagesOK(z.v)
  <2>1. \A pg \in Pages : ~ Valid(z.v, pg)
    BY DEF BlankVm, Valid
  <2>2. DOMAIN z.v.vm_area = {}
    BY DEF BlankVm
  <2> HIDE DEF z
  <2> QED
    BY <2>1, <2>2 DEF PagesOK
<1>4. vm = [p \in Pids |-> IF p = 1 THEN n.v ELSE NULL]
  BY DEF Init
<1> HIDE DEF z
<1>5. Boot \in ImageType /\ EndAt(Boot) <= StackStart /\ Packed(Boot)
  BY MemoryAssumption, ImagesOK
<1>6. PagesOK(n.v)
  BY <1>2, <1>3, <1>5, ExecutedPages
<1>7. \A p \in Live : vm[p] = n.v
  BY <1>4, NullAssumption DEF Live
<1> QED
  BY <1>6, <1>7, InitVmInv DEF LayoutInv

LEMMA LayoutInvariant ==
    ASSUME AllPacked
    PROVE  Spec => []LayoutInv
<1>1. Init => LayoutInv
  BY InitLayout, MemoryAssumption DEF AllPacked
<1>2. LayoutInv /\ [Next]_vars => LayoutInv'
  BY LayoutStep, NextIs DEF AllPacked
<1> QED
  BY <1>1, <1>2, PTL DEF Spec

\* With memory left, the pages that execve gives a process in place of those it
\* had, other than the arguments', are no one else's.
LEMMA FreshPages ==
    ASSUME LayoutInv, Room', NEW p \in Pids, NEW image, Fits(image), Execve(p, image),
           NEW pg \in Pages, pg < ArgsStart, Valid(vm'[p], pg)
    PROVE  Frame(vm'[p], pg) \notin allocated_page
<1> DEFINE m == [v |-> vm[p], mem |-> mem, used |-> allocated_page]
           m0 == ClearedOf(m)
           n == Executed(m, image)
<1>1. p \in Live /\ vm[p] \in VmType /\ PagesOK(vm[p])
  BY DEF Execve, LayoutInv, VmInv, TypeOK, Live
<1>2. m \in MemState /\ Base(m.v) /\ m.v = vm[p] /\ m.used = allocated_page
  BY <1>1 DEF LayoutInv, VmInv, TypeOK, MemState, Base, AllFrames
<1>3. vm' = [vm EXCEPT ![p] = n.v] /\ allocated_page' = n.used
  BY DEF Execve
<1> HIDE DEF m
<1>4. image \in ImageType /\ EndAt(image) <= StackStart
  BY DEF Fits
<1>5. n \in MemState /\ Grows(m0, n)
  BY <1>2, <1>4, ExecutedEffect
<1> HIDE DEF n
<1>6. m0.v = Cleared(m.v) /\ m0.used = m.used
  BY <1>2 DEF ClearedOf, MemState
<1> HIDE DEF m0
<1>7. vm'[p] = n.v
  BY <1>1, <1>3 DEF LayoutInv, VmInv, TypeOK
<1>8. ~ Valid(m0.v, pg)
  <2>1. Cleared(vm[p]).pgd_valid[pg] =
          IF vm[p].pgd[pg] # NULL /\ pg < ArgsStart THEN "INVALID"
          ELSE vm[p].pgd_valid[pg]
    BY <1>1, <1>2, ClearedIs
  <2>2. pg < ArgsEnd
    BY PagesAre, Sizes
  <2> QED
    BY <1>1, <1>2, <1>6, <2>1, <2>2 DEF PagesOK, Valid
<1>9. New(m0, n, pg)
  BY <1>7, <1>8 DEF New
<1>10. n.v.pgd[pg] \notin m0.used /\ n.v.pgd[pg] \in n.used
  BY <1>3, <1>5, <1>9 DEF Grows, Room
<1>11. n.v.pgd[pg] # NULL
  BY <1>5, <1>10, NullAssumption, Sizes DEF MemState, AllFrames
<1> QED
  BY <1>2, <1>6, <1>7, <1>10, <1>11 DEF Frame

\* Only fork and execve change the areas of a process, and fork is a step that
\* another process comes of.
LEMMA AreasChange ==
    ASSUME LayoutInv, NEW addrs, NEW images, Possible(addrs, images),
           StepOf(addrs, images) \/ UNCHANGED vars,
           NEW p \in Live, vm'[p].vm_area # vm[p].vm_area,
           \A q \in Pids : vm'[q] # NULL => vm[q] # NULL
    PROVE  \E image \in images : Execve(p, image)
<1>1. p \in Pids /\ vm[p] \in VmType /\ vm \in [Pids -> VmType \cup {NULL}]
  BY LiveTypes DEF LayoutInv, VmInv, TypeOK
<1>2. CASE UNCHANGED vars
  BY <1>2 DEF vars
<1>3. ASSUME NEW q \in Pids, NEW a \in addrs, vm[q] # NULL,
             vm' = [vm EXCEPT ![q] = Touched(vm[q], PageOf(a))]
      PROVE  FALSE
  <2>1. vm[q] \in VmType /\ PageOf(a) \in Pages
    BY <1>1, <1>3, PagesAre DEF Possible
  <2>2. Touched(vm[q], PageOf(a)).vm_area = vm[q].vm_area
    BY <2>1, TouchedType
  <2> QED
    BY <1>1, <1>3, <2>2
<1>4. ASSUME NEW q \in Pids, NEW a \in addrs, Load(q, a)
      PROVE  FALSE
  BY <1>3, <1>4 DEF Load
<1>5. ASSUME NEW q \in Pids, NEW a \in addrs, NEW b \in Vals, StoreByte(q, a, b)
      PROVE  FALSE
  BY <1>3, <1>5 DEF StoreByte
<1>6. ASSUME NEW q \in Pids, NEW a \in addrs, NEW b \in Vals, BeginCopy(q, a, b)
      PROVE  FALSE
  BY <1>6 DEF BeginCopy
<1>7. ASSUME NEW q \in Pids, EndCopy(q)
      PROVE  FALSE
  <2>1. vm[q] \in VmType
    BY <1>7 DEF EndCopy, LayoutInv, VmInv, TypeOK, StoreOK, Live
  <2>2. vm'[q].vm_area = vm[q].vm_area /\ (p # q => vm'[p] = vm[p])
    BY <1>1, <1>7, <2>1 DEF EndCopy, VmType
  <2> QED
    BY <2>2
<1>8. ASSUME NEW q \in Pids, NEW r \in Pids, Fork(q, r)
      PROVE  FALSE
  <2>1. vm[r] = NULL /\ q # r /\ vm'[r] = Protected(vm[q]) /\ vm[q] \in VmType
    BY <1>1, <1>8 DEF Fork, Parent, Child
  <2>2. Protected(vm[q]) \in VmType
    BY <2>1, ProtectedEffect
  <2> QED
    BY <2>1, <2>2, NullAssumption
<1>9. ASSUME NEW q \in Pids, NEW image \in images, Execve(q, image)
      PROVE  p = q
  BY <1>1, <1>9 DEF Execve
<1> QED
  BY <1>2, <1>4, <1>5, <1>6, <1>7, <1>8, <1>9 DEF StepOf

\* What ExecveUnshares says of a step.
UnsharesStep ==
    \A p \in Live :
        vm'[p].vm_area # vm[p].vm_area /\ (\A q \in Live \ {p} : vm'[q] = vm[q])
            /\ (\A q \in Pids : vm'[q] # NULL => vm[q] # NULL) =>
          \A x \in {pg \in Pages : pg < ArgsStart} : x \notin Shared(p)'

LEMMA UnsharesInStep ==
    ASSUME LayoutInv, Room', NEW addrs, NEW images, Possible(addrs, images),
           StepOf(addrs, images) \/ UNCHANGED vars
    PROVE  UnsharesStep
<1> SUFFICES ASSUME NEW p \in Live, vm'[p].vm_area # vm[p].vm_area,
                    \A q \in Live \ {p} : vm'[q] = vm[q],
                    \A q \in Pids : vm'[q] # NULL => vm[q] # NULL,
                    NEW x \in Pages, x < ArgsStart, x \in Shared(p)'
             PROVE  FALSE
  BY DEF UnsharesStep
<1>1. PICK q \in Live' \ {p} : \E y \in Pages :
        /\ Maps(p, x)' /\ vm'[q].pgd_valid[y] # "INVALID" /\ vm'[q].pgd[y] # NULL
        /\ vm'[p].pgd[x] = vm'[q].pgd[y]
  BY DEF Shared, Maps
<1>2. PICK y \in Pages : /\ vm'[p].pgd_valid[x] # "INVALID" /\ vm'[p].pgd[x] # NULL
                         /\ vm'[q].pgd[y] # NULL /\ vm'[p].pgd[x] = vm'[q].pgd[y]
  BY <1>1 DEF Maps
<1>3. q \in Live /\ vm'[q] = vm[q] /\ p \in Pids
  BY DEF Live
<1>4. PICK image \in images : Execve(p, image)
  BY AreasChange
<1>5. Frame(vm'[p], x) \notin allocated_page
  BY <1>2, <1>3, <1>4, FreshPages DEF Valid, Possible
<1>6. Frame(vm[q], y) \in allocated_page
  BY <1>3 DEF LayoutInv, VmInv, MappedOK
<1> QED
  BY <1>2, <1>3, <1>5, <1>6 DEF Frame

\* execve leaves a process with no page that another one maps, but for those of
\* its arguments, however the two came to share pages before.  It takes programs
\* that lie on pages of their own sections, and memory that does not run out:
\* without a free page allocate_page hands out page 0 again.
THEOREM ExecveUnsharesHolds ==
    ASSUME AllPacked
    PROVE  Spec /\ []Room => ExecveUnshares
<1>1. LayoutInv /\ Room' /\ [Next]_vars => [UnsharesStep]_vars
  BY UnsharesInStep, NextIs
<1>2. Spec => []LayoutInv
  BY LayoutInvariant
<1>3. Spec /\ []Room => [][UnsharesStep]_vars
  BY <1>1, <1>2, PTL DEF Spec
<1> QED
  BY <1>3 DEF ExecveUnshares, UnsharesStep

-----------------------------------------------------------------------------
(* Copy-on-write.                                                          *)

Writable(v, a) ==
    /\ InArea(v, a)
    /\ AreaOf(v, a).prot # "RONLY"
    /\ Valid(v, PageOf(a))

\* A store to the page copies it first.
SafePage(v, pg) ==
    \A a \in Addr : PageOf(a) = pg /\ Writable(v, a) => MustCopy(v, a)

\* The pages v shares with w are safe in v.
GuardedFrom(v, w) ==
    \A x, y \in Pages :
        Valid(v, x) /\ Valid(w, y) /\ Frame(v, x) = Frame(w, y) => SafePage(v, x)

\* The area of the arguments is searched before all others, or those a program may
\* store to have its protection.
ArgsFirst(v) ==
    \A j \in DOMAIN v.vm_area :
        v.vm_area[j].section_name = "cmd_args" =>
            \/ j = 1
            \/ \A i \in DOMAIN v.vm_area :
                 v.vm_area[i].section_name # "text" => v.vm_area[i].prot = v.vm_area[j].prot

NoCow(v) == \A i \in DOMAIN v.vm_area : v.vm_area[i].prot # "COPY_ON_WRITE"

\* The one store under way, if any, has the page that would be handed out next.
StoreFresh ==
    \A p \in Pids : store[p] # NULL =>
        /\ store[p].frame = FirstFree(allocated_page)
        /\ \A q \in Pids \ {p} : store[q] = NULL

AreasInv ==
    /\ \A p \in Live : ArgsFirst(vm[p])
    /\ Live # Pids => \A p \in Live : NoCow(vm[p])

Guarded == \A p \in Live : \A q \in Live \ {p} : GuardedFrom(vm[p], vm[q])

\* The inductive invariant for SharedProtected.
CowInv ==
    /\ LayoutInv
    /\ StoreFresh
    /\ AreasInv
    /\ Guarded

LEMMA PageMonotone ==
    ASSUME NEW a \in Nat, NEW b \in Nat, a <= b
    PROVE  PageOf(a) <= PageOf(b)
<1>1. PageOf(a) \in Nat /\ PageOf(a) % PageSize = 0 /\ PageOf(a) <= a
  BY PageFacts
<1>2. PageOf(a) <= b
  BY <1>1
<1> QED
  BY <1>1, <1>2, PageAbove

\* The areas are searched in order.
LEMMA AreaOfIs ==
    ASSUME NEW v \in VmType, NEW a, InArea(v, a)
    PROVE  \E i \in DOMAIN v.vm_area :
              /\ AreaOf(v, a) = v.vm_area[i]
              /\ Holds(v.vm_area[i], a)
              /\ \A j \in DOMAIN v.vm_area : Holds(v.vm_area[j], a) => i <= j
<1> DEFINE T == {i \in DOMAIN v.vm_area : Holds(v.vm_area[i], a)}
<1>1. T \subseteq Nat /\ T # {}
  <2>1. v.vm_area \in Seq(AreaType)
    BY DEF VmType, AreaType, AreaNames
  <2>2. DOMAIN v.vm_area \subseteq Nat
    BY <2>1
  <2> QED
    BY <2>2 DEF InArea
<1>2. \E i \in T : \A j \in T : i <= j
  BY <1>1, LeastNumber
<1>3. \E i \in DOMAIN v.vm_area :
        /\ Holds(v.vm_area[i], a)
        /\ \A j \in DOMAIN v.vm_area : Holds(v.vm_area[j], a) => i <= j
  BY <1>2
<1> QED
  BY <1>3 DEF AreaOf

LEMMA AreaOfFirst ==
    ASSUME NEW v \in VmType, NEW a, 1 \in DOMAIN v.vm_area, Holds(v.vm_area[1], a)
    PROVE  InArea(v, a) /\ AreaOf(v, a) = v.vm_area[1]
<1>1. InArea(v, a)
  BY DEF InArea
<1>2. PICK i \in DOMAIN v.vm_area :
        /\ AreaOf(v, a) = v.vm_area[i]
        /\ \A j \in DOMAIN v.vm_area : Holds(v.vm_area[j], a) => i <= j
  BY <1>1, AreaOfIs
<1>3. i <= 1 /\ i \in Nat /\ i >= 1
  <2>1. v.vm_area \in Seq(AreaType)
    BY DEF VmType, AreaType, AreaNames
  <2> QED
    BY <1>2, <2>1
<1> QED
  BY <1>1, <1>2, <1>3

\* After fork, a store to whatever page copies it first.
LEMMA ProtectedSafe ==
    ASSUME NEW v \in VmType, NoCow(v), NEW pg \in Pages
    PROVE  SafePage(Protected(v), pg)
<1> DEFINE w == Protected(v)
<1>1. /\ w \in VmType
      /\ DOMAIN w.vm_area = DOMAIN v.vm_area
      /\ \A i \in DOMAIN v.vm_area :
           /\ w.vm_area[i].start = v.vm_area[i].start
           /\ w.vm_area[i].end = v.vm_area[i].end
           /\ w.vm_area[i].prot = IF v.vm_area[i].prot = "RW" THEN "COPY_ON_WRITE"
                                  ELSE v.vm_area[i].prot
      /\ \A x \in Pages :
           w.pgd_valid[x] =
             IF \E i \in DOMAIN v.vm_area :
                  /\ v.vm_area[i].prot = "RW"
                  /\ PageOf(v.vm_area[i].start) <= x
                  /\ x <= PageOf(v.vm_area[i].end)
             THEN "RONLY" ELSE v.pgd_valid[x]
  BY ProtectedEffect
<1> HIDE DEF w
<1> SUFFICES ASSUME NEW a \in Addr, PageOf(a) = pg, Writable(w, a)
             PROVE  MustCopy(w, a)
  BY DEF SafePage, w
<1>2. PICK i \in DOMAIN w.vm_area : AreaOf(w, a) = w.vm_area[i] /\ Holds(w.vm_area[i], a)
  BY <1>1, AreaOfIs DEF Writable
<1>3. v.vm_area[i] \in AreaType
  <2>1. v.vm_area \in Seq(AreaType)
    BY DEF VmType, AreaType, AreaNames
  <2> QED
    BY <1>1, <2>1
<1>4. v.vm_area[i].prot = "RW" /\ w.vm_area[i].prot = "COPY_ON_WRITE"
  BY <1>1, <1>2, <1>3 DEF Writable, NoCow, AreaType
<1>5. PageOf(v.vm_area[i].start) <= pg /\ pg <= PageOf(v.vm_area[i].end)
  <2>1. v.vm_area[i].start \in Nat /\ v.vm_area[i].end \in Nat /\ a \in Nat
    BY <1>3, Sizes DEF AreaType, Addr
  <2>2. v.vm_area[i].start <= a /\ a <= v.vm_area[i].end
    BY <1>1, <1>2 DEF Holds
  <2> QED
    BY <2>1, <2>2, PageMonotone
<1>6. w.pgd_valid[pg] = "RONLY"
  BY <1>1, <1>4, <1>5
<1> QED
  BY <1>2, <1>4, <1>6 DEF MustCopy

LEMMA ProtectedArgsFirst ==
    ASSUME NEW v \in VmType, ArgsFirst(v)
    PROVE  ArgsFirst(Protected(v))
<1> DEFINE w == Protected(v)
<1>1. /\ DOMAIN w.vm_area = DOMAIN v.vm_area
      /\ \A i \in DOMAIN v.vm_area :
           /\ w.vm_area[i].section_name = v.vm_area[i].section_name
           /\ w.vm_area[i].prot = IF v.vm_area[i].prot = "RW" THEN "COPY_ON_WRITE"
                                  ELSE v.vm_area[i].prot
  BY ProtectedEffect
<1> HIDE DEF w
<1> QED
  BY <1>1 DEF ArgsFirst, w

\* What execve makes of the areas.
LEMMA ExecutedArgsFirst ==
    ASSUME NEW m \in MemState, Base(m.v), NEW image \in ImageType,
           EndAt(image) <= StackStart
    PROVE  LET n == Executed(m, image) IN
           /\ ArgsFirst(n.v)
           /\ m.v.vm_area = <<>> \/ NoCow(m.v) => NoCow(n.v)
<1> DEFINE n == Executed(m, image)
           s == n.v.vm_area
<1>1. /\ m.v.vm_area = <<>> => NewAreas(s, image)
      /\ m.v.vm_area # <<>> =>
           \E j \in DOMAIN m.v.vm_area : KeptAreas(s, image, m.v.vm_area[j])
  BY ExecutedEffect
<1>2. /\ TextArea(image).section_name = "text" /\ TextArea(image).prot = "RONLY"
      /\ DataArea(image).section_name = "data" /\ DataArea(image).prot = "RW"
      /\ BssArea(image).section_name = "bss" /\ BssArea(image).prot = "RW"
      /\ StackArea.section_name = "stack" /\ StackArea.prot = "RW"
      /\ ArgsArea.section_name = "cmd_args" /\ ArgsArea.prot = "RW"
  BY DEF TextArea, DataArea, BssArea, StackArea, ArgsArea, Area
<1> HIDE DEF s
<1>3. CASE m.v.vm_area = <<>>
  <2>1. /\ \A i \in DOMAIN s : s[i].prot # "COPY_ON_WRITE"
        /\ \A i \in DOMAIN s : s[i].section_name # "text" => s[i].prot = "RW"
        /\ \A i \in DOMAIN s : s[i].section_name = "cmd_args" => s[i].prot = "RW"
    BY <1>1, <1>2, <1>3 DEF NewAreas
  <2> QED
    BY <2>1 DEF ArgsFirst, NoCow, s
<1>4. CASE m.v.vm_area # <<>>
  <2>1. PICK j \in DOMAIN m.v.vm_area : KeptAreas(s, image, m.v.vm_area[j])
    BY <1>1, <1>4
  <2>2. \A i \in DOMAIN s : s[i].section_name = "cmd_args" => i = 1
    BY <1>2, <2>1 DEF KeptAreas
  <2>3. NoCow(m.v) => \A i \in DOMAIN s : s[i].prot # "COPY_ON_WRITE"
    BY <1>2, <2>1 DEF KeptAreas, NoCow
  <2> QED
    BY <1>4, <2>2, <2>3 DEF ArgsFirst, NoCow, s
<1> QED
  BY <1>3, <1>4

\* Of the pages a process had before execve, only those of its arguments are
\* valid behind it.
LEMMA ExecutedOldPages ==
    ASSUME NEW m \in MemState, AreasOK(m.v), PagesOK(m.v), NEW image \in ImageType,
           EndAt(image) <= StackStart, NEW pg \in Pages,
           Valid(Executed(m, image).v, pg), ~ New(ClearedOf(m), Executed(m, image), pg)
    PROVE  /\ ArgsStart <= pg
           /\ Executed(m, image).v.pgd_valid[pg] = m.v.pgd_valid[pg]
           /\ Frame(Executed(m, image).v, pg) = Frame(m.v, pg)
           /\ Valid(m.v, pg)
<1> DEFINE m0 == ClearedOf(m)
           n == Executed(m, image)
<1>1. Base(m.v) /\ m.v \in VmType
  BY DEF Base, MemState
<1>2. Kept(m0, n, pg) /\ Valid(m0.v, pg)
  <2>1. Grows(m0, n)
    BY <1>1, ExecutedEffect
  <2> QED
    BY <2>1 DEF Grows, New
<1> HIDE DEF n
<1>3. m0.v = Cleared(m.v)
  BY <1>1 DEF ClearedOf, MemState
<1> HIDE DEF m0
<1>4. /\ m0.v.pgd = m.v.pgd
      /\ m0.v.pgd_valid[pg] =
           IF m.v.pgd[pg] # NULL /\ pg < ArgsStart THEN "INVALID" ELSE m.v.pgd_valid[pg]
  BY <1>1, <1>3, ClearedIs
<1>5. Valid(m.v, pg) /\ m0.v.pgd_valid[pg] = m.v.pgd_valid[pg]
  BY <1>2, <1>4 DEF Valid
<1>6. ArgsStart <= pg
  <2>1. pg < ArgsStart => m.v.pgd[pg] # NULL
    BY <1>5, PagesAre, Sizes DEF PagesOK
  <2> QED
    BY <1>2, <1>4, <2>1, PagesAre, Sizes DEF Valid
<1> QED
  BY <1>2, <1>4, <1>5, <1>6 DEF Kept, Frame, n

LEMMA ExecutedSafe ==
    ASSUME NEW m \in MemState, AreasOK(m.v), PagesOK(m.v), ArgsFirst(m.v),
           NEW image \in ImageType, EndAt(image) <= StackStart, NEW pg \in Pages,
           Valid(Executed(m, image).v, pg), ~ New(ClearedOf(m), Executed(m, image), pg),
           SafePage(m.v, pg)
    PROVE  SafePage(Executed(m, image).v, pg)
<1> DEFINE n == Executed(m, image)
           s == m.v.vm_area
<1>1. /\ ArgsStart <= pg
      /\ n.v.pgd_valid[pg] = m.v.pgd_valid[pg]
      /\ Valid(m.v, pg)
  BY ExecutedOldPages
<1>2. m.v \in VmType /\ s # <<>> /\ Base(m.v)
  BY DEF MemState, AreasOK, Base
<1>3. PICK j \in DOMAIN s :
        s[j].section_name = "cmd_args" /\ KeptAreas(n.v.vm_area, image, s[j])
  BY <1>2, ExecutedEffect
<1>4. n.v \in VmType
  BY <1>2, ExecutedEffect DEF MemState
<1> HIDE DEF n
<1> SUFFICES ASSUME NEW a \in Addr, PageOf(a) = pg, Writable(n.v, a)
             PROVE  MustCopy(n.v, a)
  BY DEF SafePage, n
<1>5. ArgsStart <= a /\ a <= ArgsEnd /\ a \in Nat
  <2>1. a \in Nat /\ a <= ArgsEnd
    BY Sizes DEF Addr
  <2>2. pg \in Nat /\ pg <= a
    BY <2>1, PageFacts
  <2> QED
    BY <1>1, <2>1, <2>2, Sizes
<1>6. AreaOK(s[j]) /\ Holds(s[j], a)
  BY <1>3, <1>5 DEF AreasOK, AreaOK, Holds
<1>7. AreaOf(n.v, a) = s[j]
  BY <1>3, <1>4, <1>6, AreaOfFirst DEF KeptAreas
<1>8. InArea(m.v, a)
  BY <1>6 DEF InArea
<1>9. AreaOf(m.v, a).prot = s[j].prot
  <2>1. PICK i \in DOMAIN s : /\ AreaOf(m.v, a) = s[i]
                              /\ Holds(s[i], a)
                              /\ \A k \in DOMAIN s : Holds(s[k], a) => i <= k
    BY <1>2, <1>8, AreaOfIs
  <2>2. s \in Seq(AreaType)
    BY <1>2 DEF VmType, AreaType, AreaNames
  <2>3. s[i] \in AreaType /\ i \in Nat /\ i >= 1
    BY <2>2
  <2>4. s[i].section_name # "text"
    <3>1. AreaOK(s[i]) /\ a <= s[i].end /\ s[i].end \in Nat
      BY <2>1, <2>3, Sizes DEF AreasOK, Holds, AreaType, Addr
    <3> QED
      BY <1>5, <3>1, Sizes DEF AreaOK
  <2>5. CASE j = 1
    BY <1>6, <2>1, <2>3, <2>5
  <2>6. CASE j # 1
    BY <1>3, <2>1, <2>4, <2>6 DEF ArgsFirst
  <2> QED
    BY <2>5, <2>6
<1>10. Writable(m.v, a)
  BY <1>1, <1>7, <1>8, <1>9 DEF Writable
<1>11. MustCopy(m.v, a)
  BY <1>10 DEF SafePage
<1> QED
  BY <1>1, <1>7, <1>9, <1>11 DEF MustCopy

\* What is safe depends on the areas and on what is valid.
LEMMA SameSafe ==
    ASSUME NEW v, NEW w, NEW pg \in Pages, w.vm_area = v.vm_area,
           w.pgd_valid[pg] = v.pgd_valid[pg], SafePage(v, pg)
    PROVE  SafePage(w, pg)
BY DEF SafePage, Writable, MustCopy, InArea, AreaOf, Valid

LEMMA SameGuarded ==
    ASSUME NEW v, NEW w, NEW v1, NEW w1, GuardedFrom(v, w),
           v1.vm_area = v.vm_area, v1.pgd_valid = v.pgd_valid,
           w1.pgd_valid = w.pgd_valid,
           \A pg \in Pages : Frame(v1, pg) = Frame(v, pg) /\ Frame(w1, pg) = Frame(w, pg)
    PROVE  GuardedFrom(v1, w1)
<1> SUFFICES ASSUME NEW x \in Pages, NEW y \in Pages,
                    Valid(v1, x), Valid(w1, y), Frame(v1, x) = Frame(w1, y)
             PROVE  SafePage(v1, x)
  BY DEF GuardedFrom
<1>1. Valid(v, x) /\ Valid(w, y) /\ Frame(v, x) = Frame(w, y)
  BY DEF Valid
<1>2. SafePage(v, x)
  BY <1>1 DEF GuardedFrom
<1> QED
  BY <1>2, SameSafe

\* The areas of no process change.
LEMMA SameAreasInv ==
    ASSUME AreasInv, Live' = Live, \A p \in Live : vm'[p].vm_area = vm[p].vm_area
    PROVE  AreasInv'
<1>1. \A p \in Live : ArgsFirst(vm'[p])
  BY DEF AreasInv, ArgsFirst
<1>2. Live # Pids => \A p \in Live : NoCow(vm'[p])
  BY DEF AreasInv, NoCow
<1> QED
  BY <1>1, <1>2 DEF AreasInv, Pids

\* A load or store that does not copy.
LEMMA TouchCow ==
    ASSUME CowInv, LayoutInv', NEW p \in Live, NEW pg \in Pages,
           vm' = [vm EXCEPT ![p] = Touched(vm[p], pg)],
           UNCHANGED <<allocated_page, store>>
    PROVE  CowInv'
<1> DEFINE w == Touched(vm[p], pg)
<1>1. p \in Pids /\ vm[p] \in VmType /\ vm \in [Pids -> VmType \cup {NULL}]
  BY LiveTypes DEF CowInv, LayoutInv, VmInv, TypeOK
<1>2. /\ w \in VmType /\ w.vm_area = vm[p].vm_area /\ w.pgd_valid = vm[p].pgd_valid
      /\ \A x \in Pages : Frame(w, x) = Frame(vm[p], x)
  BY <1>1, TouchedType
<1>3. vm' = [vm EXCEPT ![p] = w]
  OBVIOUS
<1> HIDE DEF w
<1>4. vm'[p] = w /\ \A q \in Pids \ {p} : vm'[q] = vm[q]
  BY <1>1, <1>3
<1>5. Live' = Live
  BY <1>1, <1>2, <1>4, NullAssumption DEF Live
<1>6. \A q \in Live : /\ vm'[q].vm_area = vm[q].vm_area
                      /\ vm'[q].pgd_valid = vm[q].pgd_valid
                      /\ \A x \in Pages : Frame(vm'[q], x) = Frame(vm[q], x)
  BY <1>2, <1>4 DEF Live
<1>7. AreasInv'
  BY <1>5, <1>6, SameAreasInv DEF CowInv
<1>8. StoreFresh'
  BY DEF CowInv, StoreFresh
<1>9. Guarded'
  <2> SUFFICES ASSUME NEW q \in Live, NEW r \in Live, r # q
               PROVE  GuardedFrom(vm'[q], vm'[r])
    BY <1>5 DEF Guarded
  <2>1. GuardedFrom(vm[q], vm[r])
    BY DEF CowInv, Guarded
  <2> QED
    BY <1>6, <2>1, SameGuarded
<1> QED
  BY <1>7, <1>8, <1>9 DEF CowInv

LEMMA BeginCopyCow ==
    ASSUME ~ Threads, CowInv, LayoutInv', NEW p \in Pids, NEW a, NEW b, BeginCopy(p, a, b)
    PROVE  CowInv'
<1>1. /\ store \in [Pids -> StoreType \cup {NULL}]
      /\ \A q \in Pids : store[q] = NULL
      /\ store'[p].frame = FirstFree(allocated_page)
      /\ \A q \in Pids \ {p} : store'[q] = NULL
      /\ UNCHANGED <<vm, allocated_page>>
  BY DEF BeginCopy, Quiet, CowInv, LayoutInv, VmInv, TypeOK
<1>2. StoreFresh'
  BY <1>1 DEF StoreFresh
<1>3. AreasInv' /\ Guarded'
  BY <1>1 DEF CowInv, AreasInv, Guarded, Live
<1> QED
  BY <1>2, <1>3 DEF CowInv

\* With a page left, the copy of a page is on no page that anyone maps.
LEMMA EndCopyCow ==
    ASSUME CowInv, LayoutInv', Room, NEW p \in Pids, EndCopy(p)
    PROVE  CowInv'
<1> DEFINE f == store[p].frame
           pg == PageOf(store[p].addr)
           w == [vm[p] EXCEPT !.pgd[pg] = f, !.pgd_valid[pg] = "RW"]
<1>1. /\ p \in Live /\ vm[p] \in VmType /\ vm[p] # NULL /\ store[p] \in StoreType
      /\ store[p] # NULL /\ store \in [Pids -> StoreType \cup {NULL}]
      /\ vm \in [Pids -> VmType \cup {NULL}]
  BY DEF EndCopy, CowInv, LayoutInv, VmInv, TypeOK, StoreOK, Live
<1>2. pg \in Pages /\ f \in AllFrames /\ f # NULL
  BY <1>1, PagesAre, NullAssumption, Sizes DEF StoreType, AllFrames
<1>3. /\ w \in VmType /\ w.vm_area = vm[p].vm_area
      /\ w.pgd[pg] = f
      /\ \A x \in Pages \ {pg} :
           w.pgd[x] = vm[p].pgd[x] /\ w.pgd_valid[x] = vm[p].pgd_valid[x]
  BY <1>1, <1>2 DEF VmType, AllFrames
<1>4. vm' = [vm EXCEPT ![p] = w]
  BY <1>1 DEF EndCopy, VmType
<1>5. \A q \in Pids : store'[q] = NULL
  BY <1>1 DEF EndCopy, CowInv, StoreFresh
<1>6. f \notin allocated_page
  BY <1>1, FirstFreeIs DEF CowInv, StoreFresh, Room
<1> HIDE DEF w, f, pg
<1>7. vm'[p] = w /\ \A q \in Pids \ {p} : vm'[q] = vm[q]
  BY <1>1, <1>4
<1>8. Live' = Live
  BY <1>1, <1>3, <1>7, NullAssumption DEF Live
<1>9. AreasInv'
  BY <1>3, <1>7, <1>8, SameAreasInv DEF CowInv, Live
<1>10. StoreFresh'
  BY <1>5 DEF StoreFresh
<1>11. /\ Frame(w, pg) = f
       /\ \A x \in Pages \ {pg} : Frame(w, x) = Frame(vm[p], x)
  BY <1>2, <1>3 DEF Frame
<1>12. \A q \in Live : \A y \in Pages : Frame(vm[q], y) # f
  BY <1>6 DEF CowInv, LayoutInv, VmInv, MappedOK
<1>13. Guarded'
  <2> SUFFICES ASSUME NEW q \in Live, NEW r \in Live, r # q,
                      NEW x \in Pages, NEW y \in Pages,
                      Valid(vm'[q], x), Valid(vm'[r], y),
                      Frame(vm'[q], x) = Frame(vm'[r], y)
               PROVE  SafePage(vm'[q], x)
    BY <1>8 DEF Guarded, GuardedFrom
  <2>0. q \in Pids /\ r \in Pids /\ GuardedFrom(vm[q], vm[r])
    BY DEF Live, CowInv, Guarded
  <2>1. CASE q = p
    <3>1. vm'[r] = vm[r] /\ vm'[q] = w
      BY <1>7, <2>0, <2>1
    <3>2. x # pg
      BY <1>11, <1>12, <3>1
    <3>3. Valid(vm[p], x) /\ Frame(vm[p], x) = Frame(vm[r], y)
      BY <1>3, <1>11, <3>1, <3>2 DEF Valid
    <3>4. SafePage(vm[p], x)
      BY <2>0, <2>1, <3>1, <3>3 DEF GuardedFrom
    <3> QED
      BY <1>3, <3>1, <3>2, <3>4, SameSafe
  <2>2. CASE r = p
    <3>1. vm'[q] = vm[q] /\ vm'[r] = w
      BY <1>7, <2>0, <2>2
    <3>2. y # pg
      BY <1>11, <1>12, <3>1
    <3>3. Valid(vm[p], y) /\ Frame(vm[q], x) = Frame(vm[p], y)
      BY <1>3, <1>11, <3>1, <3>2 DEF Valid
    <3> QED
      BY <2>0, <2>2, <3>1, <3>3 DEF GuardedFrom
  <2>3. CASE q # p /\ r # p
    BY <1>7, <2>0, <2>3 DEF GuardedFrom
  <2> QED
    BY <2>1, <2>2, <2>3
<1> QED
  BY <1>9, <1>10, <1>13 DEF CowInv

\* The second process is the last: fork finds no area that is copy-on-write.
LEMMA ForkCow ==
    ASSUME MaxPid <= 2, CowInv, LayoutInv', NEW p \in Pids, NEW q \in Pids, Fork(p, q)
    PROVE  CowInv'
<1> DEFINE w == Protected(vm[p])
<1>1. /\ p \in Live /\ vm[p] \in VmType /\ vm[p] # NULL /\ p # q /\ vm[q] = NULL
      /\ vm \in [Pids -> VmType \cup {NULL}]
  BY DEF Fork, CowInv, LayoutInv, VmInv, TypeOK, Live
<1>2. NoCow(vm[p]) /\ ArgsFirst(vm[p])
  BY <1>1 DEF CowInv, AreasInv, Live
<1>3. /\ w \in VmType /\ ArgsFirst(w)
      /\ \A x \in Pages : SafePage(w, x)
  BY <1>1, <1>2, ProtectedEffect, ProtectedArgsFirst, ProtectedSafe
<1>4. vm' = [vm EXCEPT ![p] = w, ![q] = w] /\ UNCHANGED <<allocated_page, store>>
  BY DEF Fork, Parent, Child
<1> HIDE DEF w
<1>5. Pids = {p, q}
  BY <1>1, NullAssumption DEF Pids
<1>6. \A r \in Pids : vm'[r] = w
  BY <1>1, <1>4, <1>5
<1>7. Live' = Pids
  BY <1>3, <1>6, NullAssumption DEF Live
<1>8. AreasInv'
  BY <1>3, <1>6, <1>7 DEF AreasInv, Pids
<1>9. StoreFresh'
  BY <1>4 DEF CowInv, StoreFresh
<1>10. Guarded'
  BY <1>3, <1>6, <1>7 DEF Guarded, GuardedFrom
<1> QED
  BY <1>8, <1>9, <1>10 DEF CowInv

LEMMA ExecveCow ==
    ASSUME CowInv, LayoutInv', Room', NEW p \in Pids, NEW image, Fits(image),
           Execve(p, image)
    PROVE  CowInv'
<1> DEFINE m == [v |-> vm[p], mem |-> mem, used |-> allocated_page]
           m0 == ClearedOf(m)
           n == Executed(m, image)
<1>1. /\ p \in Live /\ vm[p] \in VmType /\ vm[p] # NULL
      /\ vm \in [Pids -> VmType \cup {NULL}]
      /\ AreasOK(vm[p]) /\ PagesOK(vm[p]) /\ ArgsFirst(vm[p])
  BY DEF Execve, CowInv, LayoutInv, VmInv, TypeOK, AreasInv, Live
<1>2. m \in MemState /\ Base(m.v) /\ m.v = vm[p] /\ m.used = allocated_page
  BY <1>1 DEF CowInv, LayoutInv, VmInv, TypeOK, MemState, Base, AllFrames
<1>3. vm' = [vm EXCEPT ![p] = n.v] /\ allocated_page' = n.used /\ UNCHANGED store
  BY DEF Execve
<1> HIDE DEF m
<1>4. image \in ImageType /\ EndAt(image) <= StackStart
  BY DEF Fits
<1>5. n \in MemState /\ Grows(m0, n)
  BY <1>2, <1>4, ExecutedEffect
<1>6. ArgsFirst(n.v) /\ (NoCow(vm[p]) => NoCow(n.v))
  BY <1>2, <1>4, ExecutedArgsFirst
<1>7. \A pg \in Pages : Valid(n.v, pg) /\ ~ New(m0, n, pg) =>
         /\ Frame(n.v, pg) = Frame(vm[p], pg)
         /\ Valid(vm[p], pg)
         /\ SafePage(vm[p], pg) => SafePage(n.v, pg)
  BY <1>1, <1>2, <1>4, ExecutedOldPages, ExecutedSafe
<1> HIDE DEF n
<1>8. m0.used = m.used
  BY <1>2 DEF ClearedOf, MemState
<1> HIDE DEF m0
<1>9. n.v \in VmType /\ n.used \subseteq AllFrames
  BY <1>5 DEF MemState
<1>10. vm'[p] = n.v /\ \A q \in Pids \ {p} : vm'[q] = vm[q]
  BY <1>1, <1>3
<1>11. Live' = Live
  BY <1>1, <1>9, <1>10, NullAssumption DEF Live
<1>12. AreasInv'
  <2>1. \A q \in Live : ArgsFirst(vm'[q])
    BY <1>6, <1>10 DEF CowInv, AreasInv, Live
  <2>2. Live # Pids => \A q \in Live : NoCow(vm'[q])
    BY <1>1, <1>6, <1>10 DEF CowInv, AreasInv, Live
  <2> QED
    BY <1>11, <2>1, <2>2 DEF AreasInv, Pids
<1>13. StoreFresh'
  BY <1>3 DEF StoreFresh, Execve, Quiet
<1>14. \A pg \in Pages : New(m0, n, pg) =>
          \A q \in Live : \A y \in Pages : Frame(n.v, pg) # Frame(vm[q], y)
  <2> SUFFICES ASSUME NEW pg \in Pages, New(m0, n, pg), NEW q \in Live, NEW y \in Pages
               PROVE  Frame(n.v, pg) # Frame(vm[q], y)
    OBVIOUS
  <2>1. n.v.pgd[pg] \notin m.used /\ n.v.pgd[pg] \in n.used
    BY <1>3, <1>5, <1>8 DEF Grows, Room
  <2>2. n.v.pgd[pg] # NULL
    BY <1>9, <2>1, NullAssumption, Sizes DEF AllFrames
  <2>3. Frame(vm[q], y) \in m.used
    BY <1>2 DEF CowInv, LayoutInv, VmInv, MappedOK
  <2> QED
    BY <2>1, <2>2, <2>3 DEF Frame
<1>15. Guarded'
  <2> SUFFICES ASSUME NEW q \in Live, NEW r \in Live, r # q,
                      NEW x \in Pages, NEW y \in Pages,
                      Valid(vm'[q], x), Valid(vm'[r], y),
                      Frame(vm'[q], x) = Frame(vm'[r], y)
               PROVE  SafePage(vm'[q], x)
    BY <1>11 DEF Guarded, GuardedFrom
  <2>0. q \in Pids /\ r \in Pids /\ GuardedFrom(vm[q], vm[r])
    BY DEF Live, CowInv, Guarded
  <2>1. CASE q = p
    <3>1. vm'[r] = vm[r] /\ vm'[q] = n.v
      BY <1>10, <2>0, <2>1
    <3>2. ~ New(m0, n, x)
      BY <1>14, <3>1
    <3>3. SafePage(vm[p], x)
      BY <1>7, <2>0, <2>1, <3>1, <3>2 DEF GuardedFrom
    <3> QED
      BY <1>7, <3>1, <3>2, <3>3
  <2>2. CASE r = p
    <3>1. vm'[q] = vm[q] /\ vm'[r] = n.v
      BY <1>10, <2>0, <2>2
    <3>2. ~ New(m0, n, y)
      BY <1>14, <3>1
    <3> QED
      BY <1>7, <2>0, <2>2, <3>1, <3>2 DEF GuardedFrom
  <2>3. CASE q # p /\ r # p
    BY <1>10, <2>0, <2>3 DEF GuardedFrom
  <2> QED
    BY <2>1, <2>2, <2>3
<1> QED
  BY <1>12, <1>13, <1>15 DEF CowInv

LEMMA InitCow ==
    ASSUME Packed(Boot), Init
    PROVE  CowInv
<1> DEFINE z == [v |-> BlankVm, mem |-> [x \in Phys |-> 0], used |-> {}]
           n == Executed(z, Boot)
<1>1. BlankVm \in VmType /\ BlankVm.vm_area = <<>>
  BY DEF VmType, BlankVm
<1>2. z \in MemState /\ z.v.vm_area = <<>> /\ Base(z.v)
  BY <1>1, MemoryAssumption DEF MemState, Base
<1>3. vm = [p \in Pids |-> IF p = 1 THEN n.v ELSE NULL] /\ store = [p \in Pids |-> NULL]
  BY DEF Init
<1> HIDE DEF z
<1>4. Boot \in ImageType /\ EndAt(Boot) <= StackStart
  BY MemoryAssumption, ImagesOK
<1>5. ArgsFirst(n.v) /\ NoCow(n.v)
  BY <1>2, <1>4, ExecutedArgsFirst
<1> HIDE DEF n
<1>6. \A p \in Live : p = 1 /\ vm[p] = n.v
  BY <1>3 DEF Live
<1>7. AreasInv
  BY <1>5, <1>6 DEF AreasInv
<1>8. Guarded
  BY <1>6 DEF Guarded
<1>9. StoreFresh
  BY <1>3 DEF StoreFresh
<1> QED
  BY <1>7, <1>8, <1>9, InitLayout DEF CowInv

LEMMA CowStep ==
    ASSUME ~ Threads, MaxPid <= 2, CowInv, Room, Room',
           NEW addrs, NEW images, Possible(addrs, images),
           \A image \in images : Packed(image),
           StepOf(addrs, images) \/ UNCHANGED vars
    PROVE  CowInv'
<1>1. LayoutInv'
  BY LayoutStep DEF CowInv
<1>2. CASE UNCHANGED vars
  BY <1>1, <1>2 DEF vars, CowInv, StoreFresh, AreasInv, Guarded, Live
<1>3. ASSUME NEW p \in Pids, NEW a \in addrs, vm[p] # NULL,
             vm' = [vm EXCEPT ![p] = Touched(vm[p], PageOf(a))],
             UNCHANGED <<allocated_page, store>>
      PROVE  CowInv'
  <2>1. p \in Live /\ PageOf(a) \in Pages
    BY <1>3, PagesAre DEF Live, Possible
  <2> QED
    BY <1>1, <1>3, <2>1, TouchCow
<1>4. ASSUME NEW p \in Pids, NEW a \in addrs, Load(p, a)
      PROVE  CowInv'
  BY <1>3, <1>4 DEF Load
<1>5. ASSUME NEW p \in Pids, NEW a \in addrs, NEW b \in Vals, StoreByte(p, a, b)
      PROVE  CowInv'
  BY <1>3, <1>5 DEF StoreByte
<1>6. ASSUME NEW p \in Pids, NEW a \in addrs, NEW b \in Vals, BeginCopy(p, a, b)
      PROVE  CowInv'
  BY <1>1, <1>6, BeginCopyCow
<1>7. ASSUME NEW p \in Pids, EndCopy(p)
      PROVE  CowInv'
  BY <1>1, <1>7, EndCopyCow
<1>8. ASSUME NEW p \in Pids, NEW q \in Pids, Fork(p, q)
      PROVE  CowInv'
  BY <1>1, <1>8, ForkCow
<1>9. ASSUME NEW p \in Pids, NEW image \in images, Execve(p, image)
      PROVE  CowInv'
  BY <1>1, <1>9, ExecveCow DEF Possible
<1> QED
  BY <1>2, <1>4, <1>5, <1>6, <1>7, <1>8, <1>9 DEF StepOf

\* The invariant says what is shared is protected.
LEMMA CowProtects == CowInv => SharedProtected
<1> SUFFICES ASSUME CowInv, NEW p \in Live, NEW a \in Addr,
                    PageOf(a) \in Shared(p), Private(vm[p], a)
             PROVE  MustCopy(vm[p], a)
  BY DEF SharedProtected
<1> DEFINE x == PageOf(a)
<1>1. PICK q \in Live \ {p} : \E y \in Pages :
        Maps(p, x) /\ Maps(q, y) /\ vm[p].pgd[x] = vm[q].pgd[y]
  BY DEF Shared
<1>2. PICK y \in Pages : Maps(p, x) /\ Maps(q, y) /\ vm[p].pgd[x] = vm[q].pgd[y]
  BY <1>1
<1>3. Valid(vm[p], x) /\ Valid(vm[q], y) /\ Frame(vm[p], x) = Frame(vm[q], y)
  BY <1>2 DEF Maps, Valid, Frame
<1>4. x \in Pages
  BY PagesAre
<1>5. SafePage(vm[p], x)
  BY <1>3, <1>4 DEF CowInv, Guarded, GuardedFrom
<1>6. InArea(vm[p], a)
  <2>1. PICK i \in DOMAIN vm[p].vm_area :
          vm[p].vm_area[i].start <= a /\ a < vm[p].vm_area[i].end
    BY DEF Private
  <2>2. vm[p] \in VmType
    BY LiveTypes DEF CowInv, LayoutInv, VmInv
  <2>3. vm[p].vm_area \in Seq(AreaType)
    BY <2>2 DEF VmType, AreaType, AreaNames
  <2>4. vm[p].vm_area[i] \in AreaType
    BY <2>3
  <2>5. vm[p].vm_area[i].end \in Nat /\ a \in Nat
    BY <2>4, Sizes DEF AreaType, Addr
  <2> QED
    BY <2>1, <2>5 DEF InArea, Holds
<1>7. Writable(vm[p], a)
  BY <1>6 DEF Private, Writable, Valid
<1> QED
  BY <1>5, <1>7 DEF SafePage

\* Copy-on-write protects what it shares: as long as two processes map the same
\* physical page, a store of either to a private address on it copies first.  It
\* takes two processes at most (fork passes over what is copy-on-write already),
\* stores that do not interleave (allocate_page is not atomic with the copy), and
\* memory and programs as above.
THEOREM SharedProtectedHolds ==
    ASSUME AllPacked, ~ Threads, MaxPid <= 2
    PROVE  Spec /\ []Room => []SharedProtected
<1>1. Init => CowInv
  BY InitCow, MemoryAssumption DEF AllPacked
<1>2. CowInv /\ Room /\ Room' /\ [Next]_vars => CowInv'
  BY CowStep, NextIs DEF AllPacked
<1>3. CowInv => SharedProtected
  BY CowProtects
<1> QED
  BY <1>1, <1>2, <1>3, PTL DEF Spec

=============================================================================
