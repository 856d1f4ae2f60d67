------------------------------ MODULE L1Cache ------------------------------
(***************************************************************************)
(* The level-1 caches of the CPUs over one memory (cache.h), with the use  *)
(* CPU::read and CPU::write make of them (cpu.h, where it is commented     *)
(* out).  A cache is direct mapped, and an operation touches the lines of  *)
(* one index only, in every cache, and the blocks of memory with that      *)
(* index: here there is one index, and an address is a tag and an offset.  *)
(***************************************************************************)
EXTENDS Naturals

CONSTANTS
    Cpus,     \* every CPU has a cache
    Tags,     \* the upper bits of an address
    Offsets,  \* the places in a block, 64 in the code
    Vals,     \* values of a byte
    Zero      \* 0, what memory holds at first

ASSUME CacheAssumption == Zero \in Vals

VARIABLES
    valid,  \* valid[c]: the state of the line of c; E does not outlast a write
    tag,    \* tag[c]
    block,  \* block[c][o]
    mem,    \* mem[t][o]
    last,   \* history: the byte written last to an address, by any CPU
    own     \* history: the offsets c has written since its line is M

vars == <<valid, tag, block, mem, last, own>>

Blocks == [Offsets -> Vals]

\* Only valid is initialised: tags and blocks hold anything.
Init ==
    /\ valid = [c \in Cpus |-> "I"]
    /\ tag \in [Cpus -> Tags]
    /\ block \in [Cpus -> Blocks]
    /\ mem = [t \in Tags |-> [o \in Offsets |-> Zero]]
    /\ last = mem
    /\ own = [c \in Cpus |-> {}]

-----------------------------------------------------------------------------

\* L1Cache::read finds the byte.
Hit(c, t) == valid[c] # "I" /\ tag[c] = t

\* The caches whose line of this tag is not in memory yet.
Dirty(c, t) == {d \in Cpus \ {c} : tag[d] = t /\ valid[d] = "M"}

\* Slip: a line written back stays M.
SharedStaysM(c, t) == [valid EXCEPT ![c] = "S"]

\* immediate_write leaves the lines it wrote, and the load its own, S.
Shared(c, t) ==
    [d \in Cpus |-> IF d = c \/ d \in Dirty(c, t) THEN "S" ELSE valid[d]]

\* Memory when the dirty lines of this tag have been written back.
WrittenBack(c, t) ==
    [mem EXCEPT ![t] = IF Dirty(c, t) = {} THEN @
                       ELSE block[CHOOSE d \in Dirty(c, t) : TRUE]]

\* CPU::read of a byte that is in the cache changes nothing; of another it is
\* burst_load, which first writes back what the line holds, valid or not, to
\* the place its tag names, set or not.
Load(c, t) ==
    LET evicted == [WrittenBack(c, t) EXCEPT ![tag[c]] = block[c]] IN
    /\ ~ Hit(c, t)
    /\ mem' = evicted
    /\ block' = [block EXCEPT ![c] = evicted[t]]
    /\ tag' = [tag EXCEPT ![c] = t]
    /\ valid' = Shared(c, t)
    /\ own' = [d \in Cpus |-> IF valid'[d] = "M" THEN own[d] ELSE {}]
    /\ UNCHANGED last

\* Slips: the line stays in the state it has while the others are told; the
\* copies of the others stay valid.
InvalidatedE(c, t) ==
    [d \in Cpus |-> IF d = c THEN "E" ELSE IF tag[d] = t THEN "I" ELSE valid[d]]

InvalidatedNone(c, t) == [valid EXCEPT ![c] = "M"]

\* The line of c is M, and every other of that tag invalid, written back or not.
Invalidated(c, t) ==
    [d \in Cpus |-> IF d = c THEN "M" ELSE IF tag[d] = t THEN "I" ELSE valid[d]]

\* CPU::write is lazy_write: a line with another tag is written back, valid or
\* not, and keeps its bytes; the block written to is not loaded.
Store(c, t, o, b) ==
    /\ mem' = IF tag[c] = t THEN mem ELSE [mem EXCEPT ![tag[c]] = block[c]]
    /\ block' = [block EXCEPT ![c][o] = b]
    /\ tag' = [tag EXCEPT ![c] = t]
    /\ valid' = Invalidated(c, t)
    /\ last' = [last EXCEPT ![t][o] = b]
    /\ own' = [d \in Cpus |->
                 IF d = c THEN (IF Hit(c, t) THEN own[c] ELSE {}) \cup {o}
                 ELSE IF valid'[d] = "M" THEN own[d] ELSE {}]

Next ==
    \E c \in Cpus, t \in Tags :
        \/ Load(c, t)
        \/ \E o \in Offsets, b \in Vals : Store(c, t, o, b)

Spec == Init /\ [][Next]_vars

-----------------------------------------------------------------------------
(* Properties.                                                             *)

\* The variables stay in their types.
TypeOK ==
    /\ valid \in [Cpus -> {"I", "M", "S"}]
    /\ tag \in [Cpus -> Tags]
    /\ block \in [Cpus -> Blocks]
    /\ mem \in [Tags -> Blocks]
    /\ last \in [Tags -> Blocks]
    /\ own \in [Cpus -> SUBSET Offsets]

\* "Refer to MSEI protocol" (README.md): while one cache has a line M no other
\* has a valid copy of it.
SingleWriter ==
    \A c, d \in Cpus :
        c # d /\ valid[c] = "M" /\ tag[d] = tag[c] => valid[d] = "I"

\* A byte a CPU has written since it owns the line is, in its cache, the last
\* that any CPU wrote to that address.
OwnWritesLast ==
    \A c \in Cpus : valid[c] = "M" =>
        \A o \in own[c] : block[c][o] = last[tag[c]][o]

=============================================================================
