----------------------------- MODULE FilesProofs -----------------------------
(***************************************************************************)
(* What Files promises for any number of processes, descriptors, files and *)
(* opens, and any length of a buffer.                                      *)
(***************************************************************************)
EXTENDS Files, SequenceTheorems, TLAPS

-----------------------------------------------------------------------------
(* The operators on buffers.                                               *)

\* The facts of FilesAssumption, one by one.
LEMMA Bounds ==
    /\ MaxPid \in Nat /\ MaxFd \in Nat /\ MaxPid > 0 /\ MaxFd > 1
    /\ MaxLen \in Nat /\ MaxFiles \in Nat /\ MaxOpen \in Nat /\ MaxChunk \in Nat
  BY FilesAssumption

\* A function on 1 .. n is a sequence of length n.
LEMMA FunctionSeq ==
    ASSUME NEW S, NEW n \in Nat, NEW f \in [1 .. n -> S]
    PROVE  f \in Seq(S) /\ Len(f) = n
  OBVIOUS

\* A sequence with one element replaced.
LEMMA Replaced ==
    ASSUME NEW S, NEW s \in Seq(S), NEW k \in DOMAIN s, NEW e \in S
    PROVE  /\ [s EXCEPT ![k] = e] \in Seq(S)
           /\ Len([s EXCEPT ![k] = e]) = Len(s)
           /\ DOMAIN [s EXCEPT ![k] = e] = DOMAIN s
           /\ \A i \in DOMAIN s : [s EXCEPT ![k] = e][i] = IF i = k THEN e ELSE s[i]
<1>1. DOMAIN s = 1 .. Len(s)
  BY LenProperties
<1>2. QED
  BY <1>1, ExceptSeq

\* Bytes written into a buffer: those of the sequence from from on, as far as
\* the buffer goes, and the old ones elsewhere.
LEMMA FilledType ==
    ASSUME NEW c \in [Positions -> Bytewise], NEW from \in Nat,
           NEW b \in Seq(Bytewise)
    PROVE  Filled(c, from, b) \in [Positions -> Bytewise]
<1>1. ASSUME NEW i \in Positions, from <= i, i < from + Len(b)
      PROVE  b[i - from + 1] \in Bytewise
  <2>1. i - from + 1 \in 1 .. Len(b)
    BY <1>1, Bounds, LenProperties DEF Positions
  <2>2. QED
    BY <2>1, ElementOfSeq
<1>2. QED
  BY <1>1 DEF Filled

\* What is left of a sequence that is cut after n elements.
LEMMA PrefixIs ==
    ASSUME NEW S, NEW b \in Seq(S), NEW n \in Nat
    PROVE  /\ Prefix(b, n) \in Seq(S)
           /\ Len(Prefix(b, n)) = IF n < Len(b) THEN n ELSE Len(b)
           /\ \A i \in 1 .. Len(Prefix(b, n)) : Prefix(b, n)[i] = b[i]
<1> DEFINE k == IF n < Len(b) THEN n ELSE Len(b)
<1>1. k \in 0 .. Len(b)
  BY LenProperties
<1>2. \A i \in 1 .. k : b[i] \in S
  BY <1>1, ElementOfSeq
<1>3. /\ SubSeq(b, 1, k) \in Seq(S)
      /\ Len(SubSeq(b, 1, k)) = k
      /\ \A i \in 1 .. k : SubSeq(b, 1, k)[i] = b[i]
  <2> HIDE DEF k
  <2>1. k \in Int /\ 1 \in Int
    BY <1>1
  <2>2. QED
    BY <2>1, <1>1, <1>2, SubSeqProperties
<1>4. QED
  BY <1>3 DEF Prefix

\* The bytes of a file between two positions.
LEMMA BytesIs ==
    ASSUME NEW v \in VnodeType, NEW from \in Nat, NEW upto \in 0 .. MaxLen
    PROVE  /\ Bytes(v, from, upto) \in Seq(Bytewise)
           /\ Len(Bytes(v, from, upto)) = IF from <= upto THEN upto - from ELSE 0
           /\ \A i \in 1 .. Len(Bytes(v, from, upto)) :
                Bytes(v, from, upto)[i] = v.file_content[from + i - 1]
<1> DEFINE n == IF from <= upto THEN upto - from ELSE 0
<1>1. n \in Nat /\ 1 .. upto - from = 1 .. n
  BY Bounds
<1>2. \A i \in 1 .. n : v.file_content[from + i - 1] \in Bytewise
  <2>1. \A i \in 1 .. n : from + i - 1 \in Positions
    BY Bounds DEF Positions
  <2>2. QED
    BY <2>1 DEF VnodeType
<1>3. Bytes(v, from, upto) \in [1 .. n -> Bytewise]
  BY <1>1, <1>2 DEF Bytes
<1>4. Bytes(v, from, upto) \in Seq(Bytewise) /\ Len(Bytes(v, from, upto)) = n
  BY <1>1, <1>3, FunctionSeq
<1>5. QED
  BY <1>1, <1>4 DEF Bytes

-----------------------------------------------------------------------------
(* Types and positions.                                                    *)

\* stdin and stdout are never removed, nor are the entries that stand for them.
StdFiles == Len(vnode_list) >= 2 /\ Len(open_file_table) >= 2

\* The inductive invariant.
FilesInv == TypeOK /\ StdFiles /\ PosInFile

\* What a step does to the files: some may be new, the old ones keep their
\* names and get no shorter.
FilesGrow ==
    /\ vnode_list' \in Seq(VnodeType)
    /\ Len(vnode_list) <= Len(vnode_list')
    /\ \A v \in DOMAIN vnode_list :
         /\ vnode_list'[v].filename = vnode_list[v].filename
         /\ vnode_list[v].filesize <= vnode_list'[v].filesize

\* The tables, entry by entry.
LEMMA Entries ==
    ASSUME TypeOK
    PROVE  /\ Len(vnode_list) \in Nat /\ DOMAIN vnode_list = 1 .. Len(vnode_list)
           /\ \A v \in DOMAIN vnode_list :
                /\ vnode_list[v] \in VnodeType
                /\ vnode_list[v].filesize \in 0 .. MaxLen
                /\ vnode_list[v].filesize \in Nat
                /\ vnode_list[v].file_content \in [Positions -> Bytewise]
           /\ Len(open_file_table) \in Nat
           /\ DOMAIN open_file_table = 1 .. Len(open_file_table)
           /\ \A o \in DOMAIN open_file_table :
                /\ open_file_table[o] \in [vnode : DOMAIN vnode_list, pos : Nat]
                /\ open_file_table[o].vnode \in DOMAIN vnode_list
                /\ open_file_table[o].pos \in Nat
<1>1. /\ Len(vnode_list) \in Nat
      /\ DOMAIN vnode_list = 1 .. Len(vnode_list)
      /\ \A v \in 1 .. Len(vnode_list) : vnode_list[v] \in VnodeType
  <2>1. vnode_list \in Seq(VnodeType)
    BY DEF TypeOK
  <2>2. QED
    BY <2>1, LenProperties, ElementOfSeq
<1>2. \A v \in VnodeType :
        /\ v.filesize \in 0 .. MaxLen
        /\ v.filesize \in Nat
        /\ v.file_content \in [Positions -> Bytewise]
  BY Bounds DEF VnodeType
<1>3. /\ Len(open_file_table) \in Nat
      /\ DOMAIN open_file_table = 1 .. Len(open_file_table)
      /\ \A o \in 1 .. Len(open_file_table) :
           open_file_table[o] \in [vnode : DOMAIN vnode_list, pos : Nat]
  <2>1. open_file_table \in Seq([vnode : DOMAIN vnode_list, pos : Nat])
    BY DEF TypeOK
  <2>2. QED
    BY <2>1, LenProperties, ElementOfSeq
<1>4. QED
  BY <1>1, <1>2, <1>3

\* A step puts content into file k, which is then as long as before, or longer.
FilePut(k, size, content) ==
    /\ k \in DOMAIN vnode_list
    /\ size \in vnode_list[k].filesize .. MaxLen
    /\ content \in [Positions -> Bytewise]
    /\ vnode_list' = [vnode_list EXCEPT ![k].filesize = size,
                                        ![k].file_content = content]

\* A step puts bytes into file k behind its first bytes.
BytesPut(k, from, bytes, size) ==
    /\ k \in DOMAIN vnode_list /\ bytes \in Seq(Vals)
    /\ from \in 0 .. vnode_list[k].filesize
    /\ size \in vnode_list[k].filesize .. MaxLen
    /\ size = IF from + Len(bytes) > vnode_list[k].filesize
              THEN from + Len(bytes) ELSE vnode_list[k].filesize
    /\ vnode_list' = [vnode_list EXCEPT
         ![k].filesize = size,
         ![k].file_content = Filled(vnode_list[k].file_content, from, bytes)]

\* One file gets another content and is as long as before, or longer.
LEMMA OneFileGrows ==
    ASSUME TypeOK, NEW k, NEW size, NEW content, FilePut(k, size, content)
    PROVE  /\ FilesGrow
           /\ Len(vnode_list') = Len(vnode_list)
           /\ vnode_list'[k].filesize = size
           /\ vnode_list'[k].file_content = content
           /\ \A v \in DOMAIN vnode_list : v # k => vnode_list'[v] = vnode_list[v]
<1>0. /\ k \in DOMAIN vnode_list
      /\ size \in vnode_list[k].filesize .. MaxLen
      /\ content \in [Positions -> Bytewise]
      /\ vnode_list' = [vnode_list EXCEPT ![k].filesize = size,
                                          ![k].file_content = content]
  BY DEF FilePut
<1> DEFINE new == [vnode_list[k] EXCEPT !.filesize = size, !.file_content = content]
<1>1. /\ vnode_list \in Seq(VnodeType)
      /\ Len(vnode_list) \in Nat
      /\ DOMAIN vnode_list = 1 .. Len(vnode_list)
      /\ \A v \in DOMAIN vnode_list : vnode_list[v] \in VnodeType
  BY Entries DEF TypeOK
<1>2. size \in 0 .. MaxLen
  BY <1>0, <1>1, Bounds DEF VnodeType
<1>3. /\ new \in VnodeType
      /\ new.filename = vnode_list[k].filename
      /\ new.filesize = size
      /\ new.file_content = content
  BY <1>0, <1>1, <1>2 DEF VnodeType
<1>4. vnode_list' = [vnode_list EXCEPT ![k] = new]
  BY <1>0, <1>1
<1> HIDE DEF new
<1>5. /\ vnode_list' \in Seq(VnodeType)
      /\ Len(vnode_list') = Len(vnode_list)
      /\ \A v \in DOMAIN vnode_list :
           vnode_list'[v] = IF v = k THEN new ELSE vnode_list[v]
  <2> DEFINE updated == [vnode_list EXCEPT ![k] = new]
  <2>1. new \in VnodeType /\ vnode_list \in Seq(VnodeType)
    BY <1>1, <1>3
  <2>2. /\ updated \in Seq(VnodeType)
        /\ Len(updated) = Len(vnode_list)
        /\ \A v \in DOMAIN vnode_list :
             updated[v] = IF v = k THEN new ELSE vnode_list[v]
    BY ONLY <2>1, <1>0, Replaced
  <2>3. QED
    BY <2>2, <1>4
<1>6. \A v \in DOMAIN vnode_list : vnode_list[v].filesize \in Nat
  BY <1>1, Bounds DEF VnodeType
<1>7. QED
  BY <1>0, <1>1, <1>3, <1>5, <1>6 DEF FilesGrow

\* A file is added.
LEMMA FileAdded ==
    ASSUME TypeOK, NEW new \in VnodeType, vnode_list' = Append(vnode_list, new)
    PROVE  FilesGrow
<1>1. /\ Len(vnode_list) \in Nat
      /\ DOMAIN vnode_list = 1 .. Len(vnode_list)
      /\ \A v \in DOMAIN vnode_list : vnode_list[v].filesize \in Nat
  BY Entries
<1>2. /\ vnode_list' \in Seq(VnodeType)
      /\ Len(vnode_list') = Len(vnode_list) + 1
      /\ \A v \in DOMAIN vnode_list : vnode_list'[v] = vnode_list[v]
  BY <1>1, AppendProperties DEF TypeOK
<1>3. QED
  BY <1>1, <1>2 DEF FilesGrow

\* Nothing is done to the files.
LEMMA FilesSame ==
    ASSUME TypeOK, UNCHANGED vnode_list
    PROVE  FilesGrow
<1>1. /\ Len(vnode_list) \in Nat
      /\ DOMAIN vnode_list = 1 .. Len(vnode_list)
      /\ \A v \in DOMAIN vnode_list : vnode_list[v].filesize \in Nat
  BY Entries
<1>2. QED
  BY <1>1 DEF FilesGrow, TypeOK

\* The files after a step, one by one.
LEMMA Grown ==
    ASSUME TypeOK, FilesGrow
    PROVE  /\ Len(vnode_list') \in Nat /\ DOMAIN vnode_list' = 1 .. Len(vnode_list')
           /\ DOMAIN vnode_list \subseteq DOMAIN vnode_list'
           /\ \A v \in DOMAIN vnode_list' : vnode_list'[v].filesize \in Nat
           /\ open_file_table \in Seq([vnode : DOMAIN vnode_list', pos : Nat])
<1>1. Len(vnode_list') \in Nat /\ DOMAIN vnode_list' = 1 .. Len(vnode_list')
  BY LenProperties DEF FilesGrow
<1>2. DOMAIN vnode_list \subseteq DOMAIN vnode_list'
  BY <1>1, Entries DEF FilesGrow
<1>3. \A v \in 1 .. Len(vnode_list') : vnode_list'[v] \in VnodeType
  BY ElementOfSeq DEF FilesGrow
<1>4. \A v \in VnodeType : v.filesize \in Nat
  BY Bounds DEF VnodeType
<1>5. [vnode : DOMAIN vnode_list, pos : Nat]
         \subseteq [vnode : DOMAIN vnode_list', pos : Nat]
  BY <1>2
<1>6. open_file_table \in Seq([vnode : DOMAIN vnode_list', pos : Nat])
  BY <1>5, SeqMonotonic DEF TypeOK
<1>7. QED
  BY <1>1, <1>2, <1>3, <1>4, <1>6

\* An entry that is not touched stays in its file.
LEMMA StaysInFile ==
    ASSUME FilesInv, FilesGrow, NEW o \in DOMAIN open_file_table
    PROVE  open_file_table[o].pos <= vnode_list'[open_file_table[o].vnode].filesize
<1> DEFINE v == open_file_table[o].vnode
<1>1. TypeOK
  BY DEF FilesInv
<1>2. v \in DOMAIN vnode_list /\ open_file_table[o].pos \in Nat
  BY <1>1, Entries
<1>3. open_file_table[o].pos <= vnode_list[v].filesize
  BY DEF FilesInv, PosInFile
<1>4. vnode_list[v].filesize \in Nat /\ vnode_list'[v].filesize \in Nat
  BY <1>1, <1>2, Entries, Grown
<1>5. vnode_list[v].filesize <= vnode_list'[v].filesize
  BY <1>2 DEF FilesGrow
<1>6. QED
  BY <1>2, <1>3, <1>4, <1>5

\* Entries that are not touched stay in the files they point into.
LEMMA OpensKept ==
    ASSUME FilesInv, FilesGrow, UNCHANGED open_file_table
    PROVE  /\ open_file_table' \in Seq([vnode : DOMAIN vnode_list', pos : Nat])
           /\ StdFiles' /\ PosInFile'
<1>1. TypeOK
  BY DEF FilesInv
<1>2. open_file_table' \in Seq([vnode : DOMAIN vnode_list', pos : Nat])
  BY <1>1, Grown
<1>3. PosInFile'
  BY StaysInFile DEF PosInFile
<1>4. StdFiles'
  BY <1>1, Entries, Grown DEF FilesInv, FilesGrow, StdFiles
<1>5. QED
  BY <1>2, <1>3, <1>4

\* Nor does an entry leave its file when it is moved to a place in it.
LEMMA OpenMoved ==
    ASSUME FilesInv, FilesGrow, NEW o \in DOMAIN open_file_table, NEW pos \in Nat,
           pos <= vnode_list'[open_file_table[o].vnode].filesize,
           open_file_table' = [open_file_table EXCEPT ![o].pos = pos]
    PROVE  /\ open_file_table' \in Seq([vnode : DOMAIN vnode_list', pos : Nat])
           /\ Len(open_file_table') = Len(open_file_table)
           /\ DOMAIN open_file_table' = DOMAIN open_file_table
           /\ \A x \in DOMAIN open_file_table :
                /\ open_file_table'[x].vnode = open_file_table[x].vnode
                /\ open_file_table'[x].pos = IF x = o THEN pos ELSE open_file_table[x].pos
           /\ StdFiles' /\ PosInFile'
<1> DEFINE moved == [open_file_table[o] EXCEPT !.pos = pos]
           OpenType == [vnode : DOMAIN vnode_list', pos : Nat]
<1>1. TypeOK
  BY DEF FilesInv
\* The table as it was fits the new list of files.
<1>2. open_file_table \in Seq(OpenType) /\ Len(vnode_list') >= 2
  BY <1>1, Entries, Grown DEF FilesInv, FilesGrow, StdFiles
<1>3. open_file_table[o] \in OpenType
  <2>1. o \in 1 .. Len(open_file_table)
    BY <1>1, Entries
  <2>2. QED
    BY ONLY <1>2, <2>1, ElementOfSeq
<1>4. moved \in OpenType /\ moved.vnode = open_file_table[o].vnode /\ moved.pos = pos
  BY <1>3
<1>5. open_file_table' = [open_file_table EXCEPT ![o] = moved]
  OBVIOUS
<1> HIDE DEF moved, OpenType
<1>6. /\ open_file_table' \in Seq(OpenType)
      /\ Len(open_file_table') = Len(open_file_table)
      /\ DOMAIN open_file_table' = DOMAIN open_file_table
      /\ \A x \in DOMAIN open_file_table :
           open_file_table'[x] = IF x = o THEN moved ELSE open_file_table[x]
  <2> DEFINE updated == [open_file_table EXCEPT ![o] = moved]
  <2>1. /\ updated \in Seq(OpenType)
        /\ Len(updated) = Len(open_file_table)
        /\ DOMAIN updated = DOMAIN open_file_table
        /\ \A x \in DOMAIN open_file_table :
             updated[x] = IF x = o THEN moved ELSE open_file_table[x]
    BY ONLY <1>2, <1>4, Replaced, o \in DOMAIN open_file_table
  <2>2. QED
    BY <2>1, <1>5
<1>7. \A x \in DOMAIN open_file_table :
        /\ open_file_table'[x].vnode = open_file_table[x].vnode
        /\ open_file_table'[x].pos = IF x = o THEN pos ELSE open_file_table[x].pos
  BY <1>4, <1>6
<1>8. PosInFile'
  <2>1. SUFFICES ASSUME NEW x \in DOMAIN open_file_table
                 PROVE  open_file_table'[x].pos
                          <= vnode_list'[open_file_table'[x].vnode].filesize
    BY <1>6 DEF PosInFile
  <2>2. CASE x = o
    BY <2>2, <1>7
  <2>3. CASE x # o
    BY <2>3, <1>7, StaysInFile
  <2>4. QED
    BY <2>2, <2>3
<1>9. StdFiles'
  BY <1>2, <1>6 DEF FilesInv, StdFiles
<1>10. QED
  BY <1>6, <1>7, <1>8, <1>9 DEF OpenType

-----------------------------------------------------------------------------
(* The operations, one by one.                                             *)

\* stdin and stdout are files, with entries of their own number.
LEMMA Standard ==
    ASSUME FilesInv
    PROVE  {STDIN, STDOUT} \subseteq DOMAIN vnode_list \cap DOMAIN open_file_table
  BY Entries DEF FilesInv, StdFiles, STDIN, STDOUT

\* An imported file holds the bytes of the original, as far as a buffer goes.
LEMMA ImportEffect ==
    ASSUME FilesInv, Import
    PROVE  \E new \in VnodeType :
             /\ vnode_list' = Append(vnode_list, new)
             /\ \A i \in 0 .. new.filesize - 1 : new.file_content[i] \in Vals
             /\ UNCHANGED <<open_file_table, fd_set, ret, got, console>>
<1>1. PICK f \in Imports :
        LET bytes == Prefix(f.bytes, MaxLen) IN
        vnode_list' = Append(vnode_list,
            [filename |-> f.name, filesize |-> Len(bytes),
             file_content |-> Filled(NewVnode(f.name).file_content, 0, bytes)])
  BY DEF Import
<1> DEFINE bytes == Prefix(f.bytes, MaxLen)
           empty == NewVnode(f.name).file_content
           new == [filename |-> f.name, filesize |-> Len(bytes),
                   file_content |-> Filled(empty, 0, bytes)]
<1>2. f.name \in FileNames /\ f.bytes \in Seq(Vals)
  BY FilesAssumption DEF FileNames
<1>3. /\ bytes \in Seq(Vals)
      /\ Len(bytes) = IF MaxLen < Len(f.bytes) THEN MaxLen ELSE Len(f.bytes)
  BY <1>2, Bounds, PrefixIs
<1>4. Len(f.bytes) \in Nat
  BY <1>2, LenProperties
<1>5. Len(bytes) \in 0 .. MaxLen
  BY <1>3, <1>4, Bounds
<1>6. bytes \in Seq(Bytewise) /\ Vals \subseteq Bytewise
  BY <1>3, SeqMonotonic DEF Bytewise
<1>7. empty \in [Positions -> Bytewise]
  BY DEF NewVnode, Bytewise
<1> HIDE DEF bytes, empty
<1>8. new \in VnodeType
  BY <1>2, <1>5, <1>6, <1>7, FilledType DEF VnodeType
<1>9. \A i \in 0 .. Len(bytes) - 1 : Filled(empty, 0, bytes)[i] \in Vals
  <2>1. SUFFICES ASSUME NEW i \in 0 .. Len(bytes) - 1
                 PROVE  Filled(empty, 0, bytes)[i] \in Vals
    OBVIOUS
  <2>2. i \in Positions /\ 0 <= i /\ i < 0 + Len(bytes) /\ i - 0 + 1 \in 1 .. Len(bytes)
    BY <1>5, Bounds DEF Positions
  <2>3. Filled(empty, 0, bytes)[i] = bytes[i - 0 + 1]
    BY <2>2 DEF Filled
  <2>4. QED
    BY <1>3, <2>2, <2>3, ElementOfSeq
<1>10. QED
  BY <1>1, <1>8, <1>9 DEF Import, bytes, empty

\* Some bytes are added to stdin.
LEMMA ReadlineEffect ==
    ASSUME FilesInv, StdinReadline
    PROVE  \E bytes \in Seq(Vals) :
             LET size == vnode_list[STDIN].filesize IN
             /\ Len(bytes) \in 0 .. MaxChunk
             /\ size + Len(bytes) \in size .. MaxLen
             /\ vnode_list' = [vnode_list EXCEPT
                  ![STDIN].filesize = size + Len(bytes),
                  ![STDIN].file_content =
                      Filled(vnode_list[STDIN].file_content, size, bytes)]
             /\ UNCHANGED <<open_file_table, fd_set, ret, got, console>>
<1>1. PICK n \in 1 .. MaxChunk : \E line \in [1 .. n -> Vals] :
        LET bytes == Prefix(line, Room(vnode_list[STDIN])) IN
        vnode_list' = [vnode_list EXCEPT
            ![STDIN].file_content = Filled(@, vnode_list[STDIN].filesize, bytes),
            ![STDIN].filesize = @ + Len(bytes)]
  BY DEF StdinReadline
<1>2. PICK line \in [1 .. n -> Vals] :
        LET bytes == Prefix(line, Room(vnode_list[STDIN])) IN
        vnode_list' = [vnode_list EXCEPT
            ![STDIN].file_content = Filled(@, vnode_list[STDIN].filesize, bytes),
            ![STDIN].filesize = @ + Len(bytes)]
  BY <1>1
<1> DEFINE size == vnode_list[STDIN].filesize
           room == Room(vnode_list[STDIN])
           bytes == Prefix(line, room)
<1>3. STDIN \in DOMAIN vnode_list /\ vnode_list[STDIN] \in VnodeType
      /\ size \in 0 .. MaxLen
  BY Standard, Entries DEF FilesInv
<1>4. room \in Nat /\ size + room = MaxLen
  BY <1>3, Bounds DEF Room
<1>5. line \in Seq(Vals) /\ Len(line) = n /\ n \in Nat
  BY Bounds, FunctionSeq
<1>6. /\ bytes \in Seq(Vals)
      /\ Len(bytes) = IF room < Len(line) THEN room ELSE Len(line)
  BY <1>4, <1>5, PrefixIs
<1> HIDE DEF bytes
<1>7. Len(bytes) \in 0 .. MaxChunk /\ size + Len(bytes) \in size .. MaxLen
  BY <1>3, <1>4, <1>5, <1>6, Bounds
<1>8. vnode_list' = [vnode_list EXCEPT
        ![STDIN].filesize = size + Len(bytes),
        ![STDIN].file_content = Filled(vnode_list[STDIN].file_content, size, bytes)]
  BY <1>2, <1>3 DEF bytes, VnodeType
<1>9. QED
  BY <1>6, <1>7, <1>8 DEF StdinReadline

\* An open adds an entry at the start of a file of that name.
LEMMA OpenedEffect ==
    ASSUME FilesInv, NEW v \in DOMAIN vnode_list, Opened(v), UNCHANGED vnode_list
    PROVE  /\ Len(open_file_table') = Len(open_file_table) + 1
           /\ DOMAIN open_file_table' = 1 .. Len(open_file_table')
           /\ \A o \in DOMAIN open_file_table :
                open_file_table'[o] = open_file_table[o]
           /\ open_file_table'[Len(open_file_table')] = NewOpen(v)
           /\ open_file_table' \in Seq([vnode : DOMAIN vnode_list, pos : Nat])
           /\ StdFiles' /\ PosInFile'
<1> DEFINE OpenType == [vnode : DOMAIN vnode_list, pos : Nat]
<1>1. open_file_table \in Seq(OpenType) /\ NewOpen(v) \in OpenType
  BY DEF FilesInv, TypeOK, NewOpen
<1>2. TypeOK
  BY DEF FilesInv
<1> HIDE DEF OpenType
<1>3. /\ open_file_table' = Append(open_file_table, NewOpen(v))
      /\ open_file_table' \in Seq(OpenType)
      /\ Len(open_file_table') = Len(open_file_table) + 1
      /\ \A o \in 1 .. Len(open_file_table) : open_file_table'[o] = open_file_table[o]
      /\ open_file_table'[Len(open_file_table) + 1] = NewOpen(v)
  BY <1>1, AppendProperties DEF Opened
<1>4. DOMAIN open_file_table' = 1 .. Len(open_file_table')
  BY <1>3, LenProperties
<1>5. /\ DOMAIN open_file_table = 1 .. Len(open_file_table)
      /\ Len(open_file_table) \in Nat
  BY <1>2, Entries
<1>6. StdFiles'
  BY <1>3, <1>5 DEF FilesInv, StdFiles
<1>7. PosInFile'
  <2>1. SUFFICES ASSUME NEW o \in DOMAIN open_file_table'
                 PROVE  open_file_table'[o].pos
                          <= vnode_list[open_file_table'[o].vnode].filesize
    BY DEF PosInFile
  <2>2. CASE o \in DOMAIN open_file_table
    BY <2>2, <1>3, <1>5 DEF FilesInv, PosInFile
  <2>3. CASE o = Len(open_file_table) + 1
    BY <2>3, <1>2, <1>3, Entries DEF NewOpen
  <2>4. QED
    BY <2>2, <2>3, <1>3, <1>4, <1>5
<1>8. QED
  BY <1>3, <1>4, <1>5, <1>6, <1>7 DEF OpenType

\* The descriptors stay in their type when one of them gets the new entry.
LEMMA DescriptorSet ==
    ASSUME FilesInv, NEW p \in Pids, Exists(p), NEW fd \in Fds,
           Len(open_file_table') = Len(open_file_table) + 1,
           DOMAIN open_file_table' = 1 .. Len(open_file_table'),
           fd_set' = [fd_set EXCEPT ![p][fd] = Len(open_file_table')]
    PROVE  fd_set' \in [Pids -> {NULL} \cup [Fds -> {0} \cup DOMAIN open_file_table']]
<1> DEFINE Old == {0} \cup DOMAIN open_file_table
           New == {0} \cup DOMAIN open_file_table'
<1>1. Old \subseteq New /\ Len(open_file_table') \in New
  BY Entries DEF FilesInv
<1>2. fd_set \in [Pids -> {NULL} \cup [Fds -> Old]] /\ fd_set[p] \in [Fds -> Old]
  BY DEF FilesInv, TypeOK, Exists
<1> HIDE DEF Old, New
<1>3. [Fds -> Old] \subseteq [Fds -> New]
  BY <1>1
<1>4. [fd_set[p] EXCEPT ![fd] = Len(open_file_table')] \in [Fds -> New]
  BY <1>1, <1>2, <1>3
<1>5. fd_set' = [fd_set EXCEPT ![p] = [fd_set[p] EXCEPT ![fd] = Len(open_file_table')]]
  BY <1>2
<1>6. fd_set' \in [Pids -> {NULL} \cup [Fds -> New]]
  BY <1>2, <1>3, <1>4, <1>5
<1>7. QED
  BY <1>6 DEF New

\* A read finds no more bytes than asked for, and none behind the end of the file.
LEMMA ReadRange ==
    ASSUME FilesInv, NEW o \in DOMAIN open_file_table, NEW n \in Nat
    PROVE  LET v == vnode_list[open_file_table[o].vnode]
               pos == open_file_table[o].pos
           IN  /\ v \in VnodeType
               /\ pos \in Nat
               /\ ToRead(v, pos, n) \in 0 .. n
               /\ pos + ToRead(v, pos, n) =
                    IF pos + n < v.filesize THEN pos + n ELSE v.filesize
<1> DEFINE v == vnode_list[open_file_table[o].vnode]
           pos == open_file_table[o].pos
<1>1. TypeOK
  BY DEF FilesInv
<1>2. /\ v \in VnodeType
      /\ pos \in Nat
      /\ v.filesize \in Nat
  BY <1>1, Entries
<1>3. pos <= v.filesize
  BY DEF FilesInv, PosInFile
<1>4. /\ ToRead(v, pos, n) \in 0 .. n
      /\ pos + ToRead(v, pos, n) = IF pos + n < v.filesize THEN pos + n ELSE v.filesize
  BY <1>2, <1>3 DEF ToRead, Min2
<1>5. QED
  BY <1>2, <1>4

\* A write that stays within the buffer of the file: the file may get longer, and
\* the entry moves, unless the buffer of the process ends early.
Stored(o, bytes, room) ==
    LET k == open_file_table[o].vnode
        pos == open_file_table[o].pos
        size == Length(vnode_list[k], pos + Len(bytes))
        part == Prefix(bytes, room)
    IN  /\ size \in vnode_list[k].filesize .. MaxLen
        /\ size = IF pos + Len(bytes) > vnode_list[k].filesize
                  THEN pos + Len(bytes) ELSE vnode_list[k].filesize
        /\ part \in Seq(Vals) /\ Len(part) = room
        /\ vnode_list' = [vnode_list EXCEPT
             ![k].filesize = size,
             ![k].file_content = Filled(vnode_list[k].file_content, pos, part)]
        /\ \/ room < Len(bytes) /\ UNCHANGED open_file_table
           \/ /\ room = Len(bytes) /\ part = bytes
              /\ open_file_table' = [open_file_table EXCEPT ![o].pos = pos + Len(bytes)]

\* A write changes nothing or is one that stays within the buffer.
LEMMA WriteEffect ==
    ASSUME FilesInv, NEW o \in DOMAIN open_file_table, NEW bytes \in Seq(Vals),
           NEW room \in 0 .. Len(bytes), Write(o, bytes, room)
    PROVE  /\ ret' \in Int
           /\ UNCHANGED <<fd_set, got, console>>
           /\ UNCHANGED <<vnode_list, open_file_table>> \/ Stored(o, bytes, room)
<1> DEFINE k == open_file_table[o].vnode
           pos == open_file_table[o].pos
           size == Length(vnode_list[k], pos + Len(bytes))
           part == Prefix(bytes, room)
<1>1. /\ k \in DOMAIN vnode_list /\ pos \in Nat
      /\ vnode_list[k] \in VnodeType /\ vnode_list[k].filesize \in 0 .. MaxLen
      /\ open_file_table[o] \in [vnode : DOMAIN vnode_list, pos : Nat]
  BY Entries DEF FilesInv
<1>2. Len(bytes) \in Nat /\ room \in Nat /\ MaxLen \in Nat
  BY Bounds, LenProperties
<1>3. ret' \in Int /\ UNCHANGED <<fd_set, got, console>>
  BY DEF Write
<1>4. CASE size >= MaxLen
  BY <1>1, <1>3, <1>4 DEF Write
<1>5. CASE ~ size >= MaxLen
  <2>1. /\ size = IF pos + Len(bytes) > vnode_list[k].filesize
                  THEN pos + Len(bytes) ELSE vnode_list[k].filesize
        /\ size \in vnode_list[k].filesize .. MaxLen
    BY <1>1, <1>2, <1>5 DEF Length
  <2>2. /\ part \in Seq(Vals) /\ Len(part) = room
        /\ \A i \in 1 .. Len(part) : part[i] = bytes[i]
    BY <1>2, PrefixIs
  <2>3. room = Len(bytes) => part = bytes
    BY <2>2, SeqEqual
  <2> HIDE DEF part
  <2>4. vnode_list' = [vnode_list EXCEPT
          ![k].filesize = size,
          ![k].file_content = Filled(vnode_list[k].file_content, pos, part)]
    BY <1>1, <1>5 DEF Write, part, VnodeType
  <2>5. \/ room < Len(bytes) /\ UNCHANGED open_file_table
        \/ /\ room = Len(bytes)
           /\ open_file_table' = [open_file_table EXCEPT ![o].pos = pos + Len(bytes)]
    BY <1>1, <1>2, <1>5 DEF Write, Moved
  <2>6. QED
    BY <1>3, <2>1, <2>2, <2>3, <2>4, <2>5 DEF Stored, part
<1>6. QED
  BY <1>4, <1>5

\* Whatever a write does, the invariant stays true.
LEMMA WriteStep ==
    ASSUME FilesInv, NEW o \in DOMAIN open_file_table, NEW bytes \in Seq(Vals),
           NEW room \in 0 .. Len(bytes), Write(o, bytes, room)
    PROVE  FilesGrow /\ FilesInv'
<1>1. TypeOK
  BY DEF FilesInv
<1>2. ret' \in Int /\ UNCHANGED <<fd_set, got, console>>
  BY WriteEffect
<1>3. DOMAIN open_file_table' = DOMAIN open_file_table
        /\ open_file_table' \in Seq([vnode : DOMAIN vnode_list', pos : Nat])
        /\ FilesGrow /\ StdFiles' /\ PosInFile'
  <2>1. CASE UNCHANGED <<vnode_list, open_file_table>>
    <3>1. FilesGrow
      BY <1>1, <2>1, FilesSame
    <3>2. QED
      BY <2>1, <3>1, OpensKept
  <2>2. CASE Stored(o, bytes, room)
    <3> DEFINE k == open_file_table[o].vnode
               pos == open_file_table[o].pos
               size == Length(vnode_list[k], pos + Len(bytes))
               part == Prefix(bytes, room)
               content == Filled(vnode_list[k].file_content, pos, part)
    <3>1. k \in DOMAIN vnode_list /\ pos \in Nat
          /\ vnode_list[k].filesize \in Nat /\ Len(bytes) \in Nat
      BY <1>1, Entries, LenProperties
    <3>2. content \in [Positions -> Bytewise]
      <4>1. part \in Seq(Bytewise)
        BY <2>2, SeqMonotonic DEF Stored, Bytewise
      <4>2. QED
        BY <1>1, <3>1, <4>1, Entries, FilledType
    <3>3. /\ size \in vnode_list[k].filesize .. MaxLen
          /\ size = IF pos + Len(bytes) > vnode_list[k].filesize
                    THEN pos + Len(bytes) ELSE vnode_list[k].filesize
          /\ vnode_list' = [vnode_list EXCEPT ![k].filesize = size,
                                              ![k].file_content = content]
          /\ \/ UNCHANGED open_file_table
             \/ open_file_table' = [open_file_table EXCEPT ![o].pos = pos + Len(bytes)]
      BY <2>2 DEF Stored
    <3> HIDE DEF k, size, content
    <3>4. FilesGrow /\ vnode_list'[k].filesize = size
      <4>1. FilePut(k, size, content)
        BY <3>1, <3>2, <3>3 DEF FilePut
      <4>2. QED
        BY ONLY <1>1, <4>1, OneFileGrows
    <3>5. CASE UNCHANGED open_file_table
      BY <3>4, <3>5, OpensKept
    <3>6. CASE open_file_table' = [open_file_table EXCEPT ![o].pos = pos + Len(bytes)]
      <4>1. pos + Len(bytes) \in Nat /\ pos + Len(bytes) <= size
        BY <3>1, <3>3
      <4>2. QED
        BY <3>4, <3>6, <4>1, OpenMoved DEF k
    <3>7. QED
      BY <3>3, <3>5, <3>6
  <2>3. QED
    BY <2>1, <2>2, WriteEffect
<1>4. TypeOK'
  BY <1>1, <1>2, <1>3 DEF TypeOK, FilesGrow
<1>5. QED
  BY <1>3, <1>4 DEF FilesInv

\* So does a read: the entry moves by what was there.
LEMMA ReadStep ==
    ASSUME FilesInv, NEW o \in DOMAIN open_file_table, NEW n \in Nat,
           NEW room \in 0 .. n, Read(o, n, room)
    PROVE  FilesGrow /\ FilesInv'
<1> DEFINE v == vnode_list[open_file_table[o].vnode]
           pos == open_file_table[o].pos
           cnt == ToRead(v, pos, n)
<1>1. TypeOK /\ FilesGrow
  BY FilesSame DEF FilesInv, Read
<1>2. /\ v \in VnodeType /\ pos \in Nat /\ v.filesize \in 0 .. MaxLen
      /\ cnt \in 0 .. n
      /\ pos + cnt <= v.filesize
  <2>1. v \in VnodeType /\ v.filesize \in 0 .. MaxLen
    BY <1>1, Entries
  <2>2. pos \in Nat /\ cnt \in 0 .. n
        /\ pos + cnt = IF pos + n < v.filesize THEN pos + n ELSE v.filesize
    BY ReadRange
  <2>3. QED
    BY <2>1, <2>2, Bounds
<1>3. got' \in Seq(Bytewise)
  <2>1. Min2(cnt, room) \in 0 .. cnt
    BY <1>2 DEF Min2
  <2>2. pos + Min2(cnt, room) \in 0 .. MaxLen
    BY <1>2, <2>1, Bounds
  <2>3. Bytes(v, pos, pos + Min2(cnt, room)) \in Seq(Bytewise)
    BY <1>2, <2>2, BytesIs
  <2>4. QED
    BY <2>3 DEF Read
<1> HIDE DEF cnt
<1>4. /\ UNCHANGED <<vnode_list, fd_set, console>>
      /\ ret' \in Int
      /\ \/ UNCHANGED open_file_table
         \/ open_file_table' = [open_file_table EXCEPT ![o].pos = pos + cnt]
  BY <1>2 DEF Read, Moved, cnt
<1>5. /\ DOMAIN open_file_table' = DOMAIN open_file_table
      /\ open_file_table' \in Seq([vnode : DOMAIN vnode_list', pos : Nat])
      /\ StdFiles' /\ PosInFile'
  <2>1. CASE UNCHANGED open_file_table
    BY <1>1, <2>1, OpensKept
  <2>2. CASE open_file_table' = [open_file_table EXCEPT ![o].pos = pos + cnt]
    <3>1. pos + cnt \in Nat
      BY <1>2
    <3>2. pos + cnt <= vnode_list'[open_file_table[o].vnode].filesize
      BY <1>2, <1>4
    <3>3. QED
      BY <1>1, <2>2, <3>1, <3>2, OpenMoved
  <2>3. QED
    BY <1>4, <2>1, <2>2
<1>6. TypeOK'
  BY <1>1, <1>3, <1>4, <1>5 DEF TypeOK
<1>7. QED
  BY <1>1, <1>5, <1>6 DEF FilesInv

\* A transfer goes through an entry that a descriptor of the process stands for,
\* with a whole buffer unless buffers may end early.
LEMMA TransferCase ==
    ASSUME FilesInv, NEW p \in Pids, NEW n \in 0 .. MaxChunk, Transfer(p, n)
    PROVE  /\ n \in Nat
           /\ \E fd \in Fds, o \in DOMAIN open_file_table, room \in 0 .. n :
                /\ Exists(p) /\ fd_set[p][fd] = o
                /\ ~ Faults => room = n
                /\ \/ Read(o, n, room)
                   \/ \E bytes \in [1 .. n -> Vals] :
                        /\ bytes \in Seq(Vals) /\ Len(bytes) = n
                        /\ Write(o, bytes, room)
<1>1. n \in Nat
  BY Bounds
<1>2. PICK fd \in Fds, room \in IF Faults THEN 0 .. n ELSE {n} :
        /\ fd_set[p][fd] # 0
        /\ \/ Read(fd_set[p][fd], n, room)
           \/ \E bytes \in [1 .. n -> Vals] : Write(fd_set[p][fd], bytes, room)
  BY DEF Transfer
<1>3. Exists(p) /\ fd_set[p][fd] \in DOMAIN open_file_table
  <2>1. Exists(p)
    BY DEF Transfer
  <2>2. fd_set[p] \in [Fds -> {0} \cup DOMAIN open_file_table]
    BY <2>1 DEF FilesInv, TypeOK, Exists
  <2>3. QED
    BY <1>2, <2>1, <2>2
<1>4. room \in 0 .. n /\ (~ Faults => room = n)
  <2>1. CASE Faults
    BY <2>1
  <2>2. CASE ~ Faults
    BY <1>1, <2>2
  <2>3. QED
    BY <2>1, <2>2
<1>5. \A bytes \in [1 .. n -> Vals] : bytes \in Seq(Vals) /\ Len(bytes) = n
  BY <1>1, FunctionSeq
<1>6. QED
  BY <1>1, <1>2, <1>3, <1>4, <1>5

\* Every step keeps the invariant, and no file gets shorter.
LEMMA FilesStep ==
    ASSUME FilesInv, [Next]_vars
    PROVE  FilesGrow /\ FilesInv'
<1>1. TypeOK
  BY DEF FilesInv
<1>2. ASSUME Import
      PROVE  FilesGrow /\ FilesInv'
  <2>1. FilesGrow /\ UNCHANGED <<open_file_table, fd_set, ret, got, console>>
    BY <1>1, <1>2, ImportEffect, FileAdded
  <2>2. StdFiles' /\ PosInFile'
        /\ open_file_table' \in Seq([vnode : DOMAIN vnode_list', pos : Nat])
    BY <2>1, OpensKept
  <2>3. TypeOK'
    BY <1>1, <2>1, <2>2 DEF TypeOK, FilesGrow
  <2>4. QED
    BY <2>1, <2>2, <2>3 DEF FilesInv
<1>3. ASSUME StdinReadline
      PROVE  FilesGrow /\ FilesInv'
  <2> DEFINE v == vnode_list[STDIN]
  <2>1. PICK bytes \in Seq(Vals) :
          /\ v.filesize + Len(bytes) \in v.filesize .. MaxLen
          /\ vnode_list' = [vnode_list EXCEPT
               ![STDIN].filesize = v.filesize + Len(bytes),
               ![STDIN].file_content = Filled(v.file_content, v.filesize, bytes)]
          /\ UNCHANGED <<open_file_table, fd_set, ret, got, console>>
    BY <1>3, ReadlineEffect
  <2>2. bytes \in Seq(Bytewise)
    BY SeqMonotonic DEF Bytewise
  <2>3. STDIN \in DOMAIN vnode_list
    BY Standard
  <2>4. Filled(v.file_content, v.filesize, bytes) \in [Positions -> Bytewise]
    BY <1>1, <2>2, <2>3, Entries, FilledType
  <2>5. FilesGrow
    <3>1. FilePut(STDIN, v.filesize + Len(bytes),
                  Filled(v.file_content, v.filesize, bytes))
      BY <2>1, <2>3, <2>4 DEF FilePut
    <3>2. QED
      BY ONLY <1>1, <3>1, OneFileGrows
  <2>6. StdFiles' /\ PosInFile'
        /\ open_file_table' \in Seq([vnode : DOMAIN vnode_list', pos : Nat])
    BY <2>1, <2>5, OpensKept
  <2>7. TypeOK'
    BY <1>1, <2>1, <2>5, <2>6 DEF TypeOK, FilesGrow
  <2>8. QED
    BY <2>5, <2>6, <2>7 DEF FilesInv
<1>4. ASSUME PrintStdout
      PROVE  FilesGrow /\ FilesInv'
  <2> DEFINE v == vnode_list[STDOUT]
  <2>1. UNCHANGED <<vnode_list, open_file_table, fd_set, ret, got>>
    BY <1>4 DEF PrintStdout
  <2>2. v \in VnodeType /\ v.filesize \in 0 .. MaxLen
    BY <1>1, Standard, Entries
  <2>3. console'.last_pos \in 0 .. MaxLen
    BY <1>4, <2>2 DEF PrintStdout, ShownUpto
  <2>4. console'.text \in Seq(Bytewise)
    <3>1. console.last_pos \in Nat /\ console.text \in Seq(Bytewise)
      BY <1>1, Bounds DEF TypeOK
    <3>2. Bytes(v, console.last_pos, v.filesize) \in Seq(Bytewise)
      BY <2>2, <3>1, BytesIs
    <3>3. QED
      BY <1>4, <3>1, <3>2, ConcatProperties DEF PrintStdout
  <2>5. FilesGrow
    BY <1>1, <2>1, FilesSame
  <2>6. StdFiles' /\ PosInFile'
        /\ open_file_table' \in Seq([vnode : DOMAIN vnode_list', pos : Nat])
    BY <2>1, <2>5, OpensKept
  <2>7. TypeOK'
    BY <1>1, <2>1, <2>3, <2>4, <2>5, <2>6 DEF TypeOK, FilesGrow
  <2>8. QED
    BY <2>5, <2>6, <2>7 DEF FilesInv
<1>5. ASSUME NEW p \in Pids, NEW q \in Pids, Fork(p, q)
      PROVE  FilesGrow /\ FilesInv'
  <2>1. UNCHANGED <<vnode_list, open_file_table, ret, got, console>>
    BY <1>5 DEF Fork
  <2>2. fd_set' \in [Pids -> {NULL} \cup [Fds -> {0} \cup DOMAIN open_file_table]]
    BY <1>1, <1>5 DEF TypeOK, Fork
  <2>3. FilesGrow
    BY <1>1, <2>1, FilesSame
  <2>4. StdFiles' /\ PosInFile'
    BY <2>1, <2>3, OpensKept
  <2>5. TypeOK'
    BY <1>1, <2>1, <2>2 DEF TypeOK
  <2>6. QED
    BY <2>3, <2>4, <2>5 DEF FilesInv
<1>6. ASSUME NEW p \in Pids, NEW name \in OpenNames, Open(p, name) \/ OpenOver(p, name)
      PROVE  FilesGrow /\ FilesInv'
  <2>1. /\ Exists(p) /\ UNCHANGED <<vnode_list, got, console>>
        /\ \E v \in DOMAIN vnode_list : Opened(v)
        /\ \/ ret' = -1 /\ fd_set' = fd_set
           \/ \E fd \in Fds :
                /\ fd_set' = [fd_set EXCEPT ![p][fd] = Len(open_file_table')]
                /\ ret' = fd
    BY <1>6 DEF Open, OpenOver
  <2>2. FilesGrow
    BY <1>1, <2>1, FilesSame
  <2>3. /\ Len(open_file_table') = Len(open_file_table) + 1
        /\ DOMAIN open_file_table' = 1 .. Len(open_file_table')
        /\ open_file_table' \in Seq([vnode : DOMAIN vnode_list, pos : Nat])
        /\ StdFiles' /\ PosInFile'
    BY <2>1, OpenedEffect
  <2>4. /\ fd_set' \in [Pids -> {NULL} \cup [Fds -> {0} \cup DOMAIN open_file_table']]
        /\ ret' \in Int
    <3>1. CASE ret' = -1 /\ fd_set' = fd_set
      <4>1. {0} \cup DOMAIN open_file_table \subseteq {0} \cup DOMAIN open_file_table'
        BY <1>1, <2>3, Entries
      <4>2. QED
        BY <1>1, <3>1, <4>1 DEF TypeOK
    <3>2. ASSUME NEW fd \in Fds,
                 fd_set' = [fd_set EXCEPT ![p][fd] = Len(open_file_table')], ret' = fd
          PROVE  /\ fd_set' \in [Pids -> {NULL} \cup
                                   [Fds -> {0} \cup DOMAIN open_file_table']]
                 /\ ret' \in Int
      <4>1. ret' \in Int
        BY <3>2, Bounds DEF Fds
      <4>2. QED
        BY <2>1, <2>3, <3>2, <4>1, DescriptorSet
    <3>3. QED
      BY <2>1, <3>1, <3>2
  <2>5. TypeOK'
    BY <1>1, <2>1, <2>3, <2>4 DEF TypeOK
  <2>6. QED
    BY <2>2, <2>3, <2>5 DEF FilesInv
<1>7. ASSUME NEW p \in Pids, Refused(p)
      PROVE  FilesGrow /\ FilesInv'
  <2>1. UNCHANGED <<vnode_list, open_file_table, fd_set, got, console>> /\ ret' = -1
    BY <1>7 DEF Refused
  <2>2. FilesGrow
    BY <1>1, <2>1, FilesSame
  <2>3. StdFiles' /\ PosInFile'
    BY <2>1, <2>2, OpensKept
  <2>4. TypeOK'
    BY <1>1, <2>1 DEF TypeOK
  <2>5. QED
    BY <2>2, <2>3, <2>4 DEF FilesInv
<1>8. ASSUME NEW p \in Pids, NEW n \in 0 .. MaxChunk, Transfer(p, n)
      PROVE  FilesGrow /\ FilesInv'
  BY <1>8, TransferCase, ReadStep, WriteStep
<1>9. CASE UNCHANGED vars
  <2>1. UNCHANGED <<vnode_list, open_file_table, fd_set, ret, got, console>>
    BY <1>9 DEF vars
  <2>2. FilesGrow
    BY <1>1, <2>1, FilesSame
  <2>3. QED
    BY <2>1, <2>2 DEF FilesInv, TypeOK, StdFiles, PosInFile
<1>10. QED
  BY <1>2, <1>3, <1>4, <1>5, <1>6, <1>7, <1>8, <1>9 DEF Next

\* The invariant holds when the kernel has been set up.
LEMMA FilesInit == Init => FilesInv
<1>1. SUFFICES ASSUME Init
               PROVE  FilesInv
  OBVIOUS
<1>2. NewVnode("stdin") \in VnodeType /\ NewVnode("stdout") \in VnodeType
  <2>1. ASSUME NEW name \in FileNames
        PROVE  NewVnode(name) \in VnodeType
    BY Bounds DEF NewVnode, VnodeType, Bytewise
  <2>2. "stdin" \in FileNames /\ "stdout" \in FileNames
    BY DEF FileNames
  <2>3. QED
    BY <2>1, <2>2
<1>3. vnode_list \in Seq(VnodeType) /\ Len(vnode_list) = 2
  BY <1>1, <1>2 DEF Init
<1>4. DOMAIN vnode_list = 1 .. 2
  BY <1>3, LenProperties
<1>5. /\ open_file_table \in Seq([vnode : DOMAIN vnode_list, pos : Nat])
      /\ Len(open_file_table) = 2 /\ DOMAIN open_file_table = 1 .. 2
      /\ \A o \in 1 .. 2 : open_file_table[o].pos = 0
  BY <1>1, <1>4 DEF Init, NewOpen, STDIN, STDOUT
<1>6. fd_set \in [Pids -> {NULL} \cup [Fds -> {0} \cup DOMAIN open_file_table]]
  BY <1>1, <1>5 DEF Init
<1>7. PosInFile
  BY <1>1, <1>5 DEF Init, PosInFile, NewOpen, NewVnode, STDIN, STDOUT
<1>8. console.last_pos \in 0 .. MaxLen /\ console.text \in Seq(Bytewise)
      /\ got \in Seq(Bytewise) /\ ret \in Int
  BY <1>1, Bounds DEF Init
<1>9. QED
  BY <1>3, <1>5, <1>6, <1>7, <1>8 DEF FilesInv, TypeOK, StdFiles

\* The invariant holds at any time.
LEMMA FilesInvHolds == Spec => []FilesInv
  BY FilesInit, FilesStep, PTL DEF Spec

\* The variables of Files stay in their types: no position, size or descriptor
\* leaves its range, whatever is imported, typed, opened, read or written, with
\* buffers that end early and descriptor tables that are full.
THEOREM FilesTypes == Spec => []TypeOK
<1>1. FilesInv => TypeOK
  BY DEF FilesInv
<1>2. QED
  BY <1>1, FilesInvHolds, PTL

\* No entry of the open-file table ever stands beyond the end of its file.
THEOREM PosInFileHolds == Spec => []PosInFile
<1>1. FilesInv => PosInFile
  BY DEF FilesInv
<1>2. QED
  BY <1>1, FilesInvHolds, PTL

-----------------------------------------------------------------------------
(* Descriptors 0 and 1.                                                    *)

\* What a step does to the open files: some may be new, the old ones stand for
\* the files they stood for.
OpensGrow ==
    \A o \in DOMAIN open_file_table :
        /\ o \in DOMAIN open_file_table'
        /\ open_file_table'[o].vnode = open_file_table[o].vnode

\* A transfer touches no descriptor, and of the entries only positions.
LEMMA TransferOpens ==
    ASSUME FilesInv, NEW p \in Pids, NEW n \in 0 .. MaxChunk, Transfer(p, n)
    PROVE  OpensGrow /\ UNCHANGED fd_set
<1>1. PICK o \in DOMAIN open_file_table, room \in 0 .. n :
        \/ Read(o, n, room)
        \/ \E bytes \in Seq(Vals) : Len(bytes) = n /\ Write(o, bytes, room)
  BY TransferCase
<1>2. \A x \in DOMAIN open_file_table :
        open_file_table[x] \in [vnode : DOMAIN vnode_list, pos : Nat]
  BY Entries DEF FilesInv
<1>3. CASE Read(o, n, room)
  BY <1>2, <1>3 DEF Read, Moved, OpensGrow
<1>4. ASSUME NEW bytes \in Seq(Vals), Len(bytes) = n, Write(o, bytes, room)
      PROVE  OpensGrow /\ UNCHANGED fd_set
  <2>1. UNCHANGED fd_set
    BY <1>4 DEF Write
  <2>2. CASE UNCHANGED open_file_table
    BY <2>1, <2>2 DEF OpensGrow
  <2>3. CASE Stored(o, bytes, room)
    BY <2>1, <2>3, <1>2 DEF Stored, OpensGrow
  <2>4. QED
    BY <1>4, <2>2, <2>3, WriteEffect
<1>5. QED
  BY <1>1, <1>3, <1>4

\* Every step keeps the old entries.
LEMMA OpensStep ==
    ASSUME FilesInv, [Next]_vars
    PROVE  OpensGrow
<1>1. CASE UNCHANGED open_file_table
  BY <1>1 DEF OpensGrow
<1>2. ASSUME NEW v \in DOMAIN vnode_list, Opened(v), UNCHANGED vnode_list
      PROVE  OpensGrow
  <2>1. /\ Len(open_file_table') = Len(open_file_table) + 1
        /\ DOMAIN open_file_table' = 1 .. Len(open_file_table')
        /\ \A o \in DOMAIN open_file_table :
             open_file_table'[o] = open_file_table[o]
    BY <1>2, OpenedEffect
  <2>2. /\ Len(open_file_table) \in Nat
        /\ DOMAIN open_file_table = 1 .. Len(open_file_table)
    BY Entries DEF FilesInv
  <2>3. QED
    BY <2>1, <2>2 DEF OpensGrow
<1>3. ASSUME NEW p \in Pids, NEW name \in OpenNames, Open(p, name) \/ OpenOver(p, name)
      PROVE  OpensGrow
  BY <1>2, <1>3 DEF Open, OpenOver
<1>4. ASSUME NEW p \in Pids, NEW n \in 0 .. MaxChunk, Transfer(p, n)
      PROVE  OpensGrow
  BY <1>4, TransferOpens
<1>5. QED
  BY <1>1, <1>3, <1>4
     DEF Next, vars, Import, StdinReadline, PrintStdout, Fork, Refused

\* Descriptors that a step leaves alone stay what they were.
LEMMA StdKept ==
    ASSUME FilesInv, StdOpen, OpensGrow, NEW p \in Pids, Exists(p),
           NEW fds, \A fd \in {0, 1} : fds[fd] = fd_set[p][fd]
    PROVE  \A fd \in {0, 1} :
             /\ fds[fd] # 0
             /\ open_file_table'[fds[fd]].vnode = fd + 1
<1>1. fd_set[p] \in [Fds -> {0} \cup DOMAIN open_file_table]
  BY DEF FilesInv, TypeOK, Exists
<1>2. {0, 1} \subseteq Fds
  BY Bounds DEF Fds
<1>3. QED
  BY <1>1, <1>2 DEF StdOpen, OpensGrow

\* In every process descriptor 0 is stdin and descriptor 1 is stdout, for a fork
\* copies them and an open takes a descriptor that is free.  With a full table
\* yopen may overwrite any descriptor, these two among them; the theorem is about
\* processes that never fill theirs.
THEOREM StdOpenHolds == ~ OverOpen => (Spec => []StdOpen)
<1> SUFFICES ASSUME ~ OverOpen
             PROVE  Spec => []StdOpen
  OBVIOUS
<1>1. Init => StdOpen
  <2>1. SUFFICES ASSUME Init, NEW p \in Pids, Exists(p), NEW fd \in {0, 1}
                 PROVE  /\ fd_set[p][fd] # 0
                        /\ open_file_table[fd_set[p][fd]].vnode = fd + 1
    BY DEF StdOpen
  <2>2. p = 1
    BY <2>1 DEF Init, Exists
  <2>3. fd_set[p][fd] = fd + 1
    BY <2>1, <2>2, Bounds DEF Init, Fds
  <2>4. QED
    BY <2>1, <2>3 DEF Init, NewOpen, STDIN, STDOUT
<1>2. FilesInv /\ StdOpen /\ [Next]_vars => StdOpen'
  <2>1. SUFFICES ASSUME FilesInv, StdOpen, [Next]_vars
                 PROVE  StdOpen'
    OBVIOUS
  <2>2. OpensGrow
    BY <2>1, OpensStep
  <2>3. CASE UNCHANGED fd_set
    BY <2>1, <2>2, <2>3, StdKept DEF StdOpen, Exists
  <2>4. ASSUME NEW p \in Pids, NEW q \in Pids, Fork(p, q)
        PROVE  StdOpen'
    <3>1. SUFFICES ASSUME NEW r \in Pids, fd_set'[r] # NULL
                   PROVE  \A fd \in {0, 1} :
                            /\ fd_set'[r][fd] # 0
                            /\ open_file_table'[fd_set'[r][fd]].vnode = fd + 1
      BY DEF StdOpen, Exists
    <3>2. fd_set' = [fd_set EXCEPT ![q] = fd_set[p]] /\ Exists(p)
      BY <2>4 DEF Fork
    <3>3. \/ fd_set'[r] = fd_set[p]
          \/ fd_set'[r] = fd_set[r] /\ Exists(r)
      BY <2>1, <3>1, <3>2 DEF FilesInv, TypeOK, Exists
    <3>4. QED
      BY <2>1, <2>2, <3>2, <3>3, StdKept
  <2>5. ASSUME NEW p \in Pids, NEW name \in OpenNames, Open(p, name)
        PROVE  StdOpen'
    <3>1. SUFFICES ASSUME NEW r \in Pids, fd_set'[r] # NULL
                   PROVE  \A fd \in {0, 1} :
                            /\ fd_set'[r][fd] # 0
                            /\ open_file_table'[fd_set'[r][fd]].vnode = fd + 1
      BY DEF StdOpen, Exists
    <3>2. PICK new \in Fds :
            /\ Free(p, new)
            /\ fd_set' = [fd_set EXCEPT ![p][new] = Len(open_file_table')]
      BY <2>5 DEF Open
    <3>3. /\ Exists(p) /\ fd_set \in [Pids -> {NULL} \cup
                                        [Fds -> {0} \cup DOMAIN open_file_table]]
          /\ fd_set[p] \in [Fds -> {0} \cup DOMAIN open_file_table]
      BY <2>1, <2>5 DEF Open, FilesInv, TypeOK, Exists
    <3>4. new \notin {0, 1}
      BY <2>1, <3>2, <3>3 DEF Free, StdOpen
    <3>5. /\ Exists(r)
          /\ \A fd \in {0, 1} : fd_set'[r][fd] = fd_set[r][fd]
      BY <3>1, <3>2, <3>3, <3>4 DEF Exists
    <3>6. QED
      BY <2>1, <2>2, <3>5, StdKept
  <2>6. ASSUME NEW p \in Pids, NEW n \in 0 .. MaxChunk, Transfer(p, n)
        PROVE  UNCHANGED fd_set
    BY <2>1, <2>6, TransferOpens
  <2>7. QED
    BY <2>1, <2>3, <2>4, <2>5, <2>6
       DEF Next, vars, Import, StdinReadline, PrintStdout, OpenOver, Refused
<1>3. QED
  BY <1>1, <1>2, FilesInvHolds, PTL DEF Spec

-----------------------------------------------------------------------------
(* What files and the console hold.                                        *)

\* A write of a whole buffer within the file, or right behind its end.
Put(o, bytes) ==
    LET k == open_file_table[o].vnode
        pos == open_file_table[o].pos
        old == vnode_list[k].filesize
        size == Length(vnode_list[k], pos + Len(bytes))
    IN  /\ k \in DOMAIN vnode_list /\ pos \in 0 .. old /\ pos \in Nat
        /\ size \in old .. MaxLen
        /\ size = IF pos + Len(bytes) > old THEN pos + Len(bytes) ELSE old
        /\ vnode_list' = [vnode_list EXCEPT
             ![k].filesize = size,
             ![k].file_content = Filled(vnode_list[k].file_content, pos, bytes)]
        /\ open_file_table' = [open_file_table EXCEPT ![o].pos = pos + Len(bytes)]

\* When buffers do not end early, a transfer is a read, a write that puts all its
\* bytes into the file, or one that changes no more than the result.
LEMMA WholeTransfer ==
    ASSUME ~ Faults, FilesInv, NEW p \in Pids, NEW n \in 0 .. MaxChunk, Transfer(p, n)
    PROVE  /\ Exists(p) /\ n \in Nat
           /\ \E fd \in Fds, o \in DOMAIN open_file_table :
                /\ fd_set[p][fd] = o
                /\ \/ Read(o, n, n)
                   \/ UNCHANGED <<vnode_list, open_file_table, fd_set, got, console>>
                   \/ \E bytes \in [1 .. n -> Vals] :
                        /\ bytes \in Seq(Vals) /\ Len(bytes) = n
                        /\ Put(o, bytes)
                        /\ UNCHANGED <<fd_set, got, console>>
<1>1. PICK fd \in Fds, o \in DOMAIN open_file_table :
        /\ Exists(p) /\ fd_set[p][fd] = o
        /\ \/ Read(o, n, n)
           \/ \E bytes \in [1 .. n -> Vals] :
                /\ bytes \in Seq(Vals) /\ Len(bytes) = n
                /\ Write(o, bytes, Len(bytes))
  BY TransferCase
<1>2. ASSUME NEW bytes \in Seq(Vals), Write(o, bytes, Len(bytes))
      PROVE  \/ UNCHANGED <<vnode_list, open_file_table, fd_set, got, console>>
             \/ Put(o, bytes) /\ UNCHANGED <<fd_set, got, console>>
  <2> DEFINE k == open_file_table[o].vnode
             pos == open_file_table[o].pos
  <2>1. Len(bytes) \in 0 .. Len(bytes)
    BY LenProperties
  <2>2. /\ UNCHANGED <<fd_set, got, console>>
        /\ UNCHANGED <<vnode_list, open_file_table>> \/ Stored(o, bytes, Len(bytes))
    BY <1>2, <2>1, WriteEffect
  <2>3. CASE Stored(o, bytes, Len(bytes))
    <3>1. k \in DOMAIN vnode_list /\ pos \in 0 .. vnode_list[k].filesize /\ pos \in Nat
      BY Entries DEF FilesInv, PosInFile
    <3>2. Prefix(bytes, Len(bytes)) = bytes
          /\ open_file_table' = [open_file_table EXCEPT ![o].pos = pos + Len(bytes)]
      BY <2>1, <2>3 DEF Stored
    <3>3. Put(o, bytes)
      BY <2>3, <3>1, <3>2 DEF Stored, Put
    <3>4. QED
      BY <2>2, <3>3
  <2>4. QED
    BY <2>2, <2>3
<1>3. n \in Nat
  BY Bounds
<1>4. QED
  BY <1>1, <1>2, <1>3

\* Bytes that are written within a file, or right behind its end, leave no hole.
LEMMA NoHole ==
    ASSUME NEW content \in [Positions -> Bytewise], NEW old \in 0 .. MaxLen,
           NEW from \in 0 .. old, NEW bytes \in Seq(Vals), NEW size \in 0 .. MaxLen,
           size = IF from + Len(bytes) > old THEN from + Len(bytes) ELSE old,
           \A i \in 0 .. old - 1 : content[i] # JUNK
    PROVE  \A i \in 0 .. size - 1 : Filled(content, from, bytes)[i] # JUNK
<1>1. SUFFICES ASSUME NEW i \in 0 .. size - 1
               PROVE  Filled(content, from, bytes)[i] # JUNK
  OBVIOUS
<1>2. Len(bytes) \in Nat
  BY LenProperties
<1>3. i \in Positions
  BY Bounds DEF Positions
<1>4. CASE from <= i /\ i < from + Len(bytes)
  <2>1. i - from + 1 \in 1 .. Len(bytes)
    BY <1>2, <1>3, <1>4, Bounds DEF Positions
  <2>2. bytes[i - from + 1] \in Vals
    BY <2>1, ElementOfSeq
  <2>3. QED
    BY <1>3, <1>4, <2>2, FilesAssumption DEF Filled
<1>5. CASE ~ (from <= i /\ i < from + Len(bytes))
  <2>1. i \in 0 .. old - 1
    BY <1>2, <1>5, Bounds
  <2>2. QED
    BY <1>3, <1>5, <2>1 DEF Filled
<1>6. QED
  BY <1>4, <1>5

\* Every byte before the end of a file was imported, typed or written: a write
\* begins within its file or at the end.  A write whose buffer ends early has set
\* the size before it fails; the theorem is about buffers that do not.
THEOREM WrittenHolds == ~ Faults => (Spec => []Written)
<1> SUFFICES ASSUME ~ Faults
             PROVE  Spec => []Written
  OBVIOUS
<1>1. Init => Written
  BY DEF Init, Written, NewVnode
<1>2. FilesInv /\ Written /\ [Next]_vars => Written'
  <2>1. SUFFICES ASSUME FilesInv, Written, [Next]_vars
                 PROVE  Written'
    OBVIOUS
  <2>2. TypeOK
    BY <2>1 DEF FilesInv
  <2>3. CASE UNCHANGED vnode_list
    BY <2>1, <2>3 DEF Written
  <2>4. CASE Import
    <3>1. PICK new \in VnodeType :
            /\ vnode_list' = Append(vnode_list, new)
            /\ \A i \in 0 .. new.filesize - 1 : new.file_content[i] \in Vals
      BY <2>1, <2>4, ImportEffect
    <3>2. /\ \A v \in 1 .. Len(vnode_list) : vnode_list'[v] = vnode_list[v]
          /\ vnode_list'[Len(vnode_list) + 1] = new
          /\ DOMAIN vnode_list' = 1 .. Len(vnode_list) + 1
          /\ Len(vnode_list) \in Nat /\ DOMAIN vnode_list = 1 .. Len(vnode_list)
      BY <2>2, <3>1, AppendProperties, LenProperties DEF TypeOK
    <3>3. \A i \in 0 .. new.filesize - 1 : new.file_content[i] # JUNK
      BY <3>1, FilesAssumption
    <3>4. QED
      BY <2>1, <3>2, <3>3 DEF Written
  <2>5. ASSUME NEW k, NEW from, NEW bytes, NEW size, BytesPut(k, from, bytes, size)
        PROVE  Written'
    <3> DEFINE old == vnode_list[k].filesize
               content == Filled(vnode_list[k].file_content, from, bytes)
    <3>0. /\ k \in DOMAIN vnode_list /\ bytes \in Seq(Vals)
          /\ from \in 0 .. old
          /\ size \in old .. MaxLen
          /\ size = IF from + Len(bytes) > old THEN from + Len(bytes) ELSE old
          /\ vnode_list' = [vnode_list EXCEPT ![k].filesize = size,
                                              ![k].file_content = content]
      BY <2>5 DEF BytesPut
    <3>1. /\ old \in 0 .. MaxLen /\ from \in Nat
          /\ vnode_list[k].file_content \in [Positions -> Bytewise]
          /\ size \in 0 .. MaxLen
      BY <2>2, <3>0, Entries, Bounds
    <3>2. \A i \in 0 .. old - 1 : vnode_list[k].file_content[i] # JUNK
      BY <2>1, <3>0 DEF Written
    <3> HIDE DEF old
    <3>3. \A i \in 0 .. size - 1 : content[i] # JUNK
      BY <3>0, <3>1, <3>2, NoHole
    <3>4. content \in [Positions -> Bytewise]
      <4>1. bytes \in Seq(Bytewise)
        BY <3>0, SeqMonotonic DEF Bytewise
      <4>2. QED
        BY <3>1, <4>1, FilledType
    <3> HIDE DEF content
    <3>5. FilePut(k, size, content)
      BY <3>0, <3>4 DEF FilePut, old
    <3>6. /\ FilesGrow /\ Len(vnode_list') = Len(vnode_list)
          /\ vnode_list'[k].filesize = size
          /\ vnode_list'[k].file_content = content
          /\ \A v \in DOMAIN vnode_list : v # k => vnode_list'[v] = vnode_list[v]
      BY ONLY <2>2, <3>5, OneFileGrows
    <3>7. DOMAIN vnode_list' = DOMAIN vnode_list
      BY <2>2, <3>6, Entries, Grown
    <3>8. QED
      BY <2>1, <3>0, <3>3, <3>6, <3>7 DEF Written
  <2>6. CASE StdinReadline
    <3> DEFINE v == vnode_list[STDIN]
    <3>1. PICK bytes \in Seq(Vals) :
            /\ v.filesize + Len(bytes) \in v.filesize .. MaxLen
            /\ vnode_list' = [vnode_list EXCEPT
                 ![STDIN].filesize = v.filesize + Len(bytes),
                 ![STDIN].file_content = Filled(v.file_content, v.filesize, bytes)]
      BY <2>1, <2>6, ReadlineEffect
    <3>2. STDIN \in DOMAIN vnode_list /\ v.filesize \in Nat /\ Len(bytes) \in Nat
      BY <2>1, <2>2, Standard, Entries, LenProperties
    <3>3. /\ v.filesize \in 0 .. v.filesize
          /\ v.filesize + Len(bytes) = IF v.filesize + Len(bytes) > v.filesize
                                       THEN v.filesize + Len(bytes) ELSE v.filesize
      BY <3>2
    <3>4. BytesPut(STDIN, v.filesize, bytes, v.filesize + Len(bytes))
      BY <3>1, <3>2, <3>3 DEF BytesPut
    <3>5. QED
      BY <2>5, <3>4
  <2>7. ASSUME NEW p \in Pids, NEW n \in 0 .. MaxChunk, Transfer(p, n)
        PROVE  Written'
    <3>1. ASSUME NEW o \in DOMAIN open_file_table, NEW bytes \in Seq(Vals),
                 Put(o, bytes)
          PROVE  Written'
      <4> DEFINE k == open_file_table[o].vnode
                 pos == open_file_table[o].pos
                 size == Length(vnode_list[k], pos + Len(bytes))
      <4>1. /\ k \in DOMAIN vnode_list /\ pos \in 0 .. vnode_list[k].filesize
            /\ size \in vnode_list[k].filesize .. MaxLen
            /\ size = IF pos + Len(bytes) > vnode_list[k].filesize
                      THEN pos + Len(bytes) ELSE vnode_list[k].filesize
            /\ vnode_list' = [vnode_list EXCEPT
                 ![k].filesize = size,
                 ![k].file_content = Filled(vnode_list[k].file_content, pos, bytes)]
        BY <3>1 DEF Put
      <4> HIDE DEF k, pos, size
      <4>2. BytesPut(k, pos, bytes, size)
        BY <4>1 DEF BytesPut
      <4>3. QED
        BY <2>5, <4>2
    <3>2. QED
      BY <2>1, <2>3, <2>7, <3>1, WholeTransfer DEF Read
  <2>8. QED
    BY <2>1, <2>3, <2>4, <2>6, <2>7
       DEF Next, vars, PrintStdout, Fork, Open, OpenOver, Refused
<1>3. QED
  BY <1>1, <1>2, FilesInvHolds, PTL DEF Spec

\* The console has shown no more than there is; nobody but through entry 2 writes
\* to stdout, and that entry is always at its end.
ConsoleInv ==
    /\ vnode_list[STDOUT].filename = "stdout"
    /\ \A o \in DOMAIN open_file_table :
         open_file_table[o].vnode = STDOUT =>
             o = STDOUT /\ open_file_table[o].pos = vnode_list[STDOUT].filesize
    /\ console.last_pos <= vnode_list[STDOUT].filesize
    /\ ConsoleShows

\* Two files that agree on their first bytes.
LEMMA SameBytes ==
    ASSUME NEW v, NEW w, NEW upto \in Nat,
           \A i \in 0 .. upto - 1 : v.file_content[i] = w.file_content[i]
    PROVE  Bytes(v, 0, upto) = Bytes(w, 0, upto)
<1>1. \A i \in 1 .. upto - 0 : 0 + i - 1 \in 0 .. upto - 1
  OBVIOUS
<1>2. QED
  BY <1>1 DEF Bytes

\* What a file holds up to some position, followed by what it holds from there on.
LEMMA BytesJoined ==
    ASSUME NEW v \in VnodeType, NEW mid \in 0 .. MaxLen, NEW upto \in mid .. MaxLen
    PROVE  Bytes(v, 0, mid) \o Bytes(v, mid, upto) = Bytes(v, 0, upto)
<1>1. mid \in Nat /\ upto \in 0 .. MaxLen /\ upto \in Nat /\ mid <= upto /\ 0 \in Nat
  BY Bounds
<1> DEFINE first == Bytes(v, 0, mid)
           rest == Bytes(v, mid, upto)
           all == Bytes(v, 0, upto)
<1>2. /\ first \in Seq(Bytewise) /\ Len(first) = mid
      /\ \A i \in 1 .. mid : first[i] = v.file_content[0 + i - 1]
  <2> HIDE DEF first
  <2>1. /\ first \in Seq(Bytewise)
        /\ Len(first) = IF 0 <= mid THEN mid - 0 ELSE 0
        /\ \A i \in 1 .. Len(first) : first[i] = v.file_content[0 + i - 1]
    BY <1>1, BytesIs DEF first
  <2>2. Len(first) = mid
    BY <1>1, <2>1
  <2>3. QED
    BY <2>1, <2>2
<1>3. /\ rest \in Seq(Bytewise) /\ Len(rest) = upto - mid
      /\ \A i \in 1 .. upto - mid : rest[i] = v.file_content[mid + i - 1]
  <2> HIDE DEF rest
  <2>1. /\ rest \in Seq(Bytewise)
        /\ Len(rest) = IF mid <= upto THEN upto - mid ELSE 0
        /\ \A i \in 1 .. Len(rest) : rest[i] = v.file_content[mid + i - 1]
    BY <1>1, BytesIs DEF rest
  <2>2. Len(rest) = upto - mid
    BY <1>1, <2>1
  <2>3. QED
    BY <2>1, <2>2
<1>4. /\ all \in Seq(Bytewise) /\ Len(all) = upto
      /\ \A i \in 1 .. upto : all[i] = v.file_content[0 + i - 1]
  <2> HIDE DEF all
  <2>1. /\ all \in Seq(Bytewise)
        /\ Len(all) = IF 0 <= upto THEN upto - 0 ELSE 0
        /\ \A i \in 1 .. Len(all) : all[i] = v.file_content[0 + i - 1]
    BY <1>1, BytesIs DEF all
  <2>2. Len(all) = upto
    BY <1>1, <2>1
  <2>3. QED
    BY <2>1, <2>2
<1> HIDE DEF first, rest, all
<1>5. /\ first \o rest \in Seq(Bytewise)
      /\ Len(first \o rest) = upto
      /\ \A i \in 1 .. upto :
           (first \o rest)[i] = IF i <= mid THEN first[i] ELSE rest[i - mid]
  <2>1. /\ first \o rest \in Seq(Bytewise)
        /\ Len(first \o rest) = Len(first) + Len(rest)
        /\ \A i \in 1 .. Len(first) + Len(rest) :
             (first \o rest)[i] = IF i <= Len(first) THEN first[i] ELSE rest[i - Len(first)]
    BY <1>2, <1>3, ConcatProperties
  <2>2. Len(first) = mid /\ Len(first) + Len(rest) = upto
    BY <1>1, <1>2, <1>3
  <2>3. QED
    BY <2>1, <2>2
<1>6. ASSUME NEW i \in 1 .. upto
      PROVE  (first \o rest)[i] = all[i]
  <2>1. CASE i <= mid
    <3>1. i \in 1 .. mid
      BY <1>1, <2>1
    <3>2. QED
      BY <1>2, <1>4, <1>5, <2>1, <3>1
  <2>2. CASE ~ i <= mid
    <3>1. i - mid \in 1 .. upto - mid /\ mid + (i - mid) - 1 = 0 + i - 1
      BY <1>1, <2>2
    <3>2. QED
      BY <1>3, <1>4, <1>5, <2>2, <3>1
  <2>3. QED
    BY <2>1, <2>2
<1>7. first \o rest = all
  BY <1>4, <1>5, <1>6, SeqEqual
<1>8. QED
  BY <1>7 DEF first, rest, all

\* A step that leaves stdout, its entry and the console alone.
LEMMA ConsoleKept ==
    ASSUME FilesInv, ConsoleInv, UNCHANGED console,
           vnode_list'[STDOUT] = vnode_list[STDOUT],
           \A o \in DOMAIN open_file_table' :
             open_file_table'[o].vnode = STDOUT =>
                 /\ o \in DOMAIN open_file_table
                 /\ open_file_table[o].vnode = STDOUT
                 /\ open_file_table'[o].pos = open_file_table[o].pos
    PROVE  ConsoleInv'
  BY DEF ConsoleInv, ConsoleShows, Bytes

\* The console shows what stdout holds, as long as no process opens stdout a
\* second time, with a position of its own, and no buffer ends early: what has
\* been shown is never written again and nothing is passed over.
THEOREM ConsoleShowsHolds ==
    ~ Faults /\ "stdout" \notin OpenNames => (Spec => []ConsoleShows)
<1> SUFFICES ASSUME ~ Faults, "stdout" \notin OpenNames
             PROVE  Spec => []ConsoleShows
  OBVIOUS
<1>1. Init => ConsoleInv
  <2>1. SUFFICES ASSUME Init
                 PROVE  ConsoleInv
    OBVIOUS
  <2>2. /\ vnode_list[STDOUT].filename = "stdout" /\ vnode_list[STDOUT].filesize = 0
        /\ DOMAIN open_file_table = 1 .. 2
        /\ open_file_table[1].vnode = 1
        /\ open_file_table[2].pos = 0
        /\ console.last_pos = 0 /\ console.text = <<>>
    BY <2>1 DEF Init, NewVnode, NewOpen, STDIN, STDOUT
  <2>3. Bytes(vnode_list[STDOUT], 0, 0) = <<>>
    BY DEF Bytes
  <2>4. QED
    BY <2>2, <2>3 DEF ConsoleInv, ConsoleShows, STDOUT
<1>2. FilesInv /\ ConsoleInv /\ [Next]_vars => ConsoleInv'
  <2>1. SUFFICES ASSUME FilesInv, ConsoleInv, [Next]_vars
                 PROVE  ConsoleInv'
    OBVIOUS
  <2> DEFINE out == vnode_list[STDOUT]
  <2>2. /\ TypeOK /\ STDOUT \in DOMAIN vnode_list /\ STDIN \in DOMAIN vnode_list
        /\ out \in VnodeType /\ out.filesize \in 0 .. MaxLen /\ out.filesize \in Nat
        /\ console.last_pos \in 0 .. MaxLen /\ console.last_pos \in Nat
    <3>1. TypeOK
      BY <2>1 DEF FilesInv
    <3>2. STDOUT \in DOMAIN vnode_list /\ STDIN \in DOMAIN vnode_list
      BY <2>1, Standard
    <3>3. out \in VnodeType /\ out.filesize \in 0 .. MaxLen /\ out.filesize \in Nat
      BY <3>1, <3>2, Entries
    <3>4. console.last_pos \in 0 .. MaxLen /\ console.last_pos \in Nat
      BY <3>1, Bounds DEF TypeOK
    <3>5. QED
      BY <3>1, <3>2, <3>3, <3>4
  <2>3. CASE UNCHANGED <<vnode_list, open_file_table, console>>
    BY <2>1, <2>3, ConsoleKept
  <2>4. CASE Import
    <3>1. PICK new \in VnodeType :
            /\ vnode_list' = Append(vnode_list, new)
            /\ UNCHANGED <<open_file_table, console>>
      BY <2>1, <2>4, ImportEffect
    <3>2. vnode_list'[STDOUT] = out
      <4>1. STDOUT \in 1 .. Len(vnode_list)
        BY <2>2, Entries
      <4>2. QED
        BY <2>2, <3>1, <4>1, AppendProperties DEF TypeOK
    <3>3. QED
      BY <2>1, <3>1, <3>2, ConsoleKept
  <2>5. CASE StdinReadline
    <3>1. vnode_list'[STDOUT] = out /\ UNCHANGED <<open_file_table, console>>
      BY <2>2, <2>5 DEF StdinReadline, STDIN, STDOUT
    <3>2. QED
      BY <2>1, <3>1, ConsoleKept
  <2>6. CASE PrintStdout
    <3>1. /\ console'.last_pos = out.filesize
          /\ console'.text =
               console.text \o Bytes(out, console.last_pos, out.filesize)
          /\ UNCHANGED <<vnode_list, open_file_table>>
      BY <2>6 DEF PrintStdout, ShownUpto
    <3>2. console'.text = Bytes(out, 0, out.filesize)
      <4>1. out.filesize \in console.last_pos .. MaxLen
        BY <2>1, <2>2 DEF ConsoleInv
      <4>2. console.text = Bytes(out, 0, console.last_pos)
        BY <2>1 DEF ConsoleInv, ConsoleShows
      <4>3. Bytes(out, 0, console.last_pos) \o
              Bytes(out, console.last_pos, out.filesize) = Bytes(out, 0, out.filesize)
        <5> HIDE DEF out
        <5>1. QED
          BY <2>2, <4>1, BytesJoined
      <4>4. QED
        BY <3>1, <4>2, <4>3
    <3>3. console'.last_pos <= out.filesize
      BY <2>2, <3>1
    <3>4. QED
      BY <2>1, <3>1, <3>2, <3>3 DEF ConsoleInv, ConsoleShows
  <2>7. ASSUME NEW p \in Pids, NEW name \in OpenNames, Open(p, name) \/ OpenOver(p, name)
        PROVE  ConsoleInv'
    <3>1. UNCHANGED <<vnode_list, console>>
      BY <2>7 DEF Open, OpenOver
    <3>2. PICK v \in DOMAIN vnode_list : Named(name, v) /\ Opened(v)
      BY <2>7 DEF Open, OpenOver
    <3>3. v # STDOUT
      BY <2>1, <3>2 DEF ConsoleInv, Named
    <3>4. /\ DOMAIN open_file_table' = 1 .. Len(open_file_table')
          /\ Len(open_file_table') = Len(open_file_table) + 1
          /\ \A o \in DOMAIN open_file_table :
               open_file_table'[o] = open_file_table[o]
          /\ open_file_table'[Len(open_file_table')].vnode # STDOUT
      <4>1. NewOpen(v).vnode # STDOUT
        BY <3>3 DEF NewOpen
      <4>2. QED
        BY <2>1, <3>1, <3>2, <4>1, OpenedEffect
    <3>5. DOMAIN open_file_table = 1 .. Len(open_file_table)
          /\ Len(open_file_table) \in Nat
      BY <2>2, Entries
    <3>6. QED
      BY <2>1, <3>1, <3>4, <3>5, ConsoleKept
  <2>8. ASSUME NEW o \in DOMAIN open_file_table, NEW n \in Nat, Read(o, n, n)
        PROVE  ConsoleInv'
    <3> DEFINE v == vnode_list[open_file_table[o].vnode]
               pos == open_file_table[o].pos
               cnt == ToRead(v, pos, n)
    <3>1. /\ v.filesize \in Nat /\ pos \in Nat
          /\ cnt \in 0 .. n
          /\ pos + cnt = IF pos + n < v.filesize THEN pos + n ELSE v.filesize
      BY <2>1, <2>2, ReadRange, Entries
    <3> HIDE DEF cnt
    <3>2. /\ UNCHANGED <<vnode_list, console>>
          /\ open_file_table' = [open_file_table EXCEPT ![o].pos = pos + cnt]
      <4>1. \A x \in DOMAIN open_file_table :
              open_file_table[x] \in [vnode : DOMAIN vnode_list, pos : Nat]
        BY <2>2, Entries
      <4>2. QED
        BY <2>8, <3>1, <4>1 DEF Read, Moved, cnt
    <3>3. \A x \in DOMAIN open_file_table :
            /\ open_file_table'[x].vnode = open_file_table[x].vnode
            /\ open_file_table'[x].pos = IF x = o THEN pos + cnt ELSE open_file_table[x].pos
      <4>1. \A x \in DOMAIN open_file_table :
              open_file_table[x] \in [vnode : DOMAIN vnode_list, pos : Nat]
        BY <2>2, Entries
      <4>2. QED
        BY <3>2, <4>1
    \* The entry of stdout is at its end, where there is nothing to read.
    <3>4. open_file_table[o].vnode = STDOUT => pos + cnt = pos
      BY <2>1, <3>1 DEF ConsoleInv
    <3>5. QED
      BY <2>1, <3>2, <3>3, <3>4, ConsoleKept
  <2>9. ASSUME NEW o \in DOMAIN open_file_table, NEW bytes \in Seq(Vals),
               Put(o, bytes), UNCHANGED console
        PROVE  ConsoleInv'
    <3> DEFINE k == open_file_table[o].vnode
               pos == open_file_table[o].pos
               old == vnode_list[k].filesize
               size == Length(vnode_list[k], pos + Len(bytes))
               content == Filled(vnode_list[k].file_content, pos, bytes)
    <3>1. /\ k \in DOMAIN vnode_list /\ pos \in 0 .. old /\ pos \in Nat
          /\ size \in old .. MaxLen
          /\ size = IF pos + Len(bytes) > old THEN pos + Len(bytes) ELSE old
          /\ vnode_list' = [vnode_list EXCEPT ![k].filesize = size,
                                              ![k].file_content = content]
          /\ open_file_table' = [open_file_table EXCEPT ![o].pos = pos + Len(bytes)]
      BY <2>9 DEF Put
    <3>2. \A x \in DOMAIN open_file_table :
            /\ open_file_table'[x].vnode = open_file_table[x].vnode
            /\ open_file_table'[x].pos =
                 IF x = o THEN pos + Len(bytes) ELSE open_file_table[x].pos
      <4>1. \A x \in DOMAIN open_file_table :
              open_file_table[x] \in [vnode : DOMAIN vnode_list, pos : Nat]
        BY <2>2, Entries
      <4>2. QED
        BY <3>1, <4>1
    <3>3. DOMAIN open_file_table' = DOMAIN open_file_table
      BY <3>1
    <3>4. CASE k # STDOUT
      <4>1. vnode_list'[STDOUT] = out
        BY <2>2, <3>1, <3>4
      <4>2. QED
        BY <2>1, <2>9, <3>2, <3>3, <3>4, <4>1, ConsoleKept
    \* The bytes go behind the end of stdout.
    <3>5. CASE k = STDOUT
      <4>1. pos = old /\ old = out.filesize /\ o = STDOUT
        BY <2>1, <3>5 DEF ConsoleInv
      <4>2. size = pos + Len(bytes)
        BY <2>2, <3>1, <4>1, LenProperties
      <4>3. /\ vnode_list'[STDOUT].filename = out.filename
            /\ vnode_list'[STDOUT].filesize = size
            /\ vnode_list'[STDOUT].file_content = content
        BY <2>2, <3>1, <3>5 DEF VnodeType
      <4>4. \A i \in 0 .. out.filesize - 1 : content[i] = out.file_content[i]
        BY <2>2, <3>5, <4>1, Bounds DEF Filled, Positions
      <4>5. \A i \in 0 .. console.last_pos - 1 :
              vnode_list'[STDOUT].file_content[i] = out.file_content[i]
        <5>1. console.last_pos <= out.filesize
          BY <2>1 DEF ConsoleInv
        <5>2. QED
          BY <2>2, <4>3, <4>4, <5>1
      <4>6. console'.text = Bytes(vnode_list'[STDOUT], 0, console'.last_pos)
        <5>1. Bytes(vnode_list'[STDOUT], 0, console.last_pos)
                = Bytes(out, 0, console.last_pos)
          BY <2>2, <4>5, SameBytes
        <5>2. QED
          BY <2>1, <2>9, <5>1 DEF ConsoleInv, ConsoleShows
      <4>7. console'.last_pos <= size
        <5>1. console.last_pos <= out.filesize /\ Len(bytes) \in Nat
          BY <2>1, LenProperties DEF ConsoleInv
        <5>2. QED
          BY <2>2, <2>9, <4>1, <4>2, <5>1
      <4>8. \A x \in DOMAIN open_file_table :
              open_file_table'[x].vnode = STDOUT =>
                  x = STDOUT /\ open_file_table'[x].pos = size
        BY <2>1, <3>2, <4>1, <4>2 DEF ConsoleInv
      <4>9. QED
        BY <2>1, <3>3, <4>3, <4>6, <4>7, <4>8 DEF ConsoleInv, ConsoleShows
    <3>6. QED
      BY <3>4, <3>5
  <2>10. ASSUME NEW p \in Pids, NEW n \in 0 .. MaxChunk, Transfer(p, n)
         PROVE  ConsoleInv'
    BY <2>1, <2>3, <2>8, <2>9, <2>10, WholeTransfer
  <2>11. QED
    BY <2>1, <2>3, <2>4, <2>5, <2>6, <2>7, <2>10 DEF Next, vars, Fork, Refused
<1>3. ConsoleInv => ConsoleShows
  BY DEF ConsoleInv
<1>4. QED
  BY <1>1, <1>2, <1>3, FilesInvHolds, PTL DEF Spec

-----------------------------------------------------------------------------
(* Files implements FileSystem.                                            *)

\* The files and opens of FileSystem, as FileSystemSpec maps them.
ContentsOf(list) == [v \in DOMAIN list |-> Bytes(list[v], 0, list[v].filesize)]

OpensOf(table) == [o \in DOMAIN table |->
                     [file |-> table[o].vnode, offset |-> table[o].pos]]

\* The content of a file, as a sequence.
LEMMA ContentIs ==
    ASSUME NEW v \in VnodeType
    PROVE  /\ Bytes(v, 0, v.filesize) \in Seq(Bytewise)
           /\ Len(Bytes(v, 0, v.filesize)) = v.filesize
           /\ \A i \in 1 .. v.filesize :
                Bytes(v, 0, v.filesize)[i] = v.file_content[i - 1]
<1>1. v.filesize \in 0 .. MaxLen /\ v.filesize \in Nat /\ 0 \in Nat
  BY Bounds DEF VnodeType
<1> DEFINE f == Bytes(v, 0, v.filesize)
<1> HIDE DEF f
<1>2. /\ f \in Seq(Bytewise)
      /\ Len(f) = IF 0 <= v.filesize THEN v.filesize - 0 ELSE 0
      /\ \A i \in 1 .. Len(f) : f[i] = v.file_content[0 + i - 1]
  BY <1>1, BytesIs DEF f
<1>3. Len(f) = v.filesize
  BY <1>1, <1>2
<1>4. \A i \in 1 .. v.filesize : 0 + i - 1 = i - 1
  BY <1>1
<1>5. QED
  BY <1>2, <1>3, <1>4 DEF f

\* What lies between two places of a file is that part of its content.
LEMMA BytesSub ==
    ASSUME NEW v \in VnodeType, NEW upto \in 0 .. v.filesize, NEW from \in 0 .. upto
    PROVE  Bytes(v, from, upto) = SubSeq(Bytes(v, 0, v.filesize), from + 1, upto)
<1> DEFINE f == Bytes(v, 0, v.filesize)
           part == Bytes(v, from, upto)
           sub == SubSeq(f, from + 1, upto)
<1>1. /\ v.filesize \in Nat /\ upto \in 0 .. MaxLen /\ from \in Nat /\ upto \in Nat
      /\ from <= upto /\ from + 1 \in Int /\ upto \in Int
  BY Bounds DEF VnodeType
<1>2. /\ f \in Seq(Bytewise) /\ Len(f) = v.filesize
      /\ \A i \in 1 .. v.filesize : f[i] = v.file_content[i - 1]
  BY ContentIs
<1>3. /\ part \in Seq(Bytewise)
      /\ Len(part) = IF from <= upto THEN upto - from ELSE 0
      /\ \A i \in 1 .. Len(part) : part[i] = v.file_content[from + i - 1]
  <2> HIDE DEF part
  <2>1. QED
    BY <1>1, BytesIs DEF part
<1> HIDE DEF f, part
<1>4. \A i \in from + 1 .. upto : f[i] \in Bytewise
  BY <1>1, <1>2, ElementOfSeq
<1>5. /\ sub \in Seq(Bytewise)
      /\ Len(sub) = IF from + 1 <= upto THEN upto - (from + 1) + 1 ELSE 0
      /\ \A i \in 1 .. upto - (from + 1) + 1 : sub[i] = f[from + 1 + i - 1]
  <2> HIDE DEF sub
  <2>1. QED
    BY <1>1, <1>4, SubSeqProperties DEF sub
<1> HIDE DEF sub
<1>6. Len(part) = upto - from /\ Len(sub) = upto - from
  BY <1>1, <1>3, <1>5
<1>7. ASSUME NEW i \in 1 .. upto - from
      PROVE  part[i] = sub[i]
  <2>1. /\ i \in 1 .. upto - (from + 1) + 1
        /\ from + 1 + i - 1 \in 1 .. v.filesize
        /\ from + 1 + i - 1 - 1 = from + i - 1
    BY <1>1
  <2>2. part[i] = v.file_content[from + i - 1]
    BY <1>3, <1>6
  <2>3. sub[i] = f[from + 1 + i - 1]
    BY <1>5, <2>1
  <2>4. QED
    BY <1>2, <2>1, <2>2, <2>3
<1>8. part = sub
  BY <1>3, <1>5, <1>6, <1>7, SeqEqual
<1>9. QED
  BY <1>8 DEF part, sub, f

\* Bytes written into a file within it or right behind its end: before and after
\* them its content is what it was.
LEMMA ContentPut ==
    ASSUME NEW v \in VnodeType, NEW w \in VnodeType, NEW bytes \in Seq(Vals),
           NEW from \in 0 .. v.filesize,
           w.filesize = IF from + Len(bytes) > v.filesize
                        THEN from + Len(bytes) ELSE v.filesize,
           w.file_content = Filled(v.file_content, from, bytes)
    PROVE  LET f == Bytes(v, 0, v.filesize)
               upto == from + Len(bytes)
           IN  Bytes(w, 0, w.filesize) =
                 SubSeq(f, 1, from) \o bytes \o SubSeq(f, upto + 1, Len(f))
<1> DEFINE f == Bytes(v, 0, v.filesize)
           g == Bytes(w, 0, w.filesize)
           upto == from + Len(bytes)
           a == SubSeq(f, 1, from)
           c == SubSeq(f, upto + 1, Len(f))
<1>1. /\ f \in Seq(Bytewise) /\ Len(f) = v.filesize
      /\ \A i \in 1 .. v.filesize : f[i] = v.file_content[i - 1]
  BY ContentIs
<1>2. /\ g \in Seq(Bytewise) /\ Len(g) = w.filesize
      /\ \A i \in 1 .. w.filesize : g[i] = w.file_content[i - 1]
  BY ContentIs
<1> HIDE DEF f, g
<1>3. /\ Len(bytes) \in Nat /\ v.filesize \in Nat /\ w.filesize \in Nat
      /\ w.filesize <= MaxLen /\ from \in Nat /\ upto \in Nat /\ from <= v.filesize
  BY Bounds, LenProperties DEF VnodeType
<1>4. bytes \in Seq(Bytewise)
  BY SeqMonotonic DEF Bytewise
<1>5. /\ a \in Seq(Bytewise)
      /\ Len(a) = from
      /\ \A i \in 1 .. from : a[i] = f[i]
  <2>1. \A i \in 1 .. from : f[i] \in Bytewise
    BY <1>1, <1>3, ElementOfSeq
  <2>2. /\ a \in Seq(Bytewise)
        /\ Len(a) = IF 1 <= from THEN from - 1 + 1 ELSE 0
        /\ \A i \in 1 .. from - 1 + 1 : a[i] = f[1 + i - 1]
    <3> HIDE DEF a
    <3>1. from \in Int /\ 1 \in Int
      BY <1>3
    <3>2. QED
      BY <2>1, <3>1, SubSeqProperties DEF a
  <2> HIDE DEF a
  <2>3. QED
    BY <1>3, <2>2
<1>6. /\ c \in Seq(Bytewise)
      /\ Len(c) = w.filesize - upto
      /\ \A i \in 1 .. w.filesize - upto : c[i] = f[upto + i]
  <2>1. \A i \in upto + 1 .. Len(f) : f[i] \in Bytewise
    BY <1>1, <1>3, ElementOfSeq
  <2>2. /\ c \in Seq(Bytewise)
        /\ Len(c) = IF upto + 1 <= Len(f) THEN Len(f) - (upto + 1) + 1 ELSE 0
        /\ \A i \in 1 .. Len(f) - (upto + 1) + 1 : c[i] = f[upto + 1 + i - 1]
    <3> HIDE DEF c
    <3>1. upto + 1 \in Int /\ Len(f) \in Int
      BY <1>1, <1>3
    <3> HIDE DEF upto
    <3>2. QED
      BY <2>1, <3>1, SubSeqProperties DEF c
  <2> HIDE DEF c
  <2>3. QED
    BY <1>1, <1>3, <2>2
<1> HIDE DEF a, c
<1> DEFINE ab == a \o bytes
<1>7. /\ ab \in Seq(Bytewise)
      /\ Len(ab) = upto
      /\ \A i \in 1 .. upto : ab[i] = IF i <= from THEN a[i] ELSE bytes[i - from]
  <2>1. /\ a \o bytes \in Seq(Bytewise)
        /\ Len(a \o bytes) = Len(a) + Len(bytes)
        /\ \A i \in 1 .. Len(a) + Len(bytes) :
             (a \o bytes)[i] = IF i <= Len(a) THEN a[i] ELSE bytes[i - Len(a)]
    BY <1>4, <1>5, ConcatProperties
  <2>2. QED
    BY <1>5, <2>1
<1> HIDE DEF ab
<1> DEFINE abc == ab \o c
<1>8. /\ abc \in Seq(Bytewise)
      /\ Len(abc) = w.filesize
      /\ \A i \in 1 .. w.filesize : abc[i] = IF i <= upto THEN ab[i] ELSE c[i - upto]
  <2>1. ab \in Seq(Bytewise) /\ c \in Seq(Bytewise)
    BY <1>6, <1>7
  <2>2. /\ ab \o c \in Seq(Bytewise)
        /\ Len(ab \o c) = Len(ab) + Len(c)
        /\ \A i \in 1 .. Len(ab) + Len(c) :
             (ab \o c)[i] = IF i <= Len(ab) THEN ab[i] ELSE c[i - Len(ab)]
    BY ONLY <2>1, ConcatProperties
  <2>3. Len(ab) = upto /\ Len(ab) + Len(c) = w.filesize
    BY <1>3, <1>6, <1>7
  <2>4. QED
    BY <2>2, <2>3
<1> HIDE DEF abc
<1>9. ASSUME NEW i \in 1 .. w.filesize
      PROVE  g[i] = abc[i]
  <2>1. g[i] = w.file_content[i - 1] /\ i - 1 \in Positions
    BY <1>2, <1>3, Bounds DEF Positions
  <2>2. CASE i <= from
    <3>1. g[i] = v.file_content[i - 1] /\ i \in 1 .. from /\ i \in 1 .. upto
          /\ i \in 1 .. v.filesize
      BY <1>3, <2>1, <2>2 DEF Filled
    <3>2. abc[i] = ab[i] /\ ab[i] = a[i]
      BY <1>7, <1>8, <2>2, <3>1
    <3>3. a[i] = v.file_content[i - 1]
      BY <1>1, <1>5, <3>1
    <3>4. QED
      BY <3>1, <3>2, <3>3
  <2>3. CASE from < i /\ i <= upto
    <3>1. g[i] = bytes[i - 1 - from + 1] /\ i \in 1 .. upto /\ ~ i <= from
      BY <1>3, <2>1, <2>3 DEF Filled
    <3>2. i - 1 - from + 1 = i - from
      BY <1>3
    <3>3. QED
      BY <1>7, <1>8, <2>3, <3>1, <3>2
  <2>4. CASE upto < i
    <3>1. /\ g[i] = v.file_content[i - 1]
          /\ i \in 1 .. v.filesize /\ ~ i <= upto
          /\ i - upto \in 1 .. w.filesize - upto /\ upto + (i - upto) = i
      BY <1>3, <2>1, <2>4 DEF Filled
    <3>2. QED
      BY <1>1, <1>6, <1>8, <3>1
  <2>5. QED
    BY <1>3, <2>2, <2>3, <2>4
<1>10. g = abc
  BY <1>2, <1>8, <1>9, SeqEqual
<1>11. QED
  BY <1>10 DEF f, g, a, c, ab, abc

\* The contents of a list of files are a list as long.
LEMMA ContentsShape ==
    ASSUME NEW list \in Seq(VnodeType)
    PROVE  /\ ContentsOf(list) \in Seq(Seq(Bytewise))
           /\ Len(ContentsOf(list)) = Len(list) /\ Len(list) \in Nat
           /\ DOMAIN ContentsOf(list) = 1 .. Len(list) /\ DOMAIN list = 1 .. Len(list)
           /\ \A v \in 1 .. Len(list) :
                /\ list[v] \in VnodeType
                /\ ContentsOf(list)[v] = Bytes(list[v], 0, list[v].filesize)
                /\ ContentsOf(list)[v] \in Seq(Bytewise)
<1>1. /\ Len(list) \in Nat /\ DOMAIN list = 1 .. Len(list)
      /\ \A v \in 1 .. Len(list) : list[v] \in VnodeType
  BY LenProperties, ElementOfSeq
<1>2. \A v \in 1 .. Len(list) : Bytes(list[v], 0, list[v].filesize) \in Seq(Bytewise)
  BY <1>1, ContentIs
<1>3. ContentsOf(list) \in [1 .. Len(list) -> Seq(Bytewise)]
  BY <1>1, <1>2 DEF ContentsOf
<1>4. ContentsOf(list) \in Seq(Seq(Bytewise)) /\ Len(ContentsOf(list)) = Len(list)
  BY <1>1, <1>3, FunctionSeq
<1>5. QED
  BY <1>1, <1>2, <1>4 DEF ContentsOf

\* Bytes are put into one of the files.
LEMMA ContentsPut ==
    ASSUME TypeOK, NEW k, NEW bytes, NEW from, NEW size, BytesPut(k, from, bytes, size)
    PROVE  LET f == ContentsOf(vnode_list)[k] IN
           /\ f \in Seq(Bytewise) /\ Len(f) = vnode_list[k].filesize
           /\ ContentsOf(vnode_list)' =
                [ContentsOf(vnode_list) EXCEPT ![k] =
                   SubSeq(f, 1, from) \o bytes
                     \o SubSeq(f, from + Len(bytes) + 1, Len(f))]
<1> DEFINE v == vnode_list[k]
           w == vnode_list'[k]
           content == Filled(v.file_content, from, bytes)
           f == Bytes(v, 0, v.filesize)
           new == SubSeq(f, 1, from) \o bytes \o SubSeq(f, from + Len(bytes) + 1, Len(f))
<1>0. /\ k \in DOMAIN vnode_list /\ bytes \in Seq(Vals)
      /\ from \in 0 .. v.filesize
      /\ size \in v.filesize .. MaxLen
      /\ size = IF from + Len(bytes) > v.filesize
                THEN from + Len(bytes) ELSE v.filesize
      /\ vnode_list' = [vnode_list EXCEPT ![k].filesize = size,
                                          ![k].file_content = content]
  BY DEF BytesPut
<1>1. v \in VnodeType /\ from \in Nat
  BY <1>0, Entries
<1>2. content \in [Positions -> Bytewise]
  <2>1. bytes \in Seq(Bytewise)
    BY <1>0, SeqMonotonic DEF Bytewise
  <2>2. QED
    BY <1>0, <1>1, <2>1, Entries, FilledType
<1> HIDE DEF content
<1>3. /\ FilesGrow /\ Len(vnode_list') = Len(vnode_list)
      /\ w.filesize = size /\ w.file_content = content
      /\ \A x \in DOMAIN vnode_list : x # k => vnode_list'[x] = vnode_list[x]
  <2>1. FilePut(k, size, content)
    BY <1>0, <1>2 DEF FilePut
  <2>2. QED
    BY ONLY TypeOK, <2>1, OneFileGrows
<1>4. /\ DOMAIN vnode_list' = DOMAIN vnode_list
      /\ w \in VnodeType
  <2>1. vnode_list' \in Seq(VnodeType)
    BY <1>3 DEF FilesGrow
  <2>2. DOMAIN vnode_list' = 1 .. Len(vnode_list') /\ DOMAIN vnode_list = 1 .. Len(vnode_list)
    BY <1>3, Entries, Grown
  <2>3. QED
    BY <1>0, <1>3, <2>1, <2>2, ElementOfSeq
<1>5. Bytes(w, 0, w.filesize) = new
  <2> HIDE DEF w, v
  <2>1. w.filesize = IF from + Len(bytes) > v.filesize
                     THEN from + Len(bytes) ELSE v.filesize
    BY <1>0, <1>3
  <2>2. w.file_content = Filled(v.file_content, from, bytes)
    BY <1>3 DEF content
  <2>3. QED
    BY <1>0, <1>1, <1>4, <2>1, <2>2, ContentPut
<1> HIDE DEF new
<1>6. ContentsOf(vnode_list)' = [ContentsOf(vnode_list) EXCEPT ![k] = new]
  <2>1. ContentsOf(vnode_list)' =
          [x \in DOMAIN vnode_list' |-> Bytes(vnode_list'[x], 0, vnode_list'[x].filesize)]
    BY DEF ContentsOf
  <2>2. \A x \in DOMAIN vnode_list :
          Bytes(vnode_list'[x], 0, vnode_list'[x].filesize) =
            IF x = k THEN new ELSE Bytes(vnode_list[x], 0, vnode_list[x].filesize)
    BY <1>3, <1>5
  <2>3. QED
    BY <1>4, <2>1, <2>2 DEF ContentsOf
<1>7. ContentsOf(vnode_list)[k] = f
  BY <1>0 DEF ContentsOf
<1>8. f \in Seq(Bytewise) /\ Len(f) = v.filesize
  <2> HIDE DEF v
  <2>1. QED
    BY <1>1, ContentIs
<1>9. QED
  BY <1>6, <1>7, <1>8 DEF new

\* An import creates a file.
LEMMA ImportCreates ==
    ASSUME FilesInv, Import
    PROVE  System!Create
<1> DEFINE old == ContentsOf(vnode_list)
           now == ContentsOf(vnode_list')
<1>1. PICK new \in VnodeType :
        /\ vnode_list' = Append(vnode_list, new)
        /\ UNCHANGED <<open_file_table, fd_set, got>>
  BY ImportEffect
<1>2. /\ vnode_list \in Seq(VnodeType) /\ vnode_list' \in Seq(VnodeType)
      /\ Len(vnode_list') = Len(vnode_list) + 1
      /\ \A v \in 1 .. Len(vnode_list) : vnode_list'[v] = vnode_list[v]
  BY <1>1, AppendProperties DEF FilesInv, TypeOK
<1>3. /\ old \in Seq(Seq(Bytewise)) /\ Len(old) = Len(vnode_list) /\ Len(old) \in Nat
      /\ now \in Seq(Seq(Bytewise)) /\ Len(now) = Len(old) + 1
      /\ \A v \in 1 .. Len(old) : now[v] = old[v]
  <2>1. /\ old \in Seq(Seq(Bytewise)) /\ Len(old) = Len(vnode_list)
        /\ Len(vnode_list) \in Nat
        /\ \A v \in 1 .. Len(vnode_list) :
             old[v] = Bytes(vnode_list[v], 0, vnode_list[v].filesize)
    BY <1>2, ContentsShape
  <2>2. /\ now \in Seq(Seq(Bytewise)) /\ Len(now) = Len(vnode_list')
        /\ \A v \in 1 .. Len(vnode_list') :
             now[v] = Bytes(vnode_list'[v], 0, vnode_list'[v].filesize)
    BY <1>2, ContentsShape
  <2>3. \A v \in 1 .. Len(vnode_list) : v \in 1 .. Len(vnode_list')
    BY <1>2, <2>1
  <2>4. QED
    BY <1>2, <2>1, <2>2, <2>3
<1> HIDE DEF old, now
<1>4. SubSeq(now, 1, Len(old)) = old
  <2>1. \A v \in 1 .. Len(old) : now[v] \in Seq(Bytewise)
    BY <1>3, ElementOfSeq
  <2> DEFINE sub == SubSeq(now, 1, Len(old))
  <2>2. /\ sub \in Seq(Seq(Bytewise))
        /\ Len(sub) = IF 1 <= Len(old) THEN Len(old) - 1 + 1 ELSE 0
        /\ \A v \in 1 .. Len(old) - 1 + 1 : sub[v] = now[1 + v - 1]
    <3> HIDE DEF sub
    <3>1. Len(old) \in Int /\ 1 \in Int
      BY <1>3
    <3>2. QED
      BY <2>1, <3>1, SubSeqProperties DEF sub
  <2> HIDE DEF sub
  <2>3. Len(sub) = Len(old) /\ \A v \in 1 .. Len(old) : sub[v] = old[v]
    BY <1>3, <2>2
  <2>4. sub = old
    BY <1>3, <2>2, <2>3, SeqEqual
  <2>5. QED
    BY <2>4 DEF sub
<1>5. QED
  BY <1>1, <1>3, <1>4 DEF System!Create, old, now, ContentsOf

\* What is typed is added to the first file.
LEMMA ReadlineTypes ==
    ASSUME FilesInv, StdinReadline
    PROVE  System!Typed
<1> DEFINE old == vnode_list[STDIN].filesize
           f == ContentsOf(vnode_list)[STDIN]
<1>1. PICK bytes \in Seq(Vals) :
        /\ Len(bytes) \in 0 .. MaxChunk
        /\ old + Len(bytes) \in old .. MaxLen
        /\ vnode_list' = [vnode_list EXCEPT
             ![STDIN].filesize = old + Len(bytes),
             ![STDIN].file_content =
                 Filled(vnode_list[STDIN].file_content, old, bytes)]
        /\ UNCHANGED <<open_file_table, fd_set, got>>
  BY ReadlineEffect
<1>2. TypeOK /\ STDIN \in DOMAIN vnode_list /\ old \in Nat
  BY Standard, Entries DEF FilesInv
<1>3. /\ old \in 0 .. old
      /\ old + Len(bytes) = IF old + Len(bytes) > old THEN old + Len(bytes) ELSE old
  BY <1>1, <1>2
<1>4. /\ f \in Seq(Bytewise) /\ Len(f) = old
      /\ ContentsOf(vnode_list)' =
           [ContentsOf(vnode_list) EXCEPT ![STDIN] =
              SubSeq(f, 1, old) \o bytes \o SubSeq(f, old + Len(bytes) + 1, Len(f))]
  <2>1. BytesPut(STDIN, old, bytes, old + Len(bytes))
    BY <1>1, <1>2, <1>3 DEF BytesPut
  <2> HIDE DEF old
  <2>2. QED
    BY <1>2, <2>1, ContentsPut DEF old
<1>5. SubSeq(f, 1, old) \o bytes \o SubSeq(f, old + Len(bytes) + 1, Len(f)) = f \o bytes
  <2> HIDE DEF f, old
  <2>1. SubSeq(f, 1, old) = f
    BY <1>4, SubSeqFull
  <2>2. SubSeq(f, old + Len(bytes) + 1, Len(f)) = <<>>
    <3>1. Len(f) < old + Len(bytes) + 1 /\ Len(f) \in Int /\ old + Len(bytes) + 1 \in Int
      BY <1>1, <1>2, <1>4
    <3>2. QED
      BY <3>1, SubSeqEmpty
  <2>3. f \o bytes \in Seq(Bytewise)
    <3>1. bytes \in Seq(Bytewise)
      BY SeqMonotonic DEF Bytewise
    <3>2. QED
      BY <1>4, <3>1, ConcatProperties
  <2>4. QED
    BY <2>1, <2>2, <2>3, ConcatEmptySeq
<1>6. bytes \in [1 .. Len(bytes) -> Vals]
  BY LenProperties
<1>7. ContentsOf(vnode_list)' =
        [ContentsOf(vnode_list) EXCEPT ![1] = ContentsOf(vnode_list)[1] \o bytes]
  BY <1>4, <1>5 DEF STDIN
<1>8. QED
  BY <1>1, <1>6, <1>7 DEF System!Typed, ContentsOf

\* An open is an open of the file found.
LEMMA OpenOpens ==
    ASSUME FilesInv, NEW p \in Pids, NEW name \in OpenNames, Open(p, name)
    PROVE  \E v \in DOMAIN ContentsOf(vnode_list) : System!Open(p, v)
<1>1. PICK v \in DOMAIN vnode_list : Named(name, v) /\ Opened(v)
  BY DEF Open
<1>2. PICK fd \in Fds :
        /\ Free(p, fd)
        /\ fd_set' = [fd_set EXCEPT ![p][fd] = Len(open_file_table')]
  BY DEF Open
<1>3. UNCHANGED <<vnode_list, got>>
  BY DEF Open
<1> DEFINE old == OpensOf(open_file_table)
           now == OpensOf(open_file_table')
           new == [file |-> v, offset |-> 0]
<1>4. /\ Len(open_file_table) \in Nat
      /\ DOMAIN open_file_table = 1 .. Len(open_file_table)
      /\ Len(open_file_table') = Len(open_file_table) + 1
      /\ DOMAIN open_file_table' = 1 .. Len(open_file_table) + 1
      /\ \A o \in 1 .. Len(open_file_table) : open_file_table'[o] = open_file_table[o]
      /\ open_file_table'[Len(open_file_table) + 1] = NewOpen(v)
  BY <1>1, <1>3, OpenedEffect, Entries DEF FilesInv
<1>5. now = Append(old, new) /\ Len(now) = Len(open_file_table')
  <2> DEFINE S == {old[o] : o \in DOMAIN open_file_table} \cup {new}
             n == Len(open_file_table)
  <2>1. old \in [1 .. n -> S] /\ new \in S
    BY <1>4 DEF OpensOf
  <2>2. now \in [1 .. n + 1 -> S] /\ now[n + 1] = new /\ \A o \in 1 .. n : now[o] = old[o]
    BY <1>4 DEF OpensOf, NewOpen
  <2> HIDE DEF S, old, now, new
  <2>3. /\ n \in Nat /\ n + 1 \in Nat
        /\ old \in Seq(S) /\ Len(old) = n
        /\ now \in Seq(S) /\ Len(now) = n + 1
    BY <1>4, <2>1, <2>2, FunctionSeq
  <2>4. /\ Append(old, new) \in Seq(S)
        /\ Len(Append(old, new)) = n + 1
        /\ \A o \in 1 .. n : Append(old, new)[o] = old[o]
        /\ Append(old, new)[n + 1] = new
    BY <2>1, <2>3, AppendProperties
  <2>5. \A o \in 1 .. n + 1 : now[o] = Append(old, new)[o]
    BY <1>4, <2>2, <2>4
  <2>6. now = Append(old, new)
    BY <2>3, <2>4, <2>5, SeqEqual
  <2>7. QED
    BY <1>4, <2>3, <2>6
<1> HIDE DEF old, now
<1>6. v \in DOMAIN ContentsOf(vnode_list)
  BY DEF ContentsOf
<1>7. /\ now = Append(old, new)
      /\ fd_set[p][fd] = 0 /\ \A g \in Fds : g < fd => fd_set[p][g] # 0
      /\ fd_set' = [fd_set EXCEPT ![p][fd] = Len(now)]
  BY <1>2, <1>5 DEF Free
<1>8. System!Open(p, v)
  BY <1>3, <1>6, <1>7 DEF System!Open, old, now, ContentsOf, OpensOf
<1>9. QED
  BY <1>6, <1>8

\* A read delivers the bytes from the offset on and moves it behind them.
LEMMA ReadReads ==
    ASSUME FilesInv, NEW o \in DOMAIN open_file_table, NEW n \in Nat, Read(o, n, n)
    PROVE  System!Read(o, n)
<1> DEFINE k == open_file_table[o].vnode
           v == vnode_list[k]
           pos == open_file_table[o].pos
           cnt == ToRead(v, pos, n)
           f == Bytes(v, 0, v.filesize)
           upto == IF pos + n < Len(f) THEN pos + n ELSE Len(f)
<1>1. /\ k \in DOMAIN vnode_list /\ v \in VnodeType /\ v.filesize \in Nat /\ pos \in Nat
      /\ \A x \in DOMAIN open_file_table :
           open_file_table[x] \in [vnode : DOMAIN vnode_list, pos : Nat]
  BY Entries DEF FilesInv
<1>2. /\ cnt \in 0 .. n
      /\ pos + cnt = IF pos + n < v.filesize THEN pos + n ELSE v.filesize
      /\ pos <= v.filesize
  BY ReadRange DEF FilesInv, PosInFile
<1> HIDE DEF cnt
<1>3. /\ UNCHANGED <<vnode_list, fd_set>>
      /\ got' = Bytes(v, pos, pos + cnt)
      /\ open_file_table' = [open_file_table EXCEPT ![o].pos = pos + cnt]
  <2>1. Min2(cnt, n) = cnt /\ ~ n < cnt
    BY <1>2 DEF Min2
  <2>2. QED
    BY <1>1, <2>1 DEF Read, Moved, cnt
<1>4. Len(f) = v.filesize
  <2> HIDE DEF v
  <2>1. QED
    BY <1>1, ContentIs
<1>5. upto = pos + cnt
  BY <1>2, <1>4
<1>6. got' = SubSeq(f, pos + 1, upto)
  <2>1. pos + cnt \in 0 .. v.filesize /\ pos \in 0 .. pos + cnt
    BY <1>1, <1>2
  <2> HIDE DEF v, pos, upto
  <2>2. QED
    BY <1>1, <1>3, <1>5, <2>1, BytesSub
<1> HIDE DEF upto
<1>7. OpensOf(open_file_table') = [OpensOf(open_file_table) EXCEPT ![o].offset = upto]
  BY <1>1, <1>3, <1>5 DEF OpensOf
<1>8. /\ OpensOf(open_file_table)[o].file = k
      /\ OpensOf(open_file_table)[o].offset = pos
      /\ ContentsOf(vnode_list)[k] = f
  BY <1>1 DEF OpensOf, ContentsOf
<1>9. QED
  BY <1>3, <1>6, <1>7, <1>8 DEF System!Read, OpensOf, ContentsOf, upto

\* Bytes put into a file are a write.
LEMMA PutWrites ==
    ASSUME FilesInv, NEW o \in DOMAIN open_file_table, NEW bytes \in Seq(Vals),
           Put(o, bytes), UNCHANGED <<fd_set, got>>
    PROVE  System!Write(o, bytes)
<1> DEFINE k == open_file_table[o].vnode
           pos == open_file_table[o].pos
           size == Length(vnode_list[k], pos + Len(bytes))
           f == ContentsOf(vnode_list)[k]
           upto == pos + Len(bytes)
<1>1. /\ k \in DOMAIN vnode_list /\ pos \in 0 .. vnode_list[k].filesize
      /\ size \in vnode_list[k].filesize .. MaxLen
      /\ size = IF pos + Len(bytes) > vnode_list[k].filesize
                THEN pos + Len(bytes) ELSE vnode_list[k].filesize
      /\ vnode_list' = [vnode_list EXCEPT
           ![k].filesize = size,
           ![k].file_content = Filled(vnode_list[k].file_content, pos, bytes)]
      /\ open_file_table' = [open_file_table EXCEPT ![o].pos = pos + Len(bytes)]
  BY DEF Put
<1>2. /\ TypeOK
      /\ \A x \in DOMAIN open_file_table :
           open_file_table[x] \in [vnode : DOMAIN vnode_list, pos : Nat]
  BY Entries DEF FilesInv
<1>3. ContentsOf(vnode_list)' =
        [ContentsOf(vnode_list) EXCEPT ![k] =
           SubSeq(f, 1, pos) \o bytes \o SubSeq(f, upto + 1, Len(f))]
  <2> HIDE DEF k, pos, size
  <2>1. BytesPut(k, pos, bytes, size)
    BY <1>1 DEF BytesPut
  <2>2. QED
    BY <1>2, <2>1, ContentsPut
<1>4. OpensOf(open_file_table') = [OpensOf(open_file_table) EXCEPT ![o].offset = upto]
  BY <1>1, <1>2 DEF OpensOf
<1>5. /\ OpensOf(open_file_table)[o].file = k
      /\ OpensOf(open_file_table)[o].offset = pos
  BY DEF OpensOf
<1>6. QED
  BY <1>3, <1>4, <1>5 DEF System!Write, OpensOf, ContentsOf

\* The files of FileSystem when the kernel has been set up.
LEMMA InitSystem == Init => System!Init
<1>1. SUFFICES ASSUME Init
               PROVE  System!Init
  OBVIOUS
<1>2. ContentsOf(vnode_list) = <<<<>>, <<>>>>
  <2>1. DOMAIN vnode_list = 1 .. 2
    BY <1>1 DEF Init
  <2>2. \A v \in 1 .. 2 : Bytes(vnode_list[v], 0, vnode_list[v].filesize) = <<>>
    BY <1>1 DEF Init, NewVnode, Bytes
  <2>3. QED
    BY <2>1, <2>2 DEF ContentsOf
<1>3. OpensOf(open_file_table) =
        <<[file |-> 1, offset |-> 0], [file |-> 2, offset |-> 0]>>
  BY <1>1 DEF Init, NewOpen, OpensOf, STDIN, STDOUT
<1>4. /\ 1 \in Pids
      /\ fd_set = [q \in Pids |->
           IF q = 1 THEN [fd \in Fds |-> IF fd < 2 THEN fd + 1 ELSE 0] ELSE NULL]
  BY <1>1, Bounds DEF Init, Pids, Fds
<1>5. got = <<>>
  BY <1>1 DEF Init
<1>6. QED
  BY <1>2, <1>3, <1>4, <1>5 DEF System!Init, ContentsOf, OpensOf

\* Files implements FileSystem: whatever the interleaving of processes that share
\* entries or have opened a file twice, of typing and of imports, every call does
\* to sequences of bytes what FileSystem promises.  The theorem is about buffers
\* that do not end early and processes that do not fill their table.
THEOREM FilesImplementFileSystem ==
    ~ Faults /\ ~ OverOpen => (Spec => FileSystemSpec)
<1> SUFFICES ASSUME ~ Faults, ~ OverOpen
             PROVE  Spec => FileSystemSpec
  OBVIOUS
<1>1. FilesInv /\ [Next]_vars => [System!Next]_System!vars
  <2>1. SUFFICES ASSUME FilesInv, [Next]_vars
                 PROVE  System!Next \/ UNCHANGED System!vars
    BY DEF System!vars
  <2>2. CASE UNCHANGED <<vnode_list, open_file_table, fd_set, got>>
    BY <2>2 DEF System!vars
  <2>3. CASE Import
    BY <2>1, <2>3, ImportCreates DEF System!Next
  <2>4. CASE StdinReadline
    BY <2>1, <2>4, ReadlineTypes DEF System!Next
  <2>5. ASSUME NEW p \in Pids, NEW q \in Pids, Fork(p, q)
        PROVE  System!Next
    <3>1. System!Fork(p, q) /\ fd_set[p] # NULL
      BY <2>5 DEF Fork, Exists, System!Fork
    <3>2. QED
      BY <3>1 DEF System!Next
  <2>6. ASSUME NEW p \in Pids, NEW name \in OpenNames, Open(p, name)
        PROVE  System!Next
    <3>1. PICK v \in DOMAIN ContentsOf(vnode_list) : System!Open(p, v)
      BY <2>1, <2>6, OpenOpens
    <3>2. fd_set[p] # NULL
      BY <2>6 DEF Open, Exists
    <3>3. QED
      BY <3>1, <3>2 DEF System!Next, ContentsOf
  <2>7. ASSUME NEW p \in Pids, NEW n \in 0 .. MaxChunk, Transfer(p, n)
        PROVE  System!Next \/ UNCHANGED <<vnode_list, open_file_table, fd_set, got>>
    <3>1. PICK fd \in Fds, o \in DOMAIN open_file_table :
            /\ fd_set[p][fd] = o
            /\ \/ Read(o, n, n)
               \/ UNCHANGED <<vnode_list, open_file_table, fd_set, got>>
               \/ \E bytes \in [1 .. n -> Vals] :
                    /\ bytes \in Seq(Vals)
                    /\ Put(o, bytes)
                    /\ UNCHANGED <<fd_set, got>>
      BY <2>1, <2>7, WholeTransfer
    <3>2. Exists(p) /\ n \in Nat
      BY <2>1, <2>7, WholeTransfer
    <3>3. System!Refers(p, fd, o) /\ o \in DOMAIN OpensOf(open_file_table)
      BY <2>1, <3>1, Entries DEF System!Refers, FilesInv, OpensOf
    <3>4. CASE System!Read(o, n) \/ \E bytes \in [1 .. n -> Vals] : System!Write(o, bytes)
      BY <3>2, <3>3, <3>4 DEF System!Next, Exists, OpensOf
    <3>5. QED
      BY <2>1, <3>1, <3>2, <3>4, ReadReads, PutWrites
  <2>8. QED
    BY <2>1, <2>2, <2>3, <2>4, <2>5, <2>6, <2>7
       DEF Next, vars, PrintStdout, OpenOver, Refused
<1>2. QED
  BY <1>1, InitSystem, FilesInvHolds, PTL DEF Spec, FileSystemSpec, System!Spec

=============================================================================
