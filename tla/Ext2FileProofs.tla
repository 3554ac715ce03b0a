---------------------------- MODULE Ext2FileProofs ---------------------------
(***************************************************************************)
(* Proofs about module Ext2File, for every block size, every number of     *)
(* direct pointers, every set of files and blocks and every sequence of    *)
(* calls.                                                                  *)
(*                                                                         *)
(* A call on a file that does not exist yet creates it first.  The proofs  *)
(* follow the calls: Shape speaks of the files, the inode table, the free  *)
(* blocks and the open file as arguments, so that it can be stated of what *)
(* the creation leaves (FilesNow, ItableNow, FreeNow, FileNow), of what a  *)
(* new block makes of that, and of the state itself.                       *)
(***************************************************************************)
EXTENDS Ext2File, NumberFacts

OpenFile == [open : BOOLEAN, exist : BOOLEAN, ino : File \cup {Uninit}, inode : Inode,
             pos : 0 .. NDirBlocks * BS, buff : [Offset -> Bytes]]
Caller == [wrote : Seq(Byte), got : Seq(Bytes), loaded : BOOLEAN, erred : BOOLEAN]

\* Every file has blocks, in use and nobody else's, that hold its size; the open file
\* is the file in the inode table.
Shape(fs, it, fr, g) ==
  /\ fs \subseteq File /\ fr \subseteq Block
  /\ it \in [File -> Inode] /\ g \in OpenFile
  /\ \A n \in fs : it[n].count > 0 /\ it[n].size <= it[n].count * BS
  /\ \A n \in fs : \A x \in 0 .. it[n].count - 1 : it[n].blk[x] \in Block \ fr
  /\ \A m, n \in fs : \A x \in 0 .. it[m].count - 1, y \in 0 .. it[n].count - 1 :
       it[m].blk[x] = it[n].blk[y] => m = n /\ x = y
  /\ g.exist => g.ino \in fs /\ g.inode = it[g.ino]

Typed == disk \in [Block -> [Offset -> Bytes]] /\ caller \in Caller

\* What the caller did fits the file it did it to.
CallerFits ==
  /\ ~f.open => caller = Idle
  /\ ~f.exist => f.pos = 0 /\ caller.wrote = Nothing /\ ~caller.loaded
  /\ caller.wrote # Nothing => caller.loaded /\ ~caller.erred

\* The position lies in the file, as long as no call failed.
PositionInFile == f.exist /\ ~caller.erred => f.pos < f.inode.count * BS

Inv ==
  /\ Typed /\ Shape(files, itable, free, f) /\ CallerFits
Contained == PositionInFile /\ BufferIsBlock /\ WriteIsDurable /\ ReadYourWrites

-----------------------------------------------------------------------------
(***************************************************************************)
(* Positions                                                               *)
(***************************************************************************)

\* Where a byte behind a position lies: in the block of the position or in the next one.
LEMMA PlaceOf ==
  ASSUME NEW pos \in Nat, NEW j \in Nat
  PROVE  LET o == pos % BS
             p == pos \div BS
         IN /\ p \in Nat /\ o \in Offset
            /\ o + j < BS => (pos + j) \div BS = p /\ (pos + j) % BS = o + j
            /\ o + j >= BS /\ o + j < 2 * BS =>
                 (pos + j) \div BS = p + 1 /\ (pos + j) % BS = o + j - BS
<1> DEFINE o == pos % BS
           p == pos \div BS
           x == BS * p
<1>1. BS \in Nat \ {0} /\ p \in Nat /\ o \in 0 .. BS - 1 /\ pos = x + o /\ x \in Nat
  BY FileAssumption, DivMod, Times
<1>2. \A q \in Nat, r \in 0 .. BS - 1 : (BS * q + r) \div BS = q /\ (BS * q + r) % BS = r
  BY <1>1, QuotientOf
<1> HIDE DEF o, p
<1>3. BS * (p + 1) = x + BS
  BY <1>1
<1> HIDE DEF x
<1>4. ASSUME o + j < BS PROVE (pos + j) \div BS = p /\ (pos + j) % BS = o + j
  <2>1. o + j \in 0 .. BS - 1 /\ pos + j = x + (o + j)
    BY <1>1, <1>4
  <2> QED
    BY <1>1, <1>2, <2>1 DEF x
<1>5. ASSUME o + j >= BS, o + j < 2 * BS
      PROVE  (pos + j) \div BS = p + 1 /\ (pos + j) % BS = o + j - BS
  <2>1. o + j - BS \in 0 .. BS - 1 /\ pos + j = (x + BS) + (o + j - BS) /\ p + 1 \in Nat
    BY <1>1, <1>5
  <2>2. pos + j = BS * (p + 1) + (o + j - BS)
    BY <1>3, <2>1
  <2> QED
    BY <1>2, <2>1, <2>2
<1> QED
  BY <1>1, <1>4, <1>5 DEF o, p, Offset

\* A block of a file ends inside the file.
LEMMA BlockInFile ==
  ASSUME NEW pos \in Nat, NEW count \in Nat, pos \div BS < count
  PROVE  \A j \in Nat : (pos % BS) + j <= BS => pos + j <= count * BS
<1> DEFINE o == pos % BS
           p == pos \div BS
           x == BS * p
           y == BS * count
<1>1. BS \in Nat \ {0} /\ p \in Nat /\ o \in 0 .. BS - 1 /\ pos = x + o /\ x \in Nat /\ y \in Nat
  BY FileAssumption, DivMod, Times
<1>2. x + BS <= y
  <2> HIDE DEF p
  <2> QED
    BY <1>1, OneMore DEF p
<1>3. count * BS = y
  BY <1>1
<1> HIDE DEF o, p, x, y
<1>4. \A j \in Nat : o + j <= BS => pos + j <= y
  BY <1>1, <1>2
<1> QED
  BY <1>3, <1>4 DEF o

\* The block of a position has a pointer, and so has the next one.
LEMMA PointerOf ==
  ASSUME NEW pos \in 0 .. NDirBlocks * BS
  PROVE  pos \in Nat /\ pos \div BS \in Pointer /\ pos \div BS + 1 \in Pointer
<1> DEFINE m == NDirBlocks + 1
<1>1. BS \in Nat \ {0} /\ m \in Nat /\ NDirBlocks \in Nat
  BY FileAssumption
<1>2. pos \in Nat /\ pos < BS * m
  <2> DEFINE x == NDirBlocks * BS
  <2>1. BS * m = x + BS /\ x \in Nat
    BY <1>1
  <2> HIDE DEF x, m
  <2>2. pos \in 0 .. x
    BY DEF x
  <2> QED
    BY <1>1, <2>1, <2>2
<1> HIDE DEF m
<1>3. pos \div BS \in Nat /\ pos \div BS < m
  BY <1>1, <1>2, QuotientBelow, DivMod
<1> QED
  BY <1>1, <1>2, <1>3 DEF m, Pointer

-----------------------------------------------------------------------------
(***************************************************************************)
(* Creating, growing and resizing the open file                            *)
(***************************************************************************)

\* Whatever creates the file, the call goes on with a file that has its shape.
LEMMA Creation ==
  ASSUME Inv, CanCreate
  PROVE  /\ Shape(FilesNow, ItableNow, FreeNow, FileNow)
         /\ FileNow.exist /\ FileNow.open = f.open
         /\ FileNow.pos = f.pos /\ FileNow.buff = f.buff
         /\ f.exist => FileNow = f
         /\ ~f.exist => FileNow.inode.count = 1 /\ FileNow.ino \notin files
         /\ \A n \in files : n \in FilesNow /\ ItableNow[n] = itable[n]
         /\ FreeNow \subseteq free
<1>1. CASE f.exist
  <2>1. FileNow = f /\ ItableNow = itable /\ FreeNow = free /\ FilesNow = files
    BY <1>1 DEF Inv, Shape, FileNow, ItableNow, FreeNow, FilesNow
  <2> QED
    BY <1>1, <2>1 DEF Inv
<1>2. CASE ~f.exist
  <2>1. PICK n, b : n = Min(File \ files) /\ b = Min(free)
    OBVIOUS
  <2>2. n \in File \ files /\ b \in free /\ free \subseteq Block
    <3>1. File \ files # {} /\ File \ files \subseteq Nat /\ free # {} /\ free \subseteq Nat
      BY <1>2, FileAssumption DEF CanCreate, Inv, Shape
    <3> QED
      BY <2>1, <3>1, MinOfNaturals DEF Inv, Shape
  <2> DEFINE new == NewInode(b)
  <2>3. /\ new \in Inode /\ new.count = 1 /\ new.blk[0] = b /\ new.size = 0
    <3> DEFINE blk == [x \in Pointer |-> IF x = 0 THEN b ELSE Uninit]
    <3>1. blk \in [Pointer -> Block \cup {Uninit}] /\ blk[0] = b
      BY <2>2, FileAssumption DEF Pointer
    <3>2. new = [count |-> 1, size |-> 0, blk |-> blk]
      BY DEF NewInode
    <3> HIDE DEF blk
    <3> QED
      BY <3>1, <3>2, FileAssumption DEF Inode
  <2>4. FileNow = [f EXCEPT !.exist = TRUE, !.ino = n, !.inode = new]
    BY <1>2, <2>1 DEF FileNow
  <2> HIDE DEF new
  <2>5. /\ FileNow \in OpenFile /\ FileNow.exist /\ FileNow.open = f.open
        /\ FileNow.pos = f.pos /\ FileNow.buff = f.buff
        /\ FileNow.ino = n /\ FileNow.inode = new
    BY <2>2, <2>3, <2>4 DEF Inv, Shape, OpenFile
  <2>6. /\ FreeNow = free \ {b} /\ FilesNow = files \cup {n}
        /\ ItableNow = [itable EXCEPT ![n] = new]
    BY <1>2, <2>1, <2>5 DEF FreeNow, FilesNow, ItableNow
  <2>7. /\ ItableNow \in [File -> Inode] /\ ItableNow[n] = new
        /\ \A m \in files : ItableNow[m] = itable[m]
    BY <2>2, <2>3, <2>6 DEF Inv, Shape
  <2>8. Shape(FilesNow, ItableNow, FreeNow, FileNow)
    <3>1. \A m \in FilesNow : ItableNow[m].count > 0 /\ ItableNow[m].size <= ItableNow[m].count * BS
      BY <2>3, <2>6, <2>7, FileAssumption DEF Inv, Shape
    <3>2. ASSUME NEW m \in FilesNow, NEW x \in 0 .. ItableNow[m].count - 1
          PROVE  /\ m = n => x = 0 /\ ItableNow[m].blk[x] = b
                 /\ m # n => m \in files /\ ItableNow[m] = itable[m]
                                /\ ItableNow[m].blk[x] \in Block \ free
      BY <2>3, <2>6, <2>7 DEF Inv, Shape
    <3>3. \A m \in FilesNow : \A x \in 0 .. ItableNow[m].count - 1 :
            ItableNow[m].blk[x] \in Block \ FreeNow
      BY <2>2, <2>6, <3>2
    <3>4. ASSUME NEW m \in FilesNow, NEW l \in FilesNow,
                 NEW x \in 0 .. ItableNow[m].count - 1, NEW y \in 0 .. ItableNow[l].count - 1,
                 ItableNow[m].blk[x] = ItableNow[l].blk[y]
          PROVE  m = l /\ x = y
      <4>1. CASE m = n \/ l = n
        BY <2>2, <3>2, <3>4, <4>1
      <4>2. CASE m # n /\ l # n
        BY <3>2, <3>4, <4>2 DEF Inv, Shape
      <4> QED
        BY <4>1, <4>2
    <3>5. FilesNow \subseteq File /\ FreeNow \subseteq Block /\ FileNow.ino \in FilesNow
      BY <2>2, <2>5, <2>6 DEF Inv, Shape
    <3> QED
      BY <2>5, <2>7, <3>1, <3>3, <3>4, <3>5 DEF Shape
  <2> QED
    BY <1>2, <2>2, <2>3, <2>5, <2>6, <2>7, <2>8
<1> QED
  BY <1>1, <1>2

\* Put a free block behind the last one of a file.
LEMMA Attached ==
  ASSUME NEW fs, NEW it, NEW fr, NEW g, Shape(fs, it, fr, g), g.exist,
         NEW b \in fr, NEW ino \in Inode, NEW h \in OpenFile,
         ino.count = g.inode.count + 1,
         ino.blk = [g.inode.blk EXCEPT ![g.inode.count] = b],
         ino.size <= ino.count * BS,
         h.ino = g.ino, h.inode = ino
  PROVE  Shape(fs, [it EXCEPT ![g.ino] = ino], fr \ {b}, h)
<1> DEFINE i == g.ino
           jt == [it EXCEPT ![i] = ino]
           c == g.inode.count
<1>1. /\ i \in fs /\ i \in File /\ g.inode = it[i] /\ c \in 1 .. NDirBlocks /\ g.inode \in Inode
  <2>1. i \in fs /\ i \in File /\ g.inode = it[i] /\ it[i] \in Inode /\ it[i].count > 0
    BY DEF Shape
  <2> QED
    BY <2>1, FileAssumption DEF Inode
<1>2. /\ jt \in [File -> Inode] /\ jt[i] = ino /\ \A n \in fs \ {i} : jt[n] = it[n]
  BY <1>1 DEF Shape
<1>3. /\ ino.blk[c] = b /\ \A x \in 0 .. c - 1 : ino.blk[x] = it[i].blk[x]
  <2>1. /\ \A m \in 1 .. NDirBlocks : m \in Pointer /\ 0 .. m - 1 \subseteq Pointer
        /\ g.inode.blk \in [Pointer -> Block \cup {Uninit}]
    <3>1. \A m \in 1 .. NDirBlocks : m \in Pointer /\ 0 .. m - 1 \subseteq Pointer
      BY FileAssumption DEF Pointer
    <3> QED
      BY <1>1, <3>1 DEF Inode
  <2> DEFINE blk == g.inode.blk
             new == ino.blk
  <2>2. new = [blk EXCEPT ![c] = b] /\ it[i].blk = blk /\ \A x \in 0 .. c - 1 : x # c
    BY <1>1
  <2>3. c \in Pointer /\ 0 .. c - 1 \subseteq Pointer /\ blk \in [Pointer -> Block \cup {Uninit}]
    BY <1>1, <2>1
  <2> HIDE DEF blk, c, new
  <2>4. new[c] = b /\ \A x \in 0 .. c - 1 : new[x] = blk[x]
    BY <2>2, <2>3
  <2> QED
    BY <2>2, <2>4 DEF new
<1> HIDE DEF jt
<1>4. ASSUME NEW n \in fs, NEW x \in 0 .. jt[n].count - 1
      PROVE  \/ n = i /\ x = c /\ jt[n].blk[x] = b
             \/ /\ x \in 0 .. it[n].count - 1 /\ jt[n].blk[x] = it[n].blk[x]
                /\ jt[n].blk[x] \in Block \ fr
  <2>1. CASE n # i
    BY <1>2, <1>4, <2>1 DEF Shape
  <2>2. CASE n = i /\ x # c
    <3>1. x \in 0 .. c - 1 /\ c = it[i].count
      BY <1>1, <1>2, <1>4, <2>2
    <3>2. it[i].blk[x] \in Block \ fr
      BY <1>1, <3>1 DEF Shape
    <3>3. jt[n].blk[x] = it[n].blk[x]
      BY <1>2, <1>3, <2>2, <3>1
    <3> QED
      BY <2>2, <3>1, <3>2, <3>3
  <2>3. CASE n = i /\ x = c
    BY <1>2, <1>3, <2>3
  <2> QED
    BY <2>1, <2>2, <2>3
<1>5. \A n \in fs : jt[n].count > 0 /\ jt[n].size <= jt[n].count * BS
  <2>1. ino.count > 0
    BY <1>1
  <2> QED
    BY <1>2, <2>1 DEF Shape
<1>6. \A n \in fs : \A x \in 0 .. jt[n].count - 1 : jt[n].blk[x] \in Block \ (fr \ {b})
  BY <1>4 DEF Shape
<1>7. ASSUME NEW m \in fs, NEW n \in fs, NEW x \in 0 .. jt[m].count - 1,
             NEW y \in 0 .. jt[n].count - 1, jt[m].blk[x] = jt[n].blk[y]
      PROVE  m = n /\ x = y
  <2>1. \/ m = i /\ x = c /\ jt[m].blk[x] = b
        \/ x \in 0 .. it[m].count - 1 /\ jt[m].blk[x] = it[m].blk[x] /\ jt[m].blk[x] \notin fr
    BY <1>4
  <2>2. \/ n = i /\ y = c /\ jt[n].blk[y] = b
        \/ y \in 0 .. it[n].count - 1 /\ jt[n].blk[y] = it[n].blk[y] /\ jt[n].blk[y] \notin fr
    BY <1>4
  <2> QED
    BY <1>7, <2>1, <2>2 DEF Shape
<1>8. h.ino \in fs /\ h.inode = jt[h.ino]
  BY <1>1, <1>2
<1> QED
  BY <1>2, <1>5, <1>6, <1>7, <1>8 DEF Shape, jt

\* Give a file another size.
LEMMA Resized ==
  ASSUME NEW fs, NEW it, NEW fr, NEW g, Shape(fs, it, fr, g), g.exist,
         NEW fr2 \in SUBSET fr, NEW ino \in Inode, NEW h \in OpenFile,
         ino.count = g.inode.count, ino.blk = g.inode.blk, ino.size <= ino.count * BS,
         h.ino = g.ino, h.inode = ino
  PROVE  Shape(fs, [it EXCEPT ![g.ino] = ino], fr2, h)
<1> DEFINE i == g.ino
           jt == [it EXCEPT ![i] = ino]
<1>1. i \in fs /\ i \in File /\ g.inode = it[i]
  BY DEF Shape
<1>2. /\ jt \in [File -> Inode] /\ jt[i] = ino /\ \A n \in fs \ {i} : jt[n] = it[n]
  BY <1>1 DEF Shape
<1> HIDE DEF jt
<1>3. \A n \in fs : jt[n].count = it[n].count /\ jt[n].blk = it[n].blk
  BY <1>1, <1>2
<1>4. \A n \in fs : jt[n].count > 0 /\ jt[n].size <= jt[n].count * BS
  BY <1>2, <1>3 DEF Shape
<1>5. h.ino \in fs /\ h.inode = jt[h.ino]
  BY <1>1, <1>2
<1> QED
  BY <1>2, <1>3, <1>4, <1>5 DEF Shape, jt

\* An inode with one more block, whatever its size becomes.
LEMMA GrownInode ==
  ASSUME NEW old \in Inode, NEW b \in Block, old.count < NDirBlocks, NEW s \in 0 .. 2 * BS
  PROVE  LET ino == [Grown(old, b) EXCEPT !.size = s]
         IN  /\ Grown(old, b) \in Inode /\ ino \in Inode /\ ino.size = s
             /\ Grown(old, b).count = old.count + 1 /\ ino.count = old.count + 1
             /\ Grown(old, b).size = old.size
             /\ Grown(old, b).blk = [old.blk EXCEPT ![old.count] = b]
             /\ ino.blk = [old.blk EXCEPT ![old.count] = b]
<1> DEFINE c == old.count + 1
           blk == [old.blk EXCEPT ![old.count] = b]
<1>1. c \in 0 .. NDirBlocks /\ blk \in [Pointer -> Block \cup {Uninit}]
  <2>1. old.count \in 0 .. NDirBlocks /\ old.blk \in [Pointer -> Block \cup {Uninit}]
    BY DEF Inode
  <2>2. c \in 0 .. NDirBlocks
    BY <2>1, FileAssumption
  <2> QED
    BY <2>1, <2>2
<1> HIDE DEF c, blk
<1>2. Grown(old, b) = [count |-> c, size |-> old.size, blk |-> blk]
  BY DEF Grown, c, blk
<1>3. [Grown(old, b) EXCEPT !.size = s] = [count |-> c, size |-> s, blk |-> blk]
  BY <1>2
<1>4. old.size \in 0 .. 2 * BS
  BY DEF Inode
<1>5. \A z \in 0 .. 2 * BS : [count |-> c, size |-> z, blk |-> blk] \in Inode
  BY <1>1 DEF Inode
<1>6. c = old.count + 1 /\ blk = [old.blk EXCEPT ![old.count] = b]
  BY DEF c, blk
<1> QED
  BY <1>2, <1>3, <1>4, <1>5, <1>6

\* An inode whose size only grows.
LEMMA SizedInode ==
  ASSUME NEW old \in Inode, NEW end \in 0 .. 2 * BS
  PROVE  LET ino == Sized(old, end)
         IN  /\ ino \in Inode /\ ino.count = old.count /\ ino.blk = old.blk
             /\ ino.size = old.size \/ ino.size = end
  BY DEF Sized, Inode

\* What else happens to the open file and the free blocks.
LEMMA Kept ==
  ASSUME NEW fs, NEW it, NEW fr, NEW g, Shape(fs, it, fr, g),
         NEW fr2 \in SUBSET fr, NEW h \in OpenFile,
         h.exist => h.ino \in fs /\ h.inode = it[h.ino]
  PROVE  Shape(fs, it, fr2, h)
  BY DEF Shape

\* The values a call starts from and ends with.
LEMMA StartValues ==
  /\ Closed \in OpenFile /\ EmptyInode \in Inode /\ Idle \in Caller
  /\ Zeroes \in [Offset -> Bytes] /\ Nothing \in Seq(Byte) /\ Nothing \in Seq(Bytes)
  /\ 0 \in 0 .. NDirBlocks * BS
<1>1. 0 \in 0 .. NDirBlocks * BS
  BY FileAssumption, Times
<1>2. EmptyInode \in Inode
  BY FileAssumption DEF EmptyInode, Inode
<1>3. Zeroes \in [Offset -> Bytes]
  BY DEF Zeroes, Bytes
<1>4. Nothing \in Seq(Byte) /\ Nothing \in Seq(Bytes)
  BY DEF Nothing
<1> QED
  BY <1>1, <1>2, <1>3, <1>4 DEF Closed, OpenFile, Idle, Caller

\* The bytes a caller writes.
LEMMA DataIs ==
  ASSUME NEW size \in WriteSizes, NEW data \in Data(size)
  PROVE  data \in Seq(Byte) /\ Len(data) = size /\ Len(data) \in Nat \ {0}
         /\ DOMAIN data = 1 .. Len(data) /\ data # Nothing
  BY FileAssumption DEF Data, Nothing

\* What is laid over the buffer and what goes to the next block are blocks.
LEMMA LaidOut ==
  ASSUME NEW buff \in [Offset -> Bytes], NEW o \in Offset, NEW data \in Seq(Byte)
  PROVE  Overlay(buff, o, data) \in [Offset -> Bytes] /\ Rest(o, data) \in [Offset -> Bytes]
<1>1. \A i \in DOMAIN data : data[i] \in Bytes
  BY DEF Bytes
<1>2. 0 \in Bytes
  BY DEF Bytes
<1> QED
  BY <1>1, <1>2 DEF Overlay, Rest

-----------------------------------------------------------------------------
(***************************************************************************)
(* Types and shape                                                         *)
(***************************************************************************)

\* The image that the calls start from.
LEMMA InitInv == Init => Inv
<1> SUFFICES ASSUME Init PROVE Inv
  OBVIOUS
<1> DEFINE blk == CHOOSE g \in [Existing -> Block] : IsInjective(g)
<1>1. blk \in [Existing -> Block] /\ IsInjective(blk)
  BY FileAssumption
<1> HIDE DEF blk
<1>2. /\ disk = [b \in Block |-> [x \in Offset |-> Stale]]
      /\ itable = [n \in File |-> IF n \in Existing
                                  THEN [NewInode(blk[n]) EXCEPT !.size = BS] ELSE EmptyInode]
      /\ files = Existing /\ free = Block \ {blk[n] : n \in Existing}
      /\ f = Closed /\ caller = Idle
  BY DEF Init, blk
<1>3. Typed
  BY <1>2, StartValues DEF Typed, Bytes
<1>4. CallerFits
  BY <1>2 DEF CallerFits, Closed, Idle
<1>5. ASSUME NEW n \in Existing
      PROVE  itable[n] \in Inode /\ itable[n].count = 1 /\ itable[n].size = BS
             /\ itable[n].blk[0] = blk[n] /\ n \in File
  <2>1. n \in File /\ BS \in 0 .. 2 * BS /\ 1 \in 0 .. NDirBlocks /\ 0 \in Pointer
    BY FileAssumption DEF Pointer
  <2> DEFINE p == [x \in Pointer |-> IF x = 0 THEN blk[n] ELSE Uninit]
  <2>2. p \in [Pointer -> Block \cup {Uninit}] /\ p[0] = blk[n]
    BY <1>1, <2>1
  <2>3. itable[n] = [count |-> 1, size |-> BS, blk |-> p]
    BY <1>2, <2>1 DEF NewInode
  <2> HIDE DEF p
  <2> QED
    BY <2>1, <2>2, <2>3 DEF Inode
<1>6. itable \in [File -> Inode]
  <2>1. ASSUME NEW n \in File PROVE itable[n] \in Inode
    <3>1. CASE n \in Existing
      BY <1>5, <3>1
    <3>2. CASE n \notin Existing
      BY <1>2, <3>2, StartValues
    <3> QED
      BY <3>1, <3>2
  <2> QED
    BY <1>2, <2>1
<1>7. Shape(files, itable, free, f)
  <2>0. files = Existing /\ free = Block \ {blk[n] : n \in Existing}
    BY <1>2
  <2>1. \A n \in files : itable[n].count > 0 /\ itable[n].size <= itable[n].count * BS
    BY <1>5, <2>0, FileAssumption
  <2>2. \A n \in files : \A x \in 0 .. itable[n].count - 1 : x = 0 /\ itable[n].blk[x] = blk[n]
    BY <1>5, <2>0
  <2>3. \A n \in files : \A x \in 0 .. itable[n].count - 1 : itable[n].blk[x] \in Block \ free
    BY <1>1, <2>0, <2>2
  <2>4. \A m, n \in files :
          \A x \in 0 .. itable[m].count - 1, y \in 0 .. itable[n].count - 1 :
            itable[m].blk[x] = itable[n].blk[y] => m = n /\ x = y
    BY <1>1, <2>0, <2>2 DEF IsInjective
  <2>5. files \subseteq File /\ free \subseteq Block /\ f \in OpenFile /\ ~f.exist
    BY <1>2, StartValues, FileAssumption DEF Closed
  <2> QED
    BY <1>6, <2>1, <2>3, <2>4, <2>5 DEF Shape
<1> QED
  BY <1>3, <1>4, <1>7 DEF Inv

\* What a call finds in the file it goes on with: offsets and pointers that are in range.
LEMMA Ground ==
  ASSUME Inv, CanCreate
  PROVE  LET g == FileNow
         IN  /\ Shape(FilesNow, ItableNow, FreeNow, g)
             /\ g \in OpenFile /\ g.exist /\ g.open = f.open /\ g.pos = f.pos /\ g.buff = f.buff
             /\ g.inode \in Inode /\ g.buff \in [Offset -> Bytes]
             /\ g.ino \in FilesNow /\ g.inode = ItableNow[g.ino] /\ g.inode.count > 0
             /\ g.pos \in Nat /\ g.pos % BS \in Offset /\ g.pos \div BS \in Nat
             /\ Reach(g.inode.blk[g.pos \div BS]) \subseteq Block
             /\ Reach(g.inode.blk[g.pos \div BS + 1]) \subseteq Block
<1>1. /\ Shape(FilesNow, ItableNow, FreeNow, FileNow) /\ FileNow.exist
      /\ FileNow.open = f.open /\ FileNow.pos = f.pos /\ FileNow.buff = f.buff
  BY Creation
<1>2. PICK g : g = FileNow
  OBVIOUS
<1>3. g \in OpenFile /\ g.exist
  BY <1>1, <1>2 DEF Shape
<1>4. /\ g.ino \in FilesNow /\ g.inode = ItableNow[g.ino] /\ g.inode.count > 0
  BY <1>1, <1>2 DEF Shape
<1>5. /\ g.inode \in Inode /\ g.inode.blk \in [Pointer -> Block \cup {Uninit}]
      /\ g.buff \in [Offset -> Bytes] /\ g.pos \in 0 .. NDirBlocks * BS
  BY <1>3 DEF OpenFile, Inode
<1>6. g.pos \in Nat /\ g.pos \div BS \in Pointer /\ g.pos \div BS + 1 \in Pointer
  BY <1>5, PointerOf
<1>7. g.pos % BS \in Offset /\ g.pos \div BS \in Nat
  BY <1>6, FileAssumption, DivMod DEF Offset
<1>8. \A p \in Pointer : Reach(g.inode.blk[p]) \subseteq Block
  BY <1>5 DEF Reach
<1> QED
  BY <1>1, <1>2, <1>3, <1>4, <1>5, <1>6, <1>7, <1>8

\* The end of a write lies in the two blocks it may touch.
LEMMA EndOfWrite ==
  ASSUME NEW o \in Offset, NEW len \in Nat, len <= BS
  PROVE  o + len \in 0 .. 2 * BS /\ (o + len <= BS \/ o + len > BS)
  BY FileAssumption DEF Offset

\* The four outcomes of ext2_fwrite.
LEMMA FwriteInv ==
  ASSUME Inv, NEW size \in WriteSizes, NEW data \in Data(size), ext2_fwrite(data)
  PROVE  Inv'
<1> DEFINE g == FileNow
           o == g.pos % BS
           p == g.pos \div BS
<1>1. CanWrite(data) /\ CanCreate /\ f.open /\ ~caller.erred
  BY DEF ext2_fwrite, FwriteOversize, FwriteFits, FwriteCrosses, FwriteNoSpace, CanWrite
<1>2. /\ Shape(FilesNow, ItableNow, FreeNow, g)
      /\ g \in OpenFile /\ g.exist /\ g.open = f.open /\ g.pos = f.pos /\ g.buff = f.buff
      /\ g.inode \in Inode /\ g.buff \in [Offset -> Bytes]
      /\ g.ino \in FilesNow /\ g.inode = ItableNow[g.ino] /\ g.inode.count > 0
      /\ g.pos \in Nat /\ o \in Offset /\ p \in Nat
      /\ Reach(g.inode.blk[p]) \subseteq Block
      /\ Reach(g.inode.blk[p + 1]) \subseteq Block
  BY <1>1, Ground
<1>3. data \in Seq(Byte) /\ Len(data) \in Nat /\ data # Nothing
  BY DataIs
<1>4. Overlay(g.buff, o, data) \in [Offset -> Bytes] /\ Rest(o, data) \in [Offset -> Bytes]
  BY <1>2, <1>3, LaidOut
<1>5. Len(data) <= BS => o + Len(data) \in 0 .. 2 * BS
  BY <1>2, <1>3, EndOfWrite
<1>6. disk \in [Block -> [Offset -> Bytes]] /\ caller \in Caller
  BY DEF Inv, Typed
<1>7. ASSUME Error, f'.open, f'.exist
      PROVE  caller' \in Caller /\ CallerFits'
  BY <1>6, <1>7, StartValues DEF Error, Caller, CallerFits
<1>8. ASSUME Wrote(data), f'.open, f'.exist
      PROVE  caller' \in Caller /\ CallerFits'
  BY <1>1, <1>3, <1>6, <1>8, StartValues DEF Wrote, Caller, CallerFits
<1> HIDE DEF g, o, p
<1>9. CASE FwriteOversize(data)
  <2>1. files' = FilesNow /\ itable' = ItableNow /\ free' = FreeNow /\ f' = g /\ disk' = disk
    BY <1>9 DEF FwriteOversize, g
  <2>2. caller' \in Caller /\ CallerFits'
    BY <1>1, <1>2, <1>7, <1>9, <2>1 DEF FwriteOversize
  <2> QED
    BY <1>2, <1>6, <2>1, <2>2 DEF Inv, Typed
<1>10. CASE FwriteFits(data)
  <2> DEFINE inode == Sized(g.inode, o + Len(data))
             buff == Overlay(g.buff, o, data)
  <2>1. /\ Len(data) <= BS /\ ~Crosses(data)
        /\ files' = FilesNow /\ free' = FreeNow
        /\ itable' = [ItableNow EXCEPT ![g.ino] = inode]
        /\ f' = [g EXCEPT !.buff = buff, !.inode = inode]
        /\ Wrote(data)
    BY <1>10 DEF FwriteFits, g, o
  <2>2. PICK b \in Block : disk' = [disk EXCEPT ![b] = buff]
    BY <1>2, <1>10 DEF FwriteFits, g, o, p
  <2>3. inode \in Inode /\ inode.count = g.inode.count /\ inode.blk = g.inode.blk
        /\ (inode.size = g.inode.size \/ inode.size = o + Len(data))
    BY <1>2, <1>5, <2>1, SizedInode
  <2>4. inode.size <= inode.count * BS
    <3>1. o + Len(data) <= BS
      BY <1>2, <1>3, <2>1, FileAssumption DEF Crosses, o, Offset
    <3>2. \A c \in Nat \ {0} : BS <= c * BS
      BY FileAssumption
    <3>3. g.inode.size <= g.inode.count * BS
      BY <1>2 DEF Shape
    <3>4. g.inode.count \in Nat \ {0} /\ o + Len(data) \in Nat
      BY <1>2, <1>3, FileAssumption DEF Inode, Offset
    <3>5. BS <= g.inode.count * BS /\ g.inode.count * BS \in Nat /\ BS \in Nat
      BY <3>2, <3>4, FileAssumption
    <3> QED
      BY <2>3, <3>1, <3>3, <3>4, <3>5
  <2> HIDE DEF inode, buff
  <2>5. f' \in OpenFile /\ f'.ino = g.ino /\ f'.inode = inode /\ f'.open /\ f'.exist
    BY <1>1, <1>2, <1>4, <2>1, <2>3 DEF OpenFile, buff
  <2>6. Shape(files', itable', free', f')
    BY <1>2, <2>1, <2>3, <2>4, <2>5, Resized
  <2>7. disk' \in [Block -> [Offset -> Bytes]]
    BY <1>4, <1>6, <2>2 DEF buff
  <2> QED
    BY <1>8, <2>1, <2>5, <2>6, <2>7 DEF Inv, Typed
<1>11. CASE FwriteCrosses(data)
  <2> DEFINE grown == IF NeedsBlock(g) THEN Grown(g.inode, Min(FreeNow)) ELSE g.inode
             inode == Sized(grown, o + Len(data))
             buff == Overlay(g.buff, o, data)
  <2>1. /\ Len(data) <= BS
        /\ NeedsBlock(g) => FreeNow # {} /\ g.inode.count < NDirBlocks
        /\ files' = FilesNow
        /\ free' = IF NeedsBlock(g) THEN FreeNow \ {Min(FreeNow)} ELSE FreeNow
        /\ itable' = [ItableNow EXCEPT ![g.ino] = inode]
        /\ f' = [g EXCEPT !.buff = buff, !.inode = inode]
        /\ Wrote(data)
    BY <1>11 DEF FwriteCrosses, g, o
  <2>2. NeedsBlock(g) => Min(FreeNow) \in FreeNow /\ Min(FreeNow) \in Block
    <3>1. FreeNow \subseteq Block /\ FreeNow \subseteq Nat
      BY <1>2, FileAssumption DEF Shape
    <3> QED
      BY <2>1, <3>1, MinOfNaturals
  <2>3. PICK b \in Block, c \in Block :
          disk' = [[disk EXCEPT ![b] = buff] EXCEPT ![c] = Rest(o, data)]
    <3> DEFINE second == IF NeedsBlock(g) THEN {Min(FreeNow)} ELSE Reach(g.inode.blk[p + 1])
    <3>1. \E b \in Reach(g.inode.blk[p]), c \in second :
            disk' = [[disk EXCEPT ![b] = buff] EXCEPT ![c] = Rest(o, data)]
      BY <1>11 DEF FwriteCrosses, g, o, p
    <3>2. second \subseteq Block
      BY <1>2, <2>2
    <3> HIDE DEF second
    <3> QED
      BY <1>2, <3>1, <3>2
  <2>0. NeedsBlock(g) =>
          /\ grown \in Inode /\ grown.size = g.inode.size /\ grown.count = g.inode.count + 1
          /\ grown.blk = [g.inode.blk EXCEPT ![g.inode.count] = Min(FreeNow)]
    <3> SUFFICES ASSUME NeedsBlock(g)
                 PROVE  /\ grown \in Inode /\ grown.size = g.inode.size
                        /\ grown.count = g.inode.count + 1
                        /\ grown.blk = [g.inode.blk EXCEPT ![g.inode.count] = Min(FreeNow)]
      OBVIOUS
    <3>1. PICK old \in Inode, m \in Block : old = g.inode /\ m = Min(FreeNow)
      BY <1>2, <2>2
    <3>2. old.count < NDirBlocks /\ 0 \in 0 .. 2 * BS /\ grown = Grown(old, m)
      BY <2>1, <3>1, FileAssumption
    <3>3. /\ Grown(old, m) \in Inode /\ Grown(old, m).size = old.size
          /\ Grown(old, m).count = old.count + 1
          /\ Grown(old, m).blk = [old.blk EXCEPT ![old.count] = m]
      BY <3>2, GrownInode
    <3> QED
      BY <3>1, <3>2, <3>3
  <2>4. /\ grown \in Inode /\ grown.size = g.inode.size /\ grown.count >= 2
        /\ grown.count >= g.inode.count
    <3>1. g.inode.count \in Nat
      BY <1>2, FileAssumption DEF Inode
    <3>2. CASE NeedsBlock(g)
      BY <1>2, <2>0, <3>1, <3>2
    <3>3. CASE ~NeedsBlock(g)
      <4>1. g.inode.count >= p + 2
        BY <1>2, <3>1, <3>3 DEF NeedsBlock, p
      <4> QED
        BY <1>2, <3>1, <3>3, <4>1
    <3> QED
      BY <3>2, <3>3
  <2>5. /\ NeedsBlock(g) => /\ grown.count = g.inode.count + 1
                            /\ grown.blk = [g.inode.blk EXCEPT ![g.inode.count] = Min(FreeNow)]
        /\ ~NeedsBlock(g) => grown = g.inode
    BY <2>0
  <2> HIDE DEF grown
  <2>6. inode \in Inode /\ inode.count = grown.count /\ inode.blk = grown.blk
        /\ (inode.size = grown.size \/ inode.size = o + Len(data))
    BY <1>5, <2>1, <2>4, SizedInode
  <2> HIDE DEF inode, buff
  <2>7. inode.size <= inode.count * BS
    <3>1. inode.count \in Nat /\ g.inode.count \in Nat /\ inode.size \in Nat
          /\ BS \in Nat \ {0} /\ inode.count >= 2
      BY <1>2, <2>4, <2>6, FileAssumption DEF Inode
    <3>2. inode.size <= 2 * BS \/ inode.size <= g.inode.count * BS
      <4>1. g.inode.size <= g.inode.count * BS
        BY <1>2 DEF Shape
      <4>2. o + Len(data) <= 2 * BS
        BY <1>5, <2>1
      <4> QED
        BY <2>4, <2>6, <4>1, <4>2
    <3>3. 2 * BS <= inode.count * BS /\ g.inode.count * BS <= inode.count * BS
      BY <2>4, <2>6, <3>1, TimesMonotone
    <3> DEFINE x == inode.count * BS
               y == g.inode.count * BS
    <3>4. x \in Nat /\ y \in Nat
      BY <3>1
    <3> HIDE DEF x, y
    <3>5. inode.size <= x
      BY <3>1, <3>2, <3>3, <3>4 DEF x, y
    <3> QED
      BY <3>5 DEF x
  <2>8. f' \in OpenFile /\ f'.ino = g.ino /\ f'.inode = inode /\ f'.open /\ f'.exist
    BY <1>1, <1>2, <1>4, <2>1, <2>6 DEF OpenFile, buff
  <2>9. Shape(files', itable', free', f')
    <3>1. CASE NeedsBlock(g)
      <4>1. PICK m : m = Min(FreeNow)
        OBVIOUS
      <4>2. /\ m \in FreeNow /\ free' = FreeNow \ {m}
            /\ inode.count = g.inode.count + 1
            /\ inode.blk = [g.inode.blk EXCEPT ![g.inode.count] = m]
        BY <2>1, <2>2, <2>5, <2>6, <3>1, <4>1
      <4>3. Shape(FilesNow, [ItableNow EXCEPT ![g.ino] = inode], FreeNow \ {m}, f')
        BY <1>2, <2>6, <2>7, <2>8, <4>2, Attached
      <4> QED
        BY <2>1, <4>2, <4>3
    <3>2. CASE ~NeedsBlock(g)
      BY <1>2, <2>1, <2>5, <2>6, <2>7, <2>8, <3>2, Resized
    <3> QED
      BY <3>1, <3>2
  <2>10. disk' \in [Block -> [Offset -> Bytes]]
    BY <1>4, <1>6, <2>3 DEF buff
  <2> QED
    BY <1>8, <2>1, <2>8, <2>9, <2>10 DEF Inv, Typed
<1>12. CASE FwriteNoSpace(data)
  <2> DEFINE buff == Overlay(g.buff, o, data)
  <2>1. /\ files' = FilesNow /\ itable' = ItableNow /\ free' \in SUBSET FreeNow
        /\ f' = [g EXCEPT !.buff = buff]
        /\ Error
    BY <1>12 DEF FwriteNoSpace, g, o
  <2>2. PICK b \in Block : disk' = [disk EXCEPT ![b] = buff]
    BY <1>2, <1>12 DEF FwriteNoSpace, g, o, p
  <2> HIDE DEF buff
  <2>3. f' \in OpenFile /\ f'.ino = g.ino /\ f'.inode = g.inode /\ f'.open /\ f'.exist
    BY <1>1, <1>2, <1>4, <2>1 DEF OpenFile, buff
  <2>4. Shape(files', itable', free', f')
    BY <1>2, <2>1, <2>3, Kept
  <2>5. disk' \in [Block -> [Offset -> Bytes]]
    BY <1>4, <1>6, <2>2 DEF buff
  <2> QED
    BY <1>7, <2>1, <2>3, <2>4, <2>5 DEF Inv, Typed
<1> QED
  BY <1>9, <1>10, <1>11, <1>12 DEF ext2_fwrite


\* The three outcomes of ext2_fseek.
LEMMA FseekInv ==
  ASSUME Inv, NEW to \in Positions, ext2_fseek(to)
  PROVE  Inv'
<1> DEFINE g == FileNow
<1>1. CanSeek(to) /\ CanCreate /\ f.open /\ ~caller.erred
  BY DEF ext2_fseek, FseekLoad, FseekGrow, FseekNoSpace, CanSeek
<1>2. /\ Shape(FilesNow, ItableNow, FreeNow, g)
      /\ g \in OpenFile /\ g.exist /\ g.open = f.open
      /\ g.inode \in Inode /\ g.buff \in [Offset -> Bytes]
      /\ g.ino \in FilesNow /\ g.inode = ItableNow[g.ino] /\ g.inode.count > 0
  BY <1>1, Ground
<1>3. /\ to \in 0 .. NDirBlocks * BS /\ to \div BS \in Pointer
      /\ to % BS \in Offset /\ to \in Nat /\ to \div BS \in Nat
  <2>1. to \in 0 .. NDirBlocks * BS
    BY FileAssumption
  <2>2. to \in Nat /\ to \div BS \in Pointer
    BY <2>1, PointerOf
  <2> QED
    BY <2>1, <2>2, FileAssumption, DivMod DEF Offset
<1>4. disk \in [Block -> [Offset -> Bytes]] /\ caller \in Caller
  BY DEF Inv, Typed
<1>5. ASSUME Error, f'.open, f'.exist
      PROVE  caller' \in Caller /\ CallerFits'
  BY <1>4, <1>5, StartValues DEF Error, Caller, CallerFits
<1>6. ASSUME Moved, f'.open, f'.exist
      PROVE  caller' \in Caller /\ CallerFits'
  BY <1>1, <1>4, <1>6, StartValues DEF Moved, Caller, CallerFits
<1> HIDE DEF g
<1>7. CASE FseekLoad(to)
  <2>1. /\ files' = FilesNow /\ itable' = ItableNow /\ free' = FreeNow /\ disk' = disk
        /\ Moved
    BY <1>7 DEF FseekLoad
  <2>2. Reach(g.inode.blk[to \div BS]) \subseteq Block
    <3>1. g.inode.blk \in [Pointer -> Block \cup {Uninit}]
      BY <1>2 DEF Inode
    <3> QED
      BY <1>3, <3>1 DEF Reach
  <2>3. PICK b \in Block : f' = [g EXCEPT !.pos = to, !.buff = disk[b]]
    BY <1>7, <2>2 DEF FseekLoad, g
  <2>4. f' \in OpenFile /\ f'.ino = g.ino /\ f'.inode = g.inode /\ f'.open /\ f'.exist
    BY <1>1, <1>2, <1>3, <1>4, <2>3 DEF OpenFile
  <2>5. Shape(files', itable', free', f')
    BY <1>2, <2>1, <2>4, Kept
  <2> QED
    BY <1>4, <1>6, <2>1, <2>4, <2>5 DEF Inv, Typed
<1>8. CASE FseekGrow(to)
  <2>1. PICK b : b = Min(FreeNow)
    OBVIOUS
  <2> DEFINE inode == [Grown(g.inode, b) EXCEPT !.size = to % BS]
             buff == [x \in Offset |-> IF x < to % BS THEN 0 ELSE disk[b][x]]
  <2>2. /\ FreeNow # {} /\ g.inode.count < NDirBlocks
        /\ files' = FilesNow /\ free' = FreeNow \ {b} /\ disk' = disk
        /\ itable' = [ItableNow EXCEPT ![g.ino] = inode]
        /\ f' = [g EXCEPT !.pos = to, !.inode = inode, !.buff = buff]
        /\ Moved
    BY <1>8, <2>1 DEF FseekGrow, g
  <2>3. b \in FreeNow /\ b \in Block
    <3>1. FreeNow \subseteq Block /\ FreeNow \subseteq Nat
      BY <1>2, FileAssumption DEF Shape
    <3> QED
      BY <2>1, <2>2, <3>1, MinOfNaturals
  <2>4. /\ inode \in Inode /\ inode.size = to % BS /\ inode.count = g.inode.count + 1
        /\ inode.blk = [g.inode.blk EXCEPT ![g.inode.count] = b]
    <3>1. to % BS \in 0 .. 2 * BS
      BY <1>3, FileAssumption DEF Offset
    <3> QED
      BY <1>2, <2>2, <2>3, <3>1, GrownInode
  <2>5. buff \in [Offset -> Bytes]
    BY <1>4, <2>3 DEF Bytes
  <2> HIDE DEF inode, buff
  <2>6. inode.size <= inode.count * BS
    <3>1. inode.count \in Nat /\ 1 <= inode.count /\ BS \in Nat
      BY <1>2, <2>4, FileAssumption DEF Inode
    <3>2. 1 * BS <= inode.count * BS /\ inode.count * BS \in Nat
      BY <3>1, TimesMonotone
    <3>3. inode.size \in 0 .. BS - 1
      BY <1>3, <2>4 DEF Offset
    <3> QED
      BY <3>1, <3>2, <3>3
  <2>7. f' \in OpenFile /\ f'.ino = g.ino /\ f'.inode = inode /\ f'.open /\ f'.exist
    BY <1>1, <1>2, <1>3, <2>2, <2>4, <2>5 DEF OpenFile
  <2>8. Shape(files', itable', free', f')
    BY <1>2, <2>2, <2>3, <2>4, <2>6, <2>7, Attached
  <2> QED
    BY <1>4, <1>6, <2>2, <2>7, <2>8 DEF Inv, Typed
<1>9. CASE FseekNoSpace(to)
  <2>1. /\ files' = FilesNow /\ itable' = ItableNow /\ free' \in SUBSET FreeNow /\ disk' = disk
        /\ f' = [g EXCEPT !.pos = to]
        /\ Error
    BY <1>9 DEF FseekNoSpace, g
  <2>2. f' \in OpenFile /\ f'.ino = g.ino /\ f'.inode = g.inode /\ f'.open /\ f'.exist
    BY <1>1, <1>2, <1>3, <2>1 DEF OpenFile
  <2>3. Shape(files', itable', free', f')
    BY <1>2, <2>1, <2>2, Kept
  <2> QED
    BY <1>4, <1>5, <2>1, <2>2, <2>3 DEF Inv, Typed
<1> QED
  BY <1>7, <1>8, <1>9 DEF ext2_fseek

\* Opening takes the inode from the table.
LEMMA FopenInv ==
  ASSUME Inv, ext2_fopen
  PROVE  Inv'
<1>1. /\ caller' = Idle /\ disk' = disk /\ itable' = itable /\ files' = files /\ free' = free
  BY DEF ext2_fopen
<1>2. /\ f' \in OpenFile /\ f'.pos = 0
      /\ f'.open /\ (f'.exist => f'.ino \in files /\ f'.inode = itable[f'.ino])
  <2>1. CASE f' = [Closed EXCEPT !.open = TRUE]
    BY <2>1, StartValues DEF Closed, OpenFile
  <2>2. ASSUME NEW n \in files,
               f' = [Closed EXCEPT !.open = TRUE, !.exist = TRUE, !.ino = n, !.inode = itable[n]]
        PROVE  /\ f' \in OpenFile /\ f'.pos = 0
               /\ f'.open /\ f'.ino \in files /\ f'.inode = itable[f'.ino]
    <3>1. n \in File /\ itable[n] \in Inode
      BY DEF Inv, Shape
    <3> QED
      BY <2>2, <3>1, StartValues DEF Closed, OpenFile
  <2> QED
    BY <2>1, <2>2 DEF ext2_fopen
<1>3. Shape(files', itable', free', f')
  BY <1>1, <1>2, Kept DEF Inv
<1>4. CallerFits'
  BY <1>1, <1>2 DEF CallerFits, Idle
<1> QED
  BY <1>1, <1>3, <1>4, StartValues DEF Inv, Typed

\* Closing creates the file that is not there yet, or leaves the image alone.
LEMMA FcloseInv ==
  ASSUME Inv, ext2_fclose
  PROVE  Inv'
<1>1. caller' = Idle /\ disk' = disk /\ f' = Closed
  BY DEF ext2_fclose
<1>2. f' \in OpenFile /\ ~f'.exist /\ ~f'.open /\ f'.pos = 0
  BY <1>1, StartValues DEF Closed
<1>3. Shape(files', itable', free', f')
  <2>1. CASE CanCreate /\ itable' = ItableNow /\ files' = FilesNow /\ free' = FreeNow
    <3>1. Shape(FilesNow, ItableNow, FreeNow, FileNow)
      BY <2>1, Creation
    <3> QED
      BY <1>2, <2>1, <3>1, Kept
  <2>2. CASE UNCHANGED <<itable, files, free>>
    BY <1>2, <2>2, Kept DEF Inv
  <2> QED
    BY <2>1, <2>2 DEF ext2_fclose
<1>4. CallerFits'
  BY <1>1, <1>2 DEF CallerFits, Idle
<1> QED
  BY <1>1, <1>3, <1>4, StartValues DEF Inv, Typed

\* The bytes a read may return: of the buffer, then of some block.
LEMMA FreadInv ==
  ASSUME Inv, NEW size \in ReadSizes, ext2_fread(size)
  PROVE  Inv'
<1>1. UNCHANGED <<disk, itable, files, free, f>> /\ f.open /\ ~caller.erred
  BY DEF ext2_fread
<1> DEFINE o == f.pos % BS
           p == f.pos \div BS
<1>2. PICK b \in Reach(f.inode.blk[p + 1]) :
        caller' = [caller EXCEPT !.got = [i \in 1 .. size |->
                     IF o + i <= BS THEN f.buff[o + i - 1] ELSE disk[b][o + i - 1 - BS]]]
  BY DEF ext2_fread
<1>3. /\ f.pos \in 0 .. NDirBlocks * BS /\ f.buff \in [Offset -> Bytes]
      /\ f.inode.blk \in [Pointer -> Block \cup {Uninit}]
      /\ disk \in [Block -> [Offset -> Bytes]] /\ caller \in Caller
  BY DEF Inv, Shape, Typed, OpenFile, Inode
<1>4. o \in Offset /\ b \in Block
  <2>1. f.pos \in Nat /\ p + 1 \in Pointer
    BY <1>3, PointerOf
  <2>2. o \in Offset
    BY <2>1, FileAssumption, DivMod DEF Offset
  <2> QED
    BY <1>2, <1>3, <2>1, <2>2 DEF Reach
<1> HIDE DEF o
<1> DEFINE got == [i \in 1 .. size |-> IF o + i <= BS THEN f.buff[o + i - 1]
                                                       ELSE disk[b][o + i - 1 - BS]]
<1>5. got \in Seq(Bytes)
  <2>1. size \in Nat /\ size <= BS /\ BS \in Nat
    BY FileAssumption
  <2>2. ASSUME NEW i \in 1 .. size PROVE got[i] \in Bytes
    <3>1. CASE o + i <= BS
      <4>1. o + i - 1 \in Offset
        BY <1>4, <2>1, <3>1 DEF Offset
      <4> QED
        BY <1>3, <3>1, <4>1
    <3>2. CASE ~(o + i <= BS)
      <4>1. o + i - 1 - BS \in Offset
        BY <1>4, <2>1, <3>2 DEF Offset
      <4> QED
        BY <1>3, <1>4, <3>2, <4>1
    <3> QED
      BY <3>1, <3>2
  <2> QED
    BY <2>1, <2>2
<1> HIDE DEF got
<1>6. caller' = [caller EXCEPT !.got = got]
  BY <1>2 DEF got
<1>7. caller' \in Caller /\ CallerFits'
  BY <1>1, <1>3, <1>5, <1>6 DEF Caller, CallerFits, Inv
<1> QED
  BY <1>1, <1>7 DEF Inv, Typed, Shape

\* A call that cannot create the file changes only what the caller knows.
LEMMA CreateFailsInv ==
  ASSUME Inv, CreateFails
  PROVE  Inv'
<1>1. UNCHANGED <<disk, itable, files, free, f>> /\ Error /\ f.open
  BY DEF CreateFails
<1>2. caller' \in Caller
  BY <1>1, StartValues DEF Error, Caller, Inv, Typed
<1>3. CallerFits'
  BY <1>1 DEF Error, CallerFits, Inv, Typed, Caller
<1> QED
  BY <1>1, <1>2, <1>3 DEF Inv, Typed, Shape

\* No call leaves the invariant.
LEMMA NextInv == Inv /\ [Next]_vars => Inv'
<1> SUFFICES ASSUME Inv, [Next]_vars PROVE Inv'
  OBVIOUS
<1>1. CASE ext2_fopen
  BY <1>1, FopenInv
<1>2. CASE ext2_fclose
  BY <1>2, FcloseInv
<1>3. CASE CreateFails
  BY <1>3, CreateFailsInv
<1>4. ASSUME NEW size \in ReadSizes, ext2_fread(size) PROVE Inv'
  BY <1>4, FreadInv
<1>5. ASSUME NEW size \in WriteSizes, NEW data \in Data(size), ext2_fwrite(data) PROVE Inv'
  BY <1>5, FwriteInv
<1>6. ASSUME NEW to \in Positions, ext2_fseek(to) PROVE Inv'
  BY <1>6, FseekInv
<1>7. CASE UNCHANGED vars
  BY <1>7 DEF vars, Inv, Typed, Shape, CallerFits
<1> QED
  BY <1>1, <1>2, <1>3, <1>4, <1>5, <1>6, <1>7 DEF Next

\* The inductive invariant of every caller.
LEMMA InvHolds == Spec => []Inv
  BY InitInv, NextInv, PTL DEF Spec

\* No sequence of calls, the failing ones included, stores a pointer outside i_block,
\* counts a block the inode has no pointer for, or moves the cursor or a byte out of range.
THEOREM TypeCorrect == Spec => []TypeOK
<1>1. Inv => TypeOK
  BY DEF Inv, Typed, Shape, TypeOK, OpenFile
<1> QED
  BY <1>1, InvHolds, PTL

\* However a file is created, written, sought and left half-way by a full disk, its size
\* fits its blocks and the allocator cannot hand out one of them again.
THEOREM SizeFitsBlocksHolds == Spec => []SizeFitsBlocks
<1>1. Inv => SizeFitsBlocks
  BY DEF Inv, Shape, SizeFitsBlocks, Length
<1> QED
  BY <1>1, InvHolds, PTL


-----------------------------------------------------------------------------
(***************************************************************************)
(* A caller that seeks no further than the block behind the last one       *)
(***************************************************************************)

\* fseek grows a file by one block, wherever the position lies: one past the last block
\* is what a caller may ask for.
NextBlockOnly == SeekAhead = 1

\* The position that starts a call lies in a block of the file it goes on with.
LEMMA InTheFile ==
  ASSUME Inv, CanCreate, ~caller.erred, PositionInFile
  PROVE  FileNow.pos \div BS < FileNow.inode.count
<1>1. PICK g : g = FileNow
  OBVIOUS
<1>2. g.exist /\ g.pos = f.pos /\ g.inode \in Inode /\ g.pos \in Nat /\ BS \in Nat \ {0}
  BY <1>1, Ground, FileAssumption
<1>3. g.inode.count \in Nat
  BY <1>2, FileAssumption DEF Inode
<1>4. g.pos < BS * g.inode.count
  <2>1. CASE f.exist
    <3>1. g = f
      BY <1>1, <2>1 DEF FileNow
    <3>2. f.pos < f.inode.count * BS
      BY <2>1 DEF PositionInFile
    <3>3. f.inode.count * BS = BS * f.inode.count
      BY <1>2, <1>3, <3>1
    <3> QED
      BY <3>1, <3>2, <3>3
  <2>2. CASE ~f.exist
    <3>1. g.inode.count = 1 /\ f.pos = 0
      BY <1>1, <2>2, Creation DEF Inv, CallerFits
    <3> QED
      BY <1>2, <3>1
  <2> QED
    BY <2>1, <2>2
<1>5. g.pos \div BS < g.inode.count
  BY <1>2, <1>3, <1>4, QuotientBelow
<1> QED
  BY <1>1, <1>5

\* The blocks a file counts are blocks, and an access reaches that block and no other.
LEMMA OwnBlock ==
  ASSUME NEW fs, NEW it, NEW fr, NEW g, Shape(fs, it, fr, g), g.exist
  PROVE  \A q \in 0 .. g.inode.count - 1 :
           g.inode.blk[q] \in Block /\ Reach(g.inode.blk[q]) = {g.inode.blk[q]}
<1>1. g.ino \in fs /\ g.inode = it[g.ino]
  BY DEF Shape
<1>2. Uninit \notin Block
  BY FileAssumption DEF Uninit
<1>3. \A q \in 0 .. g.inode.count - 1 : g.inode.blk[q] \in Block
  BY <1>1 DEF Shape
<1> QED
  BY <1>2, <1>3 DEF Reach

LEMMA OpenBlock ==
  ASSUME Inv, f.exist
  PROVE  \A q \in 0 .. f.inode.count - 1 : Reach(f.inode.blk[q]) = {f.inode.blk[q]}
<1>1. Shape(files, itable, free, f)
  BY DEF Inv
<1> QED
  BY <1>1, OwnBlock

\* No block is two blocks of a file, or a block of two files.
LEMMA OwnBlocks ==
  ASSUME NEW fs, NEW it, NEW fr, NEW g, Shape(fs, it, fr, g), g.exist
  PROVE  /\ \A q, r \in 0 .. g.inode.count - 1 : g.inode.blk[q] = g.inode.blk[r] => q = r
         /\ \A n \in fs \ {g.ino} : \A x \in 0 .. it[n].count - 1, q \in 0 .. g.inode.count - 1 :
              it[n].blk[x] # g.inode.blk[q]
<1>1. g.ino \in fs /\ g.inode = it[g.ino]
  BY DEF Shape
<1>2. \A q, r \in 0 .. g.inode.count - 1 : g.inode.blk[q] = g.inode.blk[r] => q = r
  BY <1>1 DEF Shape
<1>3. \A n \in fs \ {g.ino} : \A x \in 0 .. it[n].count - 1, q \in 0 .. g.inode.count - 1 :
        it[n].blk[x] # g.inode.blk[q]
  BY <1>1 DEF Shape
<1> QED
  BY <1>2, <1>3

\* What a write that succeeds leaves: the buffer in the block of the position, the rest of
\* the bytes in the next block of the file, and nothing anywhere else.
LEMMA WriteEffect ==
  ASSUME Inv, PositionInFile, NEW size \in WriteSizes, NEW data \in Data(size),
         FwriteFits(data) \/ FwriteCrosses(data)
  PROVE  LET o == f.pos % BS
             p == f.pos \div BS
             b == f'.inode.blk[p]
             c == f'.inode.blk[p + 1]
         IN  /\ Len(data) <= BS /\ Wrote(data)
             /\ f'.open /\ f'.exist /\ f'.pos = f.pos /\ f'.buff = Overlay(f.buff, o, data)
             /\ p < f'.inode.count /\ (Crosses(data) => p + 1 < f'.inode.count)
             /\ Crosses(data) =>
                  disk' = [[disk EXCEPT ![b] = f'.buff] EXCEPT ![c] = Rest(o, data)]
             /\ ~Crosses(data) => disk' = [disk EXCEPT ![b] = f'.buff]
<1>1. CanCreate /\ f.open /\ ~caller.erred
  BY DEF FwriteFits, FwriteCrosses, CanWrite
<1>2. PICK g : g = FileNow
  OBVIOUS
<1> DEFINE o == g.pos % BS
           p == g.pos \div BS
           k == g.inode.count
           buff == Overlay(g.buff, o, data)
<1>3. /\ Shape(FilesNow, ItableNow, FreeNow, g) /\ g \in OpenFile
      /\ g.exist /\ g.open = f.open /\ g.pos = f.pos /\ g.buff = f.buff
      /\ g.inode \in Inode /\ g.inode = ItableNow[g.ino] /\ k > 0
      /\ o \in Offset /\ p \in Nat /\ p < k
  BY <1>1, <1>2, Ground, InTheFile
<1>4. k \in 0 .. NDirBlocks /\ p \in 0 .. k - 1
  BY <1>3, FileAssumption DEF Inode
<1>5. \A q \in 0 .. k - 1 : Reach(g.inode.blk[q]) = {g.inode.blk[q]}
  <2>1. PICK fs, it, fr : Shape(fs, it, fr, g)
    BY <1>3
  <2>2. g.exist
    BY <1>3
  <2>3. \A q \in 0 .. g.inode.count - 1 :
          g.inode.blk[q] \in Block /\ Reach(g.inode.blk[q]) = {g.inode.blk[q]}
    BY <2>1, <2>2, OwnBlock
  <2> QED
    BY <2>3, Zenon
<1>6. data \in Seq(Byte) /\ Len(data) \in Nat
  BY DataIs
<1> HIDE DEF buff
<1>7. CASE FwriteFits(data)
  <2> DEFINE inode == Sized(g.inode, o + Len(data))
  <2>1. /\ Len(data) <= BS /\ ~Crosses(data) /\ Wrote(data)
        /\ f' = [g EXCEPT !.buff = buff, !.inode = inode]
        /\ disk' = [disk EXCEPT ![g.inode.blk[p]] = buff]
    <3>1. /\ Len(data) <= BS /\ ~Crosses(data) /\ Wrote(data)
          /\ f' = [g EXCEPT !.buff = buff, !.inode = inode]
          /\ \E b \in Reach(g.inode.blk[p]) : disk' = [disk EXCEPT ![b] = buff]
      BY <1>2, <1>7 DEF FwriteFits, buff
    <3>2. Reach(g.inode.blk[p]) = {g.inode.blk[p]}
      BY <1>4, <1>5
    <3> QED
      BY <3>1, <3>2
  <2>2. inode.blk = g.inode.blk /\ inode.count = k
    <3>1. o + Len(data) \in 0 .. 2 * BS
      BY <1>3, <1>6, <2>1, EndOfWrite
    <3> QED
      BY <1>3, <3>1, SizedInode
  <2> HIDE DEF inode
  <2>3. /\ f'.open /\ f'.exist /\ f'.pos = g.pos /\ f'.buff = buff /\ f'.inode = inode
    BY <1>1, <1>3, <2>1 DEF OpenFile
  <2> QED
    BY <1>3, <2>1, <2>2, <2>3 DEF buff
<1>8. CASE FwriteCrosses(data)
  <2>1. PICK m : m = Min(FreeNow)
    OBVIOUS
  <2> DEFINE grown == IF NeedsBlock(g) THEN Grown(g.inode, m) ELSE g.inode
             inode == Sized(grown, o + Len(data))
             second == IF NeedsBlock(g) THEN {m} ELSE Reach(g.inode.blk[p + 1])
  <2>2. /\ Len(data) <= BS /\ Crosses(data) /\ Wrote(data)
        /\ NeedsBlock(g) => FreeNow # {} /\ k < NDirBlocks
        /\ f' = [g EXCEPT !.buff = buff, !.inode = inode]
    BY <1>2, <1>8, <2>1 DEF FwriteCrosses, buff
  <2>3. PICK c \in second : disk' = [[disk EXCEPT ![g.inode.blk[p]] = buff] EXCEPT ![c] = Rest(o, data)]
    <3>1. Reach(g.inode.blk[p]) = {g.inode.blk[p]}
      BY <1>4, <1>5
    <3>2. \E a \in Reach(g.inode.blk[p]), c \in second :
            disk' = [[disk EXCEPT ![a] = buff] EXCEPT ![c] = Rest(o, data)]
      BY <1>2, <1>8, <2>1 DEF FwriteCrosses, buff
    <3> QED
      BY <3>1, <3>2
  <2>4. /\ grown \in Inode /\ grown.blk[p] = g.inode.blk[p] /\ grown.blk[p + 1] = c
        /\ p + 1 < grown.count
    <3>1. CASE NeedsBlock(g)
      <4>1. k = p + 1
        BY <1>3, <1>4, <3>1 DEF NeedsBlock
      <4>2. m \in Block
        <5>1. FreeNow \subseteq Block /\ FreeNow \subseteq Nat
          BY <1>3, FileAssumption DEF Shape
        <5> QED
          BY <2>1, <2>2, <3>1, <5>1, MinOfNaturals
      <4>3. g.inode.size \in 0 .. 2 * BS /\ g.inode.blk \in [Pointer -> Block \cup {Uninit}]
        BY <1>3 DEF Inode
      <4>4. /\ grown \in Inode /\ grown.count = k + 1
            /\ grown.blk = [g.inode.blk EXCEPT ![k] = m]
        BY <1>3, <2>2, <3>1, <4>2, <4>3, GrownInode
      <4>5. p \in Pointer /\ k \in Pointer /\ p # k
        BY <1>4, FileAssumption DEF Pointer
      <4>6. c = m
        BY <2>3, <3>1
      <4> HIDE DEF grown
      <4> QED
        BY <1>4, <4>1, <4>3, <4>4, <4>5, <4>6
    <3>2. CASE ~NeedsBlock(g)
      <4>1. p + 1 \in 0 .. k - 1
        BY <1>3, <1>4, <3>2 DEF NeedsBlock
      <4>2. Reach(g.inode.blk[p + 1]) = {g.inode.blk[p + 1]}
        BY <1>5, <4>1
      <4> QED
        BY <1>3, <1>4, <2>3, <3>2, <4>1, <4>2
    <3> QED
      BY <3>1, <3>2
  <2> HIDE DEF grown, second
  <2>5. inode.blk = grown.blk /\ inode.count = grown.count
    <3>1. o + Len(data) \in 0 .. 2 * BS
      BY <1>3, <1>6, <2>2, EndOfWrite
    <3> QED
      BY <2>4, <3>1, SizedInode
  <2> HIDE DEF inode
  <2>6. /\ f'.open /\ f'.exist /\ f'.pos = g.pos /\ f'.buff = buff /\ f'.inode = inode
    BY <1>1, <1>3, <2>2 DEF OpenFile
  <2>7. p < grown.count
    <3>1. grown.count \in Nat
      BY <2>4, FileAssumption DEF Inode
    <3> QED
      BY <1>3, <2>4, <3>1
  <2>8. f'.inode.blk[p] = g.inode.blk[p] /\ f'.inode.blk[p + 1] = c /\ f'.inode.count = grown.count
    BY <2>4, <2>5, <2>6
  <2>9. disk' = [[disk EXCEPT ![f'.inode.blk[p]] = f'.buff] EXCEPT ![f'.inode.blk[p + 1]] = Rest(o, data)]
    BY <2>3, <2>6, <2>8
  <2>10. f'.buff = Overlay(f.buff, o, data) /\ o = f.pos % BS /\ p = f.pos \div BS
    BY <1>3, <2>6 DEF buff
  <2> HIDE DEF o, p
  <2>11. p < f'.inode.count /\ p + 1 < f'.inode.count /\ f'.pos = f.pos
    BY <1>3, <2>4, <2>6, <2>7, <2>8
  <2> QED
    BY <2>2, <2>6, <2>9, <2>10, <2>11
<1> QED
  BY <1>7, <1>8


\* Byte x of a block that was just written.
LEMMA WrittenBlock ==
  ASSUME disk \in [Block -> [Offset -> Bytes]], NEW b \in Block, NEW c \in Block,
         NEW u, NEW v
  PROVE  /\ disk' = [disk EXCEPT ![b] = u] =>
              disk'[b] = u /\ \A d \in Block \ {b} : disk'[d] = disk[d]
         /\ disk' = [[disk EXCEPT ![b] = u] EXCEPT ![c] = v] =>
              /\ disk'[c] = v /\ (b # c => disk'[b] = u)
              /\ \A d \in Block \ {b, c} : disk'[d] = disk[d]
  OBVIOUS

\* After a write that succeeds the buffer is the block, and the bytes written are on disk
\* where the inode says the position is.
LEMMA WriteKeeps ==
  ASSUME Inv, Inv', PositionInFile, NEW size \in WriteSizes, NEW data \in Data(size),
         FwriteFits(data) \/ FwriteCrosses(data)
  PROVE  Contained'
<1> DEFINE o == f.pos % BS
           p == f.pos \div BS
           k == f'.inode.count
           b == f'.inode.blk[p]
           c == f'.inode.blk[p + 1]
<1>1. /\ Len(data) <= BS /\ Wrote(data)
      /\ f'.open /\ f'.exist /\ f'.pos = f.pos /\ f'.buff = Overlay(f.buff, o, data)
      /\ p < k /\ (Crosses(data) => p + 1 < k)
      /\ Crosses(data) => disk' = [[disk EXCEPT ![b] = f'.buff] EXCEPT ![c] = Rest(o, data)]
      /\ ~Crosses(data) => disk' = [disk EXCEPT ![b] = f'.buff]
  BY WriteEffect
<1>2. /\ f'.ino \in files' /\ f'.inode = itable'[f'.ino] /\ f'.inode \in Inode
      /\ Shape(files', itable', free', f') /\ f'.pos \in 0 .. NDirBlocks * BS
  BY <1>1 DEF Inv, Shape, OpenFile
<1>3. f.pos \in Nat /\ p \in Nat /\ o \in Offset /\ BS \in Nat \ {0} /\ k \in Nat
  <2>1. f.pos \in Nat
    BY <1>1, <1>2, PointerOf
  <2>2. k \in Nat
    BY <1>2, FileAssumption DEF Inode
  <2> QED
    BY <2>1, <2>2, FileAssumption, DivMod DEF Offset
<1>4. /\ b \in Block /\ (Crosses(data) => c \in Block /\ b # c)
  <2>1. p \in 0 .. k - 1 /\ (Crosses(data) => p + 1 \in 0 .. k - 1)
    BY <1>1, <1>3
  <2>2. b \in Block /\ (Crosses(data) => c \in Block)
    BY <1>1, <1>2, <2>1, OwnBlock
  <2>3. Crosses(data) => b # c
    BY <1>1, <1>2, <1>3, <2>1, OwnBlocks
  <2> QED
    BY <2>2, <2>3
<1>5. disk \in [Block -> [Offset -> Bytes]] /\ caller \in Caller
  BY DEF Inv, Typed
<1>6. disk'[b] = f'.buff /\ (Crosses(data) => disk'[c] = Rest(o, data))
  BY <1>1, <1>4, <1>5, WrittenBlock
<1>7. data \in Seq(Byte) /\ Len(data) \in Nat /\ DOMAIN data = 1 .. Len(data)
  BY DataIs
<1>8. caller'.wrote = data /\ caller'.got = Nothing
  BY <1>1, <1>5 DEF Wrote, Caller
<1> DEFINE end == k * BS
<1>9. end \in Nat /\ \A j \in Nat : o + j <= BS => f.pos + j <= end
  <2>1. f.pos \in Nat /\ k \in Nat /\ f.pos \div BS < k
    BY <1>1, <1>3
  <2> HIDE DEF k
  <2>2. end \in Nat
    BY <2>1, FileAssumption
  <2>3. \A j \in Nat : (f.pos % BS) + j <= BS => f.pos + j <= k * BS
    BY <2>1, BlockInFile
  <2> QED
    BY <2>2, <2>3
<1>10. \A j \in Nat : /\ o + j < BS => (f.pos + j) \div BS = p /\ (f.pos + j) % BS = o + j
                      /\ o + j >= BS /\ o + j < 2 * BS =>
                           (f.pos + j) \div BS = p + 1 /\ (f.pos + j) % BS = o + j - BS
  BY <1>3, PlaceOf
<1>11. Crosses(data) => f.pos + BS <= end
  <2> SUFFICES ASSUME Crosses(data) PROVE f.pos + BS <= end
    OBVIOUS
  <2> DEFINE x == f.pos + BS
  <2>1. x \in Nat /\ x \div BS = p + 1
    <3> HIDE DEF o, p
    <3>1. o + BS >= BS /\ o + BS < 2 * BS /\ BS \in Nat
      BY <1>3 DEF Offset
    <3> QED
      BY <1>3, <1>10, <3>1
  <2>2. x % BS \in 0 .. BS - 1
    BY <1>3, <2>1, DivMod
  <2>3. x \div BS < k
    BY <1>1, <2>1
  <2> HIDE DEF x
  <2>4. \A j \in Nat : (x % BS) + j <= BS => x + j <= end
    BY <1>3, <2>1, <2>3, BlockInFile
  <2>5. (x % BS) + 0 <= BS
    BY <1>3, <2>2
  <2>6. x + 0 <= end
    BY <2>4, <2>5
  <2> QED
    BY <2>1, <2>6 DEF x
<1>12. Crosses(data) <=> o + Len(data) > BS
  BY DEF Crosses
<1>13. PositionInFile'
  <2> HIDE DEF o, end
  <2>1. f.pos + 1 <= end
    BY <1>3, <1>9 DEF Offset
  <2> QED
    BY <1>1, <1>3, <1>9, <2>1 DEF PositionInFile, end
<1>14. BufferIsBlock'
  BY <1>1, <1>6 DEF BufferIsBlock
<1>15. ASSUME NEW i \in 1 .. Len(data)
       PROVE  (/\ f.pos + i <= Length(f.ino)
               /\ ByteAt(f.ino, f.pos + i - 1) = data[i])'
  <2> DEFINE j == i - 1
             x == f.pos + j
  <2>1. j \in Nat /\ i \in Nat /\ i = j + 1 /\ j < BS /\ x = f.pos + i - 1 /\ j < Len(data)
    BY <1>1, <1>3, <1>7
  <2>2. Length(f.ino)' = end
    BY <1>2 DEF Length
  <2>3. ByteAt(f.ino, f.pos + i - 1)' = disk'[f'.inode.blk[x \div BS]][x % BS]
    BY <1>1, <1>2, <2>1 DEF ByteAt
  <2> HIDE DEF o, p, j, x
  <2>4. o \in Nat /\ o < BS /\ BS \in Nat /\ f.pos \in Nat /\ end \in Nat
    BY <1>3, <1>9 DEF Offset
  <2> HIDE DEF end
  <2>5. CASE o + j < BS
    <3>1. x \div BS = p /\ x % BS = o + j
      BY <1>10, <2>1, <2>5 DEF x
    <3>2. f.pos + i <= end
      <4>1. o + i <= BS
        BY <2>1, <2>4, <2>5
      <4> QED
        BY <1>9, <2>1, <4>1
    <3>3. o + j \in Offset /\ (o + j) - o + 1 = i
      BY <2>1, <2>4, <2>5 DEF Offset
    <3>4. f'.buff[o + j] = data[i]
      BY <1>1, <1>7, <3>3 DEF Overlay
    <3> QED
      BY <1>1, <1>6, <2>2, <2>3, <3>1, <3>2, <3>4
  <2>6. CASE o + j >= BS
    <3>1. Crosses(data)
      BY <1>7, <1>12, <2>1, <2>4, <2>6
    <3>2. o + j < 2 * BS
      BY <2>1, <2>4
    <3>3. x \div BS = p + 1 /\ x % BS = o + j - BS
      BY <1>10, <2>1, <2>6, <3>2 DEF x
    <3>4. f.pos + i <= end
      BY <1>11, <2>1, <2>4, <3>1
    <3>5. o + j - BS \in Offset /\ BS - o + (o + j - BS) + 1 = i
      BY <2>1, <2>4, <2>6, <3>2 DEF Offset
    <3>6. disk'[c][o + j - BS] = data[i]
      BY <1>6, <1>7, <3>1, <3>5 DEF Rest
    <3> QED
      BY <1>1, <2>2, <2>3, <3>3, <3>4, <3>6
  <2> QED
    BY <2>1, <2>4, <2>5, <2>6
<1>16. WriteIsDurable'
  <2>1. \A i \in 1 .. Len(data) : (/\ f.pos + i <= Length(f.ino)
                                   /\ ByteAt(f.ino, f.pos + i - 1) = data[i])'
    BY <1>15
  <2> QED
    BY <1>7, <1>8, <2>1 DEF WriteIsDurable
<1>17. ReadYourWrites'
  BY <1>8 DEF ReadYourWrites, Nothing
<1> QED
  BY <1>13, <1>14, <1>16, <1>17 DEF Contained

\* A call that failed promises nothing about what was read or written.
LEMMA ErrorKeeps ==
  ASSUME Inv, Error
  PROVE  Contained'
<1>1. caller'.erred /\ caller'.wrote = Nothing /\ caller'.got = Nothing
  BY DEF Error, Inv, Typed, Caller
<1> QED
  BY <1>1 DEF Contained, PositionInFile, BufferIsBlock, WriteIsDurable, ReadYourWrites, Nothing

\* ext2_fseek loads the block under the new position, or the one it adds to the file.
LEMMA SeekKeeps ==
  ASSUME NextBlockOnly, Inv, Inv', NEW to \in Positions, FseekLoad(to) \/ FseekGrow(to)
  PROVE  Contained'
<1>1. CanSeek(to) /\ CanCreate /\ f.open /\ ~caller.erred /\ Moved
  BY DEF FseekLoad, FseekGrow, CanSeek
<1>2. PICK g : g = FileNow
  OBVIOUS
<1> DEFINE k == g.inode.count
           q == to \div BS
<1>3. /\ Shape(FilesNow, ItableNow, FreeNow, g) /\ g \in OpenFile /\ g.exist /\ g.open
      /\ g.inode \in Inode /\ k \in 0 .. NDirBlocks /\ k \in Nat /\ k > 0
  <2>1. /\ Shape(FilesNow, ItableNow, FreeNow, g) /\ g \in OpenFile /\ g.exist /\ g.open
        /\ g.inode \in Inode /\ k > 0
    BY <1>1, <1>2, Ground
  <2> QED
    BY <2>1, FileAssumption DEF Inode
<1>4. to \in Nat /\ q \in Nat /\ to % BS \in Offset /\ BS \in Nat \ {0} /\ q <= k
      /\ to = BS * q + (to % BS)
  <2>1. to \in Nat /\ BS \in Nat \ {0}
    BY FileAssumption, PointerOf
  <2>2. q <= k - 1 + SeekAhead
    BY <1>1, <1>2 DEF CanSeek
  <2>3. q \in Nat /\ to % BS \in 0 .. BS - 1 /\ to = BS * q + (to % BS)
    BY <2>1, DivMod
  <2> HIDE DEF q, k
  <2>4. q <= k
    BY <1>3, <2>2, <2>3 DEF NextBlockOnly
  <2> QED
    BY <2>1, <2>3, <2>4 DEF Offset
<1>5. disk \in [Block -> [Offset -> Bytes]] /\ disk' = disk
  BY DEF Inv, Typed, FseekLoad, FseekGrow
<1>6. /\ f'.pos = to /\ q < f'.inode.count /\ f'.inode.count \in Nat
      /\ \A x \in to % BS .. BS - 1 : f'.buff[x] = disk[f'.inode.blk[q]][x]
  <2>1. CASE FseekLoad(to)
    <3>1. q \in 0 .. k - 1
      <4>1. q < k
        BY <1>2, <2>1 DEF FseekLoad
      <4> HIDE DEF q, k
      <4> QED
        BY <1>3, <1>4, <4>1
    <3>2. \A r \in 0 .. k - 1 : Reach(g.inode.blk[r]) = {g.inode.blk[r]}
      BY <1>3, OwnBlock
    <3>3. f' = [g EXCEPT !.pos = to, !.buff = disk[g.inode.blk[q]]]
      <4>1. \E b \in Reach(g.inode.blk[q]) : f' = [g EXCEPT !.pos = to, !.buff = disk[b]]
        BY <1>2, <2>1 DEF FseekLoad
      <4>2. Reach(g.inode.blk[q]) = {g.inode.blk[q]}
        BY <3>1, <3>2
      <4> QED
        BY <4>1, <4>2
    <3>4. f'.pos = to /\ f'.inode = g.inode /\ f'.buff = disk[g.inode.blk[q]]
      BY <1>3, <3>3 DEF OpenFile
    <3> QED
      BY <1>3, <3>1, <3>4
  <2>2. CASE FseekGrow(to)
    <3>1. PICK b : b = Min(FreeNow)
      OBVIOUS
    <3> DEFINE s == to % BS
               inode == [Grown(g.inode, b) EXCEPT !.size = s]
               buff == [x \in Offset |-> IF x < s THEN 0 ELSE disk[b][x]]
    <3>2. /\ q = k /\ k < NDirBlocks /\ b \in Block
          /\ f' = [g EXCEPT !.pos = to, !.inode = inode, !.buff = buff]
      <4>1. /\ q >= k /\ k < NDirBlocks /\ FreeNow # {}
            /\ f' = [g EXCEPT !.pos = to, !.inode = inode, !.buff = buff]
        BY <1>2, <2>2, <3>1 DEF FseekGrow
      <4>2. FreeNow \subseteq Block /\ FreeNow \subseteq Nat
        BY <1>3, FileAssumption DEF Shape
      <4>3. b \in Block
        BY <3>1, <4>1, <4>2, MinOfNaturals
      <4> HIDE DEF inode, buff
      <4>4. q = k
        <5>1. q \in Nat /\ q <= k /\ k \in Nat /\ q >= k
          BY <1>3, <1>4, <4>1
        <5> HIDE DEF q, k
        <5> QED
          BY <5>1
      <4> QED
        BY <4>1, <4>3, <4>4
    <3>3. s \in 0 .. 2 * BS
      BY <1>4 DEF Offset
    <3>4. inode.count = k + 1 /\ inode.blk = [g.inode.blk EXCEPT ![k] = b]
      <4>1. g.inode \in Inode /\ g.inode.count < NDirBlocks /\ b \in Block
        BY <1>3, <3>2
      <4>2. PICK old, z : old = g.inode /\ z = s
        OBVIOUS
      <4>3. old \in Inode /\ old.count < NDirBlocks /\ z \in 0 .. 2 * BS
        BY <3>3, <4>1, <4>2
      <4> DEFINE ino == [Grown(old, b) EXCEPT !.size = z]
      <4>4. /\ ino \in Inode /\ ino.count = old.count + 1
            /\ ino.blk = [old.blk EXCEPT ![old.count] = b]
        BY <4>1, <4>3, GrownInode
      <4> QED
        BY <4>2, <4>4
    <3>5. \A x \in s .. BS - 1 : buff[x] = disk[b][x]
      BY <1>4 DEF Offset
    <3> HIDE DEF inode, buff
    <3>6. f'.pos = to /\ f'.inode = inode /\ f'.buff = buff
      BY <1>3, <3>2 DEF OpenFile
    <3>7. inode.blk[q] = b
      <4>1. k \in Pointer /\ g.inode.blk \in [Pointer -> Block \cup {Uninit}]
        BY <1>3, FileAssumption DEF Pointer, Inode
      <4> QED
        BY <3>2, <3>4, <4>1
    <3>8. \A x \in to % BS .. BS - 1 : f'.buff[x] = disk[f'.inode.blk[q]][x]
      BY <3>5, <3>6, <3>7
    <3> HIDE DEF q, k
    <3>9. q < f'.inode.count /\ f'.inode.count \in Nat
      BY <1>3, <3>2, <3>4, <3>6
    <3> QED
      BY <3>6, <3>8, <3>9
  <2> QED
    BY <2>1, <2>2
<1>7. PositionInFile'
  <2> DEFINE n == f'.inode.count
             x == BS * q
             y == BS * n
  <2>1. x + BS <= y /\ x \in Nat /\ y \in Nat
    <3> HIDE DEF q, n
    <3>1. q < n /\ q \in Nat /\ n \in Nat /\ BS \in Nat
      BY <1>4, <1>6 DEF n, q
    <3> QED
      BY <3>1, OneMore, Times
  <2>2. n * BS = y /\ to = x + (to % BS) /\ to % BS \in 0 .. BS - 1
    <3>1. n \in Nat /\ BS \in Nat /\ to = BS * q + (to % BS) /\ to % BS \in 0 .. BS - 1
      BY <1>4, <1>6 DEF Offset
    <3> HIDE DEF n, q
    <3> QED
      BY <3>1
  <2> HIDE DEF n, x, y
  <2>3. to < n * BS
    BY <1>4, <2>1, <2>2
  <2> QED
    BY <1>6, <2>3 DEF PositionInFile, n
<1>8. BufferIsBlock'
  BY <1>5, <1>6 DEF BufferIsBlock
<1>9. caller'.wrote = Nothing /\ caller'.got = Nothing
  BY <1>1 DEF Moved, Inv, Typed, Caller
<1> QED
  BY <1>7, <1>8, <1>9 DEF Contained, WriteIsDurable, ReadYourWrites, Nothing

\* What ext2_fread returns is what the last write left: in the buffer, and in the next
\* block where the bytes cross.
LEMMA ReadKeeps ==
  ASSUME Inv, Contained, NEW size \in ReadSizes, ext2_fread(size)
  PROVE  Contained'
<1> DEFINE o == f.pos % BS
           p == f.pos \div BS
           k == f.inode.count
<1>1. UNCHANGED <<disk, itable, files, free, f>> /\ f.open /\ ~caller.erred
  BY DEF ext2_fread
<1>2. PICK b \in Reach(f.inode.blk[p + 1]) :
        caller' = [caller EXCEPT !.got = [i \in 1 .. size |->
                     IF o + i <= BS THEN f.buff[o + i - 1] ELSE disk[b][o + i - 1 - BS]]]
  BY DEF ext2_fread
<1>3. caller \in Caller /\ f \in OpenFile /\ CallerFits /\ Shape(files, itable, free, f)
  BY DEF Inv, Typed, Shape
<1>4. /\ caller'.wrote = caller.wrote /\ caller'.loaded = caller.loaded
      /\ caller'.erred = caller.erred
      /\ caller'.got = [i \in 1 .. size |->
                     IF o + i <= BS THEN f.buff[o + i - 1] ELSE disk[b][o + i - 1 - BS]]
  BY <1>2, <1>3 DEF Caller
<1>5. PositionInFile' /\ BufferIsBlock' /\ WriteIsDurable'
  BY <1>1, <1>4 DEF Contained, PositionInFile, BufferIsBlock, WriteIsDurable, Length, ByteAt
<1>6. size \in Nat /\ size <= BS /\ BS \in Nat \ {0}
  BY FileAssumption
<1>7. f.pos \in Nat /\ p \in Nat /\ o \in Offset /\ k \in Nat /\ f.inode \in Inode
  <2>1. f.pos \in Nat /\ f.inode \in Inode
    BY <1>3, PointerOf DEF OpenFile
  <2>2. k \in Nat
    BY <2>1, FileAssumption DEF Inode
  <2> QED
    BY <2>1, <2>2, FileAssumption, DivMod DEF Offset
<1>8. ASSUME NEW i \in DOMAIN caller.wrote \cap DOMAIN caller'.got
      PROVE  caller'.got[i] = caller.wrote[i]
  <2> DEFINE j == i - 1
             x == f.pos + j
  <2>1. /\ i \in 1 .. size /\ i \in Nat /\ j \in Nat /\ j < BS /\ x = f.pos + i - 1
    <3>1. DOMAIN caller'.got = 1 .. size
      BY <1>4
    <3>2. i \in 1 .. size
      BY <3>1
    <3>3. f.pos \in Nat
      BY <1>7
    <3> QED
      BY <1>6, <3>2, <3>3
  <2>2. caller.wrote # Nothing /\ caller.loaded /\ f.exist
    <3>1. caller.wrote # Nothing
      BY DEF Nothing
    <3> QED
      BY <1>3, <3>1 DEF CallerFits
  <2>3. f.ino \in files /\ f.inode = itable[f.ino]
    BY <1>3, <2>2 DEF Shape
  <2>4. /\ f.pos + i <= k * BS
        /\ disk[f.inode.blk[x \div BS]][x % BS] = caller.wrote[i]
    BY <2>1, <2>3 DEF Contained, WriteIsDurable, Length, ByteAt
  <2>5. CASE o + j < BS
    <3>1. x \div BS = p /\ x % BS = o + j
      BY <1>7, <2>1, <2>5, PlaceOf
    <3>2. o + j \in o .. BS - 1 /\ o + i <= BS /\ o + i - 1 = o + j
      BY <1>6, <1>7, <2>1, <2>5 DEF Offset
    <3>3. f.buff[o + j] = disk[f.inode.blk[p]][o + j]
      BY <1>1, <2>2, <3>2 DEF Contained, BufferIsBlock
    <3>4. caller'.got[i] = f.buff[o + j]
      BY <1>4, <2>1, <3>2
    <3> QED
      BY <2>4, <3>1, <3>3, <3>4
  <2>6. CASE o + j >= BS
    <3>1. o + j < 2 * BS
      BY <1>6, <1>7, <2>1 DEF Offset
    <3>2. x \div BS = p + 1 /\ x % BS = o + j - BS
      BY <1>7, <2>1, <2>6, <3>1, PlaceOf
    <3>3. p + 1 < k
      <4>1. x \in Nat /\ k * BS = BS * k
        BY <1>6, <1>7, <2>1
      <4> DEFINE z == BS * k
      <4>2. z \in Nat /\ k * BS = z
        BY <1>6, <1>7, <4>1, Times
      <4> HIDE DEF z
      <4>3. x < z
        BY <1>7, <2>1, <2>4, <4>2
      <4>4. x \div BS < k
        BY <1>6, <1>7, <4>1, <4>3, QuotientBelow DEF z
      <4> QED
        BY <3>2, <4>4
    <3>4. p + 1 \in 0 .. k - 1
      BY <1>7, <3>3
    <3>5. b = f.inode.blk[p + 1]
      <4>1. \A q \in 0 .. k - 1 : Reach(f.inode.blk[q]) = {f.inode.blk[q]}
        BY <2>2, OpenBlock
      <4> QED
        BY <1>2, <3>4, <4>1
    <3>6. ~(o + i <= BS) /\ o + i - 1 - BS = o + j - BS
      BY <1>6, <1>7, <2>1, <2>6 DEF Offset
    <3>7. caller'.got[i] = disk[b][o + j - BS]
      BY <1>4, <2>1, <3>6
    <3> QED
      BY <2>4, <3>2, <3>5, <3>7
  <2>7. o + j < BS \/ o + j >= BS
    BY <1>6, <1>7, <2>1 DEF Offset
  <2> QED
    BY <2>5, <2>6, <2>7
<1>9. ReadYourWrites'
  BY <1>4, <1>8 DEF ReadYourWrites
<1> QED
  BY <1>5, <1>9 DEF Contained


\* Opening and closing forget what was written; the position is in the first block.
LEMMA OpenKeeps ==
  ASSUME Inv, Inv', ext2_fopen \/ ext2_fclose
  PROVE  Contained'
<1>1. caller' = Idle
  BY DEF ext2_fopen, ext2_fclose
<1>2. f'.pos = 0
  <2>1. CASE f' = Closed \/ f' = [Closed EXCEPT !.open = TRUE]
    BY <2>1 DEF Closed
  <2>2. ASSUME NEW n,
               f' = [Closed EXCEPT !.open = TRUE, !.exist = TRUE, !.ino = n, !.inode = itable[n]]
        PROVE  f'.pos = 0
    BY <2>2 DEF Closed
  <2> QED
    BY <2>1, <2>2 DEF ext2_fopen, ext2_fclose
<1>3. PositionInFile'
  <2> SUFFICES ASSUME f'.exist PROVE 0 < f'.inode.count * BS
    BY <1>2 DEF PositionInFile
  <2> DEFINE n == f'.inode.count
  <2>1. n > 0 /\ f'.inode \in Inode
    BY DEF Inv, Shape
  <2>2. n \in Nat /\ BS \in Nat \ {0}
    BY <2>1, FileAssumption DEF Inode
  <2>3. 1 * BS <= n * BS /\ n * BS \in Nat
    BY <2>1, <2>2, TimesMonotone
  <2> QED
    BY <2>2, <2>3
<1> QED
  BY <1>1, <1>3 DEF Contained, BufferIsBlock, WriteIsDurable, ReadYourWrites, Idle, Nothing

LEMMA InitContained == Init => Contained
  BY DEF Init, Contained, PositionInFile, BufferIsBlock, WriteIsDurable, ReadYourWrites,
         Closed, Idle, Nothing

LEMMA NextContained ==
  ASSUME NextBlockOnly, Inv, Inv', Contained, [Next]_vars
  PROVE  Contained'
<1>1. CASE ext2_fopen \/ ext2_fclose
  BY <1>1, OpenKeeps
<1>2. CASE CreateFails
  BY <1>2, ErrorKeeps DEF CreateFails
<1>3. ASSUME NEW size \in ReadSizes, ext2_fread(size) PROVE Contained'
  BY <1>3, ReadKeeps
<1>4. ASSUME NEW size \in WriteSizes, NEW data \in Data(size), ext2_fwrite(data)
      PROVE  Contained'
  <2>1. CASE FwriteOversize(data) \/ FwriteNoSpace(data)
    BY <2>1, ErrorKeeps DEF FwriteOversize, FwriteNoSpace
  <2>2. CASE FwriteFits(data) \/ FwriteCrosses(data)
    BY <2>2, WriteKeeps DEF Contained
  <2> QED
    BY <1>4, <2>1, <2>2 DEF ext2_fwrite
<1>5. ASSUME NEW to \in Positions, ext2_fseek(to) PROVE Contained'
  <2>1. CASE FseekNoSpace(to)
    BY <2>1, ErrorKeeps DEF FseekNoSpace
  <2>2. CASE FseekLoad(to) \/ FseekGrow(to)
    BY <2>2, SeekKeeps
  <2> QED
    BY <1>5, <2>1, <2>2 DEF ext2_fseek
<1>6. CASE UNCHANGED vars
  BY <1>6 DEF vars, Contained, PositionInFile, BufferIsBlock, WriteIsDurable, ReadYourWrites,
              Length, ByteAt
<1> QED
  BY <1>1, <1>2, <1>3, <1>4, <1>5, <1>6 DEF Next

LEMMA ContainedHolds == NextBlockOnly => (Spec => [](Inv /\ Contained))
<1> SUFFICES ASSUME NextBlockOnly PROVE Spec => [](Inv /\ Contained)
  OBVIOUS
<1>1. Init => Inv /\ Contained
  BY InitInv, InitContained
<1>2. Inv /\ Contained /\ [Next]_vars => (Inv /\ Contained)'
  BY NextInv, NextContained
<1> QED
  BY <1>1, <1>2, PTL DEF Spec

\* For a caller that seeks no further than one block past the file's last one, a write
\* followed by a read at the same position returns the bytes written, for every block
\* size, position and length, across the end of a block too.
THEOREM ReadYourWritesHolds == NextBlockOnly => (Spec => []ReadYourWrites)
<1>1. Contained => ReadYourWrites
  BY DEF Contained
<1> QED
  BY <1>1, ContainedHolds, PTL

\* "all the bytes are written to the disk asap": for that caller they are on disk, in the
\* blocks that the inode on disk names for their positions, when ext2_fwrite returns 0.
THEOREM WriteIsDurableHolds == NextBlockOnly => (Spec => []WriteIsDurable)
<1>1. Contained => WriteIsDurable
  BY DEF Contained
<1> QED
  BY <1>1, ContainedHolds, PTL

\* For that caller the buffer, once filled, is the block on disk from the position on.
THEOREM BufferIsBlockHolds == NextBlockOnly => (Spec => []BufferIsBlock)
<1>1. Contained => BufferIsBlock
  BY DEF Contained
<1> QED
  BY <1>1, ContainedHolds, PTL

-----------------------------------------------------------------------------
(***************************************************************************)
(* The other files                                                         *)
(***************************************************************************)

\* A file keeps its bytes when its inode stays and the call writes blocks of the open
\* file only.
LEMMA KeepsContents ==
  ASSUME Inv, Inv', NEW n \in files, n # f'.ino, n \in files', itable'[n] = itable[n], f'.exist,
         \A d \in Block : (\A q \in 0 .. f'.inode.count - 1 : d # f'.inode.blk[q])
                            => disk'[d] = disk[d]
  PROVE  Contents(n)' = Contents(n)
<1> DEFINE k == itable[n].count
<1>1. k \in Nat /\ BS \in Nat \ {0}
  BY FileAssumption DEF Inv, Shape, Inode
<1>2. \A x \in 0 .. k - 1 : /\ itable[n].blk[x] \in Block
                            /\ \A q \in 0 .. f'.inode.count - 1 : itable[n].blk[x] # f'.inode.blk[q]
  <2>1. Shape(files', itable', free', f')
    BY DEF Inv
  <2>2. \A x \in 0 .. k - 1 : itable[n].blk[x] \in Block
    BY DEF Inv, Shape
  <2> QED
    BY <2>1, <2>2, OwnBlocks
<1>3. ASSUME NEW x \in 0 .. k * BS - 1
      PROVE  x \div BS \in 0 .. k - 1
  <2> DEFINE y == BS * k
  <2>1. y \in Nat /\ k * BS = y
    BY <1>1
  <2> HIDE DEF y
  <2>2. x \in Nat /\ x < y
    BY <2>1
  <2>3. x \div BS < k /\ x \div BS \in Nat
    BY <1>1, <2>2, QuotientBelow, DivMod DEF y
  <2> QED
    BY <1>1, <2>3
<1>4. \A x \in 0 .. k * BS - 1 : disk'[itable'[n].blk[x \div BS]][x % BS]
                                  = disk[itable[n].blk[x \div BS]][x % BS]
  BY <1>2, <1>3
<1> QED
  BY <1>4 DEF Contents, Length, ByteAt

\* What a call does to the inodes and blocks of the image: it changes the inode of the
\* open file and no other, and writes into that file's blocks only.
LEMMA WritesOwnFile ==
  ASSUME NextBlockOnly, Inv, Inv', Contained, Next, f.open, NEW n \in files, n # f'.ino
  PROVE  /\ n \in files' /\ itable'[n] = itable[n]
         /\ \/ disk' = disk
            \/ /\ f'.exist
               /\ \A d \in Block : (\A q \in 0 .. f'.inode.count - 1 : d # f'.inode.blk[q])
                                     => disk'[d] = disk[d]
<1>1. n \in File /\ itable \in [File -> Inode]
  BY DEF Inv, Shape
<1>2. CanCreate => n \in FilesNow /\ ItableNow[n] = itable[n]
  BY Creation
<1>3. CanCreate => /\ ItableNow \in [File -> Inode]
                   /\ FileNow \in OpenFile /\ FileNow.exist
                   /\ Shape(FilesNow, ItableNow, FreeNow, FileNow)
  BY Ground DEF Shape
<1>4. ASSUME CanCreate, NEW i, NEW v, itable' = [ItableNow EXCEPT ![i] = v], i = f'.ino
      PROVE  itable'[n] = itable[n]
  BY <1>1, <1>2, <1>3, <1>4
<1>5. CASE ext2_fclose
  BY <1>2, <1>5 DEF ext2_fclose
<1>6. CASE CreateFails
  BY <1>6 DEF CreateFails
<1>7. ASSUME NEW size \in ReadSizes, ext2_fread(size)
      PROVE  n \in files' /\ itable'[n] = itable[n] /\ disk' = disk
  BY <1>7 DEF ext2_fread
<1>8. ASSUME NEW to \in Positions, ext2_fseek(to)
      PROVE  n \in files' /\ itable'[n] = itable[n] /\ disk' = disk
  <2>1. CASE FseekLoad(to) \/ FseekNoSpace(to)
    BY <1>2, <2>1 DEF FseekLoad, FseekNoSpace, CanSeek
  <2>2. CASE FseekGrow(to)
    <3>1. CanCreate /\ files' = FilesNow /\ disk' = disk
      BY <2>2 DEF FseekGrow, CanSeek
    <3>2. PICK g, v, w : g = FileNow /\ itable' = [ItableNow EXCEPT ![g.ino] = v]
                           /\ f' = [g EXCEPT !.pos = to, !.inode = v, !.buff = w]
      BY <2>2 DEF FseekGrow
    <3>3. f'.ino = g.ino
      BY <1>3, <3>1, <3>2 DEF OpenFile
    <3> QED
      BY <1>2, <1>4, <3>1, <3>2, <3>3
  <2> QED
    BY <1>8, <2>1, <2>2 DEF ext2_fseek
<1>9. ASSUME NEW size \in WriteSizes, NEW data \in Data(size), ext2_fwrite(data)
      PROVE  /\ n \in files' /\ itable'[n] = itable[n]
             /\ \/ disk' = disk
                \/ /\ f'.exist
                   /\ \A d \in Block : (\A q \in 0 .. f'.inode.count - 1 : d # f'.inode.blk[q])
                                         => disk'[d] = disk[d]
  <2>1. CASE FwriteOversize(data)
    BY <1>2, <2>1 DEF FwriteOversize, CanWrite
  <2>2. CASE FwriteNoSpace(data)
    <3>1. /\ CanCreate /\ files' = FilesNow /\ itable' = ItableNow /\ ~caller.erred
      BY <2>2 DEF FwriteNoSpace, CanWrite
    <3>2. PICK g, p, u : /\ g = FileNow /\ p = g.pos \div BS /\ f' = [g EXCEPT !.buff = u]
                         /\ \E b \in Reach(g.inode.blk[p]) : disk' = [disk EXCEPT ![b] = u]
      BY <2>2 DEF FwriteNoSpace
    <3>3. g.inode \in Inode /\ p \in Nat /\ p < g.inode.count
      BY <3>1, <3>2, Ground, InTheFile DEF Contained
    <3>4. g.inode.count \in Nat
      BY <3>3, FileAssumption DEF Inode
    <3>5. p \in 0 .. g.inode.count - 1
      BY <3>3, <3>4
    <3>6. Reach(g.inode.blk[p]) = {g.inode.blk[p]}
      <4>1. \A q \in 0 .. g.inode.count - 1 : Reach(g.inode.blk[q]) = {g.inode.blk[q]}
        BY <1>3, <3>1, <3>2, OwnBlock
      <4> QED
        BY <3>5, <4>1
    <3>7. f'.exist /\ f'.inode = g.inode
      BY <1>3, <3>1, <3>2 DEF OpenFile
    <3>8. disk' = [disk EXCEPT ![f'.inode.blk[p]] = u]
      BY <3>2, <3>6, <3>7
    <3>9. \A d \in Block : d # f'.inode.blk[p] => disk'[d] = disk[d]
      BY <3>8 DEF Inv, Typed
    <3> QED
      BY <1>2, <3>1, <3>5, <3>7, <3>9
  <2>3. CASE FwriteFits(data) \/ FwriteCrosses(data)
    <3> DEFINE p == f.pos \div BS
               k == f'.inode.count
               b == f'.inode.blk[p]
               c == f'.inode.blk[p + 1]
    <3>1. PICK v : /\ f'.exist /\ p < k /\ (Crosses(data) => p + 1 < k)
                   /\ Crosses(data) => disk' = [[disk EXCEPT ![b] = f'.buff] EXCEPT ![c] = v]
                   /\ ~Crosses(data) => disk' = [disk EXCEPT ![b] = f'.buff]
      BY <2>3, WriteEffect DEF Contained
    <3>2. p \in Nat /\ k \in Nat
      <4>1. f.pos \in 0 .. NDirBlocks * BS /\ f'.inode \in Inode
        BY DEF Inv, Shape, OpenFile
      <4>2. f.pos \in Nat
        BY <4>1, PointerOf
      <4>3. k \in Nat
        BY <4>1, FileAssumption DEF Inode
      <4>4. BS \in Nat \ {0}
        BY FileAssumption
      <4> QED
        BY <4>2, <4>3, <4>4, DivMod
    <3>3. p \in 0 .. k - 1 /\ (Crosses(data) => p + 1 \in 0 .. k - 1)
      BY <3>1, <3>2
    <3>4. disk \in [Block -> [Offset -> Bytes]]
      BY DEF Inv, Typed
    <3>5. \A d \in Block : (\A q \in 0 .. k - 1 : d # f'.inode.blk[q]) => disk'[d] = disk[d]
      BY <3>1, <3>3, <3>4
    <3>6. CanCreate /\ files' = FilesNow
      BY <2>3 DEF FwriteFits, FwriteCrosses, CanWrite
    <3>7. PICK g, w, u : g = FileNow /\ itable' = [ItableNow EXCEPT ![g.ino] = w]
                           /\ f' = [g EXCEPT !.buff = u, !.inode = w]
      <4>1. CASE FwriteFits(data)
        BY <4>1 DEF FwriteFits
      <4>2. CASE FwriteCrosses(data)
        BY <4>2 DEF FwriteCrosses
      <4> QED
        BY <2>3, <4>1, <4>2
    <3>8. f'.ino = g.ino
      BY <1>3, <3>6, <3>7 DEF OpenFile
    <3> QED
      BY <1>2, <1>4, <3>1, <3>5, <3>6, <3>7, <3>8
  <2> QED
    BY <1>9, <2>1, <2>2, <2>3 DEF ext2_fwrite
<1>10. ~ext2_fopen
  BY DEF ext2_fopen
<1> QED
  BY <1>5, <1>6, <1>7, <1>8, <1>9, <1>10 DEF Next

\* A call on the open file changes no other file, not its inode and not a byte of it, as
\* long as the caller seeks no further than one block past the last one.
THEOREM OtherFilesUntouchedHolds == NextBlockOnly => (Spec => OtherFilesUntouched)
<1> SUFFICES ASSUME NextBlockOnly PROVE Spec => OtherFilesUntouched
  OBVIOUS
<1>1. Inv /\ Inv' /\ Contained /\ [Next]_vars =>
        [\A n \in files \ {f'.ino} :
           f.open => itable'[n] = itable[n] /\ Contents(n)' = Contents(n)]_vars
  <2> SUFFICES ASSUME Inv, Inv', Contained, [Next]_vars, ~UNCHANGED vars,
                      NEW n \in files \ {f'.ino}, f.open
               PROVE  itable'[n] = itable[n] /\ Contents(n)' = Contents(n)
    OBVIOUS
  <2>1. /\ n \in files' /\ itable'[n] = itable[n]
        /\ \/ disk' = disk
           \/ /\ f'.exist
              /\ \A d \in Block : (\A q \in 0 .. f'.inode.count - 1 : d # f'.inode.blk[q])
                                    => disk'[d] = disk[d]
    BY WritesOwnFile
  <2>2. CASE disk' = disk
    BY <2>1, <2>2 DEF Contents, Length, ByteAt
  <2>3. CASE disk' # disk
    BY <2>1, <2>3, KeepsContents
  <2> QED
    BY <2>1, <2>2, <2>3
<1> QED
  BY <1>1, ContainedHolds, PTL DEF Spec, OtherFilesUntouched


-----------------------------------------------------------------------------
(***************************************************************************)
(* Whole blocks                                                            *)
(***************************************************************************)

\* The caller of Ext2BlockFile: it moves one block at a time, from the start of a block.
WholeBlocks ==
  /\ NextBlockOnly
  /\ WriteSizes \subseteq {BS} /\ ReadSizes \subseteq {BS}
  /\ \A to \in Positions : to % BS = 0

Aligned == f.pos % BS = 0

\* What the inodes and the disk make of a file, block by block.
BlocksIn(it, dk, n) ==
  [x \in 1 .. it[n].count |-> [i \in 1 .. BS |-> dk[it[n].blk[x - 1]][i - 1]]]

\* Byte (x - 1) * BS + i - 1 of a file is byte i - 1 of its block x - 1.
LEMMA BlocksAre ==
  ASSUME NEW it, NEW dk, NEW n, it[n].count \in Nat
  PROVE  [x \in 1 .. it[n].count |-> [i \in 1 .. BS |->
            dk[it[n].blk[((x - 1) * BS + i - 1) \div BS]][((x - 1) * BS + i - 1) % BS]]]
         = BlocksIn(it, dk, n)
<1> DEFINE k == it[n].count
<1>1. ASSUME NEW x \in 1 .. k, NEW i \in 1 .. BS
      PROVE  ((x - 1) * BS + i - 1) \div BS = x - 1 /\ ((x - 1) * BS + i - 1) % BS = i - 1
  <2> DEFINE y == BS * (x - 1)
             z == (x - 1) * BS
  <2>1. BS \in Nat \ {0} /\ x - 1 \in Nat /\ i - 1 \in 0 .. BS - 1
    BY FileAssumption
  <2>2. (y + (i - 1)) \div BS = x - 1 /\ (y + (i - 1)) % BS = i - 1
    BY <2>1, QuotientOf
  <2>3. y = z /\ y \in Nat
    BY <2>1, Times
  <2> HIDE DEF y, z
  <2>4. z + i - 1 = y + (i - 1)
    BY <2>1, <2>3
  <2>5. (z + i - 1) \div BS = x - 1 /\ (z + i - 1) % BS = i - 1
    BY <2>2, <2>4
  <2> QED
    BY <2>5 DEF z
<1> QED
  BY <1>1 DEF BlocksIn

LEMMA BlocksNow ==
  ASSUME Inv, NEW n \in files
  PROVE  Blocks(n) = BlocksIn(itable, disk, n)
<1>1. itable[n].count \in Nat
  BY FileAssumption DEF Inv, Shape, Inode
<1> QED
  BY <1>1, BlocksAre DEF Blocks, ByteAt

LEMMA BlocksNext ==
  ASSUME Inv', NEW n \in files'
  PROVE  Blocks(n)' = BlocksIn(itable', disk', n)
<1>1. itable'[n].count \in Nat
  <2>1. itable'[n] \in Inode
    BY DEF Inv, Shape
  <2> QED
    BY <2>1, FileAssumption DEF Inode
<1> QED
  BY <1>1, BlocksAre DEF Blocks, ByteAt

\* A call on whole blocks never crosses the end of one.
LEMMA NeverCrosses ==
  ASSUME WholeBlocks, Aligned, NEW size \in WriteSizes, NEW data \in Data(size)
  PROVE  Len(data) = BS /\ ~Crosses(data)
<1>1. Len(data) = BS
  BY DataIs DEF WholeBlocks
<1> QED
  BY <1>1, FileAssumption DEF Aligned, Crosses

LEMMA AlignedNext == WholeBlocks /\ Inv /\ Aligned /\ [Next]_vars => Aligned'
<1> SUFFICES ASSUME WholeBlocks, Inv, Aligned, [Next]_vars PROVE Aligned'
  OBVIOUS
<1>1. f'.pos = f.pos \/ f'.pos \in Positions \/ f'.pos = 0
  <2>1. CASE ext2_fopen
    <3>1. ASSUME NEW n,
                 f' = [Closed EXCEPT !.open = TRUE, !.exist = TRUE, !.ino = n, !.inode = itable[n]]
          PROVE  f'.pos = 0
      BY <3>1 DEF Closed
    <3>2. ASSUME f' = [Closed EXCEPT !.open = TRUE] PROVE f'.pos = 0
      BY <3>2 DEF Closed
    <3> QED
      BY <2>1, <3>1, <3>2 DEF ext2_fopen
  <2>2. CASE ext2_fclose
    BY <2>2 DEF ext2_fclose, Closed
  <2>3. CASE UNCHANGED f
    BY <2>3
  <2>4. ASSUME CanCreate, NEW g, g = FileNow
        PROVE  g \in OpenFile /\ g.pos = f.pos
    BY <2>4, Ground
  <2>5. ASSUME NEW size \in WriteSizes, NEW data \in Data(size), ext2_fwrite(data)
        PROVE  f'.pos = f.pos
    <3>1. PICK g, u, w : /\ g = FileNow
                         /\ f' = g \/ f' = [g EXCEPT !.buff = u] \/ f' = [g EXCEPT !.buff = u, !.inode = w]
      <4>1. CASE FwriteOversize(data)
        BY <4>1 DEF FwriteOversize
      <4>2. CASE FwriteFits(data)
        BY <4>2 DEF FwriteFits
      <4>3. CASE FwriteCrosses(data)
        BY <4>3 DEF FwriteCrosses
      <4>4. CASE FwriteNoSpace(data)
        BY <4>4 DEF FwriteNoSpace
      <4> QED
        BY <2>5, <4>1, <4>2, <4>3, <4>4 DEF ext2_fwrite
    <3>2. CanCreate
      BY <2>5 DEF ext2_fwrite, FwriteOversize, FwriteFits, FwriteCrosses, FwriteNoSpace, CanWrite
    <3>3. g \in OpenFile /\ g.pos = f.pos
      BY <2>4, <3>1, <3>2
    <3> QED
      BY <3>1, <3>3 DEF OpenFile
  <2>6. ASSUME NEW to \in Positions, ext2_fseek(to)
        PROVE  f'.pos = to
    <3>1. PICK g, u, w : /\ g = FileNow
                         /\ \/ f' = [g EXCEPT !.pos = to]
                            \/ f' = [g EXCEPT !.pos = to, !.buff = u]
                            \/ f' = [g EXCEPT !.pos = to, !.inode = w, !.buff = u]
      <4>1. CASE FseekLoad(to)
        BY <4>1 DEF FseekLoad
      <4>2. CASE FseekGrow(to)
        BY <4>2 DEF FseekGrow
      <4>3. CASE FseekNoSpace(to)
        BY <4>3 DEF FseekNoSpace
      <4> QED
        BY <2>6, <4>1, <4>2, <4>3 DEF ext2_fseek
    <3>2. CanCreate
      BY <2>6 DEF ext2_fseek, FseekLoad, FseekGrow, FseekNoSpace, CanSeek
    <3>3. g \in OpenFile
      BY <2>4, <3>1, <3>2
    <3> QED
      BY <3>1, <3>3 DEF OpenFile
  <2> QED
    BY <2>1, <2>2, <2>3, <2>5, <2>6 DEF Next, CreateFails, ext2_fread, vars
<1>2. 0 % BS = 0
  BY FileAssumption
<1>3. \A to \in Positions : to % BS = 0
  BY DEF WholeBlocks
<1> QED
  BY <1>1, <1>2, <1>3 DEF Aligned


\* The blocks a file has stay where they are, and the file stays.
LEMMA BlocksStay ==
  ASSUME Inv, Inv', Next, WholeBlocks, Aligned, NEW n \in files
  PROVE  /\ n \in files' /\ itable[n].count <= itable'[n].count
         /\ \A y \in 0 .. itable[n].count - 1 : itable'[n].blk[y] = itable[n].blk[y]
<1> DEFINE Stays == /\ n \in files' /\ itable[n].count <= itable'[n].count
                    /\ \A y \in 0 .. itable[n].count - 1 : itable'[n].blk[y] = itable[n].blk[y]
<1>1. n \in File /\ itable[n] \in Inode /\ itable[n].count \in Nat
  <2>1. n \in File /\ itable[n] \in Inode
    BY DEF Inv, Shape
  <2> QED
    BY <2>1, FileAssumption DEF Inode
<1>2. CanCreate => /\ n \in FilesNow /\ ItableNow[n] = itable[n]
                   /\ ItableNow \in [File -> Inode]
                   /\ FileNow \in OpenFile /\ FileNow.inode \in Inode
                   /\ FileNow.inode = ItableNow[FileNow.ino]
  <2> SUFFICES ASSUME CanCreate
               PROVE  /\ n \in FilesNow /\ ItableNow[n] = itable[n]
                      /\ ItableNow \in [File -> Inode]
                      /\ FileNow \in OpenFile /\ FileNow.inode \in Inode
                      /\ FileNow.inode = ItableNow[FileNow.ino]
    OBVIOUS
  <2>1. n \in FilesNow /\ ItableNow[n] = itable[n]
    BY Creation
  <2>2. /\ Shape(FilesNow, ItableNow, FreeNow, FileNow) /\ FileNow.inode \in Inode
        /\ FileNow.inode = ItableNow[FileNow.ino]
    BY Ground
  <2> QED
    BY <2>1, <2>2 DEF Shape
<1>3. ASSUME n \in files', itable'[n] = itable[n] PROVE Stays
  BY <1>1, <1>3
<1>4. CASE ext2_fopen \/ CreateFails
  BY <1>3, <1>4 DEF ext2_fopen, CreateFails
<1>5. CASE ext2_fclose
  BY <1>2, <1>3, <1>5 DEF ext2_fclose
<1>6. ASSUME NEW size \in ReadSizes, ext2_fread(size) PROVE Stays
  BY <1>3, <1>6 DEF ext2_fread
<1>7. ASSUME NEW size \in WriteSizes, NEW data \in Data(size), ext2_fwrite(data) PROVE Stays
  <2>1. CASE FwriteOversize(data)
    BY <1>2, <1>3, <2>1 DEF FwriteOversize, CanWrite
  <2>2. CASE FwriteNoSpace(data)
    BY <1>2, <1>3, <2>2 DEF FwriteNoSpace, CanWrite
  <2>3. CASE FwriteFits(data)
    <3>1. PICK g, end : /\ g = FileNow /\ files' = FilesNow
                        /\ end = (g.pos % BS) + Len(data)
                        /\ itable' = [ItableNow EXCEPT ![g.ino] = Sized(g.inode, end)]
      BY <2>3 DEF FwriteFits
    <3>2. CanCreate
      BY <2>3 DEF FwriteFits, CanWrite
    <3>3. CASE n = g.ino
      <4>1. g.inode = itable[n] /\ itable'[n] = Sized(itable[n], end)
        BY <1>1, <1>2, <3>1, <3>2, <3>3
      <4>2. itable'[n].count = itable[n].count /\ itable'[n].blk = itable[n].blk
        BY <1>1, <4>1 DEF Sized, Inode
      <4> QED
        BY <1>1, <1>2, <3>1, <3>2, <4>2
    <3>4. CASE n # g.ino
      BY <1>1, <1>2, <1>3, <3>1, <3>2, <3>4
    <3> QED
      BY <3>3, <3>4
  <2>4. ~FwriteCrosses(data)
    BY NeverCrosses DEF FwriteCrosses
  <2> QED
    BY <1>7, <2>1, <2>2, <2>3, <2>4 DEF ext2_fwrite
<1>8. ASSUME NEW to \in Positions, ext2_fseek(to) PROVE Stays
  <2>1. CASE FseekLoad(to) \/ FseekNoSpace(to)
    BY <1>2, <1>3, <2>1 DEF FseekLoad, FseekNoSpace, CanSeek
  <2>2. CASE FseekGrow(to)
    <3>1. PICK g, b, s : /\ g = FileNow /\ files' = FilesNow /\ g.inode.count < NDirBlocks
                         /\ b = Min(FreeNow) /\ s = to % BS
                         /\ itable' = [ItableNow EXCEPT ![g.ino] = [Grown(g.inode, b) EXCEPT !.size = s]]
      BY <2>2 DEF FseekGrow
    <3>2. CanCreate
      BY <2>2 DEF FseekGrow, CanSeek
    <3>3. CASE n = g.ino
      <4>1. g.inode = itable[n] /\ itable'[n] = [Grown(itable[n], b) EXCEPT !.size = s]
        BY <1>1, <1>2, <3>1, <3>2, <3>3
      <4>2. /\ itable'[n].count = itable[n].count + 1
            /\ itable'[n].blk = [itable[n].blk EXCEPT ![itable[n].count] = b]
        BY <4>1 DEF Grown
      <4>3. \A y \in 0 .. itable[n].count - 1 : y \in Pointer /\ y # itable[n].count
        BY <1>1, FileAssumption DEF Pointer, Inode
      <4>4. itable[n].blk \in [Pointer -> Block \cup {Uninit}]
        BY <1>1 DEF Inode
      <4>5. \A y \in 0 .. itable[n].count - 1 : itable'[n].blk[y] = itable[n].blk[y]
        BY <4>2, <4>3, <4>4
      <4>6. itable[n].count <= itable'[n].count
        BY <1>1, <4>2
      <4>7. n \in files'
        BY <1>2, <3>1, <3>2
      <4> QED
        BY <4>5, <4>6, <4>7
    <3>4. CASE n # g.ino
      BY <1>1, <1>2, <1>3, <3>1, <3>2, <3>4
    <3> QED
      BY <3>3, <3>4
  <2> QED
    BY <1>8, <2>1, <2>2 DEF ext2_fseek
<1> QED
  BY <1>4, <1>5, <1>6, <1>7, <1>8 DEF Next


\* A function on the numbers up to k is a sequence of length k.
LEMMA SequenceOf ==
  ASSUME NEW k \in Nat, NEW S, NEW s \in [1 .. k -> S]
  PROVE  s \in Seq(S) /\ Len(s) = k /\ DOMAIN s = 1 .. k
<1>1. s \in Seq(S) /\ DOMAIN s = 1 .. k
  OBVIOUS
<1>2. Len(s) \in Nat /\ DOMAIN s = 1 .. Len(s)
  BY <1>1
<1>3. \A l \in Nat : 1 .. l = 1 .. k => l = k
  <2> SUFFICES ASSUME NEW l \in Nat, 1 .. l = 1 .. k PROVE l = k
    OBVIOUS
  <2>1. CASE l < k
    <3>1. k \in 1 .. k /\ k \notin 1 .. l
      BY <2>1
    <3> QED
      BY <3>1
  <2>2. CASE k < l
    <3>1. l \in 1 .. l /\ l \notin 1 .. k
      BY <2>2
    <3> QED
      BY <3>1
  <2> QED
    BY <2>1, <2>2
<1> QED
  BY <1>1, <1>2, <1>3

\* The blocks of a file are as many as its inode counts.
LEMMA LengthOf ==
  ASSUME NEW it, NEW dk, NEW n, it[n].count \in Nat
  PROVE  Len(BlocksIn(it, dk, n)) = it[n].count /\ DOMAIN BlocksIn(it, dk, n) = 1 .. it[n].count
<1> DEFINE k == it[n].count
           s == BlocksIn(it, dk, n)
           S == {s[x] : x \in 1 .. k}
<1>1. s \in [1 .. k -> S]
  BY DEF BlocksIn
<1> HIDE DEF s, S
<1> QED
  BY <1>1, SequenceOf DEF s

\* A block whose bytes stay on disk stays in its file.
LEMMA KeptBlocks ==
  ASSUME Inv, Inv', Next, WholeBlocks, Aligned, NEW n \in files
  PROVE  /\ n \in files' /\ Len(Blocks(n)) <= Len(Blocks(n)') /\ DOMAIN Blocks(n) = 1 .. itable[n].count
         /\ \A x \in 1 .. itable[n].count :
              disk'[itable[n].blk[x - 1]] = disk[itable[n].blk[x - 1]]
                => Blocks(n)'[x] = Blocks(n)[x]
<1> DEFINE k == itable[n].count
           l == itable'[n].count
<1>1. /\ n \in files' /\ k <= l /\ \A y \in 0 .. k - 1 : itable'[n].blk[y] = itable[n].blk[y]
  BY BlocksStay
<1>2. k \in Nat /\ l \in Nat
  <2>1. itable[n] \in Inode /\ itable'[n] \in Inode
    BY <1>1 DEF Inv, Shape
  <2> QED
    BY <2>1, FileAssumption DEF Inode
<1>3. Blocks(n) = BlocksIn(itable, disk, n) /\ Blocks(n)' = BlocksIn(itable', disk', n)
  BY <1>1, BlocksNow, BlocksNext
<1>4. /\ Len(BlocksIn(itable, disk, n)) = k /\ DOMAIN BlocksIn(itable, disk, n) = 1 .. k
      /\ Len(BlocksIn(itable', disk', n)) = l
  BY <1>2, LengthOf
<1>5. ASSUME NEW x \in 1 .. k, disk'[itable[n].blk[x - 1]] = disk[itable[n].blk[x - 1]]
      PROVE  BlocksIn(itable', disk', n)[x] = BlocksIn(itable, disk, n)[x]
  <2>1. x \in 1 .. l /\ x - 1 \in 0 .. k - 1
    BY <1>1, <1>2
  <2>2. itable'[n].blk[x - 1] = itable[n].blk[x - 1]
    BY <1>1, <2>1
  <2> QED
    BY <1>5, <2>1, <2>2 DEF BlocksIn
<1> QED
  BY <1>1, <1>3, <1>4, <1>5


\* What is in the files, for Ext2BlockFile: everything whose bytes stay on disk.
LEMMA Keeps ==
  ASSUME Inv, Inv', Next, WholeBlocks, Aligned, NEW changed,
         \A n \in files : \A x \in 1 .. itable[n].count :
           \/ disk'[itable[n].blk[x - 1]] = disk[itable[n].blk[x - 1]]
           \/ [file |-> n, block |-> x] \in changed
  PROVE  Abstract!KeptExcept(changed)
<1> DEFINE before == [n \in File |-> IF n \in files THEN Blocks(n) ELSE <<>>]
           after == [n \in File |-> IF n \in files' THEN Blocks(n)' ELSE <<>>]
<1>1. ASSUME NEW n \in File
      PROVE  /\ Len(before[n]) <= Len(after[n])
             /\ \A x \in DOMAIN before[n] :
                  after[n][x] = before[n][x] \/ [file |-> n, block |-> x] \in changed
  <2>1. CASE n \in files
    <3>1. before[n] = Blocks(n) /\ after[n] = Blocks(n)'
      BY <2>1, KeptBlocks
    <3>2. /\ Len(Blocks(n)) <= Len(Blocks(n)') /\ DOMAIN Blocks(n) = 1 .. itable[n].count
          /\ \A x \in 1 .. itable[n].count :
               disk'[itable[n].blk[x - 1]] = disk[itable[n].blk[x - 1]]
                 => Blocks(n)'[x] = Blocks(n)[x]
      BY <2>1, KeptBlocks
    <3> HIDE DEF before, after
    <3> QED
      BY <2>1, <3>1, <3>2
  <2>2. CASE n \notin files
    <3>1. before[n] = <<>>
      BY <2>2
    <3>2. Len(after[n]) \in Nat
      <4>1. CASE n \in files'
        <5>1. itable'[n].count \in Nat
          <6>1. itable'[n] \in Inode
            BY <4>1 DEF Inv, Shape
          <6> QED
            BY <6>1, FileAssumption DEF Inode
        <5>2. after[n] = BlocksIn(itable', disk', n)
          BY <4>1, BlocksNext
        <5> QED
          BY <5>1, <5>2, LengthOf
      <4>2. CASE n \notin files'
        BY <4>2
      <4> QED
        BY <4>1, <4>2
    <3> HIDE DEF before, after
    <3> QED
      BY <3>1, <3>2
  <2> QED
    BY <2>1, <2>2
<1> QED
  BY <1>1 DEF Abstract!KeptExcept

\* A step that leaves the disk alone moves the cursor, and may add a block.
LEMMA MoveStep ==
  ASSUME Inv, Inv', Next, WholeBlocks, Aligned, disk' = disk,
         caller'.loaded => caller'.got = Nothing
  PROVE  Abstract!Next
<1>1. Abstract!KeptExcept({})
  BY Keeps
<1> QED
  BY <1>1 DEF Abstract!Next, Abstract!Move, Nothing

\* A write replaces the block at the cursor.
LEMMA WriteStep ==
  ASSUME Inv, Inv', Contained, Next, WholeBlocks, Aligned,
         NEW size \in WriteSizes, NEW data \in Data(size), FwriteFits(data)
  PROVE  Abstract!Next
<1> DEFINE p == f.pos \div BS
           b == f'.inode.blk[p]
           k == f'.inode.count
<1>1. /\ f'.exist /\ f'.pos = f.pos /\ p < k /\ Wrote(data) /\ ~Crosses(data)
      /\ disk' = [disk EXCEPT ![b] = f'.buff]
  <2>1. ~Crosses(data)
    BY NeverCrosses
  <2> QED
    BY <2>1, WriteEffect DEF Contained
<1>2. p \in Nat /\ k \in Nat /\ Shape(files', itable', free', f')
  <2>1. f.pos \in 0 .. NDirBlocks * BS /\ f'.inode \in Inode /\ Shape(files', itable', free', f')
    BY DEF Inv, Shape, OpenFile
  <2>2. f.pos \in Nat
    BY <2>1, PointerOf
  <2>3. k \in Nat
    BY <2>1, FileAssumption DEF Inode
  <2> QED
    BY <2>1, <2>2, <2>3, FileAssumption, DivMod
<1>3. caller'.got = Nothing
  BY <1>1 DEF Wrote, Inv, Typed, Caller
<1>4. PICK i, c : i = f'.ino /\ c = p + 1
  OBVIOUS
<1>5. ASSUME NEW n \in files, NEW x \in 1 .. itable[n].count
      PROVE  \/ disk'[itable[n].blk[x - 1]] = disk[itable[n].blk[x - 1]]
             \/ [file |-> n, block |-> x] \in {[file |-> i, block |-> c]}
  <2>1. /\ n \in files' /\ itable[n].count <= itable'[n].count
        /\ \A y \in 0 .. itable[n].count - 1 : itable'[n].blk[y] = itable[n].blk[y]
    BY BlocksStay
  <2>2. itable[n].count \in Nat /\ itable'[n].count \in Nat
    <3>1. itable[n] \in Inode /\ itable'[n] \in Inode
      BY <2>1 DEF Inv, Shape
    <3> QED
      BY <3>1, FileAssumption DEF Inode
  <2>3. PICK y : y = x - 1
    OBVIOUS
  <2>4. /\ y \in 0 .. itable[n].count - 1 /\ y \in 0 .. itable'[n].count - 1
        /\ itable'[n].blk[y] = itable[n].blk[y]
    BY <2>1, <2>2, <2>3
  <2>5. CASE itable'[n].blk[y] = b
    <3>1. p \in 0 .. k - 1
      BY <1>1, <1>2
    <3>2. f'.ino \in files' /\ f'.inode = itable'[f'.ino]
      BY <1>1, <1>2 DEF Shape
    <3>3. n = f'.ino /\ y = p
      BY <1>2, <2>1, <2>4, <2>5, <3>1, <3>2 DEF Shape
    <3>4. x = c
      BY <1>2, <1>4, <2>2, <2>3, <3>3
    <3> QED
      BY <1>4, <3>3, <3>4
  <2>6. CASE itable'[n].blk[y] # b
    <3>1. itable[n].blk[y] \in Block
      BY <2>4 DEF Inv, Shape
    <3>2. disk'[itable[n].blk[y]] = disk[itable[n].blk[y]]
      BY <1>1, <2>4, <2>6, <3>1 DEF Inv, Typed
    <3> QED
      BY <2>3, <3>2
  <2> QED
    BY <2>5, <2>6
<1>6. Abstract!KeptExcept({[file |-> i, block |-> c]})
  BY <1>5, Keeps
<1> HIDE DEF p
<1>7. [file |-> i, block |-> c] = [file |-> f'.ino, block |-> f'.pos \div BS + 1]
      /\ f'.pos \div BS + 1 = f.pos \div BS + 1
  BY <1>1, <1>4 DEF p
<1>8. Abstract!Write
  <2>1. {[file |-> f'.ino, block |-> f'.pos \div BS + 1]} = {[file |-> i, block |-> c]}
    BY <1>7
  <2>2. Abstract!KeptExcept({[file |-> f'.ino, block |-> f'.pos \div BS + 1]})
    BY <1>6, <2>1 DEF Abstract!KeptExcept
  <2> QED
    BY <1>3, <1>7, <2>2 DEF Abstract!Write, Nothing
<1> QED
  BY <1>8 DEF Abstract!Next

\* A read of a whole block returns the block at the cursor.
LEMMA ReadStep ==
  ASSUME Inv, Inv', Contained, Next, WholeBlocks, Aligned, NEW size \in ReadSizes, ext2_fread(size)
  PROVE  Abstract!Next
<1>1. UNCHANGED <<disk, itable, files, free, f>> /\ f.open /\ ~caller.erred
  BY DEF ext2_fread
<1>2. size = BS /\ f.pos % BS = 0 /\ BS \in Nat \ {0}
  BY FileAssumption DEF WholeBlocks, Aligned
<1>3. caller' = [caller EXCEPT !.got = [i \in 1 .. BS |-> f.buff[i - 1]]]
  <2>1. PICK b \in Reach(f.inode.blk[f.pos \div BS + 1]) :
          caller' = [caller EXCEPT !.got = [i \in 1 .. size |->
                       IF (f.pos % BS) + i <= BS THEN f.buff[(f.pos % BS) + i - 1]
                                                 ELSE disk[b][(f.pos % BS) + i - 1 - BS]]]
    BY DEF ext2_fread
  <2>2. \A i \in 1 .. BS : 0 + i <= BS /\ 0 + i - 1 = i - 1
    BY <1>2
  <2> QED
    BY <1>2, <2>1, <2>2
<1>4. caller'.loaded = caller.loaded /\ caller'.got = [i \in 1 .. BS |-> f.buff[i - 1]]
  BY <1>3 DEF Inv, Typed, Caller
<1>5. CASE ~caller.loaded
  BY <1>1, <1>4, <1>5, MoveStep
<1>6. CASE caller.loaded
  <2> DEFINE p == f.pos \div BS
             k == f.inode.count
  <2>1. f.exist /\ f.ino \in files /\ f.ino \in File /\ f.inode = itable[f.ino] /\ f.inode \in Inode
    BY <1>6 DEF Inv, CallerFits, Shape, OpenFile
  <2>2. k \in Nat /\ f.pos \in Nat
    <3>1. f.pos \in 0 .. NDirBlocks * BS
      BY DEF Inv, Shape, OpenFile
    <3> QED
      BY <2>1, <3>1, FileAssumption, PointerOf DEF Inode
  <2>3. p \in Nat /\ p < k
    <3> DEFINE y == BS * k
    <3>1. k * BS = y
      BY <1>2, <2>2
    <3>2. f.pos < y
      BY <1>1, <2>1, <3>1 DEF Contained, PositionInFile
    <3> QED
      BY <1>2, <2>2, <3>2, QuotientBelow, DivMod
  <2>4. p + 1 \in 1 .. k /\ (p + 1) - 1 = p
    <3> HIDE DEF p, k
    <3> QED
      BY <2>2, <2>3
  <2>5. Blocks(f.ino)[p + 1] = [i \in 1 .. BS |-> disk[f.inode.blk[p]][i - 1]]
    <3> DEFINE y == p + 1
    <3>1. Blocks(f.ino) = BlocksIn(itable, disk, f.ino)
      BY <2>1, BlocksNow
    <3>2. itable[f.ino].count = k /\ itable[f.ino].blk = f.inode.blk
      BY <2>1
    <3>3. y \in 1 .. k /\ y - 1 = p
      BY <2>4
    <3> HIDE DEF p, k, y
    <3>4. BlocksIn(itable, disk, f.ino) =
            [z \in 1 .. k |-> [i \in 1 .. BS |-> disk[f.inode.blk[z - 1]][i - 1]]]
      BY <3>2 DEF BlocksIn
    <3> QED
      BY <3>1, <3>3, <3>4 DEF y
  <2>6. \A i \in 1 .. BS : f.buff[i - 1] = disk[f.inode.blk[p]][i - 1]
    <3>1. \A x \in 0 .. BS - 1 : f.buff[x] = disk[f.inode.blk[p]][x]
      BY <1>1, <1>2, <1>6 DEF Contained, BufferIsBlock
    <3>2. \A i \in 1 .. BS : i - 1 \in 0 .. BS - 1
      BY <1>2
    <3> HIDE DEF p
    <3> QED
      BY <3>1, <3>2
  <2>7. caller'.got = Blocks(f.ino)[p + 1]
    <3> HIDE DEF p
    <3> QED
      BY <1>4, <2>5, <2>6
  <2>8. [n \in File |-> IF n \in files THEN Blocks(n) ELSE <<>>]'
        = [n \in File |-> IF n \in files THEN Blocks(n) ELSE <<>>]
    BY <1>1 DEF Blocks, ByteAt
  <2>9. [n \in File |-> IF n \in files THEN Blocks(n) ELSE <<>>][f.ino] = Blocks(f.ino)
    BY <2>1
  <2>10. Abstract!Read
    BY <1>1, <1>4, <1>6, <2>7, <2>8, <2>9 DEF Abstract!Read
  <2> QED
    BY <2>10 DEF Abstract!Next
<1> QED
  BY <1>5, <1>6

\* Every call is a step of Ext2BlockFile.
LEMMA CallsAreBlockSteps ==
  ASSUME Inv, Inv', Contained, WholeBlocks, Aligned, Next
  PROVE  Abstract!Next
<1>1. caller \in Caller
  BY DEF Inv, Typed
<1>2. CASE ext2_fopen \/ ext2_fclose
  <2>1. disk' = disk /\ caller' = Idle
    BY <1>2 DEF ext2_fopen, ext2_fclose
  <2>2. ~caller'.loaded
    BY <2>1 DEF Idle
  <2> QED
    BY <2>1, <2>2, MoveStep
<1>3. CASE CreateFails
  BY <1>1, <1>3, MoveStep DEF CreateFails, Error, Caller
<1>4. ASSUME NEW size \in ReadSizes, ext2_fread(size) PROVE Abstract!Next
  BY <1>4, ReadStep
<1>5. ASSUME NEW size \in WriteSizes, NEW data \in Data(size), ext2_fwrite(data)
      PROVE  Abstract!Next
  <2>1. Len(data) = BS /\ ~Crosses(data) /\ BS \in Nat
    BY NeverCrosses, FileAssumption
  <2>2. FwriteFits(data)
    BY <1>5, <2>1 DEF ext2_fwrite, FwriteOversize, FwriteCrosses, FwriteNoSpace
  <2> QED
    BY <2>2, WriteStep
<1>6. ASSUME NEW to \in Positions, ext2_fseek(to) PROVE Abstract!Next
  <2>1. disk' = disk /\ (Moved \/ Error)
    BY <1>6 DEF ext2_fseek, FseekLoad, FseekGrow, FseekNoSpace
  <2>2. caller'.got = Nothing
    BY <1>1, <2>1 DEF Moved, Error, Caller
  <2> QED
    BY <2>1, <2>2, MoveStep
<1> QED
  BY <1>2, <1>3, <1>4, <1>5, <1>6 DEF Next

\* Whole blocks written are the blocks read later, in any order of opens, seeks, reads and
\* writes, whatever fails in between: the file system implements Ext2BlockFile for a caller
\* that moves a block at a time.
THEOREM BlocksAreKeptHolds == WholeBlocks => (Spec => BlocksAreKept)
<1> SUFFICES ASSUME WholeBlocks PROVE Spec => Abstract!Spec
  BY DEF BlocksAreKept
<1>1. NextBlockOnly
  BY DEF WholeBlocks
<1>2. Init => Abstract!Init
  BY DEF Init, Idle, Abstract!Init
<1>3. Init => Aligned
  BY FileAssumption DEF Init, Closed, Aligned
<1>4. Inv /\ Aligned /\ [Next]_vars => Aligned'
  BY AlignedNext
<1>5. Inv /\ Inv' /\ Contained /\ Aligned /\ [Next]_vars => [Abstract!Next]_(Abstract!vars)
  <2>1. ASSUME Inv, Inv', Contained, Aligned, Next PROVE Abstract!Next
    BY <2>1, CallsAreBlockSteps
  <2>2. UNCHANGED vars => UNCHANGED Abstract!vars
    BY DEF vars, Abstract!vars, Blocks, ByteAt
  <2> QED
    BY <2>1, <2>2
<1>6. Spec => [](Inv /\ Contained)
  BY <1>1, ContainedHolds
<1> QED
  BY <1>2, <1>3, <1>4, <1>5, <1>6, PTL DEF Spec, Abstract!Spec
=============================================================================
