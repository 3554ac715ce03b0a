--------------------------- MODULE Ext2DirProofs ----------------------------
(***************************************************************************)
(* Proofs about directories: about the entries of one block, module        *)
(* Ext2Dir, and then about the paths that lead through them, module        *)
(* Ext2Path.                                                               *)
(*                                                                         *)
(* For every block size that the 16 bits of dir_entry_size can express,    *)
(* every image and every sequence of names, the entries of a block stay    *)
(* one chain, which lists them in the order in which they were added, and  *)
(* no name but the one that Lost describes is overwritten.                 *)
(*                                                                         *)
(* For every tree, every set of paths, every size of the arrays and        *)
(* whatever they hold, ext2_inode_find follows only entries whose names    *)
(* begin the components of its path; when they hold terminators behind the *)
(* names, it finds the longest part of a path that exists,                 *)
(* ext2_change_cwd the directory a path names, and a file that was created *)
(* is found under its path.                                                *)
(***************************************************************************)
EXTENDS Ext2Dir, Ext2Path, NumberFacts, SequenceTheorems

Size == {n \in Nat : 0 < n /\ n < 65536}
EntryRecord == [ino : Nat, size : Size, len : Nat, whole : BOOLEAN]

Typed ==
  /\ 0 \in DOMAIN entry /\ DOMAIN entry \subseteq 0 .. BlockSize - 1
  /\ entry \in [DOMAIN entry -> EntryRecord]

\* The entry at t ends the block, every other one leads to the next and every one but the
\* first is led to.
EndsAt(t) ==
  /\ t \in DOMAIN entry /\ t > 0 /\ t + entry[t].size = BlockSize
  /\ \A o \in DOMAIN entry :
       /\ o <= t
       /\ o # t => o + entry[o].size \in DOMAIN entry

LedTo == \A o \in DOMAIN entry \ {0} : \E p \in DOMAIN entry : p < o /\ p + entry[p].size = o

\* The entries added, in the order of their offsets.
New == DOMAIN entry \ Old
InOrder ==
  /\ Old \subseteq DOMAIN entry
  /\ added \in Seq([ino : Nat, len : Nat])
  /\ Cardinality(New) = Len(added)
  /\ \A o \in New : LET n == Place(o, New) + 1
                    IN  n \in 1 .. Len(added) /\ entry[o].ino = added[n].ino
                                              /\ entry[o].len = added[n].len

\* Only the name that Lost describes is spoiled.  The names in front of the last entry end
\* in front of it; the name of the last entry is that of the image until one is added, and
\* from then on it is shorter than the entry's own offset, so that the next entry, at twice
\* that offset and more, begins behind it.
NamesKept(t) ==
  /\ \A o \in DOMAIN entry : entry[o].whole <=> ~Lost(o)
  /\ \A o \in DOMAIN entry \ {t} : entry[o].whole => o + Header + entry[o].len <= t
  /\ added = <<>> => t = LastOffset /\ entry[t].len = DiskImage[t].len
  /\ added # <<>> => t # LastOffset /\ Header + entry[t].len <= t

DirInv ==
  /\ smashed \in BOOLEAN
  /\ ~smashed => /\ Typed /\ LedTo /\ InOrder
                 /\ \E t \in DOMAIN entry : EndsAt(t) /\ NamesKept(t)
-----------------------------------------------------------------------------
(***************************************************************************)
(* What the walks of the loops find                                        *)
(***************************************************************************)

\* Sizes are rounded up to a multiple of four.
LEMMA AlignedIs ==
  ASSUME NEW n \in Nat
  PROVE  Aligned(n) \in Nat /\ Aligned(n) >= n /\ Aligned(n) <= n + 3
<1> DEFINE q == (n + 3) \div 4
           r == (n + 3) % 4
<1>1. q \in Nat /\ r \in 0 .. 3 /\ n + 3 = 4 * q + r
  BY DivMod
<1> HIDE DEF q, r
<1>2. Aligned(n) = q * 4
  BY DEF Aligned, q
<1> QED
  BY <1>1, <1>2

LEMMA EntryIs ==
  ASSUME NEW ino \in Nat, NEW size \in Size, NEW len \in Nat
  PROVE  Entry(ino, size, len) \in EntryRecord
BY DEF Entry, EntryRecord

\* A walk along the chain misses no entry.
LEMMA PathIsAll ==
  ASSUME Typed, LedTo
  PROVE  Path = DOMAIN entry
<1>1. ASSUME NEW S \in SUBSET DOMAIN entry, Visits(S) PROVE S = DOMAIN entry
  <2> DEFINE M == DOMAIN entry \ S
  <2> SUFFICES ASSUME M # {} PROVE FALSE
    OBVIOUS
  <2>1. M \subseteq Nat /\ DOMAIN entry \subseteq Nat
    BY DEF Typed
  <2>2. PICK o \in M : \A y \in M : o <= y
    BY <2>1, MinOfNaturals
  <2>3. o # 0
    BY <1>1 DEF Visits
  <2>4. PICK p \in DOMAIN entry : p < o /\ p + entry[p].size = o
    BY <2>3 DEF LedTo
  <2>5. p \in S
    <3>1. o \in Nat /\ p \in Nat
      BY <2>1
    <3>2. ~(o <= p)
      BY <2>4, <3>1
    <3> QED
      BY <2>2, <3>2
  <2> QED
    BY <1>1, <2>4, <2>5 DEF Visits
<1> QED
  BY <1>1 DEF Path

\* The entry that ends the block is the one the loop takes for the last.
LEMMA LastIs ==
  ASSUME Typed, LedTo, NEW t, EndsAt(t)
  PROVE  LastEntry = t
<1>1. BlockSize \in Nat /\ \A o \in DOMAIN entry : o \in Nat /\ o < BlockSize
  BY DirAssumption DEF Typed
<1>2. t \in Path /\ IsLast(t)
  BY <1>1, PathIsAll DEF EndsAt, IsLast
<1>3. ASSUME NEW o \in Path, o # t PROVE ~IsLast(o)
  <2>1. o + entry[o].size \in DOMAIN entry
    BY <1>3, PathIsAll DEF EndsAt
  <2>2. o + entry[o].size \in Nat /\ o + entry[o].size < BlockSize
    BY <1>1, <2>1
  <2> QED
    BY <1>1, <2>2 DEF IsLast
<1> QED
  BY <1>2, <1>3 DEF LastEntry

-----------------------------------------------------------------------------
(***************************************************************************)
(* The invariant                                                           *)
(***************************************************************************)

\* The last entry of the image.
LEMMA LastOfImage ==
  /\ LastOffset \in Old /\ LastOffset > 0
  /\ LastOffset + DiskImage[LastOffset].size = BlockSize
  /\ \A o \in Old : /\ o \in Nat /\ o < BlockSize /\ o <= LastOffset
                    /\ o # LastOffset => o + DiskImage[o].size \in Old
                    /\ o # LastOffset => o + Header + DiskImage[o].len <= LastOffset
                    /\ DiskImage[o].ino \in Nat /\ DiskImage[o].size \in Size
                    /\ DiskImage[o].len \in Nat
<1> DEFINE t == LastOffset
           d == DiskImage
<1>1. BlockSize \in Nat /\ BlockSize <= 32768 /\ ChainOf(d)
  BY DirAssumption
<1>2. t \in Old /\ t + d[t].size = BlockSize
  BY <1>1 DEF ChainOf, LastOffset, Old
<1>3. \A o \in Old : o \in Nat /\ o < BlockSize
  BY <1>1 DEF ChainOf, Old
<1>4. \A o \in Old : /\ d[o].ino \in Nat /\ d[o].len \in Nat /\ d[o].size \in Nat
                     /\ d[o].len > 0 /\ Header + d[o].len <= d[o].size
                     /\ \/ o + d[o].size \in Old
                        \/ o + d[o].size = BlockSize /\ o >= 12 /\ \A p \in Old : p <= o
  <2>1. Old = DOMAIN d
    BY DEF Old
  <2> HIDE DEF d, t
  <2> SUFFICES ASSUME NEW o \in DOMAIN d
               PROVE  /\ d[o].ino \in Nat /\ d[o].len \in Nat /\ d[o].size \in Nat
                      /\ d[o].len > 0 /\ Header + d[o].len <= d[o].size
                      /\ \/ o + d[o].size \in DOMAIN d
                         \/ o + d[o].size = BlockSize /\ o >= 12 /\ \A p \in DOMAIN d : p <= o
    BY <2>1
  <2>2. d[o].ino \in Nat \ {0} /\ d[o].len \in 1 .. 255 /\ d[o].size \in Nat
    BY <1>1 DEF ChainOf
  <2>3. /\ Header + d[o].len <= d[o].size
        /\ \/ o + d[o].size \in DOMAIN d
           \/ o + d[o].size = BlockSize /\ o >= 12 /\ \A p \in DOMAIN d : p <= o
    BY <1>1 DEF ChainOf
  <2> QED
    BY <2>2, <2>3
<1> HIDE DEF t, d
<1>5. t > 0 /\ \A o \in Old : o <= t
  <2>1. t + d[t].size \notin Old
    BY <1>1, <1>2, <1>3
  <2> QED
    BY <1>2, <1>3, <1>4, <2>1
<1>6. ASSUME NEW o \in Old
      PROVE  /\ o # t => o + d[o].size \in Old
             /\ o # t => o + Header + d[o].len <= t
             /\ d[o].size \in Size
  <2>1. o # t => o + d[o].size \in Old
    <3>1. (\A p \in Old : p <= o) => o = t
      BY <1>2, <1>3, <1>5
    <3> QED
      BY <1>4, <3>1
  <2>2. o + d[o].size \in Old \/ o + d[o].size = BlockSize
    BY <1>4
  <2>3. o + d[o].size <= BlockSize
    BY <1>1, <1>3, <1>4, <2>2
  <2>4. d[o].size \in Size
    BY <1>1, <1>3, <1>4, <2>3 DEF Size, Header
  <2>5. o # t => o + Header + d[o].len <= t
    <3>1. o # t => o + d[o].size <= t
      BY <1>5, <2>1
    <3> QED
      BY <1>2, <1>3, <1>4, <3>1 DEF Header
  <2> QED
    BY <2>1, <2>4, <2>5
<1> QED
  BY <1>2, <1>3, <1>4, <1>5, <1>6 DEF t, d

\* The image holds a chain.
LEMMA InitDir == DirInit => DirInv
<1> SUFFICES ASSUME DirInit PROVE DirInv
  OBVIOUS
<1> DEFINE t == LastOffset
           d == DiskImage
<1>1. /\ smashed = FALSE /\ added = <<>> /\ DOMAIN entry = Old
      /\ entry = [o \in Old |-> entry[o]]
      /\ \A o \in Old : entry[o] = Entry(d[o].ino, d[o].size, d[o].len)
  BY DEF DirInit
<1>2. \A o \in Old : /\ entry[o].size = d[o].size /\ entry[o].len = d[o].len
                     /\ entry[o].whole = TRUE
  BY <1>1 DEF Entry
<1>3. BlockSize \in Nat /\ 0 \in Old
  BY DirAssumption DEF ChainOf, Old
<1>4. t \in Old /\ t > 0 /\ t + d[t].size = BlockSize
  BY LastOfImage
<1>5. \A o \in Old : /\ o \in Nat /\ o < BlockSize /\ o <= t
                     /\ o # t => o + d[o].size \in Old
                     /\ o # t => o + Header + d[o].len <= t
                     /\ d[o].ino \in Nat /\ d[o].size \in Size /\ d[o].len \in Nat
  BY LastOfImage
<1>6. Typed
  <2>1. \A o \in Old : entry[o] \in EntryRecord
    BY <1>1, <1>5, EntryIs
  <2>2. Old \subseteq 0 .. BlockSize - 1
    BY <1>3, <1>5
  <2> QED
    BY <1>1, <1>3, <2>1, <2>2 DEF Typed
<1>7. EndsAt(t)
  BY <1>1, <1>2, <1>4, <1>5 DEF EndsAt
<1>8. LedTo
  <2>1. \A o \in Old \ {0} : \E p \in Old : p < o /\ p + d[p].size = o
    BY DirAssumption DEF ChainOf, Old
  <2> QED
    BY <1>1, <1>2, <2>1 DEF LedTo
<1>9. InOrder
  <2>1. New = {}
    BY <1>1 DEF New
  <2>2. added \in Seq([ino : Nat, len : Nat]) /\ Len(added) = 0
    BY <1>1
  <2> QED
    BY <1>1, <2>1, <2>2, FS_EmptySet DEF InOrder
<1>10. NamesKept(t)
  <2>1. \A o : ~Lost(o)
    BY <1>1 DEF Lost
  <2> HIDE DEF d
  <2>2. entry[t].len = DiskImage[t].len
    BY <1>2, <1>4 DEF d
  <2> QED
    BY <1>1, <1>2, <1>5, <2>1, <2>2 DEF NamesKept
<1> QED
  BY <1>1, <1>4, <1>6, <1>7, <1>8, <1>9, <1>10 DEF DirInv

\* Splitting the last entry keeps the chain, as long as the new one fits.
LEMMA AddDir ==
  ASSUME DirInv, ~smashed, NEW len \in NameLengths,
         ext2_add_dir_entry(100 + Len(added), len)
  PROVE  DirInv'
<1> DEFINE t == LastEntry
           d == DOMAIN entry
           ino == 100 + Len(added)
           size == Aligned(Header + len)
           new == NewOffset(t, size)
           split == [entry EXCEPT ![t].size = SplitSize(t, size)]
<1>1. Typed /\ LedTo /\ InOrder /\ EndsAt(t) /\ NamesKept(t)
  BY LastIs DEF DirInv
<1>2. /\ BlockSize \in Nat /\ BlockSize <= 32768 /\ len \in Nat
      /\ size \in Nat /\ size >= Header + len /\ size <= 266
      /\ \A o \in d : o \in Nat /\ o < BlockSize /\ entry[o] \in EntryRecord
      /\ \A o \in d : o <= t /\ entry[o].len \in Nat /\ entry[o].whole \in BOOLEAN
      /\ t \in d /\ t > 0 /\ t + entry[t].size = BlockSize
  <2>1. len \in Nat /\ len < 256 /\ Header + len \in Nat
    BY DirAssumption DEF Header
  <2>2. size \in Nat /\ size >= Header + len /\ size <= 266
    <3>1. size >= Header + len /\ size <= Header + len + 3 /\ size \in Nat
      BY <2>1, AlignedIs
    <3> QED
      BY <2>1, <3>1 DEF Header
  <2>3. \A o \in d : o \in Nat /\ o < BlockSize /\ entry[o] \in EntryRecord
    BY <1>1, DirAssumption DEF Typed
  <2>4. \A o \in d : entry[o].len \in Nat /\ entry[o].whole \in BOOLEAN
    BY <2>3 DEF EntryRecord
  <2> QED
    BY <1>1, <2>1, <2>2, <2>3, <2>4, DirAssumption DEF EndsAt
<1>3. new = t + (t + size) /\ SplitSize(t, size) = t + size
  <2> DEFINE x == t + size
  <2>1. x \in Nat /\ x < 65536
    BY <1>2
  <2>2. SplitSize(t, size) = x % 65536
    BY DEF SplitSize
  <2> HIDE DEF x
  <2>3. x % 65536 = x
    BY <2>1
  <2>4. SplitSize(t, size) = t + size
    BY <2>2, <2>3 DEF x
  <2> QED
    BY <2>4 DEF NewOffset
<1>4. /\ DOMAIN split = d
      /\ \A o \in d : /\ split[o].ino = entry[o].ino /\ split[o].len = entry[o].len
                      /\ split[o].whole = entry[o].whole
                      /\ (o # t => split[o] = entry[o])
      /\ split[t].size = t + size
      /\ (t + size \in Size => \A o \in d : split[o] \in EntryRecord)
  <2>1. DOMAIN split = d
    OBVIOUS
  <2>2. \A o \in d : o # t => split[o] = entry[o]
    OBVIOUS
  <2>3. split[t] = [entry[t] EXCEPT !.size = t + size] /\ entry[t] \in EntryRecord
    BY <1>2, <1>3
  <2>4. /\ split[t].ino = entry[t].ino /\ split[t].len = entry[t].len
        /\ split[t].whole = entry[t].whole /\ split[t].size = t + size
        /\ (t + size \in Size => split[t] \in EntryRecord)
    BY <2>3 DEF EntryRecord
  <2>5. ASSUME NEW o \in d
        PROVE  /\ split[o].ino = entry[o].ino /\ split[o].len = entry[o].len
               /\ split[o].whole = entry[o].whole
               /\ (o # t => split[o] = entry[o])
               /\ (t + size \in Size => split[o] \in EntryRecord)
    <3>1. entry[o] \in EntryRecord
      BY <1>2
    <3> HIDE DEF split, size, t, d
    <3>2. CASE o = t
      BY <2>4, <3>2
    <3>3. CASE o # t
      BY <2>2, <3>1, <3>3
    <3> QED
      BY <3>2, <3>3
  <2> HIDE DEF split, size, t, d
  <2> QED
    BY <2>1, <2>4, <2>5
<1>5. /\ added' = Append(added, [ino |-> ino, len |-> len])
      /\ new + Header + len <= BlockSize =>
           /\ entry' = [o \in d \cup {new} |->
                          IF o = new THEN Entry(ino, Rest(t, size), len)
                          ELSE Overwritten(split, new, Header + len)[o]]
           /\ UNCHANGED smashed
      /\ ~(new + Header + len <= BlockSize) => entry' = split /\ smashed' = TRUE
  BY Zenon DEF ext2_add_dir_entry
<1> HIDE DEF t, d, ino, size, new, split
<1>6. CASE ~(new + Header + len <= BlockSize)
  <2>1. smashed' = TRUE
    BY <1>5, <1>6
  <2> QED
    BY <2>1 DEF DirInv
<1>7. CASE new + Header + len <= BlockSize
  <2>0. PICK last : last = new
    OBVIOUS
  <2>1. new \in Nat /\ new < BlockSize /\ new > t /\ t + size \in Size /\ new \notin d
        /\ Header + len \in Nat
    BY <1>2, <1>3, <1>7 DEF Header, Size
  <2>2. Rest(t, size) = BlockSize - new /\ BlockSize - new \in Size
    <3>1. BlockSize - new \in Size
      BY <1>2, <1>7, <2>1 DEF Header, Size
    <3>2. Rest(t, size) = (entry[t].size - (t + size)) % 65536
      BY <1>3 DEF Rest
    <3>3. entry[t].size - (t + size) = BlockSize - new
      <4> DEFINE last_size == entry[t].size
      <4>1. last_size \in Nat /\ t + last_size = BlockSize /\ t \in Nat /\ size \in Nat
            /\ new = t + (t + size)
        BY <1>2, <1>3 DEF EntryRecord, Size
      <4> HIDE DEF last_size
      <4>2. last_size - (t + size) = BlockSize - new
        BY <4>1, <2>1
      <4> QED
        BY <4>2 DEF last_size
    <3>4. (BlockSize - new) % 65536 = BlockSize - new
      <4> DEFINE x == BlockSize - new
      <4>1. x \in Size
        BY <3>1
      <4> HIDE DEF x
      <4>2. x % 65536 = x
        BY <4>1 DEF Size
      <4> QED
        BY <4>2 DEF x
    <3> QED
      BY <3>1, <3>2, <3>3, <3>4
  <2>3. /\ DOMAIN entry' = d \cup {new}
        /\ entry'[new] = Entry(ino, BlockSize - new, len)
        /\ \A o \in d : /\ entry'[o] \in EntryRecord
                        /\ entry'[o].ino = split[o].ino /\ entry'[o].size = split[o].size
                        /\ entry'[o].len = split[o].len
                        /\ entry'[o].whole <=> entry[o].whole
                                                 /\ o + Header + entry[o].len <= new
    <3> DEFINE over(o) == Overwritten(split, new, Header + len)[o]
    <3>1. entry' = [o \in d \cup {new} |->
                      IF o = new THEN Entry(ino, Rest(t, size), len) ELSE over(o)]
      BY <1>5, <1>7
    <3>2. ASSUME NEW o \in d
          PROVE  /\ over(o) \in EntryRecord
                 /\ over(o).ino = split[o].ino /\ over(o).size = split[o].size
                 /\ over(o).len = split[o].len
                 /\ over(o).whole <=> entry[o].whole /\ o + Header + entry[o].len <= new
      <4>1. over(o) = IF o # new /\ o < new + (Header + len) /\ new < o + Header + split[o].len
                      THEN [split[o] EXCEPT !.whole = FALSE] ELSE split[o]
        BY <1>4 DEF Overwritten
      <4>2. o # new /\ o < new + (Header + len) /\ o \in Nat /\ entry[o].len \in Nat
        BY <1>2, <2>1
      <4>3. split[o] \in EntryRecord /\ split[o].len = entry[o].len
            /\ split[o].whole = entry[o].whole
        BY <1>4, <2>1
      <4> HIDE DEF over
      <4>4. CASE new < o + Header + split[o].len
        <5>1. over(o) = [split[o] EXCEPT !.whole = FALSE]
          BY <4>1, <4>2, <4>4
        <5>2. ~(o + Header + entry[o].len <= new)
          BY <2>1, <4>2, <4>3, <4>4 DEF Header
        <5>3. over(o).whole = FALSE
          BY <4>3, <5>1 DEF EntryRecord
        <5>4. /\ over(o) \in EntryRecord
              /\ over(o).ino = split[o].ino /\ over(o).size = split[o].size
              /\ over(o).len = split[o].len
          BY <4>3, <5>1 DEF EntryRecord
        <5> QED
          BY <5>2, <5>3, <5>4
      <4>5. CASE ~(new < o + Header + split[o].len)
        <5>1. over(o) = split[o]
          BY <4>1, <4>5
        <5>2. o + Header + entry[o].len <= new
          BY <2>1, <4>2, <4>3, <4>5 DEF Header
        <5> QED
          BY <4>3, <5>1, <5>2, Zenon
      <4> QED
        BY <4>4, <4>5
    <3> HIDE DEF over
    <3>3. DOMAIN entry' = d \cup {new} /\ entry'[new] = Entry(ino, BlockSize - new, len)
      BY <2>2, <3>1
    <3>4. ASSUME NEW o \in d PROVE entry'[o] = over(o)
      BY <2>1, <3>1
    <3> QED
      BY <3>2, <3>3, <3>4
  <2>4. /\ entry'[new].ino = ino /\ entry'[new].size = BlockSize - new
        /\ entry'[new].len = len /\ entry'[new].whole = TRUE
    BY <2>3 DEF Entry
  <2>5. ino \in Nat /\ added \in Seq([ino : Nat, len : Nat])
    BY <1>1 DEF InOrder, ino
  <2>6. Typed'
    <3>1. \A o \in d \cup {new} : entry'[o] \in EntryRecord
      <4>1. Entry(ino, BlockSize - new, len) \in EntryRecord
        BY <1>2, <2>2, <2>5, EntryIs
      <4> QED
        BY <2>3, <4>1
    <3>2. entry' \in [DOMAIN entry' -> EntryRecord]
      <4>1. entry' = [o \in DOMAIN entry' |-> entry'[o]]
        BY <1>5, <1>7, <2>3
      <4> QED
        BY <2>3, <3>1, <4>1
    <3>3. d \cup {new} \subseteq 0 .. BlockSize - 1 /\ 0 \in d
      BY <1>1, <1>2, <2>1 DEF Typed, d
    <3> QED
      BY <2>3, <3>2, <3>3 DEF Typed
  <2>7. EndsAt(last)'
    <3>1. new + entry'[new].size = BlockSize /\ new > 0 /\ new <= new
      BY <1>2, <2>1, <2>4
    <3>2. ASSUME NEW o \in d PROVE o <= new /\ o + entry'[o].size \in d \cup {new}
      <4>1. o <= new
        BY <1>2, <2>1
      <4>2. o # t => o + entry[o].size \in d
        BY <1>1 DEF EndsAt, d
      <4>3. t + split[t].size = new
        BY <1>3, <1>4
      <4> QED
        BY <1>4, <2>3, <4>1, <4>2, <4>3
    <3>3. /\ last \in DOMAIN entry' /\ last > 0 /\ last + entry'[last].size = BlockSize
          /\ \A o \in DOMAIN entry' :
               /\ o <= last
               /\ o # last => o + entry'[o].size \in DOMAIN entry'
      BY <2>0, <2>3, <3>1, <3>2
    <3> HIDE DEF d
    <3> QED
      BY <3>3 DEF EndsAt
  <2>8. LedTo'
    <3> SUFFICES ASSUME NEW o \in DOMAIN entry', o # 0
                 PROVE  \E p \in DOMAIN entry' : p < o /\ p + entry'[p].size = o
      BY DEF LedTo
    <3>1. CASE o = new
      <4>1. t \in DOMAIN entry' /\ t < o
        BY <1>2, <2>1, <2>3, <3>1
      <4>2. entry'[t].size = t + size
        BY <1>2, <1>4, <2>3
      <4> QED
        BY <1>3, <3>1, <4>1, <4>2
    <3>2. CASE o \in d
      <4>1. PICK p \in d : p < o /\ p + entry[p].size = o
        BY <1>1, <3>2 DEF LedTo, d
      <4>2. p # t
        BY <1>2, <3>2, <4>1
      <4>3. entry'[p].size = entry[p].size /\ p \in DOMAIN entry'
        BY <1>4, <2>3, <4>2
      <4> QED
        BY <4>1, <4>3
    <3> QED
      BY <2>3, <3>1, <3>2
  <2>9. InOrder'
    <3> DEFINE rec == [ino |-> ino, len |-> len]
    <3>1. rec \in [ino : Nat, len : Nat]
      BY <1>2, <2>5
    <3> HIDE DEF rec
    <3>2. /\ added' \in Seq([ino : Nat, len : Nat]) /\ Len(added') = Len(added) + 1
          /\ Len(added) \in Nat
          /\ \A n \in 1 .. Len(added) : added'[n] = added[n]
          /\ added'[Len(added) + 1] = rec
      BY <1>5, <2>5, <3>1 DEF rec
    <3>3. Old \subseteq d /\ new \notin Old
      BY <1>1, <2>1 DEF InOrder, d
    <3>4. New' = New \cup {new} /\ new \notin New /\ \A p \in New : p \in d /\ p < new
      <4>1. \A p \in d : p < new
        BY <1>2, <2>1
      <4> QED
        BY <2>1, <2>3, <3>3, <4>1 DEF New, d
    <3>5. IsFiniteSet(New)
      <4>1. IsFiniteSet(0 .. BlockSize - 1)
        BY <1>2, FS_Interval
      <4>2. New \subseteq 0 .. BlockSize - 1
        BY <1>1 DEF New, Typed
      <4> QED
        BY <4>1, <4>2, FS_Subset
    <3>6. Cardinality(New') = Len(added')
      BY <1>1, <3>2, <3>4, <3>5, FS_AddElement DEF InOrder
    <3>7. Place(new, New') = Len(added)
      <4>1. {p \in New' : p < new} = New
        <5>1. ~(new < new)
          BY <2>1
        <5> QED
          BY <3>4, <5>1
      <4> QED
        BY <1>1, <4>1 DEF Place, InOrder
    <3>8. \A o \in New : Place(o, New') = Place(o, New)
      <4> TAKE o \in New
      <4>1. ~(new < o)
        BY <1>2, <2>1, <3>4
      <4>2. {p \in New' : p < o} = {p \in New : p < o}
        BY <3>4, <4>1
      <4> QED
        BY <4>2 DEF Place
    <3>9. ASSUME NEW o \in New'
          PROVE  LET n == Place(o, New') + 1
                 IN  n \in 1 .. Len(added') /\ entry'[o].ino = added'[n].ino
                                            /\ entry'[o].len = added'[n].len
      <4>1. CASE o = new
        <5>1. Place(o, New') + 1 = Len(added) + 1
          BY <3>7, <4>1
        <5>2. added'[Len(added) + 1].ino = ino /\ added'[Len(added) + 1].len = len
          BY <3>2 DEF rec
        <5> QED
          BY <2>4, <3>2, <4>1, <5>1, <5>2
      <4>2. CASE o \in New
        <5> DEFINE n == Place(o, New) + 1
        <5>1. n \in 1 .. Len(added) /\ entry[o].ino = added[n].ino /\ entry[o].len = added[n].len
          BY <1>1, <4>2 DEF InOrder
        <5>2. Place(o, New') + 1 = n
          BY <3>8, <4>2
        <5>3. entry'[o].ino = entry[o].ino /\ entry'[o].len = entry[o].len
          BY <1>4, <2>3, <3>4, <4>2
        <5> HIDE DEF n
        <5>4. n \in 1 .. Len(added') /\ added'[n] = added[n]
          BY <3>2, <5>1
        <5> QED
          BY <5>1, <5>2, <5>3, <5>4
      <4> QED
        BY <3>4, <4>1, <4>2
    <3>10. (Old \subseteq DOMAIN entry)'
      BY <2>3, <3>3 DEF Old
    <3> QED
      BY <3>2, <3>6, <3>9, <3>10 DEF InOrder, Place
  <2>10. NamesKept(last)'
    <3>1. /\ LastOffset \in Old /\ LastOffset \in d /\ LastOffset # new
          /\ DiskImage[LastOffset].len \in Nat
      BY <1>1, <2>1, LastOfImage DEF InOrder, d
    <3>2. /\ added' # <<>> /\ added'[1].len = IF added = <<>> THEN len ELSE added[1].len
          /\ added # <<>> => added'[1] = added[1]
      <4>1. added' = Append(added, [ino |-> ino, len |-> len])
            /\ added \in Seq([ino : Nat, len : Nat]) /\ ino \in Nat
        BY <1>5, <2>5
      <4>2. CASE added = <<>>
        BY <4>1, <4>2
      <4>3. CASE added # <<>>
        <5>1. Len(added) >= 1 /\ Len(added) \in Nat
          BY <4>1, <4>3
        <5> QED
          BY <4>1, <4>3, <5>1
      <4> QED
        BY <4>2, <4>3
    <3>3. \A o : Lost(o)' <=> /\ o = LastOffset
                              /\ LastOffset + Aligned(Header + added'[1].len)
                                   < Header + DiskImage[LastOffset].len
      BY <3>2 DEF Lost, LastOffset, Old, Aligned, Header
    <3>4. added # <<>> => \A o : Lost(o)' <=> Lost(o)
      BY <3>2, <3>3 DEF Lost
    <3>5. ASSUME NEW o \in d
          PROVE  /\ entry'[o].whole <=> ~Lost(o)'
                 /\ entry'[o].whole => o + Header + entry'[o].len <= new
      <4>1. entry'[o].len = entry[o].len /\ o \in Nat /\ entry[o].len \in Nat /\ t \in Nat
        BY <1>2, <1>4, <2>3
      <4>2. entry[o].whole <=> ~Lost(o)
        BY <1>1 DEF NamesKept, d
      <4>3. entry'[o].whole <=> entry[o].whole /\ o + Header + entry[o].len <= new
        BY <2>3
      <4>4. CASE o # t
        <5>1. entry[o].whole => o + Header + entry[o].len <= t
          BY <1>1, <4>4 DEF NamesKept, d
        <5>2. entry[o].whole => o + Header + entry[o].len <= new
          BY <2>1, <4>1, <5>1 DEF Header
        <5>3. Lost(o)' <=> Lost(o)
          <6>1. CASE added # <<>>
            BY <3>4, <6>1
          <6>2. CASE added = <<>>
            <7>1. o # LastOffset
              BY <1>1, <4>4, <6>2 DEF NamesKept
            <7> QED
              BY <3>3, <7>1 DEF Lost
          <6> QED
            BY <6>1, <6>2
        <5> QED
          BY <4>1, <4>2, <4>3, <5>2, <5>3
      <4>5. CASE o = t /\ added # <<>>
        <5>1. t # LastOffset /\ Header + entry[t].len <= t
          BY <1>1, <4>5 DEF NamesKept
        <5>2. o + Header + entry[o].len <= new
          BY <1>2, <1>3, <4>1, <4>5, <5>1 DEF Header
        <5>3. ~Lost(o) /\ ~Lost(o)'
          BY <3>3, <4>5, <5>1 DEF Lost
        <5> QED
          BY <4>1, <4>2, <4>3, <5>2, <5>3
      <4>6. CASE o = t /\ added = <<>>
        <5>1. t = LastOffset /\ entry[t].len = DiskImage[t].len
          BY <1>1, <4>6 DEF NamesKept
        <5>2. ~Lost(o)
          BY <4>6 DEF Lost
        <5>3. Aligned(Header + added'[1].len) = size
          BY <3>2, <4>6 DEF size
        <5>4. Lost(o)' <=> t + size < Header + entry[t].len
          BY <3>3, <4>6, <5>1, <5>3
        <5>5. o + Header + entry[o].len <= new <=> ~(t + size < Header + entry[t].len)
          BY <1>2, <1>3, <4>1, <4>6 DEF Header
        <5> QED
          BY <4>1, <4>2, <4>3, <5>2, <5>4, <5>5
      <4> QED
        BY <4>4, <4>5, <4>6
    <3>6. entry'[last].whole /\ ~Lost(last)'
      BY <2>0, <2>4, <3>1, <3>3
    <3>7. Header + entry'[last].len <= last /\ LastOffset # last
      BY <1>2, <1>3, <2>0, <2>4, <3>1 DEF Header
    <3>8. \A o \in DOMAIN entry' : entry'[o].whole <=> ~Lost(o)'
      BY <2>0, <2>3, <3>5, <3>6
    <3>9. \A o \in DOMAIN entry' \ {last} : entry'[o].whole => o + Header + entry'[o].len <= last
      BY <2>0, <2>3, <3>5
    <3> QED
      BY <3>2, <3>7, <3>8, <3>9 DEF NamesKept, LastOffset, Old, Header
  <2>11. smashed' = smashed
    BY <1>5, <1>7
  <2>12. (\E o \in DOMAIN entry : EndsAt(o) /\ NamesKept(o))'
    BY <2>0, <2>3, <2>7, <2>10
  <2> QED
    BY <2>6, <2>8, <2>9, <2>11, <2>12 DEF DirInv
<1> QED
  BY <1>6, <1>7

\* Every other step leaves the directory alone.
LEMMA NextDir ==
  ASSUME DirInv, [DirNext]_dirVars
  PROVE  DirInv'
<1>1. CASE UNCHANGED dirVars
  BY <1>1 DEF dirVars, DirInv, NamesKept, Lost, Typed, EndsAt, LedTo, InOrder, New, Place
<1>2. ASSUME NEW len \in NameLengths, ext2_add_dir_entry(100 + Len(added), len) PROVE DirInv'
  <2>1. ~smashed
    BY <1>2 DEF ext2_add_dir_entry
  <2> QED
    BY <1>2, <2>1, AddDir
<1>3. CASE DirectoryFull
  BY <1>1, <1>3 DEF DirectoryFull
<1>4. CASE Smashed
  BY <1>1, <1>4 DEF Smashed
<1> QED
  BY <1>1, <1>2, <1>3, <1>4 DEF DirNext

LEMMA DirInvHolds == DirSpec => []DirInv
BY InitDir, NextDir, PTL DEF DirSpec

-----------------------------------------------------------------------------
(***************************************************************************)
(* The properties                                                          *)
(***************************************************************************)

\* However many entries are added and wherever they are split off, the chain is never
\* broken while the buffer is intact: ext2_add_dir_entry leaves every entry inside the
\* block and the last one ending where the block ends.
THEOREM ChainCoversBlockHolds == DirSpec => []ChainCoversBlock
<1>1. DirInv => ChainCoversBlock
  <2> SUFFICES ASSUME DirInv, ~smashed
               PROVE  /\ \A o \in Path : o + entry[o].size <= BlockSize
                      /\ \E o \in Path : o + entry[o].size = BlockSize
    BY DEF ChainCoversBlock
  <2>1. PICK t \in DOMAIN entry : EndsAt(t)
    BY DEF DirInv
  <2>2. Typed /\ Path = DOMAIN entry
    BY PathIsAll DEF DirInv
  <2>3. /\ BlockSize \in Nat /\ \A o \in DOMAIN entry : o \in Nat /\ o < BlockSize
    BY <2>2, DirAssumption DEF Typed
  <2>4. ASSUME NEW o \in DOMAIN entry PROVE o + entry[o].size <= BlockSize
    <3>1. CASE o = t
      BY <2>1, <2>3, <3>1 DEF EndsAt
    <3>2. CASE o # t
      <4>1. o + entry[o].size \in DOMAIN entry
        BY <2>1, <3>2 DEF EndsAt
      <4> QED
        BY <2>3, <4>1
    <3> QED
      BY <3>1, <3>2
  <2> QED
    BY <2>1, <2>2, <2>4 DEF EndsAt
<1> QED
  BY <1>1, DirInvHolds, PTL

\* While the buffer is intact, ext2_add_dir_entry stores into no name but the last one of
\* the image, and into that one exactly when the first new entry is split off in front of
\* its end: whatever the image holds and whatever is added, every other name is kept.
THEOREM NamesAreWholeHolds == DirSpec => []NamesAreWhole
<1>1. DirInv => NamesAreWhole
  BY DEF DirInv, NamesKept, NamesAreWhole
<1> QED
  BY <1>1, DirInvHolds, PTL

\* What ext2_add_dir_entry stores, ext2_list_directory finds: each entry once, with its
\* inode and its name, in the order of the calls, and all of them when no more than
\* MAX_SUBDIRS entries are in the block.
THEOREM ListsWhatWasAddedHolds == DirSpec => []ListsWhatWasAdded
<1>1. DirInv => ListsWhatWasAdded
  <2> SUFFICES ASSUME DirInv, ~smashed
               PROVE  /\ Cardinality(Path) <= MaxSubdirs => Cardinality(ListedNew) = Len(added)
                      /\ \A o \in ListedNew : LET n == Place(o, ListedNew) + 1
                                           IN  /\ n \in DOMAIN added
                                               /\ entry[o].ino = added[n].ino
                                               /\ entry[o].len = added[n].len
    BY DEF ListsWhatWasAdded
  <2>1. Typed /\ InOrder /\ Path = DOMAIN entry
    BY PathIsAll DEF DirInv
  <2>2. ListedNew = {o \in New : Place(o, DOMAIN entry) < MaxSubdirs}
    BY <2>1 DEF ListedNew, ext2_list_directory, New
  <2>3. /\ DOMAIN entry \subseteq Nat /\ IsFiniteSet(DOMAIN entry)
    <3>1. BlockSize \in Nat
      BY DirAssumption
    <3>2. IsFiniteSet(0 .. BlockSize - 1)
      BY <3>1, FS_Interval
    <3> QED
      BY <2>1, <3>1, <3>2, FS_Subset DEF Typed
  <2>4. ASSUME NEW o \in DOMAIN entry, NEW p \in DOMAIN entry, p < o
        PROVE  Place(p, DOMAIN entry) <= Place(o, DOMAIN entry)
    <3> DEFINE S(q) == {r \in DOMAIN entry : r < q}
    <3>1. S(p) \subseteq S(o)
      BY <2>3, <2>4
    <3>2. IsFiniteSet(S(o))
      BY <2>3, FS_Subset
    <3>3. Cardinality(S(p)) <= Cardinality(S(o))
      BY <3>1, <3>2, FS_Subset
    <3> QED
      BY <3>3 DEF Place
  <2>5. ASSUME NEW o \in DOMAIN entry PROVE Place(o, DOMAIN entry) \in Nat
    <3>1. IsFiniteSet({r \in DOMAIN entry : r < o})
      BY <2>3, FS_Subset
    <3> QED
      BY <3>1, FS_CardinalityType DEF Place
  <2>6. ASSUME NEW o \in ListedNew PROVE Place(o, ListedNew) = Place(o, New)
    <3>1. {p \in ListedNew : p < o} = {p \in New : p < o}
      <4>1. o \in DOMAIN entry /\ Place(o, DOMAIN entry) < MaxSubdirs
        BY <2>2, <2>6 DEF New
      <4>2. ASSUME NEW p \in New, p < o PROVE p \in ListedNew
        <5>1. p \in DOMAIN entry
          BY DEF New
        <5> QED
          BY <2>2, <2>4, <2>5, <4>1, <4>2, <5>1, DirAssumption
      <4> QED
        BY <2>2, <4>2
    <3> QED
      BY <3>1 DEF Place
  <2>7. ASSUME Cardinality(Path) <= MaxSubdirs PROVE ListedNew = New
    <3> SUFFICES ASSUME NEW o \in New PROVE Place(o, DOMAIN entry) < MaxSubdirs
      BY <2>2
    <3> DEFINE before == {p \in DOMAIN entry : p < o}
    <3>1. o \in DOMAIN entry /\ o \in Nat /\ ~(o < o)
      BY <2>3 DEF New
    <3>2. before \subseteq DOMAIN entry /\ before # DOMAIN entry
      BY <3>1
    <3>3. /\ Cardinality(before) < Cardinality(DOMAIN entry)
          /\ Cardinality(before) \in Nat /\ Cardinality(DOMAIN entry) \in Nat
      BY <2>3, <3>2, FS_Subset, FS_CardinalityType
    <3> QED
      BY <2>1, <2>7, <3>3, DirAssumption DEF Place
  <2>8. \A o \in ListedNew : LET n == Place(o, ListedNew) + 1
                          IN  /\ n \in DOMAIN added
                              /\ entry[o].ino = added[n].ino
                              /\ entry[o].len = added[n].len
    <3> TAKE o \in ListedNew
    <3>1. o \in New /\ Place(o, ListedNew) = Place(o, New)
      BY <2>2, <2>6
    <3>2. DOMAIN added = 1 .. Len(added)
      BY <2>1 DEF InOrder
    <3> QED
      BY <2>1, <3>1, <3>2 DEF InOrder
  <2> QED
    BY <2>1, <2>7, <2>8 DEF InOrder
<1> QED
  BY <1>1, DirInvHolds, PTL

-----------------------------------------------------------------------------
(***************************************************************************)
(* Paths.  First what the recursive functions of Ext2Path yield, one step  *)
(* at a time.                                                              *)
(***************************************************************************)
\* The loops that the recursive functions are.
LEMMA PiecesAre ==
  ASSUME NEW path, Len(path) \in Nat
  PROVE  LET f == Pieces(path)
         IN  /\ f[0] = << <<>> >>
             /\ \A n \in 1 .. Len(path) : f[n] = AddChar(f[n - 1], path[n])
<1> DEFINE N == Len(path)
           start == << <<>> >>
           Step(v, n) == AddChar(v, path[n])
           Is(f) == f = [n \in 0 .. N |-> IF n = 0 THEN start ELSE Step(f[n - 1], n)]
<1>1. N \in Nat
  OBVIOUS
<1>2. Pieces(path) = CHOOSE f : Is(f)
  BY DEF Pieces
<1> HIDE DEF N, start, Step
<1> DEFINE Runs(g, m) == \A n \in 0 .. m : g[n] = IF n = 0 THEN start ELSE Step(g[n - 1], n)
           Reached == {m \in 0 .. N : \E g : Runs(g, m)}
<1>3. 0 \in Reached
  <2>1. Runs([n \in 0 .. 0 |-> start], 0)
    OBVIOUS
  <2> HIDE DEF Runs
  <2> QED
    BY <1>1, <2>1
<1>4. ASSUME NEW m \in 0 .. N - 1, m \in Reached PROVE m + 1 \in Reached
  <2>1. PICK g : Runs(g, m)
    <3> HIDE DEF Runs
    <3> QED
      BY <1>4
  <2> DEFINE h == [n \in 0 .. m + 1 |-> IF n = m + 1 THEN Step(g[m], m + 1) ELSE g[n]]
  <2>2. Runs(h, m + 1)
    BY <1>1, <2>1
  <2> HIDE DEF Runs, h
  <2> QED
    BY <1>1, <2>2
<1>5. N \in Reached
  <2> HIDE DEF Reached
  <2>1. \A m \in 0 .. N - 1 : m \in Reached => m + 1 \in Reached
    BY <1>4
  <2>2. 0 \in Nat /\ 0 <= N
    BY <1>1
  <2>3. \A m \in 0 .. N : m \in Reached
    BY <1>1, <1>3, <2>1, <2>2, Induction
  <2> QED
    BY <1>1, <2>3
<1>6. PICK g : Runs(g, N)
  <2> HIDE DEF Runs
  <2> QED
    BY <1>5
<1> DEFINE h == [n \in 0 .. N |-> g[n]]
<1>7. Is(h)
  BY <1>1, <1>6
<1>8. Is(Pieces(path))
  <2> HIDE DEF Is, h
  <2> QED
    BY <1>2, <1>7
<1>9. /\ (Pieces(path))[0] = start
      /\ \A n \in 1 .. N : (Pieces(path))[n] = Step((Pieces(path))[n - 1], n)
  BY <1>1, <1>8
<1> QED
  BY <1>9 DEF N, start, Step

\* unpack_dir_path, character by character.
LEMMA UnpackingIs ==
  ASSUME NEW rows, NEW path, Len(path) \in Nat
  PROVE  LET f == Unpacking(rows, path)
         IN  /\ f[0] = [j |-> 0, k |-> 0, rows |-> rows]
             /\ \A n \in 1 .. Len(path) : f[n] = UnpackChar(f[n - 1], path[n])
<1> DEFINE N == Len(path)
           start == [j |-> 0, k |-> 0, rows |-> rows]
           Step(v, n) == UnpackChar(v, path[n])
           Is(f) == f = [n \in 0 .. N |-> IF n = 0 THEN start ELSE Step(f[n - 1], n)]
<1>1. N \in Nat
  OBVIOUS
<1>2. Unpacking(rows, path) = CHOOSE f : Is(f)
  BY DEF Unpacking
<1> HIDE DEF N, start, Step
<1> DEFINE Runs(g, m) == \A n \in 0 .. m : g[n] = IF n = 0 THEN start ELSE Step(g[n - 1], n)
           Reached == {m \in 0 .. N : \E g : Runs(g, m)}
<1>3. 0 \in Reached
  <2>1. Runs([n \in 0 .. 0 |-> start], 0)
    OBVIOUS
  <2> HIDE DEF Runs
  <2> QED
    BY <1>1, <2>1
<1>4. ASSUME NEW m \in 0 .. N - 1, m \in Reached PROVE m + 1 \in Reached
  <2>1. PICK g : Runs(g, m)
    <3> HIDE DEF Runs
    <3> QED
      BY <1>4
  <2> DEFINE h == [n \in 0 .. m + 1 |-> IF n = m + 1 THEN Step(g[m], m + 1) ELSE g[n]]
  <2>2. Runs(h, m + 1)
    BY <1>1, <2>1
  <2> HIDE DEF Runs, h
  <2> QED
    BY <1>1, <2>2
<1>5. N \in Reached
  <2> HIDE DEF Reached
  <2>1. \A m \in 0 .. N - 1 : m \in Reached => m + 1 \in Reached
    BY <1>4
  <2>2. 0 \in Nat /\ 0 <= N
    BY <1>1
  <2>3. \A m \in 0 .. N : m \in Reached
    BY <1>1, <1>3, <2>1, <2>2, Induction
  <2> QED
    BY <1>1, <2>3
<1>6. PICK g : Runs(g, N)
  <2> HIDE DEF Runs
  <2> QED
    BY <1>5
<1> DEFINE h == [n \in 0 .. N |-> g[n]]
<1>7. Is(h)
  BY <1>1, <1>6
<1>8. Is(Unpacking(rows, path))
  <2> HIDE DEF Is, h
  <2> QED
    BY <1>2, <1>7
<1>9. /\ (Unpacking(rows, path))[0] = start
      /\ \A n \in 1 .. N : (Unpacking(rows, path))[n] = Step((Unpacking(rows, path))[n - 1], n)
  BY <1>1, <1>8
<1> QED
  BY <1>9 DEF N, start, Step

\* The loop over the components.
LEMMA FollowingIs ==
  ASSUME NEW t, NEW entries, NEW u, NEW stops, u.depth - 1 \in Nat
  PROVE  LET f == Following(t, entries, u, stops)
         IN  /\ f[0] = [entries |-> entries, ino |-> Root, stuck |-> FALSE]
             /\ \A n \in 1 .. u.depth - 1 : f[n] = Follow(t, f[n - 1], u.rows[n], stops)
<1> DEFINE N == u.depth - 1
           start == [entries |-> entries, ino |-> Root, stuck |-> FALSE]
           Step(v, n) == Follow(t, v, u.rows[n], stops)
           Is(f) == f = [n \in 0 .. N |-> IF n = 0 THEN start ELSE Step(f[n - 1], n)]
<1>1. N \in Nat
  OBVIOUS
<1>2. Following(t, entries, u, stops) = CHOOSE f : Is(f)
  BY DEF Following
<1> HIDE DEF N, start, Step
<1> DEFINE Runs(g, m) == \A n \in 0 .. m : g[n] = IF n = 0 THEN start ELSE Step(g[n - 1], n)
           Reached == {m \in 0 .. N : \E g : Runs(g, m)}
<1>3. 0 \in Reached
  <2>1. Runs([n \in 0 .. 0 |-> start], 0)
    OBVIOUS
  <2> HIDE DEF Runs
  <2> QED
    BY <1>1, <2>1
<1>4. ASSUME NEW m \in 0 .. N - 1, m \in Reached PROVE m + 1 \in Reached
  <2>1. PICK g : Runs(g, m)
    <3> HIDE DEF Runs
    <3> QED
      BY <1>4
  <2> DEFINE h == [n \in 0 .. m + 1 |-> IF n = m + 1 THEN Step(g[m], m + 1) ELSE g[n]]
  <2>2. Runs(h, m + 1)
    BY <1>1, <2>1
  <2> HIDE DEF Runs, h
  <2> QED
    BY <1>1, <2>2
<1>5. N \in Reached
  <2> HIDE DEF Reached
  <2>1. \A m \in 0 .. N - 1 : m \in Reached => m + 1 \in Reached
    BY <1>4
  <2>2. 0 \in Nat /\ 0 <= N
    BY <1>1
  <2>3. \A m \in 0 .. N : m \in Reached
    BY <1>1, <1>3, <2>1, <2>2, Induction
  <2> QED
    BY <1>1, <2>3
<1>6. PICK g : Runs(g, N)
  <2> HIDE DEF Runs
  <2> QED
    BY <1>5
<1> DEFINE h == [n \in 0 .. N |-> g[n]]
<1>7. Is(h)
  BY <1>1, <1>6
<1>8. Is(Following(t, entries, u, stops))
  <2> HIDE DEF Is, h
  <2> QED
    BY <1>2, <1>7
<1>9. /\ (Following(t, entries, u, stops))[0] = start
      /\ \A n \in 1 .. N : (Following(t, entries, u, stops))[n] = Step((Following(t, entries, u, stops))[n - 1], n)
  BY <1>1, <1>8
<1> QED
  BY <1>9 DEF N, start, Step

\* The reference, name by name.
LEMMA ResolvingIs ==
  ASSUME NEW t, NEW names, Len(names) \in Nat
  PROVE  LET f == Resolving(t, names)
         IN  /\ f[0] = [ino |-> Root, lost |-> FALSE]
             /\ \A n \in 1 .. Len(names) : f[n] = Resolve(t, f[n - 1], names[n])
<1> DEFINE N == Len(names)
           start == [ino |-> Root, lost |-> FALSE]
           Step(v, n) == Resolve(t, v, names[n])
           Is(f) == f = [n \in 0 .. N |-> IF n = 0 THEN start ELSE Step(f[n - 1], n)]
<1>1. N \in Nat
  OBVIOUS
<1>2. Resolving(t, names) = CHOOSE f : Is(f)
  BY DEF Resolving
<1> HIDE DEF N, start, Step
<1> DEFINE Runs(g, m) == \A n \in 0 .. m : g[n] = IF n = 0 THEN start ELSE Step(g[n - 1], n)
           Reached == {m \in 0 .. N : \E g : Runs(g, m)}
<1>3. 0 \in Reached
  <2>1. Runs([n \in 0 .. 0 |-> start], 0)
    OBVIOUS
  <2> HIDE DEF Runs
  <2> QED
    BY <1>1, <2>1
<1>4. ASSUME NEW m \in 0 .. N - 1, m \in Reached PROVE m + 1 \in Reached
  <2>1. PICK g : Runs(g, m)
    <3> HIDE DEF Runs
    <3> QED
      BY <1>4
  <2> DEFINE h == [n \in 0 .. m + 1 |-> IF n = m + 1 THEN Step(g[m], m + 1) ELSE g[n]]
  <2>2. Runs(h, m + 1)
    BY <1>1, <2>1
  <2> HIDE DEF Runs, h
  <2> QED
    BY <1>1, <2>2
<1>5. N \in Reached
  <2> HIDE DEF Reached
  <2>1. \A m \in 0 .. N - 1 : m \in Reached => m + 1 \in Reached
    BY <1>4
  <2>2. 0 \in Nat /\ 0 <= N
    BY <1>1
  <2>3. \A m \in 0 .. N : m \in Reached
    BY <1>1, <1>3, <2>1, <2>2, Induction
  <2> QED
    BY <1>1, <2>3
<1>6. PICK g : Runs(g, N)
  <2> HIDE DEF Runs
  <2> QED
    BY <1>5
<1> DEFINE h == [n \in 0 .. N |-> g[n]]
<1>7. Is(h)
  BY <1>1, <1>6
<1>8. Is(Resolving(t, names))
  <2> HIDE DEF Is, h
  <2> QED
    BY <1>2, <1>7
<1>9. /\ (Resolving(t, names))[0] = start
      /\ \A n \in 1 .. N : (Resolving(t, names))[n] = Step((Resolving(t, names))[n - 1], n)
  BY <1>1, <1>8
<1> QED
  BY <1>9 DEF N, start, Step

\* The inodes that names beginning like the components lead to, level by level.
LEMMA LevelIs ==
  ASSUME NEW names, Len(names) \in Nat
  PROVE  LET f == Level(names)
         IN  /\ f[0] = {Root}
             /\ \A n \in 1 .. Len(names) : f[n] = NextLevel(f[n - 1], names, n)
<1> DEFINE N == Len(names)
           start == {Root}
           Step(v, n) == NextLevel(v, names, n)
           Is(f) == f = [n \in 0 .. N |-> IF n = 0 THEN start ELSE Step(f[n - 1], n)]
<1>1. N \in Nat
  OBVIOUS
<1>2. Level(names) = CHOOSE f : Is(f)
  BY DEF Level
<1> HIDE DEF N, start, Step
<1> DEFINE Runs(g, m) == \A n \in 0 .. m : g[n] = IF n = 0 THEN start ELSE Step(g[n - 1], n)
           Reached == {m \in 0 .. N : \E g : Runs(g, m)}
<1>3. 0 \in Reached
  <2>1. Runs([n \in 0 .. 0 |-> start], 0)
    OBVIOUS
  <2> HIDE DEF Runs
  <2> QED
    BY <1>1, <2>1
<1>4. ASSUME NEW m \in 0 .. N - 1, m \in Reached PROVE m + 1 \in Reached
  <2>1. PICK g : Runs(g, m)
    <3> HIDE DEF Runs
    <3> QED
      BY <1>4
  <2> DEFINE h == [n \in 0 .. m + 1 |-> IF n = m + 1 THEN Step(g[m], m + 1) ELSE g[n]]
  <2>2. Runs(h, m + 1)
    BY <1>1, <2>1
  <2> HIDE DEF Runs, h
  <2> QED
    BY <1>1, <2>2
<1>5. N \in Reached
  <2> HIDE DEF Reached
  <2>1. \A m \in 0 .. N - 1 : m \in Reached => m + 1 \in Reached
    BY <1>4
  <2>2. 0 \in Nat /\ 0 <= N
    BY <1>1
  <2>3. \A m \in 0 .. N : m \in Reached
    BY <1>1, <1>3, <2>1, <2>2, Induction
  <2> QED
    BY <1>1, <2>3
<1>6. PICK g : Runs(g, N)
  <2> HIDE DEF Runs
  <2> QED
    BY <1>5
<1> DEFINE h == [n \in 0 .. N |-> g[n]]
<1>7. Is(h)
  BY <1>1, <1>6
<1>8. Is(Level(names))
  <2> HIDE DEF Is, h
  <2> QED
    BY <1>2, <1>7
<1>9. /\ (Level(names))[0] = start
      /\ \A n \in 1 .. N : (Level(names))[n] = Step((Level(names))[n - 1], n)
  BY <1>1, <1>8
<1> QED
  BY <1>9 DEF N, start, Step

\* strncat, component by component.
Behind(s, t) == s \o t

LEMMA JoinedIs ==
  ASSUME NEW buf, NEW rows, NEW count \in Nat
  PROVE  LET f == Joined(buf, rows, count)
         IN  /\ f[0] = Str(buf)
             /\ \A n \in 1 .. count : f[n] = Behind(f[n - 1], Str(rows[n - 1]))
<1> DEFINE N == count
           start == Str(buf)
           Step(v, n) == Behind(v, Str(rows[n - 1]))
           Is(f) == f = [n \in 0 .. N |-> IF n = 0 THEN start ELSE Step(f[n - 1], n)]
<1>1. N \in Nat
  OBVIOUS
<1>2. Joined(buf, rows, count) = CHOOSE f : Is(f)
  BY DEF Joined, Behind
<1> HIDE DEF N, start, Step
<1> DEFINE Runs(g, m) == \A n \in 0 .. m : g[n] = IF n = 0 THEN start ELSE Step(g[n - 1], n)
           Reached == {m \in 0 .. N : \E g : Runs(g, m)}
<1>3. 0 \in Reached
  <2>1. Runs([n \in 0 .. 0 |-> start], 0)
    OBVIOUS
  <2> HIDE DEF Runs
  <2> QED
    BY <1>1, <2>1
<1>4. ASSUME NEW m \in 0 .. N - 1, m \in Reached PROVE m + 1 \in Reached
  <2>1. PICK g : Runs(g, m)
    <3> HIDE DEF Runs
    <3> QED
      BY <1>4
  <2> DEFINE h == [n \in 0 .. m + 1 |-> IF n = m + 1 THEN Step(g[m], m + 1) ELSE g[n]]
  <2>2. Runs(h, m + 1)
    BY <1>1, <2>1
  <2> HIDE DEF Runs, h
  <2> QED
    BY <1>1, <2>2
<1>5. N \in Reached
  <2> HIDE DEF Reached
  <2>1. \A m \in 0 .. N - 1 : m \in Reached => m + 1 \in Reached
    BY <1>4
  <2>2. 0 \in Nat /\ 0 <= N
    BY <1>1
  <2>3. \A m \in 0 .. N : m \in Reached
    BY <1>1, <1>3, <2>1, <2>2, Induction
  <2> QED
    BY <1>1, <2>3
<1>6. PICK g : Runs(g, N)
  <2> HIDE DEF Runs
  <2> QED
    BY <1>5
<1> DEFINE h == [n \in 0 .. N |-> g[n]]
<1>7. Is(h)
  BY <1>1, <1>6
<1>8. Is(Joined(buf, rows, count))
  <2> HIDE DEF Is, h
  <2> QED
    BY <1>2, <1>7
<1>9. /\ (Joined(buf, rows, count))[0] = start
      /\ \A n \in 1 .. N : (Joined(buf, rows, count))[n] = Step((Joined(buf, rows, count))[n - 1], n)
  BY <1>1, <1>8
<1> QED
  BY <1>9 DEF N, start, Step

-----------------------------------------------------------------------------
(***************************************************************************)
(* unpack_dir_path against the pieces of a path.                           *)
(***************************************************************************)
\* What names are made of.
Letter == Char \ {Slash}

\* The pieces of a path as far as it has been read: all that are finished have a row, and
\* so has the last one as soon as there is something in it.
Short(pieces) ==
  /\ \A i \in 1 .. Len(pieces) : Len(pieces[i]) < NameLen
  /\ \A i \in 1 .. Len(pieces) - 1 : i <= MaxDepth
  /\ pieces[Len(pieces)] = <<>> \/ Len(pieces) <= MaxDepth

\* Piece i is in row i - 1, terminated but for the last one, behind which the rows are as
\* they were.
Holds(u, pieces, rows) ==
  /\ u = [j |-> u.j, k |-> u.k, rows |-> u.rows] /\ u.rows \in RowsType
  /\ u.j = Len(pieces) - 1 /\ u.k = Len(pieces[Len(pieces)])
  /\ u.rows[0][0] = Slash /\ u.rows[0][1] = Nul
  /\ \A i \in 2 .. Len(pieces) : \A b \in 0 .. Len(pieces[i]) - 1 :
       u.rows[i - 1][b] = pieces[i][b + 1]
  /\ \A i \in 2 .. Len(pieces) - 1 : u.rows[i - 1][Len(pieces[i])] = Nul
  /\ \A x \in u.j .. MaxDepth - 1 : \A y \in 0 .. NameLen + 1 :
       x > u.j \/ y >= u.k => u.rows[x][y] = rows[x][y]

LEMMA Sizes == /\ NameLen \in Nat /\ NameLen >= 1 /\ MaxDepth \in Nat /\ MaxDepth >= 1
               /\ MaxListed \in Nat /\ MaxPathLen \in Nat /\ MaxPathLen >= 1
               /\ Slash \in Char /\ Nul \notin Char
BY PathAssumption

\* A character written into the rows.
Wrote(new, rows, i, b, c) ==
  /\ new \in RowsType
  /\ \A x \in 0 .. MaxDepth - 1 : \A y \in 0 .. NameLen + 1 :
       new[x][y] = IF x = i /\ y = b THEN c ELSE rows[x][y]

LEMMA Put ==
  ASSUME NEW rows \in RowsType, NEW c \in Char \cup {Nul},
         NEW i \in 0 .. MaxDepth - 1, NEW b \in 0 .. NameLen + 1,
         NEW new, new = [rows EXCEPT ![i][b] = c]
  PROVE  Wrote(new, rows, i, b, c)
<1> DEFINE row == [rows[i] EXCEPT ![b] = c]
<1>1. rows[i] \in Bytes(NameLen + 1)
  BY DEF RowsType
<1>2. /\ row \in Bytes(NameLen + 1)
      /\ \A y \in 0 .. NameLen + 1 : row[y] = IF y = b THEN c ELSE rows[i][y]
  BY <1>1 DEF Bytes
<1>3. new = [rows EXCEPT ![i] = row]
  OBVIOUS
<1> HIDE DEF row
<1> QED
  BY <1>2, <1>3 DEF Wrote, RowsType

\* A character starts a new piece or goes to the last one.
LEMMA CharAdded ==
  ASSUME NEW c \in Char, NEW pieces \in Seq(Seq(Letter)), pieces # <<>>
  PROVE  LET new == AddChar(pieces, c)
         IN  /\ new \in Seq(Seq(Letter)) /\ new # <<>>
             /\ c = Slash => /\ Len(new) = Len(pieces) + 1 /\ new[Len(pieces) + 1] = <<>>
                             /\ \A i \in 1 .. Len(pieces) : new[i] = pieces[i]
             /\ c # Slash => /\ Len(new) = Len(pieces)
                             /\ new[Len(pieces)] = Append(pieces[Len(pieces)], c)
                             /\ \A i \in 1 .. Len(pieces) - 1 : new[i] = pieces[i]
<1>1. CASE c = Slash
  <2>1. <<>> \in Seq(Letter)
    OBVIOUS
  <2>2. AddChar(pieces, c) = Append(pieces, <<>>)
    BY <1>1 DEF AddChar
  <2> QED
    BY <1>1, <2>1, <2>2, AppendProperties
<1>2. CASE c # Slash
  <2> DEFINE n == Len(pieces)
             last == Append(pieces[n], c)
             new == [pieces EXCEPT ![n] = last]
  <2>1. n \in 1 .. Len(pieces) /\ n \in Nat /\ pieces[n] \in Seq(Letter)
    BY <1>2
  <2>2. last \in Seq(Letter)
    BY <1>2, <2>1, AppendProperties, c \in Letter DEF Letter
  <2>3. AddChar(pieces, c) = new
    BY <1>2 DEF AddChar
  <2> HIDE DEF last
  <2>4. new \in Seq(Seq(Letter)) /\ Len(new) = n
        /\ \A j \in 1 .. n : new[j] = IF j = n THEN last ELSE pieces[j]
    BY <2>1, <2>2, ExceptSeq
  <2> HIDE DEF new
  <2>5. new # <<>>
    BY <2>1, <2>4
  <2>6. new[n] = last /\ \A i \in 1 .. n - 1 : new[i] = pieces[i]
    BY <2>1, <2>4
  <2> QED
    BY <1>2, <2>3, <2>4, <2>5, <2>6 DEF last
<1> QED
  BY <1>1, <1>2

\* What fits with one character more fits without it.
LEMMA ShortBefore ==
  ASSUME NEW pieces \in Seq(Seq(Letter)), pieces # <<>>, NEW c \in Char,
         Short(AddChar(pieces, c))
  PROVE  Short(pieces)
<1> DEFINE new == AddChar(pieces, c)
           n == Len(pieces)
<1>1. /\ \A i \in 1 .. Len(new) : Len(new[i]) < NameLen
      /\ \A i \in 1 .. Len(new) - 1 : i <= MaxDepth
      /\ new[Len(new)] = <<>> \/ Len(new) <= MaxDepth
  BY DEF Short
<1>2. /\ n \in Nat /\ n >= 1 /\ MaxDepth \in Nat /\ NameLen \in Nat
      /\ \A i \in 1 .. n : pieces[i] \in Seq(Letter) /\ Len(pieces[i]) \in Nat
  BY Sizes
<1>3. CASE c = Slash
  <2>1. Len(new) = n + 1 /\ \A i \in 1 .. n : new[i] = pieces[i]
    BY <1>3, CharAdded
  <2> HIDE DEF new
  <2>2. n \in 1 .. Len(new) - 1 /\ \A i \in 1 .. n : i \in 1 .. Len(new) /\ i \in 1 .. Len(new) - 1
    BY <1>2, <2>1
  <2>3. \A i \in 1 .. n - 1 : i \in 1 .. n
    BY <1>2
  <2> QED
    BY <1>1, <2>1, <2>2, <2>3 DEF Short
<1>4. CASE c # Slash
  <2>1. Len(new) = n /\ new[n] = Append(pieces[n], c) /\ \A i \in 1 .. n - 1 : new[i] = pieces[i]
    BY <1>4, CharAdded
  <2>2. pieces[n] \in Seq(Letter) /\ c \in Letter
    BY <1>2, <1>4 DEF Letter
  <2>3. Len(Append(pieces[n], c)) = Len(pieces[n]) + 1 /\ Append(pieces[n], c) # <<>>
    BY <2>2, AppendProperties
  <2> HIDE DEF new
  <2>4. ASSUME NEW i \in 1 .. n PROVE Len(pieces[i]) < NameLen
    <3>1. CASE i = n
      <4>1. Len(new[n]) < NameLen
        BY <1>1, <1>2, <2>1
      <4> QED
        BY <1>2, <2>1, <2>3, <3>1, <4>1
    <3>2. CASE i # n
      <4>1. i \in 1 .. n - 1 /\ i \in 1 .. Len(new)
        BY <1>2, <2>1, <3>2
      <4> QED
        BY <1>1, <2>1, <4>1
    <3> QED
      BY <3>1, <3>2
  <2>5. n <= MaxDepth
    BY <1>1, <2>1, <2>3
  <2>6. \A i \in 1 .. n - 1 : i <= MaxDepth
    BY <1>1, <2>1
  <2> QED
    BY <2>4, <2>5, <2>6 DEF Short
<1> QED
  BY <1>3, <1>4

\* One character more in the rows.
LEMMA CharUnpacked ==
  ASSUME NEW u, NEW rows \in RowsType, NEW pieces \in Seq(Seq(Letter)), Len(pieces) >= 2,
         Holds(u, pieces, rows), NEW c \in Char, Short(AddChar(pieces, c))
  PROVE  Holds(UnpackChar(u, c), AddChar(pieces, c), rows)
<1> DEFINE new == AddChar(pieces, c)
           v == UnpackChar(u, c)
           n == Len(pieces)
           size == [i \in 1 .. n |-> Len(pieces[i])]
<1>1. n \in Nat /\ n >= 2 /\ \A i \in 1 .. n : pieces[i] \in Seq(Letter) /\ size[i] \in Nat
  OBVIOUS
<1>2. /\ u.rows \in RowsType /\ u.j = n - 1 /\ u.k = size[n] /\ u.k \in Nat /\ u.j # 0
      /\ u = [j |-> u.j, k |-> u.k, rows |-> u.rows]
  BY <1>1 DEF Holds
<1>3. u.rows[0][0] = Slash /\ u.rows[0][1] = Nul
  BY DEF Holds
<1>4. \A i \in 2 .. n : \A b \in 0 .. size[i] - 1 : u.rows[i - 1][b] = pieces[i][b + 1]
  <2>1. \A i \in 2 .. n : \A b \in 0 .. Len(pieces[i]) - 1 : u.rows[i - 1][b] = pieces[i][b + 1]
    BY DEF Holds
  <2>2. \A i \in 2 .. n : i \in 1 .. n
    BY <1>1
  <2>3. \A i \in 1 .. n : size[i] = Len(pieces[i])
    OBVIOUS
  <2> HIDE DEF size
  <2> QED
    BY <2>1, <2>2, <2>3
<1>5. \A i \in 2 .. n - 1 : u.rows[i - 1][size[i]] = Nul
  <2>1. \A i \in 2 .. n - 1 : u.rows[i - 1][Len(pieces[i])] = Nul
    BY DEF Holds
  <2>2. \A i \in 2 .. n - 1 : i \in 1 .. n
    BY <1>1
  <2>3. \A i \in 1 .. n : size[i] = Len(pieces[i])
    OBVIOUS
  <2> HIDE DEF size
  <2> QED
    BY <2>1, <2>2, <2>3
<1>a. \A x \in n - 1 .. MaxDepth - 1 : \A y \in 0 .. NameLen + 1 :
        x > n - 1 \/ y >= u.k => u.rows[x][y] = rows[x][y]
  BY <1>2 DEF Holds
<1>6. c # Nul /\ NameLen \in Nat /\ NameLen >= 1 /\ MaxDepth \in Nat
  BY Sizes
<1>7. /\ \A i \in 1 .. n : size[i] < NameLen
      /\ \A i \in 1 .. n - 1 : i <= MaxDepth
  <2>1. Short(pieces)
    BY <1>1, ShortBefore
  <2> QED
    BY <1>1, <2>1 DEF Short
<1>8. /\ \A i \in 1 .. Len(new) : Len(new[i]) < NameLen
      /\ \A i \in 1 .. Len(new) - 1 : i <= MaxDepth
      /\ new[Len(new)] = <<>> \/ Len(new) <= MaxDepth
  BY DEF Short
<1>9. pieces # <<>>
  BY <1>1
<1>10. CASE c = Slash
  <2>1. /\ Len(new) = n + 1 /\ new[n + 1] = <<>> /\ \A i \in 1 .. n : new[i] = pieces[i]
    BY <1>9, <1>10, CharAdded
  <2>2. v.j = n /\ v.k = 0 /\ v.rows = [u.rows EXCEPT ![n - 1][u.k] = Nul]
        /\ v = [j |-> v.j, k |-> v.k, rows |-> v.rows]
    BY <1>1, <1>2, <1>10 DEF UnpackChar
  <2>3. \A i \in 1 .. n : Len(new[i]) = size[i] /\ new[i] = pieces[i]
    BY <2>1
  <2>a. Len(new[n + 1]) = 0
    BY <2>1
  <2> HIDE DEF new, v, size
  <2>4. n - 1 \in 0 .. MaxDepth - 1 /\ u.k \in 0 .. NameLen + 1
    <3>1. n \in 1 .. Len(new) - 1 /\ n \in 1 .. n
      BY <1>1, <2>1
    <3>2. n <= MaxDepth
      BY <1>8, <3>1
    <3>3. size[n] < NameLen
      BY <1>7, <3>1
    <3> QED
      BY <1>1, <1>2, <1>6, <3>2, <3>3
  <2>5. /\ v.rows \in RowsType
        /\ \A x \in 0 .. MaxDepth - 1 : \A y \in 0 .. NameLen + 1 :
             v.rows[x][y] = IF x = n - 1 /\ y = u.k THEN Nul ELSE u.rows[x][y]
    <3> DEFINE r == v.rows
               old == u.rows
               k == u.k
               l == n - 1
    <3>1. r = [old EXCEPT ![l][k] = Nul] /\ Nul \in Char \cup {Nul}
      BY <2>2
    <3>2. old \in RowsType /\ k \in 0 .. NameLen + 1 /\ l \in 0 .. MaxDepth - 1
      BY <1>2, <2>4
    <3> HIDE DEF r, old, k, l
    <3>3. Wrote(r, old, l, k, Nul)
      BY <3>1, <3>2, Put
    <3> QED
      BY <3>3 DEF r, old, k, l, Wrote
  <2>6. v.rows[0][0] = Slash /\ v.rows[0][1] = Nul
    <3>1. 0 \in 0 .. NameLen + 1 /\ 1 \in 0 .. NameLen + 1 /\ 0 \in 0 .. MaxDepth - 1 /\ 0 # n - 1
      BY <1>1, <1>6, <2>4
    <3> QED
      BY <1>3, <2>5, <3>1
  <2>7. \A i \in 2 .. n + 1 : \A b \in 0 .. Len(new[i]) - 1 : v.rows[i - 1][b] = new[i][b + 1]
    <3> SUFFICES ASSUME NEW i \in 2 .. n + 1, NEW b \in 0 .. Len(new[i]) - 1
                 PROVE  v.rows[i - 1][b] = new[i][b + 1]
      OBVIOUS
    <3>1. i \in 1 .. n /\ i \in 2 .. n
      BY <1>1, <2>a
    <3>2. new[i] = pieces[i] /\ size[i] \in Nat /\ size[i] < NameLen /\ b \in 0 .. size[i] - 1
      <4>1. new[i] = pieces[i] /\ Len(new[i]) = size[i]
        BY <2>3, <3>1
      <4>2. size[i] \in Nat
        BY <1>1, <3>1
      <4>3. size[i] < NameLen
        BY <1>7, <3>1
      <4>4. b \in 0 .. size[i] - 1
        BY <4>1
      <4> QED
        BY <4>1, <4>2, <4>3, <4>4
    <3>3. i - 1 \in 0 .. MaxDepth - 1 /\ b \in 0 .. NameLen + 1
      <4> DEFINE s == size[i]
      <4>1. n \in Nat /\ i \in 1 .. n /\ n - 1 \in 0 .. MaxDepth - 1
        BY <1>1, <2>4, <3>1
      <4>2. s \in Nat /\ s < NameLen /\ b \in 0 .. s - 1
        BY <3>2
      <4>3. MaxDepth \in Nat /\ NameLen \in Nat
        BY <1>6
      <4> HIDE DEF s
      <4> QED
        BY <4>1, <4>2, <4>3
    <3>4. ~(i - 1 = n - 1 /\ b = u.k)
      BY <1>1, <1>2, <3>1, <3>2
    <3> QED
      BY <1>4, <2>5, <3>1, <3>2, <3>3, <3>4
  <2>8. \A i \in 2 .. (n + 1) - 1 : v.rows[i - 1][Len(new[i])] = Nul
    <3> SUFFICES ASSUME NEW i \in 2 .. (n + 1) - 1 PROVE v.rows[i - 1][Len(new[i])] = Nul
      OBVIOUS
    <3>1. i \in 2 .. n /\ i \in 1 .. n
      BY <1>1
    <3>2. Len(new[i]) = size[i]
      BY <2>3, <3>1
    <3>3. size[i] \in Nat /\ size[i] < NameLen
      BY <1>1, <1>7, <3>1
    <3>4. i - 1 \in 0 .. MaxDepth - 1 /\ size[i] \in 0 .. NameLen + 1
      <4>1. MaxDepth \in Nat /\ NameLen \in Nat /\ n \in Nat /\ n - 1 \in 0 .. MaxDepth - 1
        BY <1>1, <1>6, <2>4
      <4>2. i - 1 \in 0 .. MaxDepth - 1
        BY <3>1, <4>1
      <4>3. size[i] \in 0 .. NameLen + 1
        BY <3>3, <4>1
      <4> QED
        BY <4>2, <4>3
    <3>5. CASE i = n
      <4>1. i - 1 = n - 1 /\ size[i] = u.k
        BY <1>2, <3>5
      <4> QED
        BY <2>5, <3>2, <3>4, <4>1
    <3>6. CASE i # n
      <4>1. i \in 2 .. n - 1 /\ i - 1 # n - 1
        BY <1>1, <3>1, <3>6
      <4>2. u.rows[i - 1][size[i]] = Nul
        BY <1>5, <4>1
      <4> QED
        BY <2>5, <3>2, <3>4, <4>1, <4>2
    <3> QED
      BY <3>5, <3>6
  <2>9. \A x \in v.j .. MaxDepth - 1 : \A y \in 0 .. NameLen + 1 :
          x > v.j \/ y >= v.k => v.rows[x][y] = rows[x][y]
    <3> SUFFICES ASSUME NEW x \in n .. MaxDepth - 1, NEW y \in 0 .. NameLen + 1
                 PROVE  v.rows[x][y] = rows[x][y]
      BY <2>2
    <3>1. x \in 0 .. MaxDepth - 1 /\ x \in n - 1 .. MaxDepth - 1 /\ x > n - 1 /\ x # n - 1
      <4>1. n \in Nat /\ n >= 2
        BY <1>1
      <4>2. MaxDepth \in Nat
        BY <1>6
      <4> QED
        BY <4>1, <4>2
    <3>2. v.rows[x][y] = u.rows[x][y]
      BY <2>5, <3>1
    <3>3. u.rows[x][y] = rows[x][y]
      BY <1>a, <3>1
    <3> QED
      BY <3>2, <3>3
  <2>10. v.j = Len(new) - 1 /\ v.k = Len(new[Len(new)]) /\ Len(new) = n + 1
    BY <1>1, <2>1, <2>2, <2>a
  <2>11. Holds(v, new, rows)
    BY <2>2, <2>5, <2>6, <2>7, <2>8, <2>9, <2>10 DEF Holds
  <2> QED
    BY <2>11 DEF new, v
<1>11. CASE c # Slash
  <2>1. /\ Len(new) = n /\ new[n] = Append(pieces[n], c) /\ \A i \in 1 .. n - 1 : new[i] = pieces[i]
    BY <1>9, <1>11, CharAdded
  <2>2. v = [u EXCEPT !.rows[u.j][u.k] = c, !.k = @ + 1]
    BY <1>11 DEF UnpackChar
  <2>3. v.j = n - 1 /\ v.k = u.k + 1 /\ v.rows = [u.rows EXCEPT ![n - 1][u.k] = c]
        /\ v = [j |-> v.j, k |-> v.k, rows |-> v.rows]
    BY <1>2, <2>2
  <2>4. pieces[n] \in Seq(Letter) /\ Len(pieces[n]) = u.k
    BY <1>1, <1>2
  <2>a. c \in Letter
    BY <1>11 DEF Letter
  <2>5. /\ Len(new[n]) = u.k + 1 /\ new[n] # <<>>
        /\ new[n][u.k + 1] = c /\ \A b \in 1 .. u.k : new[n][b] = pieces[n][b]
    <3> DEFINE piece == pieces[n]
    <3>1. piece \in Seq(Letter) /\ Len(piece) = u.k /\ new[n] = Append(piece, c)
      BY <2>1, <2>4
    <3> HIDE DEF piece, new
    <3>2. /\ Append(piece, c) # <<>> /\ Len(Append(piece, c)) = Len(piece) + 1
          /\ Append(piece, c)[Len(piece) + 1] = c
          /\ \A b \in 1 .. Len(piece) : Append(piece, c)[b] = piece[b]
      <4> HIDE DEF n, size, v
      <4>1. piece \in Seq(Letter) /\ c \in Letter
        BY <2>a, <3>1
      <4> QED
        BY <4>1, AppendProperties
    <3> DEFINE longer == Append(piece, c)
    <3>3. /\ longer # <<>> /\ Len(longer) = u.k + 1 /\ longer[u.k + 1] = c
          /\ \A b \in 1 .. u.k : longer[b] = piece[b]
      BY <3>1, <3>2
    <3>4. new[n] = longer
      BY <3>1
    <3> HIDE DEF longer
    <3> QED
      BY <3>3, <3>4 DEF piece
  <2>b. \A i \in 1 .. n - 1 : new[i] = pieces[i] /\ Len(new[i]) = size[i]
    <3> SUFFICES ASSUME NEW i \in 1 .. n - 1
                 PROVE  new[i] = pieces[i] /\ Len(new[i]) = size[i]
      OBVIOUS
    <3>1. i \in 1 .. n
      BY <1>1
    <3>2. size[i] = Len(pieces[i])
      BY <3>1
    <3> HIDE DEF new, size
    <3> QED
      BY <2>1, <3>2
  <2> HIDE DEF new, v, size
  <2>6. n <= MaxDepth /\ u.k + 1 < NameLen
    <3>1. n \in 1 .. Len(new)
      BY <1>1, <2>1
    <3> QED
      BY <1>8, <2>1, <2>5, <3>1
  <2>7. n - 1 \in 0 .. MaxDepth - 1 /\ u.k \in 0 .. NameLen + 1
    <3>1. n \in Nat /\ n >= 2 /\ MaxDepth \in Nat /\ NameLen \in Nat
      BY <1>1, <1>6
    <3>2. u.k \in Nat
      BY <1>2
    <3> QED
      BY <2>6, <3>1, <3>2
  <2>8. /\ v.rows \in RowsType
        /\ \A x \in 0 .. MaxDepth - 1 : \A y \in 0 .. NameLen + 1 :
             v.rows[x][y] = IF x = n - 1 /\ y = u.k THEN c ELSE u.rows[x][y]
    <3> DEFINE r == v.rows
               old == u.rows
               k == u.k
               l == n - 1
    <3>1. r = [old EXCEPT ![l][k] = c] /\ c \in Char \cup {Nul}
      BY <2>3
    <3>2. old \in RowsType /\ k \in 0 .. NameLen + 1 /\ l \in 0 .. MaxDepth - 1
      BY <1>2, <2>7
    <3> HIDE DEF r, old, k, l
    <3>3. Wrote(r, old, l, k, c)
      BY <3>1, <3>2, Put
    <3> QED
      BY <3>3 DEF r, old, k, l, Wrote
  <2>9. v.rows[0][0] = Slash /\ v.rows[0][1] = Nul
    <3>1. 0 \in 0 .. NameLen + 1 /\ 1 \in 0 .. NameLen + 1 /\ 0 \in 0 .. MaxDepth - 1 /\ 0 # n - 1
      BY <1>1, <1>6, <2>7
    <3> QED
      BY <1>3, <2>8, <3>1
  <2>10. \A i \in 2 .. n : \A b \in 0 .. Len(new[i]) - 1 : v.rows[i - 1][b] = new[i][b + 1]
    <3> SUFFICES ASSUME NEW i \in 2 .. n, NEW b \in 0 .. Len(new[i]) - 1
                 PROVE  v.rows[i - 1][b] = new[i][b + 1]
      OBVIOUS
    <3>1. CASE i # n
      <4>1. i \in 1 .. n - 1 /\ i \in 1 .. n /\ i - 1 # n - 1
        BY <1>1, <3>1
      <4>2. new[i] = pieces[i] /\ size[i] \in Nat /\ size[i] < NameLen /\ b \in 0 .. size[i] - 1
        <5>1. new[i] = pieces[i] /\ Len(new[i]) = size[i]
          BY <2>b, <4>1
        <5>2. size[i] \in Nat
          BY <1>1, <4>1
        <5>3. size[i] < NameLen
          BY <1>7, <4>1
        <5>4. b \in 0 .. size[i] - 1
          BY <5>1
        <5> QED
          BY <5>1, <5>2, <5>3, <5>4
      <4>3. i - 1 \in 0 .. MaxDepth - 1 /\ b \in 0 .. NameLen + 1
        <5> DEFINE s == size[i]
        <5>1. n \in Nat /\ i \in 1 .. n /\ n - 1 \in 0 .. MaxDepth - 1
          BY <1>1, <2>7, <4>1
        <5>2. s \in Nat /\ s < NameLen /\ b \in 0 .. s - 1
          BY <4>2
        <5>3. MaxDepth \in Nat /\ NameLen \in Nat
          BY <1>6
        <5> HIDE DEF s
        <5> QED
          BY <5>1, <5>2, <5>3
      <4> QED
        BY <1>4, <2>8, <4>1, <4>2, <4>3
    <3>2. CASE i = n
      <4>1. b \in 0 .. u.k /\ b \in 0 .. NameLen + 1
        <5>1. Len(new[i]) = u.k + 1 /\ u.k \in Nat
          BY <1>2, <2>5, <3>2
        <5> QED
          BY <1>6, <2>6, <5>1
      <4>2. CASE b = u.k
        BY <2>5, <2>7, <2>8, <3>2, <4>2
      <4>3. CASE b # u.k
        <5>1. b \in 0 .. size[n] - 1 /\ b + 1 \in 1 .. u.k /\ n \in 2 .. n
          <6>1. size[n] = u.k /\ u.k \in Nat /\ n \in 2 .. n
            BY <1>1, <1>2
          <6> QED
            BY <4>1, <4>3, <6>1
        <5>2. u.rows[n - 1][b] = pieces[n][b + 1]
          BY <1>4, <5>1
        <5>3. v.rows[n - 1][b] = u.rows[n - 1][b]
          BY <2>7, <2>8, <4>1, <4>3
        <5> QED
          BY <2>5, <3>2, <5>1, <5>2, <5>3
      <4> QED
        BY <4>2, <4>3
    <3> QED
      BY <3>1, <3>2
  <2>11. \A i \in 2 .. n - 1 : v.rows[i - 1][Len(new[i])] = Nul
    <3> SUFFICES ASSUME NEW i \in 2 .. n - 1 PROVE v.rows[i - 1][size[i]] = Nul
      <4>1. \A i \in 2 .. n - 1 : i \in 1 .. n - 1
        BY <1>1
      <4> QED
        BY <2>b, <4>1
    <3>1. i \in 1 .. n /\ i - 1 # n - 1
      BY <1>1
    <3>2. size[i] \in Nat /\ size[i] < NameLen
      BY <1>1, <1>7, <3>1
    <3>3. i - 1 \in 0 .. MaxDepth - 1 /\ size[i] \in 0 .. NameLen + 1
      BY <1>1, <1>6, <2>7, <3>1, <3>2
    <3> QED
      BY <1>5, <2>8, <3>1, <3>3
  <2>12. \A x \in v.j .. MaxDepth - 1 : \A y \in 0 .. NameLen + 1 :
           x > v.j \/ y >= v.k => v.rows[x][y] = rows[x][y]
    <3> SUFFICES ASSUME NEW x \in n - 1 .. MaxDepth - 1, NEW y \in 0 .. NameLen + 1,
                        x > n - 1 \/ y >= u.k + 1
                 PROVE  v.rows[x][y] = rows[x][y]
      BY <2>3
    <3>1. x \in 0 .. MaxDepth - 1 /\ (x > n - 1 \/ y >= u.k) /\ ~(x = n - 1 /\ y = u.k)
      BY <1>1, <1>2, <1>6
    <3> QED
      BY <1>a, <2>8, <3>1
  <2>13. v.j = Len(new) - 1 /\ v.k = Len(new[Len(new)])
    BY <2>1, <2>3, <2>5
  <2>14. Holds(v, new, rows)
    BY <2>1, <2>3, <2>8, <2>9, <2>10, <2>11, <2>12, <2>13 DEF Holds
  <2> QED
    BY <2>14 DEF new, v
<1> QED
  BY <1>10, <1>11

-----------------------------------------------------------------------------
(***************************************************************************)
(* unpack_dir_path on a whole path.                                        *)
(***************************************************************************)
IsPath(path) == path \in Seq(Char) /\ path # <<>> /\ path[1] = Slash

\* A path that unpack_dir_path has room for.
IsShort(path) ==
  IsPath(path) /\ Fits(path) /\ \A i \in DOMAIN Split(path) : Len(Split(path)[i]) < NameLen

\* The first character of a path.
LEMMA FirstSlash ==
  LET two == AddChar(<< <<>> >>, Slash)
  IN  two \in Seq(Seq(Letter)) /\ Len(two) = 2 /\ two[1] = <<>> /\ two[2] = <<>>
<1> DEFINE one == << <<>> >>
           two == AddChar(one, Slash)
<1>1. one \in Seq(Seq(Letter)) /\ Len(one) = 1 /\ one # <<>> /\ one[1] = <<>>
  <2>1. <<>> \in Seq(Letter)
    OBVIOUS
  <2> QED
    BY <2>1
<1> HIDE DEF one
<1>2. /\ two \in Seq(Seq(Letter)) /\ Len(two) = Len(one) + 1
      /\ two[Len(one) + 1] = <<>>
      /\ \A i \in 1 .. Len(one) : two[i] = one[i]
  BY <1>1, CharAdded, Sizes
<1> HIDE DEF two
<1>3. Len(one) + 1 = 2 /\ 1 \in 1 .. Len(one)
  BY <1>1
<1>4. two \in Seq(Seq(Letter)) /\ Len(two) = 2 /\ two[1] = <<>> /\ two[2] = <<>>
  BY <1>1, <1>2, <1>3
<1> QED
  BY <1>4 DEF one, two

\* The pieces behind the first slash are names; the last one is empty just after a slash.
LEMMA PiecesAreNames ==
  ASSUME NEW path, IsPath(path), NEW n \in 1 .. Len(path)
  PROVE  LET p == Pieces(path)[n]
         IN  p \in Seq(Seq(Letter)) /\ Len(p) >= 2 /\ (path[n] = Slash <=> p[Len(p)] = <<>>)
<1> DEFINE P == Pieces(path)
           N == Len(path)
           Good(p, m) == p \in Seq(Seq(Letter)) /\ Len(p) >= 2 /\ (path[m] = Slash <=> p[Len(p)] = <<>>)
           E == {m \in 1 .. N : Good(P[m], m)}
<1>1. N \in Nat /\ 1 <= N /\ \A m \in 1 .. N : path[m] \in Char
  BY DEF IsPath
<1>2. P[0] = << <<>> >> /\ \A m \in 1 .. N : P[m] = AddChar(P[m - 1], path[m])
  BY <1>1, PiecesAre
<1> HIDE DEF P
<1>3. 1 \in E
  <2> DEFINE two == AddChar(<< <<>> >>, Slash)
  <2>1. path[1] = Slash /\ 1 \in 1 .. N /\ 1 - 1 = 0
    BY <1>1 DEF IsPath
  <2>2. P[1] = two
    BY <1>2, <2>1
  <2>3. two \in Seq(Seq(Letter)) /\ Len(two) = 2 /\ two[2] = <<>>
    BY FirstSlash
  <2> HIDE DEF two
  <2>4. Good(P[1], 1)
    BY <2>1, <2>2, <2>3
  <2> QED
    BY <2>1, <2>4
<1>4. ASSUME NEW m \in 1 .. N - 1, m \in E PROVE m + 1 \in E
  <2> DEFINE old == P[m]
             c == path[m + 1]
             new == AddChar(old, c)
  <2>1. m + 1 \in 1 .. N /\ (m + 1) - 1 = m /\ c \in Char
    BY <1>1
  <2>2. old \in Seq(Seq(Letter)) /\ Len(old) >= 2 /\ old # <<>> /\ P[m + 1] = new
    <3>1. old \in Seq(Seq(Letter)) /\ Len(old) >= 2
      BY <1>4
    <3>2. old # <<>>
      BY <3>1
    <3> QED
      BY <1>2, <2>1, <3>1, <3>2
  <2> HIDE DEF c, old
  <2>3. /\ new \in Seq(Seq(Letter)) /\ new # <<>>
        /\ c = Slash => Len(new) = Len(old) + 1 /\ new[Len(old) + 1] = <<>>
        /\ c # Slash => Len(new) = Len(old) /\ new[Len(old)] = Append(old[Len(old)], c)
    BY <2>1, <2>2, CharAdded
  <2>4. Len(old) \in Nat
    BY <2>2
  <2>5. c # Slash => Append(old[Len(old)], c) # <<>>
    <3>1. c # Slash => old[Len(old)] \in Seq(Letter) /\ c \in Letter
      BY <2>1, <2>2, <2>4 DEF Letter
    <3> QED
      BY <3>1, AppendProperties
  <2> HIDE DEF new
  <2>6. Len(new) >= 2 /\ (c = Slash <=> new[Len(new)] = <<>>)
    <3> DEFINE l == Len(old)
    <3>1. l \in Nat /\ l >= 2
      BY <2>2, <2>4
    <3> HIDE DEF l
    <3>2. CASE c = Slash
      <4>1. Len(new) = l + 1 /\ new[l + 1] = <<>>
        BY <2>3, <3>2 DEF l
      <4> QED
        BY <3>1, <3>2, <4>1
    <3>3. CASE c # Slash
      <4>1. Len(new) = l /\ new[l] # <<>>
        BY <2>3, <2>5, <3>3 DEF l
      <4> QED
        BY <3>1, <3>3, <4>1
    <3> QED
      BY <3>2, <3>3
  <2> QED
    BY <2>1, <2>2, <2>3, <2>6 DEF c
<1>5. \A m \in 1 .. N : m \in E
  <2> HIDE DEF E, N
  <2> QED
    BY <1>1, <1>3, <1>4, Induction
<1> QED
  BY <1>5 DEF P

\* The rows hold the pieces all along.
LEMMA Unpacked ==
  ASSUME NEW rows \in RowsType, NEW path, IsPath(path), Short(Split(path)),
         NEW n \in 1 .. Len(path)
  PROVE  Holds(Unpacking(rows, path)[n], Pieces(path)[n], rows)
<1> DEFINE P == Pieces(path)
           U == Unpacking(rows, path)
           N == Len(path)
           F == {m \in 0 .. N - 1 : Short(P[N - m])}
           E == {m \in 1 .. N : Holds(U[m], P[m], rows)}
<1>1. N \in Nat /\ 1 <= N /\ \A m \in 1 .. N : path[m] \in Char
  BY DEF IsPath
<1>2. P[0] = << <<>> >> /\ \A m \in 1 .. N : P[m] = AddChar(P[m - 1], path[m])
  BY <1>1, PiecesAre
<1>3. /\ U[0] = [j |-> 0, k |-> 0, rows |-> rows]
      /\ \A m \in 1 .. N : U[m] = UnpackChar(U[m - 1], path[m])
  BY <1>1, UnpackingIs
<1>4. \A m \in 1 .. N : P[m] \in Seq(Seq(Letter)) /\ Len(P[m]) >= 2 /\ P[m] # <<>>
  <2> TAKE m \in 1 .. N
  <2>1. P[m] \in Seq(Seq(Letter)) /\ Len(P[m]) >= 2
    BY PiecesAreNames
  <2> HIDE DEF P
  <2> QED
    BY <2>1
<1>5. P[N] = Split(path)
  BY DEF Split
<1> HIDE DEF P, U
<1>6. \A m \in 1 .. N : Short(P[m])
  <2>1. 0 \in F
    BY <1>1, <1>5
  <2>2. ASSUME NEW m \in 0 .. (N - 1) - 1, m \in F PROVE m + 1 \in F
    <3>1. N - m \in 1 .. N /\ (N - m) - 1 = N - (m + 1) /\ N - (m + 1) \in 1 .. N /\ m + 1 \in 0 .. N - 1
      BY <1>1
    <3>2. P[N - m] = AddChar(P[N - (m + 1)], path[N - m])
      BY <1>2, <3>1
    <3>3. Short(P[N - (m + 1)])
      <4> DEFINE old == P[N - (m + 1)]
                 c == path[N - m]
      <4>1. old \in Seq(Seq(Letter)) /\ old # <<>> /\ c \in Char /\ Short(AddChar(old, c))
        BY <1>1, <1>4, <2>2, <3>1, <3>2
      <4> HIDE DEF old, c
      <4>2. Short(old)
        BY <4>1, ShortBefore
      <4> QED
        BY <4>2 DEF old
    <3> QED
      BY <3>1, <3>3
  <2>3. N - 1 \in Nat /\ 0 \in Nat /\ 0 <= N - 1
    BY <1>1
  <2>4. \A m \in 0 .. N - 1 : m \in F
    <3> HIDE DEF F
    <3> QED
      BY <2>1, <2>2, <2>3, Induction
  <2> SUFFICES ASSUME NEW m \in 1 .. N PROVE Short(P[m])
    OBVIOUS
  <2>5. N - m \in 0 .. N - 1 /\ N - (N - m) = m
    BY <1>1
  <2> QED
    BY <2>4, <2>5
<1>7. 1 \in E
  <2> DEFINE u == U[1]
             p == P[1]
  <2>1. 1 \in 1 .. N /\ path[1] = Slash /\ 1 - 1 = 0
    BY <1>1 DEF IsPath
  <2>2. p = AddChar(<< <<>> >>, Slash)
    BY <1>2, <2>1
  <2>3. Len(AddChar(<< <<>> >>, Slash)) = 2 /\ AddChar(<< <<>> >>, Slash)[2] = <<>>
    BY FirstSlash
  <2>4. Len(p) = 2 /\ p[2] = <<>> /\ Len(p[2]) = 0
    <3> HIDE DEF p
    <3> QED
      BY <2>2, <2>3
  <2>5. u = UnpackChar([j |-> 0, k |-> 0, rows |-> rows], Slash)
    BY <1>3, <2>1
  <2>6. u = [j |-> 1, k |-> 0, rows |-> [rows EXCEPT ![0][0] = Slash, ![0][1] = Nul]]
    BY <2>5 DEF UnpackChar
  <2> DEFINE one == [rows EXCEPT ![0][0] = Slash]
             two == [one EXCEPT ![0][1] = Nul]
  <2>7. u.rows = two /\ u.j = 1 /\ u.k = 0 /\ u = [j |-> u.j, k |-> u.k, rows |-> u.rows]
    BY <2>6
  <2>8. /\ 0 \in 0 .. NameLen + 1 /\ 1 \in 0 .. NameLen + 1 /\ 0 \in 0 .. MaxDepth - 1
        /\ Slash \in Char \cup {Nul} /\ Nul \in Char \cup {Nul}
    BY Sizes
  <2>9. Wrote(one, rows, 0, 0, Slash)
    BY <2>8, Put
  <2>10. Wrote(two, one, 0, 1, Nul)
    <3>1. one \in RowsType
      BY <2>9 DEF Wrote
    <3> HIDE DEF one
    <3> QED
      BY <2>8, <3>1, Put
  <2> HIDE DEF u, p, one, two
  <2>11. two[0][0] = Slash /\ two[0][1] = Nul /\ two \in RowsType
    BY <2>8, <2>9, <2>10 DEF Wrote
  <2>12. \A x \in 1 .. MaxDepth - 1 : \A y \in 0 .. NameLen + 1 : two[x][y] = rows[x][y]
    <3> SUFFICES ASSUME NEW x \in 1 .. MaxDepth - 1, NEW y \in 0 .. NameLen + 1
                 PROVE  two[x][y] = rows[x][y]
      OBVIOUS
    <3>1. x \in 0 .. MaxDepth - 1 /\ x # 0
      BY Sizes
    <3> QED
      BY <2>9, <2>10, <3>1 DEF Wrote
  <2>13. /\ \A i \in 2 .. Len(p) : \A b \in 0 .. Len(p[i]) - 1 : u.rows[i - 1][b] = p[i][b + 1]
         /\ \A i \in 2 .. Len(p) - 1 : u.rows[i - 1][Len(p[i])] = Nul
    <3>1. \A i \in 2 .. Len(p) : i = 2
      BY <2>4
    <3>2. \A i \in 2 .. Len(p) - 1 : FALSE
      BY <2>4
    <3> QED
      BY <2>4, <3>1, <3>2
  <2>14. u.j = Len(p) - 1 /\ u.k = Len(p[Len(p)])
    BY <2>4, <2>7
  <2>15. \A x \in u.j .. MaxDepth - 1 : \A y \in 0 .. NameLen + 1 :
           x > u.j \/ y >= u.k => u.rows[x][y] = rows[x][y]
    BY <2>7, <2>12
  <2>16. Holds(u, p, rows)
    BY <2>7, <2>11, <2>13, <2>14, <2>15 DEF Holds
  <2> QED
    BY <2>1, <2>16 DEF u, p
<1>8. ASSUME NEW m \in 1 .. N - 1, m \in E PROVE m + 1 \in E
  <2> DEFINE old == P[m]
             u == U[m]
             c == path[m + 1]
  <2>1. m + 1 \in 1 .. N /\ m \in 1 .. N /\ (m + 1) - 1 = m
    BY <1>1
  <2>2. /\ P[m + 1] = AddChar(old, c) /\ U[m + 1] = UnpackChar(u, c)
        /\ Short(AddChar(old, c)) /\ c \in Char
    BY <1>1, <1>2, <1>3, <1>6, <2>1
  <2>3. Holds(u, old, rows) /\ old \in Seq(Seq(Letter)) /\ Len(old) >= 2
    BY <1>4, <1>8, <2>1
  <2> HIDE DEF old, u, c
  <2>4. Holds(UnpackChar(u, c), AddChar(old, c), rows)
    BY <2>2, <2>3, CharUnpacked
  <2> QED
    BY <2>1, <2>2, <2>4
<1>9. \A m \in 1 .. N : m \in E
  <2> HIDE DEF E, N
  <2> QED
    BY <1>1, <1>7, <1>8, Induction
<1> QED
  BY <1>9 DEF P, U

\* The components of a path are its pieces behind the first slash, but for an empty one at
\* the end.
LEMMA ComponentsAre ==
  ASSUME NEW path, IsPath(path)
  PROVE  LET s == Split(path)
             names == Components(path)
         IN  /\ s \in Seq(Seq(Letter)) /\ names \in Seq(Seq(Letter))
             /\ path[Len(path)] = Slash => Len(s) = Len(names) + 2 /\ s[Len(s)] = <<>>
             /\ path[Len(path)] # Slash => Len(s) = Len(names) + 1 /\ s[Len(s)] # <<>> /\ Len(names) >= 1
             /\ \A i \in 1 .. Len(names) : names[i] = s[i + 1]
<1> DEFINE s == Split(path)
           names == Components(path)
           L == Len(s)
           end == IF s[L] = <<>> THEN L - 1 ELSE L
           sub == SubSeq(s, 2, end)
<1>1. Len(path) \in 1 .. Len(path)
  BY DEF IsPath
<1>2. s \in Seq(Seq(Letter)) /\ L >= 2 /\ (path[Len(path)] = Slash <=> s[L] = <<>>)
  BY <1>1, PiecesAreNames DEF Split
<1>3. names = sub
  BY DEF Components
<1> HIDE DEF s, names
<1>4. L \in Nat /\ end \in Nat /\ end <= L /\ end >= 1 /\ \A i \in 2 .. end : s[i] \in Seq(Letter)
  BY <1>2
<1> HIDE DEF L, end
<1>5. /\ sub \in Seq(Seq(Letter))
      /\ Len(sub) = IF 2 <= end THEN end - 2 + 1 ELSE 0
      /\ \A i \in 1 .. end - 2 + 1 : sub[i] = s[2 + i - 1]
  BY <1>2, <1>4, SubSeqProperties
<1> HIDE DEF sub
<1>6. Len(sub) = end - 1 /\ \A i \in 1 .. Len(sub) : sub[i] = s[i + 1]
  <2>1. Len(sub) = end - 1
    BY <1>4, <1>5
  <2>2. \A i \in 1 .. Len(sub) : i \in 1 .. end - 2 + 1 /\ 2 + i - 1 = i + 1
    BY <1>4, <2>1
  <2> QED
    BY <1>5, <2>1, <2>2
<1>7. path[Len(path)] = Slash => L = Len(sub) + 2 /\ s[L] = <<>>
  BY <1>2, <1>4, <1>6 DEF end
<1>8. path[Len(path)] # Slash => L = Len(sub) + 1 /\ s[L] # <<>> /\ Len(sub) >= 1
  BY <1>2, <1>4, <1>6 DEF end
<1> QED
  BY <1>2, <1>3, <1>5, <1>6, <1>7, <1>8 DEF s, names, L

\* The string in an array that holds its characters and a terminator behind them.
LEMMA StrIs ==
  ASSUME NEW M \in Nat, NEW S, NEW a \in [0 .. M -> S], NEW s \in Seq(Char), Len(s) <= M,
         a[Len(s)] = Nul, \A b \in 0 .. Len(s) - 1 : a[b] = s[b + 1]
  PROVE  Str(a) = s
<1> DEFINE ends == {b \in DOMAIN a : a[b] = Nul}
           n == Len(s)
<1>1. n \in Nat /\ n \in ends /\ ends \subseteq Nat /\ ends # {}
  OBVIOUS
<1>2. ASSUME NEW b \in 0 .. n - 1 PROVE b \notin ends
  <2>1. b + 1 \in 1 .. n /\ s[b + 1] \in Char
    BY <1>1
  <2> QED
    BY <2>1, Sizes
<1>3. Min(ends) \in ends /\ \A y \in ends : Min(ends) <= y
  <2> HIDE DEF ends
  <2> QED
    BY <1>1, MinOfNaturals
<1>4. Min(ends) = n
  <2> DEFINE m == Min(ends)
  <2>1. m \in Nat /\ m <= n /\ m \in ends
    BY <1>1, <1>3
  <2> HIDE DEF m, ends
  <2>2. ~(m <= n - 1)
    BY <1>1, <1>2, <2>1
  <2>3. m = n
    BY <1>1, <2>1, <2>2
  <2> QED
    BY <2>3 DEF m
<1>5. Str(a) = [m \in 1 .. n |-> a[m - 1]]
  BY <1>1, <1>4 DEF Str
<1>6. \A m \in 1 .. n : a[m - 1] = s[m]
  <2> TAKE m \in 1 .. n
  <2>1. m - 1 \in 0 .. n - 1 /\ (m - 1) + 1 = m
    BY <1>1
  <2> QED
    BY <2>1
<1>7. s = [m \in 1 .. n |-> s[m]]
  OBVIOUS
<1> QED
  BY <1>5, <1>6, <1>7

\* A name in front of a byte that nobody wrote and a terminator: the name, or with that
\* byte behind it.
Extends(t, s) ==
  /\ t \in Seq(Char) /\ Len(t) <= Len(s) + 1 /\ Len(t) >= Len(s)
  /\ \A b \in 1 .. Len(s) : t[b] = s[b]

LEMMA RowIs ==
  ASSUME NEW row \in Bytes(NameLen + 1), NEW s \in Seq(Char), Len(s) + 1 <= NameLen + 1,
         row[Len(s)] = Nul \/ row[Len(s) + 1] = Nul, \A b \in 0 .. Len(s) - 1 : row[b] = s[b + 1]
  PROVE  Extends(Str(row), s) /\ (row[Len(s)] = Nul => Str(row) = s)
<1> DEFINE n == Len(s)
           c == row[n]
<1>1. n \in Nat /\ NameLen + 1 \in Nat /\ n <= NameLen + 1 /\ n + 1 <= NameLen + 1
  BY Sizes
<1>2. row \in [0 .. NameLen + 1 -> Char \cup {Nul}]
  BY DEF Bytes
<1>3. CASE c = Nul
  <2>1. Str(row) = s
    BY <1>1, <1>2, <1>3, StrIs
  <2> QED
    BY <1>1, <2>1 DEF Extends
<1>4. CASE c # Nul
  <2>1. c \in Char
    BY <1>1, <1>2, <1>4
  <2> DEFINE t == Append(s, c)
  <2>2. t \in Seq(Char) /\ Len(t) = n + 1 /\ t[n + 1] = c /\ \A b \in 1 .. n : t[b] = s[b]
    BY <2>1, AppendProperties
  <2>3. row[n + 1] = Nul
    BY <1>4
  <2> HIDE DEF t
  <2>4. \A b \in 0 .. Len(t) - 1 : row[b] = t[b + 1]
    <3> TAKE b \in 0 .. Len(t) - 1
    <3>1. CASE b = n
      BY <2>2, <3>1
    <3>2. CASE b # n
      <4>1. b \in 0 .. n - 1 /\ b + 1 \in 1 .. n
        BY <1>1, <2>2, <3>2
      <4> QED
        BY <2>2, <4>1
    <3> QED
      BY <3>1, <3>2
  <2>5. Len(t) <= NameLen + 1 /\ row[Len(t)] = Nul
    BY <1>1, <2>2, <2>3
  <2>6. Str(row) = t
    <3> HIDE DEF n, c
    <3> QED
      BY <1>1, <1>2, <2>2, <2>4, <2>5, StrIs
  <2>7. Extends(t, s)
    BY <1>1, <2>2 DEF Extends
  <2> QED
    BY <1>4, <2>6, <2>7
<1> QED
  BY <1>3, <1>4

\* unpack_dir_path gives the components; behind the last one, without a slash after it,
\* the byte that was in the row decides.
UnpacksTo(u, rows, path) ==
  LET names == Components(path)
      n == Len(names)
  IN  /\ u.depth = n + 1 /\ u.rows \in RowsType
      /\ Str(u.rows[0]) = <<Slash>>
      /\ \A i \in 1 .. n - 1 : Str(u.rows[i]) = names[i]
      /\ n > 0 => /\ Extends(Str(u.rows[n]), names[n])
                  /\ RowEnded(rows, path) => Str(u.rows[n]) = names[n]

LEMMA UnpackedPath ==
  ASSUME NEW rows \in RowsType, NEW path, IsShort(path)
  PROVE  /\ UnpacksTo(unpack_dir_path(rows, path), rows, path)
         /\ Components(path) \in Seq(Seq(Letter))
         /\ \A i \in 1 .. Len(Components(path)) : Len(Components(path)[i]) < NameLen
<1> DEFINE s == Split(path)
           names == Components(path)
           N == Len(path)
           L == Len(s)
           n == Len(names)
           last == Unpacking(rows, path)[N]
           u == unpack_dir_path(rows, path)
<1>1. N \in Nat /\ N \in 1 .. N /\ path # <<>> /\ IsPath(path)
  BY DEF IsShort, IsPath
<1>2. NameLen \in Nat /\ NameLen >= 1 /\ MaxDepth \in Nat /\ MaxDepth >= 1
  BY Sizes
<1>3. /\ s \in Seq(Seq(Letter)) /\ names \in Seq(Seq(Letter))
      /\ path[N] = Slash => L = n + 2 /\ s[L] = <<>>
      /\ path[N] # Slash => L = n + 1 /\ s[L] # <<>> /\ n >= 1
      /\ \A i \in 1 .. n : names[i] = s[i + 1]
  BY <1>1, ComponentsAre
<1>4. /\ \A i \in 1 .. L : Len(s[i]) < NameLen
      /\ \A i \in 1 .. L - 1 : i <= MaxDepth
      /\ s[L] = <<>> \/ L <= MaxDepth
      /\ Short(s)
  <2>1. DOMAIN s = 1 .. L
    BY <1>3
  <2>2. \A i \in 1 .. L : Len(s[i]) < NameLen
    <3> HIDE DEF L
    <3> QED
      BY <2>1 DEF IsShort
  <2>3. (\A i \in 1 .. L - 1 : i <= MaxDepth) /\ (s[L] = <<>> \/ L <= MaxDepth)
    BY DEF IsShort, Fits
  <2> QED
    BY <2>2, <2>3 DEF Short
<1>5. Holds(last, s, rows)
  BY <1>1, <1>4, Unpacked DEF Split
<1>6. u = IF path[N] = Slash THEN [rows |-> last.rows, depth |-> last.j]
          ELSE [rows |-> [last.rows EXCEPT ![last.j][last.k + 1] = Nul], depth |-> last.j + 1]
  BY <1>1 DEF unpack_dir_path
<1>a. RowEnded(rows, path) => s[L] = <<>> \/ rows[L - 1][Len(s[L])] = Nul
  BY DEF RowEnded
<1> HIDE DEF last, u, s, names
<1>7. /\ last.rows \in RowsType /\ last.j = L - 1 /\ last.k = Len(s[L])
      /\ last.rows[0][0] = Slash /\ last.rows[0][1] = Nul
      /\ \A i \in 2 .. L : \A b \in 0 .. Len(s[i]) - 1 : last.rows[i - 1][b] = s[i][b + 1]
      /\ \A i \in 2 .. L - 1 : last.rows[i - 1][Len(s[i])] = Nul
      /\ \A x \in last.j .. MaxDepth - 1 : \A y \in 0 .. NameLen + 1 :
           x > last.j \/ y >= last.k => last.rows[x][y] = rows[x][y]
  BY <1>5 DEF Holds
<1>8. L \in Nat /\ n \in Nat /\ L >= 1 /\ n <= MaxDepth - 1 /\ n <= L - 1
  <2>1. L \in Nat /\ n \in Nat
    BY <1>3
  <2> HIDE DEF L, n
  <2>2. CASE path[N] = Slash
    <3>1. L = n + 2 /\ n + 1 \in 1 .. L - 1
      BY <1>3, <2>1, <2>2
    <3>2. n + 1 <= MaxDepth
      BY <1>4, <3>1
    <3> QED
      BY <1>2, <2>1, <3>1, <3>2
  <2>3. CASE path[N] # Slash
    BY <1>2, <1>3, <1>4, <2>1, <2>3
  <2> QED
    BY <2>2, <2>3
<1> HIDE DEF L, n
<1>9. /\ u.depth = n + 1 /\ u.rows \in RowsType
      /\ path[N] = Slash => u.rows = last.rows
      /\ path[N] # Slash => /\ \A x \in 0 .. MaxDepth - 1 : \A y \in 0 .. NameLen + 1 :
                                 u.rows[x][y] = IF x = n /\ y = last.k + 1 THEN Nul ELSE last.rows[x][y]
  <2>1. CASE path[N] = Slash
    BY <1>3, <1>6, <1>7, <1>8, <2>1
  <2>2. CASE path[N] # Slash
    <3> DEFINE old == last.rows
               k == last.k
               new == [old EXCEPT ![n][k + 1] = Nul]
    <3>a. last.j = n
      BY <1>3, <1>7, <1>8, <2>2
    <3>1. last.j = n /\ u.rows = new /\ u.depth = n + 1
      BY <1>6, <2>2, <3>a
    <3>2. L \in 1 .. L /\ s[L] \in Seq(Letter)
      BY <1>3, <1>8 DEF L
    <3>3. k \in Nat /\ k < NameLen
      <4>1. Len(s[L]) \in Nat /\ Len(s[L]) < NameLen
        BY <1>4, <3>2
      <4> QED
        BY <1>7, <4>1
    <3>4. old \in RowsType /\ n \in 0 .. MaxDepth - 1 /\ k + 1 \in 0 .. NameLen + 1 /\ Nul \in Char \cup {Nul}
      BY <1>2, <1>7, <1>8, <3>3
    <3> HIDE DEF old, k
    <3>5. Wrote(new, old, n, k + 1, Nul)
      BY <3>4, Put
    <3> HIDE DEF new
    <3> QED
      BY <2>2, <3>1, <3>5 DEF Wrote, old, k
  <2> QED
    BY <2>1, <2>2
<1>10. Str(u.rows[0]) = <<Slash>>
  <2>1. 0 \in 0 .. MaxDepth - 1 /\ 0 \in 0 .. NameLen + 1 /\ 1 \in 0 .. NameLen + 1 /\ NameLen + 1 \in Nat
    BY <1>2
  <2>2. u.rows[0] \in [0 .. NameLen + 1 -> Char \cup {Nul}]
    BY <1>9, <2>1 DEF RowsType, Bytes
  <2>a. path[N] # Slash => n # 0
    BY <1>3
  <2>3. u.rows[0][0] = Slash /\ u.rows[0][1] = Nul
    BY <1>7, <1>9, <2>1, <2>a
  <2> DEFINE one == <<Slash>>
  <2>4. one \in Seq(Char) /\ Len(one) = 1 /\ one[1] = Slash
    BY Sizes
  <2>5. \A b \in 0 .. 1 - 1 : u.rows[0][b] = one[b + 1]
    BY <2>3, <2>4
  <2> HIDE DEF one
  <2>6. Len(one) <= NameLen + 1 /\ u.rows[0][Len(one)] = Nul
    BY <1>2, <2>3, <2>4
  <2>7. Str(u.rows[0]) = one
    BY <2>1, <2>2, <2>4, <2>5, <2>6, StrIs
  <2> QED
    BY <2>7 DEF one
<1>11. ASSUME NEW i \in 1 .. n
       PROVE  /\ names[i] \in Seq(Char) /\ Len(names[i]) \in Nat /\ Len(names[i]) < NameLen
              /\ i + 1 \in 2 .. L /\ i \in 0 .. MaxDepth - 1
              /\ (i + 1) - 1 = i /\ names[i] = s[i + 1]
  <2>1. i + 1 \in 2 .. L /\ i + 1 \in 1 .. L /\ i \in 0 .. MaxDepth - 1 /\ (i + 1) - 1 = i
    BY <1>2, <1>8
  <2>2. names[i] = s[i + 1] /\ Len(s[i + 1]) < NameLen
    BY <1>3, <1>4, <2>1
  <2>3. names[i] \in Seq(Letter)
    BY <1>3, <1>8 DEF n
  <2>4. names[i] \in Seq(Char) /\ Len(names[i]) \in Nat
    BY <2>3 DEF Letter
  <2> QED
    BY <2>1, <2>2, <2>4
<1>12. ASSUME NEW i \in 1 .. n
       PROVE  /\ \A b \in 0 .. Len(names[i]) - 1 : u.rows[i][b] = names[i][b + 1]
              /\ path[N] = Slash \/ i # n => u.rows[i][Len(names[i])] = Nul
              /\ path[N] # Slash /\ i = n =>
                   /\ u.rows[i][Len(names[i]) + 1] = Nul
                   /\ u.rows[i][Len(names[i])] = rows[L - 1][Len(s[L])]
  <2> DEFINE z == Len(names[i])
  <2>1. /\ names[i] \in Seq(Char) /\ z \in Nat /\ z < NameLen
        /\ i + 1 \in 2 .. L /\ i \in 0 .. MaxDepth - 1
        /\ (i + 1) - 1 = i /\ names[i] = s[i + 1]
    BY <1>11
  <2>2. \A b \in 0 .. z - 1 : last.rows[i][b] = names[i][b + 1]
    BY <1>7, <2>1
  <2>3. path[N] = Slash \/ i # n => last.rows[i][z] = Nul
    <3> SUFFICES ASSUME path[N] = Slash \/ i # n PROVE i + 1 \in 2 .. L - 1
      BY <1>7, <2>1
    <3>1. CASE path[N] = Slash
      BY <1>3, <1>8, <2>1, <3>1
    <3>2. CASE path[N] # Slash
      BY <1>3, <1>8, <2>1, <3>2
    <3> QED
      BY <3>1, <3>2
  <2> HIDE DEF z
  <2>4. CASE path[N] = Slash
    BY <1>9, <2>2, <2>3, <2>4 DEF z
  <2>5. CASE path[N] # Slash /\ i # n
    <3>1. ASSUME NEW y \in 0 .. NameLen + 1 PROVE u.rows[i][y] = last.rows[i][y]
      BY <1>9, <2>1, <2>5
    <3>2. z \in 0 .. NameLen + 1 /\ \A b \in 0 .. z - 1 : b \in 0 .. NameLen + 1
      BY <1>2, <2>1
    <3>3. u.rows[i][z] = Nul /\ \A b \in 0 .. z - 1 : u.rows[i][b] = names[i][b + 1]
      BY <2>2, <2>3, <2>5, <3>1, <3>2
    <3> QED
      BY <2>5, <3>3 DEF z
  <2>6. CASE path[N] # Slash /\ i = n
    <3>1. L = n + 1 /\ last.k = z /\ last.j = n /\ L - 1 = n
      BY <1>3, <1>7, <1>8, <2>1, <2>6 DEF z
    <3>2. z + 1 \in 0 .. NameLen + 1 /\ z \in 0 .. NameLen + 1 /\ z # z + 1
          /\ \A b \in 0 .. z - 1 : b \in 0 .. NameLen + 1 /\ b # z + 1
      BY <1>2, <2>1
    <3>3. u.rows[i][z + 1] = Nul /\ u.rows[i][z] = last.rows[i][z]
      BY <1>9, <2>1, <2>6, <3>1, <3>2
    <3>4. \A b \in 0 .. z - 1 : u.rows[i][b] = names[i][b + 1]
      BY <1>9, <2>1, <2>2, <2>6, <3>1, <3>2
    <3>5. last.rows[i][z] = rows[i][z]
      <4>1. i \in last.j .. MaxDepth - 1 /\ z >= last.k
        BY <2>1, <2>6, <3>1
      <4> QED
        BY <1>7, <3>2, <4>1
    <3>6. Len(s[L]) = z /\ i = L - 1
      BY <1>7, <2>6, <3>1
    <3> QED
      BY <2>6, <3>3, <3>4, <3>5, <3>6 DEF z
  <2> QED
    BY <2>4, <2>5, <2>6
<1>13. ASSUME NEW i \in 1 .. n
       PROVE  /\ Extends(Str(u.rows[i]), names[i])
              /\ u.rows[i][Len(names[i])] = Nul => Str(u.rows[i]) = names[i]
  <2> DEFINE row == u.rows[i]
             t == names[i]
  <2>1. row \in Bytes(NameLen + 1)
    BY <1>9, <1>11 DEF RowsType
  <2>2. t \in Seq(Char) /\ Len(t) + 1 <= NameLen + 1
    BY <1>2, <1>11
  <2>3. row[Len(t)] = Nul \/ row[Len(t) + 1] = Nul
    BY <1>12
  <2>4. \A b \in 0 .. Len(t) - 1 : row[b] = t[b + 1]
    BY <1>12
  <2> HIDE DEF row, t
  <2>5. Extends(Str(row), t) /\ (row[Len(t)] = Nul => Str(row) = t)
    BY <2>1, <2>2, <2>3, <2>4, RowIs
  <2> QED
    BY <2>5 DEF row, t
<1>14. \A i \in 1 .. n - 1 : Str(u.rows[i]) = names[i]
  <2> TAKE i \in 1 .. n - 1
  <2>1. i \in 1 .. n /\ i # n
    BY <1>8
  <2> QED
    BY <1>12, <1>13, <2>1
<1>15. n > 0 => /\ Extends(Str(u.rows[n]), names[n])
                /\ RowEnded(rows, path) => Str(u.rows[n]) = names[n]
  <2> SUFFICES ASSUME n > 0 PROVE /\ Extends(Str(u.rows[n]), names[n])
                                  /\ RowEnded(rows, path) => Str(u.rows[n]) = names[n]
    OBVIOUS
  <2>1. n \in 1 .. n
    BY <1>8
  <2>2. RowEnded(rows, path) => u.rows[n][Len(names[n])] = Nul
    BY <1>3, <1>12, <1>a, <2>1
  <2> QED
    BY <1>13, <2>1, <2>2
<1>16. UnpacksTo(u, rows, path)
  BY <1>9, <1>10, <1>14, <1>15 DEF UnpacksTo, n, names
<1> QED
  BY <1>3, <1>11, <1>16 DEF u, names, n

-----------------------------------------------------------------------------
(***************************************************************************)
(* Listing a directory and taking one component.                           *)
(***************************************************************************)
\* Directories have names.
TreeType(t) ==
  /\ t \in [Dirs -> Seq([name : Seq(Char), ino : Nat \ {0}])]
  /\ \A d \in Dirs : \A n \in 1 .. Len(t[d]) :
       Len(t[d][n].name) <= NameLen /\ (t[d][n].name = <<>> => t[d][n].ino \notin Dirs)

LEMMA ListedIs ==
  ASSUME NEW t, TreeType(t), NEW ino
  PROVE  /\ Count(t, ino) \in 0 .. MaxListed /\ Count(t, ino) <= Len(Listed(t, ino))
         /\ \A n \in 1 .. Count(t, ino) :
              LET e == Listed(t, ino)[n]
              IN  /\ e.name \in Seq(Char) /\ Len(e.name) <= NameLen /\ e.ino \in Nat \ {0}
                  /\ e.name = <<>> => e.ino \notin Dirs
<1>1. MaxListed \in Nat
  BY Sizes
<1>2. CASE ino \notin Dirs
  <2>1. Listed(t, ino) = <<>> /\ Len(Listed(t, ino)) = 0
    BY <1>2 DEF Listed
  <2>2. Count(t, ino) = 0
    BY <1>1, <2>1 DEF Count
  <2> QED
    BY <1>1, <2>1, <2>2
<1>3. CASE ino \in Dirs
  <2> DEFINE l == t[ino]
             R == [name : Seq(Char), ino : Nat \ {0}]
  <2>1. Listed(t, ino) = l
    BY <1>3 DEF Listed
  <2>2. /\ l \in Seq(R)
        /\ \A n \in 1 .. Len(l) : Len(l[n].name) <= NameLen /\ (l[n].name = <<>> => l[n].ino \notin Dirs)
    BY <1>3 DEF TreeType
  <2> HIDE DEF l, R
  <2>3. Count(t, ino) \in 0 .. MaxListed /\ Count(t, ino) <= Len(l) /\ Len(l) \in Nat
    BY <1>1, <2>1, <2>2 DEF Count
  <2>4. ASSUME NEW n \in 1 .. Count(t, ino) PROVE l[n] \in R /\ n \in 1 .. Len(l)
    <3>1. n \in 1 .. Len(l)
      BY <2>3
    <3> QED
      BY <2>2, <3>1, ElementOfSeq
  <2>5. \A n \in 1 .. Count(t, ino) :
          /\ l[n].name \in Seq(Char) /\ Len(l[n].name) <= NameLen /\ l[n].ino \in Nat \ {0}
          /\ l[n].name = <<>> => l[n].ino \notin Dirs
    BY <2>2, <2>4 DEF R
  <2> QED
    BY <2>1, <2>3, <2>5
<1> QED
  BY <1>2, <1>3

\* A string that begins with a name, and one that an array with this name holds.
StartsWith(t, s) == Len(t) >= Len(s) /\ \A b \in 1 .. Len(s) : t[b] = s[b]

LEMMA StrStarts ==
  ASSUME NEW M \in Nat, NEW S, NEW a \in [0 .. M -> S], NEW s \in Seq(Char), Len(s) <= M,
         \A b \in 0 .. Len(s) - 1 : a[b] = s[b + 1]
  PROVE  StartsWith(Str(a), s)
<1> DEFINE ends == {b \in DOMAIN a : a[b] = Nul}
           n == Len(s)
           len == IF ends = {} THEN Cardinality(DOMAIN a) ELSE Min(ends)
<1>1. n \in Nat /\ ends \subseteq Nat /\ DOMAIN a = 0 .. M
  OBVIOUS
<1>2. ASSUME NEW b \in 0 .. n - 1 PROVE b \notin ends
  <2>1. b + 1 \in 1 .. n /\ s[b + 1] \in Char
    BY <1>1
  <2> QED
    BY <2>1, Sizes
<1>3. len \in Nat /\ n <= len
  <2>1. CASE ends = {}
    <3>1. Cardinality(0 .. M) = M - 0 + 1
      BY FS_Interval
    <3> QED
      BY <1>1, <2>1, <3>1
  <2>2. CASE ends # {}
    <3> DEFINE m == Min(ends)
    <3>1. m \in ends
      <4> HIDE DEF ends
      <4> QED
        BY <1>1, <2>2, MinOfNaturals
    <3>2. len = m
      BY <2>2
    <3> HIDE DEF m, len
    <3>3. m \in Nat /\ m \notin 0 .. n - 1
      BY <1>1, <1>2, <3>1
    <3> QED
      BY <1>1, <3>2, <3>3
  <2> QED
    BY <2>1, <2>2
<1>4. Str(a) = [m \in 1 .. len |-> a[m - 1]]
  BY DEF Str
<1> HIDE DEF len
<1>5. \A m \in 1 .. n : Str(a)[m] = s[m]
  <2> TAKE m \in 1 .. n
  <2>1. m \in 1 .. len /\ m - 1 \in 0 .. n - 1 /\ (m - 1) + 1 = m
    BY <1>1, <1>3
  <2> QED
    BY <1>4, <2>1
<1>6. Len(Str(a)) = len
  BY <1>3, <1>4
<1> QED
  BY <1>3, <1>5, <1>6 DEF StartsWith

\* memcpy of a name without its terminator.
LEMMA CopyIs ==
  ASSUME NEW row \in Bytes(NameLen), NEW s \in Seq(Char), Len(s) <= NameLen
  PROVE  LET new == CopyTo(row, s)
         IN  /\ new \in Bytes(NameLen)
             /\ \A b \in 0 .. NameLen : b >= Len(s) => new[b] = row[b]
             /\ StartsWith(Str(new), s)
             /\ row[Len(s)] = Nul => Str(new) = s
<1> DEFINE new == CopyTo(row, s)
           n == Len(s)
<1>1. DOMAIN row = 0 .. NameLen /\ NameLen \in Nat /\ n \in Nat
  BY Sizes DEF Bytes
<1>2. new = [b \in 0 .. NameLen |-> IF b < n THEN s[b + 1] ELSE row[b]]
  BY <1>1 DEF CopyTo
<1>3. new \in [0 .. NameLen -> Char \cup {Nul}]
  <2>1. ASSUME NEW b \in 0 .. NameLen
        PROVE  (IF b < n THEN s[b + 1] ELSE row[b]) \in Char \cup {Nul}
    <3>1. b < n => b + 1 \in 1 .. n
      BY <1>1
    <3>2. row[b] \in Char \cup {Nul}
      BY DEF Bytes
    <3> QED
      BY <3>1, <3>2
  <2> QED
    BY <1>2, <2>1
<1>4. /\ \A b \in 0 .. NameLen : b >= n => new[b] = row[b]
      /\ \A b \in 0 .. n - 1 : new[b] = s[b + 1]
  BY <1>1, <1>2
<1> HIDE DEF new
<1>5. StartsWith(Str(new), s)
  BY <1>1, <1>3, <1>4, StrStarts
<1>6. row[n] = Nul => Str(new) = s
  <2>1. n \in 0 .. NameLen
    BY <1>1
  <2>2. row[n] = Nul => new[n] = Nul
    BY <1>4, <2>1
  <2> QED
    BY <1>1, <1>3, <1>4, <2>2, StrIs
<1> QED
  BY <1>3, <1>4, <1>5, <1>6 DEF new, Bytes

\* A listing: entry n is written, but for the bytes behind its name.
IsListing(e, entries, t, ino) ==
  /\ e \in EntriesType
  /\ \A n \in 1 .. MaxListed : \A b \in 0 .. NameLen :
       (n <= Count(t, ino) => b >= Len(Listed(t, ino)[n].name))
         => e[n].name[b] = entries[n].name[b]
  /\ \A n \in 1 .. Count(t, ino) :
       LET name == Listed(t, ino)[n].name
       IN  /\ e[n].ino = Listed(t, ino)[n].ino
           /\ StartsWith(Str(e[n].name), name)
           /\ entries[n].name[Len(name)] = Nul => Str(e[n].name) = name

LEMMA EntriesListed ==
  ASSUME NEW t, TreeType(t), NEW ino, NEW entries \in EntriesType
  PROVE  IsListing(ListInto(entries, t, ino), entries, t, ino)
<1> DEFINE e == ListInto(entries, t, ino)
           l == Listed(t, ino)
           k == Count(t, ino)
<1>1. /\ k \in 0 .. MaxListed /\ MaxListed \in Nat
      /\ \A n \in 1 .. k : l[n].name \in Seq(Char) /\ Len(l[n].name) <= NameLen /\ l[n].ino \in Nat
  BY ListedIs, Sizes
<1>2. /\ DOMAIN entries = 1 .. MaxListed
      /\ \A n \in 1 .. MaxListed : entries[n].name \in Bytes(NameLen) /\ entries[n].ino \in Nat
      /\ \A n \in 1 .. MaxListed : entries[n] \in [name : Bytes(NameLen), ino : Nat]
  <2>1. entries \in [1 .. MaxListed -> [name : Bytes(NameLen), ino : Nat]]
    BY DEF EntriesType
  <2> QED
    BY <2>1
<1>3. e = [n \in 1 .. MaxListed |->
             IF n <= k THEN [name |-> CopyTo(entries[n].name, l[n].name), ino |-> l[n].ino]
             ELSE entries[n]]
  BY <1>2 DEF ListInto
<1> HIDE DEF e, l, k
<1>4. ASSUME NEW n \in 1 .. MaxListed
      PROVE  /\ e[n] \in [name : Bytes(NameLen), ino : Nat]
             /\ \A b \in 0 .. NameLen : (n <= k => b >= Len(l[n].name)) => e[n].name[b] = entries[n].name[b]
             /\ n <= k => /\ e[n].ino = l[n].ino
                          /\ StartsWith(Str(e[n].name), l[n].name)
                          /\ entries[n].name[Len(l[n].name)] = Nul => Str(e[n].name) = l[n].name
  <2>1. CASE n <= k
    <3>1. n \in 1 .. k /\ entries[n].name \in Bytes(NameLen)
      BY <1>1, <1>2, <2>1
    <3> DEFINE row == entries[n].name
               s == l[n].name
               new == CopyTo(row, s)
    <3>2. s \in Seq(Char) /\ Len(s) <= NameLen /\ l[n].ino \in Nat
      BY <1>1, <3>1
    <3>3. e[n] = [name |-> new, ino |-> l[n].ino]
      BY <1>3, <2>1
    <3>4. e[n].name = new /\ e[n].ino = l[n].ino
      BY <3>3
    <3> HIDE DEF row, s
    <3>5. /\ new \in Bytes(NameLen)
          /\ \A b \in 0 .. NameLen : b >= Len(s) => new[b] = row[b]
          /\ StartsWith(Str(new), s)
          /\ row[Len(s)] = Nul => Str(new) = s
      BY <3>1, <3>2, CopyIs DEF row
    <3> HIDE DEF new
    <3>6. e[n] \in [name : Bytes(NameLen), ino : Nat]
      BY <3>2, <3>3, <3>5
    <3> QED
      BY <2>1, <3>4, <3>5, <3>6 DEF row, s
  <2>2. CASE ~(n <= k)
    BY <1>2, <1>3, <2>2
  <2> QED
    BY <2>1, <2>2
<1>5. e \in EntriesType
  <2>1. e = [n \in 1 .. MaxListed |-> e[n]]
    BY <1>3
  <2> QED
    BY <1>4, <2>1 DEF EntriesType
<1>6. \A n \in 1 .. k : n \in 1 .. MaxListed /\ n <= k
  BY <1>1
<1>7. /\ \A n \in 1 .. MaxListed : \A b \in 0 .. NameLen :
           (n <= k => b >= Len(l[n].name)) => e[n].name[b] = entries[n].name[b]
      /\ \A n \in 1 .. k : /\ e[n].ino = l[n].ino
                           /\ StartsWith(Str(e[n].name), l[n].name)
                           /\ entries[n].name[Len(l[n].name)] = Nul => Str(e[n].name) = l[n].name
  BY <1>4, <1>6
<1> QED
  BY <1>5, <1>7 DEF IsListing, e, l, k

\* One component: an entry whose name the component starts with, and the child of that
\* name when there are terminators behind the names.
LEMMA ComponentIs ==
  ASSUME NEW t, TreeType(t), NEW w, w.entries \in EntriesType, NEW row
  PROVE  LET c == Component(t, w, row)
             l == Listed(t, w.ino)
             child == Child(t, w.ino, Str(row))
         IN  /\ IsListing(c.entries, w.entries, t, w.ino)
             /\ \/ c.ino = w.ino
                \/ \E n \in 1 .. Count(t, w.ino) : c.ino = l[n].ino /\ StartsWith(Str(row), l[n].name)
             /\ (\A n \in 1 .. Count(t, w.ino) : w.entries[n].name[Len(l[n].name)] = Nul)
                  => child \in Nat /\ c.ino = IF child = 0 THEN w.ino ELSE child
<1> DEFINE e == ListInto(w.entries, t, w.ino)
           k == Count(t, w.ino)
           l == Listed(t, w.ino)
           hits == {n \in 1 .. k : l[n].name = Str(row)}
           shown == {n \in 1 .. k : Str(e[n].name) = Str(row)}
           c == Component(t, w, row)
           child == Child(t, w.ino, Str(row))
           Terminated == \A n \in 1 .. k : w.entries[n].name[Len(l[n].name)] = Nul
<1>1. IsListing(e, w.entries, t, w.ino)
  BY EntriesListed
<1>2. \A n \in 1 .. k : /\ e[n].ino = l[n].ino /\ StartsWith(Str(e[n].name), l[n].name)
                        /\ w.entries[n].name[Len(l[n].name)] = Nul => Str(e[n].name) = l[n].name
  BY <1>1 DEF IsListing
<1>3. k \in Nat /\ \A n \in 1 .. k : l[n].ino \in Nat \ {0}
  <2>1. k \in 0 .. MaxListed /\ MaxListed \in Nat
    BY ListedIs, Sizes
  <2>2. k \in Nat
    <3> HIDE DEF k
    <3> QED
      BY <2>1
  <2> QED
    BY <2>2, ListedIs
<1>4. c = [entries |-> e, ino |-> IF shown = {} THEN w.ino ELSE e[Min(shown)].ino]
  BY DEF Component
<1>5. child = IF hits = {} THEN 0 ELSE l[Min(hits)].ino
  BY DEF Child
<1>6. shown # {} => Min(shown) \in shown
  <2>1. shown \subseteq Nat
    OBVIOUS
  <2> HIDE DEF shown
  <2> QED
    BY <2>1, MinOfNaturals
<1>7. Terminated => shown = hits
  BY <1>2
<1> DEFINE m == Min(shown)
<1>8. c.entries = e /\ c.ino = IF shown = {} THEN w.ino ELSE e[m].ino
  BY <1>4
<1>9. shown # {} => m \in 1 .. k /\ Str(e[m].name) = Str(row)
  BY <1>6
<1>10. Terminated => child = IF shown = {} THEN 0 ELSE l[m].ino
  <2> HIDE DEF shown, hits, Terminated, child
  <2> QED
    BY <1>5, <1>7
<1> HIDE DEF shown, m, c, e, child, Terminated, l, k
<1>11. c.ino = w.ino \/ \E n \in 1 .. k : c.ino = l[n].ino /\ StartsWith(Str(row), l[n].name)
  <2> SUFFICES ASSUME shown # {} PROVE \E n \in 1 .. k : c.ino = l[n].ino /\ StartsWith(Str(row), l[n].name)
    BY <1>8
  <2>1. m \in 1 .. k /\ c.ino = l[m].ino /\ StartsWith(Str(row), l[m].name)
    <3>1. m \in 1 .. k /\ Str(e[m].name) = Str(row) /\ c.ino = e[m].ino
      BY <1>8, <1>9
    <3>2. e[m].ino = l[m].ino /\ StartsWith(Str(e[m].name), l[m].name)
      BY <1>2, <3>1
    <3> QED
      BY <3>1, <3>2
  <2> QED
    BY <2>1
<1>12. Terminated => child \in Nat /\ c.ino = IF child = 0 THEN w.ino ELSE child
  <2>1. CASE shown = {}
    BY <1>8, <1>10, <2>1
  <2>2. CASE shown # {}
    <3>1. m \in 1 .. k /\ c.ino = e[m].ino
      BY <1>8, <1>9, <2>2
    <3>2. e[m].ino = l[m].ino /\ l[m].ino \in Nat /\ l[m].ino # 0
      BY <1>2, <1>3, <3>1
    <3> QED
      BY <1>10, <2>2, <3>1, <3>2
  <2> QED
    BY <2>1, <2>2
<1> QED
  BY <1>1, <1>8, <1>11, <1>12 DEF Terminated, c, child, e, l, k

-----------------------------------------------------------------------------
(***************************************************************************)
(* The loop over the components.                                           *)
(***************************************************************************)
\* Behind the names of the directories still ahead, from component i on, there are
\* terminators, and no listing before them reaches that far.
EndedFrom(t, entries, names, i) ==
  \A x \in i .. Len(names) : \A n \in 1 .. Count(t, Resolving(t, names)[x - 1].ino) :
    entries[n].name[NameEnd(t, names, x, n)] = Nul

Widening(t, names) ==
  \A x \in 1 .. Len(names) : \A n \in 1 .. Count(t, Resolving(t, names)[x - 1].ino) :
    \A h \in 1 .. x - 1 : NameEnd(t, names, h, n) <= NameEnd(t, names, x, n)

\* The loop and the reference after i components.
InStep(t, names, i, w, r, stops) ==
  /\ w.entries \in EntriesType
  /\ ~r.lost => w.ino = r.ino /\ ~w.stuck /\ EndedFrom(t, w.entries, names, i + 1)
  /\ stops /\ r.lost => w.ino = r.ino /\ w.stuck

\* A listing leaves the terminators of the directories ahead alone.
LEMMA EndsKept ==
  ASSUME NEW t, TreeType(t), NEW names, Len(names) \in Nat, Widening(t, names),
         NEW i \in 0 .. Len(names) - 1,
         NEW dir, dir = Resolving(t, names)[i].ino,
         NEW entries, EndedFrom(t, entries, names, i + 1),
         NEW e, IsListing(e, entries, t, dir)
  PROVE  EndedFrom(t, e, names, (i + 1) + 1)
<1> DEFINE L == Len(names)
           R == Resolving(t, names)
<1>1. L \in Nat /\ i \in Nat /\ i + 1 <= L
  OBVIOUS
<1> SUFFICES ASSUME NEW x \in (i + 1) + 1 .. L, NEW n \in 1 .. Count(t, R[x - 1].ino)
             PROVE  e[n].name[NameEnd(t, names, x, n)] = Nul
  BY DEF EndedFrom
<1> DEFINE b == NameEnd(t, names, x, n)
           a == NameEnd(t, names, i + 1, n)
<1>2. x \in 1 .. L /\ x \in i + 1 .. L /\ i + 1 \in 1 .. x - 1 /\ (i + 1) - 1 = i
  BY <1>1
<1>3. entries[n].name[b] = Nul
  BY <1>2 DEF EndedFrom
<1>4. a <= b
  BY <1>2 DEF Widening
<1>5. n \in Nat /\ n <= Count(t, R[x - 1].ino) /\ n \in 1 .. MaxListed
  <2>1. Count(t, R[x - 1].ino) \in 0 .. MaxListed /\ MaxListed \in Nat
    BY ListedIs, Sizes
  <2> DEFINE z == Count(t, R[x - 1].ino)
  <2>2. z \in 0 .. MaxListed /\ n \in 1 .. z
    BY <2>1
  <2> HIDE DEF z
  <2>3. n \in Nat /\ n <= z /\ n \in 1 .. MaxListed
    BY <2>1, <2>2
  <2> QED
    BY <2>3 DEF z
<1>6. b \in 0 .. NameLen
  <2>1. b = Len(Listed(t, R[x - 1].ino)[n].name)
    BY <1>5 DEF NameEnd
  <2> DEFINE s == Listed(t, R[x - 1].ino)[n].name
  <2>2. s \in Seq(Char) /\ Len(s) <= NameLen
    BY ListedIs
  <2> HIDE DEF s
  <2>3. Len(s) \in 0 .. NameLen
    BY <2>2, Sizes
  <2> QED
    BY <2>1, <2>3 DEF s
<1>7. n <= Count(t, dir) => b >= Len(Listed(t, dir)[n].name)
  <2> SUFFICES ASSUME n <= Count(t, dir) PROVE b >= Len(Listed(t, dir)[n].name)
    OBVIOUS
  <2>1. a = Len(Listed(t, dir)[n].name)
    BY <1>2 DEF NameEnd
  <2>2. n \in 1 .. Count(t, dir)
    <3>1. Count(t, dir) \in 0 .. MaxListed
      BY ListedIs
    <3> DEFINE z == Count(t, dir)
    <3>2. z \in 0 .. MaxListed /\ n <= z
      BY <3>1
    <3> HIDE DEF z
    <3>3. n \in 1 .. z
      BY <1>5, <3>2, Sizes
    <3> QED
      BY <3>3 DEF z
  <2> DEFINE s == Listed(t, dir)[n].name
  <2>3. Len(s) \in Nat
    <3>1. s \in Seq(Char)
      BY <2>2, ListedIs
    <3> HIDE DEF s
    <3> QED
      BY <3>1
  <2> HIDE DEF s, a, b
  <2> QED
    BY <1>4, <1>6, <2>1, <2>3, Sizes DEF s
<1>8. e[n].name[b] = entries[n].name[b]
  <2> HIDE DEF b
  <2> QED
    BY <1>5, <1>6, <1>7 DEF IsListing
<1> QED
  BY <1>3, <1>8

LEMMA StaysInStep ==
  ASSUME NEW t, TreeType(t), NEW names, Len(names) \in Nat, Widening(t, names),
         NEW stops \in BOOLEAN, NEW i \in 0 .. Len(names) - 1, NEW w, NEW row,
         LET R == Resolving(t, names)
         IN  /\ InStep(t, names, i, w, R[i], stops)
             /\ Str(row) = names[i + 1]
             /\ stops => R[i + 1].lost \/ R[i + 1].ino # R[i].ino
  PROVE  InStep(t, names, i + 1, Follow(t, w, row, stops), Resolving(t, names)[i + 1], stops)
<1> DEFINE R == Resolving(t, names)
           r == R[i]
           q == R[i + 1]
           name == names[i + 1]
           c == Component(t, w, row)
           child == Child(t, w.ino, name)
           v == Follow(t, w, row, stops)
<1>1. q = Resolve(t, r, name)
  <2>1. i + 1 \in 1 .. Len(names) /\ (i + 1) - 1 = i
    OBVIOUS
  <2> QED
    BY <2>1, ResolvingIs
<1>2. /\ w.entries \in EntriesType
      /\ ~r.lost => w.ino = r.ino /\ ~w.stuck /\ EndedFrom(t, w.entries, names, i + 1)
      /\ stops /\ r.lost => w.ino = r.ino /\ w.stuck
      /\ Str(row) = name
      /\ stops => q.lost \/ q.ino # r.ino
  BY DEF InStep
<1>3. /\ IsListing(c.entries, w.entries, t, w.ino)
      /\ (\A n \in 1 .. Count(t, w.ino) : w.entries[n].name[Len(Listed(t, w.ino)[n].name)] = Nul)
           => child \in Nat /\ c.ino = IF child = 0 THEN w.ino ELSE child
  BY <1>2, ComponentIs
<1>4. v = IF w.stuck THEN w
          ELSE [entries |-> c.entries, ino |-> c.ino, stuck |-> stops /\ c.ino = w.ino]
  BY DEF Follow
<1>5. v.entries \in EntriesType
  <2>1. c.entries \in EntriesType
    BY <1>3 DEF IsListing
  <2>2. v.entries = w.entries \/ v.entries = c.entries
    BY <1>4
  <2> QED
    BY <1>2, <2>1, <2>2
<1>6. CASE r.lost
  <2>1. q.ino = r.ino /\ q.lost
    BY <1>1, <1>6 DEF Resolve
  <2>2. stops => v = w
    BY <1>2, <1>4, <1>6
  <2> HIDE DEF q, v, r
  <2> QED
    BY <1>2, <1>5, <1>6, <2>1, <2>2 DEF InStep, q, v, r
<1>7. CASE ~r.lost
  <2>1. w.ino = r.ino /\ ~w.stuck /\ EndedFrom(t, w.entries, names, i + 1)
    BY <1>2, <1>7
  <2>2. i + 1 \in i + 1 .. Len(names) /\ (i + 1) - 1 = i
    OBVIOUS
  <2>3. \A n \in 1 .. Count(t, w.ino) : w.entries[n].name[Len(Listed(t, w.ino)[n].name)] = Nul
    <3> TAKE n \in 1 .. Count(t, w.ino)
    <3>1. w.entries[n].name[NameEnd(t, names, i + 1, n)] = Nul
      BY <2>1, <2>2 DEF EndedFrom
    <3>2. n <= Count(t, w.ino)
      BY ListedIs
    <3>3. NameEnd(t, names, i + 1, n) = Len(Listed(t, w.ino)[n].name)
      BY <2>1, <2>2, <3>2 DEF NameEnd
    <3> QED
      BY <3>1, <3>3
  <2>4. child \in Nat /\ c.ino = IF child = 0 THEN w.ino ELSE child
    BY <1>3, <2>3
  <2>5. q = IF child = 0 THEN [ino |-> r.ino, lost |-> TRUE] ELSE [ino |-> child, lost |-> FALSE]
    BY <1>1, <1>7, <2>1 DEF Resolve
  <2>6. v.ino = c.ino /\ v.stuck = (stops /\ c.ino = w.ino) /\ v.entries = c.entries
    BY <1>4, <2>1
  <2>7. EndedFrom(t, v.entries, names, (i + 1) + 1)
    <3>1. IsListing(v.entries, w.entries, t, w.ino) /\ w.ino = R[i].ino
      BY <1>3, <2>1, <2>6
    <3> HIDE DEF v
    <3> QED
      BY <2>1, <3>1, EndsKept
  <2> HIDE DEF child, q, v, c, r
  <2>8. CASE child = 0
    <3>1. q.ino = r.ino /\ q.lost
      BY <2>5, <2>8
    <3>2. v.ino = q.ino /\ (stops => v.stuck)
      BY <2>1, <2>4, <2>6, <2>8, <3>1
    <3> QED
      BY <1>5, <3>1, <3>2 DEF InStep, q, v
  <2>9. CASE child # 0
    <3>1. q.ino = child /\ ~q.lost
      BY <2>5, <2>9
    <3>2. v.ino = q.ino /\ ~v.stuck
      BY <1>2, <2>1, <2>4, <2>6, <2>9, <3>1
    <3> QED
      BY <1>5, <2>7, <3>1, <3>2 DEF InStep, q, v
  <2> QED
    BY <2>8, <2>9
<1> QED
  BY <1>6, <1>7

\* A lookup whose bytes are ended as they should be follows the path.
LEMMA Walked ==
  ASSUME NEW t, TreeType(t), NEW f, f.rows \in RowsType, f.entries \in EntriesType,
         NEW path, IsShort(path), RowEnded(f.rows, path), NamesEnded(t, f.entries, Components(path)),
         NEW stops \in BOOLEAN, stops => Moves(t, Components(path))
  PROVE  LET names == Components(path)
             end == Resolving(t, names)[Len(names)]
         IN  stops \/ ~end.lost => Walk(t, f, path, stops) = end.ino
<1> DEFINE names == Components(path)
           u == unpack_dir_path(f.rows, path)
           n == Len(names)
           W == Following(t, f.entries, u, stops)
           R == Resolving(t, names)
           E == {i \in 0 .. n : InStep(t, names, i, W[i], R[i], stops)}
<1>1. UnpacksTo(u, f.rows, path) /\ names \in Seq(Seq(Letter))
  BY UnpackedPath
<1>2. /\ u.depth = n + 1
      /\ \A i \in 1 .. n - 1 : Str(u.rows[i]) = names[i]
      /\ n > 0 => Str(u.rows[n]) = names[n]
  BY <1>1 DEF UnpacksTo
<1>3. n \in Nat
  BY <1>1
<1>4. EndedFrom(t, f.entries, names, 1) /\ Widening(t, names)
  BY DEF NamesEnded, EndedFrom, Widening
<1>5. stops => \A i \in 1 .. n : R[i].lost \/ R[i].ino # R[i - 1].ino
  BY DEF Moves
<1>6. Walk(t, f, path, stops) = W[u.depth - 1].ino
  BY DEF Walk
<1> HIDE DEF names, u
<1>7. \A i \in 1 .. n : Str(u.rows[i]) = names[i]
  <2> TAKE i \in 1 .. n
  <2>1. i \in 1 .. n - 1 \/ (i = n /\ n > 0)
    BY <1>3
  <2> QED
    BY <1>2, <2>1
<1>8. u.depth - 1 = n
  <2> HIDE DEF n
  <2> QED
    BY <1>2, <1>3
<1>9. /\ W[0] = [entries |-> f.entries, ino |-> Root, stuck |-> FALSE]
      /\ \A i \in 1 .. n : W[i] = Follow(t, W[i - 1], u.rows[i], stops)
  <2>1. u.depth - 1 \in Nat
    BY <1>3, <1>8
  <2>2. /\ W[0] = [entries |-> f.entries, ino |-> Root, stuck |-> FALSE]
        /\ \A i \in 1 .. u.depth - 1 : W[i] = Follow(t, W[i - 1], u.rows[i], stops)
    BY <2>1, FollowingIs
  <2> HIDE DEF W, n
  <2> QED
    BY <1>8, <2>2
<1>10. R[0] = [ino |-> Root, lost |-> FALSE]
  BY <1>3, ResolvingIs
<1> HIDE DEF W
<1>11. 0 \in E
  <2>1. /\ W[0].entries = f.entries /\ W[0].ino = Root /\ ~W[0].stuck
        /\ R[0].ino = Root /\ ~R[0].lost /\ 0 + 1 = 1
    BY <1>9, <1>10
  <2> HIDE DEF R
  <2>2. InStep(t, names, 0, W[0], R[0], stops)
    BY <1>4, <2>1 DEF InStep
  <2> QED
    BY <1>3, <2>2
<1>12. ASSUME NEW i \in 0 .. n - 1, i \in E PROVE i + 1 \in E
  <2>1. i + 1 \in 1 .. n /\ i + 1 \in 0 .. n /\ (i + 1) - 1 = i
    BY <1>3
  <2> DEFINE w == W[i]
             row == u.rows[i + 1]
  <2>2. W[i + 1] = Follow(t, w, row, stops)
    BY <1>9, <2>1
  <2>3. InStep(t, names, i, w, R[i], stops)
    BY <1>12
  <2>4. Str(row) = names[i + 1] /\ (stops => R[i + 1].lost \/ R[i + 1].ino # R[i].ino)
    BY <1>5, <1>7, <2>1
  <2> HIDE DEF w, row
  <2>5. InStep(t, names, i + 1, Follow(t, w, row, stops), R[i + 1], stops)
    BY <1>3, <1>4, <2>3, <2>4, StaysInStep
  <2> QED
    BY <2>1, <2>2, <2>5
<1>13. InStep(t, names, n, W[n], R[n], stops)
  <2>1. \A i \in 0 .. n : i \in E
    <3> HIDE DEF E
    <3>1. 0 \in Nat /\ 0 <= n
      BY <1>3
    <3> QED
      BY <1>3, <1>11, <1>12, <3>1, Induction
  <2>2. n \in 0 .. n
    BY <1>3
  <2> QED
    BY <2>1, <2>2
<1> HIDE DEF R
<1>14. stops \/ ~R[n].lost => W[n].ino = R[n].ino
  BY <1>13 DEF InStep
<1> QED
  BY <1>6, <1>8, <1>14 DEF R, names, W

-----------------------------------------------------------------------------
(***************************************************************************)
(* What a lookup finds, whatever its arrays hold.                          *)
(***************************************************************************)
\* A component followed leads to an entry whose name begins the component.
LEMMA LevelReached ==
  ASSUME TreeType(tree), NEW names \in Seq(Seq(Letter)), NEW dirs, NEW i \in 1 .. Len(names),
         NEW w, w.entries \in EntriesType, w.ino \in dirs, NEW row,
         Extends(Str(row), names[i]), i # Len(names) => Str(row) = names[i],
         NEW stops, stops = TRUE
  PROVE  LET v == Follow(tree, w, row, stops)
         IN  /\ v.entries \in EntriesType
             /\ ~w.stuck => (v.ino = w.ino /\ v.stuck) \/ v.ino \in NextLevel(dirs, names, i)
             /\ w.stuck => v = w
<1> DEFINE c == Component(tree, w, row)
           v == Follow(tree, w, row, stops)
           l == Listed(tree, w.ino)
           k == Count(tree, w.ino)
           s == Str(row)
<1>1. /\ c.entries \in EntriesType
      /\ c.ino = w.ino \/ \E n \in 1 .. k : c.ino = l[n].ino /\ StartsWith(s, l[n].name)
  BY ComponentIs DEF IsListing
<1>2. v = IF w.stuck THEN w
          ELSE [entries |-> c.entries, ino |-> c.ino, stuck |-> stops /\ c.ino = w.ino]
  BY DEF Follow
<1>3. \A n \in 1 .. k : l[n].name \in Seq(Char)
  BY ListedIs
<1>4. ASSUME NEW n \in 1 .. k, StartsWith(s, l[n].name) PROVE Begins(l[n].name, names, i)
  <2> DEFINE name == l[n].name
             z == names[i]
  <2>1. /\ s \in Seq(Char) /\ Len(s) <= Len(z) + 1 /\ Len(s) >= Len(z)
        /\ \A b \in 1 .. Len(z) : s[b] = z[b]
        /\ i # Len(names) => s = z
    BY DEF Extends
  <2>2. Len(s) >= Len(name) /\ \A b \in 1 .. Len(name) : s[b] = name[b]
    BY <1>4 DEF StartsWith
  <2>3. name \in Seq(Char) /\ z \in Seq(Letter)
    BY <1>3
  <2>4. Len(name) \in Nat /\ Len(z) \in Nat /\ Len(s) \in Nat
    BY <2>1, <2>3
  <2> HIDE DEF name, z, s
  <2>5. Len(name) <= Len(z) + (IF i = Len(names) THEN 1 ELSE 0)
    BY <2>1, <2>2, <2>4
  <2>6. ASSUME NEW b \in 1 .. Len(name), b <= Len(z) PROVE name[b] = z[b]
    <3>1. b \in 1 .. Len(z)
      BY <2>4, <2>6
    <3> QED
      BY <2>1, <2>2, <3>1
  <2> QED
    BY <2>5, <2>6 DEF Begins, name, z
<1> HIDE DEF v, c, s
<1>5. ASSUME c.ino # w.ino PROVE c.ino \in NextLevel(dirs, names, i)
  <2>1. PICK n \in 1 .. k : c.ino = l[n].ino /\ StartsWith(s, l[n].name)
    BY <1>1, <1>5
  <2>2. Begins(l[n].name, names, i)
    BY <1>4, <2>1
  <2> QED
    BY <2>1, <2>2 DEF NextLevel
<1>6. CASE w.stuck
  <2>1. v = w
    BY <1>2, <1>6
  <2> QED
    BY <1>6, <2>1 DEF v
<1>7. CASE ~w.stuck
  <2>1. v.entries = c.entries /\ v.ino = c.ino /\ v.stuck = (c.ino = w.ino)
    BY <1>2, <1>7
  <2> QED
    BY <1>1, <1>5, <1>7, <2>1 DEF v
<1> QED
  BY <1>6, <1>7

\* Every way of the loop runs through such entries.
LEMMA Passed ==
  ASSUME TreeType(tree), NEW f, f.rows \in RowsType, f.entries \in EntriesType,
         NEW path, IsShort(path)
  PROVE  LET names == Components(path)
         IN  \E i \in 0 .. Len(names) : ext2_inode_find(f, path) \in Level(names)[i]
<1> DEFINE names == Components(path)
           u == unpack_dir_path(f.rows, path)
           n == Len(names)
           stops == TRUE
           W == Following(tree, f.entries, u, stops)
           V == Level(names)
           Reached(i) == /\ W[i].entries \in EntriesType
                         /\ ~W[i].stuck => W[i].ino \in V[i]
                         /\ \E j \in 0 .. i : W[i].ino \in V[j]
           E == {i \in 0 .. n : Reached(i)}
<1>1. UnpacksTo(u, f.rows, path) /\ names \in Seq(Seq(Letter))
  BY UnpackedPath
<1>2. /\ u.depth = n + 1
      /\ \A i \in 1 .. n - 1 : Str(u.rows[i]) = names[i]
      /\ n > 0 => Extends(Str(u.rows[n]), names[n])
  BY <1>1 DEF UnpacksTo
<1>3. n \in Nat /\ \A i \in 1 .. n : names[i] \in Seq(Letter)
  BY <1>1
<1>4. ext2_inode_find(f, path) = W[u.depth - 1].ino
  BY DEF Walk, ext2_inode_find
<1> HIDE DEF names, u, stops
<1>5. \A i \in 1 .. n : Extends(Str(u.rows[i]), names[i]) /\ (i # n => Str(u.rows[i]) = names[i])
  <2> TAKE i \in 1 .. n
  <2>1. CASE i = n
    BY <1>2, <1>3, <2>1
  <2>2. CASE i # n
    <3>1. i \in 1 .. n - 1
      BY <1>3, <2>2
    <3>2. Str(u.rows[i]) = names[i]
      BY <1>2, <3>1
    <3> DEFINE s == names[i]
    <3>3. s \in Seq(Letter)
      BY <1>3
    <3> HIDE DEF s
    <3>4. Extends(s, s)
      <4>1. s \in Seq(Char) /\ Len(s) \in Nat
        BY <3>3 DEF Letter
      <4> QED
        BY <4>1 DEF Extends
    <3> QED
      BY <2>2, <3>2, <3>4 DEF s
  <2> QED
    BY <2>1, <2>2
<1>6. u.depth - 1 = n
  <2> HIDE DEF n
  <2> QED
    BY <1>2, <1>3
<1>7. /\ W[0] = [entries |-> f.entries, ino |-> Root, stuck |-> FALSE]
      /\ \A i \in 1 .. n : W[i] = Follow(tree, W[i - 1], u.rows[i], stops)
  <2>1. u.depth - 1 \in Nat
    BY <1>3, <1>6
  <2>2. /\ W[0] = [entries |-> f.entries, ino |-> Root, stuck |-> FALSE]
        /\ \A i \in 1 .. u.depth - 1 : W[i] = Follow(tree, W[i - 1], u.rows[i], stops)
    BY <2>1, FollowingIs
  <2> HIDE DEF W, n
  <2> QED
    BY <1>6, <2>2
<1>8. V[0] = {Root} /\ \A i \in 1 .. n : V[i] = NextLevel(V[i - 1], names, i)
  BY <1>3, LevelIs
<1> HIDE DEF W, V
<1>9. 0 \in E
  <2>1. W[0].entries = f.entries /\ W[0].ino = Root
    BY <1>7
  <2>2. 0 \in 0 .. 0 /\ W[0].ino \in V[0]
    BY <1>8, <2>1
  <2>3. Reached(0)
    BY <2>1, <2>2
  <2> HIDE DEF Reached
  <2> QED
    BY <1>3, <2>3
<1>10. ASSUME NEW i \in 0 .. n - 1, i \in E PROVE i + 1 \in E
  <2>1. i + 1 \in 1 .. n /\ i + 1 \in 0 .. n /\ (i + 1) - 1 = i /\ i \in Nat
    BY <1>3
  <2> DEFINE w == W[i]
             row == u.rows[i + 1]
             v == Follow(tree, w, row, stops)
             m == i + 1
  <2>2. W[m] = v /\ V[m] = NextLevel(V[i], names, m)
    BY <1>7, <1>8, <2>1
  <2>3. Reached(i)
    BY <1>10
  <2>4. Extends(Str(row), names[m]) /\ (m # n => Str(row) = names[m])
    BY <1>5, <2>1
  <2>5. m \in 1 .. Len(names)
    BY <2>1
  <2> HIDE DEF row, v, m, n
  <2>6. CASE ~w.stuck
    <3>1. w.ino \in V[i] /\ w.entries \in EntriesType
      BY <2>3, <2>6
    <3> HIDE DEF w
    <3>2. /\ v.entries \in EntriesType
          /\ (v.ino = w.ino /\ v.stuck) \/ v.ino \in NextLevel(V[i], names, m)
      BY <1>1, <2>4, <2>5, <2>6, <3>1, LevelReached DEF v, n, stops
    <3>3. i \in 0 .. m /\ m \in 0 .. m
      BY <2>1 DEF m
    <3>4. Reached(m)
      <4>1. ~v.stuck => v.ino \in V[m]
        BY <2>2, <3>2
      <4>2. \E j \in 0 .. m : v.ino \in V[j]
        BY <2>2, <3>1, <3>2, <3>3
      <4> QED
        BY <2>2, <3>2, <4>1, <4>2
    <3> QED
      BY <2>1, <3>4 DEF m
  <2>7. CASE w.stuck
    <3>1. v = w
      BY <2>7 DEF Follow, v
    <3>2. PICK j \in 0 .. i : w.ino \in V[j]
      BY <2>3
    <3>3. j \in 0 .. m
      BY <2>1 DEF m
    <3>4. Reached(m)
      BY <2>2, <2>3, <2>7, <3>1, <3>2, <3>3
    <3> QED
      BY <2>1, <3>4 DEF m
  <2> QED
    BY <2>6, <2>7
<1>11. n \in E
  <2>1. \A i \in 0 .. n : i \in E
    <3> HIDE DEF E
    <3>1. 0 \in Nat /\ 0 <= n
      BY <1>3
    <3> QED
      BY <1>3, <1>9, <1>10, <3>1, Induction
  <2> QED
    BY <1>3, <2>1
<1> QED
  BY <1>4, <1>6, <1>11 DEF names, V

-----------------------------------------------------------------------------
(***************************************************************************)
(* The paths in use, and a tree with one more entry.                       *)
(***************************************************************************)
LEMMA PathsAre ==
  ASSUME NEW p \in Paths
  PROVE  /\ IsPath(p) /\ Components(p) \in Seq(Seq(Letter)) /\ Len(Components(p)) \in Nat
         /\ Fits(p) => IsShort(p)
<1>1. /\ p \in Seq(Char) /\ p # <<>> /\ p[1] = Slash
      /\ \A i \in DOMAIN Split(p) : Len(Split(p)[i]) < NameLen
  BY PathAssumption
<1>2. IsPath(p)
  BY <1>1 DEF IsPath
<1>3. Components(p) \in Seq(Seq(Letter))
  BY <1>2, ComponentsAre
<1>4. Len(Components(p)) \in Nat
  <2> DEFINE c == Components(p)
  <2>1. c \in Seq(Seq(Letter))
    BY <1>3
  <2> HIDE DEF c
  <2> QED
    BY <2>1
<1> QED
  BY <1>1, <1>2, <1>3, <1>4 DEF IsShort

\* The name of a file that is created.
LEMMA NewName ==
  ASSUME NEW p, IsShort(p), NEW rows \in RowsType
  PROVE  LET u == unpack_dir_path(rows, p)
             name == Str(u.rows[u.depth - 1])
             names == Components(p)
         IN  /\ name \in Seq(Char) /\ Len(name) <= NameLen
             /\ Len(names) > 0 /\ RowEnded(rows, p) => name = names[Len(names)]
<1> DEFINE u == unpack_dir_path(rows, p)
           names == Components(p)
           n == Len(names)
           name == Str(u.rows[u.depth - 1])
<1>1. /\ UnpacksTo(u, rows, p) /\ names \in Seq(Seq(Letter))
      /\ \A i \in 1 .. n : Len(names[i]) < NameLen
  BY UnpackedPath
<1>2. /\ u.depth = n + 1 /\ Str(u.rows[0]) = <<Slash>>
      /\ n > 0 => /\ Extends(Str(u.rows[n]), names[n])
                  /\ RowEnded(rows, p) => Str(u.rows[n]) = names[n]
  BY <1>1 DEF UnpacksTo
<1> HIDE DEF u, names
<1>3. n \in Nat /\ u.depth - 1 = n
  BY <1>1, <1>2
<1>4. CASE n = 0
  <2>1. name = <<Slash>>
    BY <1>2, <1>3, <1>4
  <2>2. <<Slash>> \in Seq(Char) /\ Len(<<Slash>>) = 1
    BY Sizes
  <2>3. name \in Seq(Char) /\ Len(name) <= NameLen
    BY <2>1, <2>2, Sizes
  <2> QED
    BY <1>4, <2>3 DEF u, names
<1>5. CASE n # 0
  <2>1. n \in 1 .. n /\ n > 0
    BY <1>3, <1>5
  <2>2. name = Str(u.rows[n])
    BY <1>3
  <2>3. names[n] \in Seq(Letter) /\ Len(names[n]) < NameLen
    BY <1>1, <2>1
  <2>4. Extends(name, names[n]) /\ (RowEnded(rows, p) => name = names[n])
    BY <1>2, <2>1, <2>2
  <2>5. name \in Seq(Char) /\ Len(name) <= NameLen
    <3> DEFINE z == names[n]
    <3>1. z \in Seq(Letter) /\ Len(z) < NameLen /\ Extends(name, z)
      BY <2>3, <2>4
    <3> HIDE DEF z, name
    <3>2. name \in Seq(Char) /\ Len(name) <= Len(z) + 1
      BY <3>1 DEF Extends
    <3> QED
      BY <3>1, <3>2, Sizes
  <2> QED
    BY <2>4, <2>5 DEF u, names
<1> QED
  BY <1>4, <1>5

\* Min of the free inodes is one of them, and is not a directory.
LEMMA FreeInode ==
  ASSUME free \subseteq NewInodes, free # {}
  PROVE  Min(free) \in free /\ Min(free) \in Nat \ {0} /\ Min(free) \notin Dirs
<1>1. NewInodes \subseteq Nat \ {0} /\ NewInodes \cap Dirs = {}
  BY PathAssumption
<1>2. free \subseteq Nat
  BY <1>1
<1>3. Min(free) \in free
  BY <1>2, MinOfNaturals
<1> QED
  BY <1>1, <1>3

Grown(t, dir, e) == [t EXCEPT ![dir] = Append(@, e)]

\* An entry added by ext2_file_create.
IsGrown(t, dir, e) ==
  /\ TreeType(t) /\ dir \in Dirs
  /\ e \in [name : Seq(Char), ino : Nat \ {0}] /\ Len(e.name) <= NameLen /\ e.ino \notin Dirs

LEMMA TreeGrown ==
  ASSUME NEW t, NEW dir, NEW e, IsGrown(t, dir, e)
  PROVE  TreeType(Grown(t, dir, e))
<1> DEFINE R == [name : Seq(Char), ino : Nat \ {0}]
           l == t[dir]
           k == Append(l, e)
           new == Grown(t, dir, e)
<1>1. t \in [Dirs -> Seq(R)] /\ e \in R /\ dir \in Dirs /\ Len(e.name) <= NameLen
  BY DEF TreeType, IsGrown
<1> DEFINE Ok(r) == Len(r.name) <= NameLen /\ (r.name = <<>> => r.ino \notin Dirs)
<1>2. Ok(e) /\ \A d \in Dirs : \A n \in 1 .. Len(t[d]) : Ok(t[d][n])
  BY DEF TreeType, IsGrown
<1>3. new = [t EXCEPT ![dir] = k]
  BY DEF Grown
<1> HIDE DEF R
<1>4. l \in Seq(R) /\ Len(l) \in Nat
  BY <1>1
<1>5. /\ k \in Seq(R) /\ Len(k) = Len(l) + 1 /\ k[Len(l) + 1] = e
      /\ \A n \in 1 .. Len(l) : k[n] = l[n]
  BY <1>1, <1>4, AppendProperties
<1> HIDE DEF k, new, Ok
<1>6. new \in [Dirs -> Seq(R)] /\ \A d \in Dirs : new[d] = IF d = dir THEN k ELSE t[d]
  BY <1>1, <1>3, <1>5
<1>7. ASSUME NEW n \in 1 .. Len(k) PROVE Ok(k[n])
  <2>1. CASE n = Len(l) + 1
    BY <1>2, <1>5, <2>1
  <2>2. CASE n # Len(l) + 1
    <3>1. n \in 1 .. Len(l)
      BY <1>4, <1>5, <2>2
    <3> QED
      BY <1>1, <1>2, <1>5, <3>1
  <2> QED
    BY <2>1, <2>2
<1>8. \A d \in Dirs : \A n \in 1 .. Len(new[d]) : Ok(new[d][n])
  <2> TAKE d \in Dirs
  <2>1. CASE d = dir
    <3>1. new[d] = k
      BY <1>6, <2>1
    <3> QED
      BY <1>7, <3>1
  <2>2. CASE d # dir
    <3>1. new[d] = t[d]
      BY <1>6, <2>2
    <3> QED
      BY <1>2, <3>1
  <2> QED
    BY <2>1, <2>2
<1> QED
  BY <1>6, <1>8 DEF TreeType, R, new, Ok

\* What the reference yields.
LEMMA WayIs ==
  ASSUME NEW t, NEW names, Len(names) \in Nat, NEW i \in 0 .. Len(names)
  PROVE  LET r == Resolving(t, names)[i]
         IN  r = [ino |-> r.ino, lost |-> r.lost] /\ r.lost \in BOOLEAN
<1> DEFINE R == Resolving(t, names)
<1>1. /\ R[0] = [ino |-> Root, lost |-> FALSE]
      /\ \A n \in 1 .. Len(names) : R[n] = Resolve(t, R[n - 1], names[n])
  BY ResolvingIs
<1> HIDE DEF R
<1>2. \E ino : \E lost \in BOOLEAN : R[i] = [ino |-> ino, lost |-> lost]
  <2>1. CASE i = 0
    BY <1>1, <2>1
  <2>2. CASE i # 0
    <3>1. i \in 1 .. Len(names)
      BY <2>2
    <3>2. R[i] = Resolve(t, R[i - 1], names[i])
      BY <1>1, <3>1
    <3> QED
      BY <3>2 DEF Resolve
  <2> QED
    BY <2>1, <2>2
<1>3. PICK ino : \E lost \in BOOLEAN : R[i] = [ino |-> ino, lost |-> lost]
  BY <1>2
<1>4. PICK lost \in BOOLEAN : R[i] = [ino |-> ino, lost |-> lost]
  BY <1>3
<1>5. R[i].ino = ino /\ R[i].lost = lost
  BY <1>4
<1>6. R[i] = [ino |-> R[i].ino, lost |-> R[i].lost] /\ R[i].lost \in BOOLEAN
  BY <1>4, <1>5
<1> QED
  BY <1>6 DEF R

\* What there was is found as before, and something new only under a name that was free.
LEMMA ChildGrown ==
  ASSUME NEW t, TreeType(t), NEW dir \in Dirs,
         NEW e \in [name : Seq(Char), ino : Nat \ {0}], TreeType(Grown(t, dir, e)),
         NEW d, NEW name
  PROVE  LET old == Child(t, d, name)
             new == Child(Grown(t, dir, e), d, name)
         IN  /\ old \in Nat
             /\ old # 0 => new = old
             /\ old = 0 => new = 0 \/ new = e.ino
             /\ old = 0 /\ d = dir /\ name = e.name /\ Len(t[dir]) < MaxListed => new = e.ino
<1> DEFINE g == Grown(t, dir, e)
           l == Listed(t, d)
           k == Listed(g, d)
           c == Count(t, d)
           b == Count(g, d)
           hits == {n \in 1 .. c : l[n].name = name}
           shown == {n \in 1 .. b : k[n].name = name}
           old == Child(t, d, name)
           new == Child(g, d, name)
<1>1. old = IF hits = {} THEN 0 ELSE l[Min(hits)].ino
  BY DEF Child
<1>2. new = IF shown = {} THEN 0 ELSE k[Min(shown)].ino
  BY DEF Child
<1>3. /\ c \in Nat /\ c <= Len(l) /\ \A n \in 1 .. c : l[n].ino \in Nat \ {0}
      /\ b \in Nat
  <2>1. \A r : TreeType(r) => Count(r, d) \in Nat
    BY ListedIs, Sizes
  <2>2. b \in Nat
    <3> HIDE DEF g
    <3> QED
      BY <2>1 DEF g
  <2> QED
    BY <2>1, <2>2, ListedIs
<1>4. hits # {} => Min(hits) \in hits
  <2>1. hits \subseteq Nat
    BY <1>3
  <2> HIDE DEF hits
  <2> QED
    BY <2>1, MinOfNaturals
<1>5. old \in Nat /\ (hits # {} => old \in Nat \ {0} /\ old = l[Min(hits)].ino)
  <2>1. CASE hits = {}
    BY <1>1, <2>1
  <2>2. CASE hits # {}
    <3> DEFINE m == Min(hits)
    <3>1. m \in hits
      BY <1>4, <2>2
    <3> HIDE DEF m
    <3>2. l[m].ino \in Nat \ {0}
      BY <1>3, <3>1
    <3>3. old = l[m].ino
      BY <1>1, <2>2 DEF m
    <3> HIDE DEF old, l
    <3> QED
      BY <3>2, <3>3 DEF m
  <2> QED
    BY <2>1, <2>2
<1>6. CASE d # dir \/ d \notin Dirs
  <2>1. k = l
    <3>1. CASE d \in Dirs
      <4>1. d # dir /\ d \in DOMAIN t
        BY <1>6, <3>1 DEF TreeType
      <4>2. g[d] = t[d]
        BY <4>1 DEF Grown
      <4> QED
        BY <3>1, <4>2 DEF Listed
    <3>2. CASE d \notin Dirs
      BY <3>2 DEF Listed
    <3> QED
      BY <3>1, <3>2
  <2>2. b = c
    BY <2>1 DEF Count
  <2>3. shown = hits
    BY <2>1, <2>2
  <2>4. new = old
    <3> HIDE DEF new, old, hits, shown, l, k
    <3> QED
      BY <1>1, <1>2, <2>1, <2>3
  <2>5. d # dir
    BY <1>6
  <2> HIDE DEF new, old
  <2>6. /\ old \in Nat /\ (old # 0 => new = old) /\ (old = 0 => new = 0 \/ new = e.ino)
        /\ (old = 0 /\ d = dir /\ name = e.name /\ Len(t[dir]) < MaxListed => new = e.ino)
    BY <1>5, <2>4, <2>5
  <2> QED
    BY <2>6 DEF new, old, g
<1>7. CASE d = dir
  <2>1. l = t[dir] /\ k = Append(l, e) /\ l \in Seq([name : Seq(Char), ino : Nat \ {0}])
    BY <1>7 DEF Listed, Grown, TreeType
  <2>2. Len(l) \in Nat /\ Len(k) = Len(l) + 1 /\ k[Len(l) + 1] = e /\ \A n \in 1 .. Len(l) : k[n] = l[n]
    <3> HIDE DEF l, k
    <3> DEFINE R == [name : Seq(Char), ino : Nat \ {0}]
    <3>1. l \in Seq(R) /\ e \in R /\ k = Append(l, e)
      BY <2>1
    <3> HIDE DEF R
    <3> QED
      BY <3>1, AppendProperties
  <2>3. /\ c = IF Len(l) < MaxListed THEN Len(l) ELSE MaxListed
        /\ b = IF Len(k) < MaxListed THEN Len(k) ELSE MaxListed
        /\ MaxListed \in Nat
    BY Sizes DEF Count
  <2> HIDE DEF l, k, c, b, g, old, new
  <2>4. b = c \/ (b = c + 1 /\ c = Len(l))
    BY <1>3, <2>2, <2>3
  <2> DEFINE z == Len(l) + 1
  <2>5. /\ hits \subseteq shown /\ shown \subseteq Nat /\ shown \subseteq hits \cup {z}
        /\ z \in Nat /\ \A x \in hits : x < z
    <3>1. c \in Nat /\ b \in Nat /\ c <= Len(l) /\ Len(l) \in Nat
      BY <1>3, <2>2
    <3>2. \A x \in 1 .. c : x \in 1 .. b /\ x \in 1 .. Len(l) /\ x < z
      BY <2>4, <3>1
    <3>3. \A x \in 1 .. b : x \in 1 .. c \/ x = z
      BY <2>4, <3>1
    <3>4. hits \subseteq shown
      BY <2>2, <3>2
    <3>5. shown \subseteq hits \cup {z}
      <4> SUFFICES ASSUME NEW x \in shown, x # z PROVE x \in hits
        OBVIOUS
      <4>1. x \in 1 .. c /\ k[x].name = name
        BY <3>3
      <4> QED
        BY <2>2, <3>2, <4>1
    <3> QED
      BY <3>1, <3>2, <3>4, <3>5
  <2>6. z \in shown => k[z].ino = e.ino
    BY <2>2
  <2>7. CASE hits # {}
    <3>1. Min(shown) = Min(hits)
      <4> HIDE DEF hits, shown, z
      <4> QED
        BY <2>5, <2>7, MinKept
    <3>2. shown # {}
      BY <2>5, <2>7
    <3> DEFINE m == Min(hits)
    <3>3. m \in hits
      BY <1>4, <2>7
    <3> HIDE DEF m
    <3>4. k[m] = l[m]
      <4>1. m \in 1 .. c /\ c \in Nat /\ c <= Len(l) /\ Len(l) \in Nat
        BY <1>3, <2>2, <3>3
      <4>2. m \in 1 .. Len(l)
        BY <4>1
      <4> QED
        BY <2>2, <4>2
    <3>5. new = k[m].ino /\ old = l[m].ino /\ old # 0
      BY <1>2, <1>5, <2>7, <3>1, <3>2 DEF m
    <3>6. new = old
      BY <3>4, <3>5
    <3> QED
      BY <1>5, <3>5, <3>6 DEF old, new, g
  <2>8. CASE hits = {}
    <3>1. old = 0
      BY <1>1, <2>8
    <3>2. CASE shown = {}
      <4>1. new = 0
        BY <1>2, <3>2
      <4>2. ~(name = e.name /\ Len(t[dir]) < MaxListed)
        <5> SUFFICES ASSUME name = e.name, Len(l) < MaxListed PROVE z \in shown
          BY <2>1, <3>2
        <5> QED
          BY <2>2, <2>3
      <4> QED
        BY <1>5, <3>1, <4>1, <4>2 DEF old, new, g
    <3>3. CASE shown # {}
      <4>1. shown = {z}
        BY <2>5, <2>8, <3>3
      <4>2. Min(shown) \in shown
        <5> HIDE DEF shown
        <5> QED
          BY <2>5, <3>3, MinOfNaturals
      <4>3. Min(shown) = z
        <5> HIDE DEF shown, z
        <5> QED
          BY <4>1, <4>2
      <4>4. new = e.ino
        BY <1>2, <2>6, <3>3, <4>2, <4>3
      <4> QED
        BY <1>5, <3>1, <4>4 DEF old, new, g
    <3> QED
      BY <3>2, <3>3
  <2> QED
    BY <2>7, <2>8
<1> QED
  BY <1>6, <1>7

\* A way that leads to its end still does; one that does not leads at most to the new
\* file, which is no directory.
Kept(r, q) == (~r.lost => q = r) /\ (r.lost => q.lost \/ q.ino \notin Dirs)

LEMMA WayKept ==
  ASSUME NEW t, TreeType(t), NEW dir \in Dirs,
         NEW e \in [name : Seq(Char), ino : Nat \ {0}], TreeType(Grown(t, dir, e)),
         e.ino \notin Dirs, NEW names, Len(names) \in Nat, NEW i \in 0 .. Len(names)
  PROVE  Kept(Resolving(t, names)[i], Resolving(Grown(t, dir, e), names)[i])
<1> DEFINE g == Grown(t, dir, e)
           n == Len(names)
           R == Resolving(t, names)
           Q == Resolving(g, names)
           E == {m \in 0 .. n : Kept(R[m], Q[m])}
<1>1. R[0] = [ino |-> Root, lost |-> FALSE] /\ \A m \in 1 .. n : R[m] = Resolve(t, R[m - 1], names[m])
  BY ResolvingIs
<1>2. Q[0] = [ino |-> Root, lost |-> FALSE] /\ \A m \in 1 .. n : Q[m] = Resolve(g, Q[m - 1], names[m])
  BY ResolvingIs
<1>3. n \in Nat
  OBVIOUS
<1> HIDE DEF R, Q
<1>4. 0 \in E
  <2>1. Kept(R[0], Q[0])
    <3>1. Q[0] = R[0] /\ R[0].lost = FALSE
      BY <1>1, <1>2
    <3> QED
      BY <3>1 DEF Kept
  <2> QED
    BY <1>3, <2>1
<1>5. ASSUME NEW m \in 0 .. n - 1, m \in E PROVE m + 1 \in E
  <2>1. m + 1 \in 1 .. n /\ m + 1 \in 0 .. n /\ (m + 1) - 1 = m
    BY <1>3
  <2> DEFINE r == R[m]
             q == Q[m]
             name == names[m + 1]
             v == Resolve(t, r, name)
             w == Resolve(g, q, name)
             old == Child(t, r.ino, name)
             new == Child(g, q.ino, name)
  <2>2. R[m + 1] = v /\ Q[m + 1] = w
    BY <1>1, <1>2, <2>1
  <2>3. Kept(r, q)
    BY <1>5
  <2>4. v = IF r.lost \/ old = 0 THEN [ino |-> r.ino, lost |-> TRUE] ELSE [ino |-> old, lost |-> FALSE]
    BY DEF Resolve
  <2>5. w = IF q.lost \/ new = 0 THEN [ino |-> q.ino, lost |-> TRUE] ELSE [ino |-> new, lost |-> FALSE]
    BY DEF Resolve
  <2>6. Kept(v, w)
    <3> HIDE DEF r, q, v, w, name
    <3>1. CASE r.lost
      <4>1. v.lost
        BY <2>4, <3>1
      <4>2. q.lost \/ q.ino \notin Dirs
        BY <2>3, <3>1 DEF Kept
      <4>3. w.lost
        <5>1. q.ino \notin Dirs => new = 0
          <6> SUFFICES ASSUME q.ino \notin Dirs PROVE Child(g, q.ino, name) = 0
            OBVIOUS
          <6>1. Listed(g, q.ino) = <<>>
            BY DEF Listed
          <6>2. Count(g, q.ino) = 0
            <7>1. Len(<<>>) = 0 /\ MaxListed \in Nat
              BY Sizes
            <7> QED
              BY <6>1, <7>1 DEF Count
          <6> QED
            BY <6>2 DEF Child
        <5> HIDE DEF new
        <5> QED
          BY <2>5, <4>2, <5>1
      <4> QED
        BY <4>1, <4>3 DEF Kept
    <3>2. CASE ~r.lost
      <4>1. q = r
        BY <2>3, <3>2 DEF Kept
      <4>2. old \in Nat /\ (old # 0 => new = old) /\ (old = 0 => new = 0 \/ new = e.ino)
        <5> HIDE DEF g
        <5>1. new = Child(g, r.ino, name)
          BY <4>1
        <5> QED
          BY <5>1, ChildGrown DEF g
      <4> HIDE DEF old, new
      <4>3. CASE old = 0
        <5>1. v.lost
          BY <2>4, <4>3
        <5>2. new = 0 => w.lost
          BY <2>5
        <5>3. new # 0 => w.lost \/ w.ino = e.ino
          BY <2>5, <4>2, <4>3
        <5> QED
          BY <5>1, <5>2, <5>3 DEF Kept
      <4>4. CASE old # 0
        <5>1. new = old
          BY <4>2, <4>4
        <5>2. v = [ino |-> old, lost |-> FALSE]
          BY <2>4, <3>2, <4>4
        <5>3. w = v
          BY <2>5, <3>2, <4>1, <4>4, <5>1, <5>2
        <5> QED
          BY <5>2, <5>3 DEF Kept
      <4> QED
        BY <4>3, <4>4
    <3> QED
      BY <3>1, <3>2
  <2> QED
    BY <2>1, <2>2, <2>6
<1>6. \A m \in 0 .. n : m \in E
  <2>1. 0 \in Nat /\ 0 <= n
    BY <1>3
  <2> HIDE DEF E, n
  <2> QED
    BY <1>3, <1>4, <1>5, <2>1, Induction
<1> QED
  BY <1>6 DEF R, Q

-----------------------------------------------------------------------------
(***************************************************************************)
(* The parent's path.                                                      *)
(***************************************************************************)
-----------------------------------------------------------------------------
(***************************************************************************)
(* The parent's path.                                                      *)
(***************************************************************************)
\* Behind its slash, a path of one component is that component.
LEMMA SplitOne ==
  ASSUME NEW s \in Seq(Letter)
  PROVE  LET path == <<Slash>> \o s
             p == Split(path)
             names == Components(path)
         IN  /\ IsPath(path) /\ Len(p) = 2 /\ p[1] = <<>> /\ p[2] = s /\ DOMAIN p = 1 .. 2
             /\ Len(names) = IF s = <<>> THEN 0 ELSE 1
             /\ s # <<>> => names[1] = s
<1> DEFINE path == <<Slash>> \o s
           n == Len(s)
           P == Pieces(path)
           Two(p, x) == p \in Seq(Seq(Letter)) /\ Len(p) = 2 /\ p[1] = <<>> /\ p[2] = x
           E == {m \in 0 .. n : Two(P[m + 1], SubSeq(s, 1, m))}
<1>1. s \in Seq(Char) /\ <<Slash>> \in Seq(Char) /\ n \in Nat
  BY Sizes DEF Letter
<1>2. /\ path \in Seq(Char) /\ Len(path) = n + 1 /\ path[1] = Slash
      /\ \A m \in 1 .. n : path[m + 1] = s[m]
  BY <1>1
<1>3. path # <<>>
  BY <1>1, <1>2
<1>4. P[0] = << <<>> >> /\ \A m \in 1 .. n + 1 : P[m] = AddChar(P[m - 1], path[m])
  <2>1. Len(path) \in Nat
    BY <1>1, <1>2
  <2>2. P[0] = << <<>> >> /\ \A m \in 1 .. Len(path) : P[m] = AddChar(P[m - 1], path[m])
    <3> HIDE DEF path
    <3> QED
      BY <2>1, PiecesAre
  <2> HIDE DEF P, path
  <2> QED
    BY <1>2, <2>2
<1> HIDE DEF P
<1>5. 0 \in E
  <2>1. 1 \in 1 .. n + 1 /\ 1 - 1 = 0 /\ 0 + 1 = 1
    BY <1>1
  <2> DEFINE two == AddChar(<< <<>> >>, Slash)
  <2>2. P[1] = two
    BY <1>2, <1>4, <2>1
  <2>3. two \in Seq(Seq(Letter)) /\ Len(two) = 2 /\ two[1] = <<>> /\ two[2] = <<>>
    BY FirstSlash
  <2>4. SubSeq(s, 1, 0) = <<>>
    BY SubSeqEmpty
  <2>5. 0 \in 0 .. n
    BY <1>1
  <2> HIDE DEF two
  <2>6. Two(P[0 + 1], SubSeq(s, 1, 0))
    BY <2>1, <2>2, <2>3, <2>4
  <2> QED
    BY <2>5, <2>6
<1>6. ASSUME NEW m \in 0 .. n - 1, m \in E PROVE m + 1 \in E
  <2> DEFINE x == SubSeq(s, 1, m)
             c == s[m + 1]
             old == P[m + 1]
             new == AddChar(old, c)
  <2>1. /\ m + 1 \in 1 .. n /\ m + 1 \in 0 .. n /\ (m + 1) + 1 \in 1 .. n + 1
        /\ ((m + 1) + 1) - 1 = m + 1 /\ (m + 1) - 1 = m
    BY <1>1
  <2>2. P[(m + 1) + 1] = new
    BY <1>2, <1>4, <2>1
  <2>3. c \in Letter /\ c # Slash /\ c \in Char
    BY <2>1 DEF Letter
  <2>4. x \in Seq(Letter)
    <3>1. \A i \in 1 .. m : s[i] \in Letter
      BY <1>1
    <3> QED
      BY <3>1, SubSeqProperties
  <2>5. SubSeq(s, 1, m + 1) = Append(x, c)
    <3>1. 1 \in 1 .. Len(s) /\ m + 1 \in 1 .. Len(s)
      BY <1>1, <2>1
    <3>2. SubSeq(s, 1, m + 1) = SubSeq(s, 1, (m + 1) - 1) \o << s[m + 1] >>
      BY <3>1, SubSeqRecursiveSecond
    <3>3. SubSeq(s, 1, m + 1) = x \o <<c>>
      BY <2>1, <3>2
    <3> HIDE DEF x, c
    <3>4. x \o <<c>> = Append(x, c)
      BY <2>3, <2>4, AppendIsConcat
    <3> QED
      BY <3>3, <3>4
  <2>6. Two(old, x)
    BY <1>6
  <2> HIDE DEF x, c, old
  <2>7. Two(new, Append(x, c))
    <3>1. old \in Seq(Seq(Letter)) /\ Len(old) = 2 /\ old # <<>>
      <4>1. old \in Seq(Seq(Letter)) /\ Len(old) = 2
        BY <2>6
      <4>2. old # <<>>
        <5>1. Len(<<>>) = 0 /\ Len(old) = 2
          BY <4>1
        <5> QED
          BY <5>1
      <4> QED
        BY <4>1, <4>2
    <3>2. /\ new \in Seq(Seq(Letter)) /\ Len(new) = Len(old)
          /\ new[Len(old)] = Append(old[Len(old)], c)
          /\ \A i \in 1 .. Len(old) - 1 : new[i] = old[i]
      BY <2>3, <3>1, CharAdded
    <3> HIDE DEF new
    <3>3. 1 \in 1 .. Len(old) - 1
      BY <3>1
    <3> QED
      BY <2>6, <3>1, <3>2, <3>3
  <2>8. Two(P[(m + 1) + 1], SubSeq(s, 1, m + 1))
    BY <2>2, <2>5, <2>7
  <2> QED
    BY <2>1, <2>8
<1>7. \A m \in 0 .. n : m \in E
  <2>1. 0 \in Nat /\ 0 <= n
    BY <1>1
  <2> HIDE DEF E, n
  <2> QED
    BY <1>1, <1>5, <1>6, <2>1, Induction
<1>8. Two(Split(path), s)
  <2>1. n \in 0 .. n
    BY <1>1
  <2>2. Two(P[n + 1], SubSeq(s, 1, n))
    BY <1>7, <2>1
  <2>3. SubSeq(s, 1, n) = s
    BY SubSeqFull
  <2> HIDE DEF Two
  <2> QED
    BY <1>2, <2>2, <2>3 DEF Split, P
<1>9. IsPath(path)
  BY <1>2, <1>3 DEF IsPath
<1> DEFINE p == Split(path)
           names == Components(path)
           last == path[Len(path)]
<1>10. p \in Seq(Seq(Letter)) /\ Len(p) = 2 /\ p[1] = <<>> /\ p[2] = s
  BY <1>8
<1>11. /\ names \in Seq(Seq(Letter))
       /\ last = Slash => Len(p) = Len(names) + 2 /\ p[Len(p)] = <<>>
       /\ last # Slash => Len(p) = Len(names) + 1 /\ p[Len(p)] # <<>>
       /\ \A i \in 1 .. Len(names) : names[i] = p[i + 1]
  <2> HIDE DEF path
  <2> QED
    BY <1>9, ComponentsAre
<1> HIDE DEF p, names, last
<1>12. Len(names) \in Nat /\ DOMAIN p = 1 .. 2
  BY <1>10, <1>11
<1>13. /\ Len(names) = IF s = <<>> THEN 0 ELSE 1
       /\ s # <<>> => names[1] = s
  <2>1. last = Slash => s = <<>> /\ Len(names) = 0
    BY <1>10, <1>11, <1>12
  <2>2. last # Slash => s # <<>> /\ Len(names) = 1
    <3> SUFFICES ASSUME last # Slash PROVE s # <<>> /\ Len(names) = 1
      OBVIOUS
    <3>1. Len(p) = Len(names) + 1 /\ p[Len(p)] # <<>>
      BY <1>11
    <3>2. p[2] # <<>>
      BY <1>10, <3>1
    <3>3. s # <<>>
      BY <1>10, <3>2
    <3>4. 2 = Len(names) + 1 /\ Len(names) \in Nat
      BY <1>10, <1>12, <3>1
    <3>5. Len(names) = 1
      <4> DEFINE k == Len(names)
      <4>1. 2 = k + 1 /\ k \in Nat
        BY <3>4
      <4> HIDE DEF k
      <4>2. k = 1
        BY <4>1
      <4> QED
        BY <4>2 DEF k
    <3> QED
      BY <3>3, <3>5
  <2>3. Len(names) = 1 => names[1] = p[2]
    BY <1>11
  <2> QED
    BY <1>10, <2>1, <2>2, <2>3
<1> QED
  BY <1>9, <1>10, <1>12, <1>13 DEF p, names

\* The parent of a path of one or two components is looked up under its own path, when
\* nothing is in front of it in its array.
LEMMA ParentFound ==
  ASSUME NEW t, TreeType(t), NEW p, IsShort(p), Len(Components(p)) \in 1 .. 2,
         NEW rows \in RowsType, NEW buf \in Bytes(MaxPathLen - 1), buf[0] = Nul,
         NEW f, f.rows \in RowsType, f.entries \in EntriesType,
         LET parent == ParentPathname(buf, unpack_dir_path(rows, p))
         IN  /\ Fits(parent) /\ RowEnded(f.rows, parent)
             /\ NamesEnded(t, f.entries, Components(parent)) /\ Moves(t, Components(parent))
  PROVE  LET names == Components(p)
             parent == ParentPathname(buf, unpack_dir_path(rows, p))
             r == Resolving(t, names)[Len(names) - 1]
         IN  IsDirectory(r) => Walk(t, f, parent, TRUE) = r.ino
<1> DEFINE names == Components(p)
           n == Len(names)
           u == unpack_dir_path(rows, p)
           parent == ParentPathname(buf, u)
           s == IF n = 1 THEN <<>> ELSE names[1]
           stops == TRUE
<1>1. /\ UnpacksTo(u, rows, p) /\ names \in Seq(Seq(Letter))
      /\ \A i \in 1 .. n : Len(names[i]) < NameLen
  BY UnpackedPath
<1>2. /\ u.depth = n + 1 /\ Str(u.rows[0]) = <<Slash>>
      /\ \A i \in 1 .. n - 1 : Str(u.rows[i]) = names[i]
  BY <1>1 DEF UnpacksTo
<1>3. n = 1 \/ n = 2
  OBVIOUS
<1>4. /\ Fits(parent) /\ RowEnded(f.rows, parent)
      /\ NamesEnded(t, f.entries, Components(parent)) /\ Moves(t, Components(parent))
  OBVIOUS
<1> HIDE DEF names, u
<1> HIDE DEF n
<1>5. u.depth - 1 = n /\ n \in Nat /\ 1 \in 1 .. n /\ n - 1 \in 0 .. n
  BY <1>2, <1>3
<1>6. Str(buf) = <<>>
  <2> DEFINE empty == <<>>
             M == MaxPathLen - 1
  <2>1. M \in Nat /\ buf \in [0 .. M -> Char \cup {Nul}]
    BY Sizes DEF Bytes
  <2>2. empty \in Seq(Char) /\ Len(empty) = 0
    OBVIOUS
  <2> HIDE DEF M, empty
  <2>3. Len(empty) <= M /\ buf[Len(empty)] = Nul /\ \A b \in 0 .. Len(empty) - 1 : buf[b] = empty[b + 1]
    BY <2>1, <2>2
  <2>4. Str(buf) = empty
    BY <2>1, <2>2, <2>3, StrIs
  <2> QED
    BY <2>4 DEF empty
<1>7. parent = <<Slash>> \o s
  <2> DEFINE J == Joined(buf, u.rows, n)
  <2>1. parent = J[n]
    BY <1>5 DEF ParentPathname
  <2>2. J[0] = <<>> /\ \A i \in 1 .. n : J[i] = Behind(J[i - 1], Str(u.rows[i - 1]))
    BY <1>5, <1>6, JoinedIs
  <2> HIDE DEF J
  <2>3. J[1] = <<Slash>>
    <3>1. 1 \in 1 .. n /\ 1 - 1 = 0
      BY <1>5
    <3>2. J[1] = Behind(<<>>, <<Slash>>)
      BY <1>2, <2>2, <3>1
    <3> QED
      BY <3>2 DEF Behind
  <2>4. CASE n = 1
    <3>1. <<Slash>> \o <<>> = <<Slash>>
      OBVIOUS
    <3> QED
      BY <2>1, <2>3, <2>4, <3>1
  <2>5. CASE n = 2
    <3>1. 2 \in 1 .. n /\ 2 - 1 = 1 /\ 1 \in 1 .. n - 1
      BY <2>5
    <3>2. J[2] = Behind(J[1], Str(u.rows[1])) /\ Str(u.rows[1]) = names[1]
      BY <1>2, <2>2, <3>1
    <3> QED
      BY <2>1, <2>3, <2>5, <3>2 DEF Behind
  <2> QED
    BY <1>3, <2>4, <2>5
<1>8. s \in Seq(Letter) /\ Len(s) < NameLen
  <2>1. <<>> \in Seq(Letter) /\ Len(<<>>) = 0 /\ 1 \in 1 .. n
    BY <1>5
  <2>2. names[1] \in Seq(Letter) /\ Len(names[1]) < NameLen
    BY <1>1, <2>1 DEF n
  <2> QED
    BY <2>1, <2>2, Sizes
<1> DEFINE c == Components(parent)
<1> HIDE DEF s, parent
<1>9. /\ IsPath(parent) /\ Len(Split(parent)) = 2 /\ DOMAIN Split(parent) = 1 .. 2
      /\ Split(parent)[1] = <<>> /\ Split(parent)[2] = s
      /\ Len(c) = (IF s = <<>> THEN 0 ELSE 1) /\ (s # <<>> => c[1] = s)
  BY <1>7, <1>8, SplitOne
<1>10. IsShort(parent)
  <2>1. Len(<<>>) < NameLen
    BY Sizes
  <2>2. \A i \in DOMAIN Split(parent) : Len(Split(parent)[i]) < NameLen
    BY <1>8, <1>9, <2>1
  <2> QED
    BY <1>4, <1>9, <2>2 DEF IsShort
<1> DEFINE R == Resolving(t, names)
           Q == Resolving(t, c)
<1>11. /\ R[0] = [ino |-> Root, lost |-> FALSE]
       /\ \A i \in 1 .. n : R[i] = Resolve(t, R[i - 1], names[i])
  <2>1. Len(names) \in Nat
    BY <1>5 DEF n
  <2> QED
    BY <2>1, ResolvingIs DEF n
<1>12. /\ Q[0] = [ino |-> Root, lost |-> FALSE]
       /\ \A i \in 1 .. Len(c) : Q[i] = Resolve(t, Q[i - 1], c[i])
  <2> HIDE DEF c
  <2>1. Len(c) \in Nat
    BY <1>9
  <2> QED
    BY <2>1, ResolvingIs
<1> HIDE DEF R, Q
<1>13. IsDirectory(R[n - 1]) => Q[Len(c)] = R[n - 1]
  <2> HIDE DEF c
  <2>1. CASE n = 1
    <3>1. s = <<>> /\ Len(c) = 0 /\ n - 1 = 0
      BY <1>9, <2>1 DEF s
    <3> QED
      BY <1>11, <1>12, <3>1
  <2>2. CASE n = 2
    <3>1. s = names[1] /\ n - 1 = 1 /\ 1 - 1 = 0
      BY <2>2 DEF s
    <3>2. R[1] = Resolve(t, R[0], s)
      BY <1>5, <1>11, <3>1
    <3>3. CASE s = <<>>
      <4> DEFINE hits == {m \in 1 .. Count(t, Root) : Listed(t, Root)[m].name = s}
                 child == Child(t, Root, s)
      <4>1. child = 0 \/ child \notin Dirs
        <5>1. hits # {} => Min(hits) \in hits
          <6>1. hits \subseteq Nat
            OBVIOUS
          <6> HIDE DEF hits
          <6> QED
            BY <6>1, MinOfNaturals
        <5>2. child = IF hits = {} THEN 0 ELSE Listed(t, Root)[Min(hits)].ino
          BY DEF Child
        <5>3. \A m \in hits : Listed(t, Root)[m].ino \notin Dirs
          BY <3>3, ListedIs
        <5> HIDE DEF hits, child
        <5> QED
          BY <5>1, <5>2, <5>3
      <4>2. R[0].ino = Root /\ ~R[0].lost
        BY <1>11
      <4> HIDE DEF child
      <4>3. R[1] = IF child = 0 THEN [ino |-> Root, lost |-> TRUE] ELSE [ino |-> child, lost |-> FALSE]
        BY <3>2, <4>2 DEF Resolve, child
      <4>4. ~IsDirectory(R[1])
        BY <4>1, <4>3 DEF IsDirectory
      <4> QED
        BY <3>1, <4>4
    <3>4. CASE s # <<>>
      <4>1. Len(c) = 1 /\ c[1] = s /\ 1 \in 1 .. Len(c)
        BY <1>9, <3>4
      <4>2. Q[1] = Resolve(t, Q[0], s)
        BY <1>12, <3>1, <4>1
      <4> QED
        BY <1>11, <1>12, <3>1, <3>2, <4>1, <4>2
    <3> QED
      BY <3>3, <3>4
  <2> QED
    BY <1>3, <2>1, <2>2
<1>14. Walk(t, f, parent, stops) = Q[Len(c)].ino
  <2>1. stops \in BOOLEAN /\ stops
    OBVIOUS
  <2> HIDE DEF stops
  <2> QED
    BY <1>4, <1>10, <2>1, Walked DEF Q, c
<1>15. IsDirectory(R[n - 1]) => Walk(t, f, parent, stops) = R[n - 1].ino
  <2> HIDE DEF stops
  <2> QED
    BY <1>13, <1>14
<1> QED
  BY <1>15 DEF R, n, names, parent, u

-----------------------------------------------------------------------------
(***************************************************************************)
(* Created files.                                                          *)
(***************************************************************************)
\* IsFound of one file, in any tree.
FileFound(t, m) ==
  LET names == Components(m.path)
      R == Resolving(t, names)
      parent == R[Len(names) - 1]
  IN  \/ R[Len(names)] = [ino |-> m.ino, lost |-> FALSE]
      \/ IsDirectory(R[Len(names)])
      \/ Len(names) > 2 \/ ~IsDirectory(parent)
      \/ ~(Len(t[parent.ino]) <= MaxListed)

LEMMA ParentKept ==
  ASSUME NEW t, NEW dir, NEW e, IsGrown(t, dir, e),
         NEW p \in Paths, Len(Components(p)) \in 1 .. 2
  PROVE  LET names == Components(p)
             r == Resolving(t, names)[Len(names) - 1]
             q == Resolving(Grown(t, dir, e), names)[Len(names) - 1]
         IN  IsDirectory(q) => q = r /\ IsDirectory(r)
<1> DEFINE names == Components(p)
           n == Len(names)
           r == Resolving(t, names)[n - 1]
           q == Resolving(Grown(t, dir, e), names)[n - 1]
<1>1. n \in Nat /\ n - 1 \in 0 .. n
  OBVIOUS
<1>2. TreeType(Grown(t, dir, e))
  BY TreeGrown
<1>3. Kept(r, q)
  <2> HIDE DEF names
  <2> QED
    BY <1>1, <1>2, WayKept DEF IsGrown
<1> HIDE DEF r, q
<1>4. IsDirectory(q) => q = r /\ IsDirectory(r)
  BY <1>3 DEF Kept, IsDirectory
<1> QED
  BY <1>4 DEF r, q

\* A file that was found stays so.
LEMMA FoundKept ==
  ASSUME NEW t, NEW dir, NEW e, IsGrown(t, dir, e),
         NEW m, m.path \in Paths, FileFound(t, m)
  PROVE  FileFound(Grown(t, dir, e), m)
<1> DEFINE names == Components(m.path)
           n == Len(names)
           g == Grown(t, dir, e)
           R == Resolving(t, names)
           Q == Resolving(g, names)
<1>1. names \in Seq(Seq(Letter)) /\ n \in Nat /\ n \in 0 .. n
  <2>1. names \in Seq(Seq(Letter)) /\ n \in Nat
    BY PathsAre
  <2> HIDE DEF n, names
  <2> QED
    BY <2>1
<1>2. TreeType(Grown(t, dir, e))
  BY TreeGrown
<1>3. Kept(R[n], Q[n])
  <2> HIDE DEF names
  <2> QED
    BY <1>1, <1>2, WayKept DEF IsGrown
<1>4. n \in 1 .. 2 => (IsDirectory(Q[n - 1]) => Q[n - 1] = R[n - 1] /\ IsDirectory(R[n - 1]))
  BY ParentKept
<1>5. n = 0 => IsDirectory(Q[n])
  <2>1. Q[0] = [ino |-> Root, lost |-> FALSE]
    BY <1>1, ResolvingIs
  <2>2. Root \in Dirs
    BY PathAssumption
  <2> HIDE DEF Q
  <2> QED
    BY <2>1, <2>2 DEF IsDirectory
<1>6. \A d \in Dirs : Len(g[d]) >= Len(t[d]) /\ Len(t[d]) \in Nat /\ Len(g[d]) \in Nat
  <2> TAKE d \in Dirs
  <2> DEFINE S == [name : Seq(Char), ino : Nat \ {0}]
  <2>1. t \in [Dirs -> Seq(S)] /\ e \in S
    BY DEF IsGrown, TreeType
  <2> HIDE DEF S
  <2>2. t[d] \in Seq(S) /\ Len(t[d]) \in Nat
    BY <2>1
  <2>3. Len(Append(t[d], e)) = Len(t[d]) + 1
    BY <2>1, <2>2, AppendProperties
  <2>4. g[d] = t[d] \/ g[d] = Append(t[d], e)
    BY <2>1 DEF Grown
  <2> QED
    BY <2>2, <2>3, <2>4
<1> HIDE DEF names, g, R, Q
<1>7. CASE R[n] = [ino |-> m.ino, lost |-> FALSE]
  <2>1. Q[n] = R[n]
    BY <1>3, <1>7 DEF Kept
  <2> QED
    BY <1>7, <2>1 DEF FileFound, names, Q, g
<1>8. CASE IsDirectory(R[n])
  <2>1. Q[n] = R[n]
    BY <1>3, <1>8 DEF Kept, IsDirectory
  <2>2. IsDirectory(Q[n])
    BY <1>8, <2>1
  <2> QED
    BY <2>2 DEF FileFound, names, Q, g
<1>9. CASE n > 2
  BY <1>9 DEF FileFound, names
<1>10. CASE n \in 1 .. 2 /\ (~IsDirectory(R[n - 1]) \/ ~(Len(t[R[n - 1].ino]) <= MaxListed))
  <2>1. CASE ~IsDirectory(Q[n - 1])
    BY <2>1 DEF FileFound, names, Q, g
  <2>2. CASE IsDirectory(Q[n - 1])
    <3>1. Q[n - 1] = R[n - 1] /\ IsDirectory(R[n - 1])
      BY <1>4, <1>10, <2>2
    <3>2. R[n - 1].ino \in Dirs /\ ~(Len(t[R[n - 1].ino]) <= MaxListed)
      BY <1>10, <3>1 DEF IsDirectory
    <3>3. ~(Len(g[Q[n - 1].ino]) <= MaxListed)
      BY <1>6, <3>1, <3>2, Sizes
    <3> QED
      BY <3>3 DEF FileFound, names, Q, g
  <2> QED
    BY <2>1, <2>2
<1>11. CASE n = 0
  <2>1. IsDirectory(Q[n])
    BY <1>5, <1>11
  <2> QED
    BY <2>1 DEF FileFound, names, Q, g
<1>12. n = 0 \/ n \in 1 .. 2 \/ n > 2
  <2>1. n \in Nat
    BY <1>1
  <2> HIDE DEF n
  <2> QED
    BY <2>1
<1>13. \/ R[n] = [ino |-> m.ino, lost |-> FALSE] \/ IsDirectory(R[n]) \/ n > 2
       \/ ~IsDirectory(R[n - 1]) \/ ~(Len(t[R[n - 1].ino]) <= MaxListed)
  BY DEF FileFound, names, R
<1> QED
  BY <1>7, <1>8, <1>9, <1>10, <1>11, <1>12, <1>13

\* A new file is found under its path, if it was put into the directory of its parent.
LEMMA FileCreated ==
  ASSUME NEW t, NEW dir, NEW e, IsGrown(t, dir, e),
         NEW m, m.path \in Paths, m.ino = e.ino,
         LET names == Components(m.path)
             R == Resolving(t, names)
         IN  /\ R[Len(names)].ino \in Dirs
             /\ Len(names) \in 1 .. 2 =>
                  /\ IsDirectory(R[Len(names) - 1]) => dir = R[Len(names) - 1].ino
                  /\ e.name = names[Len(names)]
  PROVE  FileFound(Grown(t, dir, e), m)
<1> DEFINE names == Components(m.path)
           n == Len(names)
           g == Grown(t, dir, e)
           R == Resolving(t, names)
           Q == Resolving(g, names)
<1>1. names \in Seq(Seq(Letter)) /\ n \in Nat /\ n \in 0 .. n
  <2>1. names \in Seq(Seq(Letter)) /\ n \in Nat
    BY PathsAre
  <2> HIDE DEF n, names
  <2> QED
    BY <2>1
<1>2. TreeType(Grown(t, dir, e))
  BY TreeGrown
<1>3. Kept(R[n], Q[n])
  <2> HIDE DEF names
  <2> QED
    BY <1>1, <1>2, WayKept DEF IsGrown
<1>4. n \in 1 .. 2 => (IsDirectory(Q[n - 1]) => Q[n - 1] = R[n - 1] /\ IsDirectory(R[n - 1]))
  BY ParentKept
<1>5. /\ R[n].ino \in Dirs
      /\ n \in 1 .. 2 => /\ IsDirectory(R[n - 1]) => dir = R[n - 1].ino
                         /\ e.name = names[n]
  OBVIOUS
<1>6. /\ Q[0] = [ino |-> Root, lost |-> FALSE]
      /\ \A i \in 1 .. n : Q[i] = Resolve(g, Q[i - 1], names[i])
      /\ \A i \in 1 .. n : R[i] = Resolve(t, R[i - 1], names[i])
  <2>1. Len(names) \in Nat
    BY <1>1
  <2> HIDE DEF names, g
  <2>2. Q[0] = [ino |-> Root, lost |-> FALSE]
    BY <2>1, ResolvingIs
  <2>3. \A i \in 1 .. Len(names) : Q[i] = Resolve(g, Q[i - 1], names[i])
    BY <2>1, ResolvingIs
  <2>4. \A i \in 1 .. Len(names) : R[i] = Resolve(t, R[i - 1], names[i])
    BY <2>1, ResolvingIs
  <2> QED
    BY <2>2, <2>3, <2>4
<1>7. m.ino = e.ino
  OBVIOUS
<1>8. R[n].lost \in BOOLEAN
  <2> HIDE DEF names
  <2> QED
    BY <1>1, WayIs
<1> HIDE DEF names, g, R, Q
<1>9. CASE n = 0
  <2>1. IsDirectory(Q[n])
    BY <1>6, <1>9, PathAssumption DEF IsDirectory
  <2> QED
    BY <1>7, <2>1 DEF FileFound, names, Q, g
<1>10. CASE n > 2
  BY <1>7, <1>10 DEF FileFound, names
<1>11. CASE n \in 1 .. 2 /\ IsDirectory(Q[n - 1]) /\ Len(g[Q[n - 1].ino]) <= MaxListed
  <2>1. Q[n - 1] = R[n - 1] /\ IsDirectory(R[n - 1]) /\ R[n - 1].ino = dir /\ e.name = names[n]
    BY <1>4, <1>5, <1>11
  <2>2. CASE ~R[n].lost
    <3>1. Q[n] = R[n]
      BY <1>3, <2>2 DEF Kept
    <3>2. IsDirectory(Q[n])
      BY <1>5, <2>2, <3>1 DEF IsDirectory
    <3> QED
      BY <1>7, <3>2 DEF FileFound, names, Q, g
  <2>3. CASE R[n].lost
    <3> DEFINE old == Child(t, dir, names[n])
               new == Child(g, dir, names[n])
    <3>1. n \in 1 .. n
      <4>1. n \in 1 .. 2
        BY <1>11
      <4> HIDE DEF n
      <4> QED
        BY <4>1
    <3>2. R[n] = Resolve(t, R[n - 1], names[n]) /\ Q[n] = Resolve(g, R[n - 1], names[n])
      BY <1>6, <2>1, <3>1
    <3>3. ~R[n - 1].lost
      BY <2>1 DEF IsDirectory
    <3>4. old = 0
      <4>1. old # 0 => R[n] = [ino |-> old, lost |-> FALSE]
        BY <2>1, <3>2, <3>3 DEF Resolve
      <4>2. old # 0 => R[n].lost = FALSE
        BY <4>1
      <4> QED
        BY <2>3, <4>2
    <3>5. Len(t[dir]) < MaxListed
      <4> DEFINE S == [name : Seq(Char), ino : Nat \ {0}]
      <4>1. t \in [Dirs -> Seq(S)] /\ e \in S /\ dir \in Dirs
        BY DEF IsGrown, TreeType
      <4> HIDE DEF S
      <4>2. t[dir] \in Seq(S) /\ Len(t[dir]) \in Nat
        BY <4>1
      <4>3. Len(Append(t[dir], e)) = Len(t[dir]) + 1
        BY <4>1, <4>2, AppendProperties
      <4>4. g[dir] = Append(t[dir], e)
        BY <4>1 DEF Grown, g
      <4>5. Len(g[dir]) <= MaxListed
        BY <1>11, <2>1
      <4> QED
        BY <4>2, <4>3, <4>4, <4>5, Sizes
    <3>6. new = e.ino
      <4> DEFINE name == names[n]
      <4>1. name = e.name
        BY <2>1
      <4>2. /\ TreeType(t) /\ dir \in Dirs /\ e \in [name : Seq(Char), ino : Nat \ {0}]
            /\ TreeType(Grown(t, dir, e))
        BY <1>2 DEF IsGrown
      <4> HIDE DEF name
      <4>3. Child(t, dir, name) = 0 => Child(Grown(t, dir, e), dir, name) = e.ino
        BY <1>2, <3>5, <4>1, <4>2, ChildGrown
      <4> QED
        BY <3>4, <4>3 DEF name, g
    <3>7. e.ino # 0
      BY DEF IsGrown
    <3>8. Q[n] = [ino |-> e.ino, lost |-> FALSE]
      BY <2>1, <3>2, <3>3, <3>6, <3>7 DEF Resolve
    <3> QED
      BY <1>7, <3>8 DEF FileFound, names, Q, g
  <2> QED
    BY <2>2, <2>3
<1>12. CASE ~IsDirectory(Q[n - 1]) \/ ~(Len(g[Q[n - 1].ino]) <= MaxListed)
  BY <1>7, <1>12 DEF FileFound, names, Q, g
<1>13. n = 0 \/ n \in 1 .. 2 \/ n > 2
  <2>1. n \in Nat
    BY <1>1
  <2> HIDE DEF n
  <2> QED
    BY <2>1
<1> QED
  BY <1>9, <1>10, <1>11, <1>12, <1>13

\* The invariant for the files created: nobody else uses the zero arrays of the lookup,
-----------------------------------------------------------------------------
(***************************************************************************)
(* The invariant.  What a call finds depends on the tree and on its own    *)
(* arrays, so nothing has to be known of the arrays of other calls; a file *)
(* that is still to be created was not found when it was opened, and the   *)
(* tree has not changed since.                                             *)
(***************************************************************************)
IsOpenFile(o) ==
  /\ o = [open |-> o.open, exist |-> o.exist, path |-> o.path, ino |-> o.ino, ended |-> o.ended]
  /\ o.open => o.path \in Paths /\ Fits(o.path)

\* Where a file that is to be created was looked for.
NotFound(o) == o.open /\ ~o.exist /\ o.ended => Way(Components(o.path)).ino \in Dirs

PathInv ==
  /\ TreeType(tree) /\ free \subseteq NewInodes
  /\ IsOpenFile(file) /\ NotFound(file)
  /\ \A m \in made : m.path \in Paths /\ (m.ended => FileFound(tree, m))
  /\ FindsLongestPart /\ FollowsBeginnings

LEMMA FramesAre ==
  /\ \A f \in Frames : f.rows \in RowsType /\ f.entries \in EntriesType
  /\ \A b \in Buffers : b.rows \in RowsType /\ b.parent \in Bytes(MaxPathLen - 1)
BY PathAssumption

LEMMA PathInvInit == PathInit => PathInv
<1> SUFFICES ASSUME PathInit PROVE PathInv
  OBVIOUS
<1>1. TreeType(tree)
  <2>1. /\ tree = Image /\ Image \in [Dirs -> Seq([name : Seq(Char), ino : Nat \ {0}])]
        /\ \A d \in Dirs : \A n \in 1 .. Len(Image[d]) : Len(Image[d][n].name) \in 1 .. NameLen
    BY PathAssumption DEF PathInit
  <2>2. ASSUME NEW d \in Dirs, NEW n \in 1 .. Len(Image[d])
        PROVE  Len(Image[d][n].name) <= NameLen /\ Image[d][n].name # <<>>
    <3> DEFINE z == Image[d][n].name
    <3>1. Len(z) \in 1 .. NameLen /\ NameLen \in Nat
      BY <2>1, Sizes
    <3> HIDE DEF z
    <3>2. Len(<<>>) = 0
      OBVIOUS
    <3>3. Len(z) <= NameLen /\ z # <<>>
      BY <3>1, <3>2
    <3> QED
      BY <3>3 DEF z
  <2> QED
    BY <2>1, <2>2 DEF TreeType
<1>2. IsOpenFile(file) /\ ~file.open
  BY DEF PathInit, NoFile, IsOpenFile
<1>3. ~found.ended /\ found = NoFind /\ made = {} /\ free \subseteq NewInodes
  BY DEF PathInit, NoFind
<1> QED
  BY <1>1, <1>2, <1>3 DEF PathInv, NotFound, FindsLongestPart, FollowsBeginnings

\* A step that leaves the directories alone and closes at most the file.
LEMMA PathInvKept ==
  ASSUME PathInv, UNCHANGED <<tree, free, found, made>>, file' = file \/ file' = NoFile
  PROVE  PathInv'
<1>1. /\ TreeType(tree)' /\ (free \subseteq NewInodes)'
      /\ (\A m \in made : m.path \in Paths /\ (m.ended => FileFound(tree, m)))'
  BY DEF PathInv
<1>2. IsOpenFile(file')
  BY DEF PathInv, NoFile, IsOpenFile
<1>3. NotFound(file)'
  BY DEF PathInv, NotFound, NoFile, Way, WayTo
<1>4. FindsLongestPart'
  BY DEF PathInv, FindsLongestPart, GetsLongestPart, Way, WayTo
<1>5. FollowsBeginnings'
  <2>1. Level(Components(found.path))' = Level(Components(found.path))
    BY DEF Level, NextLevel
  <2>2. FollowsBeginnings
    BY DEF PathInv
  <2> QED
    BY <2>1, <2>2 DEF FollowsBeginnings
<1> QED
  BY <1>1, <1>2, <1>3, <1>4, <1>5 DEF PathInv

LEMMA PathInvOpen ==
  ASSUME PathInv, NEW f \in Frames, NEW p \in Paths, NEW mode, ext2_fopen(p, mode, f)
  PROVE  PathInv'
<1> DEFINE ino == ext2_inode_find(f, p)
           ended == Ended(f, p) /\ Moves(tree, Components(p))
           names == Components(p)
           opened == [open |-> TRUE, exist |-> IsFile(ino), path |-> p, ino |-> ino, ended |-> ended]
<1>1. CASE ~Fits(p)
  <2>1. UNCHANGED <<tree, free, found, made, file>>
    BY <1>1 DEF ext2_fopen, Overrun
  <2> QED
    BY <2>1, PathInvKept
<1>2. CASE Fits(p)
  <2>1. /\ UNCHANGED <<tree, free, made>>
        /\ found' = [path |-> p, ino |-> ino, ended |-> ended]
        /\ file' = file \/ file' = opened
    BY <1>2 DEF ext2_fopen
  <2>2. TreeType(tree) /\ f.rows \in RowsType /\ f.entries \in EntriesType /\ IsShort(p)
    BY <1>2, FramesAre, PathsAre DEF PathInv
  <2>3. ended => ino = Way(names).ino
    <3> SUFFICES ASSUME ended PROVE ino = Way(names).ino
      OBVIOUS
    <3> DEFINE stops == TRUE
    <3>1. stops \in BOOLEAN /\ stops
      OBVIOUS
    <3>2. ino = Walk(tree, f, p, stops)
      BY DEF ext2_inode_find
    <3> HIDE DEF stops, ino
    <3>3. Walk(tree, f, p, stops) = Resolving(tree, names)[Len(names)].ino
      BY <2>2, <3>1, Walked DEF Ended
    <3> QED
      BY <3>2, <3>3 DEF Way, WayTo
  <2>4. \E i \in 0 .. Len(names) : ino \in Level(names)[i]
    BY <2>2, Passed
  <2>6. Way(names)' = Way(names) /\ Level(names)' = Level(names)
    BY <2>1 DEF Way, WayTo, Level, NextLevel
  <2> HIDE DEF ended, ino
  <2>7. found'.path = p /\ found'.ino = ino /\ (found'.ended <=> ended)
    BY <2>1
  <2>8. FindsLongestPart'
    BY <2>3, <2>6, <2>7 DEF FindsLongestPart, GetsLongestPart
  <2>9. FollowsBeginnings'
    BY <2>4, <2>6, <2>7 DEF FollowsBeginnings
  <2>10. IsOpenFile(file')
    BY <1>2, <2>1 DEF PathInv, IsOpenFile
  <2>11. NotFound(file)'
    <3>1. CASE file' = file
      BY <2>1, <3>1 DEF PathInv, NotFound, Way, WayTo
    <3>2. CASE file' = opened
      <4>1. /\ file'.path = p /\ file'.ino = ino /\ (file'.ended <=> ended)
            /\ file'.exist <=> ino \notin Dirs
        BY <3>2 DEF IsFile
      <4> QED
        BY <2>3, <2>6, <4>1 DEF NotFound
    <3> QED
      BY <2>1, <3>1, <3>2
  <2> QED
    BY <2>1, <2>8, <2>9, <2>10, <2>11 DEF PathInv
<1> QED
  BY <1>1, <1>2

LEMMA PathInvCreate ==
  ASSUME PathInv, file.open, ~file.exist, NEW closing \in BOOLEAN, NEW f \in Frames, NEW b \in Buffers,
         ext2_file_create(closing, f, b)
  PROVE  PathInv'
<1> DEFINE p == file.path
           names == Components(p)
           n == Len(names)
           u == unpack_dir_path(b.rows, p)
           parent == ParentPathname(b.parent, u)
           dir == ext2_inode_find(f, parent)
           takes == dir \in Dirs /\ free # {}
           ino == IF takes THEN Min(free) ELSE file.ino
           ok == takes /\ HasRoom(dir)
           ended == /\ file.ended /\ b.parent[0] = Nul /\ RowEnded(b.rows, p)
                    /\ Ended(f, parent) /\ Moves(tree, Components(parent))
           name == Str(u.rows[u.depth - 1])
           e == [name |-> name, ino |-> ino]
           m == [path |-> p, ino |-> ino, ended |-> ended]
           R == Resolving(tree, names)
<1>1. /\ TreeType(tree) /\ free \subseteq NewInodes
      /\ IsOpenFile(file) /\ p \in Paths /\ Fits(p) /\ IsShort(p)
      /\ file.ended => R[n].ino \in Dirs
      /\ \A x \in made : x.path \in Paths /\ (x.ended => FileFound(tree, x))
  <2>1. /\ TreeType(tree) /\ free \subseteq NewInodes
        /\ IsOpenFile(file) /\ p \in Paths /\ Fits(p)
        /\ file.ended => R[n].ino \in Dirs
        /\ \A x \in made : x.path \in Paths /\ (x.ended => FileFound(tree, x))
    BY DEF PathInv, IsOpenFile, NotFound, Way, WayTo
  <2> QED
    BY <2>1, PathsAre
<1>2. CASE Len(parent) >= MaxPathLen \/ ~Fits(parent)
  <2>1. UNCHANGED <<tree, free, found, made, file>>
    BY <1>2 DEF ext2_file_create, Overrun
  <2> QED
    BY <2>1, PathInvKept
<1>3. CASE ~(Len(parent) >= MaxPathLen \/ ~Fits(parent))
  <2>1. /\ free' = free \ {ino} /\ found' = NoFind
        /\ tree' = IF ok THEN [tree EXCEPT ![dir] = Append(@, e)] ELSE tree
        /\ made' = IF ok THEN made \cup {m} ELSE made
        /\ file' = IF closing THEN NoFile ELSE [file EXCEPT !.exist = ok, !.ino = ino]
    BY <1>3 DEF ext2_file_create
  <2>2. ok => dir \in Dirs /\ free # {} /\ ino = Min(free)
    OBVIOUS
  <2>3. ok \in BOOLEAN
    OBVIOUS
  <2>4. name \in Seq(Char) /\ Len(name) <= NameLen
    BY <1>1, FramesAre, NewName
  <2>5. ended => /\ file.ended /\ RowEnded(b.rows, p)
                 /\ n > 0 => name = names[n]
                 /\ n \in 1 .. 2 => (IsDirectory(R[n - 1]) => dir = R[n - 1].ino)
    <3> SUFFICES ASSUME ended PROVE /\ n > 0 => name = names[n]
                                    /\ n \in 1 .. 2 => (IsDirectory(R[n - 1]) => dir = R[n - 1].ino)
      OBVIOUS
    <3>1. n > 0 => name = names[n]
      BY <1>1, FramesAre, NewName
    <3>2. ASSUME n \in 1 .. 2 PROVE IsDirectory(R[n - 1]) => dir = R[n - 1].ino
      <4>1. /\ b.rows \in RowsType /\ b.parent \in Bytes(MaxPathLen - 1) /\ b.parent[0] = Nul
            /\ f.rows \in RowsType /\ f.entries \in EntriesType
        BY FramesAre
      <4>2. /\ Fits(parent) /\ RowEnded(f.rows, parent)
            /\ NamesEnded(tree, f.entries, Components(parent)) /\ Moves(tree, Components(parent))
        BY <1>3 DEF Ended
      <4>3. IsDirectory(R[n - 1]) => Walk(tree, f, parent, TRUE) = R[n - 1].ino
        BY <1>1, <3>2, <4>1, <4>2, ParentFound
      <4> QED
        BY <4>3 DEF ext2_inode_find
    <3> QED
      BY <3>1, <3>2
  <2> HIDE DEF ok, ino, ended, name, names, dir, u
  <2>6. found'.ended = FALSE /\ found' = NoFind
    BY <2>1 DEF NoFind
  <2>7. FindsLongestPart' /\ FollowsBeginnings'
    BY <2>6 DEF FindsLongestPart, FollowsBeginnings
  <2>8. /\ IsOpenFile(file')
        /\ file'.ended => file.ended
        /\ file'.open => file'.path = p /\ (file'.exist <=> ok)
    <3>1. CASE closing
      BY <2>1, <3>1 DEF NoFile, IsOpenFile
    <3>2. CASE ~closing
      BY <1>1, <2>1, <2>3, <3>2 DEF IsOpenFile
    <3> QED
      BY <3>1, <3>2
  <2>9. (free \subseteq NewInodes)'
    BY <1>1, <2>1
  <2>10. CASE ~ok
    <3>1. tree' = tree /\ made' = made
      BY <2>1, <2>10
    <3>2. NotFound(file)'
      <4> SUFFICES ASSUME file'.open, file'.ended
                   PROVE  Resolving(tree', Components(file'.path))[Len(Components(file'.path))].ino \in Dirs
        BY DEF NotFound, Way, WayTo
      <4>1. file.ended /\ file'.path = p
        BY <2>8
      <4>2. R[n].ino \in Dirs
        BY <1>1, <4>1
      <4> QED
        BY <3>1, <4>1, <4>2 DEF names
    <3>3. (\A x \in made : x.path \in Paths /\ (x.ended => FileFound(tree, x)))'
      BY <1>1, <3>1
    <3> QED
      <4>1. TreeType(tree)' /\ IsOpenFile(file)'
        BY <1>1, <2>8, <3>1
      <4> QED
        BY <2>7, <2>9, <3>2, <3>3, <4>1 DEF PathInv
  <2>11. CASE ok
    <3>1. e.name = name /\ e.ino = ino /\ m.path = p /\ m.ino = ino /\ (m.ended <=> ended)
      OBVIOUS
    <3>2. dir \in Dirs /\ ino \in Nat \ {0} /\ ino \notin Dirs
      BY <1>1, <2>2, <2>11, FreeInode
    <3>3. e \in [name : Seq(Char), ino : Nat \ {0}]
      BY <2>4, <3>2
    <3>4. tree' = Grown(tree, dir, e) /\ made' = made \cup {m}
      BY <2>1, <2>11 DEF Grown
    <3> HIDE DEF e, m
    <3>5. IsGrown(tree, dir, e)
      BY <1>1, <2>4, <3>1, <3>2, <3>3 DEF IsGrown
    <3> DEFINE g == Grown(tree, dir, e)
    <3>6. TreeType(tree')
      BY <3>4, <3>5, TreeGrown
    <3>7. m.ended => FileFound(g, m)
      <4> SUFFICES ASSUME m.ended PROVE FileFound(g, m)
        OBVIOUS
      <4>1. m.path \in Paths /\ m.ino = e.ino /\ Components(m.path) = names
        BY <1>1, <3>1 DEF names
      <4>2. R[n].ino \in Dirs
        BY <1>1, <2>5, <3>1
      <4>3. n \in 1 .. 2 => (IsDirectory(R[n - 1]) => dir = R[n - 1].ino) /\ e.name = names[n]
        <5>1. n \in 1 .. 2 => n > 0
          <6> HIDE DEF n
          <6> QED
            OBVIOUS
        <5> QED
          BY <2>5, <3>1, <5>1
      <4> HIDE DEF g
      <4> QED
        BY <3>5, <4>1, <4>2, <4>3, FileCreated DEF R, g
    <3>8. ASSUME NEW x \in made PROVE x.path \in Paths /\ (x.ended => FileFound(g, x))
      <4>1. x.path \in Paths /\ (x.ended => FileFound(tree, x))
        BY <1>1
      <4> QED
        BY <3>5, <4>1, FoundKept
    <3> HIDE DEF g
    <3>9. (\A x \in made : x.path \in Paths /\ (x.ended => FileFound(tree, x)))'
      <4>1. m.path \in Paths
        BY <1>1, <3>1
      <4> QED
        BY <3>4, <3>7, <3>8, <4>1 DEF g
    <3>10. NotFound(file)'
      BY <2>8, <2>11 DEF NotFound
    <3> QED
      <4>1. TreeType(tree)' /\ IsOpenFile(file)'
        BY <2>8, <3>6
      <4> QED
        BY <2>7, <2>9, <3>9, <3>10, <4>1 DEF PathInv
  <2> QED
    BY <2>10, <2>11
<1> QED
  BY <1>2, <1>3

LEMMA PathInvStep == PathInv /\ [PathNext]_pathVars => PathInv'
<1> SUFFICES ASSUME PathInv, [PathNext]_pathVars PROVE PathInv'
  OBVIOUS
<1>1. ASSUME NEW f \in Frames, NEW p \in Paths, NEW mode \in {"r", "w"}, ext2_fopen(p, mode, f)
      PROVE  PathInv'
  BY <1>1, PathInvOpen
<1>2. ASSUME NEW f \in Frames, NEW p \in Paths, ext2_change_cwd(p, f)
      PROVE  PathInv'
  <2>1. UNCHANGED <<tree, free, file, found, made>>
    BY <1>2 DEF ext2_change_cwd, Overrun
  <2> QED
    BY <2>1, PathInvKept
<1>3. ASSUME NEW f \in Frames, NEW b \in Buffers, ext2_fwrite(f, b) PROVE PathInv'
  <2>1. file.open /\ ~file.exist /\ ext2_file_create(FALSE, f, b)
    BY <1>3 DEF ext2_fwrite
  <2> QED
    BY <2>1, PathInvCreate
<1>4. ASSUME NEW f \in Frames, NEW b \in Buffers, ext2_fclose(f, b) PROVE PathInv'
  <2>1. CASE file.open /\ ~file.exist /\ ext2_file_create(TRUE, f, b)
    BY <2>1, PathInvCreate
  <2>2. CASE file' = NoFile /\ UNCHANGED <<tree, free, found, made>>
    BY <2>2, PathInvKept
  <2> QED
    BY <1>4, <2>1, <2>2 DEF ext2_fclose
<1>5. CASE ext2_init_cwd \/ Overwrote \/ UNCHANGED pathVars
  <2>1. UNCHANGED <<tree, free, file, found, made>>
    BY <1>5 DEF ext2_init_cwd, Overwrote, pathVars
  <2> QED
    BY <2>1, PathInvKept
<1> QED
  BY <1>1, <1>2, <1>3, <1>4, <1>5 DEF PathNext

\* ext2_change_cwd: if the path exists, the new working directory is what it names.
LEMMA CwdStep ==
  ASSUME TreeType(tree), NEW f \in Frames, NEW p \in Paths, ext2_change_cwd(p, f), Fits(p),
         Ended(f, p), ~Way(Components(p)).lost
  PROVE  Names(p, cwd')
<1> DEFINE c == Components(p)
           n == Len(c)
           end == Resolving(tree, c)[n]
           stops == FALSE
<1>1. cwd' = Walk(tree, f, p, stops)
  BY DEF ext2_change_cwd
<1>2. stops \in BOOLEAN /\ ~stops
  OBVIOUS
<1> HIDE DEF stops
<1>3. Walk(tree, f, p, stops) = end.ino
  <2>1. IsShort(p) /\ f.rows \in RowsType /\ f.entries \in EntriesType
    BY FramesAre, PathsAre
  <2>2. ~end.lost
    BY DEF Way, WayTo
  <2> QED
    BY <1>2, <2>1, <2>2, Walked DEF Ended
<1>4. end = [ino |-> end.ino, lost |-> end.lost] /\ end.lost \in BOOLEAN
  <2>1. n \in Nat
    BY PathsAre
  <2> HIDE DEF c
  <2>2. n \in 0 .. n
    BY <2>1
  <2> QED
    BY <2>1, <2>2, WayIs
<1>5. Way(c) = end
  BY DEF Way, WayTo
<1> HIDE DEF end, c
<1>6. end = [ino |-> cwd', lost |-> FALSE]
  <2>1. end.lost = FALSE
    BY <1>4, <1>5 DEF c
  <2> QED
    BY <1>1, <1>3, <1>4, <2>1
<1> QED
  BY <1>5, <1>6 DEF Names, c

-----------------------------------------------------------------------------
(***************************************************************************)
(* The theorems.                                                           *)
(***************************************************************************)
\* ext2_fopen gets from ext2_inode_find the inode of the longest part of its path that
\* exists, whatever its arrays hold where they hold terminators behind the names, and
\* whatever lookups and new files came before.
THEOREM FindsLongestPartHolds == PathSpec => []FindsLongestPart
<1>1. PathInv => FindsLongestPart
  BY DEF PathInv
<1> QED
  BY <1>1, PathInvInit, PathInvStep, PTL DEF PathSpec

\* Whatever the arrays hold, ext2_inode_find follows entries whose names begin the
\* components of its path, the last with one more byte.
THEOREM FollowsBeginningsHolds == PathSpec => []FollowsBeginnings
<1>1. PathInv => FollowsBeginnings
  BY DEF PathInv
<1> QED
  BY <1>1, PathInvInit, PathInvStep, PTL DEF PathSpec

\* ext2_change_cwd makes the directory its path names the working directory, when its
\* arrays hold those terminators.
THEOREM CwdIsTheDirectoryHolds == PathSpec => CwdIsTheDirectory
<1>1. PathInv => [\A f \in Frames : \A p \in Paths :
                    ext2_change_cwd(p, f) /\ Fits(p) /\ Ended(f, p) /\ ~Way(Components(p)).lost
                      => Names(p, cwd')]_pathVars
  BY CwdStep DEF PathInv
<1> QED
  BY <1>1, PathInvInit, PathInvStep, PTL DEF PathSpec, CwdIsTheDirectory

\* A file that ext2_file_create made with such arrays, and with nothing in front of the
\* parent's path, is found under its own path ever after, whatever the arrays of the
\* calls that follow.
THEOREM CreatedIsFoundHolds == PathSpec => []CreatedIsFound
<1>1. PathInv => CreatedIsFound
  <2> SUFFICES ASSUME PathInv, NEW m \in made, m.ended PROVE IsFound(m)
    BY DEF CreatedIsFound
  <2>1. FileFound(tree, m)
    BY DEF PathInv
  <2> QED
    BY <2>1 DEF FileFound, IsFound, Names, Way, WayTo, HasRoom
<1> QED
  BY <1>1, PathInvInit, PathInvStep, PTL DEF PathSpec
=============================================================================
