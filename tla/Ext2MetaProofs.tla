--------------------------- MODULE Ext2MetaProofs ----------------------------
(***************************************************************************)
(* Proofs about modules Ext2Alloc and Ext2Meta.                            *)
(*                                                                         *)
(* First the allocator, for every number of groups, inodes and blocks and  *)
(* any number of device errors and power losses.  Its inductive invariant  *)
(* is TypeOK together with AllocInv, which speaks of the behaviours        *)
(* without a device error: numbers in use are marked in the bitmap, the    *)
(* bit of the call in progress is marked and belongs to nobody, and a      *)
(* descriptor counts at least the clear bits, plus one while the bitmap is *)
(* already written and the descriptor is not.                              *)
(*                                                                         *)
(* Then the files, for every number of direct blocks and directory         *)
(* entries, every caller and any number of power losses, on a device that  *)
(* does not fail.  They use the allocator as Ext2Alloc describes it, so    *)
(* its theorems carry over.  What they need from it is that a number it    *)
(* returns was nobody's: from the allocation until the inode that takes    *)
(* the number is on disk, the call holds it, and Loose says that no linked *)
(* file has it.                                                            *)
(***************************************************************************)
EXTENDS Ext2Meta, NumberFacts

-----------------------------------------------------------------------------
(***************************************************************************)
(* Facts about the operators of the model                                  *)
(***************************************************************************)

\* The scan loop returns a bit it scanned and found clear.
LEMMA FirstClearIsClear ==
  ASSUME NEW used, Clear(used) # {}
  PROVE  FirstClear(used) \in ScanBits /\ FirstClear(used) \notin used
<1>1. Clear(used) \subseteq Nat
  BY GeometryAssumption DEF Clear, ScanBits
<1> QED
  BY <1>1, MinOfNaturals DEF FirstClear, Clear

\* Two bits of two groups never have the same number.
LEMMA ItemNumberInjective ==
  ASSUME NEW k \in Kind, NEW g \in Group, NEW h \in Group,
         NEW i \in ItemBits(k), NEW j \in ItemBits(k),
         ItemNumber(k, g, i) = ItemNumber(k, h, j)
  PROVE  g = h /\ i = j
<1> DEFINE P == PerGroup(k)
<1>1. /\ P \in Nat \ {0}
      /\ g \in Nat /\ h \in Nat
      /\ i \in 0 .. P - 1 /\ j \in 0 .. P - 1
  BY GeometryAssumption DEF PerGroup, Group, ItemBits
<1>2. g * P + i = h * P + j
  <2>1. CASE k = "inode"
    BY <1>1, <2>1, GeometryAssumption DEF ItemNumber, PerGroup
  <2>2. CASE k = "block"
    BY <1>1, <2>2, GeometryAssumption DEF ItemNumber, PerGroup
  <2> QED
    BY <2>1, <2>2 DEF Kind
<1> HIDE DEF P
<1>3. ASSUME NEW a \in Nat, NEW b \in Nat,
             NEW x \in 0 .. P - 1, NEW y \in 0 .. P - 1,
             a * P + x = b * P + y
      PROVE  ~(a < b)
  <2> SUFFICES ASSUME a < b PROVE FALSE
    OBVIOUS
  <2>1. PICK d \in Nat : b = a + 1 + d
    <3>1. b - a - 1 \in Nat /\ b = a + 1 + (b - a - 1)
      OBVIOUS
    <3> QED
      BY <3>1
  <2>2. b * P = a * P + P + d * P
    BY <1>1, <2>1
  <2>3. d * P \in Nat
    BY <1>1, <2>1
  <2> QED
    BY <1>1, <1>3, <2>2, <2>3
<1>4. ~(g < h) /\ ~(h < g)
  BY <1>1, <1>2, <1>3
<1>5. g = h
  BY <1>1, <1>4
<1> QED
  BY <1>1, <1>2, <1>5

\* The first c naturals are c numbers.
LEMMA FirstNaturals ==
  ASSUME NEW c \in Nat
  PROVE  IsFiniteSet(0 .. c - 1) /\ Cardinality(0 .. c - 1) = c
<1>1. 0 \in Int /\ c - 1 \in Int
  OBVIOUS
<1>2. /\ IsFiniteSet(0 .. c - 1)
      /\ Cardinality(0 .. c - 1) = IF 0 > c - 1 THEN 0 ELSE c - 1 - 0 + 1
  BY <1>1, FS_Interval
<1> QED
  BY <1>2

\* The free bits of a group are finitely many, at most the items of a group.
LEMMA FreeBitsFinite ==
  ASSUME NEW k \in Kind, NEW g \in Group
  PROVE  /\ IsFiniteSet(FreeBits(k, g))
         /\ Cardinality(FreeBits(k, g)) \in 0 .. CountMax16
<1>1. PerGroup(k) \in Nat /\ PerGroup(k) <= CountMax16
  BY GeometryAssumption, CounterAssumption DEF PerGroup
<1>2. IsFiniteSet(ItemBits(k)) /\ Cardinality(ItemBits(k)) = PerGroup(k)
  BY <1>1, FirstNaturals DEF ItemBits
<1>3. FreeBits(k, g) \in SUBSET ItemBits(k)
  BY DEF FreeBits
<1>4. /\ IsFiniteSet(FreeBits(k, g))
      /\ Cardinality(FreeBits(k, g)) <= Cardinality(ItemBits(k))
  BY <1>2, <1>3, FS_Subset
<1>5. Cardinality(FreeBits(k, g)) \in Nat
  BY <1>4, FS_CardinalityType
<1> QED
  BY <1>1, <1>2, <1>4, <1>5, CounterAssumption

-----------------------------------------------------------------------------
(***************************************************************************)
(* Type correctness                                                        *)
(***************************************************************************)

\* An unsigned counter keeps its range when it is decremented, zero included.
LEMMA DecrementedType ==
  ASSUME NEW max \in Nat, NEW n \in 0 .. max
  PROVE  Decremented(n, max) \in 0 .. max
BY DEF Decremented

\* What the allocator returns is a number.
LEMMA ItemNumberType ==
  ASSUME NEW k \in Kind, NEW g \in Group, NEW i \in Nat
  PROVE  ItemNumber(k, g, i) \in Nat
<1>1. g \in Nat
  BY GeometryAssumption DEF Group
<1> QED
  BY <1>1, GeometryAssumption DEF ItemNumber

\* A file system as mke2fs leaves it has the right types.
LEMMA InitType == Init => TypeOK
<1> SUFFICES ASSUME Init PROVE TypeOK
  OBVIOUS
<1>1. bgdtDisk \in [Kind -> [Group -> 0 .. CountMax16]]
  BY FreeBitsFinite DEF Init
<1>2. /\ bgdt \in [Kind -> [Group -> 0 .. CountMax16]]
      /\ sb \in [Kind -> 0 .. CountMax32]
  BY CounterAssumption DEF Init
<1>3. call \in [k : Kind, g : Group, i : ScanBits]
  BY GeometryAssumption DEF Init, Kind, Group, ScanBits
<1>4. owned \in [Kind -> SUBSET Nat]
  <2>1. ASSUME NEW k \in Kind, NEW g \in Group,
               NEW i \in bitmap[k][g] \cap ItemBits(k)
        PROVE  ItemNumber(k, g, i) \in Nat
    BY ItemNumberType, GeometryAssumption DEF ItemBits, PerGroup
  <2>2. ASSUME NEW k \in Kind
        PROVE  UNION {{ItemNumber(k, g, i) : i \in bitmap[k][g] \cap ItemBits(k)} :
                        g \in Group} \subseteq Nat
    BY <2>1
  <2> QED
    BY <2>2 DEF Init
<1> QED
  BY <1>1, <1>2, <1>3, <1>4 DEF Init, TypeOK, NoRet

\* Every step of the allocator, device errors and power losses included, keeps
\* the types.
LEMMA NextType == TypeOK /\ [Next]_vars => TypeOK'
<1> SUFFICES ASSUME TypeOK, [Next]_vars PROVE TypeOK'
  OBVIOUS
<1> USE DEF TypeOK
<1>1. CASE Mount
  BY <1>1 DEF Mount, ext2_extract_sb, ext2_extract_bgdt
<1>2. ASSUME NEW k \in Kind, NEW g \in Group, FreeAlloc(k, g)
      PROVE  TypeOK'
  <2>1. PICK readOk \in BOOLEAN, writeOk \in BOOLEAN, used \in SUBSET Bits :
          ScanAndMark(k, g, readOk, writeOk, used)
    BY <1>2 DEF FreeAlloc
  <2>2. UNCHANGED <<bgdtDisk, sbDisk, bgdt, sb, owned, crashes>>
    BY <1>2 DEF FreeAlloc
  <2>3. faults' \in Nat
    BY <2>1 DEF ScanAndMark, CountFaults, Failures
  <2>4. CASE Clear(used) = {}
    <3>1. call' \in [k : Kind, g : Group, i : ScanBits]
      BY <2>1, <2>4, GeometryAssumption DEF ScanAndMark, ScanBits
    <3> QED
      BY <2>1, <2>2, <2>3, <2>4, <3>1 DEF ScanAndMark
  <2>5. CASE Clear(used) # {}
    <3>1. FirstClear(used) \in ScanBits
      BY <2>5, FirstClearIsClear
    <3>2. call' \in [k : Kind, g : Group, i : ScanBits]
      BY <2>1, <2>5, <3>1 DEF ScanAndMark
    <3>3. used \cup {FirstClear(used)} \in SUBSET Bits
      BY <3>1 DEF Bits
    <3>4. bitmap' \in [Kind -> [Group -> SUBSET Bits]]
      BY <2>1, <2>5, <3>3 DEF ScanAndMark, SaveBitmap
    <3> QED
      BY <2>1, <2>2, <2>3, <2>5, <3>2, <3>4 DEF ScanAndMark
  <2> QED
    BY <2>4, <2>5
<1>3. CASE UpdateBgdt
  <2>1. /\ call.k \in Kind /\ call.g \in Group
        /\ Decremented(bgdt[call.k][call.g], CountMax16) \in 0 .. CountMax16
    BY DecrementedType, CounterAssumption
  <2>2. bgdt' \in [Kind -> [Group -> 0 .. CountMax16]]
    BY <1>3, <2>1 DEF UpdateBgdt
  <2>3. bgdtDisk' \in [Kind -> [Group -> 0 .. CountMax16]] /\ faults' \in Nat
    BY <1>3, <2>2 DEF UpdateBgdt, ext2_write_bgdt, CountFaults, Failures
  <2> QED
    BY <1>3, <2>2, <2>3 DEF UpdateBgdt
<1>4. CASE UpdateSb
  <2>1. /\ call.k \in Kind /\ call.g \in Group /\ call.i \in Nat
        /\ Decremented(sb[call.k], CountMax32) \in 0 .. CountMax32
    BY DecrementedType, CounterAssumption, GeometryAssumption DEF ScanBits
  <2>2. sb' \in [Kind -> 0 .. CountMax32]
    BY <1>4, <2>1 DEF UpdateSb
  <2>3. sbDisk' \in [Kind -> 0 .. CountMax32] /\ faults' \in Nat
    BY <1>4, <2>2 DEF UpdateSb, ext2_write_sb, CountFaults, Failures
  <2>4. ret' \in Nat
    BY <1>4, <2>1, ItemNumberType DEF UpdateSb
  <2> QED
    BY <1>4, <2>2, <2>3, <2>4 DEF UpdateSb
<1>5. CASE Crash
  BY <1>5, CounterAssumption DEF Crash
<1>6. CASE UNCHANGED vars
  BY <1>6 DEF vars
<1> QED
  BY <1>1, <1>2, <1>3, <1>4, <1>5, <1>6
     DEF Next, ext2_free_inode_alloc, ext2_free_block_alloc, Kind

\* The counters of both tables keep the range of their C types, every scanned
\* bit lies in the bitmap: the type invariant holds for every geometry.
THEOREM TypeCorrect == Spec => []TypeOK
<1> QED
  BY InitType, NextType, PTL DEF Spec

-----------------------------------------------------------------------------
(***************************************************************************)
(* The inductive invariant of the behaviours without a device error        *)
(***************************************************************************)

InProgress == pc \in {"bgdt", "sb"}

\* The bits that stand for no item are set, so the scan never takes one.
PaddingSet == \A k \in Kind, g \in Group : Bits \ ItemBits(k) \subseteq bitmap[k][g]

\* A number in use is marked in the bitmap of its group.
OwnedIsMarked ==
  \A k \in Kind, g \in Group : \A i \in ItemBits(k) :
    ItemNumber(k, g, i) \in owned[k] => i \in bitmap[k][g]

\* The bit of the call in progress stands for an item, is marked, is free.
CallIsFresh ==
  InProgress =>
    /\ call.i \in ItemBits(call.k)
    /\ call.i \in bitmap[call.k][call.g]
    /\ ItemNumber(call.k, call.g, call.i) \notin owned[call.k]

\* A descriptor still counts the bit whose bitmap write is already on disk.
Pending(k, g) == IF pc = "bgdt" /\ call.k = k /\ call.g = g THEN 1 ELSE 0

CountsCover ==
  \A k \in Kind, g \in Group :
    Cardinality(FreeBits(k, g)) + Pending(k, g) <= bgdtDisk[k][g]

\* The table in memory is the table on disk, once the system is mounted.
MemoryIsDisk == pc # "off" => bgdt = bgdtDisk

AllocInv ==
  faults = 0 =>
    PaddingSet /\ OwnedIsMarked /\ CallIsFresh /\ CountsCover /\ MemoryIsDisk

\* A fresh file system satisfies the inductive invariant.
LEMMA InitAllocInv == Init => AllocInv
<1> SUFFICES ASSUME Init
             PROVE  PaddingSet /\ OwnedIsMarked /\ CallIsFresh /\ CountsCover /\ MemoryIsDisk
  BY DEF AllocInv
<1>1. PaddingSet
  BY DEF Init, MkfsBitmap, PaddingSet
<1>2. OwnedIsMarked
  <2> SUFFICES ASSUME NEW k \in Kind, NEW g \in Group, NEW i \in ItemBits(k),
                      ItemNumber(k, g, i) \in owned[k]
               PROVE  i \in bitmap[k][g]
    BY DEF OwnedIsMarked
  <2>1. PICK h \in Group :
          \E j \in bitmap[k][h] \cap ItemBits(k) :
            ItemNumber(k, g, i) = ItemNumber(k, h, j)
    BY DEF Init
  <2>2. PICK j \in bitmap[k][h] \cap ItemBits(k) :
          ItemNumber(k, g, i) = ItemNumber(k, h, j)
    BY <2>1
  <2>3. g = h /\ i = j
    BY <2>2, ItemNumberInjective
  <2> QED
    BY <2>2, <2>3
<1>3. CallIsFresh /\ MemoryIsDisk
  BY DEF Init, CallIsFresh, InProgress, MemoryIsDisk
<1>4. CountsCover
  <2> SUFFICES ASSUME NEW k \in Kind, NEW g \in Group
               PROVE  Cardinality(FreeBits(k, g)) + Pending(k, g) <= bgdtDisk[k][g]
    BY DEF CountsCover
  <2>1. bgdtDisk[k][g] = Cardinality(FreeBits(k, g)) /\ Pending(k, g) = 0
    BY DEF Init, Pending
  <2> QED
    BY <2>1, FreeBitsFinite, CounterAssumption
<1> QED
  BY <1>1, <1>2, <1>3, <1>4

\* The first step of a call on a device that works: nothing, or one free bit is set.
LEMMA FreeAllocIs ==
  ASSUME TypeOK, AllocInv, faults' = 0,
         NEW k \in Kind, NEW g \in Group, FreeAlloc(k, g)
  PROVE  /\ faults = 0 /\ pc = "idle" /\ UNCHANGED <<bgdtDisk, sbDisk, bgdt, sb, owned, crashes>>
         /\ \/ UNCHANGED <<bitmap, pc>>
            \/ \E b \in FreeBits(k, g) :
                 /\ bitmap' = [bitmap EXCEPT ![k][g] = bitmap[k][g] \cup {b}]
                 /\ pc' = "bgdt"
                 /\ call' = [k |-> k, g |-> g, i |-> b]
<1> USE DEF TypeOK
<1>1. PICK readOk \in BOOLEAN, writeOk \in BOOLEAN :
        \E used \in IF readOk THEN {bitmap[k][g]} ELSE SUBSET Bits :
          ScanAndMark(k, g, readOk, writeOk, used)
  BY DEF FreeAlloc
<1> DEFINE used == bitmap[k][g]
<1>2. readOk /\ ScanAndMark(k, g, readOk, writeOk, used) /\ faults = 0
  <2>1. readOk /\ faults = 0
    BY <1>1 DEF ScanAndMark, CountFaults, Failures
  <2> QED
    BY <1>1, <2>1
<1>3. pc = "idle" /\ UNCHANGED <<bgdtDisk, sbDisk, bgdt, sb, owned, crashes>>
  BY DEF FreeAlloc
<1>4. CASE Clear(used) = {}
  BY <1>2, <1>3, <1>4 DEF ScanAndMark
<1>5. CASE Clear(used) # {}
  <2> DEFINE b == FirstClear(used)
  <2>1. b \in ScanBits /\ b \notin bitmap[k][g]
    BY <1>5, FirstClearIsClear
  <2>2. b \in FreeBits(k, g)
    BY <1>2, <2>1 DEF AllocInv, PaddingSet, Bits, FreeBits
  <2>3. writeOk
    BY <1>2, <1>5 DEF ScanAndMark, CountFaults, Failures
  <2>4. /\ bitmap' = [bitmap EXCEPT ![k][g] = used \cup {b}]
        /\ pc' = "bgdt"
        /\ call' = [k |-> k, g |-> g, i |-> b]
    BY <1>2, <1>5, <2>3 DEF ScanAndMark, SaveBitmap
  <2> QED
    BY <1>2, <1>3, <2>2, <2>4
<1> QED
  BY <1>4, <1>5

\* The bitmap gains one bit, and only that bit.
LEMMA FreeAllocInv ==
  ASSUME TypeOK, AllocInv, faults' = 0,
         NEW k \in Kind, NEW g \in Group, FreeAlloc(k, g)
  PROVE  (PaddingSet /\ OwnedIsMarked /\ CallIsFresh /\ CountsCover /\ MemoryIsDisk)'
<1> USE DEF TypeOK
<1>1. /\ faults = 0 /\ pc = "idle"
      /\ UNCHANGED <<bgdtDisk, sbDisk, bgdt, sb, owned, crashes>>
  BY FreeAllocIs
<1>2. PaddingSet /\ OwnedIsMarked /\ CountsCover /\ MemoryIsDisk
  BY <1>1 DEF AllocInv
<1>3. CASE UNCHANGED <<bitmap, pc>>
  <2>1. (PaddingSet /\ OwnedIsMarked /\ CallIsFresh /\ MemoryIsDisk)'
    BY <1>1, <1>2, <1>3 DEF PaddingSet, OwnedIsMarked, CallIsFresh, InProgress, MemoryIsDisk
  <2>2. CountsCover'
    BY <1>1, <1>2, <1>3 DEF CountsCover, Pending, FreeBits
  <2> QED
    BY <2>1, <2>2
<1>4. ASSUME NEW b \in FreeBits(k, g),
             bitmap' = [bitmap EXCEPT ![k][g] = bitmap[k][g] \cup {b}],
             pc' = "bgdt", call' = [k |-> k, g |-> g, i |-> b]
      PROVE  (PaddingSet /\ OwnedIsMarked /\ CallIsFresh /\ CountsCover /\ MemoryIsDisk)'
  <2>1. b \in ItemBits(k) /\ b \notin bitmap[k][g]
    BY DEF FreeBits
  <2>2. \A l \in Kind, h \in Group :
          bitmap'[l][h] = IF l = k /\ h = g THEN bitmap[k][g] \cup {b}
                                            ELSE bitmap[l][h]
    BY <1>4
  <2>3. PaddingSet' /\ OwnedIsMarked' /\ MemoryIsDisk'
    BY <1>1, <1>2, <1>4, <2>2 DEF PaddingSet, OwnedIsMarked, MemoryIsDisk
  <2>4. CallIsFresh'
    <3>1. ItemNumber(k, g, b) \notin owned[k]
      BY <1>2, <2>1 DEF OwnedIsMarked
    <3> QED
      BY <1>1, <1>4, <2>1, <2>2, <3>1 DEF CallIsFresh
  <2>5. CountsCover'
    <3> SUFFICES ASSUME NEW l \in Kind, NEW h \in Group
                 PROVE  Cardinality(FreeBits(l, h)') + Pending(l, h)' <= bgdtDisk'[l][h]
      BY DEF CountsCover
    <3>1. Cardinality(FreeBits(l, h)) <= bgdtDisk[l][h]
      <4>1. Pending(l, h) = 0
        BY <1>1 DEF Pending
      <4> QED
        BY <1>2, <4>1, FreeBitsFinite DEF CountsCover
    <3>2. CASE l = k /\ h = g
      <4>1. FreeBits(l, h)' = FreeBits(l, h) \ {b} /\ b \in FreeBits(l, h)
        BY <2>1, <2>2, <3>2 DEF FreeBits
      <4>2. Cardinality(FreeBits(l, h)') = Cardinality(FreeBits(l, h)) - 1
        BY <4>1, FreeBitsFinite, FS_RemoveElement
      <4>3. Pending(l, h)' = 1
        BY <1>4, <3>2 DEF Pending
      <4> QED
        BY <1>1, <3>1, <4>2, <4>3, FreeBitsFinite
    <3>3. CASE ~(l = k /\ h = g)
      <4>1. FreeBits(l, h)' = FreeBits(l, h)
        BY <2>2, <3>3 DEF FreeBits
      <4>2. Pending(l, h)' = 0
        BY <1>4, <3>3 DEF Pending
      <4> QED
        BY <1>1, <3>1, <4>1, <4>2, FreeBitsFinite
    <3> QED
      BY <3>2, <3>3
  <2> QED
    BY <2>3, <2>4, <2>5
<1> QED
  BY <1>3, <1>4, FreeAllocIs

\* The second step: a descriptor counter is above zero when it is decremented,
\* because it still counts the bit just marked.
LEMMA UpdateBgdtInv ==
  ASSUME TypeOK, AllocInv, faults' = 0, UpdateBgdt
  PROVE  (PaddingSet /\ OwnedIsMarked /\ CallIsFresh /\ CountsCover /\ MemoryIsDisk)'
<1> USE DEF TypeOK
<1>1. PICK ok \in BOOLEAN : ext2_write_bgdt(ok) /\ CountFaults(Failures(ok))
  BY DEF UpdateBgdt
<1>2. ok /\ faults = 0
  BY <1>1 DEF CountFaults, Failures
<1>3. PaddingSet /\ OwnedIsMarked /\ CallIsFresh /\ CountsCover /\ bgdt = bgdtDisk
  BY <1>2 DEF AllocInv, UpdateBgdt, MemoryIsDisk
<1>4. /\ pc = "bgdt" /\ pc' = "sb"
      /\ UNCHANGED <<bitmap, call, owned>>
      /\ bgdt' = [bgdt EXCEPT ![call.k][call.g] = Decremented(@, CountMax16)]
      /\ bgdtDisk' = bgdt'
  BY <1>1, <1>2 DEF UpdateBgdt, ext2_write_bgdt
<1>5. (PaddingSet /\ OwnedIsMarked /\ MemoryIsDisk)'
  BY <1>3, <1>4 DEF PaddingSet, OwnedIsMarked, MemoryIsDisk
<1>6. CallIsFresh'
  BY <1>3, <1>4 DEF CallIsFresh, InProgress
<1>7. CountsCover'
  <2> SUFFICES ASSUME NEW k \in Kind, NEW g \in Group
               PROVE  Cardinality(FreeBits(k, g)') + Pending(k, g)' <= bgdtDisk'[k][g]
    BY DEF CountsCover
  <2>1. FreeBits(k, g)' = FreeBits(k, g) /\ Pending(k, g)' = 0
    BY <1>4 DEF FreeBits, Pending
  <2>2. Cardinality(FreeBits(k, g)) + Pending(k, g) <= bgdtDisk[k][g]
    BY <1>3 DEF CountsCover
  <2>3. Cardinality(FreeBits(k, g)) \in Nat /\ bgdtDisk[k][g] \in Nat
    BY FreeBitsFinite, CounterAssumption
  <2>4. CASE call.k = k /\ call.g = g
    <3>1. Pending(k, g) = 1
      BY <1>4, <2>4 DEF Pending
    <3>2. bgdtDisk'[k][g] = bgdtDisk[k][g] - 1
      BY <1>3, <1>4, <2>2, <2>3, <2>4, <3>1 DEF Decremented
    <3> QED
      BY <2>1, <2>2, <2>3, <3>1, <3>2
  <2>5. CASE ~(call.k = k /\ call.g = g)
    <3>1. bgdtDisk'[k][g] = bgdtDisk[k][g] /\ Pending(k, g) = 0
      BY <1>3, <1>4, <2>5 DEF Pending
    <3> QED
      BY <2>1, <2>2, <2>3, <3>1
  <2> QED
    BY <2>4, <2>5
<1> QED
  BY <1>5, <1>6, <1>7

\* The last step: the number returned becomes owned, and it is the number of a
\* bit already marked.
LEMMA UpdateSbInv ==
  ASSUME TypeOK, AllocInv, faults' = 0, UpdateSb
  PROVE  (PaddingSet /\ OwnedIsMarked /\ CallIsFresh /\ CountsCover /\ MemoryIsDisk)'
<1> USE DEF TypeOK
<1>1. faults = 0
  BY DEF UpdateSb, CountFaults, Failures
<1>2. PaddingSet /\ OwnedIsMarked /\ CallIsFresh /\ CountsCover /\ MemoryIsDisk
  BY <1>1 DEF AllocInv
<1> DEFINE n == ItemNumber(call.k, call.g, call.i)
<1>3. /\ pc = "sb" /\ pc' = "idle"
      /\ UNCHANGED <<bitmap, bgdtDisk, bgdt, call>>
      /\ owned' = [owned EXCEPT ![call.k] = @ \cup {n}]
  BY DEF UpdateSb
<1>4. (PaddingSet /\ CallIsFresh /\ MemoryIsDisk)'
  BY <1>2, <1>3 DEF PaddingSet, CallIsFresh, InProgress, MemoryIsDisk
<1>5. CountsCover'
  <2> SUFFICES ASSUME NEW k \in Kind, NEW g \in Group
               PROVE  Cardinality(FreeBits(k, g)') + Pending(k, g)' <= bgdtDisk'[k][g]
    BY DEF CountsCover
  <2>1. FreeBits(k, g)' = FreeBits(k, g) /\ Pending(k, g)' = 0 /\ Pending(k, g) = 0
    BY <1>3 DEF FreeBits, Pending
  <2> QED
    BY <1>2, <1>3, <2>1 DEF CountsCover
<1>6. OwnedIsMarked'
  <2> SUFFICES ASSUME NEW k \in Kind, NEW g \in Group, NEW i \in ItemBits(k),
                      ItemNumber(k, g, i) \in owned'[k]
               PROVE  i \in bitmap[k][g]
    BY <1>3 DEF OwnedIsMarked
  <2>1. CASE ItemNumber(k, g, i) \in owned[k]
    BY <1>2, <2>1 DEF OwnedIsMarked
  <2>2. CASE k = call.k /\ ItemNumber(k, g, i) = n
    <3>1. /\ call.i \in ItemBits(call.k) /\ call.g \in Group
          /\ call.i \in bitmap[call.k][call.g]
      BY <1>2, <1>3 DEF CallIsFresh, InProgress
    <3>2. g = call.g /\ i = call.i
      BY <2>2, <3>1, ItemNumberInjective
    <3> QED
      BY <2>2, <3>1, <3>2
  <2> QED
    BY <1>3, <2>1, <2>2
<1> QED
  BY <1>4, <1>5, <1>6

\* Every step keeps the inductive invariant.
LEMMA NextAllocInv == TypeOK /\ AllocInv /\ [Next]_vars => AllocInv'
<1> SUFFICES ASSUME TypeOK, AllocInv, [Next]_vars, faults' = 0
             PROVE  (PaddingSet /\ OwnedIsMarked /\ CallIsFresh /\ CountsCover /\ MemoryIsDisk)'
  BY DEF AllocInv
<1> DEFINE Inv == PaddingSet /\ OwnedIsMarked /\ CallIsFresh /\ CountsCover /\ MemoryIsDisk
<1>1. ASSUME UNCHANGED <<bitmap, bgdtDisk, call, owned, faults>>,
             ~InProgress', MemoryIsDisk'
      PROVE  Inv'
  <2>1. Inv
    BY <1>1 DEF AllocInv
  <2>2. (PaddingSet /\ OwnedIsMarked /\ CallIsFresh)'
    BY <1>1, <2>1 DEF PaddingSet, OwnedIsMarked, CallIsFresh, InProgress
  <2>3. CountsCover'
    <3> SUFFICES ASSUME NEW k \in Kind, NEW g \in Group
                 PROVE  Cardinality(FreeBits(k, g)') + Pending(k, g)' <= bgdtDisk'[k][g]
      BY DEF CountsCover
    <3>1. FreeBits(k, g)' = FreeBits(k, g) /\ Pending(k, g)' = 0
      BY <1>1 DEF FreeBits, Pending, InProgress
    <3>2. /\ Cardinality(FreeBits(k, g)) + Pending(k, g) <= bgdtDisk[k][g]
          /\ Cardinality(FreeBits(k, g)) \in Nat /\ bgdtDisk[k][g] \in Nat
      BY <2>1, FreeBitsFinite, CounterAssumption DEF CountsCover, TypeOK
    <3> QED
      BY <1>1, <3>1, <3>2 DEF Pending
  <2> QED
    BY <1>1, <2>2, <2>3
<1>2. CASE Mount
  BY <1>1, <1>2 DEF Mount, ext2_extract_bgdt, InProgress, MemoryIsDisk
<1>3. CASE \E g \in Group : ext2_free_inode_alloc(g)
  BY <1>3, FreeAllocInv DEF ext2_free_inode_alloc, Kind
<1>4. CASE \E g \in Group : ext2_free_block_alloc(g)
  BY <1>4, FreeAllocInv DEF ext2_free_block_alloc, Kind
<1>5. CASE UpdateBgdt
  BY <1>5, UpdateBgdtInv
<1>6. CASE UpdateSb
  BY <1>6, UpdateSbInv
<1>7. CASE Crash
  BY <1>1, <1>7 DEF Crash, InProgress, MemoryIsDisk
<1>8. CASE UNCHANGED vars
  BY <1>8 DEF vars, AllocInv, PaddingSet, OwnedIsMarked, CallIsFresh, InProgress,
              CountsCover, Pending, FreeBits, MemoryIsDisk
<1> QED
  BY <1>2, <1>3, <1>4, <1>5, <1>6, <1>7, <1>8 DEF Next

\* The inductive invariant holds in every behaviour.
LEMMA AllocInvariant == Spec => [](TypeOK /\ AllocInv)
<1> QED
  BY InitType, NextType, InitAllocInv, NextAllocInv, PTL DEF Spec

-----------------------------------------------------------------------------
\* No inode or block number is handed out twice, whatever power losses fall
\* between the bitmap, descriptor and superblock writes of
\* ext2_free_inode_alloc and ext2_free_block_alloc.
THEOREM NoDoubleAllocationHolds == Spec => []NoDoubleAllocation
<1>1. TypeOK /\ AllocInv => NoDoubleAllocation
  BY DEF AllocInv, CallIsFresh, InProgress, NoDoubleAllocation
<1> QED
  BY <1>1, AllocInvariant, PTL

\* A descriptor on disk never counts less than its bitmap holds: the order of
\* the writes of a call makes every crash err on the high side.
THEOREM DescriptorsCoverBitmapsHolds == Spec => []DescriptorsCoverBitmaps
<1>1. TypeOK /\ AllocInv => DescriptorsCoverBitmaps
  <2> SUFFICES ASSUME TypeOK, AllocInv, faults = 0, NEW k \in Kind, NEW g \in Group
               PROVE  Cardinality(FreeBits(k, g)) <= bgdtDisk[k][g]
    BY DEF DescriptorsCoverBitmaps
  <2>1. /\ Cardinality(FreeBits(k, g)) + Pending(k, g) <= bgdtDisk[k][g]
        /\ Cardinality(FreeBits(k, g)) \in Nat /\ bgdtDisk[k][g] \in Nat
    BY FreeBitsFinite, CounterAssumption DEF AllocInv, CountsCover, TypeOK
  <2> QED
    BY <2>1 DEF Pending
<1> QED
  BY <1>1, AllocInvariant, PTL

-----------------------------------------------------------------------------
(***************************************************************************)
(* The counters together                                                   *)
(***************************************************************************)

\* Counters of the groups that fit a descriptor.
Counts == [Group -> 0 .. CountMax16]

\* The units that finitely many bounded counters count are finitely many.
LEMMA UnitsFinite ==
  ASSUME NEW count \in Counts
  PROVE  IsFiniteSet(Units(count)) /\ OverGroups(count) \in Nat
<1>1. IsFiniteSet(Group \X (1 .. CountMax16))
  <2>1. IsFiniteSet(0 .. NumGroups - 1) /\ IsFiniteSet(1 .. CountMax16)
    BY GeometryAssumption, CounterAssumption, FS_Interval
  <2> QED
    BY <2>1, FS_Product DEF Group
<1>2. Units(count) \in SUBSET (Group \X (1 .. CountMax16))
  BY CounterAssumption DEF Units, Counts
<1> QED
  BY <1>1, <1>2, FS_Subset, FS_CardinalityType DEF OverGroups

\* A set without one of its elements.
LEMMA TakenFromSet ==
  ASSUME NEW S, IsFiniteSet(S), NEW x \in S
  PROVE  /\ IsFiniteSet(S \ {x}) /\ Cardinality(S \ {x}) \in Nat
         /\ Cardinality(S) = Cardinality(S \ {x}) + 1
         /\ Cardinality(S \ {x}) = Cardinality(S) - 1
<1>1. IsFiniteSet(S \ {x}) /\ Cardinality(S \ {x}) = Cardinality(S) - 1
  BY FS_RemoveElement
<1>2. Cardinality(S \ {x}) \in Nat /\ Cardinality(S) \in Nat
  BY <1>1, FS_CardinalityType
<1> QED
  BY <1>1, <1>2

\* One counter less by one is one unit less.
LEMMA OneUnitLess ==
  ASSUME NEW count \in Counts, NEW less \in Counts, NEW g \in Group,
         count[g] = less[g] + 1, \A h \in Group \ {g} : count[h] = less[h]
  PROVE  OverGroups(less) = OverGroups(count) - 1
<1> DEFINE u == <<g, count[g]>>
<1>1. \A h \in Group : count[h] \in Nat /\ less[h] \in Nat
  BY CounterAssumption DEF Counts
<1>2. u \in Units(count)
  BY <1>1 DEF Units
<1>3. Units(less) = Units(count) \ {u}
  <2>1. \A h \in Group : {h} \X (1 .. less[h]) = ({h} \X (1 .. count[h])) \ {u}
    <3> SUFFICES ASSUME NEW h \in Group
                 PROVE  {h} \X (1 .. less[h]) = ({h} \X (1 .. count[h])) \ {u}
      OBVIOUS
    <3>1. CASE h = g
      <4>1. 1 .. less[h] = (1 .. count[h]) \ {count[h]}
        BY <1>1, <3>1
      <4> QED
        BY <3>1, <4>1
    <3>2. CASE h # g
      BY <3>2
    <3> QED
      BY <3>1, <3>2
  <2> QED
    BY <2>1 DEF Units
<1> HIDE DEF u
<1> QED
  BY <1>2, <1>3, UnitsFinite, FS_RemoveElement DEF OverGroups

\* Counters that count nothing.
LEMMA NoUnits ==
  ASSUME NEW count \in Counts, \A g \in Group : count[g] = 0
  PROVE  OverGroups(count) = 0
<1>1. Units(count) = {}
  BY DEF Units
<1> QED
  BY <1>1, FS_EmptySet DEF OverGroups

\* The free bits of every group, as counters.
FreeCounts(k) == [g \in Group |-> Cardinality(FreeBits(k, g))]

\* A free bit that is set is one free bit less in all groups.
LEMMA OneFreeBitLess ==
  ASSUME TypeOK, NEW k \in Kind, NEW g \in Group, NEW b \in FreeBits(k, g),
         bitmap' = [bitmap EXCEPT ![k][g] = bitmap[k][g] \cup {b}]
  PROVE  \A l \in Kind :
           TotalFreeBits(l)' = IF l = k THEN TotalFreeBits(l) - 1 ELSE TotalFreeBits(l)
<1>1. \A l \in Kind, h \in Group :
        FreeBits(l, h)' = IF l = k /\ h = g THEN FreeBits(l, h) \ {b} ELSE FreeBits(l, h)
  BY DEF TypeOK, FreeBits
<1>2. \A l \in Kind : FreeCounts(l) \in Counts /\ FreeCounts(l)' \in Counts
  <2>1. \A l \in Kind, h \in Group :
          /\ Cardinality(FreeBits(l, h)) \in 0 .. CountMax16
          /\ Cardinality(FreeBits(l, h)') \in 0 .. CountMax16
    <3>1. \A l \in Kind, h \in Group : Cardinality(FreeBits(l, h)) \in 0 .. CountMax16
      BY FreeBitsFinite
    <3>2. \A l \in Kind, h \in Group : Cardinality(FreeBits(l, h)') \in 0 .. CountMax16
      <4> SUFFICES ASSUME NEW l \in Kind, NEW h \in Group
                   PROVE  Cardinality(FreeBits(l, h)') \in 0 .. CountMax16
        OBVIOUS
      <4>1. FreeBits(l, h)' = FreeBits(l, h) \/ (FreeBits(l, h)' = FreeBits(l, h) \ {b} /\ b \in FreeBits(l, h))
        BY <1>1
      <4>2. IsFiniteSet(FreeBits(l, h)) /\ Cardinality(FreeBits(l, h)) \in 0 .. CountMax16
        BY FreeBitsFinite
      <4> DEFINE F == FreeBits(l, h)
      <4>3. CASE F' = F
        BY <4>2, <4>3
      <4>4. CASE F' = F \ {b} /\ b \in F
        <5>1. Cardinality(F') \in Nat /\ Cardinality(F') = Cardinality(F) - 1
          BY <4>2, <4>4, TakenFromSet
        <5> QED
          BY <4>2, <5>1, CounterAssumption
      <4> QED
        BY <4>1, <4>3, <4>4
    <3> QED
      BY <3>1, <3>2
  <2> QED
    BY <2>1 DEF FreeCounts, Counts
<1>3. \A l \in Kind : l # k => TotalFreeBits(l)' = TotalFreeBits(l)
  BY <1>1 DEF TotalFreeBits, OverGroups, Units
<1>4. TotalFreeBits(k)' = TotalFreeBits(k) - 1
  <2>1. Cardinality(FreeBits(k, g)) = Cardinality(FreeBits(k, g) \ {b}) + 1
    <3>1. IsFiniteSet(FreeBits(k, g))
      BY FreeBitsFinite
    <3> QED
      BY <3>1, TakenFromSet
  <2> DEFINE old == FreeCounts(k)
             new == FreeCounts(k)'
  <2>2. old[g] = new[g] + 1 /\ \A h \in Group \ {g} : old[h] = new[h]
    BY <1>1, <2>1 DEF FreeCounts
  <2>3. old \in Counts /\ new \in Counts
    BY <1>2
  <2>4. TotalFreeBits(k) = OverGroups(old) /\ TotalFreeBits(k)' = OverGroups(new)
    BY DEF TotalFreeBits, FreeCounts, OverGroups, Units
  <2> HIDE DEF old, new
  <2> QED
    BY <2>2, <2>3, <2>4, OneUnitLess
<1> QED
  BY <1>3, <1>4

\* The superblock in memory is the one on disk, once the system is mounted.
SuperblockIsDisk == pc # "off" => sb = sbDisk

\* A descriptor is written before the superblock, which still counts that item.
SuperblockCovers ==
  \A k \in Kind :
    OverGroups(bgdtDisk[k]) + (IF pc = "sb" /\ call.k = k THEN 1 ELSE 0) <= sbDisk[k]

\* What the superblock counts too much: an item per crash and the call in progress.
DriftBounded ==
  \A k \in Kind :
    sbDisk[k] <= TotalFreeBits(k) + crashes + (IF InCall(k) THEN 1 ELSE 0)

TotalInv == faults = 0 => SuperblockIsDisk /\ SuperblockCovers /\ DriftBounded

\* All of these are sums of natural numbers.
LEMMA TotalsAreNumbers ==
  ASSUME TypeOK, NEW k \in Kind
  PROVE  /\ OverGroups(bgdtDisk[k]) \in Nat /\ TotalFreeBits(k) \in Nat
         /\ sbDisk[k] \in Nat /\ crashes \in Nat
<1>1. bgdtDisk[k] \in Counts
  BY DEF TypeOK, Counts
<1>2. FreeCounts(k) \in Counts
  BY FreeBitsFinite DEF FreeCounts, Counts
<1>3. TotalFreeBits(k) = OverGroups(FreeCounts(k))
  BY DEF TotalFreeBits, FreeCounts
<1> QED
  BY <1>1, <1>2, <1>3, UnitsFinite, CounterAssumption DEF TypeOK

\* mke2fs leaves a superblock that counts what the bitmaps hold.
LEMMA InitTotalInv == Init => TotalInv
<1> SUFFICES ASSUME Init PROVE SuperblockIsDisk /\ SuperblockCovers /\ DriftBounded
  BY DEF TotalInv
<1>1. pc = "off" /\ crashes = 0 /\ TypeOK
  BY InitType DEF Init
<1>2. \A k \in Kind :
        /\ sbDisk[k] = OverGroups(bgdtDisk[k]) /\ OverGroups(bgdtDisk[k]) = TotalFreeBits(k)
  BY DEF Init, TotalFreeBits
<1> QED
  BY <1>1, <1>2, TotalsAreNumbers DEF SuperblockIsDisk, SuperblockCovers, DriftBounded, InCall

\* The bitmap write: one free bit less, one call more.
LEMMA FreeAllocTotals ==
  ASSUME TypeOK, AllocInv, TotalInv, faults' = 0,
         NEW k \in Kind, NEW g \in Group, FreeAlloc(k, g)
  PROVE  (SuperblockIsDisk /\ SuperblockCovers /\ DriftBounded)'
<1>1. /\ faults = 0 /\ pc = "idle"
      /\ UNCHANGED <<bgdtDisk, sbDisk, bgdt, sb, owned, crashes>>
  BY FreeAllocIs
<1>2. SuperblockIsDisk /\ SuperblockCovers /\ DriftBounded
  BY <1>1 DEF TotalInv
<1>3. CASE UNCHANGED <<bitmap, pc>>
  <2>1. \A l \in Kind : TotalFreeBits(l)' = TotalFreeBits(l)
    BY <1>3 DEF TotalFreeBits, FreeBits
  <2>2. \A l \in Kind : OverGroups(bgdtDisk[l])' = OverGroups(bgdtDisk[l])
    BY <1>1 DEF OverGroups, Units
  <2> QED
    BY <1>1, <1>2, <1>3, <2>1, <2>2 DEF SuperblockIsDisk, SuperblockCovers, DriftBounded, InCall
<1>4. ASSUME NEW b \in FreeBits(k, g),
             bitmap' = [bitmap EXCEPT ![k][g] = bitmap[k][g] \cup {b}],
             pc' = "bgdt", call' = [k |-> k, g |-> g, i |-> b]
      PROVE  (SuperblockIsDisk /\ SuperblockCovers /\ DriftBounded)'
  <2>1. \A l \in Kind :
          TotalFreeBits(l)' = IF l = k THEN TotalFreeBits(l) - 1 ELSE TotalFreeBits(l)
    BY <1>4, OneFreeBitLess
  <2>2. \A l \in Kind : OverGroups(bgdtDisk[l])' = OverGroups(bgdtDisk[l])
    BY <1>1 DEF OverGroups, Units
  <2>3. SuperblockIsDisk' /\ SuperblockCovers'
    BY <1>1, <1>2, <1>4, <2>2 DEF SuperblockIsDisk, SuperblockCovers
  <2>4. DriftBounded'
    <3> SUFFICES ASSUME NEW l \in Kind
                 PROVE  sbDisk'[l] <= TotalFreeBits(l)' + crashes' + (IF InCall(l)' THEN 1 ELSE 0)
      BY DEF DriftBounded
    <3>1. sbDisk[l] <= TotalFreeBits(l) + crashes
      BY <1>1, <1>2, TotalsAreNumbers DEF DriftBounded, InCall
    <3>2. InCall(l)' <=> l = k
      BY <1>4 DEF InCall
    <3> QED
      BY <1>1, <2>1, <3>1, <3>2, TotalsAreNumbers
  <2> QED
    BY <2>3, <2>4
<1> QED
  BY <1>3, <1>4, FreeAllocIs

\* The descriptor write: one item less in the sum, and the superblock waits for it.
LEMMA UpdateBgdtTotals ==
  ASSUME TypeOK, TypeOK', AllocInv, TotalInv, faults' = 0, UpdateBgdt
  PROVE  /\ (SuperblockIsDisk /\ SuperblockCovers /\ DriftBounded)'
         /\ bgdtDisk'[call.k][call.g] = bgdtDisk[call.k][call.g] - 1
         /\ \A k \in Kind, g \in Group :
              ~(k = call.k /\ g = call.g) => bgdtDisk'[k][g] = bgdtDisk[k][g]
<1>1. PICK ok \in BOOLEAN : ext2_write_bgdt(ok) /\ CountFaults(Failures(ok))
  BY DEF UpdateBgdt
<1>2. ok /\ faults = 0
  BY <1>1 DEF CountFaults, Failures, TypeOK
<1>3. /\ pc = "bgdt" /\ pc' = "sb" /\ call.k \in Kind /\ call.g \in Group
      /\ UNCHANGED <<bitmap, sbDisk, sb, call, crashes>>
      /\ bgdtDisk' = [bgdtDisk EXCEPT ![call.k][call.g] = Decremented(@, CountMax16)]
  BY <1>1, <1>2 DEF UpdateBgdt, ext2_write_bgdt, AllocInv, MemoryIsDisk, TypeOK
<1>4. SuperblockIsDisk /\ SuperblockCovers /\ DriftBounded /\ CountsCover
  BY <1>2 DEF TotalInv, AllocInv
<1>5. bgdtDisk[call.k][call.g] \in Nat /\ bgdtDisk[call.k][call.g] > 0
  <2>1. Cardinality(FreeBits(call.k, call.g)) + 1 <= bgdtDisk[call.k][call.g]
    BY <1>3, <1>4 DEF CountsCover, Pending
  <2> QED
    BY <1>3, <2>1, FreeBitsFinite, CounterAssumption DEF TypeOK
<1>6. /\ bgdtDisk'[call.k][call.g] = bgdtDisk[call.k][call.g] - 1
      /\ \A k \in Kind, g \in Group :
           ~(k = call.k /\ g = call.g) => bgdtDisk'[k][g] = bgdtDisk[k][g]
      /\ \A k \in Kind : k # call.k => bgdtDisk'[k] = bgdtDisk[k]
  BY <1>3, <1>5 DEF TypeOK, Decremented
<1>7. OverGroups(bgdtDisk'[call.k]) = OverGroups(bgdtDisk[call.k]) - 1
  <2> DEFINE old == bgdtDisk[call.k]
             new == bgdtDisk'[call.k]
             g == call.g
  <2>1. old \in Counts /\ new \in Counts /\ g \in Group
    BY <1>3 DEF TypeOK, Counts
  <2>2. old[g] = new[g] + 1 /\ \A h \in Group \ {g} : old[h] = new[h]
    BY <1>3, <1>5, <1>6
  <2>3. OverGroups(new) = OverGroups(old) - 1
    <3> HIDE DEF old, new, g
    <3> QED
      BY <2>1, <2>2, OneUnitLess
  <2> QED
    BY <2>3
<1>8. \A k \in Kind : TotalFreeBits(k)' = TotalFreeBits(k)
  BY <1>3 DEF TotalFreeBits, FreeBits
<1>9. SuperblockCovers'
  <2> SUFFICES ASSUME NEW k \in Kind
               PROVE  OverGroups(bgdtDisk'[k]) + (IF call.k = k THEN 1 ELSE 0) <= sbDisk[k]
    BY <1>3 DEF SuperblockCovers
  <2>1. OverGroups(bgdtDisk[k]) <= sbDisk[k]
    BY <1>3, <1>4, TotalsAreNumbers DEF SuperblockCovers
  <2> QED
    BY <1>6, <1>7, <2>1, TotalsAreNumbers
<1>10. SuperblockIsDisk' /\ DriftBounded'
  BY <1>3, <1>4, <1>8 DEF SuperblockIsDisk, DriftBounded, InCall
<1> QED
  BY <1>6, <1>9, <1>10

\* The superblock write: what it counts is above zero, because a descriptor item waited.
LEMMA UpdateSbTotals ==
  ASSUME TypeOK, TypeOK', AllocInv, TotalInv, faults' = 0, UpdateSb
  PROVE  /\ (SuperblockIsDisk /\ SuperblockCovers /\ DriftBounded)'
         /\ UNCHANGED bgdtDisk
         /\ \A k \in Kind : sbDisk'[k] = IF k = call.k THEN sbDisk[k] - 1 ELSE sbDisk[k]
<1>1. PICK ok \in BOOLEAN : ext2_write_sb(ok) /\ CountFaults(Failures(ok))
  BY DEF UpdateSb
<1>2. ok /\ faults = 0
  BY <1>1 DEF CountFaults, Failures, TypeOK
<1>3. SuperblockIsDisk /\ SuperblockCovers /\ DriftBounded
  BY <1>2 DEF TotalInv
<1>4. /\ pc = "sb" /\ pc' = "idle" /\ call.k \in Kind
      /\ UNCHANGED <<bitmap, bgdtDisk, call, crashes>>
      /\ sb' = sbDisk' /\ sbDisk' = [sbDisk EXCEPT ![call.k] = Decremented(@, CountMax32)]
  BY <1>1, <1>2, <1>3 DEF UpdateSb, ext2_write_sb, SuperblockIsDisk, TypeOK
<1>5. sbDisk[call.k] \in Nat /\ sbDisk[call.k] > 0
  <2>1. OverGroups(bgdtDisk[call.k]) + 1 <= sbDisk[call.k]
    BY <1>3, <1>4 DEF SuperblockCovers
  <2> QED
    BY <1>4, <2>1, TotalsAreNumbers
<1>6. \A k \in Kind : sbDisk'[k] = IF k = call.k THEN sbDisk[k] - 1 ELSE sbDisk[k]
  BY <1>4, <1>5 DEF TypeOK, Decremented
<1>7. \A k \in Kind : TotalFreeBits(k)' = TotalFreeBits(k)
  BY <1>4 DEF TotalFreeBits, FreeBits
<1>8. SuperblockIsDisk'
  BY <1>4 DEF SuperblockIsDisk
<1>9. SuperblockCovers'
  <2> SUFFICES ASSUME NEW k \in Kind PROVE OverGroups(bgdtDisk[k]) <= sbDisk'[k]
    BY <1>4, TotalsAreNumbers DEF SuperblockCovers
  <2>1. OverGroups(bgdtDisk[k]) + (IF call.k = k THEN 1 ELSE 0) <= sbDisk[k]
    BY <1>3, <1>4 DEF SuperblockCovers
  <2> QED
    BY <1>6, <2>1, TotalsAreNumbers
<1>10. DriftBounded'
  <2> SUFFICES ASSUME NEW k \in Kind PROVE sbDisk'[k] <= TotalFreeBits(k) + crashes
    BY <1>4, <1>7, TotalsAreNumbers DEF DriftBounded, InCall
  <2>1. sbDisk[k] <= TotalFreeBits(k) + crashes + (IF call.k = k THEN 1 ELSE 0)
    BY <1>3, <1>4 DEF DriftBounded, InCall
  <2> QED
    BY <1>6, <2>1, TotalsAreNumbers
<1> QED
  BY <1>4, <1>6, <1>8, <1>9, <1>10

\* Every step keeps the totals, and no counter on disk rises.
LEMMA NextTotalInv ==
  ASSUME TypeOK, TypeOK', AllocInv, TotalInv, [Next]_vars, faults' = 0
  PROVE  /\ (SuperblockIsDisk /\ SuperblockCovers /\ DriftBounded)'
         /\ \A k \in Kind :
              /\ sbDisk'[k] <= sbDisk[k]
              /\ \A g \in Group : bgdtDisk'[k][g] <= bgdtDisk[k][g]
<1> DEFINE Goal ==
      /\ (SuperblockIsDisk /\ SuperblockCovers /\ DriftBounded)'
      /\ \A k \in Kind :
           /\ sbDisk'[k] <= sbDisk[k]
           /\ \A g \in Group : bgdtDisk'[k][g] <= bgdtDisk[k][g]
<1>1. \A k \in Kind : sbDisk[k] \in Nat /\ \A g \in Group : bgdtDisk[k][g] \in Nat
  BY CounterAssumption DEF TypeOK
<1>2. ASSUME NEW k \in Kind, NEW g \in Group, FreeAlloc(k, g)
      PROVE  Goal
  BY <1>1, <1>2, FreeAllocIs, FreeAllocTotals
<1>3. CASE UpdateBgdt
  <2>1. UNCHANGED sbDisk
    <3>1. UNCHANGED sbDisk
      BY <1>3 DEF UpdateBgdt
    <3> QED
      BY <3>1
  <2>2. call.k \in Kind /\ call.g \in Group
    BY DEF TypeOK
  <2> QED
    BY <1>1, <1>3, <2>1, <2>2, UpdateBgdtTotals
<1>4. CASE UpdateSb
  BY <1>1, <1>4, UpdateSbTotals
<1>5. ASSUME UNCHANGED <<bitmap, bgdtDisk, sbDisk, faults>>, SuperblockIsDisk',
             ~InProgress', crashes' \in Nat, crashes' >= crashes,
             crashes' = crashes => ~InProgress,
             crashes' # crashes => crashes' = crashes + 1
      PROVE  Goal
  <2>1. SuperblockCovers /\ DriftBounded
    BY <1>5 DEF TotalInv
  <2>2. \A k \in Kind :
          TotalFreeBits(k)' = TotalFreeBits(k) /\ OverGroups(bgdtDisk[k])' = OverGroups(bgdtDisk[k])
    BY <1>5 DEF TotalFreeBits, FreeBits, OverGroups, Units
  <2>3. SuperblockCovers'
    <3> SUFFICES ASSUME NEW k \in Kind PROVE OverGroups(bgdtDisk[k]) <= sbDisk[k]
      BY <1>5, <2>2, TotalsAreNumbers DEF SuperblockCovers, InProgress
    <3> QED
      BY <2>1, TotalsAreNumbers DEF SuperblockCovers
  <2>4. DriftBounded'
    <3> SUFFICES ASSUME NEW k \in Kind PROVE sbDisk[k] <= TotalFreeBits(k) + crashes'
      BY <1>5, <2>2, TotalsAreNumbers DEF DriftBounded, InCall, InProgress
    <3>1. sbDisk[k] <= TotalFreeBits(k) + crashes + (IF InCall(k) THEN 1 ELSE 0)
      BY <2>1 DEF DriftBounded
    <3>2. crashes' = crashes => ~InCall(k)
      BY <1>5 DEF InCall, InProgress
    <3> QED
      BY <1>5, <3>1, <3>2, TotalsAreNumbers
  <2> QED
    BY <1>1, <1>5, <2>3, <2>4
<1>6. CASE Mount
  <2>1. /\ UNCHANGED <<bitmap, bgdtDisk, sbDisk, faults, crashes>> /\ sb' = sbDisk
        /\ pc = "off" /\ pc' = "idle"
    BY <1>6 DEF Mount, ext2_extract_sb
  <2>2. SuperblockIsDisk' /\ ~InProgress /\ ~InProgress'
    BY <2>1 DEF SuperblockIsDisk, InProgress
  <2> QED
    BY <1>5, <2>1, <2>2 DEF TypeOK
<1>7. CASE Crash
  <2>1. /\ UNCHANGED <<bitmap, bgdtDisk, sbDisk, faults>> /\ crashes' = crashes + 1
        /\ pc' = "off"
    BY <1>7 DEF Crash
  <2>2. SuperblockIsDisk' /\ ~InProgress'
    BY <2>1 DEF SuperblockIsDisk, InProgress
  <2>3. crashes \in Nat
    BY DEF TypeOK
  <2> QED
    BY <1>5, <2>1, <2>2, <2>3
<1>8. CASE UNCHANGED vars
  <2>1. UNCHANGED <<bitmap, bgdtDisk, sbDisk, sb, pc, call, crashes, faults>>
    BY <1>8 DEF vars
  <2>2. SuperblockIsDisk /\ SuperblockCovers /\ DriftBounded
    BY <2>1 DEF TotalInv
  <2>3. \A k \in Kind :
          TotalFreeBits(k)' = TotalFreeBits(k) /\ OverGroups(bgdtDisk[k])' = OverGroups(bgdtDisk[k])
    BY <2>1 DEF TotalFreeBits, FreeBits, OverGroups, Units
  <2>4. (SuperblockIsDisk /\ SuperblockCovers /\ DriftBounded)'
    BY <2>1, <2>2, <2>3 DEF SuperblockIsDisk, SuperblockCovers, DriftBounded, InCall
  <2> QED
    BY <1>1, <2>1, <2>4
<1>9. ASSUME \/ \E g \in Group : ext2_free_inode_alloc(g)
             \/ \E g \in Group : ext2_free_block_alloc(g)
      PROVE  Goal
  BY <1>2, <1>9 DEF ext2_free_inode_alloc, ext2_free_block_alloc, Kind
<1>10. \/ Mount \/ UpdateBgdt \/ UpdateSb \/ Crash \/ UNCHANGED vars
       \/ \E g \in Group : ext2_free_inode_alloc(g)
       \/ \E g \in Group : ext2_free_block_alloc(g)
  BY DEF Next
<1> QED
  BY <1>3, <1>4, <1>6, <1>7, <1>8, <1>9, <1>10

\* The totals hold in every behaviour.
LEMMA TotalInvariant == Spec => [](TypeOK /\ AllocInv /\ TotalInv)
<1>1. TypeOK /\ TypeOK' /\ AllocInv /\ TotalInv /\ [Next]_vars => TotalInv'
  BY NextTotalInv DEF TotalInv
<1> QED
  BY <1>1, AllocInvariant, InitTotalInv, PTL DEF Spec

-----------------------------------------------------------------------------
\* The superblock is written behind the descriptors: for every number of groups and of
\* power losses it never counts less than they do together.
THEOREM SuperblockCoversDescriptorsHolds == Spec => []SuperblockCoversDescriptors
<1>1. TypeOK /\ TotalInv => SuperblockCoversDescriptors
  BY TotalsAreNumbers DEF TotalInv, SuperblockCovers, SuperblockCoversDescriptors
<1> QED
  BY <1>1, TotalInvariant, PTL

\* Power losses cost one item each and no more: that is how far the superblock of an
\* image is off, however many calls and mounts came in between.
THEOREM DriftBoundedByCrashesHolds == Spec => []DriftBoundedByCrashes
<1>1. TotalInv => DriftBoundedByCrashes
  BY DEF TotalInv, DriftBounded, DriftBoundedByCrashes
<1> QED
  BY <1>1, TotalInvariant, PTL

\* No counter on disk ever rises, so the unchecked decrements of
\* ext2_free_inode_alloc and ext2_free_block_alloc never wrap.
THEOREM CountersOnlyFallHolds == Spec => CountersOnlyFall
<1> DEFINE Falls ==
      faults' = 0 =>
        \A k \in Kind :
          /\ sbDisk'[k] <= sbDisk[k]
          /\ \A g \in Group : bgdtDisk'[k][g] <= bgdtDisk[k][g]
<1>1. TypeOK /\ TypeOK' /\ AllocInv /\ TotalInv /\ [Next]_vars => [Falls]_vars
  BY NextTotalInv
<1>2. CountersOnlyFall <=> [][Falls]_vars
  BY DEF CountersOnlyFall
<1> HIDE DEF Falls
<1> QED
  BY <1>1, <1>2, TotalInvariant, PTL DEF Spec

-----------------------------------------------------------------------------
(***************************************************************************)
(* The files: the ranges of the variables                                  *)
(***************************************************************************)

DeviceWorks == MaxFaults = 0

Inode == [count : 0 .. NDirBlocks, blk : [Pointer -> BlockNum \cup {Uninit}]]

OpenFile == [open : BOOLEAN, exist : BOOLEAN, ino : InodeNum \cup {0}, inode : Inode,
             pos : 0 .. NDirBlocks, erred : BOOLEAN]
Operation == [call : {"none", "fwrite", "fseek", "fclose"},
              size : {"fit", "cross", "oversize"}, to : 0 .. NDirBlocks, g : Group]
Allocated == [inode : InodeNum \cup {0}, block : BlockNum \cup {Uninit}]

FileType ==
  /\ inodeTable \in [InodeNum -> Inode]
  /\ dir \subseteq InodeNum
  /\ f \in OpenFile
  /\ op \in Operation
  /\ fresh \in Allocated
  /\ abandoned \in [Kind -> Nat]

\* The steps of ext2_file_create, and those that need the file to exist.
Creating == {"create_inode", "create_block", "create_write", "create_link"}
OnFile == {"write_first", "write_second", "grow", "attach", "commit", "seek", "return_error"}
Waiting == {"create_inode", "create_block", "grow"}

\* Where the file system is, and where the allocator may be meanwhile.
Control ==
  /\ fpc \in {"idle", "close"} \cup Creating \cup OnFile
  /\ pc = "off" => fpc = "idle"
  /\ InProgress => fpc \in Waiting /\ call.k = IF fpc = "create_inode" THEN "inode" ELSE "block"
  /\ fpc \in Creating => ~f.exist
  /\ fpc \in OnFile => f.exist
  /\ fpc # "idle" => op.call # "none"

\* The numbers of a kind, and those that mke2fs took.
Numbers(k) == {ItemNumber(k, g, i) : g \in Group, i \in ItemBits(k)}
Reserved(k) == UNION {{ItemNumber(k, g, i) : i \in FreshBitmap[k][g] \cap ItemBits(k)} :
                        g \in Group}

\* Numbers in use are numbers, those of mke2fs among them.
OwnedInRange ==
  /\ faults = 0
  /\ \A k \in Kind : Reserved(k) \subseteq owned[k] /\ owned[k] \subseteq Numbers(k)

\* A block the allocator returned and no linked file has.
Loose(b) == b \in owned["block"] \ Reserved("block") /\ \A n \in dir : b \notin Blocks(inodeTable[n])

\* A linked inode is on disk, with blocks that are in use, not those of mke2fs, each
\* once, and no other file's.
Whole(n) ==
  /\ n \in owned["inode"]
  /\ inodeTable[n].count > 0
  /\ Blocks(inodeTable[n]) \subseteq owned["block"] \ Reserved("block")
  /\ \A x, y \in 0 .. inodeTable[n].count - 1 :
       inodeTable[n].blk[x] = inodeTable[n].blk[y] => x = y

LinkedWhole ==
  /\ \A n \in dir : Whole(n)
  /\ \A m, n \in dir : m # n => Blocks(inodeTable[n]) \cap Blocks(inodeTable[m]) = {}

\* The numbers a call holds are nobody's until they are linked.
Held ==
  /\ fpc \in {"create_block", "create_write", "create_link"} => fresh.inode \in owned["inode"] \ dir
  /\ fpc \in {"create_write", "create_link", "attach"} => Loose(fresh.block)
  /\ fpc = "create_link" =>
       /\ f.ino = fresh.inode /\ f.inode = NewInode(fresh.block)
       /\ inodeTable[f.ino] = f.inode

\* The open file is the inode on disk, or that inode and the block just attached.
Cached ==
  f.exist =>
    /\ f.ino \in dir
    /\ \/ f.inode = inodeTable[f.ino]
       \/ /\ fpc \in {"write_second", "commit"}
          /\ Loose(fresh.block)
          /\ inodeTable[f.ino].count < NDirBlocks
          /\ f.inode = Grown(inodeTable[f.ino], fresh.block)

Files == LinkedWhole /\ Held /\ Cached
MetaInv == FileType /\ Control /\ OwnedInRange /\ Files

\* A caller that seeks to the next block at most and closes the file after an error.
CarefulCaller == SeekAhead = 1 /\ StopOnError

\* The position of such a caller stays inside the file, but for the seek that has moved
\* and has not attached its block yet.
Position ==
  /\ ~f.exist => f.pos = 0
  /\ fpc # "idle" /\ op.call # "fclose" => ~f.erred
  /\ fpc \in Creating /\ op.call = "fseek" => op.to <= 1
  /\ fpc = "seek" => op.call = "fseek" /\ op.to <= f.inode.count
  /\ f.exist /\ ~f.erred =>
       \/ f.pos < f.inode.count
       \/ f.pos = f.inode.count /\ op.call = "fseek" /\ fpc \in {"grow", "attach"}
  /\ fpc = "write_first" => op.call = "fwrite" /\ op.size # "oversize"
  /\ fpc = "write_second" => fresh.block \in Blocks(f.inode)

-----------------------------------------------------------------------------
(***************************************************************************)
(* Numbers                                                                 *)
(***************************************************************************)

\* The numbers of items are the inode numbers and the block numbers.
LEMMA NumbersInRange ==
  ASSUME NEW g \in Group
  PROVE  /\ \A i \in ItemBits("inode") : ItemNumber("inode", g, i) \in InodeNum
         /\ \A i \in ItemBits("block") : ItemNumber("block", g, i) \in BlockNum
<1>1. /\ NumGroups \in Nat /\ g \in Nat /\ g < NumGroups
      /\ InodesPerGroup \in Nat /\ BlocksPerGroup \in Nat
  BY GeometryAssumption DEF Group
<1>2. ASSUME NEW per \in Nat, NEW i \in 0 .. per - 1
      PROVE  g * per + i \in 0 .. NumGroups * per - 1
  <2> DEFINE x == per * g
             y == per * NumGroups
  <2>1. x + per <= y /\ x \in Nat /\ y \in Nat
    BY <1>1, OneMore, Times
  <2>2. g * per = x /\ NumGroups * per = y
    BY <1>1, <1>2
  <2> HIDE DEF x, y
  <2>3. x + i \in 0 .. y - 1
    BY <1>2, <2>1
  <2> QED
    BY <2>2, <2>3
<1>3. ASSUME NEW i \in ItemBits("inode")
      PROVE  ItemNumber("inode", g, i) \in InodeNum
  <2> DEFINE x == g * InodesPerGroup
             y == NumGroups * InodesPerGroup
  <2>1. x + i \in 0 .. y - 1 /\ i \in Nat
    BY <1>1, <1>2, <1>3 DEF ItemBits, PerGroup
  <2>2. x \in Int /\ y \in Int
    BY <1>1
  <2>3. ItemNumber("inode", g, i) = x + i + 1 /\ InodeNum = 1 .. y
    BY DEF ItemNumber, InodeNum
  <2> HIDE DEF x, y
  <2> QED
    BY <2>1, <2>2, <2>3
<1>4. ASSUME NEW i \in ItemBits("block")
      PROVE  ItemNumber("block", g, i) \in BlockNum
  BY <1>1, <1>2, <1>4 DEF ItemBits, PerGroup, ItemNumber, BlockNum
<1> QED
  BY <1>3, <1>4

\* What a call returns is the number of an item.
LEMMA NumbersAre == Numbers("inode") \subseteq InodeNum /\ Numbers("block") \subseteq BlockNum
  BY NumbersInRange DEF Numbers

\* ext2_inode_find: the group of an inode is one of the groups.
LEMMA GroupOfInode ==
  ASSUME NEW n \in InodeNum
  PROVE  GroupOf(n) \in Group
<1> DEFINE a == n - 1
<1>1. /\ NumGroups \in Nat /\ InodesPerGroup \in Nat \ {0}
      /\ NumGroups * InodesPerGroup = InodesPerGroup * NumGroups
  BY GeometryAssumption
<1>2. a \in Nat /\ a < InodesPerGroup * NumGroups
  <2> DEFINE y == InodesPerGroup * NumGroups
  <2>1. n \in 1 .. y /\ y \in Int
    BY <1>1 DEF InodeNum
  <2> HIDE DEF y
  <2>2. a \in Nat /\ a < y
    BY <2>1
  <2> QED
    BY <2>2 DEF y
<1> HIDE DEF a
<1>3. a \div InodesPerGroup \in Nat /\ a \div InodesPerGroup < NumGroups
  BY <1>1, <1>2, QuotientBelow, DivMod
<1> QED
  BY <1>1, <1>3 DEF a, Group, GroupOf

\* The root directory has an inode.
LEMMA RootIsInode == RootInode \in InodeNum
<1> DEFINE y == NumGroups * InodesPerGroup
<1>1. 2 <= y /\ y \in Nat
  <2>1. InodesPerGroup * 0 + InodesPerGroup <= InodesPerGroup * NumGroups
    BY GeometryAssumption, OneMore
  <2>2. InodesPerGroup * NumGroups = y /\ InodesPerGroup * 0 = 0 /\ y \in Int
    BY GeometryAssumption
  <2> HIDE DEF y
  <2> QED
    BY <2>1, <2>2, GeometryAssumption
<1> HIDE DEF y
<1> QED
  BY <1>1 DEF RootInode, InodeNum, y

\* The three inodes the calls build: none, one of one block, one of a block more.
LEMMA InodeTypes ==
  /\ NoInode \in Inode
  /\ \A b \in BlockNum : NewInode(b) \in Inode
  /\ \A ino \in Inode, b \in BlockNum : ino.count < NDirBlocks => Grown(ino, b) \in Inode
<1>1. NoInode \in Inode /\ \A b \in BlockNum : NewInode(b) \in Inode
  BY MetaAssumption DEF NoInode, NewInode, Inode, Pointer
<1>2. ASSUME NEW ino \in Inode, NEW b \in BlockNum, ino.count < NDirBlocks
      PROVE  Grown(ino, b) \in Inode
  <2>1. ino.count + 1 \in 0 .. NDirBlocks
    BY <1>2, MetaAssumption DEF Inode
  <2>2. [ino.blk EXCEPT ![ino.count] = b] \in [Pointer -> BlockNum \cup {Uninit}]
    BY DEF Inode
  <2> QED
    BY <2>1, <2>2 DEF Grown, Inode
<1> QED
  BY <1>1, <1>2

-----------------------------------------------------------------------------
(***************************************************************************)
(* The allocator under the files                                           *)
(***************************************************************************)

\* The values a call starts from and ends with.
LEMMA StartValues ==
  /\ Closed \in OpenFile /\ NoOp \in Operation /\ NoFresh \in Allocated
  /\ \A size \in {"fit", "cross", "oversize"} :
       [NoOp EXCEPT !.call = "fwrite", !.size = size] \in Operation
  /\ \A to \in 0 .. NDirBlocks : [NoOp EXCEPT !.call = "fseek", !.to = to] \in Operation
  /\ [NoOp EXCEPT !.call = "fclose"] \in Operation
<1>1. Closed \in OpenFile
  BY InodeTypes, MetaAssumption DEF Closed, OpenFile
<1>2. 0 \in Group /\ 0 \in BlockNum
  <2> DEFINE y == NumGroups * BlocksPerGroup
  <2>1. y \in Int /\ 1 <= y
    BY GeometryAssumption, OneMore, Times
  <2> HIDE DEF y
  <2> QED
    BY <2>1, GeometryAssumption DEF Group, BlockNum, y
<1>3. NoOp \in Operation /\ NoFresh \in Allocated
  BY <1>2, MetaAssumption DEF NoOp, Operation, NoFresh, Allocated
<1> QED
  BY <1>1, <1>3 DEF Operation

\* How a call that fails leaves the file, the operation and the next step.
LEMMA ReturnErrorIs ==
  ASSUME FileType, ReturnError
  PROVE  /\ f' \in OpenFile /\ op' \in Operation /\ fresh' \in Allocated
         /\ f'.exist = f.exist /\ f'.ino = f.ino /\ f'.inode = f.inode /\ f'.pos = f.pos
         /\ \/ fpc' = "idle" /\ op' = NoOp
            \/ fpc' = "close" /\ op' = op /\ op.call = "fclose"
<1>1. CASE op.call = "fclose"
  BY <1>1 DEF ReturnError, FileType
<1>2. CASE op.call # "fclose"
  <2>1. f' = [f EXCEPT !.erred = StopOnError] /\ fpc' = "idle" /\ op' = NoOp /\ fresh' = NoFresh
    BY <1>2 DEF ReturnError, Return, Fail
  <2>2. f' \in OpenFile
    BY <2>1, MetaAssumption DEF FileType, OpenFile
  <2>3. f'.exist = f.exist /\ f'.ino = f.ino /\ f'.inode = f.inode /\ f'.pos = f.pos
    BY <2>1 DEF FileType, OpenFile
  <2> QED
    BY <2>1, <2>2, <2>3, StartValues
<1> QED
  BY <1>1, <1>2

\* The first step of an allocation fails or waits for the two counters.
LEMMA AllocateIs ==
  ASSUME TypeOK, NEW k \in Kind, NEW g \in Group, Allocate(k, g)
  PROVE  /\ FreeAlloc(k, g) /\ pc = "idle" /\ UNCHANGED owned
         /\ \/ pc' = "idle"
            \/ pc' = "bgdt" /\ call'.k = k
<1>1. FreeAlloc(k, g)
  BY DEF Allocate, ext2_free_inode_alloc, ext2_free_block_alloc, Kind
<1>2. PICK readOk \in BOOLEAN, writeOk \in BOOLEAN, used \in SUBSET Bits :
        ScanAndMark(k, g, readOk, writeOk, used)
  BY <1>1 DEF FreeAlloc, TypeOK
<1>3. pc = "idle" /\ UNCHANGED owned
  BY <1>1 DEF FreeAlloc
<1>4. pc' = "idle" \/ (pc' = "bgdt" /\ call'.k = k)
  BY <1>2, <1>3 DEF ScanAndMark
<1> QED
  BY <1>1, <1>3, <1>4

\* The last step returns a number nobody had.
LEMMA ReturnsIs ==
  ASSUME TypeOK, AllocInv, OwnedInRange, UpdateSb
  PROVE  /\ InProgress /\ pc' = "idle" /\ call.k \in Kind /\ UNCHANGED <<call, bitmap>>
         /\ ret' \in Numbers(call.k) \ owned[call.k]
         /\ owned' = [owned EXCEPT ![call.k] = @ \cup {ret'}]
<1>1. InProgress /\ pc' = "idle" /\ UNCHANGED <<call, bitmap>>
  BY DEF UpdateSb, InProgress
<1>2. CallIsFresh
  BY DEF AllocInv, OwnedInRange
<1>3. call.k \in Kind /\ call.g \in Group
  BY DEF TypeOK
<1>4. ret' = ItemNumber(call.k, call.g, call.i)
  BY DEF UpdateSb
<1>5. ret' \in Numbers(call.k) \ owned[call.k]
  <2>1. call.i \in ItemBits(call.k) /\ ret' \notin owned[call.k]
    BY <1>1, <1>2, <1>4 DEF CallIsFresh
  <2> QED
    BY <1>3, <1>4, <2>1 DEF Numbers
<1>6. owned' = [owned EXCEPT ![call.k] = @ \cup {ret'}]
  BY DEF UpdateSb
<1> QED
  BY <1>1, <1>3, <1>5, <1>6

\* The files use the allocator as it is: every step of theirs is a step of the
\* allocator or leaves it alone.
LEMMA StepsAreAllocatorSteps ==
  ASSUME TypeOK, FileType, Control, Cached, [MetaNext]_allVars
  PROVE  [Next]_vars
<1>1. CASE AllocateInode
  <2>1. op.g \in Group /\ "inode" \in Kind
    BY DEF FileType, Operation, Kind
  <2>2. ext2_free_inode_alloc(op.g)
    BY <1>1, <2>1, AllocateIs DEF AllocateInode, ext2_free_inode_alloc
  <2> QED
    BY <2>1, <2>2 DEF Next
<1>2. CASE AllocateBlock
  <2> DEFINE g == IF fpc = "grow" THEN GroupOf(f.ino) ELSE op.g
  <2>1. g \in Group /\ "block" \in Kind
    BY GroupOfInode DEF FileType, Operation, Kind, Control, OnFile, Cached
  <2>2. ext2_free_block_alloc(g)
    BY <1>2, <2>1, AllocateIs DEF AllocateBlock, ext2_free_block_alloc
  <2> QED
    BY <2>1, <2>2 DEF Next
<1>3. CASE MetaMount \/ AllocateCounts \/ AllocateReturns \/ MetaCrash
  BY <1>3 DEF MetaMount, AllocateCounts, AllocateReturns, MetaCrash, Next
<1>4. CASE UNCHANGED allVars
  BY <1>4 DEF allVars
<1>5. CASE ext2_fopen \/ ext2_fclose \/ CreateRefused \/ CreateWrite \/ CreateLink
           \/ WriteFirst \/ Attach \/ WriteSecond \/ Commit \/ Seek \/ Close \/ Oversize
  BY <1>5 DEF ext2_fopen, ext2_fclose, CreateRefused, CreateWrite, CreateLink, WriteFirst,
              Attach, WriteSecond, Commit, Seek, Close, Oversize
<1>6. ASSUME NEW size \in {"fit", "cross", "oversize"}, ext2_fwrite(size)
      PROVE  UNCHANGED vars
  BY <1>6 DEF ext2_fwrite
<1>7. ASSUME NEW to \in 0 .. NDirBlocks, ext2_fseek(to)
      PROVE  UNCHANGED vars
  BY <1>7 DEF ext2_fseek
<1> QED
  BY <1>1, <1>2, <1>3, <1>4, <1>5, <1>6, <1>7 DEF MetaNext

-----------------------------------------------------------------------------
(***************************************************************************)
(* Types and control                                                       *)
(***************************************************************************)

\* A machine on which nothing was called.
LEMMA InitFileType == MetaInit => FileType /\ Control
<1> SUFFICES ASSUME MetaInit PROVE FileType /\ Control
  OBVIOUS
<1>1. FileType
  BY StartValues, InodeTypes DEF MetaInit, FileType
<1>2. Control
  BY DEF MetaInit, Init, Control, InProgress, Creating, OnFile, Closed
<1> QED
  BY <1>1, <1>2

\* Every pointer the calls fill in lies in i_block, every number is one of the
\* file system.
LEMMA NextFileType ==
  ASSUME TypeOK, AllocInv, MetaInv, [MetaNext]_allVars
  PROVE  FileType'
<1> USE DEF MetaInv, FileType
<1>1. CASE MetaMount \/ AllocateCounts \/ WriteSecond \/ UNCHANGED allVars
  BY <1>1 DEF MetaMount, AllocateCounts, WriteSecond, allVars, metaVars
<1>2. CASE ext2_fopen
  <2>1. ASSUME NEW n \in dir,
               f' = [Closed EXCEPT !.open = TRUE, !.exist = TRUE, !.ino = n,
                                   !.inode = inodeTable[n]]
        PROVE  f' \in OpenFile
    BY <2>1, StartValues DEF OpenFile
  <2>2. ASSUME f' = [Closed EXCEPT !.open = TRUE, !.ino = RootInode]
        PROVE  f' \in OpenFile
    BY <2>2, StartValues, RootIsInode DEF OpenFile
  <2> QED
    BY <1>2, <2>1, <2>2 DEF ext2_fopen
<1>3. ASSUME NEW o \in Operation, NEW body, Start(o, body)
      PROVE  op' \in Operation
  <2>1. PICK g \in Group : op' = [o EXCEPT !.g = IF f.exist THEN GroupOf(f.ino) ELSE g]
    BY <1>3 DEF Start
  <2>2. f.exist => GroupOf(f.ino) \in Group
    BY GroupOfInode DEF Files, Cached
  <2> QED
    BY <2>1, <2>2 DEF Operation
<1>4. ASSUME NEW size \in {"fit", "cross", "oversize"}, ext2_fwrite(size)
      PROVE  FileType'
  BY <1>3, <1>4, StartValues DEF ext2_fwrite
<1>5. ASSUME NEW to \in 0 .. NDirBlocks, ext2_fseek(to)
      PROVE  FileType'
  BY <1>3, <1>5, StartValues DEF ext2_fseek
<1>6. CASE ext2_fclose
  BY <1>3, <1>6, StartValues DEF ext2_fclose
<1>7. ASSUME NEW k \in Kind PROVE GiveUp(k) \in [Kind -> Nat]
  BY DEF GiveUp
<1>8. ASSUME NEW k \in Kind, NEW g, Allocate(k, g)
      PROVE  FileType'
  <2>1. UNCHANGED <<inodeTable, dir>>
    BY <1>8 DEF Allocate
  <2>2. CASE pc' = "idle"
    <3>1. f' \in OpenFile /\ op' \in Operation /\ fresh' \in Allocated
      BY <1>8, <2>2, ReturnErrorIs DEF Allocate
    <3>2. abandoned' \in [Kind -> Nat]
      BY <1>7, <1>8, <2>2 DEF Allocate, Kind
    <3> QED
      BY <2>1, <3>1, <3>2
  <2>3. CASE pc' # "idle"
    BY <1>8, <2>1, <2>3 DEF Allocate
  <2> QED
    BY <2>2, <2>3
<1>9. CASE AllocateReturns
  <2>1. call.k \in Kind /\ ret' \in Numbers(call.k)
    BY <1>9, ReturnsIs DEF AllocateReturns
  <2>2. fresh' = [fresh EXCEPT ![call.k] = ret'] /\ UNCHANGED <<inodeTable, dir, f, op, abandoned>>
    BY <1>9 DEF AllocateReturns
  <2>3. fresh' \in Allocated
    BY <2>1, <2>2, NumbersAre DEF Allocated, Kind
  <2> QED
    BY <2>2, <2>3
<1>10. CASE CreateRefused
  BY <1>10, ReturnErrorIs DEF CreateRefused
<1>11. CASE CreateWrite
  <2>1. fresh.inode \in InodeNum /\ NewInode(fresh.block) \in Inode
    <3>1. fresh.inode \in Numbers("inode") /\ fresh.block \in Numbers("block")
      BY <1>11 DEF CreateWrite, Files, Held, Loose, OwnedInRange, Kind
    <3> QED
      BY <3>1, NumbersAre, InodeTypes
  <2>2. f' \in OpenFile /\ inodeTable' \in [InodeNum -> Inode]
    BY <1>11, <2>1 DEF CreateWrite, OpenFile
  <2> QED
    BY <1>11, <2>2 DEF CreateWrite
<1>12. CASE CreateLink
  <2>1. f.ino \in InodeNum
    <3>1. f.ino = fresh.inode /\ fresh.inode \in Numbers("inode")
      BY <1>12 DEF CreateLink, Files, Held, OwnedInRange, Kind
    <3> QED
      BY <3>1, NumbersAre
  <2>2. ASSUME ext2_add_dir_entry(f.ino), f' = [f EXCEPT !.exist = TRUE],
               UNCHANGED <<op, fresh, abandoned>>
        PROVE  FileType'
    BY <1>12, <2>1, <2>2 DEF CreateLink, ext2_add_dir_entry, OpenFile
  <2>3. ASSUME ReturnError, abandoned' = [k \in Kind |-> abandoned[k] + 1], UNCHANGED dir
        PROVE  FileType'
    BY <1>12, <2>3, ReturnErrorIs DEF CreateLink
  <2> QED
    BY <1>12, <2>2, <2>3 DEF CreateLink
<1>13. CASE WriteFirst
  <2>1. f.pos + 1 \in Pointer
    BY MetaAssumption DEF OpenFile, Pointer
  <2>2. fresh' \in Allocated
    BY <1>13, <2>1 DEF WriteFirst, Allocated, OpenFile, Inode
  <2> QED
    BY <1>13, <2>2 DEF WriteFirst
<1>14. CASE Attach
  <2>1. CASE f.inode.count < NDirBlocks
    <3>1. fresh.block \in BlockNum
      BY <1>14, NumbersAre DEF Attach, Files, Held, Loose, OwnedInRange, Kind
    <3>2. Grown(f.inode, fresh.block) \in Inode
      BY <2>1, <3>1, InodeTypes DEF OpenFile
    <3>3. f' \in OpenFile
      BY <1>14, <2>1, <3>2 DEF Attach, OpenFile
    <3> QED
      BY <1>14, <2>1, <3>3 DEF Attach
  <2>2. CASE ~(f.inode.count < NDirBlocks)
    BY <1>7, <1>14, <2>2, ReturnErrorIs DEF Attach, Kind
  <2> QED
    BY <2>1, <2>2
<1>15. CASE Commit
  BY <1>15, StartValues DEF Commit, Return, OpenFile
<1>16. CASE Seek
  <2>1. [f EXCEPT !.pos = op.to] \in OpenFile
    BY DEF OpenFile, Operation
  <2> QED
    BY <1>16, <2>1, StartValues DEF Seek, Return
<1>17. CASE Close \/ MetaCrash
  BY <1>17, StartValues DEF Close, MetaCrash, Return
<1>18. CASE Oversize
  BY <1>18, ReturnErrorIs DEF Oversize
<1>19. CASE AllocateInode \/ AllocateBlock
  BY <1>8, <1>19 DEF AllocateInode, AllocateBlock, Kind
<1> QED
  BY <1>1, <1>2, <1>4, <1>5, <1>6, <1>9, <1>10, <1>11, <1>12, <1>13, <1>14, <1>15,
     <1>16, <1>17, <1>18, <1>19 DEF MetaNext

\* A call that fails stops or goes on to close the file, with the allocator at rest.
LEMMA FailedCallControl ==
  ASSUME FileType, Control, ReturnError, pc' = "idle", fpc # "idle"
  PROVE  Control'
<1>1. \/ fpc' = "idle" /\ op' = NoOp
      \/ fpc' = "close" /\ op' = op /\ op.call = "fclose"
  BY ReturnErrorIs
<1> QED
  BY <1>1 DEF Control, InProgress, Creating, OnFile

\* The allocator is inside a call only while a call on the file waits for it, and
\* what follows the creation of the file finds it created.
LEMMA NextControl ==
  ASSUME TypeOK, AllocInv, MetaInv, [MetaNext]_allVars
  PROVE  Control'
<1> USE DEF MetaInv, Control
<1>1. CASE UNCHANGED allVars
  BY <1>1 DEF allVars, vars, metaVars, InProgress
<1>2. CASE MetaMount \/ AllocateCounts
  BY <1>2 DEF MetaMount, AllocateCounts, Mount, UpdateBgdt, metaVars, InProgress
<1>3. CASE ext2_fopen
  BY <1>3 DEF ext2_fopen, Ready, vars, InProgress, Creating, OnFile
<1>4. ASSUME NEW o \in Operation, o.call # "none", Start(o, Body(o)), UNCHANGED <<vars, f>>
      PROVE  Control'
  <2>1. PICK g \in Group : op' = [o EXCEPT !.g = IF f.exist THEN GroupOf(f.ino) ELSE g]
    BY <1>4 DEF Start
  <2>2. op'.call # "none" /\ Body(o) \in OnFile \cup {"close"}
    BY <1>4, <2>1 DEF Operation, Body, OnFile
  <2>3. pc' = "idle" /\ f' = f /\ ~InProgress'
    BY <1>4 DEF Start, Ready, vars, InProgress
  <2>4. fpc' = IF f.exist THEN Body(o) ELSE "create_inode"
    BY <1>4 DEF Start
  <2>5. CASE f.exist
    BY <2>2, <2>3, <2>4, <2>5 DEF Creating, OnFile
  <2>6. CASE ~f.exist
    BY <2>2, <2>3, <2>4, <2>6 DEF Creating, OnFile
  <2> QED
    BY <2>5, <2>6
<1>5. ASSUME NEW size \in {"fit", "cross", "oversize"}, ext2_fwrite(size)
      PROVE  Control'
  BY <1>4, <1>5, StartValues DEF ext2_fwrite, NoOp
<1>6. ASSUME NEW to \in 0 .. NDirBlocks, ext2_fseek(to)
      PROVE  Control'
  BY <1>4, <1>6, StartValues DEF ext2_fseek, NoOp
<1>7. CASE ext2_fclose
  BY <1>4, <1>7, StartValues DEF ext2_fclose, NoOp
<1>8. ASSUME NEW k \in Kind, NEW g \in Group, Allocate(k, g), fpc \in Waiting,
             k = IF fpc = "create_inode" THEN "inode" ELSE "block"
      PROVE  Control'
  <2>1. CASE pc' = "idle"
    BY <1>8, <2>1, FailedCallControl DEF Allocate, Waiting
  <2>2. CASE pc' # "idle"
    BY <1>8, <2>2, AllocateIs DEF Allocate, InProgress, Waiting
  <2> QED
    BY <2>1, <2>2
<1>9. CASE AllocateInode
  <2>1. op.g \in Group /\ "inode" \in Kind
    BY DEF FileType, Operation, Kind
  <2> QED
    BY <1>8, <1>9, <2>1 DEF AllocateInode, NeedsInode, Waiting
<1>10. CASE AllocateBlock
  <2> DEFINE g == IF fpc = "grow" THEN GroupOf(f.ino) ELSE op.g
  <2>1. g \in Group /\ "block" \in Kind
    BY GroupOfInode DEF FileType, Operation, Kind, OnFile, Files, Cached
  <2> QED
    BY <1>8, <1>10, <2>1 DEF AllocateBlock, NeedsBlock, Waiting
<1>11. CASE AllocateReturns
  <2>1. pc' = "idle" /\ fpc \in Waiting /\ UNCHANGED <<f, op>>
    BY <1>11, ReturnsIs DEF AllocateReturns
  <2>2. fpc' = CASE fpc = "create_inode" -> "create_block"
                 [] fpc = "create_block" -> "create_write"
                 [] fpc = "grow"         -> "attach"
    BY <1>11 DEF AllocateReturns
  <2> QED
    BY <2>1, <2>2 DEF InProgress, Waiting, Creating, OnFile
<1>12. CASE CreateRefused
  BY <1>12, FailedCallControl DEF CreateRefused, NeedsInode, vars
<1>13. CASE CreateWrite
  BY <1>13 DEF CreateWrite, vars, InProgress, Creating, OnFile, Waiting, FileType, OpenFile
<1>14. CASE CreateLink
  <2>1. fpc = "create_link" /\ pc' = pc /\ pc = "idle"
    BY <1>14 DEF CreateLink, vars, InProgress, Waiting, TypeOK
  <2>2. ASSUME f' = [f EXCEPT !.exist = TRUE], fpc' = Body(op), UNCHANGED op
        PROVE  Control'
    <3>1. op.call \in {"fwrite", "fseek", "fclose"} /\ f'.exist
      BY <2>1, <2>2 DEF FileType, Operation, OpenFile
    <3>2. fpc' \in OnFile \cup {"close"}
      BY <2>2, <3>1 DEF Body, OnFile
    <3> QED
      BY <2>1, <2>2, <3>1, <3>2 DEF InProgress, Creating, OnFile
  <2>3. ASSUME ReturnError
        PROVE  Control'
    BY <2>1, <2>3, FailedCallControl
  <2> QED
    BY <1>14, <2>2, <2>3 DEF CreateLink
<1>15. CASE WriteFirst \/ WriteSecond
  BY <1>15 DEF WriteFirst, WriteSecond, vars, InProgress, Creating, OnFile, Waiting
<1>16. CASE Attach
  <2>1. fpc = "attach" /\ pc' = pc /\ pc = "idle"
    BY <1>16 DEF Attach, vars, InProgress, Waiting, TypeOK
  <2>2. CASE f.inode.count < NDirBlocks
    BY <1>16, <2>1, <2>2 DEF Attach, InProgress, Creating, OnFile, FileType, OpenFile
  <2>3. CASE ~(f.inode.count < NDirBlocks)
    BY <1>16, <2>1, <2>3, FailedCallControl DEF Attach
  <2> QED
    BY <2>2, <2>3
<1>17. CASE Commit \/ Close \/ MetaCrash
  <2>1. fpc' = "idle" /\ (pc' = pc \/ pc' = "off")
    BY <1>17 DEF Commit, Close, MetaCrash, Crash, Return, vars
  <2>2. ~InProgress'
    BY <1>17, <2>1 DEF Commit, Close, MetaCrash, Crash, InProgress, Waiting, vars
  <2> QED
    BY <2>1, <2>2 DEF Creating, OnFile
<1>18. CASE Seek
  BY <1>18 DEF Seek, Return, vars, InProgress, Creating, OnFile, Waiting, FileType, OpenFile
<1>19. CASE Oversize
  BY <1>19, FailedCallControl DEF Oversize, vars, InProgress, Waiting, TypeOK
<1> QED
  BY <1>1, <1>2, <1>3, <1>5, <1>6, <1>7, <1>9, <1>10, <1>11, <1>12, <1>13, <1>14, <1>15,
     <1>16, <1>17, <1>18, <1>19 DEF MetaNext

-----------------------------------------------------------------------------
(***************************************************************************)
(* Numbers in use                                                          *)
(***************************************************************************)

\* On a fresh image the numbers in use are those of mke2fs.
LEMMA InitOwned == MetaInit => OwnedInRange
<1> SUFFICES ASSUME MetaInit, NEW k \in Kind
             PROVE  Reserved(k) \subseteq owned[k] /\ owned[k] \subseteq Numbers(k)
  BY DEF OwnedInRange, MetaInit, Init
<1>1. owned[k] = Reserved(k)
  BY DEF MetaInit, Init, Reserved
<1>2. Reserved(k) \subseteq Numbers(k)
  BY DEF Reserved, Numbers
<1> QED
  BY <1>1, <1>2

\* The numbers in use only grow, by numbers of items.
LEMMA NextOwned ==
  ASSUME DeviceWorks, TypeOK, AllocInv, OwnedInRange, [Next]_vars
  PROVE  OwnedInRange' /\ \A k \in Kind : owned[k] \subseteq owned'[k]
<1>1. ASSUME faults' = 0, \A k \in Kind : owned[k] \subseteq owned'[k],
             \A k \in Kind : owned'[k] \subseteq Numbers(k)
      PROVE  OwnedInRange'
  BY <1>1 DEF OwnedInRange, Reserved, Numbers
<1>2. CASE UNCHANGED owned
  <2>1. faults' = 0
    <3>1. ASSUME NEW ok \in BOOLEAN, CountFaults(Failures(ok))
          PROVE  faults' = 0
      BY <3>1 DEF CountFaults, Failures, DeviceWorks, OwnedInRange
    <3>2. ASSUME NEW k \in Kind, NEW g \in Group, FreeAlloc(k, g)
          PROVE  faults' = 0
      <4>1. PICK readOk \in BOOLEAN, writeOk \in BOOLEAN, used \in SUBSET Bits :
              ScanAndMark(k, g, readOk, writeOk, used)
        BY <3>2 DEF FreeAlloc, TypeOK
      <4> QED
        BY <4>1 DEF ScanAndMark, CountFaults, Failures, DeviceWorks, OwnedInRange
    <3>3. CASE UpdateBgdt \/ UpdateSb
      BY <3>1, <3>3 DEF UpdateBgdt, UpdateSb
    <3>4. CASE Mount \/ Crash \/ UNCHANGED vars
      BY <3>4 DEF Mount, Crash, vars, OwnedInRange
    <3> QED
      BY <3>2, <3>3, <3>4 DEF Next, ext2_free_inode_alloc, ext2_free_block_alloc, Kind
  <2> QED
    BY <1>1, <1>2, <2>1 DEF OwnedInRange
<1>3. CASE UpdateSb
  <2>1. /\ call.k \in Kind /\ ret' \in Numbers(call.k)
        /\ owned' = [owned EXCEPT ![call.k] = @ \cup {ret'}]
    BY <1>3, ReturnsIs
  <2>2. \A k \in Kind : owned[k] \subseteq owned'[k] /\ owned'[k] \subseteq Numbers(k)
    BY <2>1 DEF OwnedInRange, TypeOK
  <2>3. faults' = 0
    <3>1. PICK ok \in BOOLEAN : CountFaults(Failures(ok))
      BY <1>3 DEF UpdateSb
    <3> QED
      BY <3>1 DEF CountFaults, Failures, DeviceWorks, OwnedInRange
  <2> QED
    BY <1>1, <2>2, <2>3
<1>4. UNCHANGED owned \/ UpdateSb
  BY DEF Next, Mount, ext2_free_inode_alloc, ext2_free_block_alloc, FreeAlloc, UpdateBgdt,
         Crash, vars
<1> QED
  BY <1>2, <1>3, <1>4

-----------------------------------------------------------------------------
(***************************************************************************)
(* Linked inodes                                                           *)
(***************************************************************************)

\* The blocks of an inode with one block, and of one that grew.
LEMMA BlocksOf ==
  /\ \A b \in BlockNum : NewInode(b).count = 1 /\ Blocks(NewInode(b)) = {b}
  /\ \A ino \in Inode, b \in BlockNum :
       ino.count < NDirBlocks =>
         /\ Grown(ino, b).count = ino.count + 1
         /\ Grown(ino, b).blk[ino.count] = b
         /\ \A x \in 0 .. ino.count - 1 : Grown(ino, b).blk[x] = ino.blk[x]
         /\ Blocks(Grown(ino, b)) = Blocks(ino) \cup {b}
<1>1. ASSUME NEW b \in BlockNum
      PROVE  NewInode(b).count = 1 /\ Blocks(NewInode(b)) = {b}
  <2>1. NewInode(b).count = 1 /\ NewInode(b).blk[0] = b
    BY MetaAssumption DEF NewInode, Pointer
  <2> QED
    BY <2>1 DEF Blocks
<1>2. ASSUME NEW ino \in Inode, NEW b \in BlockNum, ino.count < NDirBlocks
      PROVE  /\ Grown(ino, b).count = ino.count + 1
             /\ Grown(ino, b).blk[ino.count] = b
             /\ \A x \in 0 .. ino.count - 1 : Grown(ino, b).blk[x] = ino.blk[x]
             /\ Blocks(Grown(ino, b)) = Blocks(ino) \cup {b}
  <2>1. ino.count \in Nat /\ ino.count \in Pointer /\ ino.blk \in [Pointer -> BlockNum \cup {Uninit}]
    BY MetaAssumption DEF Inode, Pointer
  <2>2. 0 .. ino.count - 1 \subseteq Pointer
    BY <1>2, <2>1, MetaAssumption DEF Pointer
  <2>3. Grown(ino, b).count = ino.count + 1 /\ Grown(ino, b).blk[ino.count] = b
    BY <2>1 DEF Grown
  <2>4. \A x \in 0 .. ino.count - 1 : Grown(ino, b).blk[x] = ino.blk[x]
    BY <2>1, <2>2 DEF Grown
  <2>5. 0 .. Grown(ino, b).count - 1 = (0 .. ino.count - 1) \cup {ino.count}
    BY <2>1, <2>3
  <2>6. Blocks(Grown(ino, b)) = Blocks(ino) \cup {b}
    <3> DEFINE grown == Grown(ino, b)
    <3>1. /\ 0 .. grown.count - 1 = (0 .. ino.count - 1) \cup {ino.count}
          /\ grown.blk[ino.count] = b /\ \A x \in 0 .. ino.count - 1 : grown.blk[x] = ino.blk[x]
      BY <2>3, <2>4, <2>5
    <3> HIDE DEF grown
    <3>2. ASSUME NEW x \in 0 .. grown.count - 1 PROVE grown.blk[x] \in Blocks(ino) \cup {b}
      <4>1. CASE x = ino.count
        BY <3>1, <4>1
      <4>2. CASE x \in 0 .. ino.count - 1
        BY <3>1, <4>2 DEF Blocks
      <4> QED
        BY <3>1, <4>1, <4>2
    <3>3. ino.count \in 0 .. grown.count - 1 /\ 0 .. ino.count - 1 \subseteq 0 .. grown.count - 1
      BY <3>1
    <3>4. b \in Blocks(grown)
      BY <3>1, <3>3 DEF Blocks
    <3>5. ASSUME NEW x \in 0 .. ino.count - 1 PROVE ino.blk[x] \in Blocks(grown)
      <4>1. ino.blk[x] = grown.blk[x] /\ x \in 0 .. grown.count - 1
        BY <3>1, <3>3
      <4> QED
        BY <4>1 DEF Blocks
    <3> QED
      BY <3>2, <3>4, <3>5 DEF Blocks, grown
  <2> QED
    BY <2>3, <2>4, <2>6
<1> QED
  BY <1>1, <1>2

\* What a step that leaves the directory and its inodes alone keeps.
LEMMA LinkedKept ==
  ASSUME LinkedWhole, dir' = dir, \A n \in dir : inodeTable'[n] = inodeTable[n],
         \A k \in Kind : owned[k] \subseteq owned'[k]
  PROVE  LinkedWhole' /\ \A b : Loose(b) => Loose(b)'
<1>1. \A n \in dir : Blocks(inodeTable[n])' = Blocks(inodeTable[n])
  BY DEF Blocks
<1>2. ASSUME NEW n \in dir PROVE Whole(n)'
  <2>1. Whole(n) /\ Reserved("block")' = Reserved("block")
    BY DEF LinkedWhole, Reserved
  <2> QED
    BY <1>1, <2>1 DEF Whole, Kind
<1>3. ASSUME NEW b, Loose(b) PROVE Loose(b)'
  BY <1>1, <1>3 DEF Loose, Reserved, Kind
<1> QED
  BY <1>1, <1>2, <1>3 DEF LinkedWhole

\* What a call that fails keeps: the file is as it was, and nothing is held.
LEMMA FailedCallFiles ==
  ASSUME FileType, Cached, ReturnError, LinkedWhole', dir' = dir, UNCHANGED inodeTable,
         fpc \notin {"write_second", "commit"}
  PROVE  Files'
<1>1. f'.exist = f.exist /\ f'.ino = f.ino /\ f'.inode = f.inode /\ fpc' \in {"idle", "close"}
  BY ReturnErrorIs
<1> QED
  BY <1>1 DEF Files, Held, Cached

\* A linked inode is on disk before its entry, with blocks that only it has; the open
\* file is the inode on disk, up to the block that fwrite or fseek just attached.
LEMMA NextFiles ==
  ASSUME DeviceWorks, TypeOK, AllocInv, MetaInv, [MetaNext]_allVars
  PROVE  Files'
<1> USE DEF MetaInv, Files
<1>1. [Next]_vars /\ \A k \in Kind : owned[k] \subseteq owned'[k]
  BY StepsAreAllocatorSteps, NextOwned
<1>2. ASSUME dir' = dir, \A n \in dir : inodeTable'[n] = inodeTable[n]
      PROVE  LinkedWhole' /\ \A b : Loose(b) => Loose(b)'
  BY <1>1, <1>2, LinkedKept
<1>3. CASE UNCHANGED metaVars
  BY <1>1, <1>2, <1>3 DEF metaVars, Held, Cached, Kind
<1>4. CASE ext2_fopen
  <2>1. UNCHANGED <<dir, inodeTable, fpc>> /\ fpc = "idle"
    BY <1>4 DEF ext2_fopen, Ready
  <2>2. Cached'
    <3>1. ASSUME NEW n \in dir,
                 f' = [Closed EXCEPT !.open = TRUE, !.exist = TRUE, !.ino = n,
                                     !.inode = inodeTable[n]]
          PROVE  Cached'
      BY <2>1, <3>1 DEF Cached, Closed
    <3>2. ASSUME f' = [Closed EXCEPT !.open = TRUE, !.ino = RootInode]
          PROVE  Cached'
      BY <2>1, <3>2 DEF Cached, Closed
    <3> QED
      BY <1>4, <3>1, <3>2 DEF ext2_fopen
  <2> QED
    BY <1>2, <2>1, <2>2 DEF Held
<1>5. ASSUME NEW o \in Operation, o.call # "none", Start(o, Body(o)),
             UNCHANGED <<inodeTable, dir, f, fresh>>
      PROVE  Files'
  <2>1. fpc = "idle" /\ fpc' = IF f.exist THEN Body(o) ELSE "create_inode"
    BY <1>5 DEF Start, Ready
  <2>2. Body(o) \in {"write_first", "return_error", "seek", "close"}
    BY <1>5 DEF Body, Operation
  <2>3. Held'
    BY <2>1, <2>2 DEF Held
  <2>4. Cached'
    BY <1>5, <2>1 DEF Cached
  <2> QED
    BY <1>2, <1>5, <2>3, <2>4
<1>6. CASE \/ \E size \in {"fit", "cross", "oversize"} : ext2_fwrite(size)
           \/ \E to \in 0 .. NDirBlocks : ext2_fseek(to)
           \/ ext2_fclose
  <2>1. ASSUME NEW size \in {"fit", "cross", "oversize"}, ext2_fwrite(size) PROVE Files'
    BY <1>5, <2>1, StartValues DEF ext2_fwrite, NoOp
  <2>2. ASSUME NEW to \in 0 .. NDirBlocks, ext2_fseek(to) PROVE Files'
    BY <1>5, <2>2, StartValues DEF ext2_fseek, NoOp
  <2>3. CASE ext2_fclose
    BY <1>5, <2>3, StartValues DEF ext2_fclose, NoOp
  <2> QED
    BY <1>6, <2>1, <2>2, <2>3
<1>7. ASSUME NEW k, NEW g, Allocate(k, g), fpc \in Waiting
      PROVE  Files'
  <2>1. LinkedWhole' /\ \A b : Loose(b) => Loose(b)'
    BY <1>2, <1>7 DEF Allocate
  <2>2. CASE pc' = "idle"
    BY <1>7, <2>1, <2>2, FailedCallFiles DEF Allocate, Waiting
  <2>3. CASE pc' # "idle"
    <3>1. UNCHANGED <<inodeTable, dir, f, fpc, op, fresh>>
      BY <1>7, <2>3 DEF Allocate
    <3>2. Held'
      BY <1>1, <1>7, <2>1, <3>1 DEF Held, Waiting, Kind
    <3> QED
      BY <1>7, <2>1, <3>1, <3>2 DEF Cached, Waiting
  <2> QED
    BY <2>2, <2>3
<1>8. CASE AllocateInode \/ AllocateBlock
  BY <1>7, <1>8 DEF AllocateInode, AllocateBlock, NeedsInode, NeedsBlock, Waiting
<1>9. CASE AllocateReturns
  <2>1. /\ InProgress /\ call.k \in Kind
        /\ ret' \notin owned[call.k]
        /\ owned' = [owned EXCEPT ![call.k] = @ \cup {ret'}]
    BY <1>9, ReturnsIs DEF AllocateReturns
  <2>2. fpc \in Waiting /\ call.k = IF fpc = "create_inode" THEN "inode" ELSE "block"
    BY <2>1 DEF Control
  <2>3. UNCHANGED <<inodeTable, dir, f>> /\ fresh' = [fresh EXCEPT ![call.k] = ret']
    BY <1>9 DEF AllocateReturns
  <2>4. LinkedWhole' /\ \A b : Loose(b) => Loose(b)'
    BY <1>2, <2>3
  <2>5. CASE fpc = "create_inode"
    <3>1. fpc' = "create_block" /\ fresh'.inode = ret'
      BY <1>9, <2>2, <2>3, <2>5 DEF AllocateReturns, FileType, Allocated
    <3>2. ret' \notin dir
      BY <2>1, <2>2, <2>5 DEF LinkedWhole, Whole
    <3>3. ret' \in owned'["inode"]
      BY <2>1, <2>2, <2>5 DEF TypeOK
    <3>4. Held'
      BY <2>3, <3>1, <3>2, <3>3 DEF Held
    <3> QED
      BY <2>3, <2>4, <2>5, <3>1, <3>4 DEF Cached, Control, Creating
  <2>6. CASE fpc \in {"create_block", "grow"}
    <3>1. call.k = "block" /\ fresh'.block = ret' /\ fresh'.inode = fresh.inode
      BY <2>2, <2>3, <2>6 DEF FileType, Allocated
    <3>2. ASSUME NEW b, b = ret' PROVE Loose(b)'
      <4>1. b \in owned'["block"] /\ b \notin Reserved("block")
        BY <2>1, <3>1, <3>2 DEF TypeOK, OwnedInRange
      <4>2. \A n \in dir : b \notin Blocks(inodeTable[n])
        BY <2>1, <3>1, <3>2 DEF LinkedWhole, Whole
      <4> QED
        BY <2>3, <4>1, <4>2 DEF Loose, Blocks, Reserved
    <3>3. fpc' = IF fpc = "grow" THEN "attach" ELSE "create_write"
      BY <1>9, <2>6 DEF AllocateReturns
    <3>4. Held'
      <4>1. fpc = "create_block" => fresh'.inode \in owned'["inode"] \ dir'
        BY <1>1, <2>3, <3>1 DEF Held, Kind
      <4>2. Loose(fresh.block)'
        BY <3>1, <3>2
      <4> QED
        BY <2>6, <3>3, <4>1, <4>2 DEF Held
    <3> QED
      BY <2>3, <2>4, <2>6, <3>4 DEF Cached
  <2> QED
    BY <2>2, <2>5, <2>6 DEF Waiting
<1>10. CASE CreateRefused \/ Oversize
  <2>1. ReturnError /\ UNCHANGED <<inodeTable, dir>> /\ fpc \in {"create_inode", "return_error"}
    BY <1>10 DEF CreateRefused, Oversize, NeedsInode
  <2> QED
    BY <1>2, <2>1, FailedCallFiles
<1>11. CASE CreateWrite
  <2>1. fresh.inode \in owned["inode"] \ dir /\ Loose(fresh.block) /\ ~f.exist
    BY <1>11 DEF CreateWrite, Held, Control, Creating
  <2>2. LinkedWhole' /\ \A b : Loose(b) => Loose(b)'
    BY <1>2, <1>11, <2>1 DEF CreateWrite, FileType
  <2>3. fresh.inode \in InodeNum
    BY <2>1, NumbersAre DEF OwnedInRange, Kind
  <2>4. /\ f'.ino = fresh.inode /\ f'.inode = NewInode(fresh.block) /\ f'.exist = f.exist
        /\ inodeTable'[fresh.inode] = NewInode(fresh.block)
    BY <1>11, <2>3 DEF CreateWrite, FileType, OpenFile
  <2>5. Held'
    <3>1. fpc' = "create_link" /\ UNCHANGED <<fresh, dir, owned>>
      BY <1>11 DEF CreateWrite, vars
    <3> QED
      BY <2>1, <2>2, <2>4, <3>1 DEF Held
  <2> QED
    BY <2>1, <2>2, <2>4, <2>5 DEF Cached
<1>12. CASE CreateLink
  <2>1. /\ fpc = "create_link" /\ UNCHANGED <<inodeTable, owned>>
        /\ f.ino \in owned["inode"] \ dir /\ Loose(fresh.block)
        /\ f.inode = NewInode(fresh.block) /\ inodeTable[f.ino] = f.inode
    BY <1>12 DEF CreateLink, Held, vars
  <2>2. CASE ReturnError /\ UNCHANGED dir
    BY <1>2, <2>1, <2>2, FailedCallFiles
  <2>3. ASSUME ext2_add_dir_entry(f.ino), f' = [f EXCEPT !.exist = TRUE], fpc' = Body(op)
        PROVE  Files'
    <3>0. PICK e : e = f.ino
      OBVIOUS
    <3>1. dir' = dir \cup {e}
      BY <2>3, <3>0 DEF ext2_add_dir_entry
    <3>2. inodeTable[e].count = 1 /\ Blocks(inodeTable[e]) = {fresh.block}
      <4>1. fresh.block \in BlockNum
        BY <2>1, NumbersAre DEF Loose, OwnedInRange, Kind
      <4> QED
        BY <2>1, <3>0, <4>1, BlocksOf
    <3>3. \A n \in InodeNum : Blocks(inodeTable[n])' = Blocks(inodeTable[n])
      BY <2>1 DEF Blocks
    <3>4. e \in InodeNum /\ dir \subseteq InodeNum
      BY <2>1, <3>0, NumbersAre DEF OwnedInRange, Kind, FileType
    <3>5. \A n \in dir : fresh.block \notin Blocks(inodeTable[n])
      BY <2>1 DEF Loose
    <3>6. ASSUME NEW n \in dir PROVE Whole(n)'
      BY <2>1, <3>3, <3>4 DEF LinkedWhole, Whole, Reserved
    <3>7. Whole(e)'
      BY <2>1, <3>0, <3>2, <3>3, <3>4 DEF Whole, Loose, Reserved
    <3>8. LinkedWhole'
      <4>1. \A m, n \in dir' : m # n => Blocks(inodeTable[n]) \cap Blocks(inodeTable[m]) = {}
        BY <3>1, <3>2, <3>5 DEF LinkedWhole
      <4> QED
        BY <3>1, <3>3, <3>4, <3>6, <3>7, <4>1 DEF LinkedWhole
    <3>9. f'.ino = f.ino /\ f'.inode = f.inode
      BY <2>3 DEF FileType, OpenFile
    <3>10. fpc' \in {"write_first", "return_error", "seek", "close"}
      BY <2>1, <2>3 DEF Body, Control, FileType, Operation
    <3> QED
      BY <2>1, <3>0, <3>1, <3>8, <3>9, <3>10 DEF Held, Cached
  <2> QED
    BY <1>12, <2>2, <2>3 DEF CreateLink
<1>13. CASE WriteFirst \/ WriteSecond
  <2>1. /\ UNCHANGED <<inodeTable, dir, f>>
        /\ \/ fpc = "write_first" /\ fpc' \in {"commit", "grow", "write_second"}
           \/ fpc = "write_second" /\ fpc' = "commit" /\ UNCHANGED fresh
    BY <1>13 DEF WriteFirst, WriteSecond
  <2>2. LinkedWhole' /\ \A b : Loose(b) => Loose(b)'
    BY <1>2, <2>1
  <2> QED
    BY <2>1, <2>2 DEF Held, Cached
<1>14. CASE Attach
  <2>1. fpc = "attach" /\ UNCHANGED <<inodeTable, dir, owned>> /\ Loose(fresh.block)
    BY <1>14 DEF Attach, Held, vars
  <2>2. LinkedWhole' /\ \A b : Loose(b) => Loose(b)'
    BY <1>2, <2>1
  <2>3. CASE ReturnError
    BY <2>1, <2>2, <2>3, FailedCallFiles
  <2>4. CASE /\ f.inode.count < NDirBlocks
             /\ f' = [f EXCEPT !.inode = Grown(@, fresh.block)]
             /\ fpc' = IF op.call = "fwrite" THEN "write_second" ELSE "commit"
             /\ fresh' = fresh
    <3>1. /\ f'.exist = f.exist /\ f'.ino = f.ino
          /\ f'.inode = Grown(f.inode, fresh.block)
      BY <2>4 DEF FileType, OpenFile
    <3>2. f.exist /\ f.inode = inodeTable[f.ino] /\ f.ino \in dir
      BY <2>1 DEF Cached, Control, OnFile
    <3> QED
      BY <2>1, <2>2, <2>4, <3>1, <3>2 DEF Held, Cached
  <2> QED
    BY <1>14, <2>3, <2>4 DEF Attach
<1>15. CASE Commit
  <2>0. PICK n, b, old : n = f.ino /\ b = fresh.block /\ old = inodeTable[n]
    OBVIOUS
  <2>1. /\ fpc' = "idle" /\ UNCHANGED <<f, dir, owned>> /\ fpc = "commit"
        /\ inodeTable' = [inodeTable EXCEPT ![n] = f.inode]
    BY <1>15, <2>0 DEF Commit, Return, vars
  <2>2. n \in dir /\ n \in InodeNum /\ f.exist
    BY <2>0, <2>1 DEF Cached, Control, OnFile, FileType
  <2>3. inodeTable'[n] = f.inode /\ \A m \in dir \ {n} : inodeTable'[m] = inodeTable[m]
    BY <2>1, <2>2 DEF FileType
  <2>4. Held' /\ Cached'
    BY <2>0, <2>1, <2>2, <2>3 DEF Held, Cached
  <2>5. CASE f.inode = old
    BY <1>2, <2>0, <2>1, <2>3, <2>4, <2>5
  <2>6. CASE Loose(b) /\ old.count < NDirBlocks /\ f.inode = Grown(old, b)
    <3>1. b \in BlockNum /\ old \in Inode
      BY <2>0, <2>2, <2>6, NumbersAre DEF Loose, OwnedInRange, Kind, FileType
    <3>2. /\ f.inode.count = old.count + 1 /\ f.inode.blk[old.count] = b
          /\ \A x \in 0 .. old.count - 1 : f.inode.blk[x] = old.blk[x]
          /\ Blocks(f.inode) = Blocks(old) \cup {b}
      BY <2>6, <3>1, BlocksOf
    <3>3. Blocks(inodeTable[n])' = Blocks(old) \cup {b}
      BY <2>3, <3>2 DEF Blocks
    <3>4. \A m \in dir \ {n} : Blocks(inodeTable[m])' = Blocks(inodeTable[m])
      BY <2>3 DEF Blocks
    <3>5. \A m \in dir : b \notin Blocks(inodeTable[m])
      BY <2>6 DEF Loose
    <3>6. Whole(n)'
      <4>1. Whole(n) /\ old.count \in Nat
        BY <2>0, <2>2, <3>1 DEF LinkedWhole, Inode
      <4>2. n \in owned'["inode"] /\ inodeTable'[n].count > 0
        BY <2>0, <2>1, <2>3, <3>2, <4>1 DEF Whole
      <4>3. Blocks(inodeTable[n])' \subseteq owned'["block"] \ Reserved("block")
        BY <2>0, <2>1, <2>6, <3>3, <4>1 DEF Whole, Loose, Reserved
      <4>4. ASSUME NEW x \in 0 .. old.count, NEW y \in 0 .. old.count,
                   f.inode.blk[x] = f.inode.blk[y]
            PROVE  x = y
        <5>1. \A z \in 0 .. old.count - 1 : f.inode.blk[z] = old.blk[z] /\ old.blk[z] # b
          BY <2>0, <2>2, <3>2, <3>5 DEF Blocks
        <5>2. CASE x \in 0 .. old.count - 1 /\ y \in 0 .. old.count - 1
          BY <2>0, <4>1, <4>4, <5>1, <5>2 DEF Whole
        <5>3. CASE x = old.count \/ y = old.count
          BY <3>2, <4>1, <4>4, <5>1, <5>3
        <5> QED
          BY <4>1, <5>2, <5>3
      <4>5. 0 .. inodeTable'[n].count - 1 = 0 .. old.count
        BY <2>3, <3>2, <4>1
      <4> QED
        BY <2>3, <4>2, <4>3, <4>4, <4>5 DEF Whole, Reserved
    <3>7. ASSUME NEW m \in dir \ {n} PROVE Whole(m)'
      BY <2>1, <2>3, <3>4, <3>7 DEF LinkedWhole, Whole, Reserved
    <3>8. LinkedWhole'
      <4>1. \A m, l \in dir : m # l => Blocks(inodeTable[l])' \cap Blocks(inodeTable[m])' = {}
        BY <2>0, <2>2, <3>3, <3>4, <3>5 DEF LinkedWhole
      <4> QED
        BY <2>1, <3>6, <3>7, <4>1 DEF LinkedWhole
    <3> QED
      BY <2>4, <3>8
  <2> QED
    BY <2>0, <2>1, <2>2, <2>5, <2>6 DEF Cached
<1>16. CASE Seek
  <2>1. /\ UNCHANGED <<inodeTable, dir>> /\ fpc = "seek" /\ fpc' \in {"grow", "idle"}
        /\ f' = [f EXCEPT !.pos = op.to]
    BY <1>16 DEF Seek, Return
  <2>2. f'.exist = f.exist /\ f'.ino = f.ino /\ f'.inode = f.inode
    BY <2>1 DEF FileType, OpenFile
  <2> QED
    BY <1>2, <2>1, <2>2 DEF Held, Cached
<1>17. CASE Close \/ MetaCrash
  <2>1. UNCHANGED <<inodeTable, dir>> /\ f' = Closed /\ fpc' = "idle"
    BY <1>17 DEF Close, MetaCrash, Return
  <2> QED
    BY <1>2, <2>1 DEF Held, Cached, Closed
<1> QED
  BY <1>3, <1>4, <1>6, <1>8, <1>9, <1>10, <1>11, <1>12, <1>13, <1>14, <1>15, <1>16, <1>17
     DEF MetaNext, MetaMount, AllocateCounts, allVars

-----------------------------------------------------------------------------
(***************************************************************************)
(* The theorems                                                            *)
(***************************************************************************)

\* The inductive invariant holds in every behaviour.
LEMMA MetaInvariant == DeviceWorks => (MetaSpec => [](TypeOK /\ AllocInv /\ MetaInv))
<1> SUFFICES ASSUME DeviceWorks PROVE MetaSpec => [](TypeOK /\ AllocInv /\ MetaInv)
  OBVIOUS
<1>1. MetaInit => TypeOK /\ AllocInv
  BY InitType, InitAllocInv DEF MetaInit
<1>2. MetaInit => MetaInv
  <2>1. MetaInit => Files
    BY DEF MetaInit, Files, LinkedWhole, Held, Cached, Closed
  <2> QED
    BY <2>1, InitFileType, InitOwned DEF MetaInv
<1>3. TypeOK /\ AllocInv /\ MetaInv /\ [MetaNext]_allVars => (TypeOK /\ AllocInv /\ MetaInv)'
  <2> SUFFICES ASSUME TypeOK, AllocInv, MetaInv, [MetaNext]_allVars
               PROVE  (TypeOK /\ AllocInv /\ MetaInv)'
    OBVIOUS
  <2>1. [Next]_vars
    BY StepsAreAllocatorSteps DEF MetaInv, Files
  <2>2. TypeOK' /\ AllocInv'
    BY <2>1, NextType, NextAllocInv
  <2>3. OwnedInRange'
    BY <2>1, NextOwned DEF MetaInv
  <2> QED
    BY <2>2, <2>3, NextFileType, NextControl, NextFiles DEF MetaInv
<1> QED
  BY <1>1, <1>2, <1>3, PTL DEF MetaSpec

\* file.c and directory.c call the allocator as Ext2Alloc describes it: one call at a
\* time, on a group of the file system, and nothing but a call changes what is marked.
\* So what is proved of Ext2Alloc holds under the files.
THEOREM AllocatorIsImplementedHolds == DeviceWorks => (MetaSpec => AllocatorIsImplemented)
<1> SUFFICES ASSUME DeviceWorks PROVE MetaSpec => Spec
  BY DEF AllocatorIsImplemented
<1>1. MetaInit => Init
  BY DEF MetaInit
<1>2. TypeOK /\ AllocInv /\ MetaInv /\ [MetaNext]_allVars => [Next]_vars
  BY StepsAreAllocatorSteps DEF MetaInv, Files
<1> QED
  BY <1>1, <1>2, MetaInvariant, PTL DEF MetaSpec, Spec

\* fwrite and fseek fill in pointers of i_block only, with block numbers, and every inode
\* number the calls pass on is one of the file system.
THEOREM MetaTypeCorrect == DeviceWorks => (MetaSpec => []MetaTypeOK)
<1>1. MetaInv => MetaTypeOK
  BY DEF MetaInv, FileType, MetaTypeOK, OpenFile, Allocated, Inode
<1> QED
  BY <1>1, MetaInvariant, PTL

\* Between two calls the cached inode of the open file is the inode on disk.
THEOREM CachedInodeIsCommittedHolds == DeviceWorks => (MetaSpec => []CachedInodeIsCommitted)
<1>1. MetaInv => CachedInodeIsCommitted
  BY DEF MetaInv, Files, Cached, CachedInodeIsCommitted, Ready
<1> QED
  BY <1>1, MetaInvariant, PTL

\* A number in use has its bit in the bitmap of its group.
LEMMA InUseIsMarked ==
  ASSUME TypeOK, AllocInv, OwnedInRange, NEW k \in Kind, NEW n \in owned[k]
  PROVE  Marked(k, n)
<1>1. PICK g \in Group, i \in ItemBits(k) : n = ItemNumber(k, g, i)
  BY DEF OwnedInRange, Numbers
<1>2. i \in bitmap[k][g]
  BY <1>1 DEF AllocInv, OwnedInRange, OwnedIsMarked
<1> QED
  BY <1>1, <1>2 DEF Marked

\* At every moment, power losses included, a directory entry names an inode that is
\* marked and written, with marked blocks: the order of the writes of ext2_file_create,
\* ext2_fwrite and ext2_fseek.
THEOREM LinkedInodesAreWholeHolds == DeviceWorks => (MetaSpec => []LinkedInodesAreWhole)
<1>1. TypeOK /\ AllocInv /\ MetaInv => LinkedInodesAreWhole
  <2> SUFFICES ASSUME TypeOK, AllocInv, MetaInv, NEW n \in dir
               PROVE  /\ Marked("inode", n) /\ inodeTable[n].count > 0
                      /\ \A b \in Blocks(inodeTable[n]) : Marked("block", b)
    BY DEF LinkedInodesAreWhole
  <2>1. Whole(n)
    BY DEF MetaInv, Files, LinkedWhole
  <2>2. Marked("inode", n)
    BY <2>1, InUseIsMarked DEF MetaInv, Whole, Kind
  <2>3. ASSUME NEW b \in Blocks(inodeTable[n]) PROVE Marked("block", b)
    BY <2>1, InUseIsMarked DEF MetaInv, Whole, Kind
  <2>4. inodeTable[n].count > 0
    BY <2>1 DEF Whole
  <2> QED
    BY <2>2, <2>3, <2>4
<1> QED
  BY <1>1, MetaInvariant, PTL

\* An inode whose pointers differ has as many blocks as its sector count says.
LEMMA DistinctBlocks ==
  ASSUME NEW ino \in Inode,
         \A x, y \in 0 .. ino.count - 1 : ino.blk[x] = ino.blk[y] => x = y
  PROVE  Cardinality(Blocks(ino)) = ino.count
<1> DEFINE S == 0 .. ino.count - 1
           F == [x \in S |-> ino.blk[x]]
<1>1. F \in Bijection(S, Blocks(ino))
  BY DEF Bijection, Injection, Surjection, IsInjective, Blocks
<1>2. ino.count \in Nat /\ IsFiniteSet(S) /\ Cardinality(S) = ino.count
  <2>1. ino.count \in Nat
    BY MetaAssumption DEF Inode
  <2> QED
    BY <2>1, FirstNaturals
<1> HIDE DEF S, F
<1> QED
  BY <1>1, <1>2, FS_Bijection DEF ExistsBijection

\* No block belongs to two linked files, twice to one, or to one and to mke2fs.
THEOREM BlocksAreExclusiveHolds == DeviceWorks => (MetaSpec => []BlocksAreExclusive)
<1>1. MetaInv => BlocksAreExclusive
  <2> SUFFICES ASSUME MetaInv, NEW n \in dir
               PROVE  /\ \A m \in dir \ {n} : Blocks(inodeTable[n]) \cap Blocks(inodeTable[m]) = {}
                      /\ \A b \in Blocks(inodeTable[n]) :
                           \A g \in Group : \A i \in FreshBitmap["block"][g] \cap ItemBits("block") :
                             b # ItemNumber("block", g, i)
                      /\ Cardinality(Blocks(inodeTable[n])) = inodeTable[n].count
    BY DEF BlocksAreExclusive
  <2>1. Whole(n) /\ inodeTable[n] \in Inode
    BY DEF MetaInv, Files, LinkedWhole, FileType
  <2>2. \A m \in dir \ {n} : Blocks(inodeTable[n]) \cap Blocks(inodeTable[m]) = {}
    BY DEF MetaInv, Files, LinkedWhole
  <2>3. ASSUME NEW b \in Blocks(inodeTable[n]), NEW g \in Group,
               NEW i \in FreshBitmap["block"][g] \cap ItemBits("block")
        PROVE  b # ItemNumber("block", g, i)
    <3>1. ItemNumber("block", g, i) \in Reserved("block")
      BY DEF Reserved
    <3> QED
      BY <2>1, <3>1 DEF Whole
  <2>4. Cardinality(Blocks(inodeTable[n])) = inodeTable[n].count
    BY <2>1, DistinctBlocks DEF Whole
  <2> QED
    BY <2>2, <2>3, <2>4
<1> QED
  BY <1>1, MetaInvariant, PTL

-----------------------------------------------------------------------------
(***************************************************************************)
(* Where the data goes                                                     *)
(***************************************************************************)

\* After a failed call a careful caller only closes the file.
LEMMA FailedCallPosition ==
  ASSUME CarefulCaller, FileType, Position, ReturnError
  PROVE  Position'
<1>1. CASE op.call = "fclose"
  <2>1. fpc' = "close" /\ UNCHANGED <<f, op, fresh>>
    BY <1>1 DEF ReturnError
  <2> QED
    BY <1>1, <2>1 DEF Position, Creating
<1>2. CASE op.call # "fclose"
  <2>1. f' = [f EXCEPT !.erred = StopOnError] /\ fpc' = "idle"
    BY <1>2 DEF ReturnError, Return, Fail
  <2>2. f'.exist = f.exist /\ f'.pos = f.pos /\ f'.erred
    BY <2>1 DEF CarefulCaller, FileType, OpenFile
  <2> QED
    BY <2>1, <2>2 DEF Position, Creating
<1> QED
  BY <1>1, <1>2

\* Every step of a careful caller keeps the position where the next write may go.
LEMMA NextPosition ==
  ASSUME DeviceWorks, CarefulCaller, TypeOK, AllocInv, MetaInv, Position, [MetaNext]_allVars
  PROVE  Position'
<1> USE DEF MetaInv
<1>1. /\ f.pos \in Nat /\ f.inode.count \in Nat
      /\ \A n \in dir : inodeTable[n].count \in Nat /\ inodeTable[n].count > 0
  BY MetaAssumption DEF FileType, OpenFile, Inode, Files, LinkedWhole, Whole
<1>2. CASE UNCHANGED metaVars
  BY <1>2 DEF metaVars, Position
<1>3. CASE ext2_fopen
  <2>1. fpc' = "idle"
    BY <1>3 DEF ext2_fopen, Ready
  <2>2. f'.pos = 0 /\ (f'.exist => f'.inode.count > 0)
    BY <1>1, <1>3 DEF ext2_fopen, Closed
  <2> QED
    BY <2>1, <2>2 DEF Position, Creating
<1>4. ASSUME NEW o \in Operation, Start(o, Body(o)), UNCHANGED f,
             o.call = "fclose" \/ (o.call \in {"fwrite", "fseek"} /\ ~f.erred),
             o.call = "fseek" => o.to <= LastBlock + 1
      PROVE  Position'
  <2>1. /\ fpc = "idle" /\ fpc' = IF f.exist THEN Body(o) ELSE "create_inode"
        /\ op'.call = o.call /\ op'.size = o.size /\ op'.to = o.to
    <3>1. PICK g \in Group : op' = [o EXCEPT !.g = IF f.exist THEN GroupOf(f.ino) ELSE g]
      BY <1>4 DEF Start
    <3> QED
      BY <1>4, <3>1 DEF Start, Ready, Operation
  <2>2. CASE f.exist
    <3>1. o.call = "fseek" => o.to <= f.inode.count
      BY <1>1, <1>4, <2>2 DEF LastBlock, Operation
    <3>2. \/ o.call = "fclose" /\ Body(o) = "close"
          \/ o.call = "fseek" /\ Body(o) = "seek"
          \/ o.call = "fwrite" /\ o.size = "oversize" /\ Body(o) = "return_error"
          \/ o.call = "fwrite" /\ o.size # "oversize" /\ Body(o) = "write_first"
      BY <1>4 DEF Body
    <3> QED
      BY <1>4, <2>1, <2>2, <3>1, <3>2 DEF Position, Creating
  <2>3. CASE ~f.exist
    <3>1. o.call = "fseek" => o.to <= 1
      BY <1>4, <2>3 DEF LastBlock, Operation
    <3> QED
      BY <1>4, <2>1, <2>3, <3>1 DEF Position, Creating
  <2> QED
    BY <2>2, <2>3
<1>5. ASSUME NEW size \in {"fit", "cross", "oversize"}, ext2_fwrite(size)
      PROVE  Position'
  BY <1>4, <1>5, StartValues DEF ext2_fwrite, NoOp
<1>6. ASSUME NEW to \in 0 .. NDirBlocks, ext2_fseek(to)
      PROVE  Position'
  BY <1>4, <1>6, StartValues DEF ext2_fseek, NoOp, CarefulCaller
<1>7. CASE ext2_fclose
  BY <1>4, <1>7, StartValues DEF ext2_fclose, NoOp
<1>8. CASE AllocateInode \/ AllocateBlock
  <2>1. \/ ReturnError
        \/ UNCHANGED <<f, fpc, op, fresh>>
    BY <1>8 DEF AllocateInode, AllocateBlock, Allocate
  <2> QED
    BY <2>1, FailedCallPosition DEF Position
<1>9. CASE AllocateReturns
  <2>1. UNCHANGED <<f, op>> /\ fpc \in Waiting
    BY <1>9, ReturnsIs DEF AllocateReturns, Control
  <2>2. \/ fpc = "create_inode" /\ fpc' = "create_block"
        \/ fpc = "create_block" /\ fpc' = "create_write"
        \/ fpc = "grow" /\ fpc' = "attach"
    BY <1>9, <2>1 DEF AllocateReturns, Waiting
  <2> QED
    BY <2>1, <2>2 DEF Position, Creating
<1>10. CASE CreateRefused \/ Oversize
  BY <1>10, FailedCallPosition DEF CreateRefused, Oversize
<1>11. CASE CreateWrite
  <2>1. /\ fpc = "create_write" /\ fpc' = "create_link" /\ UNCHANGED op
        /\ f'.exist = f.exist /\ f'.pos = f.pos /\ f'.erred = f.erred
    BY <1>11 DEF CreateWrite, FileType, OpenFile
  <2>2. ~f.exist
    BY <2>1 DEF Control, Creating
  <2> QED
    BY <2>1, <2>2 DEF Position, Creating
<1>12. CASE CreateLink
  <2>1. CASE ReturnError
    BY <2>1, FailedCallPosition
  <2>2. CASE f' = [f EXCEPT !.exist = TRUE] /\ fpc' = Body(op) /\ UNCHANGED op
    <3>1. fpc = "create_link" /\ ~f.exist /\ op.call \in {"fwrite", "fseek", "fclose"}
      BY <1>12 DEF CreateLink, Control, Creating, FileType, Operation
    <3>2. f'.pos = 0 /\ f'.inode.count = 1 /\ f'.erred = f.erred /\ f'.exist
      BY <2>2, <3>1 DEF Files, Held, NewInode, Position, FileType, OpenFile
    <3>3. \/ op.call = "fclose" /\ Body(op) = "close"
          \/ op.call = "fseek" /\ Body(op) = "seek"
          \/ op.call = "fwrite" /\ op.size = "oversize" /\ Body(op) = "return_error"
          \/ op.call = "fwrite" /\ op.size # "oversize" /\ Body(op) = "write_first"
      BY <3>1 DEF Body
    <3>4. op.call = "fseek" => op.to <= 1
      BY <3>1 DEF Position, Creating
    <3>5. op.call # "fclose" => ~f.erred
      BY <3>1 DEF Position
    <3> QED
      BY <2>2, <3>2, <3>3, <3>4, <3>5 DEF Position, Creating
  <2> QED
    BY <1>12, <2>1, <2>2 DEF CreateLink
<1>13. CASE WriteFirst
  <2>1. /\ fpc = "write_first" /\ UNCHANGED <<f, op>> /\ f.exist /\ ~f.erred
        /\ op.call = "fwrite" /\ op.size \in {"fit", "cross"} /\ f.pos < f.inode.count
    BY <1>13 DEF WriteFirst, Position, Control, OnFile, FileType, Operation
  <2>2. CASE op.size = "fit" \/ f.inode.count < f.pos + 2
    <3>1. fpc' \in {"commit", "grow"}
      BY <1>13, <2>1, <2>2 DEF WriteFirst
    <3> QED
      BY <2>1, <3>1 DEF Position, Creating
  <2>3. CASE op.size = "cross" /\ ~(f.inode.count < f.pos + 2)
    <3>1. fpc' = "write_second" /\ fresh'.block = f.inode.blk[f.pos + 1]
      BY <1>13, <2>1, <2>3 DEF WriteFirst, FileType, Allocated
    <3>2. f.pos + 1 \in 0 .. f.inode.count - 1
      BY <1>1, <2>3
    <3>3. fresh'.block \in Blocks(f.inode)
      BY <3>1, <3>2 DEF Blocks
    <3> QED
      BY <2>1, <3>1, <3>3 DEF Position, Creating
  <2> QED
    BY <2>1, <2>2, <2>3
<1>14. CASE Attach
  <2>1. CASE ReturnError
    BY <2>1, FailedCallPosition
  <2>2. CASE /\ f.inode.count < NDirBlocks
             /\ f' = [f EXCEPT !.inode = Grown(@, fresh.block)]
             /\ fpc' = IF op.call = "fwrite" THEN "write_second" ELSE "commit"
             /\ UNCHANGED <<op, fresh>>
    <3>1. fpc = "attach" /\ f.exist /\ fresh.block \in BlockNum
      BY <1>14, NumbersAre DEF Attach, Control, OnFile, Files, Held, Loose, OwnedInRange, Kind
    <3>2. /\ f'.exist = f.exist /\ f'.pos = f.pos /\ f'.erred = f.erred
          /\ f'.inode = Grown(f.inode, fresh.block)
      BY <2>2 DEF FileType, OpenFile
    <3>3. f'.inode.count = f.inode.count + 1 /\ fresh.block \in Blocks(f'.inode)
      BY <2>2, <3>1, <3>2, BlocksOf DEF FileType, OpenFile
    <3>4. fresh'.block \in Blocks(f.inode)'
      BY <2>2, <3>3 DEF Blocks
    <3> QED
      BY <1>1, <2>2, <3>1, <3>2, <3>3, <3>4 DEF Position, Creating
  <2> QED
    BY <1>14, <2>1, <2>2 DEF Attach
<1>15. CASE WriteSecond
  <2>1. UNCHANGED <<f, op, fresh>> /\ fpc = "write_second" /\ fpc' = "commit"
    BY <1>15 DEF WriteSecond
  <2> QED
    BY <2>1 DEF Position, Creating
<1>16. CASE Commit
  <2>1. UNCHANGED f /\ fpc = "commit" /\ fpc' = "idle"
    BY <1>16 DEF Commit, Return
  <2> QED
    BY <2>1 DEF Position, Creating
<1>17. CASE Seek
  <2>1. /\ fpc = "seek" /\ f.exist /\ op.call = "fseek" /\ op.to <= f.inode.count /\ ~f.erred
        /\ f' = [f EXCEPT !.pos = op.to] /\ op.to \in Nat
    BY <1>17 DEF Seek, Return, Position, Control, OnFile, FileType, Operation
  <2>2. /\ f'.exist = f.exist /\ f'.pos = op.to /\ f'.erred = f.erred
        /\ f'.inode = f.inode
    BY <2>1 DEF FileType, OpenFile
  <2>3. CASE f.inode.count < op.to + 1
    <3>1. fpc' = "grow" /\ op' = op /\ op.to = f.inode.count
      BY <1>1, <1>17, <2>1, <2>3 DEF Seek
    <3> QED
      BY <2>1, <2>2, <3>1 DEF Position, Creating
  <2>4. CASE ~(f.inode.count < op.to + 1)
    <3>1. fpc' = "idle" /\ op.to < f.inode.count
      BY <1>1, <1>17, <2>1, <2>4 DEF Seek, Return
    <3> QED
      BY <2>1, <2>2, <3>1 DEF Position, Creating
  <2> QED
    BY <2>3, <2>4
<1>18. CASE Close \/ MetaCrash
  <2>1. f' = Closed /\ fpc' = "idle"
    BY <1>18 DEF Close, MetaCrash, Return
  <2> QED
    BY <2>1 DEF Position, Closed, Creating
<1> QED
  BY <1>2, <1>3, <1>5, <1>6, <1>7, <1>8, <1>9, <1>10, <1>11, <1>12, <1>13, <1>14, <1>15,
     <1>16, <1>17, <1>18 DEF MetaNext, MetaMount, AllocateCounts, allVars

\* The block a data write goes to belongs to the file that is written, as long as the
\* caller seeks to the next block at most and closes the file after a failed call.
THEOREM DataWritesStayInFileHolds ==
  DeviceWorks /\ CarefulCaller => (MetaSpec => []DataWritesStayInFile)
<1> SUFFICES ASSUME DeviceWorks, CarefulCaller PROVE MetaSpec => []DataWritesStayInFile
  OBVIOUS
<1>1. MetaInit => Position
  BY DEF MetaInit, Position, Closed, Creating
<1>2. TypeOK /\ AllocInv /\ MetaInv /\ Position /\ [MetaNext]_allVars => Position'
  BY NextPosition
<1>3. MetaInv /\ Position => DataWritesStayInFile
  <2> SUFFICES ASSUME MetaInv, Position, fpc \in {"write_first", "write_second"}
               PROVE  WriteTarget \in Blocks(f.inode)
    BY DEF DataWritesStayInFile
  <2>1. CASE fpc = "write_first"
    <3>1. f.pos \in Nat /\ f.inode.count \in Nat /\ f.pos < f.inode.count
      BY <2>1, MetaAssumption
         DEF Position, MetaInv, FileType, OpenFile, Inode, Control, OnFile
    <3>2. f.inode.blk[f.pos] \in Blocks(f.inode)
      BY <3>1 DEF Blocks
    <3> QED
      BY <2>1, <3>2 DEF WriteTarget
  <2>2. CASE fpc = "write_second"
    BY <2>2 DEF Position, WriteTarget
  <2> QED
    BY <2>1, <2>2
<1> QED
  BY <1>1, <1>2, <1>3, MetaInvariant, PTL DEF MetaSpec

-----------------------------------------------------------------------------
(***************************************************************************)
(* What is in use and belongs to no file                                   *)
(***************************************************************************)

\* The call in progress has attached a block that the inode on disk does not have yet.
Grew == fpc \in {"write_second", "commit"} /\ f.inode # inodeTable[f.ino]

\* What the call in progress holds: between the bitmap write and the link or the commit.
HoldsNow(k) ==
  IF k = "inode"
  THEN IF \/ fpc = "create_inode" /\ InProgress
          \/ fpc \in {"create_block", "create_write", "create_link"} THEN 1 ELSE 0
  ELSE IF \/ fpc \in {"create_block", "grow"} /\ InProgress
          \/ fpc \in {"create_write", "create_link", "attach"}
          \/ Grew THEN 1 ELSE 0

\* Holds of LeaksAreAccountedFor allows a call one item from its first step to its last;
\* the items are counted exactly here.
Balance == \A k \in Kind : Used(k) <= Linked(k) + crashes + abandoned[k] + HoldsNow(k)

LinkedBlocks == UNION {Blocks(inodeTable[n]) : n \in dir}

\* A bitmap has as many bits as a counter can count.
LEMMA BitsFinite ==
  ASSUME NEW S \in SUBSET Bits
  PROVE  IsFiniteSet(S) /\ Cardinality(S) \in 0 .. CountMax16
<1>1. /\ InodesPerGroup \in Nat /\ BlocksPerGroup \in Nat /\ CountMax16 \in Nat
      /\ InodesPerGroup <= CountMax16 /\ BlocksPerGroup <= CountMax16
  BY GeometryAssumption, CounterAssumption
<1> DEFINE C == 0 .. CountMax16 - 1
<1>2. S \in SUBSET C
  BY <1>1 DEF Bits, ScanBits, ItemBits, PerGroup
<1>3. IsFiniteSet(C) /\ Cardinality(C) = CountMax16
  BY <1>1, FirstNaturals
<1> HIDE DEF C
<1>4. IsFiniteSet(S) /\ Cardinality(S) <= CountMax16
  BY <1>2, <1>3, FS_Subset
<1> QED
  BY <1>1, <1>4, FS_CardinalityType

\* The marked items of every group, as counters.
UsedCounts(k) == [g \in Group |-> Cardinality(bitmap[k][g] \ FreshBitmap[k][g])]

LEMMA UsedIsNumber ==
  ASSUME TypeOK, NEW k \in Kind
  PROVE  UsedCounts(k) \in Counts /\ Used(k) = OverGroups(UsedCounts(k)) /\ Used(k) \in Nat
<1>1. \A g \in Group : bitmap[k][g] \ FreshBitmap[k][g] \in SUBSET Bits
  BY DEF TypeOK
<1>2. UsedCounts(k) \in Counts
  BY <1>1, BitsFinite DEF UsedCounts, Counts
<1>3. Used(k) = OverGroups(UsedCounts(k))
  BY DEF Used, UsedCounts
<1> QED
  BY <1>2, <1>3, UnitsFinite

\* Linked inodes and their blocks are finitely many.
LEMMA LinkedIsNumber ==
  ASSUME FileType
  PROVE  /\ IsFiniteSet(dir) /\ IsFiniteSet(LinkedBlocks)
         /\ Linked("inode") = Cardinality(dir) /\ Linked("block") = Cardinality(LinkedBlocks)
         /\ \A k \in Kind : Linked(k) \in Nat
<1>1. IsFiniteSet(InodeNum)
  <2>1. NumGroups * InodesPerGroup \in Int
    BY GeometryAssumption
  <2> QED
    BY <2>1, FS_Interval DEF InodeNum
<1>2. IsFiniteSet(BlockNum \cup {Uninit})
  <2>1. NumGroups * BlocksPerGroup - 1 \in Int
    BY GeometryAssumption
  <2>2. IsFiniteSet(BlockNum)
    BY <2>1, FS_Interval DEF BlockNum
  <2> QED
    BY <2>2, FS_AddElement
<1>3. IsFiniteSet(dir)
  BY <1>1, FS_Subset DEF FileType
<1>4. LinkedBlocks \in SUBSET (BlockNum \cup {Uninit})
  <2> SUFFICES ASSUME NEW n \in dir, NEW x \in 0 .. inodeTable[n].count - 1
               PROVE  inodeTable[n].blk[x] \in BlockNum \cup {Uninit}
    BY DEF LinkedBlocks, Blocks
  <2>1. inodeTable[n] \in Inode /\ x \in Pointer
    BY MetaAssumption DEF FileType, Inode, Pointer
  <2> QED
    BY <2>1 DEF Inode
<1>5. IsFiniteSet(LinkedBlocks)
  BY <1>2, <1>4, FS_Subset
<1>6. Linked("inode") = Cardinality(dir) /\ Linked("block") = Cardinality(LinkedBlocks)
  BY DEF Linked, LinkedBlocks
<1> QED
  BY <1>3, <1>5, <1>6, FS_CardinalityType DEF Kind

\* A bit that is set is one more item in use at most.
LEMMA OneBitMore ==
  ASSUME TypeOK, TypeOK', NEW k \in Kind, NEW g \in Group, NEW b \in Bits,
         bitmap' = [bitmap EXCEPT ![k][g] = bitmap[k][g] \cup {b}]
  PROVE  \A l \in Kind : Used(l)' \in Nat /\ Used(l)' <= Used(l) + (IF l = k THEN 1 ELSE 0)
<1>1. \A l \in Kind, h \in Group :
        bitmap'[l][h] = IF l = k /\ h = g THEN bitmap[l][h] \cup {b} ELSE bitmap[l][h]
  BY DEF TypeOK
<1>2. FreshBitmap' = FreshBitmap
  BY DEF FreshBitmap
<1>3. \A l \in Kind : l # k => Used(l)' = Used(l)
  BY <1>1, <1>2 DEF Used, OverGroups, Units
<1>4. \A l \in Kind : UsedCounts(l) \in Counts /\ UsedCounts(l)' \in Counts
  BY UsedIsNumber, BitsFinite, <1>2 DEF UsedCounts, Counts, TypeOK
<1> DEFINE S == bitmap[k][g] \ FreshBitmap[k][g]
           T == bitmap'[k][g] \ FreshBitmap[k][g]
<1>5. IsFiniteSet(T) /\ S \subseteq Bits
  BY <1>1, BitsFinite DEF TypeOK
<1>6. CASE T = S
  <2>1. \A h \in Group : bitmap'[k][h] \ FreshBitmap[k][h] = bitmap[k][h] \ FreshBitmap[k][h]
    BY <1>1, <1>6
  <2>2. Used(k)' = Used(k)
    BY <1>2, <2>1 DEF Used, OverGroups, Units
  <2> QED
    BY <1>3, <2>2, UsedIsNumber
<1>7. CASE T # S
  <2>1. b \in T /\ S = T \ {b}
    BY <1>1, <1>7
  <2>2. Cardinality(T) = Cardinality(S) + 1
    <3> HIDE DEF S, T
    <3> QED
      BY <1>5, <2>1, TakenFromSet
  <2> DEFINE old == UsedCounts(k)
             new == UsedCounts(k)'
  <2>3. new[g] = old[g] + 1 /\ \A h \in Group \ {g} : new[h] = old[h]
    BY <1>1, <1>2, <2>2 DEF UsedCounts
  <2>4. old \in Counts /\ new \in Counts /\ Used(k) = OverGroups(old) /\ Used(k)' = OverGroups(new)
    BY <1>4 DEF Used, UsedCounts, OverGroups, Units
  <2>5. OverGroups(old) = OverGroups(new) - 1 /\ OverGroups(new) \in Nat
    <3> HIDE DEF old, new
    <3> QED
      BY <2>3, <2>4, OneUnitLess, UnitsFinite
  <2>6. Used(k)' \in Nat /\ Used(k)' <= Used(k) + 1
    <3> HIDE DEF old, new
    <3> QED
      BY <2>4, <2>5, UsedIsNumber
  <2> QED
    BY <1>3, <2>6, UsedIsNumber
<1> QED
  BY <1>6, <1>7

\* The terms of Balance are numbers.
LEMMA BalanceTerms ==
  ASSUME TypeOK, FileType, NEW k \in Kind
  PROVE  /\ Used(k) \in Nat /\ Linked(k) \in Nat /\ crashes \in Nat
         /\ abandoned[k] \in Nat /\ HoldsNow(k) \in {0, 1}
  BY UsedIsNumber, LinkedIsNumber DEF TypeOK, FileType, HoldsNow

\* A step that marks nothing and links nothing may pass an item on from the call to the
\* crashes or to what was given up, but not forget it.
LEMMA BalanceKept ==
  ASSUME TypeOK, FileType, TypeOK', FileType', Balance,
         bitmap' = bitmap, dir' = dir, \A n \in dir : inodeTable'[n] = inodeTable[n],
         \A k \in Kind :
           crashes + abandoned[k] + HoldsNow(k) <= crashes' + abandoned'[k] + HoldsNow(k)'
  PROVE  Balance'
<1> SUFFICES ASSUME NEW k \in Kind
             PROVE  Used(k)' <= Linked(k)' + crashes' + abandoned'[k] + HoldsNow(k)'
  BY DEF Balance
<1>1. Used(k)' = Used(k)
  BY DEF Used, FreshBitmap
<1>2. Linked(k)' = Linked(k)
  BY DEF Linked, Blocks
<1>3. Used(k) <= Linked(k) + crashes + abandoned[k] + HoldsNow(k)
  BY DEF Balance
<1>4. /\ Used(k) \in Nat /\ Linked(k) \in Nat /\ crashes \in Nat
      /\ abandoned[k] \in Nat /\ HoldsNow(k) \in {0, 1}
  BY BalanceTerms
<1>5. crashes' \in Nat /\ abandoned'[k] \in Nat /\ HoldsNow(k)' \in {0, 1}
  BY DEF TypeOK, FileType, HoldsNow
<1>6. crashes + abandoned[k] + HoldsNow(k) <= crashes' + abandoned'[k] + HoldsNow(k)'
  OBVIOUS
<1> QED
  BY <1>1, <1>2, <1>3, <1>4, <1>5, <1>6

\* The entry of a new file and the commit of a longer inode link what the call held.
LEMMA BalanceLinked ==
  ASSUME TypeOK, FileType, Balance, bitmap' = bitmap, crashes' = crashes,
         abandoned' = abandoned,
         \A k \in Kind : Linked(k) + HoldsNow(k) <= Linked(k)' + HoldsNow(k)',
         \A k \in Kind : Linked(k)' \in Nat /\ HoldsNow(k)' \in Nat
  PROVE  Balance'
<1> SUFFICES ASSUME NEW k \in Kind
             PROVE  Used(k)' <= Linked(k)' + crashes' + abandoned'[k] + HoldsNow(k)'
  BY DEF Balance
<1>1. Used(k)' = Used(k)
  BY DEF Used, FreshBitmap
<1>2. Used(k) <= Linked(k) + crashes + abandoned[k] + HoldsNow(k)
  BY DEF Balance
<1>3. /\ Used(k) \in Nat /\ Linked(k) \in Nat /\ crashes \in Nat
      /\ abandoned[k] \in Nat /\ HoldsNow(k) \in {0, 1}
  BY BalanceTerms
<1>4. /\ Linked(k) + HoldsNow(k) <= Linked(k)' + HoldsNow(k)'
      /\ Linked(k)' \in Nat /\ HoldsNow(k)' \in Nat
  OBVIOUS
<1> QED
  BY <1>1, <1>2, <1>3, <1>4

\* Between two calls, and while one only moves on, nothing is held.
LEMMA NothingHeld ==
  ASSUME fpc \in {"idle", "close", "write_first", "return_error", "seek"} \/
           (fpc = "create_inode" /\ ~InProgress)
  PROVE  \A k \in Kind : HoldsNow(k) = 0
  BY DEF HoldsNow, Grew, Kind

\* A call that fails gives up what it held.
LEMMA FailedCallBalance ==
  ASSUME TypeOK, FileType, TypeOK', FileType', Balance, ReturnError,
         bitmap' = bitmap, crashes' = crashes, UNCHANGED <<dir, inodeTable>>,
         \A k \in Kind : abandoned'[k] = abandoned[k] + HoldsNow(k)
  PROVE  Balance'
<1>1. fpc' \in {"idle", "close"}
  BY ReturnErrorIs
<1>2. \A k \in Kind : HoldsNow(k)' = 0
  BY <1>1 DEF HoldsNow, Grew, Kind
<1>3. \A k \in Kind : crashes + abandoned[k] + HoldsNow(k) = crashes' + abandoned'[k] + HoldsNow(k)'
  BY <1>2, BalanceTerms
<1>4. \A k \in Kind : crashes + abandoned[k] + HoldsNow(k) \in Int
  BY BalanceTerms
<1>5. \A k \in Kind : crashes + abandoned[k] + HoldsNow(k) <= crashes' + abandoned'[k] + HoldsNow(k)'
  BY <1>3, <1>4
<1> QED
  BY <1>5, BalanceKept


\* A block that is linked for the first time counts as one.
LEMMA OneBlockLinked ==
  ASSUME FileType, NEW b, b \notin LinkedBlocks, LinkedBlocks' = LinkedBlocks \cup {b}
  PROVE  Linked("block")' = Linked("block") + 1
<1>1. IsFiniteSet(LinkedBlocks) /\ Linked("block") = Cardinality(LinkedBlocks)
  BY LinkedIsNumber
<1>2. Linked("block")' = Cardinality(LinkedBlocks')
  BY DEF Linked, LinkedBlocks
<1>3. Cardinality(LinkedBlocks \cup {b}) = Cardinality(LinkedBlocks) + 1
  BY <1>1, FS_AddElement
<1> QED
  BY <1>1, <1>2, <1>3

\* The entry of a new file links the inode and the block that the call held.
LEMMA CreateLinkBalance ==
  ASSUME TypeOK, MetaInv, TypeOK', FileType', Balance, CreateLink
  PROVE  Balance'
<1> USE DEF MetaInv, Files
<1>1. /\ fpc = "create_link" /\ UNCHANGED <<inodeTable, bitmap, crashes>>
      /\ f.ino \in owned["inode"] \ dir /\ Loose(fresh.block)
      /\ f.inode = NewInode(fresh.block) /\ inodeTable[f.ino] = f.inode
  BY DEF CreateLink, Held, vars
<1>2. \A k \in Kind : HoldsNow(k) = 1
  BY <1>1 DEF HoldsNow, Kind
<1>3. CASE /\ ReturnError /\ UNCHANGED dir
           /\ abandoned' = [k \in Kind |-> abandoned[k] + 1]
  <2>1. \A k \in Kind : abandoned'[k] = abandoned[k] + HoldsNow(k)
    BY <1>2, <1>3
  <2> QED
    BY <1>1, <1>3, <2>1, FailedCallBalance
<1>4. ASSUME ext2_add_dir_entry(f.ino), abandoned' = abandoned
      PROVE  Balance'
  <2>0. PICK e, b : e = f.ino /\ b = fresh.block
    OBVIOUS
  <2>1. dir' = dir \cup {e} /\ e \notin dir
    BY <1>1, <1>4, <2>0 DEF ext2_add_dir_entry
  <2>2. Linked("inode")' = Linked("inode") + 1
    <3>1. Linked("inode")' = Cardinality(dir \cup {e})
      BY <2>1 DEF Linked
    <3> QED
      BY <2>1, <3>1, LinkedIsNumber, FS_AddElement
  <2>3. Blocks(inodeTable[e]) = {b}
    <3>1. b \in BlockNum
      BY <1>1, <2>0, NumbersAre DEF Loose, OwnedInRange, Kind
    <3> QED
      BY <1>1, <2>0, <3>1, BlocksOf
  <2>4. b \notin LinkedBlocks
    BY <1>1, <2>0 DEF Loose, LinkedBlocks
  <2>5. LinkedBlocks' = LinkedBlocks \cup {b}
    <3>1. \A n : Blocks(inodeTable'[n]) = Blocks(inodeTable[n])
      BY <1>1
    <3>2. LinkedBlocks' = UNION {Blocks(inodeTable[n]) : n \in dir \cup {e}}
      BY <1>1, <2>1, <3>1 DEF LinkedBlocks, Blocks
    <3> QED
      BY <2>3, <3>2 DEF LinkedBlocks
  <2>6. Linked("block")' = Linked("block") + 1
    BY <2>4, <2>5, OneBlockLinked
  <2>7. \A k \in Kind : HoldsNow(k)' \in {0, 1}
    BY DEF HoldsNow
  <2>8. \A k \in Kind : Linked(k)' = Linked(k) + 1
    BY <2>2, <2>6 DEF Kind
  <2>9. \A k \in Kind : /\ Linked(k) + HoldsNow(k) <= Linked(k)' + HoldsNow(k)'
                        /\ Linked(k)' \in Nat /\ HoldsNow(k)' \in Nat
    BY <1>2, <2>7, <2>8, LinkedIsNumber
  <2> QED
    BY <1>1, <1>4, <2>9, BalanceLinked
<1> QED
  BY <1>3, <1>4 DEF CreateLink

\* The commit of an inode that grew links the block that the call held.
LEMMA CommitBalance ==
  ASSUME TypeOK, MetaInv, TypeOK', FileType', Balance, Commit
  PROVE  Balance'
<1> USE DEF MetaInv, Files
<1>0. PICK n, b, old : n = f.ino /\ b = fresh.block /\ old = inodeTable[n]
  OBVIOUS
<1>1. /\ fpc = "commit" /\ UNCHANGED <<dir, bitmap, crashes, abandoned>>
      /\ inodeTable' = [inodeTable EXCEPT ![n] = f.inode]
  BY <1>0 DEF Commit, vars
<1>2. n \in dir /\ n \in InodeNum /\ f.exist
  BY <1>0, <1>1 DEF Cached, Control, OnFile, FileType
<1>3. inodeTable'[n] = f.inode /\ \A m \in dir \ {n} : inodeTable'[m] = inodeTable[m]
  BY <1>1, <1>2 DEF FileType
<1>4. fpc' = "idle"
  BY DEF Commit, Return
<1>5. \A k \in Kind : HoldsNow(k)' = 0
  BY <1>4 DEF HoldsNow, Grew, Kind
<1>6. HoldsNow("inode") = 0
  BY <1>1 DEF HoldsNow
<1>7. Linked("inode")' = Linked("inode")
  BY <1>1 DEF Linked
<1>8. CASE f.inode = old
  <2>1. \A m \in dir : inodeTable'[m] = inodeTable[m]
    BY <1>0, <1>3, <1>8
  <2>2. \A k \in Kind : HoldsNow(k) = 0
    BY <1>0, <1>1, <1>8 DEF HoldsNow, Grew, Kind
  <2>3. \A k \in Kind :
          crashes + abandoned[k] + HoldsNow(k) <= crashes' + abandoned'[k] + HoldsNow(k)'
    BY <1>1, <1>5, <2>2, BalanceTerms
  <2> QED
    BY <1>1, <2>1, <2>3, BalanceKept
<1>9. CASE Loose(b) /\ old.count < NDirBlocks /\ f.inode = Grown(old, b)
  <2>1. b \in BlockNum /\ old \in Inode
    BY <1>0, <1>2, <1>9, NumbersAre DEF Loose, OwnedInRange, Kind, FileType
  <2>2. Blocks(f.inode) = Blocks(old) \cup {b}
    BY <1>9, <2>1, BlocksOf
  <2>3. Blocks(inodeTable'[n]) = Blocks(inodeTable[n]) \cup {b}
    BY <1>0, <1>3, <2>2
  <2>4. \A m \in dir \ {n} : Blocks(inodeTable'[m]) = Blocks(inodeTable[m])
    BY <1>3
  <2>5. LinkedBlocks' = UNION {Blocks(inodeTable'[m]) : m \in dir}
    BY <1>1 DEF LinkedBlocks, Blocks
  <2>6. LinkedBlocks' = LinkedBlocks \cup {b}
    BY <1>2, <2>3, <2>4, <2>5 DEF LinkedBlocks
  <2>7. b \notin LinkedBlocks
    BY <1>9 DEF Loose, LinkedBlocks
  <2>8. Linked("block")' = Linked("block") + 1
    BY <2>6, <2>7, OneBlockLinked
  <2>9. \A k \in Kind : Linked(k) \in Nat /\ HoldsNow(k) \in {0, 1}
    BY BalanceTerms
  <2>10. \A k \in Kind : /\ Linked(k) + HoldsNow(k) <= Linked(k)' + HoldsNow(k)'
                         /\ Linked(k)' \in Nat /\ HoldsNow(k)' \in Nat
    BY <1>5, <1>6, <1>7, <2>8, <2>9 DEF Kind
  <2> QED
    BY <1>1, <2>10, BalanceLinked
<1> QED
  BY <1>0, <1>2, <1>8, <1>9 DEF Cached

\* An allocation marks one item, and from then on the call holds it.
LEMMA AllocateBalance ==
  ASSUME TypeOK, AllocInv, MetaInv, TypeOK', FileType', faults' = 0, Balance,
         NEW k \in Kind, NEW g \in Group, Allocate(k, g), fpc \in Waiting,
         k = IF fpc = "create_inode" THEN "inode" ELSE "block"
  PROVE  Balance'
<1> USE DEF MetaInv, Files
<1>1. /\ pc = "idle" /\ crashes' = crashes
      /\ \/ UNCHANGED <<bitmap, pc>>
         \/ \E b \in FreeBits(k, g) :
              /\ bitmap' = [bitmap EXCEPT ![k][g] = bitmap[k][g] \cup {b}]
              /\ pc' = "bgdt"
  BY AllocateIs, FreeAllocIs
<1>2. UNCHANGED <<inodeTable, dir>>
  BY DEF Allocate
<1>3. ~InProgress
  BY <1>1 DEF InProgress
<1>4. HoldsNow("inode") = (IF fpc = "create_block" THEN 1 ELSE 0) /\ HoldsNow("block") = 0
  BY <1>3 DEF HoldsNow, Grew, Waiting
<1>5. CASE UNCHANGED <<bitmap, pc>>
  <2>1. /\ ReturnError
        /\ abandoned' = IF fpc = "create_block" THEN GiveUp("inode") ELSE abandoned
    BY <1>1, <1>5 DEF Allocate
  <2>2. \A l \in Kind : abandoned'[l] = abandoned[l] + HoldsNow(l)
    BY <1>4, <2>1 DEF GiveUp, Kind, FileType
  <2> QED
    BY <1>1, <1>2, <1>5, <2>1, <2>2, FailedCallBalance
<1>6. ASSUME NEW b \in FreeBits(k, g), pc' = "bgdt",
             bitmap' = [bitmap EXCEPT ![k][g] = bitmap[k][g] \cup {b}]
      PROVE  Balance'
  <2>1. UNCHANGED <<f, fpc, abandoned>>
    BY <1>6 DEF Allocate
  <2>2. InProgress'
    BY <1>6 DEF InProgress
  <2>3. \A l \in Kind : HoldsNow(l)' = HoldsNow(l) + (IF l = k THEN 1 ELSE 0)
    <3>1. fpc' \in Waiting /\ ~Grew'
      BY <2>1 DEF Waiting, Grew
    <3>2. /\ HoldsNow("inode")' = IF fpc \in {"create_inode", "create_block"} THEN 1 ELSE 0
          /\ HoldsNow("block")' = IF fpc \in {"create_block", "grow"} THEN 1 ELSE 0
      BY <2>1, <2>2, <3>1 DEF HoldsNow, Waiting
    <3> QED
      BY <1>4, <3>2 DEF Kind, Waiting
  <2>4. b \in Bits
    BY <1>6 DEF FreeBits, Bits, Kind, ItemBits, PerGroup, ScanBits
  <2>5. \A l \in Kind : Used(l)' \in Nat /\ Used(l)' <= Used(l) + (IF l = k THEN 1 ELSE 0)
    BY <1>6, <2>4, OneBitMore
  <2>6. \A l \in Kind : Linked(l)' = Linked(l)
    BY <1>2 DEF Linked, Blocks
  <2> SUFFICES ASSUME NEW l \in Kind
               PROVE  Used(l)' <= Linked(l)' + crashes' + abandoned'[l] + HoldsNow(l)'
    BY DEF Balance
  <2>7. Used(l) <= Linked(l) + crashes + abandoned[l] + HoldsNow(l)
    BY DEF Balance
  <2>8. /\ Used(l) \in Nat /\ Linked(l) \in Nat /\ crashes \in Nat
        /\ abandoned[l] \in Nat /\ HoldsNow(l) \in {0, 1}
    BY BalanceTerms
  <2> QED
    BY <1>1, <2>1, <2>3, <2>5, <2>6, <2>7, <2>8
<1> QED
  BY <1>1, <1>5, <1>6


\* No step forgets an item: what is marked is linked, held by the call in progress, was
\* given up by a call that failed, or was held when the power failed.
LEMMA NextBalance ==
  ASSUME TypeOK, AllocInv, MetaInv, TypeOK', FileType', faults' = 0, Balance,
         [MetaNext]_allVars
  PROVE  Balance'
<1> USE DEF MetaInv, Files
<1>1. \A k \in Kind : /\ crashes \in Nat /\ abandoned[k] \in Nat
                      /\ HoldsNow(k) \in {0, 1} /\ HoldsNow(k)' \in {0, 1}
  BY BalanceTerms DEF HoldsNow
<1>2. ASSUME UNCHANGED <<bitmap, crashes, abandoned, inodeTable, dir>>,
             \A k \in Kind : HoldsNow(k) <= HoldsNow(k)'
      PROVE  Balance'
  BY <1>1, <1>2, BalanceKept
<1>3. CASE UNCHANGED allVars \/ MetaMount \/ AllocateCounts
  <2>1. UNCHANGED <<bitmap, crashes>> /\ UNCHANGED metaVars /\ (InProgress => InProgress')
    BY <1>3 DEF allVars, vars, MetaMount, Mount, AllocateCounts, UpdateBgdt, InProgress
  <2>2. \A k \in Kind : HoldsNow(k) <= HoldsNow(k)'
    BY <2>1 DEF metaVars, HoldsNow, Grew
  <2> QED
    BY <1>2, <2>1, <2>2 DEF metaVars
<1>4. ASSUME fpc \in {"idle", "close", "write_first", "seek"},
             UNCHANGED <<bitmap, crashes, abandoned, inodeTable, dir>>
      PROVE  Balance'
  BY <1>1, <1>2, <1>4, NothingHeld
<1>5. CASE \/ ext2_fopen \/ ext2_fclose \/ WriteFirst \/ Seek \/ Close
           \/ \E size \in {"fit", "cross", "oversize"} : ext2_fwrite(size)
           \/ \E to \in 0 .. NDirBlocks : ext2_fseek(to)
  BY <1>4, <1>5 DEF ext2_fopen, ext2_fclose, ext2_fwrite, ext2_fseek, Start, Ready,
                    WriteFirst, Seek, Close, vars
<1>6. CASE CreateRefused \/ Oversize
  <2>1. /\ ReturnError /\ UNCHANGED <<bitmap, crashes, abandoned, inodeTable, dir>>
        /\ \A k \in Kind : HoldsNow(k) = 0
    BY <1>6, NothingHeld DEF CreateRefused, Oversize, NeedsInode, InProgress, vars
  <2> QED
    BY <1>1, <2>1, FailedCallBalance
<1>7. CASE AllocateInode \/ AllocateBlock
  <2>1. op.g \in Group /\ (fpc = "grow" => GroupOf(f.ino) \in Group)
    BY GroupOfInode DEF FileType, Operation, Control, OnFile, Cached
  <2>2. CASE AllocateInode
    BY <2>1, <2>2, AllocateBalance DEF AllocateInode, NeedsInode, Waiting, Kind
  <2>3. CASE AllocateBlock
    <3> DEFINE g == IF fpc = "grow" THEN GroupOf(f.ino) ELSE op.g
    <3>1. g \in Group /\ Allocate("block", g) /\ fpc \in {"create_block", "grow"}
      BY <2>1, <2>3 DEF AllocateBlock, NeedsBlock
    <3> HIDE DEF g
    <3> QED
      BY <3>1, AllocateBalance DEF Waiting, Kind
  <2> QED
    BY <1>7, <2>2, <2>3
<1>8. CASE AllocateReturns
  <2>1. InProgress /\ UNCHANGED <<bitmap, crashes>>
    BY <1>8, ReturnsIs DEF AllocateReturns, UpdateSb
  <2>2. /\ UNCHANGED <<inodeTable, dir, abandoned>>
        /\ fpc' = CASE fpc = "create_inode" -> "create_block"
                    [] fpc = "create_block" -> "create_write"
                    [] fpc = "grow"         -> "attach"
    BY <1>8 DEF AllocateReturns
  <2>3. fpc \in Waiting
    BY <2>1 DEF Control
  <2>4. \A k \in Kind : HoldsNow(k) <= HoldsNow(k)'
    <3>1. CASE fpc = "create_inode"
      BY <1>1, <2>2, <3>1 DEF HoldsNow, Grew, Kind
    <3>2. CASE fpc = "create_block"
      BY <1>1, <2>2, <3>2 DEF HoldsNow, Grew, Kind
    <3>3. CASE fpc = "grow"
      BY <1>1, <2>2, <3>3 DEF HoldsNow, Grew, Kind
    <3> QED
      BY <2>3, <3>1, <3>2, <3>3 DEF Waiting
  <2> QED
    BY <1>2, <2>1, <2>2, <2>4
<1>9. CASE CreateWrite
  <2>1. /\ fpc = "create_write" /\ fpc' = "create_link" /\ fresh.inode \notin dir
        /\ UNCHANGED <<bitmap, crashes, abandoned, dir>>
    BY <1>9 DEF CreateWrite, Held, vars
  <2>2. \A n \in dir : inodeTable'[n] = inodeTable[n]
    BY <1>9, <2>1 DEF CreateWrite, FileType
  <2>3. \A k \in Kind : HoldsNow(k)' = 1
    BY <2>1 DEF HoldsNow, Kind
  <2> QED
    BY <1>1, <2>1, <2>2, <2>3, BalanceKept
<1>10. CASE WriteSecond
  <2>1. /\ fpc = "write_second" /\ fpc' = "commit"
        /\ UNCHANGED <<bitmap, crashes, abandoned, inodeTable, dir, f>>
    BY <1>10 DEF WriteSecond, vars
  <2>2. Grew' = Grew
    BY <2>1 DEF Grew
  <2>3. \A k \in Kind : HoldsNow(k) <= HoldsNow(k)'
    BY <1>1, <2>1, <2>2 DEF HoldsNow, Kind
  <2> QED
    BY <1>2, <2>1, <2>3
<1>11. CASE Attach
  <2>1. fpc = "attach" /\ UNCHANGED <<bitmap, crashes, inodeTable, dir>> /\ Loose(fresh.block)
    BY <1>11 DEF Attach, Held, vars
  <2>2. HoldsNow("inode") = 0 /\ HoldsNow("block") = 1
    BY <2>1 DEF HoldsNow
  <2>3. CASE ReturnError /\ abandoned' = GiveUp("block")
    <3>1. \A k \in Kind : abandoned'[k] = abandoned[k] + HoldsNow(k)
      BY <1>1, <2>2, <2>3 DEF GiveUp, Kind, FileType
    <3> QED
      BY <2>1, <2>3, <3>1, FailedCallBalance
  <2>4. CASE /\ f.inode.count < NDirBlocks
             /\ f' = [f EXCEPT !.inode = Grown(@, fresh.block)]
             /\ fpc' = IF op.call = "fwrite" THEN "write_second" ELSE "commit"
             /\ abandoned' = abandoned
    <3>1. f'.ino = f.ino /\ f'.inode = Grown(f.inode, fresh.block)
      BY <2>4 DEF FileType, OpenFile
    <3>2. f.inode = inodeTable[f.ino] /\ f.inode \in Inode
      BY <2>1 DEF Cached, Control, OnFile, FileType, OpenFile
    <3>3. f'.inode.count = f.inode.count + 1 /\ f.inode.count \in Nat
      BY <3>1, <3>2, MetaAssumption DEF Grown, Inode
    <3>4. f'.inode # inodeTable'[f'.ino]
      BY <2>1, <3>1, <3>2, <3>3
    <3>5. HoldsNow("block")' = 1
      BY <2>4, <3>4 DEF HoldsNow, Grew
    <3>6. \A k \in Kind : HoldsNow(k) <= HoldsNow(k)'
      BY <1>1, <2>2, <3>5 DEF Kind
    <3> QED
      BY <1>2, <2>1, <2>4, <3>6
  <2> QED
    BY <1>11, <2>3, <2>4 DEF Attach
<1>12. CASE MetaCrash
  <2>1. /\ crashes' = crashes + 1 /\ UNCHANGED <<bitmap, inodeTable, dir, abandoned>>
    BY <1>12 DEF MetaCrash, Crash
  <2>2. \A k \in Kind :
          crashes + abandoned[k] + HoldsNow(k) <= crashes' + abandoned'[k] + HoldsNow(k)'
    BY <1>1, <2>1
  <2> QED
    BY <2>1, <2>2, BalanceKept
<1> QED
  BY <1>3, <1>5, <1>6, <1>7, <1>8, <1>9, <1>10, <1>11, <1>12, CreateLinkBalance,
     CommitBalance DEF MetaNext

\* On a fresh image nothing is in use but what mke2fs took.
LEMMA InitBalance == MetaInit => Balance
<1> SUFFICES ASSUME MetaInit, NEW k \in Kind
             PROVE  Used(k) <= Linked(k) + crashes + abandoned[k] + HoldsNow(k)
  BY DEF Balance
<1>1. TypeOK /\ FileType
  BY InitType, InitFileType DEF MetaInit
<1>2. \A g \in Group : bitmap[k][g] \ FreshBitmap[k][g] = {}
  BY DEF MetaInit
<1>3. \A g \in Group : UsedCounts(k)[g] = 0
  BY <1>2, FS_EmptySet DEF UsedCounts
<1>4. UsedCounts(k) \in Counts /\ Used(k) = OverGroups(UsedCounts(k))
  BY <1>1, UsedIsNumber
<1>5. OverGroups(UsedCounts(k)) = 0
  <2> HIDE DEF UsedCounts
  <2> QED
    BY <1>3, <1>4, NoUnits
<1> QED
  BY <1>1, <1>4, <1>5, BalanceTerms

\* Every inode and every block marked in use on disk, beyond those of mke2fs, belongs to a
\* linked file, but for one per power loss, those of the calls that failed, and the one the
\* call in progress holds: the order of the writes of file.c leaks nothing else.
THEOREM LeaksAreAccountedForHolds == DeviceWorks => (MetaSpec => []LeaksAreAccountedFor)
<1> SUFFICES ASSUME DeviceWorks PROVE MetaSpec => []LeaksAreAccountedFor
  OBVIOUS
<1> DEFINE Inv == TypeOK /\ AllocInv /\ MetaInv
<1>1. MetaInit => Balance
  BY InitBalance
<1>2. Inv /\ Inv' /\ Balance /\ [MetaNext]_allVars => Balance'
  BY NextBalance DEF MetaInv, OwnedInRange
<1>3. Inv /\ Balance => LeaksAreAccountedFor
  <2> SUFFICES ASSUME Inv, Balance, NEW k \in Kind
               PROVE  Used(k) <= Linked(k) + crashes + abandoned[k] + Holds(k)
    BY DEF LeaksAreAccountedFor
  <2>1. Used(k) <= Linked(k) + crashes + abandoned[k] + HoldsNow(k)
    BY DEF Balance
  <2>2. HoldsNow(k) <= Holds(k) /\ Holds(k) \in Nat
    BY DEF HoldsNow, Holds, Grew
  <2>3. /\ Used(k) \in Nat /\ Linked(k) \in Nat /\ crashes \in Nat
        /\ abandoned[k] \in Nat /\ HoldsNow(k) \in {0, 1}
    BY BalanceTerms DEF MetaInv
  <2> QED
    BY <2>1, <2>2, <2>3
<1>4. MetaSpec => []Inv
  BY MetaInvariant
<1> QED
  BY <1>1, <1>2, <1>3, <1>4, PTL DEF MetaSpec
=============================================================================
