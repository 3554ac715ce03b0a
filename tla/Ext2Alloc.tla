------------------------------ MODULE Ext2Alloc ------------------------------
(***************************************************************************)
(* The ext2 allocator of ester: the two bitmaps of every block group, the  *)
(* free counters of the group descriptors and of the superblock, and the   *)
(* calls ext2_free_inode_alloc and ext2_free_block_alloc that move them    *)
(* (fs/ext2/superblock.c, fs/ext2/group.c, fs/ext2/device.c).              *)
(*                                                                         *)
(* A call persists three blocks one after the other: the bitmap, the group *)
(* descriptor table, the superblock.  Each of the three writes is a step,  *)
(* so that a power loss can fall between any two of them.  The device may  *)
(* also report an error; the callers ignore what ext2_write_block and      *)
(* ext2_read_block return, so a failed write is a write that did not       *)
(* happen and a failed read leaves an uninitialised buffer.                *)
(***************************************************************************)
EXTENDS Integers, FiniteSets, FiniteSetsExt

CONSTANTS
  NumGroups,       \* block groups of the file system
  InodesPerGroup,  \* s_inodes_per_group
  BlocksPerGroup,  \* s_blocks_per_group
  CountMax16,      \* largest value of a uint16_t descriptor counter
  CountMax32,      \* largest value of a uint32_t superblock counter
  MaxFaults,       \* bound: device errors in a behaviour
  MaxCrashes       \* bound: power losses in a behaviour

Group == 0 .. NumGroups - 1
Kind  == {"inode", "block"}

\* Items of a kind in one group.
PerGroup(k) == IF k = "inode" THEN InodesPerGroup ELSE BlocksPerGroup

\* The bits of a bitmap that stand for an item of the group, the bits the
\* allocator scans, and all bits the model keeps.
ItemBits(k) == 0 .. PerGroup(k) - 1
ScanBits    == 0 .. InodesPerGroup - 1
Bits        == ScanBits \cup ItemBits("block")

ASSUME GeometryAssumption ==
  /\ NumGroups \in Nat \ {0}
  /\ InodesPerGroup \in Nat \ {0, 1}
  /\ BlocksPerGroup \in Nat \ {0}

ASSUME CounterAssumption ==
  /\ CountMax16 \in Nat
  /\ CountMax32 \in Nat
  /\ InodesPerGroup <= CountMax16
  /\ BlocksPerGroup <= CountMax16

ASSUME BoundAssumption == MaxFaults \in Nat /\ MaxCrashes \in Nat

VARIABLES
  bitmap,    \* disk: bitmap[k][g], the indices of the bits that are set
  bgdtDisk,  \* disk: bgdtDisk[k][g], free items counted by a descriptor
  sbDisk,    \* disk: sbDisk[k], free items counted by the superblock
  bgdt,      \* memory: the counters of __bgdt
  sb,        \* memory: the counters of __sb
  pc,        \* where the machine is: off, idle, or inside a call
  call,      \* the call in progress: its kind, group and bit
  ret,       \* what the last completed call returned, NoRet before any
  owned,     \* history: numbers mke2fs used or a call returned, per kind
  faults,    \* device errors so far
  crashes    \* power losses so far

diskVars == <<bitmap, bgdtDisk, sbDisk>>
memVars  == <<bgdt, sb, pc, call, ret>>
vars     == <<bitmap, bgdtDisk, sbDisk, bgdt, sb, pc, call, ret, owned,
              faults, crashes>>

NoRet == -1

\* The number of an item: inode numbers start from 1.
ItemNumber(k, g, i) ==
  IF k = "inode" THEN g * InodesPerGroup + i + 1 ELSE g * BlocksPerGroup + i

\* The items of a group whose bit is clear.
FreeBits(k, g) == ItemBits(k) \ bitmap[k][g]

\* Sum over the groups of a counter, as the number of units counted.
Units(count) == UNION {{g} \X (1 .. count[g]) : g \in Group}
OverGroups(count) == Cardinality(Units(count))

TotalFreeBits(k) == OverGroups([g \in Group |-> Cardinality(FreeBits(k, g))])

\* Unsigned decrement: zero wraps to the largest value of the type.
Decremented(n, max) == IF n = 0 THEN max ELSE n - 1

-----------------------------------------------------------------------------
(***************************************************************************)
(* A file system as mke2fs leaves it: counters equal to the bitmaps, the   *)
(* boot block of group 0 and the inodes up to the root directory in use,   *)
(* bits past the end of the group set.  The machine is off.                *)
(***************************************************************************)
MkfsBitmap(b) ==
  /\ \A k \in Kind, g \in Group : Bits \ ItemBits(k) \subseteq b[k][g]
  /\ {0, 1} \subseteq b["inode"][0]
  /\ 0 \in b["block"][0]

Init ==
  /\ bitmap \in [Kind -> [Group -> SUBSET Bits]]
  /\ MkfsBitmap(bitmap)
  /\ bgdtDisk = [k \in Kind |->
                   [g \in Group |-> Cardinality(FreeBits(k, g))]]
  /\ sbDisk = [k \in Kind |-> OverGroups(bgdtDisk[k])]
  /\ sbDisk \in [Kind -> 0 .. CountMax32]
  /\ bgdt = [k \in Kind |-> [g \in Group |-> 0]]
  /\ sb = [k \in Kind |-> 0]
  /\ pc = "off"
  /\ call = [k |-> "inode", g |-> 0, i |-> 0]
  /\ ret = NoRet
  /\ owned = [k \in Kind |->
               UNION {{ItemNumber(k, g, i) : i \in bitmap[k][g] \cap ItemBits(k)} :
                        g \in Group}]
  /\ faults = 0
  /\ crashes = 0

\* Device errors are counted; an access whose outcome is ok = FALSE failed.
Failures(ok) == IF ok THEN 0 ELSE 1
CountFaults(n) == faults' = faults + n /\ faults' <= MaxFaults

-----------------------------------------------------------------------------
\* kernel_entry mounts the file system: both tables are read into memory.
ext2_extract_sb   == sb' = sbDisk
ext2_extract_bgdt == bgdt' = bgdtDisk

Mount ==
  /\ pc = "off"
  /\ ext2_extract_sb
  /\ ext2_extract_bgdt
  /\ pc' = "idle"
  /\ UNCHANGED <<bitmap, bgdtDisk, sbDisk, call, ret, owned, faults, crashes>>

-----------------------------------------------------------------------------
(***************************************************************************)
(* First part of a call: read the bitmap, take the first clear bit among   *)
(* the first s_inodes_per_group ones, set it and write the bitmap back.    *)
(* Without a clear bit the call returns 0.  A failed read leaves the       *)
(* buffer uninitialised, and that buffer is what is scanned and written.   *)
(***************************************************************************)
ClearOffByOne(used) == (0 .. InodesPerGroup) \ used    \* mutant: i <= limit
Clear(used) == ScanBits \ used
FirstClear(used) == Min(Clear(used))

SaveNothing(k, g, used, ok) == UNCHANGED bitmap       \* mutant: no save
SaveBitmap(k, g, used, ok) ==
  bitmap' = IF ok THEN [bitmap EXCEPT ![k][g] = used] ELSE bitmap

ScanAndMark(k, g, readOk, writeOk, used) ==
  IF Clear(used) = {}
  THEN /\ ret' = 0
       /\ call' = [k |-> k, g |-> g, i |-> 0]
       /\ CountFaults(Failures(readOk))
       /\ UNCHANGED <<pc, bitmap>>
  ELSE /\ call' = [k |-> k, g |-> g, i |-> FirstClear(used)]
       /\ SaveBitmap(k, g, used \cup {FirstClear(used)}, writeOk)
       /\ CountFaults(Failures(readOk) + Failures(writeOk))
       /\ pc' = "bgdt"
       /\ UNCHANGED ret

FreeAlloc(k, g) ==
  /\ pc = "idle"
  /\ \E readOk, writeOk \in BOOLEAN :
       \E used \in IF readOk THEN {bitmap[k][g]} ELSE SUBSET Bits :
         ScanAndMark(k, g, readOk, writeOk, used)
  /\ UNCHANGED <<bgdtDisk, sbDisk, bgdt, sb, owned, crashes>>

ext2_free_inode_alloc(g) == FreeAlloc("inode", g)
ext2_free_block_alloc(g) == FreeAlloc("block", g)

\* Second part: decrement the counter of the descriptor in memory and write
\* the whole table from memory.
ext2_write_bgdt_lost(ok) == UNCHANGED bgdtDisk        \* mutant: memory only
ext2_write_bgdt(ok) == bgdtDisk' = IF ok THEN bgdt' ELSE bgdtDisk

UpdateBgdt ==
  /\ pc = "bgdt"
  /\ bgdt' = [bgdt EXCEPT ![call.k][call.g] = Decremented(@, CountMax16)]
  /\ \E ok \in BOOLEAN : ext2_write_bgdt(ok) /\ CountFaults(Failures(ok))
  /\ pc' = "sb"
  /\ UNCHANGED <<bitmap, sbDisk, sb, call, ret, owned, crashes>>

\* Last part: the counter of the superblock, then the call returns.  A read
\* error makes ext2_write_sb return before it writes, a write error is
\* ignored: both leave the old superblock on disk.
ext2_write_sb_lost(ok) == UNCHANGED sbDisk            \* mutant: memory only
ext2_write_sb(ok) == sbDisk' = IF ok THEN sb' ELSE sbDisk

UpdateSb ==
  /\ pc = "sb"
  /\ sb' = [sb EXCEPT ![call.k] = Decremented(@, CountMax32)]
  /\ \E ok \in BOOLEAN : ext2_write_sb(ok) /\ CountFaults(Failures(ok))
  /\ ret' = ItemNumber(call.k, call.g, call.i)
  /\ owned' = [owned EXCEPT ![call.k] = @ \cup {ret'}]
  /\ pc' = "idle"
  /\ UNCHANGED <<bitmap, bgdtDisk, bgdt, call, crashes>>

-----------------------------------------------------------------------------
\* Power loss: memory is gone, the disk keeps what was written.
Crash ==
  /\ pc # "off"
  /\ crashes < MaxCrashes
  /\ crashes' = crashes + 1
  /\ pc' = "off"
  /\ bgdt' = [k \in Kind |-> [g \in Group |-> 0]]
  /\ sb' = [k \in Kind |-> 0]
  /\ UNCHANGED <<bitmap, bgdtDisk, sbDisk, call, ret, owned, faults>>

Next ==
  \/ Mount
  \/ \E g \in Group : ext2_free_inode_alloc(g)
  \/ \E g \in Group : ext2_free_block_alloc(g)
  \/ UpdateBgdt
  \/ UpdateSb
  \/ Crash

Spec == Init /\ [][Next]_vars

-----------------------------------------------------------------------------
(***************************************************************************)
(* Properties                                                              *)
(***************************************************************************)

InCall(k) == pc \in {"bgdt", "sb"} /\ call.k = k

\* Type invariant: the counters keep their width, the bitmaps their length.
TypeOK ==
  /\ bitmap \in [Kind -> [Group -> SUBSET Bits]]
  /\ bgdtDisk \in [Kind -> [Group -> 0 .. CountMax16]]
  /\ sbDisk \in [Kind -> 0 .. CountMax32]
  /\ bgdt \in [Kind -> [Group -> 0 .. CountMax16]]
  /\ sb \in [Kind -> 0 .. CountMax32]
  /\ pc \in {"off", "idle", "bgdt", "sb"}
  /\ call \in [k : Kind, g : Group, i : ScanBits]
  /\ ret \in Nat \cup {NoRet}
  /\ owned \in [Kind -> SUBSET Nat]
  /\ faults \in Nat
  /\ crashes \in Nat

\* While no device access has failed, the number a call is about to return
\* belongs to nobody: mke2fs did not use it and no earlier call returned it,
\* whatever power losses came in between.
NoDoubleAllocation ==
  faults = 0 /\ pc \in {"bgdt", "sb"} =>
    ItemNumber(call.k, call.g, call.i) \notin owned[call.k]

\* While no device access has failed, a descriptor on disk never promises
\* less than its bitmap holds: the bitmap is written before the descriptor,
\* so a crash in between leaves a counter that is too high, never too low.
DescriptorsCoverBitmaps ==
  faults = 0 =>
    \A k \in Kind, g \in Group : Cardinality(FreeBits(k, g)) <= bgdtDisk[k][g]

\* The same one level up: the superblock is written after the descriptor, so
\* it never counts less than the descriptors do together.
SuperblockCoversDescriptors ==
  faults = 0 => \A k \in Kind : OverGroups(bgdtDisk[k]) <= sbDisk[k]

\* While no device access has failed, each crash costs at most one item: the
\* superblock exceeds what the bitmaps hold by at most the number of crashes,
\* plus the call in progress.
DriftBoundedByCrashes ==
  faults = 0 =>
    \A k \in Kind :
      sbDisk[k] <= TotalFreeBits(k) + crashes + (IF InCall(k) THEN 1 ELSE 0)

\* While no device access has failed, no free counter on disk ever rises:
\* nothing is ever freed, so a rise is an unsigned counter that wrapped.
CountersOnlyFall ==
  [][faults' = 0 =>
       \A k \in Kind :
         /\ sbDisk'[k] <= sbDisk[k]
         /\ \A g \in Group : bgdtDisk'[k][g] <= bgdtDisk[k][g]]_vars

\* What the comment "NO more free block" (and "NO more free inode") says of a
\* call that returns 0: the group has no free item left.
ZeroMeansFull ==
  faults = 0 /\ ret = 0 /\ pc = "idle" => FreeBits(call.k, call.g) = {}

\* What the comment "Allocate a free block inside group" says, on a device
\* that may fail: the number returned belonged to nobody.
NeverHandsOutTwice ==
  [][pc = "sb" /\ pc' = "idle" => ret' \notin owned[call.k]]_vars
=============================================================================
