------------------------------ MODULE Ext2File -------------------------------
(***************************************************************************)
(* What ester's ext2 files hold: the bytes that ext2_fopen, ext2_fread,    *)
(* ext2_fwrite, ext2_fseek and ext2_fclose move between the caller, the    *)
(* one-block buffer of the open file and the blocks on disk                *)
(* (fs/ext2/file.c).  A call is one step; what a power loss may do between *)
(* its writes is the subject of Ext2Meta, and the numbers the allocator    *)
(* returns that of Ext2Alloc.                                              *)
(***************************************************************************)
EXTENDS Integers, Sequences, FiniteSets, FiniteSetsExt, Functions

CONSTANTS
  File,         \* inodes that are, or may become, regular files
  Existing,     \* the files on the image
  Block,        \* block numbers of the data blocks
  BS,           \* block size
  NDirBlocks,   \* EXT2_NDIR_BLOCKS
  Byte,         \* the bytes a caller writes
  WriteSizes,   \* sizes a caller passes to ext2_fwrite
  ReadSizes,    \* sizes a caller passes to ext2_fread
  Positions,    \* positions a caller passes to ext2_fseek
  SeekAhead     \* bound: blocks past the last one a caller may seek to

\* Inode and block numbers are numbers, and the image has a block for every file on it.
ASSUME FileAssumption ==
  /\ File \subseteq Nat
  /\ Existing \subseteq File
  /\ Block \subseteq Nat
  /\ \E g \in [Existing -> Block] : IsInjective(g)
  /\ BS \in Nat \ {0}
  /\ NDirBlocks \in Nat \ {0}
  /\ SeekAhead \in Nat \ {0}
  /\ Byte \subseteq Nat \ {0}
  /\ WriteSizes \subseteq Nat \ {0}
  /\ ReadSizes \subseteq 1 .. BS
  /\ Positions \subseteq 0 .. NDirBlocks * BS

VARIABLES
  disk,    \* disk: disk[b][x], byte x of data block b
  itable,  \* disk: itable[n], the inode of file n
  files,   \* disk: the files that have a directory entry
  free,    \* disk: data blocks not marked in the block bitmap
  f,       \* memory: __ext2_file
  caller   \* the caller of the file system, see Idle below

vars == <<disk, itable, files, free, f, caller>>

Offset == 0 .. BS - 1
Stale  == 99     \* what a block held before it was allocated
Uninit == -1     \* a block pointer nobody wrote
Zeroes == [x \in Offset |-> 0]

\* An inode: its blocks by the sector count, i_lower_size and i_block.
Pointer == 0 .. NDirBlocks + 2
EmptyInode == [count |-> 0, size |-> 0, blk |-> [x \in Pointer |-> Uninit]]
NewInode(b) == [count |-> 1, size |-> 0, blk |-> [x \in Pointer |-> IF x = 0 THEN b ELSE Uninit]]
Grown(ino, b) == [count |-> ino.count + 1, size |-> ino.size,
                  blk |-> [ino.blk EXCEPT ![ino.count] = b]]

Closed == [open |-> FALSE, exist |-> FALSE, ino |-> Uninit, inode |-> EmptyInode,
           pos |-> 0, buff |-> Zeroes]

\* What the caller did and saw: the bytes of the last fwrite at this position,
\* the bytes the last call returned, whether the buffer was filled since the
\* file was opened, and whether a call failed (it then closes the file).
Nothing == <<>>
Idle == [wrote |-> Nothing, got |-> Nothing, loaded |-> FALSE, erred |-> FALSE]

Data(size) == [1 .. size -> Byte]

\* The blocks that an access through a pointer may reach.
Reach(p) == IF p = Uninit THEN Block ELSE {p}

-----------------------------------------------------------------------------
\* The image: every existing file has one block, full.
Init ==
  LET blk == CHOOSE g \in [Existing -> Block] : IsInjective(g)
  IN /\ disk = [b \in Block |-> [x \in Offset |-> Stale]]
     /\ itable = [n \in File |-> IF n \in Existing
                                 THEN [NewInode(blk[n]) EXCEPT !.size = BS]
                                 ELSE EmptyInode]
     /\ files = Existing
     /\ free = Block \ {blk[n] : n \in Existing}
     /\ f = Closed
     /\ caller = Idle

\* A call that failed.
Error == caller' = [caller EXCEPT !.erred = TRUE, !.got = Nothing, !.wrote = Nothing]

-----------------------------------------------------------------------------
(***************************************************************************)
(* ext2_file_create, seen from the calls that start with it: the file, the *)
(* free blocks, the inode table and the entries once the file exists.  The *)
(* allocator takes the first free number.                                  *)
(***************************************************************************)
CanCreate == f.exist \/ (files # File /\ free # {})

FileNow == IF f.exist THEN f
           ELSE [f EXCEPT !.exist = TRUE, !.ino = Min(File \ files),
                          !.inode = NewInode(Min(free))]
FreeNowUnmarked == free                          \* mutant: bitmap not saved
FreeNow   == IF f.exist THEN free ELSE free \ {Min(free)}
ItableNow == IF f.exist THEN itable
             ELSE [itable EXCEPT ![FileNow.ino] = FileNow.inode]
FilesNow  == files \cup {FileNow.ino}

\* The call stops because the file cannot be created: no inode or block is left,
\* or the path has no parent directory.  (A full directory, and the numbers a
\* failing call gives up, are in Ext2Meta.)
CreateFails ==
  /\ f.open /\ ~caller.erred /\ ~f.exist
  /\ Error
  /\ UNCHANGED <<disk, itable, files, free, f>>

-----------------------------------------------------------------------------
\* ext2_fopen, in mode "w": an absent path opens a file that does not exist.
\* The buffer is cleared, not filled.
ext2_fopen ==
  /\ ~f.open
  /\ \/ \E n \in files : f' = [Closed EXCEPT !.open = TRUE, !.exist = TRUE, !.ino = n,
                                             !.inode = itable[n]]
     \/ f' = [Closed EXCEPT !.open = TRUE]
  /\ caller' = Idle
  /\ UNCHANGED <<disk, itable, files, free>>

\* ext2_fclose creates a missing file, and closes even if it cannot.
ext2_fclose ==
  /\ f.open
  /\ \/ /\ CanCreate
        /\ itable' = ItableNow /\ files' = FilesNow /\ free' = FreeNow
     \/ /\ ~f.exist
        /\ UNCHANGED <<itable, files, free>>
  /\ f' = Closed
  /\ caller' = Idle
  /\ UNCHANGED disk

\* ext2_fread: the buffer from the position on, then the next block.
ext2_fread(size) ==
  LET o == f.pos % BS
      p == f.pos \div BS
  IN /\ f.open /\ ~caller.erred
     /\ \E b \in Reach(f.inode.blk[p + 1]) :
          caller' = [caller EXCEPT !.got =
            [i \in 1 .. size |-> IF o + i <= BS THEN f.buff[o + i - 1]
                                                ELSE disk[b][o + i - 1 - BS]]]
     /\ UNCHANGED <<disk, itable, files, free, f>>

-----------------------------------------------------------------------------
(***************************************************************************)
(* ext2_fwrite, by where the bytes go.  The part that fits is laid over    *)
(* the buffer and the whole buffer is written; the rest goes to the next   *)
(* block, padded with zeroes.  i_lower_size grows to the offset in the     *)
(* block, plus size.                                                       *)
(***************************************************************************)
OverlayAtStart(buff, o, data) ==                 \* mutant: offset forgotten
  [x \in Offset |-> IF x + 1 \in DOMAIN data THEN data[x + 1] ELSE buff[x]]
Overlay(buff, o, data) ==
  [x \in Offset |-> IF x - o + 1 \in DOMAIN data THEN data[x - o + 1] ELSE buff[x]]
RestFromStart(o, data) ==                        \* mutant: source not advanced
  [x \in Offset |-> IF x + 1 \in DOMAIN data THEN data[x + 1] ELSE 0]
Rest(o, data) ==
  [x \in Offset |-> IF BS - o + x + 1 \in DOMAIN data THEN data[BS - o + x + 1] ELSE 0]

SizedTwice(ino, end) == [ino EXCEPT !.size = @ + end]   \* mutant: += end
Sized(ino, end) == IF end > ino.size THEN [ino EXCEPT !.size = end] ELSE ino

Wrote(data) == caller' = [caller EXCEPT !.wrote = data, !.got = Nothing, !.loaded = TRUE]

CanWrite(data) == f.open /\ ~caller.erred /\ CanCreate

\* More than a block: an error, but the file exists from now on.
FwriteOversize(data) ==
  /\ CanWrite(data) /\ Len(data) > BS
  /\ itable' = ItableNow /\ files' = FilesNow /\ free' = FreeNow /\ f' = FileNow
  /\ Error
  /\ UNCHANGED disk

Crosses(data) == (f.pos % BS) + Len(data) > BS

FwriteFits(data) ==
  LET g == FileNow
      o == g.pos % BS
      inode == Sized(g.inode, o + Len(data))
      buff == Overlay(g.buff, o, data)
  IN /\ CanWrite(data) /\ Len(data) <= BS /\ ~Crosses(data)
     /\ \E b \in Reach(g.inode.blk[g.pos \div BS]) : disk' = [disk EXCEPT ![b] = buff]
     /\ f' = [g EXCEPT !.buff = buff, !.inode = inode]
     /\ itable' = [ItableNow EXCEPT ![g.ino] = inode]
     /\ files' = FilesNow /\ free' = FreeNow
     /\ Wrote(data)

NeedsBlock(g) == g.inode.count < g.pos \div BS + 2

\* The next block exists, or is allocated and put behind the last one.
FwriteCrosses(data) ==
  LET g == FileNow
      o == g.pos % BS
      p == g.pos \div BS
      grown == IF NeedsBlock(g) THEN Grown(g.inode, Min(FreeNow)) ELSE g.inode
      inode == Sized(grown, o + Len(data))
      buff == Overlay(g.buff, o, data)
      second == IF NeedsBlock(g) THEN {Min(FreeNow)} ELSE Reach(g.inode.blk[p + 1])
  IN /\ CanWrite(data) /\ Len(data) <= BS /\ Crosses(data)
     /\ NeedsBlock(g) => FreeNow # {} /\ g.inode.count < NDirBlocks
     /\ \E b \in Reach(g.inode.blk[p]), c \in second :
          disk' = [[disk EXCEPT ![b] = buff] EXCEPT ![c] = Rest(o, data)]
     /\ f' = [g EXCEPT !.buff = buff, !.inode = inode]
     /\ itable' = [ItableNow EXCEPT ![g.ino] = inode]
     /\ files' = FilesNow
     /\ free' = IF NeedsBlock(g) THEN FreeNow \ {Min(FreeNow)} ELSE FreeNow
     /\ Wrote(data)

\* No next block: the first part is written, the call fails.  With all direct
\* pointers in use the block was already allocated.
FwriteNoSpace(data) ==
  LET g == FileNow
      buff == Overlay(g.buff, g.pos % BS, data)
  IN /\ CanWrite(data) /\ Len(data) <= BS /\ Crosses(data)
     /\ NeedsBlock(g) /\ (FreeNow = {} \/ g.inode.count >= NDirBlocks)
     /\ \E b \in Reach(g.inode.blk[g.pos \div BS]) : disk' = [disk EXCEPT ![b] = buff]
     /\ f' = [g EXCEPT !.buff = buff]
     /\ itable' = ItableNow /\ files' = FilesNow
     /\ free' = IF FreeNow = {} THEN {} ELSE FreeNow \ {Min(FreeNow)}
     /\ Error

ext2_fwrite(data) ==
  \/ FwriteOversize(data)
  \/ FwriteFits(data)
  \/ FwriteCrosses(data)
  \/ FwriteNoSpace(data)

-----------------------------------------------------------------------------
(***************************************************************************)
(* ext2_fseek: load the block under the new position, or grow the file by  *)
(* one block when the position lies past the last one.                     *)
(***************************************************************************)
CanSeek(to) ==
  /\ f.open /\ ~caller.erred /\ CanCreate
  /\ to # f.pos
  /\ to \div BS <= FileNow.inode.count - 1 + SeekAhead

Moved == caller' = [caller EXCEPT !.wrote = Nothing, !.got = Nothing, !.loaded = TRUE]

FseekLoadNothing(to) ==                          \* mutant: buffer not loaded
  LET g == FileNow
  IN /\ CanSeek(to) /\ to \div BS < g.inode.count
     /\ f' = [g EXCEPT !.pos = to]
     /\ itable' = ItableNow /\ files' = FilesNow /\ free' = FreeNow
     /\ Moved
     /\ UNCHANGED disk

FseekLoad(to) ==
  LET g == FileNow
  IN /\ CanSeek(to) /\ to \div BS < g.inode.count
     /\ \E b \in Reach(g.inode.blk[to \div BS]) :
          f' = [g EXCEPT !.pos = to, !.buff = disk[b]]
     /\ itable' = ItableNow /\ files' = FilesNow /\ free' = FreeNow
     /\ Moved
     /\ UNCHANGED disk

FseekGrow(to) ==
  LET g == FileNow
      b == Min(FreeNow)
      inode == [Grown(g.inode, b) EXCEPT !.size = to % BS]
  IN /\ CanSeek(to) /\ to \div BS >= g.inode.count
     /\ FreeNow # {} /\ g.inode.count < NDirBlocks
     /\ f' = [g EXCEPT !.pos = to, !.inode = inode,
                       !.buff = [x \in Offset |-> IF x < to % BS THEN 0 ELSE disk[b][x]]]
     /\ itable' = [ItableNow EXCEPT ![g.ino] = inode]
     /\ files' = FilesNow /\ free' = FreeNow \ {b}
     /\ Moved
     /\ UNCHANGED disk

FseekNoSpace(to) ==
  LET g == FileNow
  IN /\ CanSeek(to) /\ to \div BS >= g.inode.count
     /\ FreeNow = {} \/ g.inode.count >= NDirBlocks
     /\ f' = [g EXCEPT !.pos = to]
     /\ itable' = ItableNow /\ files' = FilesNow
     /\ free' = IF FreeNow = {} THEN {} ELSE FreeNow \ {Min(FreeNow)}
     /\ Error
     /\ UNCHANGED disk

ext2_fseek(to) == FseekLoad(to) \/ FseekGrow(to) \/ FseekNoSpace(to)

-----------------------------------------------------------------------------
Next ==
  \/ ext2_fopen
  \/ ext2_fclose
  \/ CreateFails
  \/ \E size \in ReadSizes : ext2_fread(size)
  \/ \E size \in WriteSizes : \E data \in Data(size) : ext2_fwrite(data)
  \/ \E to \in Positions : ext2_fseek(to)

Spec == Init /\ [][Next]_vars

-----------------------------------------------------------------------------
(***************************************************************************)
(* Properties                                                              *)
(***************************************************************************)

Bytes == Byte \cup {0, Stale}
Inode == [count : 0 .. NDirBlocks, size : 0 .. 2 * BS,
          blk : [Pointer -> Block \cup {Uninit}]]

\* Type invariant: no call stores a pointer outside i_block, counts a block the
\* file has no pointer for, or leaves the cursor outside the direct blocks.
TypeOK ==
  /\ disk \in [Block -> [Offset -> Bytes]]
  /\ itable \in [File -> Inode]
  /\ files \subseteq File
  /\ free \subseteq Block
  /\ f \in [open : BOOLEAN, exist : BOOLEAN, ino : File \cup {Uninit}, inode : Inode,
            pos : 0 .. NDirBlocks * BS, buff : [Offset -> Bytes]]

\* Byte x of file n, as any reader of the image finds it.
Length(n) == itable[n].count * BS
ByteAt(n, x) == disk[itable[n].blk[x \div BS]][x % BS]
Contents(n) == [x \in 0 .. Length(n) - 1 |-> ByteAt(n, x)]

\* A write followed by a read at the same position returns the bytes written,
\* across the end of a block as well: what kernel_entry does with /prova.
ReadYourWrites ==
  \A i \in DOMAIN caller.wrote \cap DOMAIN caller.got : caller.got[i] = caller.wrote[i]

\* "all the bytes are written to the disk asap": when ext2_fwrite returns 0
\* its bytes are on disk, where the inode on disk says the position is.
WriteIsDurable ==
  \A i \in DOMAIN caller.wrote :
    /\ f.pos + i <= Length(f.ino)
    /\ ByteAt(f.ino, f.pos + i - 1) = caller.wrote[i]

\* From the position on, the buffer is the block on disk, once a call filled
\* it: the next write that fits keeps the bytes behind it.
BufferIsBlock ==
  f.open /\ caller.loaded /\ ~caller.erred =>
    \A x \in f.pos % BS .. BS - 1 : f.buff[x] = disk[f.inode.blk[f.pos \div BS]][x]

\* A call on the open file never changes another file: not its inode, not a
\* byte of its blocks, not through a block it was not given.
OtherFilesUntouched ==
  [][\A n \in files \ {f'.ino} :
       f.open => itable'[n] = itable[n] /\ Contents(n)' = Contents(n)]_vars

\* A file never counts more bytes than its blocks can hold, and none of its
\* blocks can be handed out again.
SizeFitsBlocks ==
  \A n \in files :
    /\ itable[n].size <= Length(n)
    /\ \A x \in 0 .. itable[n].count - 1 : itable[n].blk[x] \notin free

-----------------------------------------------------------------------------
(***************************************************************************)
(* A caller that moves whole blocks gets what Ext2BlockFile promises.      *)
(***************************************************************************)
Blocks(n) == [x \in 1 .. itable[n].count |-> [i \in 1 .. BS |-> ByteAt(n, (x - 1) * BS + i - 1)]]

Abstract == INSTANCE Ext2BlockFile WITH
  store <- [n \in File |-> IF n \in files THEN Blocks(n) ELSE <<>>],
  cursor <- [file |-> f.ino, block |-> f.pos \div BS + 1],
  got <- IF caller.loaded THEN caller.got ELSE <<>>

\* Whole blocks written are the blocks read later, in any order of seeks,
\* and no other block of any file changes.
BlocksAreKept == Abstract!Spec

-----------------------------------------------------------------------------
(***************************************************************************)
(* What the comments of the code say and the code does not keep            *)
(***************************************************************************)

\* "Write size bytes to a file": once the buffer is loaded, the bytes written
\* earlier in front of and behind the ones written now keep their value.
WritesOnlySizeBytes ==
  [][caller.loaded /\ caller'.wrote # Nothing /\ f'.ino = f.ino =>
       \A x \in DOMAIN Contents(f.ino) :
         \/ x \in f.pos .. f.pos + Len(caller'.wrote) - 1
         \/ ByteAt(f.ino, x) \in Byte => ByteAt(f.ino, x)' = ByteAt(f.ino, x)]_vars
=============================================================================
