------------------------------ MODULE Ext2Meta -------------------------------
(***************************************************************************)
(* Metadata of ester's ext2 files: the inode table, the directory entries  *)
(* and the one open file, on top of the allocator of Ext2Alloc             *)
(* (fs/ext2/file.c, fs/ext2/inode.c, fs/ext2/directory.c).                 *)
(*                                                                         *)
(* Every block that is written to the device is a step, so a power loss    *)
(* can fall between any two writes of ext2_file_create, ext2_fwrite and    *)
(* ext2_fseek.  Positions count blocks.  File contents, sizes and names    *)
(* are left out: the path lookup compares strings that end in a byte       *)
(* nobody wrote (directory.c:60, directory.c:212), so opening a path may   *)
(* reach any linked file or none.                                          *)
(***************************************************************************)
EXTENDS Ext2Alloc

CONSTANTS
  NDirBlocks,    \* EXT2_NDIR_BLOCKS, direct block pointers of an inode
  MaxSubdirs,    \* entries the directory takes until it has MAX_SUBDIRS
  SeekAhead,     \* bound: blocks past the last one a caller may seek to
  StopOnError    \* TRUE if the caller closes the file after a failed call

ASSUME MetaAssumption ==
  /\ NDirBlocks \in Nat \ {0}
  /\ MaxSubdirs \in Nat
  /\ SeekAhead \in Nat \ {0}
  /\ StopOnError \in BOOLEAN

VARIABLES
  inodeTable,  \* disk: inodeTable[n], NoInode until the inode is written
  dir,         \* disk: the inode numbers that directory entries name
  f,           \* memory: __ext2_file
  fpc,         \* memory: next step of the call in progress
  op,          \* memory: the call in progress and its arguments
  fresh,       \* memory: numbers the allocator returned to the call
  abandoned    \* history: numbers a failing call gave up, per kind

metaVars == <<inodeTable, dir, f, fpc, op, fresh, abandoned>>
allVars  == <<vars, metaVars>>

InodeNum == 1 .. NumGroups * InodesPerGroup
BlockNum == 0 .. NumGroups * BlocksPerGroup - 1
RootInode == 2

\* An inode: how many blocks its sector count stands for, and its pointers.
\* Uninit is a pointer nobody wrote: new_inode lives on the stack.
Uninit     == -1
Pointer    == 0 .. NDirBlocks + 1
NoInode    == [count |-> 0, blk |-> [x \in Pointer |-> Uninit]]
NewInode(b) == [count |-> 1, blk |-> [x \in Pointer |-> IF x = 0 THEN b ELSE Uninit]]
Grown(ino, b) == [count |-> ino.count + 1, blk |-> [ino.blk EXCEPT ![ino.count] = b]]

Blocks(ino) == {ino.blk[x] : x \in 0 .. ino.count - 1}

GroupOf(n) == (n - 1) \div InodesPerGroup

Closed == [open |-> FALSE, exist |-> FALSE, ino |-> 0, inode |-> NoInode,
           pos |-> 0, erred |-> FALSE]
NoOp   == [call |-> "none", size |-> "fit", to |-> 0, g |-> 0]
NoFresh == [inode |-> 0, block |-> 0]

-----------------------------------------------------------------------------
\* A fresh image: the root directory and the metadata blocks, no file.
FreshBitmap ==
  [k \in Kind |-> [g \in Group |->
     (Bits \ ItemBits(k)) \cup (IF g = 0 THEN {0, 1} ELSE IF k = "block" THEN {0} ELSE {})]]

MetaInit ==
  /\ Init
  /\ bitmap = FreshBitmap
  /\ inodeTable = [n \in InodeNum |-> NoInode]
  /\ dir = {}
  /\ f = Closed
  /\ fpc = "idle"
  /\ op = NoOp
  /\ fresh = NoFresh
  /\ abandoned = [k \in Kind |-> 0]

\* The machine is mounted and the caller may make its next call.
Ready == pc = "idle" /\ fpc = "idle"

\* A call that returns an error; the caller may remember it.
Fail(file) == [file EXCEPT !.erred = StopOnError]

-----------------------------------------------------------------------------
(***************************************************************************)
(* ext2_fopen.  The early returns (a file is open, the file is absent and  *)
(* the mode is not "w") change nothing.  A path that reaches no regular    *)
(* file leaves the number of the directory where the search ended.         *)
(***************************************************************************)
ext2_fopen ==
  /\ Ready /\ ~f.open
  /\ \/ \E n \in dir :
          f' = [Closed EXCEPT !.open = TRUE, !.exist = TRUE, !.ino = n,
                              !.inode = inodeTable[n]]
     \/ f' = [Closed EXCEPT !.open = TRUE, !.ino = RootInode]
  /\ UNCHANGED <<vars, inodeTable, dir, fpc, op, fresh, abandoned>>

\* The four calls on an open file start alike: a file that does not exist yet
\* is created first.  body is where the call goes on.
Start(o, body) ==
  /\ Ready /\ f.open
  /\ \E g \in Group :
       op' = [o EXCEPT !.g = IF f.exist THEN GroupOf(f.ino) ELSE g]
  /\ fpc' = IF f.exist THEN body ELSE "create_inode"

Body(o) == CASE o.call = "fwrite" /\ o.size # "oversize" -> "write_first"
             [] o.call = "fwrite" /\ o.size = "oversize" -> "return_error"
             [] o.call = "fseek"  -> "seek"
             [] o.call = "fclose" -> "close"

\* The last block of the file, once it exists.
LastBlock == (IF f.exist THEN f.inode.count ELSE 1) - 1

ext2_fwrite(size) ==
  LET o == [NoOp EXCEPT !.call = "fwrite", !.size = size]
  IN /\ ~f.erred
     /\ Start(o, Body(o))
     /\ UNCHANGED <<vars, inodeTable, dir, f, fresh, abandoned>>

\* A seek to the very position returns at once; to = f.pos is another byte of
\* the same block.
ext2_fseek(to) ==
  LET o == [NoOp EXCEPT !.call = "fseek", !.to = to]
  IN /\ ~f.erred
     /\ to <= LastBlock + SeekAhead /\ to <= NDirBlocks
     /\ Start(o, Body(o))
     /\ UNCHANGED <<vars, inodeTable, dir, f, fresh, abandoned>>

ext2_fclose ==
  LET o == [NoOp EXCEPT !.call = "fclose"]
  IN /\ Start(o, Body(o))
     /\ UNCHANGED <<vars, inodeTable, dir, f, fresh, abandoned>>

\* How a call ends.  A file that cannot be created is still closed.
Return(file) == f' = file /\ fpc' = "idle" /\ op' = NoOp /\ fresh' = NoFresh

ReturnError ==
  IF op.call = "fclose" THEN fpc' = "close" /\ UNCHANGED <<f, op, fresh>>
                        ELSE Return(Fail(f))

-----------------------------------------------------------------------------
(***************************************************************************)
(* Allocations.  Allocate is the first of the three writes of a call to    *)
(* the allocator, UpdateBgdt and UpdateSb are the other two.  The steps    *)
(* of the file that need a number wait until the last one returned it.     *)
(***************************************************************************)
NeedsInode == fpc = "create_inode"
NeedsBlock == fpc \in {"create_block", "grow"}

\* The number given up when no block is left for a new inode.
GiveUp(k) == [abandoned EXCEPT ![k] = @ + 1]

Allocate(k, g) ==
  /\ IF k = "inode" THEN ext2_free_inode_alloc(g) ELSE ext2_free_block_alloc(g)
  /\ IF pc' = "idle"
     THEN /\ ReturnError
          /\ abandoned' = IF fpc = "create_block" THEN GiveUp("inode") ELSE abandoned
     ELSE UNCHANGED <<f, fpc, op, fresh, abandoned>>
  /\ UNCHANGED <<inodeTable, dir>>

\* ext2_file_create refuses the path before it allocates anything: it is too
\* long or too deep, or what the parent path reaches is not a directory.
CreateRefused ==
  /\ NeedsInode /\ pc = "idle"
  /\ ReturnError
  /\ UNCHANGED <<vars, inodeTable, dir, abandoned>>

AllocateInode == NeedsInode /\ Allocate("inode", op.g)
AllocateBlock == NeedsBlock /\ Allocate("block", IF fpc = "grow" THEN GroupOf(f.ino) ELSE op.g)

AllocateCounts == UpdateBgdt /\ UNCHANGED metaVars

AllocateReturns ==
  /\ UpdateSb
  /\ fresh' = [fresh EXCEPT ![call.k] = ret']
  /\ fpc' = CASE fpc = "create_inode" -> "create_block"
              [] fpc = "create_block" -> "create_write"
              [] fpc = "grow"         -> "attach"
  /\ UNCHANGED <<inodeTable, dir, f, op, abandoned>>

-----------------------------------------------------------------------------
(***************************************************************************)
(* The rest of ext2_file_create: write the inode, then the directory       *)
(* entry; only then the file exists.                                       *)
(***************************************************************************)
CreateWriteLost ==                               \* mutant: inode not saved
  /\ fpc = "create_write"
  /\ f' = [f EXCEPT !.ino = fresh.inode, !.inode = NewInode(fresh.block)]
  /\ fpc' = "create_link"
  /\ UNCHANGED <<vars, inodeTable, dir, op, fresh, abandoned>>

CreateWrite ==
  /\ fpc = "create_write"
  /\ f' = [f EXCEPT !.ino = fresh.inode, !.inode = NewInode(fresh.block)]
  /\ inodeTable' = [inodeTable EXCEPT ![fresh.inode] = NewInode(fresh.block)]
  /\ fpc' = "create_link"
  /\ UNCHANGED <<vars, dir, op, fresh, abandoned>>

ext2_add_dir_entry_unsaved(n) == UNCHANGED dir   \* mutant: returns 0, no write
ext2_add_dir_entry(n) == Cardinality(dir) < MaxSubdirs /\ dir' = dir \cup {n}

CreateLink ==
  /\ fpc = "create_link"
  /\ \/ /\ ext2_add_dir_entry(f.ino)
        /\ f' = [f EXCEPT !.exist = TRUE]
        /\ fpc' = Body(op)
        /\ UNCHANGED <<op, fresh, abandoned>>
     \/ /\ Cardinality(dir) >= MaxSubdirs
        /\ abandoned' = [k \in Kind |-> abandoned[k] + 1]
        /\ ReturnError
        /\ UNCHANGED dir
  /\ UNCHANGED <<vars, inodeTable>>

-----------------------------------------------------------------------------
(***************************************************************************)
(* The rest of ext2_fwrite.  The block under the position is written       *)
(* first; a write that crosses into the next block then takes that block   *)
(* from the inode or from the allocator; the inode is committed last.      *)
(***************************************************************************)
WriteFirstOffByOne ==                            \* mutant: pos + 1 blocks suffice
  /\ fpc = "write_first"
  /\ fpc' = CASE op.size = "fit" -> "commit"
              [] op.size = "cross" /\ f.inode.count < f.pos + 1 -> "grow"
              [] OTHER -> "write_second"
  /\ fresh' = [fresh EXCEPT !.block = f.inode.blk[f.pos + 1]]
  /\ UNCHANGED <<vars, inodeTable, dir, f, op, abandoned>>

WriteFirst ==
  /\ fpc = "write_first"
  /\ fpc' = CASE op.size = "fit" -> "commit"
              [] op.size = "cross" /\ f.inode.count < f.pos + 2 -> "grow"
              [] OTHER -> "write_second"
  /\ fresh' = [fresh EXCEPT !.block =
                 IF f.inode.count < f.pos + 2 THEN @ ELSE f.inode.blk[f.pos + 1]]
  /\ UNCHANGED <<vars, inodeTable, dir, f, op, abandoned>>

AttachUnchecked ==                               \* mutant: limit not checked
  /\ fpc = "attach"
  /\ f' = [f EXCEPT !.inode = Grown(@, fresh.block)]
  /\ fpc' = IF op.call = "fwrite" THEN "write_second" ELSE "commit"
  /\ UNCHANGED <<vars, inodeTable, dir, op, fresh, abandoned>>

AttachDeallocates ==                             \* mutant: bit cleared, not counted
  /\ fpc = "attach"
  /\ IF f.inode.count < NDirBlocks
     THEN /\ f' = [f EXCEPT !.inode = Grown(@, fresh.block)]
          /\ fpc' = IF op.call = "fwrite" THEN "write_second" ELSE "commit"
          /\ UNCHANGED <<op, fresh, bitmap>>
     ELSE ReturnError /\ bitmap' = [bitmap EXCEPT !["block"][call.g] = @ \ {call.i}]
  /\ UNCHANGED <<bgdtDisk, sbDisk, bgdt, sb, pc, call, ret, owned, faults, crashes,
                 inodeTable, dir, abandoned>>

\* Where to put this new block?  Behind the last one, if a pointer is left.
Attach ==
  /\ fpc = "attach"
  /\ IF f.inode.count < NDirBlocks
     THEN /\ f' = [f EXCEPT !.inode = Grown(@, fresh.block)]
          /\ fpc' = IF op.call = "fwrite" THEN "write_second" ELSE "commit"
          /\ UNCHANGED <<op, fresh, abandoned>>
     ELSE ReturnError /\ abandoned' = GiveUp("block")
  /\ UNCHANGED <<vars, inodeTable, dir>>

WriteSecond ==
  /\ fpc = "write_second"
  /\ fpc' = "commit"
  /\ UNCHANGED <<vars, inodeTable, dir, f, op, fresh, abandoned>>

CommitSkippedOnSeek ==                         \* mutant: fseek does not commit
  /\ fpc = "commit"
  /\ inodeTable' = IF op.call = "fseek" THEN inodeTable
                   ELSE [inodeTable EXCEPT ![f.ino] = f.inode]
  /\ Return(f)
  /\ UNCHANGED <<vars, dir, abandoned>>

Commit ==
  /\ fpc = "commit"
  /\ inodeTable' = [inodeTable EXCEPT ![f.ino] = f.inode]
  /\ Return(f)
  /\ UNCHANGED <<vars, dir, abandoned>>

\* The rest of ext2_fseek: move, then grow the file by at most one block.
Seek ==
  /\ fpc = "seek"
  /\ IF f.inode.count < op.to + 1
     THEN f' = [f EXCEPT !.pos = op.to] /\ fpc' = "grow" /\ UNCHANGED <<op, fresh>>
     ELSE Return([f EXCEPT !.pos = op.to])
  /\ UNCHANGED <<vars, inodeTable, dir, abandoned>>

\* The rest of ext2_fclose, and of a write that is too long for a buffer.
Close ==
  /\ fpc = "close"
  /\ Return(Closed)
  /\ UNCHANGED <<vars, inodeTable, dir, abandoned>>

Oversize ==
  /\ fpc = "return_error"
  /\ ReturnError
  /\ UNCHANGED <<vars, inodeTable, dir, abandoned>>

-----------------------------------------------------------------------------
MetaMount == Mount /\ UNCHANGED metaVars

\* A power loss also forgets the open file and the call in progress.
MetaCrash ==
  /\ Crash
  /\ Return(Closed)
  /\ UNCHANGED <<inodeTable, dir, abandoned>>

MetaNext ==
  \/ MetaMount
  \/ ext2_fopen
  \/ \E size \in {"fit", "cross", "oversize"} : ext2_fwrite(size)
  \/ \E to \in 0 .. NDirBlocks : ext2_fseek(to)
  \/ ext2_fclose
  \/ AllocateInode \/ AllocateBlock \/ AllocateCounts \/ AllocateReturns
  \/ CreateRefused \/ CreateWrite \/ CreateLink
  \/ WriteFirst \/ Attach \/ WriteSecond \/ Commit
  \/ Seek \/ Close \/ Oversize
  \/ MetaCrash

MetaSpec == MetaInit /\ [][MetaNext]_allVars

-----------------------------------------------------------------------------
(***************************************************************************)
(* Properties                                                              *)
(***************************************************************************)

\* Type invariant: every pointer ext2_fwrite and ext2_fseek fill in lies in
\* i_block and holds a block number, every number is one of the file system.
MetaTypeOK ==
  /\ inodeTable \in [InodeNum -> [count : 0 .. NDirBlocks,
                                  blk : [Pointer -> BlockNum \cup {Uninit}]]]
  /\ dir \subseteq InodeNum
  /\ f.ino \in InodeNum \cup {0}
  /\ f.inode.count \in 0 .. NDirBlocks
  /\ f.pos \in 0 .. NDirBlocks
  /\ fresh.inode \in InodeNum \cup {0}
  /\ fresh.block \in BlockNum \cup {Uninit}
  /\ abandoned \in [Kind -> Nat]

Marked(k, n) ==
  \E g \in Group : \E i \in bitmap[k][g] \cap ItemBits(k) : ItemNumber(k, g, i) = n

\* ext2_file_create writes the bitmaps, then the inode, then the entry: at
\* every moment, power losses included, a directory entry names an inode that
\* is marked in use and was written, and all of its blocks are marked.
LinkedInodesAreWhole ==
  \A n \in dir :
    /\ Marked("inode", n)
    /\ inodeTable[n].count > 0
    /\ \A b \in Blocks(inodeTable[n]) : Marked("block", b)

\* No two linked files share a block, and none has a block of mke2fs.
BlocksAreExclusive ==
  \A n \in dir :
    /\ \A m \in dir \ {n} : Blocks(inodeTable[n]) \cap Blocks(inodeTable[m]) = {}
    /\ \A b \in Blocks(inodeTable[n]) :
         \A g \in Group : \A i \in FreshBitmap["block"][g] \cap ItemBits("block") :
           b # ItemNumber("block", g, i)
    /\ Cardinality(Blocks(inodeTable[n])) = inodeTable[n].count

\* Between two calls the inode in the open file is the inode on disk: every
\* path of fwrite, fseek and fclose that changes one commits the other.
CachedInodeIsCommitted ==
  Ready /\ f.exist => f.ino \in dir /\ f.inode = inodeTable[f.ino]

\* What is in use on disk and belongs to no linked file is what mke2fs used,
\* one item per power loss, per number a failing call gave up, and the one
\* the call in progress holds.  Nothing else leaks.
Used(k) == OverGroups([g \in Group |-> Cardinality(bitmap[k][g] \ FreshBitmap[k][g])])
Linked(k) == IF k = "inode" THEN Cardinality(dir)
             ELSE Cardinality(UNION {Blocks(inodeTable[n]) : n \in dir})
Holds(k) == IF fpc # "idle" THEN 1 ELSE 0

LeaksAreAccountedFor ==
  \A k \in Kind : Used(k) <= Linked(k) + crashes + abandoned[k] + Holds(k)

\* The block a data write goes to belongs to the file that is written.
WriteTarget == IF fpc = "write_first" THEN f.inode.blk[f.pos] ELSE fresh.block

DataWritesStayInFile ==
  fpc \in {"write_first", "write_second"} => WriteTarget \in Blocks(f.inode)

\* The allocator, as the file calls it, still is the allocator of Ext2Alloc.
AllocatorIsImplemented == Spec
=============================================================================
