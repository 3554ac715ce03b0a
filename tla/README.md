# A TLA+ verification project for ester

ester is a small x86_64 operating system kernel in C: a boot path, interrupt
tables, a text console, a PS/2 keyboard, PCI enumeration, a polled AHCI driver,
and an ext2 file system with one open file.  There are no tests; the reference is
the code and its comments.  This directory holds models of the parts where the
kernel keeps state or talks to a device, TLC runs on small instances, and TLAPS
proofs.

Line numbers refer to the sources; `PROJECT.json` maps each definition to the
lines it stands for.

## Inventory

| Part | State | Operations | Interacts with |
|---|---|---|---|
| allocator (`fs/ext2/superblock.c`, `group.c`) | bitmaps, descriptor table and superblock on disk; `__sb`, `__bgdt` in memory | mount, `ext2_free_inode_alloc`, `ext2_free_block_alloc` | called by the files; writes through the block device |
| files (`fs/ext2/file.c`, `inode.c`) | inode table, data blocks, directory entries; `__ext2_file` with its one-block buffer | `ext2_fopen`, `fread`, `fwrite`, `fseek`, `fclose`, `ext2_file_create` | allocator, directory, path lookup |
| directory block (`fs/ext2/directory.c`) | the chain of entries of a block | `ext2_add_dir_entry`, `ext2_list_directory` | files, path lookup |
| path lookup, cwd (`inode.c`, `directory.c`) | `__cwd`, arrays of names on the stack | `ext2_inode_find`, `ext2_change_cwd`, `unpack_dir_path` | directory |
| block device (`drivers/block`, `fs/ext2/device.c`) | the registered device | read and write of one 4096-byte block | AHCI driver |
| AHCI driver (`drivers/ahci`) | command list, registers shared with the adapter | `ahci_init`, `ahci_read`, `ahci_write` | adapter, PCI, paging |
| boot (`kernel/kernel.c`, `arch/x86_64`) | order of initialisation | `kernel_entry` | everything |
| interrupts (`set_idt.c`, `idt.asm`, `8259_pic.c`) | IDT, PIC masks and in-service bits | `idt_init`, `pic_init`, `exception_handler` | keyboard |
| keyboard (`ps2_keyboard.c`) | controller buffers | init with retries, interrupt handler | console, PIC |
| console (`vga.c`, `printk.c`) | `txt_addr`, screen memory | `vga_print`, `vga_print_char`, scroll | main flow and keyboard handler |
| PCI (`pci/pci.c`) | device vector | recursive scan, search for the controller | AHCI |
| paging (`kernel/mem.c`) | page tables | `palloc`, `pmap` | AHCI, ELF loader |
| ELF loader, VFS, multiboot parser, strings, debug | - | not called, or stateless | - |

What is hard here:

* *durability*: one file operation is up to a dozen block writes, and power may
  fail between any two of them;
* *ignored results*: almost every result of a block access is dropped;
* *copies*: the superblock, the descriptor table, the inode and one data block
  live in memory and on disk at the same time;
* *arithmetic*: offsets in a block, positions in a file, sizes relative to an entry
  and unsigned counters are mixed;
* *a concurrent device*: the driver polls registers which the adapter changes, with
  some waits bounded and some not;
* *interrupts*: the keyboard handler runs in the middle of anything the main flow
  does, from before the tables are set up;
* *strings*: names are copied without terminators into arrays on the stack that nobody
  initialises, so a lookup depends on whatever was there before;
* *what the firmware left*: the scan, the interrupt controllers and the page tables
  start from a state the kernel did not choose.

## Modules

    Ext2Alloc        allocator, write by write, with crashes and device errors
      Ext2Meta         files on top of it: one step per block written
      Ext2MetaProofs     theorems about both
    Ext2File         bytes, buffer, position, size: one step per call
      Ext2BlockFile    what a caller that moves whole blocks may rely on
      Ext2FileProofs   theorems, the refinement of Ext2BlockFile among them
    Ext2Dir          byte layout of a directory block
    Ext2Path         path lookup on C arrays: which inode a path names
      Ext2DirProofs    theorems about each of the two
    Ahci             driver and adapter as two processes
      AhciProofs       theorems about it
    PciScan          recursive scan of the buses
    PageMap          page tables, palloc and pmap, the processor's walk
      AhciSetup        both composed: the way from the scan to the mapped registers
      PciProofs        theorems about the scan and the composition
    Interrupts       boot order, descriptor table, 8259 pair, keyboard
      InterruptsProofs theorems about it
    Console          printk and the screen, main flow against keyboard handler
      ConsoleProofs    theorems about it
    NumberFacts      lemmas about quotients, least elements, finite sums and induction
    MC*              the modules TLC runs, one per specification

`Ext2Dir` and `Ext2Path` meet in `Ext2DirProofs` only, which extends both; the initial
states, actions and specification of `Ext2Dir` are called `DirInit`, `DirNext`, `DirSpec`.

`Ext2Meta` extends `Ext2Alloc` and uses its actions: a step of the file system
either is a step of the allocator or leaves the allocator's variables alone.  The
run `meta` checks this as a refinement (`AllocatorIsImplemented` is the allocator's
`Spec`).  `Ext2File` implements `Ext2BlockFile` under the mapping of its `INSTANCE`
(a file's blocks by its inode, the block under the position, the bytes the last
read returned).  `AhciSetup` extends `PciScan` and `PageMap` and takes their steps as
its own.

### Ext2Alloc

A call of the allocator makes three writes: the bitmap, the descriptor table, the
superblock (`superblock.c:105-116`).  `FreeAlloc` is the first, `UpdateBgdt` and
`UpdateSb` are the other two; `pc` and `call` are the position inside the call and
its local variables.  `bitmap`, `bgdtDisk`, `sbDisk` are the disk, `bgdt` and `sb`
the copies in memory; `Crash` forgets the copies, `Mount` reads them again.  The
image starts as mke2fs leaves it: any bitmap in which padding bits and the first
items are set.  A device error is counted in `faults`; as the results are dropped, a
failed write changes nothing and a failed read leaves an arbitrary buffer, which is
then scanned and written.  `owned` is a history variable: numbers mke2fs used or a
call returned.  Counters are unsigned and wrap (`Decremented`).  The mount itself is
taken to succeed: with a failed mount the kernel goes on with a zero superblock and
nothing can be said.

### Ext2Meta

The open file (`f`), the inode table and the set of linked inodes, with `fpc` and
`op` as the position and arguments of the call in progress.  `ext2_fwrite`,
`ext2_fseek` and `ext2_fclose` start alike and may first run `ext2_file_create`:
inode, block (each three writes), inode table, directory entry.  Then: the block
under the position, an allocation when the write crosses into a new block, the
second block, the commit of the inode.  An inode pointer nobody wrote is `Uninit`.
Contents, sizes and names are left out.  Path lookup compares strings that are not
terminated properly (module `Ext2Path`), so here `ext2_fopen` may reach any linked file or none, and the parent of a new file may be in any group
or not be a directory at all (`CreateRefused`).

`StopOnError` says that a caller closes the file after a failed call.  It is TRUE in
the runs: a failed `ext2_fseek` leaves the position behind the last block, and a
caller that goes on (as `kernel_entry` would) writes through an unset pointer.

### Ext2File, Ext2BlockFile

One step per call, on bytes.  `disk`, `itable`, `files` and `free` are the disk, `f`
is `__ext2_file`, `caller` remembers what the caller wrote at this position and read
last.  The four outcomes of `ext2_fwrite` (too long, inside the block, across its
end, no block left) and the three of `ext2_fseek` are actions of their own.  Access
through an unset pointer reaches any block (`Reach`).  `dirty` and `new_bytes_count`
are never set by the code, so the branches that test them are dead and left out.

### Ext2Dir

The entries of a block by the offset of their header.  The block starts as the image
holds it, `DiskImage`: any chain of entries, names of any length, that fills the block
(`ChainOf`).  `ext2_add_dir_entry` finds
the entry whose size reaches the end of the block, gives it the size
`offset + new_entry_size` (in 16 bits) and puts the new entry behind it, exactly as
`directory.c:151-158` does; the bytes stored spoil the names they overlap (`whole`).
`Path` is what the loops visit, the least set of offsets
that holds the start of the block and, with an entry, the one its size leads to;
`Place` is the loops' counter `j` at an entry.  A store behind the end of the buffer
sets `smashed`; nothing is said about what follows.

### Ahci

The driver (`dpc`) and the adapter share registers `hr`, `st`, `cr`, `ci`, `tfes`,
`bsy` and the command list `hdr`.  `read` fills header 0, `write` the header of the
slot it found; both issue the slot they found.  The busy loops count `spin`; the
completion loop does not.  It reads `ci` (`PollSlot`) and then `is` (`PollError`), and
`is` once more behind the loop (`CheckAgain`), with the adapter at work between any
two.  The adapter is external and follows the AHCI rules the
driver depends on: it executes an issued slot from its header, stops at a task file
error until the engine is restarted, and its status may lag behind completion.  An
error may also come while no command is executed (`UnsolicitedError`): between the
completion of a command and the last read, say.

### Ext2Path

`unpack_dir_path` cuts a path into rows; its last row is terminated one byte too far
(`directory.c:60`).  `ext2_list_directory` copies names without a terminator
(`directory.c:212`).  `ext2_inode_find` compares the two with `strcmp`, which reads on in
what the arrays held before, and `ext2_file_create` appends the components of a parent's
path to an array it never initialised (`file.c:53`).  All of these arrays are automatic
variables, and the stack is used by everything else in between.  Rows, entries and the
array for a parent's path are therefore sequences of bytes, and every call begins by
choosing what its arrays hold, from the constants `Frames` and `Buffers`: any sets of
contents.  What one call lists is
what its next component is compared with, in the same array (`ListInto`, `Follow`).
`Component` and `Walk` compare strings as C does; a string without an end ends with its
array, as what lies behind is not modelled.  `ext2_fopen`, `ext2_fwrite`, `ext2_fclose` and
`ext2_change_cwd` are the actions; of the files only names and inode numbers are kept,
and a directory is a sequence of entries.  A path that does not fit the rows (`Fits`), or a
parent's path that does not fit its array, sets `overrun`; nothing is said about what
follows.  The name of the working directory is written and never read, and is left out.

Three predicates name the bytes nobody writes on which a lookup depends: `RowEnded`, the
byte behind the last component; `NamesEnded`, those behind the names listed on the way,
with the condition that no longer name was listed at the same place before; and, for a
file that is created, the first byte of `parent_pathname`.  `ended` in the
histories `found`, `file` and `made` records whether they were terminators.

The loops are recursive functions that give the state after every character or
component (`Unpacking`, `Following`, `Joined`): the loop of `ext2_inode_find` stops at a
component that leads nowhere, the one of `ext2_change_cwd` goes on (`stops`).  The
reference is `Way`: the components resolved one after another, on the tree alone.  Two
slashes in a row enclose an empty component, which no directory has: names in the image
are assumed not to be empty, and a name in a path to be shorter than `EXT2_NAME_LEN`.

### PciScan, PageMap, AhciSetup

`PciScan`: `calls` is the stack of `pci_bus_scan` calls, each with the device and the
function it is at.  A step looks at one function: absent, a bridge (`GoDown` first),
or added to `vector` when there is room.  The configuration space is external and,
as `pci.c:107` says, numbered by the firmware.  The reference, `Reached`, is the
least set of buses that holds those the host functions lead to and, with a bus,
those behind its bridges.

`PageMap`: memory is the run of entries from `p4_table` to the end of `p1_table_7`.
`palloc` returns the first entry that is not present and `pmap` takes it for a table
after the processor drops its low bits.  `Translate` is the processor's walk.  A
store outside the tables, or through a huge page taken for a table, sets `stray`.

`AhciSetup`: scan, search (`pci_ahci_get_abar`, with `pci_ahci_init` on the first
controller), `pmap` of the register page.  Without a controller the function returns
no value (`NoController`), and anything is mapped.

### Interrupts

`phase` and `step` are the position of `kernel_entry` up to the end of `pic_init`; it starts
after `sti` (`kernel.c:19`).  The 8259 pair is external: edges wait in `irr`, an interrupt is
delivered when its line is not masked and nothing of higher priority is in service, a
non-specific end of interrupt clears the highest service; spurious interrupts are left
out.  The firmware leaves one of the sets in `Masks` masked.  `pic_init` saves the masks,
and its first words clear them and stop both controllers; each works again after its
fourth word (`icw4_master`, `icw4_slave`, `8259_pic.c:73-74`), with every line open, and
the saved masks come back with two more writes (`mask_master`, `mask_slave`).  The words
before the fourth are one step: neither controller delivers anything in between.
`Deliver` looks the vector up as the processor does: before `idt_init`, or without a
descriptor, the kernel is dead, and `fatal` is the line.  Gates are interrupt
gates, so handlers nest only after the `sti` of the keyboard handler (`stack` with
`leaving`).  `exception_handler` computes the line to acknowledge from the in-service
word exactly as `set_idt.c:29` does.  The keyboard controller is external: it takes a
command in its own time or never (`Accept`), and holds one scan code.  `send_cmd` with
its three waits, the drain and the handler are actions.

### Console

`cell` is `txt_addr`.  The main flow prints statement by statement; the keyboard
handler prints its character in one step, since it runs with interrupts off, between
any two statements.  `Expand`, `itoa` and `DebugText` are what `printk` and `DEBUG_*`
send.  The column is computed with the height, as in `vga.c:95`.  The reference is
`Typed`, one character on a teletype of that width: the history `rows` is what it has
typed so far, and `Picture` what a screen of that height shows of it.

## Runs

| Run | Result | Shows |
|---|---|---|
| `alloc` | pass | two groups, every image, one crash, one device error: no number is handed out twice; descriptors cover bitmaps, the superblock covers descriptors; the drift is at most one per crash; no counter wraps |
| `meta` | pass | two groups of four, one crash anywhere: linked inodes are whole, blocks exclusive, the cached inode committed, leaks accounted for, data writes stay in the file; the allocator's specification is implemented |
| `file` | pass | three blocks of two bytes, all positions, writes of one to three bytes: written bytes are durable and read back, the buffer agrees with its block from the position on, other files are untouched, sizes fit |
| `file_blocks` | pass | whole blocks only: refinement of `Ext2BlockFile` |
| `dir` | pass | 4096-byte block, an image with a long last name, names of 1, 5, 60 and 255 bytes until it is full: the chain closes, lists what was added, and no name is overwritten but the last one of the image by the first entry added |
| `path` | pass | names of one to two letters, arrays with terminators, with letters or with the path of another directory in them, chosen anew at every call: with terminators where they matter a lookup gives the longest part of the path that exists, a created file is found under its path and the working directory is the one the path names; without them a lookup still follows only entries whose names begin its components |
| `ahci` | pass | two slots, two blocks, two errors in commands or between them, spin limit two: success means the data moved, the adapter executes what was asked; initialisation and every request up to and including the first that fails return |
| `setup` | pass | every tree of three buses over eight places: the scan finds what can be reached and ends, and the page it leads to is mapped without hiding another |
| `irq` | pass | timer, keyboard, line 4, line 12 and line 15, with no line or lines 4 and 15 masked by the firmware: every handler closes its own service in the first controller, the boot gets past the keyboard, from `pic_init` on only line 15 can kill the kernel, and behind it not even that one if it was masked; pending keys are printed |
| `console` | pass | keys between two calls only: the screen shows the last rows of all that was printed, the cursor can always come back to it, and nothing is stored or copied from outside of it |

Two runs show a comment of the code that the code does not keep:

| Run | Violated | What happens |
|---|---|---|
| `console_race` | `NeverLost` | a key pressed while the main flow prints moves `txt_addr` past the only values that scroll; nothing printed afterwards is seen |
| `path_names` | `GetsLongestPart` | on a stack of zeros, the listing of a second directory leaves the tail of the first one's longer name behind, and a file that exists is not found |

Further disagreements met while modelling, without a run of their own:

* `ext2_fopen` clears the buffer and loads no block (`file.c:169`), so `ext2_fread`
  right after opening returns zeroes (`BufferIsBlock` and `Ext2BlockFile` therefore
  speak of a buffer that a seek or a write has filled);
* `i_lower_size` is set from the offset inside the block (`file.c:347-349`, `file.c:428`)
  and forgets the blocks in front: `SizeFitsBlocks` bounds it from above only;
* the block scan of the allocator uses the inode count as its bound
  (`superblock.c:141`): with more blocks than inodes per group it gives up early
  (`INVARIANT ZeroMeansFull`, `MCExt2Alloc`);
* one dropped device error and a number is handed out twice (`NeverHandsOutTwice`,
  `MCExt2Alloc` with `MaxFaults = 1`);
* a seek two blocks ahead attaches one block, and the next write goes through an unset
  pointer (`DataWritesStayInFile`, `MCExt2Meta` with one group of five, `SeekAhead = 2`);
* a write that crosses into an existing block zeroes the rest of it
  (`WritesOnlySizeBytes`, `MCExt2File`);
* directory entries are placed at growing offsets, twice the offset of the last one plus
  the new size, and leave the buffer after a few of them (`smashed`); when the last name
  of the image reaches further behind its header than that entry is offset plus the new
  size, the first entry added is stored over it (`directory.c:152-161`), which
  `NamesAreWhole` says exactly (`INVARIANT EveryNameSurvives`, `MCExt2Dir`);
* after one task file error the next request polls for ever
  (`PROPERTY EveryRequestReturns`, `MCAhci`);
* `exception_handler` subtracts one from the in-service word and cuts it to a byte, so
  the argument of `pic_send_eoi` is below 8 for every line of the second controller,
  which never gets its end of interrupt (`SlaveFollowsStack`, `MCInterrupts`);
* `ext2_add_dir_entry` accepts entry `MAX_SUBDIRS + 1`, which `ext2_list_directory` never
  returns (`directory.c:141` and `directory.c:205`); `ListsWhatWasAdded` says so;
* reads issue 0xC8, the 28-bit READ DMA (`ahci.c:28`), so a block number beyond 24
  address bits reads another block with success: `SuccessMeansTransferred` holds as
  long as `ReadSpan` covers `Lba`;
* paths: `/f/x` opens the file `/f`; the components of a parent's path are joined
  with nothing between them (`file.c:54-56`), so `/d/e/a` is created in `/de` or in the
  root; a missing parent means the last existing directory; `/d/` opened for writing
  creates an entry that the directory shadows; an empty path reads the byte before it;
* `parent_pathname` is never initialised and `strncat` appends to it (`file.c:53`), so the
  path of another directory left there stays in front of the parent's and the file is
  created there (`INVARIANT EveryFileIsFound`, `MCExt2Path`; `CreatedIsFound` keeps to the
  calls that find it empty);
* line 15: `idt_init` fills vectors 0 to 46, `pic_init` puts line 15 at 47, and nothing
  masks it, so an interrupt on it kills the kernel in its main loop; `NoFaultAfterBoot`
  says that it is the only one and that only the firmware's mask keeps it away
  (`PROPERTY EveryLineHasAHandler`, `MCInterrupts`);
* interrupts: an interrupt before `lidt`, or one of the second controller before
  `pic_init`, finds no handler; lines that the firmware had masked are open for a moment inside
  `pic_init`; a key pressed between
  the enabling of the keyboard and `pic_init` is taken by a stub that does not read the
  data port, and the keyboard stays silent; no stub saves registers; the scan code
  taken for `0` is that of another key;
* console: a line feed right after a full row, or at the start of a later row, is lost;
* setup: a machine without a controller gets an arbitrary page as registers
  (`pci.c:221`); bit 10 of the command register, which the comment calls "Enable
  interrupts", disables them; ports from 30 on lie behind the one page that is mapped;
  a second `pmap` in another region can make two tables overlap, and one inside the
  first gigabyte takes a huge page for a table; a root with several functions makes a
  bus that is also behind a bridge appear twice in the vector.

### Bounds

* Allocator: the scan, the two counters and the three writes treat groups alike, so
  two groups show interference between groups; three inodes and two blocks per group
  allow full, partly used and empty bitmaps and a scan that runs past the blocks of
  the group; after the crash the calls go on with a disk that already drifted; one
  device error falls on any access.  The counter maxima (15 and 31 for 16 and 32
  bits) are far above the item counts, so a wrap is visible as a rise.
* Metadata: two direct pointers stand for twelve, so that a file reaches its limit;
  two entries fill the directory; one crash falls between any two writes.
  `SeekAhead = 1` keeps callers to the next block, which is what the code supports.
* Contents: two-byte blocks make every position a boundary or next to one; three
  blocks and two files let the disk fill.  `Stale` marks what a block held before.
* Directory: the real block size; an image as mke2fs makes it, with `lost+found`, and one
  file with a name of 60 bytes behind it; the four lengths include both extremes of a name.
* AHCI: two slots suffice for a found slot other than 0; the spin limit only has to
  be reached.
* Paths: the root and one directory, two free inodes, at most five listed entries, so
  that a directory fills; five paths, existing and missing, with and without a
  trailing slash, up to four components.  In the deeper directory of `MixedImage` the
  longer names come later, so that lookups are reliable where the stack is; in
  `CoveredImage` a longer name precedes.  `ManyFrames` and `ManyBuffers` are arrays of
  terminators, of a letter, and with a path left in `parent_pathname`: the bytes that a
  lookup reads are either terminators, letters that make a name a longer one of the tree,
  or letters that match nothing.  `path_names` starts every array at zero and still fails.
* Setup: three buses of two devices of three functions: gaps between functions, two
  levels of bridges, bridges to each other's buses, two controllers, a vector of six
  that overflows; tables of two entries, register pages behind the first gigabyte and
  below the end of the first top-level entry, where a 32-bit address lies.
* Interrupts: the timer, the keyboard, one line below it and two of the second
  controller, the last one among them; no line masked or one of each controller; three
  waits as in the code; three handlers on the stack.
* Console: two rows of three; twelve characters fill it, scroll it and wrap.  As in
  the code the height is not above the width.

### Fairness

`Ahci`: `WF(Driver)`, the processor keeps executing the polling loop; `WF(Hba)`, the
adapter finishes what it has started, as AHCI requires.  No fairness is assumed for
requests, and an error is not fair either: one inside a command is one of the ways in
which the adapter may finish, one outside of a command need never come.

`AhciSetup`: `WF(Next)`; there is one flow, and nothing it waits for.

`Interrupts`: `WF` of the handlers and of delivery, because the processor executes and
takes requests; `SF` of the boot code, which makes progress between interrupts, of the
return from a handler that has enabled interrupts again, for the same reason, and of
the delivery of the keyboard, because handlers are far shorter than the time
between two ticks (`Raise` says the same of the timer).  Nothing is assumed of
devices: a key may never come, the keyboard controller may never take a command.

### Deadlock

Checked in every run but those of two modules: in `Console` the bound on characters ends
a behaviour, and in `Interrupts` a dead kernel does nothing more.  `Smashed`, `Overwrote`,
`DirectoryFull` and `Done` are explicit stuttering steps for a program that is undefined,
refuses, or has moved on.

## Proofs

TLAPS proves every safety property of the passing runs, for every value of the constants that the named assumptions of the modules allow.  What a
theorem assumes beyond these is written in it and explained here.  The inductive
invariants were checked by TLC before they were proved.

### Allocator (`Ext2MetaProofs`, first half)

`TypeCorrect`, `NoDoubleAllocationHolds`, `DescriptorsCoverBitmapsHolds`,
`SuperblockCoversDescriptorsHolds`, `DriftBoundedByCrashesHolds`,
`CountersOnlyFallHolds`; any geometry, any number of device errors and power losses.
All but the first speak, as the properties do, of behaviours in which no access has
failed so far.

The invariant is `TypeOK /\ AllocInv`: padding bits are set (`PaddingSet`), so a scan
that runs past the items of a group takes none; every owned number is marked
(`OwnedIsMarked`), so what is clear is free; the call in progress holds a marked
number nobody owns (`CallIsFresh`), which is what survives a crash between its
writes; a descriptor counts at least the free bits plus the one just marked
(`CountsCover`), so it is positive when decremented; memory and disk agree on
descriptors while mounted (`MemoryIsDisk`).  The arithmetic behind them is
`ItemNumberInjective`: group and bit are determined by the number.

The superblock needs sums over groups.  A sum is stated as the cardinality of a set
of units, one for each item a descriptor counts, so that lowering one counter takes
one element away (`OneUnitLess`) and no induction over groups is needed.  `TotalInv`
adds: memory and disk agree on the superblock, it covers the descriptors and one more
between the two writes, and it exceeds the bitmaps by at most one per crash and the
call in progress.  That the counters are positive follows, and with it that no
decrement wraps.

### Files on the allocator (`Ext2MetaProofs`, second half)

Under `DeviceWorks` (`MaxFaults = 0`: almost every result of an access is dropped, so
nothing is true of the files once one failed), for every caller and any number of
power losses: `AllocatorIsImplementedHolds` (`MetaSpec` implements the allocator's
`Spec`, so that the theorems above hold for the file system too), `MetaTypeCorrect`,
`CachedInodeIsCommittedHolds`, `LinkedInodesAreWholeHolds`, `BlocksAreExclusiveHolds`,
`LeaksAreAccountedForHolds`.  `DataWritesStayInFileHolds` needs `CarefulCaller`
(`SeekAhead = 1 /\ StopOnError`) as well: a seek two blocks ahead, or going on after an
error, does write through an unset pointer.

The invariant is `MetaInv`: ranges (`FileType`), the arguments a call has reached a
statement with (`Control`: in particular its group is one of the file system, or the
step would not be a step of the allocator), owned numbers are numbers of the file
system, and `Files`: a linked inode has its blocks, all of them owned, none twice
(`LinkedWhole`); what the call in progress holds belongs to no linked file (`Held`);
the inode in memory is the one on disk but for the block being attached (`Cached`).
`Held` is what makes the order of the writes right: a number becomes part of a file
only with the inode, and is nobody's until then.  `BlocksAreExclusive` speaks of the
bits of blocks only; the padding bits that mke2fs sets are no blocks.  Leaks are
bounded: `Balance` says that no more is in use than what linked files have, what
`fresh` holds (`HoldsNow`), what `abandoned` counts and one item for every crash.

### File contents (`Ext2FileProofs`)

For every caller, however far it seeks: `TypeCorrect` and `SizeFitsBlocksHolds`, from
`Shape` (files have blocks, not free, each in one file only; the open file is the one
in the inode table).  Under `NextBlockOnly` (`SeekAhead = 1`, what the code supports):
`ReadYourWritesHolds`, `WriteIsDurableHolds`, `BufferIsBlockHolds` and the action
property `OtherFilesUntouchedHolds`.  The three invariants are inductive only together
and with `PositionInFile` (`Contained`): a seek fills the buffer from the block under
the position, a write keeps buffer and block the same, and only a position inside the
file has a block.  `BlocksAreKeptHolds` is the refinement of `Ext2BlockFile`: under
`WholeBlocks` (positions, reads and writes are whole blocks) every call is a step of
the abstract file or a stutter; one lemma per call.

`Ext2File` assumes that files are numbered and that the image mke2fs leaves exists
(there is an injection of its files into the blocks); without the latter `Init` has no
state.

### Directory block (`Ext2DirProofs`)

`ChainCoversBlockHolds`, `ListsWhatWasAddedHolds`, `NamesAreWholeHolds`; any block size
of at most 32768 (with 64 KiB the 16 bits of `dir_entry_size` do not hold the sum of
`directory.c:152`), any image that is one chain of entries, any names, any `MAX_SUBDIRS`.  `DirInv`: while the buffer is intact
every offset but the last leads to
a later one and every offset but the first is led to by an earlier one (`EndsAt`,
`LedTo`), so that a walk misses none (`PathIsAll`: the least offset a walk could miss is
led to by one it does not miss), and the n-th new offset has the n-th entry added
(`InOrder`).

`NamesAreWhole` is an equivalence: the last name of the image is spoilt exactly when it
reaches further behind its header than the first new entry is placed (`Lost`), and no
other name ever is.  `NamesKept` is the invariant: before the first entry the last one is
that of the image, of which nothing bounds the name; afterwards the last one is one the
kernel added, and its name ends within its own offset, because it was placed at twice
the offset of its predecessor plus its own size.  So the next entry, twice that offset
away, starts behind it.

### Paths (`Ext2DirProofs`, second half)

`FindsLongestPartHolds`, `FollowsBeginningsHolds`, `CwdIsTheDirectoryHolds`,
`CreatedIsFoundHolds`, for every tree, names of any lengths, every set of paths, every
`NameLen`, `MaxDepth`, `MaxPathLen` and `MaxListed`, and any sets `Frames` and `Buffers` of
contents of the stack.  There is no further hypothesis: what a lookup needs of the bytes
nobody writes stands in the properties (`ended`), where `path_names` and `EveryFileIsFound` show
that it is needed, and `FollowsBeginnings` does without it.  That no component leads
from a directory to itself (`Moves`) is needed because the loop of `ext2_inode_find` stops
when the inode number does not change.

*Argument.*
1. `Unpacked`: after every character the rows hold the pieces of the path so far
   (`Holds`); hence `UnpackedPath`: the strings in the rows are the components, and the
   last one too if the byte behind it is a terminator, whatever else the rows hold.
2. `EntriesListed`: where a terminator stands behind a name, the string in the listing is
   the name; so one round of the loop is `Resolve` (`ComponentIs`).  `EndsKept`: a listing
   spoils the terminators of no later one, as `NamesEnded` bounds its names.
3. `StaysInStep`, `Walked`: after every component the loop is where `Way` is, or has
   stopped, or has gone on, after a missing one.
4. `Passed`, `LevelReached`: whatever the arrays hold, the string of an entry begins with
   its name and the string of a row with its component, so equal strings mean that the
   name begins the component; hence `FollowsBeginnings`.
5. For created files, `PathInv`: a file that is still to be created ended its lookup
   in a directory (`NotFound`), and those created are found.  `ParentFound`: with nothing
   in front of it the joined parent of a path of one or
   two components is looked up under its own path.  `ChildGrown`, `WayKept`: a new entry
   changes no way that led to its end.  `FileCreated` and `FoundKept` are the two
   halves: the new file is found, and the old ones still are.  The condition on the
   arrays is only needed at the call: what is in the tree stays true ever after.

Each loop is followed by induction over its counter.  The library's induction theorem
takes an operator, so `NumberFacts` has `Induction` for a set: what holds of the first
number and is handed on holds up to the last one, or else there is a least one
without it.

### AHCI (`AhciProofs`)

`AhciTypeCorrect` and `ExecutesTheRequestHolds` for any number of slots, any spin limit,
any number of errors inside and outside commands.  `Handshake`: only a started engine works
(`EngineState`); an error bit means that the adapter stopped (`ErrorsHalt`); while it
works, at most the command being polled is issued and its header is the request's
(`OneCommand`), which is why `read` may fill header 0 although it issues the slot it
found.  `SuccessMeansTransferredHolds` needs `SmallDisk` (24 address bits reach every
block: reads use the 28-bit command with 24 bits set) and `Served`: the slot leaves the
issue register with its data moved, and nothing moves data until the next request.

### Setup (`PciProofs`)

The calls climb: every bus number is above that of its caller (`Climbing`), since a bridge
leads to a higher bus, so there is at most one call per bus.

`FindsEveryFunctionHolds`, while the vector has room: only reached functions are listed
(`Sound`); the calls on the stack are a chain of bridges (`Chain`); what is behind the
place a call is at is listed already (`Complete`); nothing is listed twice when one host
bridge leads to the buses (`Once`).  At the end of the last call `Complete` says
everything.  `Reached` is closed under bridges by definition, so neither direction
needs an induction over the tree.

`ControllerIsReadyHolds`, under `RegistersBeyondBootMap`: the registers lie behind the
gigabyte that `boot.asm` maps with huge pages and below 512 gigabytes, and there are
spare tables of the second level.  A 32-bit register address in the upper three
gigabytes is the case on every PC; inside the first gigabyte the code does take a huge
page for a table.  The proof follows the first calls of `palloc` and `pmap` and shows
that the walk of every other page is what it was.

### Interrupts (`InterruptsProofs`)

`MasterFollowsStackHolds` for any lines and any depth of nesting: below the innermost
handler every handler is past its end of interrupt (`Nested`), so at most one service
is open and the non-specific end of interrupt closes the right one (`OneOpen`).
`NoFaultAfterBootHolds`, for any lines and masks: only line 15 has a vector without a
descriptor once the controllers have their new vectors, and behind `pic_init` the mask
registers are the saved ones (`BootOrder`).

### Console (`ConsoleProofs`)

Under `~KeysDuringPrints` (the run `console_race` shows what a key inside a print does),
for every width, height and text: `NeverLostHolds`, `StoresOnScreenHolds`,
`ScreenShowsTailHolds`.  `Placed` says where `txt_addr` is at each statement; it rests on
`ScrollsAtEnd`: the line (which counts the end of a row to that row) and the column
(which divides by the height) agree on exactly one address, the one behind the last
cell.  `Drawn` says how far the screen is from `Picture` at each statement, `CopiedUpTo`
and `ClearedUpTo` inside the scroll.  The step that types a character is one of three
lemmas: `LineFeedIs` (nothing visible changes), `CharFits` (one cell changes),
`CharScrolls` (every row moves up, the last one begins).  The history is kept row by
row as it grows, so that no fold over it has to be unfolded.

### Only model-checked

* Liveness (`RequestsReturn`, `BootCompletes`, `KeysAreServed`, `SetupCompletes`):
  fairness and `ENABLED` are out of the prover's reach.
* The two violations.
* That the models cover the interesting cases: every action and disjunct fires in the
  passing runs.

## Not modelled

* The ELF loader, the VFS stub and the multiboot parser: nothing calls them.
* Processor modes in the boot assembly; the registers that the interrupt stubs do not
  save, which only the compiled code shows.
* Port instructions, `strcpy`, `pic_disable`, `__vga_clear_screen`, `ahci_probe_port`:
  stateless or not called.
* Indirect blocks (the code refuses them), more than one open file (the code has
  one), directories of several blocks (the code lists them and never extends them).
* A failed mount: the kernel goes on with a zero superblock and divides by zero.
* Mappings other than the one page of the controller; colours on the screen.

## Plan

1. *Done*: allocator, file metadata with crashes, file contents and the block file,
   directory block, path lookup, AHCI driver, setup of the controller, interrupts and
   keyboard, console.
2. *Done*: proofs of every safety property, of the two refinements and of the action
   properties.
3. Open: the safety half of the liveness properties (what a polling driver or a waiting
   boot can be stuck in); what a lookup does once an array is overrun, which needs the
   layout of the stack.
