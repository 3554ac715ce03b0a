------------------------------- MODULE Ext2Dir -------------------------------
(***************************************************************************)
(* The layout of one directory block: ext2_add_dir_entry splits the last   *)
(* entry of the chain, ext2_list_directory walks the chain                 *)
(* (fs/ext2/directory.c).  Offsets and sizes are bytes.                    *)
(***************************************************************************)
EXTENDS Integers, Sequences, FiniteSets

CONSTANTS
  BlockSize,    \* ext2_get_block_size()
  MaxSubdirs,   \* MAX_SUBDIRS
  NameLengths,  \* lengths of the names a caller adds
  DiskImage     \* the block on the image: DiskImage[o] is the entry at offset o

Header == 8     \* sizeof(ext2_dir_entry_t)

\* The block holds one chain of entries, as mke2fs and Linux leave it: "." and ".." come
\* first, every name lies within its entry, no entry of the first block is unused and the
\* last one ends where the block ends.
ChainOf(image) ==
  /\ 0 \in DOMAIN image /\ DOMAIN image \subseteq 0 .. BlockSize - 1
  /\ \A o \in DOMAIN image :
       /\ image[o].ino \in Nat \ {0}
       /\ image[o].len \in 1 .. 255
       /\ image[o].size \in Nat /\ Header + image[o].len <= image[o].size
       /\ \/ o + image[o].size \in DOMAIN image
          \/ o + image[o].size = BlockSize /\ o >= 12 /\ \A p \in DOMAIN image : p <= o
       /\ o # 0 => \E p \in DOMAIN image : p < o /\ p + image[p].size = o
  /\ \E o \in DOMAIN image : o + image[o].size = BlockSize

\* A block of 64 KiB would not leave dir_entry_size room for the sum that is stored in it.
ASSUME DirAssumption ==
  /\ BlockSize \in Nat /\ BlockSize <= 32768
  /\ MaxSubdirs \in Nat
  /\ \A len \in NameLengths : len \in Nat /\ 0 < len /\ len < 256   \* dir_name_len has 8 bits
  /\ ChainOf(DiskImage)

VARIABLES
  entry,    \* the block: entry[o] is the entry whose header is at offset o
  added,    \* history: inode numbers and name lengths added, in order
  smashed   \* TRUE once an entry was stored past the end of the buffer

dirVars == <<entry, added, smashed>>

Aligned(n) == ((n + 3) \div 4) * 4
Entry(ino, size, len) == [ino |-> ino, size |-> size, len |-> len, whole |-> TRUE]

-----------------------------------------------------------------------------
\* The entries of the image, and the one of them that ends the block.
Old == DOMAIN DiskImage
LastOffset == CHOOSE o \in Old : o + DiskImage[o].size = BlockSize

DirInit ==
  /\ entry = [o \in Old |-> Entry(DiskImage[o].ino, DiskImage[o].size, DiskImage[o].len)]
  /\ added = <<>>
  /\ smashed = FALSE

\* The offsets that the while loops visit: the start of the block, and with an entry
\* the one behind it.
Visits(S) ==
  /\ 0 \in S
  /\ \A o \in S : o + entry[o].size \in DOMAIN entry => o + entry[o].size \in S
Path == LET closed == {S \in SUBSET DOMAIN entry : Visits(S)}
        IN  {o \in DOMAIN entry : \A S \in closed : o \in S}

\* j when a loop over the path is at an entry.
Place(o, path) == Cardinality({p \in path : p < o})

\* The entry whose size reaches the end of the block.
IsLast(o) == o + entry[o].size >= BlockSize
LastEntry == CHOOSE o \in Path : IsLast(o)
IsFull == Place(LastEntry, Path) >= MaxSubdirs

\* Listing the directory: the entries of the chain, at most MAX_SUBDIRS.
ext2_list_directory == LET path == Path IN {o \in path : Place(o, path) < MaxSubdirs}

\* Bytes stored at n .. n + size - 1 spoil the name of an entry they overlap.
Overwritten(e, n, size) ==
  [o \in DOMAIN e |->
     IF o # n /\ o < n + size /\ n < o + Header + e[o].len
     THEN [e[o] EXCEPT !.whole = FALSE] ELSE e[o]]

\* The new size of the entry that was last, where the new entry goes, and the
\* size the new entry gets.
SplitAtNewSize(last, size) == size % 65536             \* mutant: last forgotten
SplitSize(last, size) == (last + size) % 65536

NewOffsetShort(last, size) == last + size              \* mutant: not at the split
NewOffset(last, size) == last + SplitSize(last, size)

RestOfLast(last, size) == entry[last].size             \* mutant: nothing deducted
Rest(last, size) == (entry[last].size - SplitSize(last, size)) % 65536

ext2_add_dir_entry(ino, len) ==
  LET last  == LastEntry
      size  == Aligned(Header + len)
      new   == NewOffset(last, size)
      split == [entry EXCEPT ![last].size = SplitSize(last, size)]
  IN /\ ~smashed
     /\ ~IsFull
     /\ IF new + Header + len <= BlockSize
        THEN /\ entry' = [o \in DOMAIN entry \cup {new} |->
                            IF o = new THEN Entry(ino, Rest(last, size), len)
                            ELSE Overwritten(split, new, Header + len)[o]]
             /\ UNCHANGED smashed
        ELSE entry' = split /\ smashed' = TRUE
     /\ added' = Append(added, [ino |-> ino, len |-> len])

\* MAX_SUBDIRS entries or more in front of the last one: the call returns 1.
DirectoryFull == ~smashed /\ IsFull /\ UNCHANGED dirVars

\* The buffer on the stack has been overrun: nothing more is said.
Smashed == smashed /\ UNCHANGED dirVars

DirNext ==
  \/ \E len \in NameLengths : ext2_add_dir_entry(100 + Len(added), len)
  \/ DirectoryFull
  \/ Smashed

DirSpec == DirInit /\ [][DirNext]_dirVars

-----------------------------------------------------------------------------
(***************************************************************************)
(* Properties                                                              *)
(***************************************************************************)

\* The new entries among those ext2_list_directory returns.
ListedNew == ext2_list_directory \ Old

\* However many entries are added, the chain is never broken: every entry lies
\* in the block and the last one ends where the block ends.
ChainCoversBlock ==
  ~smashed =>
    /\ \A o \in Path : o + entry[o].size <= BlockSize
    /\ \E o \in Path : o + entry[o].size = BlockSize

\* While the buffer is not overrun, listing the directory finds the entries
\* added, each one once and in the order they were added, and misses none
\* before the listing is cut at MAX_SUBDIRS.
ListsWhatWasAdded ==
  ~smashed =>
    LET new == ListedNew
        Nth(o) == Place(o, new) + 1
    IN  /\ Cardinality(Path) <= MaxSubdirs => Cardinality(new) = Len(added)
        /\ \A o \in new : /\ Nth(o) \in DOMAIN added
                          /\ entry[o].ino = added[Nth(o)].ino
                          /\ entry[o].len = added[Nth(o)].len

\* "Shrink the last current_entry to fit the new one": the last entry keeps its name
\* when it shrinks.  Not so in general: see Lost.
EveryNameSurvives == \A o \in DOMAIN entry : entry[o].whole

\* What is stored over a name: the last name of the image, by the first entry added,
\* when it reaches further behind its header than that entry is offset.
Lost(o) ==
  /\ o = LastOffset /\ added # <<>>
  /\ LastOffset + Aligned(Header + added[1].len) < Header + DiskImage[LastOffset].len

\* No other name is ever overwritten: neither another one of the image, nor a name that
\* was added, however many entries follow it.
NamesAreWhole == ~smashed => \A o \in DOMAIN entry : entry[o].whole <=> ~Lost(o)
=============================================================================
