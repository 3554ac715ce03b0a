------------------------------ MODULE Ext2Path -------------------------------
(***************************************************************************)
(* Paths in the ext2 file system of ester: unpack_dir_path,                *)
(* ext2_inode_find, ext2_change_cwd, and the part of ext2_fopen and        *)
(* ext2_file_create that decides which inode a path names and in which     *)
(* directory a new file goes (inode.c, directory.c, file.c).               *)
(*                                                                         *)
(* Names live in C arrays on the stack, which nobody clears.  The last     *)
(* component of a path is terminated one byte too far, the names of a      *)
(* listing are not terminated at all, and a parent's path is appended to   *)
(* whatever is there, so every call begins by choosing what its arrays     *)
(* hold.  Layout and blocks of a directory are modules Ext2Dir and         *)
(* Ext2Meta: here a directory is its sequence of entries, in one block     *)
(* that has room for them.                                                 *)
(***************************************************************************)
EXTENDS Integers, Sequences, FiniteSets, FiniteSetsExt

CONSTANTS
  Dirs,        \* inode numbers of the directories; 2 is the root
  Image,       \* Image[d]: the entries of directory d on the disk, [name, ino]
  Char,        \* the characters of names and paths
  Paths,       \* the paths callers use, as sequences of characters
  NewInodes,   \* inode numbers that are free
  NameLen,     \* EXT2_NAME_LEN, 255 in the code
  MaxDepth,    \* MAX_PATH_DEPTH, 10 in the code
  MaxPathLen,  \* MAX_PATH_LEN, 4096 in the code
  MaxListed,   \* MAX_SUBDIRS, 128 in the code
  Frames,      \* what unpacked_path and dir_entries of a lookup may hold at first
  Buffers      \* what unpacked_path and parent_pathname of ext2_file_create may hold

Root == 2
Slash == "/"
Nul == "nul"

\* The arrays; the indices of C begin at 0.
Bytes(last) == [0 .. last -> Char \cup {Nul}]
RowsType == [0 .. MaxDepth - 1 -> Bytes(NameLen + 1)]
EntriesType == [1 .. MaxListed -> [name : Bytes(NameLen), ino : Nat]]

\* What stands in front of, between and behind the slashes of a path.
AddChar(pieces, c) ==
  IF c = Slash THEN Append(pieces, <<>>)
  ELSE [pieces EXCEPT ![Len(pieces)] = Append(@, c)]

Pieces(path) ==
  LET p[n \in 0 .. Len(path)] == IF n = 0 THEN << <<>> >> ELSE AddChar(p[n - 1], path[n])
  IN  p

Split(path) == Pieces(path)[Len(path)]

\* A name in a path is shorter than EXT2_NAME_LEN, which leaves room for the byte behind it.
ASSUME PathAssumption ==
  /\ NameLen \in Nat \ {0} /\ MaxDepth \in Nat \ {0} /\ MaxPathLen \in Nat \ {0}
  /\ MaxListed \in Nat /\ Slash \in Char /\ Nul \notin Char
  /\ Dirs \subseteq Nat \ {0} /\ NewInodes \subseteq Nat \ {0} /\ NewInodes \cap Dirs = {}
  /\ Root \in Dirs /\ Image \in [Dirs -> Seq([name : Seq(Char), ino : Nat \ {0}])]
  /\ \A d \in Dirs : \A n \in 1 .. Len(Image[d]) : Len(Image[d][n].name) \in 1 .. NameLen
  /\ \A p \in Paths : /\ p \in Seq(Char) /\ p # <<>> /\ p[1] = Slash /\ Len(p) <= MaxPathLen
                      /\ \A i \in DOMAIN Split(p) : Len(Split(p)[i]) < NameLen
  /\ Frames \subseteq [rows : RowsType, entries : EntriesType]
  /\ Buffers \subseteq [rows : RowsType, parent : Bytes(MaxPathLen - 1)]

VARIABLES
  tree,     \* the directories
  free,     \* inode numbers that ext2_free_inode_alloc can still give
  cwd,      \* __cwd.cwd_inode_number; nothing reads its name
  file,     \* __ext2_file: [open, exist, path, ino]; history: ended, was its lookup reliable
  found,    \* history: the last lookup of ext2_fopen, [path, ino, ended]
  made,     \* history: the files created, [path, ino, ended]
  overrun   \* TRUE once a call stored behind the end of one of its arrays

pathVars == <<tree, free, cwd, file, found, made, overrun>>

-----------------------------------------------------------------------------
(***************************************************************************)
(* Arrays of characters.                                                   *)
(***************************************************************************)
\* The string an array holds; what lies behind an array is not looked at.
Str(a) ==
  LET ends == {b \in DOMAIN a : a[b] = Nul}
      len  == IF ends = {} THEN Cardinality(DOMAIN a) ELSE Min(ends)
  IN  [n \in 1 .. len |-> a[n - 1]]

\* memcpy of a string without its terminator
CopyTo(a, s) == [b \in DOMAIN a |-> IF b < Len(s) THEN s[b + 1] ELSE a[b]]

NoFile == [open |-> FALSE, exist |-> FALSE, path |-> <<>>, ino |-> 0, ended |-> FALSE]
NoFind == [path |-> <<>>, ino |-> 0, ended |-> FALSE]

PathInit ==
  /\ tree = Image /\ free = NewInodes
  /\ cwd = Root
  /\ file = NoFile /\ found = NoFind /\ made = {}
  /\ overrun = FALSE

-----------------------------------------------------------------------------
(***************************************************************************)
(* unpack_dir_path.  The first row keeps its slash.                        *)
(***************************************************************************)
\* Every store is inside its row: the rows that end with a slash, the first one with one
\* byte more, and the last one with its terminator one byte too far.
Fits(path) ==
  LET s == Split(path)
      last == Len(s)
  IN  /\ \A i \in 1 .. last - 1 :
           i <= MaxDepth /\ Len(s[i]) <= NameLen + (IF i = 1 THEN 0 ELSE 1)
      /\ s[last] = <<>> \/ (last <= MaxDepth /\ Len(s[last]) <= NameLen)

UnpackKeepSlash(u, c) ==                       \* mutant: every row keeps its slash
  IF c # Slash THEN [u EXCEPT !.rows[u.j][u.k] = c, !.k = @ + 1]
  ELSE [j |-> u.j + 1, k |-> 0,
        rows |-> [u.rows EXCEPT ![u.j][u.k] = c, ![u.j][u.k + 1] = Nul]]

UnpackChar(u, c) ==
  IF c # Slash THEN [u EXCEPT !.rows[u.j][u.k] = c, !.k = @ + 1]
  ELSE IF u.j = 0
  THEN [j |-> 1, k |-> 0, rows |-> [u.rows EXCEPT ![0][u.k] = c, ![0][u.k + 1] = Nul]]
  ELSE [j |-> u.j + 1, k |-> 0, rows |-> [u.rows EXCEPT ![u.j][u.k] = Nul]]

\* The rows, and the indices j and k, after every character.
Unpacking(rows, path) ==
  LET u[n \in 0 .. Len(path)] ==
        IF n = 0 THEN [j |-> 0, k |-> 0, rows |-> rows] ELSE UnpackChar(u[n - 1], path[n])
  IN  u

\* For an empty path the byte before it is read; whatever it is, no row but the first is
\* touched and no component found.
unpack_dir_path(rows, path) ==
  LET u == Unpacking(rows, path)[Len(path)]
  IN  IF path # <<>> /\ path[Len(path)] = Slash THEN [rows |-> u.rows, depth |-> u.j]
      ELSE [rows |-> [u.rows EXCEPT ![u.j][u.k + 1] = Nul], depth |-> u.j + 1]

\* ext2_list_directory: what is not a directory has no entries.  Names are copied
\* without a terminator.
Listed(t, ino) == IF ino \in Dirs THEN t[ino] ELSE <<>>
Count(t, ino) == IF Len(Listed(t, ino)) < MaxListed THEN Len(Listed(t, ino)) ELSE MaxListed
ListInto(entries, t, ino) ==
  [n \in DOMAIN entries |->
     IF n <= Count(t, ino)
     THEN [name |-> CopyTo(entries[n].name, Listed(t, ino)[n].name),
           ino |-> Listed(t, ino)[n].ino]
     ELSE entries[n]]

ComponentOfRoot(t, w, row) ==                  \* mutant: always lists the root
  LET e == ListInto(w.entries, t, Root)
      hits == {n \in 1 .. Count(t, Root) : Str(e[n].name) = Str(row)}
  IN  [entries |-> e, ino |-> IF hits = {} THEN w.ino ELSE e[Min(hits)].ino]

\* One component: list the directory, take the first entry with that name, else stay.
Component(t, w, row) ==
  LET e == ListInto(w.entries, t, w.ino)
      hits == {n \in 1 .. Count(t, w.ino) : Str(e[n].name) = Str(row)}
  IN  [entries |-> e, ino |-> IF hits = {} THEN w.ino ELSE e[Min(hits)].ino]

\* The loop of ext2_inode_find stops at a component that leads nowhere; the loop of
\* ext2_change_cwd goes on with the next one.
Follow(t, w, row, stops) ==
  IF w.stuck THEN w
  ELSE LET c == Component(t, w, row)
       IN  [entries |-> c.entries, ino |-> c.ino, stuck |-> stops /\ c.ino = w.ino]

\* Where the loop is after every component; for the path "/" there are none.
Following(t, entries, u, stops) ==
  LET w[i \in 0 .. u.depth - 1] ==
        IF i = 0 THEN [entries |-> entries, ino |-> Root, stuck |-> FALSE]
        ELSE Follow(t, w[i - 1], u.rows[i], stops)
  IN  w

Walk(t, f, path, stops) ==
  LET u == unpack_dir_path(f.rows, path)
  IN  Following(t, f.entries, u, stops)[u.depth - 1].ino

ext2_inode_find(f, path) == Walk(tree, f, path, TRUE)

-----------------------------------------------------------------------------
(***************************************************************************)
(* Reference: a path is the sequence of its components, resolved one after *)
(* the other.                                                              *)
(***************************************************************************)
Components(path) ==
  LET s == Split(path)
  IN  SubSeq(s, 2, IF s[Len(s)] = <<>> THEN Len(s) - 1 ELSE Len(s))

\* Of the entries a listing shows.
Child(t, ino, name) ==
  LET hits == {n \in 1 .. Count(t, ino) : Listed(t, ino)[n].name = name}
  IN  IF hits = {} THEN 0 ELSE Listed(t, ino)[Min(hits)].ino

\* The last inode on the way, and whether a name is missing.
Resolve(t, w, name) ==
  LET child == Child(t, w.ino, name)
  IN  IF w.lost \/ child = 0 THEN [ino |-> w.ino, lost |-> TRUE]
      ELSE [ino |-> child, lost |-> FALSE]

Resolving(t, names) ==
  LET w[i \in 0 .. Len(names)] ==
        IF i = 0 THEN [ino |-> Root, lost |-> FALSE] ELSE Resolve(t, w[i - 1], names[i])
  IN  w

\* The way along the first i names, and along all of them.
WayTo(names, i) == Resolving(tree, names)[i]
Way(names) == WayTo(names, Len(names))

Names(path, ino) == Way(Components(path)) = [ino |-> ino, lost |-> FALSE]
IsDirectory(way) == way.ino \in Dirs /\ ~way.lost

-----------------------------------------------------------------------------
(***************************************************************************)
(* The bytes that are not written, and decide.                             *)
(***************************************************************************)
\* Behind the last component of a path that does not end with a slash.
RowEnded(rows, path) ==
  LET s == Split(path)
      last == Len(s)
  IN  s[last] = <<>> \/ rows[last - 1][Len(s[last])] = Nul

\* Where the name of entry n ends in the directory that component i is looked up in, 0 when
\* there is no such entry.
NameEnd(t, names, i, n) ==
  LET dir == Resolving(t, names)[i - 1].ino
  IN  IF n <= Count(t, dir) THEN Len(Listed(t, dir)[n].name) ELSE 0

\* Behind every name on the way the array holds the terminator, and no name that was listed
\* in the same place before was longer.
NamesEnded(t, entries, names) ==
  \A i \in 1 .. Len(names) : \A n \in 1 .. Count(t, Resolving(t, names)[i - 1].ino) :
    /\ entries[n].name[NameEnd(t, names, i, n)] = Nul
    /\ \A h \in 1 .. i - 1 : NameEnd(t, names, h, n) <= NameEnd(t, names, i, n)

\* No component leads from a directory to itself, as "." does.
Moves(t, names) ==
  LET way == Resolving(t, names)
  IN  \A i \in 1 .. Len(names) : way[i].lost \/ way[i].ino # way[i - 1].ino

Ended(f, path) == RowEnded(f.rows, path) /\ NamesEnded(tree, f.entries, Components(path))

-----------------------------------------------------------------------------
(***************************************************************************)
(* Operations.                                                             *)
(***************************************************************************)
IsFile(ino) == ino \notin Dirs

\* A path with a component too many or too long is unpacked all the same.
Overrun == overrun' = TRUE /\ UNCHANGED <<tree, free, cwd, file, found, made>>

ext2_fopen(path, mode, f) ==
  LET ino == ext2_inode_find(f, path)
      ended == Ended(f, path) /\ Moves(tree, Components(path))
  IN  /\ ~overrun /\ ~file.open
      /\ IF ~Fits(path) THEN Overrun
         ELSE /\ found' = [path |-> path, ino |-> ino, ended |-> ended]
              /\ file' = IF IsFile(ino) \/ mode = "w"
                         THEN [open |-> TRUE, exist |-> IsFile(ino), path |-> path,
                               ino |-> ino, ended |-> ended]
                         ELSE file
              /\ UNCHANGED <<tree, free, cwd, made, overrun>>

\* The parent's path is what was in the array, then the components but the last,
\* with nothing between them.
Joined(buf, rows, count) ==
  LET p[i \in 0 .. count] == IF i = 0 THEN Str(buf) ELSE p[i - 1] \o Str(rows[i - 1])
  IN  p

ParentWithLast(buf, u) ==                      \* mutant: all components
  Joined(buf, u.rows, u.depth)[u.depth]

ParentPathname(buf, u) == Joined(buf, u.rows, u.depth - 1)[u.depth - 1]

\* ext2_add_dir_entry refuses when MAX_SUBDIRS entries come before the last one.
HasRoom(dir) == Len(tree[dir]) <= MaxListed

\* ext2_file_create on the open file.  It gives up when the parent is not a directory
\* or no inode is left, and, with the inode already taken, when the directory is full.
ext2_file_create(closing, f, b) ==
  LET u == unpack_dir_path(b.rows, file.path)
      parent == ParentPathname(b.parent, u)
      dir == ext2_inode_find(f, parent)
      takes == dir \in Dirs /\ free # {}
      ino == IF takes THEN Min(free) ELSE file.ino
      ok == takes /\ HasRoom(dir)
      ended == /\ file.ended /\ b.parent[0] = Nul /\ RowEnded(b.rows, file.path)
               /\ Ended(f, parent) /\ Moves(tree, Components(parent))
  IN  /\ ~overrun
      /\ IF Len(parent) >= MaxPathLen \/ ~Fits(parent) THEN Overrun
         ELSE /\ free' = free \ {ino}
              /\ tree' = IF ok
                         THEN [tree EXCEPT ![dir] =
                                 Append(@, [name |-> Str(u.rows[u.depth - 1]), ino |-> ino])]
                         ELSE tree
              /\ made' = IF ok
                         THEN made \cup {[path |-> file.path, ino |-> ino, ended |-> ended]}
                         ELSE made
              /\ file' = IF closing THEN NoFile ELSE [file EXCEPT !.exist = ok, !.ino = ino]
              /\ found' = NoFind
              /\ UNCHANGED <<cwd, overrun>>

\* ext2_fwrite and ext2_fseek create the file if it does not exist.
ext2_fwrite(f, b) == file.open /\ ~file.exist /\ ext2_file_create(FALSE, f, b)

\* So does ext2_fclose, which closes the file in any case.
ext2_fclose(f, b) ==
  /\ file.open /\ ~overrun
  /\ \/ ~file.exist /\ ext2_file_create(TRUE, f, b)
     \/ file.exist /\ file' = NoFile /\ UNCHANGED <<tree, free, cwd, found, made, overrun>>

ext2_init_cwd ==
  /\ ~overrun /\ cwd' = Root /\ UNCHANGED <<tree, free, file, found, made, overrun>>

ext2_change_cwd(path, f) ==
  /\ ~overrun
  /\ IF ~Fits(path) THEN Overrun
     ELSE UNCHANGED <<tree, free, file, found, made, overrun>> /\ cwd' = Walk(tree, f, path, FALSE)

\* Something on the stack has been overwritten: nothing more is said.
Overwrote == overrun /\ UNCHANGED pathVars

PathNext ==
  \/ \E f \in Frames : \E p \in Paths : \E mode \in {"r", "w"} : ext2_fopen(p, mode, f)
  \/ \E f \in Frames : \E p \in Paths : ext2_change_cwd(p, f)
  \/ \E f \in Frames : \E b \in Buffers : ext2_fwrite(f, b) \/ ext2_fclose(f, b)
  \/ ext2_init_cwd
  \/ Overwrote

PathSpec == PathInit /\ [][PathNext]_pathVars

-----------------------------------------------------------------------------
(***************************************************************************)
(* Properties                                                              *)
(***************************************************************************)
\* ext2_fopen asks ext2_inode_find for the inode of the path.  It gets that of the
\* longest part of the path that exists: the file if there is one, else the last
\* inode on the way, which ext2_fopen tells from a file by its type.
GetsLongestPart == found # NoFind => found.ino = Way(Components(found.path)).ino

\* So it is when the bytes that are not written hold terminators, whatever the rest of
\* the arrays holds and however long the names are.
FindsLongestPart == found.ended => GetsLongestPart

\* A name that begins component i; the last component has a byte of the stack behind it.
Begins(name, names, i) ==
  /\ Len(name) <= Len(names[i]) + (IF i = Len(names) THEN 1 ELSE 0)
  /\ \A b \in 1 .. Len(name) : b <= Len(names[i]) => name[b] = names[i][b]

\* The inodes that entries with such names lead to, from one component to the next.
NextLevel(dirs, names, i) ==
  UNION {{Listed(tree, dir)[n].ino :
            n \in {m \in 1 .. Count(tree, dir) : Begins(Listed(tree, dir)[m].name, names, i)}} :
         dir \in dirs}

Level(names) ==
  LET l[i \in 0 .. Len(names)] == IF i = 0 THEN {Root} ELSE NextLevel(l[i - 1], names, i)
  IN  l

\* Whatever the arrays hold, a lookup is only ever taken for another one in one way: an
\* entry is passed whose name is the beginning of the component, or one byte longer.
FollowsBeginnings ==
  found # NoFind =>
    LET names == Components(found.path)
    IN  \E i \in 0 .. Len(names) : found.ino \in Level(names)[i]

\* ext2_file_create: "the parent directory of the file must exist".  When it does, is
\* at most one level below the root (the components of its path are joined with
\* nothing between them) and shows all of its entries, and the path names no
\* directory, then the new file is found under its own path ever after.
IsFound(m) ==
  LET names == Components(m.path)
      parent == WayTo(names, Len(names) - 1)
  IN  \/ Names(m.path, m.ino)
      \/ IsDirectory(Way(names))
      \/ Len(names) > 2 \/ ~IsDirectory(parent)
      \/ ~HasRoom(parent.ino)

EveryFileIsFound == \A m \in made : IsFound(m)

\* So it is for files that were opened and created with terminators where none are
\* written, and with nothing in front of the parent's path.
CreatedIsFound == \A m \in made : m.ended => IsFound(m)

\* ext2_change_cwd: if the path exists and the terminators are there, the new working
\* directory has the inode the path names (missing components are skipped).
CwdIsTheDirectory ==
  [][\A f \in Frames : \A p \in Paths :
       ext2_change_cwd(p, f) /\ Fits(p) /\ Ended(f, p) /\ ~Way(Components(p)).lost
         => Names(p, cwd')]_pathVars
=============================================================================
