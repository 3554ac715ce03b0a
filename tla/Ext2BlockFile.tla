---------------------------- MODULE Ext2BlockFile ----------------------------
(***************************************************************************)
(* What an ext2 file promises to a caller that moves whole blocks: a file  *)
(* is a sequence of blocks that only grows, a cursor points at one of them,*)
(* a write replaces that block and no other, a read returns it.            *)
(***************************************************************************)
EXTENDS Integers, Sequences

VARIABLES
  store,   \* store[n], the sequence of blocks of file n
  cursor,  \* the file and the block the caller is at
  got      \* the block the last call returned, if it was a read

vars == <<store, cursor, got>>

\* Files may have grown, what they held is still there, except where changed.
KeptExcept(changed) ==
  \A n \in DOMAIN store :
    /\ Len(store[n]) <= Len(store'[n])
    /\ \A x \in DOMAIN store[n] :
         store'[n][x] = store[n][x] \/ [file |-> n, block |-> x] \in changed

Init == got = <<>>

\* Opening, closing and seeking move the cursor and may add blocks.
Move == got' = <<>> /\ KeptExcept({})

Write == got' = <<>> /\ cursor'.block = cursor.block /\ KeptExcept({cursor'})

Read ==
  /\ got' = store[cursor.file][cursor.block]
  /\ UNCHANGED <<store, cursor>>

Next == Move \/ Write \/ Read

Spec == Init /\ [][Next]_vars
=============================================================================
