------------------------------ MODULE MCExt2Dir ------------------------------
(***************************************************************************)
(* The root directory of an image with 4096-byte blocks, for TLC: ".",     *)
(* "..", lost+found and one file with a long name.                         *)
(***************************************************************************)
EXTENDS Ext2Dir

ImageEntry(ino, size, len) == [ino |-> ino, size |-> size, len |-> len]
MCImage == [o \in {0, 12, 24, 44} |->
              CASE o = 0  -> ImageEntry(2, 12, 1)
                [] o = 12 -> ImageEntry(2, 12, 2)
                [] o = 24 -> ImageEntry(11, 20, 10)
                [] o = 44 -> ImageEntry(12, BlockSize - 44, 60)]
=============================================================================
