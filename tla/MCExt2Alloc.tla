---------------------------- MODULE MCExt2Alloc ----------------------------
(***************************************************************************)
(* Instances of Ext2Alloc for TLC; the .cfg files give the geometry.       *)
(***************************************************************************)
EXTENDS Ext2Alloc
=============================================================================
