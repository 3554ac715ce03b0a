----------------------------- MODULE MCExt2Meta ------------------------------
(***************************************************************************)
(* The metadata of ext2 files on a small image, for TLC.                   *)
(***************************************************************************)
EXTENDS Ext2Meta
=============================================================================
