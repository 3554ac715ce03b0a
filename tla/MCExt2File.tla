----------------------------- MODULE MCExt2File ------------------------------
(***************************************************************************)
(* Contents of ext2 files on a small image, for TLC.                       *)
(***************************************************************************)
EXTENDS Ext2File
=============================================================================
