------------------------------- MODULE MCAhci --------------------------------
(***************************************************************************)
(* The AHCI driver with two command slots, for TLC.                        *)
(***************************************************************************)
EXTENDS Ahci
=============================================================================
