---------------------------- MODULE MCInterrupts -----------------------------
(***************************************************************************)
(* Timer, keyboard, line 4 and two lines of the second controller, one of  *)
(* them the last, with two scan codes (the letter a and its release), for  *)
(* TLC.  The firmware has masked nothing, or a line of each controller.    *)
(***************************************************************************)
EXTENDS Interrupts

MCLegend == [c \in {30, 158} |-> CASE c = 30 -> "a" [] c = 158 -> NoChar]

MCMasks == {{}, {4, 15}}
=============================================================================
