------------------------------ MODULE MCConsole ------------------------------
(***************************************************************************)
(* A console of two rows, for TLC.                                         *)
(***************************************************************************)
EXTENDS Console

MCFormats == { [fmt |-> <<"a">>, args |-> <<>>],
               [fmt |-> <<NL>>, args |-> <<>>],
               [fmt |-> <<"%", "d", "%">>, args |-> <<10>>],
               [fmt |-> <<"%", "c", NL, "%", "s">>, args |-> <<"a", <<"b", NL>> >>] }

MCMessages == { [tag |-> "W", msg |-> <<"m">>], [tag |-> "I", msg |-> <<"m", "m">>] }

MCKeys   == {"a", NL}
RaceKeys == {"k", NL}
=============================================================================
