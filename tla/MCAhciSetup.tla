----------------------------- MODULE MCAhciSetup -----------------------------
(***************************************************************************)
(* Three buses of two devices with three functions, for TLC: every choice  *)
(* of functions out of eight places, of bridges to buses 1 and 2, of       *)
(* several-function headers, and of the place of a controller.             *)
(***************************************************************************)
EXTENDS AhciSetup

Root == <<0, 0, 0>>
Places == { <<0, 0, 1>>, <<0, 1, 0>>, <<0, 1, 2>>, <<1, 0, 0>>, <<1, 0, 1>>, <<1, 1, 0>>,
            <<2, 0, 0>> }
Headers == { <<0, 0>>, <<0, 1>>, <<1, 0>> }

\* Which bridge leads to which bus.
Bridges == { f \in UNION {[S -> {1, 2}] : S \in SUBSET {<<0, 1, 0>>, <<0, 1, 2>>, <<1, 0, 1>>}} :
               /\ IsInjective(f)
               /\ \A x \in DOMAIN f : f[x] > x[1] }

Empty == [present |-> {}, multi |-> {<<0, 0>>}, secondary |-> <<>>, ahci |-> {}]

MCTopologies ==
  {Empty} \cup
  { [present |-> {Root} \cup p, multi |-> h, secondary |-> f, ahci |-> c] :
      p \in SUBSET Places, h \in SUBSET Headers, f \in Bridges,
      c \in { {}, {<<1, 1, 0>>}, {<<2, 0, 0>>, <<0, 1, 2>>} } }

MCValid == {t \in MCTopologies : IsTopology(t)}
=============================================================================
