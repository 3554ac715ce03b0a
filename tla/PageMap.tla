------------------------------- MODULE PageMap -------------------------------
(***************************************************************************)
(* Page tables of ester: the tables boot.asm reserves and fills, palloc    *)
(* and pmap (kernel/mem.c), and the walk of the processor (external).      *)
(*                                                                         *)
(* Memory is the run of entries from p4_table to the end of p1_table_7; a  *)
(* pointer to a table is the number of an entry in it.  A page number is   *)
(* made of the four table indices.                                         *)
(***************************************************************************)
EXTENDS Integers

CONSTANTS
  Entries,    \* entries of a table, 512 in the code
  P2Tables,   \* tables reserved for the second level, 6 in boot.asm
  P1Tables    \* tables reserved for the first level, 8 in boot.asm

ASSUME PageMapAssumption ==
  Entries \in Nat \ {0} /\ P2Tables \in Nat \ {0} /\ P1Tables \in Nat \ {0}

VARIABLES
  mem,     \* the entries: [present, huge, addr]
  stray    \* pmap has written outside the tables

pageVars == <<mem, stray>>

\* Where each level starts, as boot.asm lays them out and pmap computes them.
P4 == 0
P3 == Entries
P2 == 2 * Entries
P1InsideP2 == P2 + Entries - 1                       \* mutant: inside the first p2 table
P1 == P2 + P2Tables * Entries
End == P1 + P1Tables * Entries

Index == 0 .. Entries - 1
Page == 0 .. Entries * Entries * Entries * Entries - 1
IndexAt(level, v) ==
  CASE level = 4 -> v \div (Entries * Entries * Entries)
    [] level = 3 -> (v \div (Entries * Entries)) % Entries
    [] level = 2 -> (v \div Entries) % Entries
    [] level = 1 -> v % Entries

Absent == [present |-> FALSE, huge |-> FALSE, addr |-> 0]
Link(a) == [present |-> TRUE, huge |-> FALSE, addr |-> a]
Huge(p) == [present |-> TRUE, huge |-> TRUE, addr |-> p]

\* boot.asm: one table of each upper level, the first gigabyte in huge pages.
BootTables ==
  [a \in 0 .. End - 1 |->
     CASE a = P4 -> Link(P3)
       [] a = P3 -> Link(P2)
       [] a \in P2 .. P2 + Entries - 1 -> Huge((a - P2) * Entries)
       [] OTHER -> Absent]

PageInit == mem = BootTables /\ stray = FALSE

-----------------------------------------------------------------------------
(***************************************************************************)
(* The processor: a pointer to a table loses its low bits.                 *)
(***************************************************************************)
Aligned(a) == a - (a % Entries)
NotMapped == -1

Translate(m, v) ==
  LET Follow(table, level) ==                        \* the entry, or Absent
        IF Aligned(table) + IndexAt(level, v) \in DOMAIN m
        THEN m[Aligned(table) + IndexAt(level, v)] ELSE Absent
      e4 == Follow(P4, 4)
      e3 == Follow(e4.addr, 3)
      e2 == Follow(e3.addr, 2)
      e1 == Follow(e2.addr, 1)
  IN  IF ~e4.present \/ ~e3.present \/ ~e2.present THEN NotMapped
      ELSE IF e2.huge THEN e2.addr + IndexAt(1, v)
      ELSE IF e1.present THEN e1.addr ELSE NotMapped

-----------------------------------------------------------------------------
(***************************************************************************)
(* palloc and pmap.                                                        *)
(***************************************************************************)
\* The first entry from base on that is not present; the rest of the image follows
\* the tables.
palloc(m, base) ==
  CHOOSE a \in base .. End :
    /\ a \in DOMAIN m => ~m[a].present
    /\ \A b \in base .. a - 1 : m[b].present

\* One level: the table an entry leads to, allocated from pool if there is none.
\* A huge page is taken for a table.
Table(m, at, pool) == IF m[at].present THEN Aligned(m[at].addr) ELSE palloc(m, pool)
Linked(m, at, pool) ==
  IF m[at].present THEN m ELSE [m EXCEPT ![at] = Link(palloc(m, pool))]

\* pmap for a page whose upper two levels stay inside the tables.
pmap(p, v) ==
  LET a4 == P4 + IndexAt(4, v)
      m4 == Linked(mem, a4, P3)
      a3 == Table(mem, a4, P3) + IndexAt(3, v)
      m3 == Linked(m4, a3, P2)
      a2 == Table(m4, a3, P2) + IndexAt(2, v)
      m2 == Linked(m3, a2, P1)
      a1 == Table(m3, a2, P1) + IndexAt(1, v)
      intoTables == ~(m3[a2].present /\ m3[a2].huge) /\ a1 \in DOMAIN mem
  IN  /\ mem' = IF intoTables THEN [m2 EXCEPT ![a1] = Link(p)] ELSE m2
      /\ stray' = (stray \/ ~intoTables)

=============================================================================
