----------------------------- MODULE NumberFacts -----------------------------
(***************************************************************************)
(* Facts about numbers and the operators on them that the proofs of        *)
(* several components use.                                                 *)
(***************************************************************************)
EXTENDS Integers, FiniteSetsExt, FiniteSetTheorems, TLAPS

\* A non-empty set of naturals has a least element, and Min returns it.
LEMMA MinOfNaturals ==
  ASSUME NEW S, S \subseteq Nat, S # {}
  PROVE  Min(S) \in S /\ \A y \in S : Min(S) <= y
<1>1. PICK x \in S : \A y \in S : ~(<<y, x>> \in OpToRel(<, Nat))
  BY WFMin, NatLessThanWellFounded
<1>2. \A y \in S : x <= y
  <2> TAKE y \in S
  <2>1. <<y, x>> \in Nat \X Nat
    OBVIOUS
  <2>2. ~(y < x)
    BY <1>1, <2>1 DEF OpToRel
  <2> QED
    BY <2>1, <2>2
<1> QED
  BY <1>2 DEF Min

-----------------------------------------------------------------------------
(***************************************************************************)
(* Multiplication and division by a variable.                              *)
(***************************************************************************)

\* Naturals are closed under multiplication.
LEMMA Times ==
  ASSUME NEW b \in Nat, NEW q \in Nat
  PROVE  b * q \in Nat
  OBVIOUS

\* A larger factor adds at least one more of the other factor.
LEMMA OneMore ==
  ASSUME NEW b \in Nat, NEW q \in Nat, NEW p \in Nat, q < p
  PROVE  b * q + b <= b * p
<1>1. PICK d \in Nat : p = q + 1 + d
  <2>1. p = q + 1 + (p - q - 1) /\ p - q - 1 \in Nat
    OBVIOUS
  <2> QED
    BY <2>1
<1>2. b * p = b * q + b + b * d
  BY <1>1
<1>3. b * d \in Nat /\ b * q \in Nat
  BY Times
<1> QED
  BY <1>1, <1>2, <1>3

\* What division and remainder are.
LEMMA DivMod ==
  ASSUME NEW a \in Nat, NEW b \in Nat \ {0}
  PROVE  a \div b \in Nat /\ a % b \in 0 .. b - 1 /\ a = b * (a \div b) + (a % b)
  OBVIOUS

\* A product grows with its factor.
LEMMA TimesMonotone ==
  ASSUME NEW b \in Nat, NEW q \in Nat, NEW p \in Nat, q <= p
  PROVE  q * b <= p * b /\ q * b \in Nat /\ p * b \in Nat
<1>1. b * q \in Nat /\ b * p \in Nat /\ q * b = b * q /\ p * b = b * p
  BY Times
<1>2. CASE q < p
  <2> DEFINE x == b * q
             y == b * p
  <2>1. x + b <= y
    BY <1>2, OneMore
  <2> HIDE DEF x, y
  <2>2. x \in Nat /\ y \in Nat /\ q * b = x /\ p * b = y
    BY <1>1 DEF x, y
  <2> QED
    BY <2>1, <2>2
<1>3. CASE q = p
  BY <1>1, <1>3
<1> QED
  BY <1>2, <1>3

\* There is one way to write a number as a multiple and a remainder.
LEMMA DivUnique ==
  ASSUME NEW b \in Nat \ {0}, NEW q \in Nat, NEW p \in Nat,
         NEW r \in 0 .. b - 1, NEW s \in 0 .. b - 1,
         b * q + r = b * p + s
  PROVE  q = p /\ r = s
<1>1. b * q \in Nat /\ b * p \in Nat
  BY Times
<1>2. ~(q < p)
  <2> SUFFICES ASSUME q < p PROVE FALSE
    OBVIOUS
  <2>1. b * q + b <= b * p
    BY OneMore
  <2> QED
    BY <2>1, <1>1
<1>3. ~(p < q)
  <2> SUFFICES ASSUME p < q PROVE FALSE
    OBVIOUS
  <2>1. b * p + b <= b * q
    BY OneMore
  <2> QED
    BY <2>1, <1>1
<1>4. q = p
  BY <1>2, <1>3
<1> QED
  BY <1>4, <1>1

\* Division takes such a number apart.
LEMMA QuotientOf ==
  ASSUME NEW b \in Nat \ {0}, NEW q \in Nat, NEW r \in 0 .. b - 1
  PROVE  (b * q + r) \div b = q /\ (b * q + r) % b = r
<1> DEFINE a == b * q + r
<1>1. a \in Nat
  <2>1. b * q \in Nat
    BY Times
  <2> QED
    BY <2>1
<1> HIDE DEF a
<1>2. a \div b \in Nat /\ a % b \in 0 .. b - 1 /\ a = b * (a \div b) + (a % b)
  BY <1>1, DivMod
<1>3. b * q + r = b * (a \div b) + (a % b)
  BY <1>2 DEF a
<1>4. a \div b = q /\ a % b = r
  BY <1>2, <1>3, DivUnique
<1> QED
  BY <1>4 DEF a

\* The quotient of a number below a product is below the other factor.
LEMMA QuotientBelow ==
  ASSUME NEW b \in Nat \ {0}, NEW c \in Nat, NEW a \in Nat, a < b * c
  PROVE  a \div b < c
<1> SUFFICES ASSUME ~(a \div b < c) PROVE FALSE
  OBVIOUS
<1> DEFINE q == a \div b
           x == b * q
           z == b * c
<1>1. q \in Nat /\ a % b \in Nat /\ a = x + (a % b)
  BY DivMod
<1>2. x \in Nat /\ z \in Nat
  BY <1>1, Times
<1>3. z <= x
  <2>1. CASE q = c
    BY <2>1, <1>2
  <2>2. CASE c < q
    <3>1. b * c + b <= b * q
      <4> HIDE DEF q
      <4> QED
        BY <1>1, <2>2, OneMore
    <3> HIDE DEF x, z
    <3>2. z + b <= x
      BY <3>1 DEF x, z
    <3> QED
      BY <3>2, <1>2
  <2> QED
    BY <1>1, <2>1, <2>2
<1>4. a < z
  OBVIOUS
<1> HIDE DEF q, x, z
<1> QED
  BY <1>1, <1>2, <1>3, <1>4

\* Dividing twice is dividing by the product.
LEMMA DivDiv ==
  ASSUME NEW a \in Nat, NEW b \in Nat \ {0}, NEW c \in Nat \ {0}
  PROVE  a \div (b * c) = (a \div b) \div c
<1> DEFINE q == a \div b
           r == a % b
           p == q \div c
           s == q % c
<1>1. q \in Nat /\ r \in 0 .. b - 1 /\ a = b * q + r
  BY DivMod
<1>2. p \in Nat /\ s \in 0 .. c - 1 /\ q = c * p + s
  <2> HIDE DEF q
  <2> QED
    BY <1>1, DivMod
<1> HIDE DEF q, r, p, s
<1> DEFINE d == b * c
           t == b * s + r
<1>3. a = d * p + t
  BY <1>1, <1>2
<1>4. d \in Nat \ {0} /\ t \in 0 .. d - 1
  <2>1. b * s + b <= b * c
    <3>1. s < c /\ s \in Nat
      BY <1>2
    <3> QED
      BY <3>1, OneMore
  <2>2. b * s \in Nat /\ b * c \in Nat
    BY <1>2, Times
  <2> QED
    BY <2>1, <2>2, <1>1
<1>5. a \div d = p
  <2> HIDE DEF d, t
  <2> QED
    BY <1>2, <1>3, <1>4, QuotientOf
<1> QED
  BY <1>5 DEF p, q

\* A least element stays the least one when a greater number comes.
LEMMA MinKept ==
  ASSUME NEW S, NEW T, S \subseteq T, T \subseteq Nat, S # {}, NEW k \in Nat,
         T \subseteq S \cup {k}, \A x \in S : x < k
  PROVE  Min(T) = Min(S)
<1>1. Min(S) \in S /\ \A y \in S : Min(S) <= y
  <2>1. S \subseteq Nat
    OBVIOUS
  <2> QED
    BY <2>1, MinOfNaturals
<1>2. Min(T) \in T /\ \A y \in T : Min(T) <= y
  <2>1. T # {}
    OBVIOUS
  <2> QED
    BY <2>1, MinOfNaturals
<1> DEFINE a == Min(S)
           b == Min(T)
<1>3. a \in S /\ b \in T /\ a \in Nat /\ b \in Nat /\ b <= a /\ a < k
  BY <1>1, <1>2
<1>4. \A y \in S : a <= y
  BY <1>1
<1> HIDE DEF a, b
<1>5. b \in S
  BY <1>3
<1>6. a = b
  BY <1>3, <1>4, <1>5
<1> QED
  BY <1>6 DEF a, b

\* What holds of a and, with a number, of the next one holds of all of them.
LEMMA Induction ==
  ASSUME NEW a \in Nat, NEW N \in Nat, a <= N, NEW E, a \in E,
         \A m \in a .. N - 1 : m \in E => m + 1 \in E
  PROVE  \A m \in a .. N : m \in E
<1> DEFINE Bad == (a .. N) \ E
<1> SUFFICES ASSUME Bad # {} PROVE FALSE
  OBVIOUS
<1>1. Bad \subseteq Nat
  OBVIOUS
<1> DEFINE m == Min(Bad)
<1>2. m \in Bad /\ \A k \in Bad : m <= k
  <2> HIDE DEF Bad
  <2> QED
    BY <1>1, MinOfNaturals
<1> HIDE DEF m
<1>3. m - 1 \in a .. N - 1 /\ m - 1 \in E /\ (m - 1) + 1 = m
  BY <1>2
<1> QED
  BY <1>2, <1>3
=============================================================================
