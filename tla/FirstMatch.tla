------------------------------ MODULE FirstMatch ------------------------------
(***************************************************************************)
(* The decision functions of this code base are chains of early returns.   *)
(* Such a chain is written as a sequence of <<condition, outcome>> rules   *)
(* in the order of the code, closed by a rule whose condition is TRUE.     *)
(***************************************************************************)
EXTENDS Naturals, Sequences, TLAPS
LOCAL INSTANCE WellFoundedInduction

\* The outcome of the first rule that applies.
FirstMatch(rules) ==
    rules[CHOOSE i \in DOMAIN rules : rules[i][1] /\ \A k \in 1 .. i - 1 : ~rules[k][1]][2]

-----------------------------------------------------------------------------
\* The order of the natural numbers is well founded: a non-empty set has a least element.
LEMMA LeastNumber ==
  ASSUME NEW T \in SUBSET Nat, T # {}
  PROVE  \E x \in T : \A y \in T : x <= y
<1>1. PICK x \in T : \A y \in T : ~(<<y, x>> \in OpToRel(<, Nat))
  BY NatLessThanWellFounded, WFMin, Zenon
<1>2. ASSUME NEW y \in T, y < x PROVE <<y, x>> \in OpToRel(<, Nat)
  <2> DEFINE p == <<y, x>>
  <2>1. p \in Nat \X Nat /\ p[1] = y /\ p[2] = x
    OBVIOUS
  <2>2. p[1] < p[2]
    BY <1>2, <2>1
  <2> HIDE DEF p
  <2>3. p \in OpToRel(<, Nat)
    BY <2>1, <2>2, Zenon DEF OpToRel
  <2> QED
    BY <2>3 DEF p
<1>3. \A y \in T : ~(y < x)
  BY <1>1, <1>2, Zenon
<1> QED
  BY <1>3

\* A decision list that ends in a rule which applies has an outcome: that of a rule whose
\* condition holds while no earlier one does.
LEMMA FirstMatchApplies ==
  ASSUME NEW n \in Nat, n > 0, NEW rules, DOMAIN rules = 1 .. n, rules[n][1]
  PROVE  \E i \in 1 .. n : /\ rules[i][1]
                           /\ \A k \in 1 .. i - 1 : ~rules[k][1]
                           /\ FirstMatch(rules) = rules[i][2]
<1> DEFINE T == {k \in 1 .. n : rules[k][1]}
<1>1. PICK x \in T : \A y \in T : x <= y
  <2>1. T \subseteq Nat /\ T # {}
    OBVIOUS
  <2> QED
    BY <2>1, LeastNumber
<1>2. \A k \in 1 .. x - 1 : ~rules[k][1]
  BY <1>1
<1>3. \E i \in DOMAIN rules : rules[i][1] /\ \A k \in 1 .. i - 1 : ~rules[k][1]
  BY <1>2
<1> QED
  BY <1>3 DEF FirstMatch

\* When the outcome is that of the closing rule alone, no condition before it holds.
LEMMA LastRuleApplies ==
  ASSUME NEW n \in Nat, n > 0, NEW rules, DOMAIN rules = 1 .. n, rules[n][1],
         \A k \in 1 .. n - 1 : rules[k][2] # rules[n][2], FirstMatch(rules) = rules[n][2]
  PROVE  \A k \in 1 .. n - 1 : ~rules[k][1]
<1>1. PICK i \in 1 .. n : /\ \A k \in 1 .. i - 1 : ~rules[k][1]
                          /\ FirstMatch(rules) = rules[i][2]
  BY FirstMatchApplies, Zenon
<1>2. i = n
  BY <1>1
<1> QED
  BY <1>1, <1>2
=============================================================================
