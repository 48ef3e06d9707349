----------------------------- MODULE BackendProofs -----------------------------
(***************************************************************************)
(* Proofs about the in-memory backend and the agent's tool loop:           *)
(* ProviderResilience, for any Jobs, workers, balance and limits; uploads  *)
(* with job acceptance (UploadVerification, JobIntake), for any clients,   *)
(* verifiers, cleaners and relays; and AgentToolLoop, for any controllers, *)
(* budgets, tools and reports.  The budgets of both are sums, and the      *)
(* lemmas about sums come first.                                           *)
(***************************************************************************)
EXTENDS ProviderResilience, JobIntake, AgentToolLoop, FiniteSetTheorems

-----------------------------------------------------------------------------
(***************************************************************************)
(* Sums over a finite set, by induction over the number of its elements.   *)
(***************************************************************************)

\* Induction over the natural numbers, for a set that contains 0 and every successor.
LEMMA EveryNumber ==
  ASSUME NEW T \in SUBSET Nat, 0 \in T, \A n \in T : n + 1 \in T
  PROVE  T = Nat
<1> SUFFICES ASSUME Nat \ T # {} PROVE FALSE
  OBVIOUS
<1>1. PICK x \in Nat \ T : \A y \in Nat \ T : x <= y
  BY LeastNumber
<1>2. x - 1 \in Nat /\ x - 1 \notin T
  BY <1>1
<1> QED
  BY <1>1, <1>2

\* An element of a set, the one that CHOOSE takes.
Pick(s) == CHOOSE x \in s : TRUE

\* g adds up the values of f over every subset of S, an element at a time.
AddsUp(g, f, S) ==
    \A s \in SUBSET S : g[s] = IF s = {} THEN 0 ELSE f[Pick(s)] + g[s \ {Pick(s)}]

\* The subsets of at most n elements.
Layer(S, n) == {s \in SUBSET S : Cardinality(s) <= n}

\* Taking an element away leads one layer down.
LEMMA LowerBy ==
  ASSUME NEW S, IsFiniteSet(S), NEW n \in Nat, NEW s \in Layer(S, n + 1), NEW x \in s
  PROVE  s \ {x} \in Layer(S, n)
<1>1. s \in SUBSET S /\ Cardinality(s) <= n + 1
  BY DEF Layer
<1>2. IsFiniteSet(s) /\ Cardinality(s) \in Nat /\ Cardinality(s \ {x}) = Cardinality(s) - 1
  BY <1>1, FS_Subset, FS_RemoveElement, FS_CardinalityType
<1> QED
  BY <1>1, <1>2 DEF Layer

\* In particular, taking the chosen one away.
LEMMA Lower ==
  ASSUME NEW S, IsFiniteSet(S), NEW n \in Nat, NEW s \in Layer(S, n + 1), s # {}
  PROVE  s \ {Pick(s)} \in Layer(S, n) /\ Pick(s) \in S
<1>1. s \in SUBSET S /\ Pick(s) \in s
  BY DEF Layer, Pick
<1> QED
  BY <1>1, LowerBy

\* The lowest layer is the empty set alone.
LEMMA EmptyLayer == ASSUME NEW S, IsFiniteSet(S), NEW s \in Layer(S, 0) PROVE s = {}
<1>1. s \in SUBSET S /\ Cardinality(s) <= 0 /\ IsFiniteSet(s)
  BY FS_Subset DEF Layer
<1> QED
  BY <1>1, FS_CardinalityType, FS_EmptySet

\* A sum exists: layer by layer, from the sums of the layer below.
LEMMA SumsExist ==
  ASSUME NEW S, IsFiniteSet(S), NEW f \in [S -> Int]
  PROVE  \E g \in [SUBSET S -> Int] : AddsUp(g, f, S)
<1> DEFINE Partial(n) == \E g \in [Layer(S, n) -> Int] : \A s \in Layer(S, n) :
                            g[s] = IF s = {} THEN 0 ELSE f[Pick(s)] + g[s \ {Pick(s)}]
           T == {n \in Nat : Partial(n)}
<1>1. ASSUME NEW n \in Nat, NEW s \in Layer(S, n + 1), s # {}
      PROVE  s \ {Pick(s)} \in Layer(S, n) /\ f[Pick(s)] \in Int
  BY <1>1, Lower
<1>2. 0 \in T
  <2> DEFINE g == [s \in Layer(S, 0) |-> 0]
  <2>1. \A s \in Layer(S, 0) : s = {}
    BY EmptyLayer
  <2>2. g \in [Layer(S, 0) -> Int] /\ \A s \in Layer(S, 0) : g[s] = 0
    OBVIOUS
  <2> HIDE DEF g
  <2> QED
    BY <2>1, <2>2
<1>3. ASSUME NEW n \in T PROVE n + 1 \in T
  <2>1. PICK g \in [Layer(S, n) -> Int] : \A s \in Layer(S, n) :
               g[s] = IF s = {} THEN 0 ELSE f[Pick(s)] + g[s \ {Pick(s)}]
    OBVIOUS
  <2> DEFINE h == [s \in Layer(S, n + 1) |-> IF s = {} THEN 0 ELSE f[Pick(s)] + g[s \ {Pick(s)}]]
  <2>2. h \in [Layer(S, n + 1) -> Int]
    <3> SUFFICES ASSUME NEW s \in Layer(S, n + 1), s # {} PROVE f[Pick(s)] + g[s \ {Pick(s)}] \in Int
      OBVIOUS
    <3>1. s \ {Pick(s)} \in Layer(S, n) /\ f[Pick(s)] \in Int
      BY <1>1
    <3> QED
      BY <3>1
  <2>3. \A s \in Layer(S, n + 1) : h[s] = IF s = {} THEN 0 ELSE f[Pick(s)] + g[s \ {Pick(s)}]
    OBVIOUS
  <2>4. ASSUME NEW s \in Layer(S, n) PROVE s \in Layer(S, n + 1)
    <3>1. Cardinality(s) \in Nat
      BY FS_Subset, FS_CardinalityType DEF Layer
    <3> QED
      BY <3>1 DEF Layer
  <2> HIDE DEF h
  <2>5. \A s \in Layer(S, n) : h[s] = g[s]
    BY <2>1, <2>3, <2>4
  <2>6. \A s \in Layer(S, n + 1) : h[s] = IF s = {} THEN 0 ELSE f[Pick(s)] + h[s \ {Pick(s)}]
    BY <1>1, <2>3, <2>5
  <2>7. Partial(n + 1)
    BY <2>2, <2>6
  <2> HIDE DEF Partial
  <2> QED
    BY <2>7
<1>4. T = Nat
  <2> HIDE DEF Partial
  <2>1. T \in SUBSET Nat
    OBVIOUS
  <2> HIDE DEF T
  <2> QED
    BY <1>2, <1>3, <2>1, EveryNumber
<1>5. Cardinality(S) \in Nat
  BY FS_CardinalityType
<1>6. Layer(S, Cardinality(S)) = SUBSET S
  BY FS_Subset DEF Layer
<1>7. Partial(Cardinality(S))
  BY <1>4, <1>5
<1> QED
  BY <1>6, <1>7 DEF AddsUp

\* And it is the only one.
LEMMA SumsAgree ==
  ASSUME NEW S, IsFiniteSet(S), NEW f, NEW g, NEW h, AddsUp(g, f, S), AddsUp(h, f, S)
  PROVE  \A s \in SUBSET S : g[s] = h[s]
<1> DEFINE T == {n \in Nat : \A s \in Layer(S, n) : g[s] = h[s]}
<1>1. 0 \in T
  <2> SUFFICES ASSUME NEW s \in Layer(S, 0) PROVE g[s] = h[s]
    OBVIOUS
  <2> QED
    BY EmptyLayer DEF AddsUp, Layer
<1>2. ASSUME NEW n \in T PROVE n + 1 \in T
  <2> SUFFICES ASSUME NEW s \in Layer(S, n + 1) PROVE g[s] = h[s]
    OBVIOUS
  <2>1. CASE s = {}
    BY <2>1 DEF AddsUp
  <2>2. CASE s # {}
    <3>1. s \ {Pick(s)} \in Layer(S, n) /\ s \in SUBSET S
      BY <2>2, Lower DEF Layer
    <3>2. g[s \ {Pick(s)}] = h[s \ {Pick(s)}]
      BY <3>1
    <3> QED
      BY <2>2, <3>1, <3>2 DEF AddsUp
  <2> QED
    BY <2>1, <2>2
<1>3. T = Nat
  <2>1. T \in SUBSET Nat
    OBVIOUS
  <2> HIDE DEF T
  <2> QED
    BY <1>1, <1>2, <2>1, EveryNumber
<1>4. Cardinality(S) \in Nat /\ Layer(S, Cardinality(S)) = SUBSET S
  BY FS_CardinalityType, FS_Subset DEF Layer
<1> QED
  BY <1>3, <1>4

\* An element adds its value, in whatever order the others are taken.
InAnyOrder(g, f, S) == \A s \in SUBSET S : \A x \in S \ s : g[s \cup {x}] = g[s] + f[x]

\* Two elements are interchanged: the one taken first and the one added.
LEMMA Adding ==
  ASSUME NEW S, IsFiniteSet(S), NEW f \in [S -> Int], NEW g \in [SUBSET S -> Int], AddsUp(g, f, S)
  PROVE  InAnyOrder(g, f, S)
<1> DEFINE T == {n \in Nat : \A s \in Layer(S, n) : \A x \in S \ s : g[s \cup {x}] = g[s] + f[x]}
<1>1. ASSUME NEW s \in SUBSET S, NEW x \in S \ s, Pick(s \cup {x}) = x
      PROVE  g[s \cup {x}] = g[s] + f[x]
  <2>1. (s \cup {x}) \ {x} = s /\ s \cup {x} # {} /\ s \cup {x} \in SUBSET S
    OBVIOUS
  <2>2. g[s \cup {x}] = f[x] + g[s]
    BY <1>1, <2>1 DEF AddsUp
  <2>3. g[s] \in Int /\ f[x] \in Int
    OBVIOUS
  <2> QED
    BY <2>2, <2>3
<1>2. 0 \in T
  <2> SUFFICES ASSUME NEW s \in Layer(S, 0), NEW x \in S \ s PROVE g[s \cup {x}] = g[s] + f[x]
    OBVIOUS
  <2>1. s = {}
    BY EmptyLayer
  <2>2. Pick(s \cup {x}) = x
    BY <2>1 DEF Pick
  <2> QED
    BY <1>1, <2>1, <2>2
<1>3. ASSUME NEW n \in T PROVE n + 1 \in T
  <2> SUFFICES ASSUME NEW s \in Layer(S, n + 1), NEW x \in S \ s PROVE g[s \cup {x}] = g[s] + f[x]
    OBVIOUS
  <2>0. s \in SUBSET S
    BY DEF Layer
  <2> DEFINE u == s \cup {x}
             r == s \ {Pick(u)}
  <2>1. PICK p \in u : p = Pick(u)
    BY DEF Pick
  <2>2. CASE p = x
    BY <1>1, <2>0, <2>1, <2>2
  <2>3. CASE p # x
    <3>1. r = s \ {p}
      BY <2>1
    <3> HIDE DEF r
    <3>2. p \in s /\ x \in S \ r /\ p \in S \ r /\ r \in SUBSET S
      BY <2>0, <2>1, <2>3, <3>1
    <3>3. u \ {p} = r \cup {x}
      BY <2>1, <2>3, <3>1
    <3>4. s = r \cup {p}
      BY <3>1, <3>2
    <3>5. r \in Layer(S, n)
      BY <2>0, <3>1, <3>2, LowerBy
    <3>6. g[r \cup {x}] = g[r] + f[x] /\ g[r \cup {p}] = g[r] + f[p]
      BY <3>2, <3>5
    <3>7. g[u] = f[p] + g[u \ {p}]
      BY <2>0, <2>1 DEF AddsUp
    <3>8. g[u] = f[p] + (g[r] + f[x]) /\ g[s] = g[r] + f[p]
      BY <3>6, <3>7, <3>3, <3>4
    <3>9. g[r] \in Int /\ f[x] \in Int /\ f[p] \in Int
      BY <3>2
    <3> HIDE DEF u
    <3>A. g[u] = g[s] + f[x]
      BY <3>9, <3>8
    <3> QED
      BY <3>A DEF u
  <2> QED
    BY <2>2, <2>3
<1>4. T = Nat
  <2>1. T \in SUBSET Nat
    OBVIOUS
  <2> HIDE DEF T
  <2> QED
    BY <1>2, <1>3, <2>1, EveryNumber
<1>5. Cardinality(S) \in Nat /\ Layer(S, Cardinality(S)) = SUBSET S
  BY FS_CardinalityType, FS_Subset DEF Layer
<1> QED
  BY <1>4, <1>5 DEF InAnyOrder

\* The sum of all values, as the ledger computes it.
Total(f) == FoldFunction(+, 0, f)

\* The fold of a function by addition is such a sum over its whole domain.
LEMMA FoldAddsUp ==
  ASSUME NEW S, IsFiniteSet(S), NEW f \in [S -> Int]
  PROVE  \E g \in [SUBSET S -> Int] : AddsUp(g, f, S) /\ Total(f) = g[S]
<1> DEFINE Is(g) == g = [s \in SUBSET S |-> IF s = {} THEN 0
                                  ELSE f[CHOOSE x \in s : TRUE] + g[s \ {CHOOSE x \in s : TRUE}]]
           it == CHOOSE g : Is(g)
<1>1. PICK g \in [SUBSET S -> Int] : AddsUp(g, f, S)
  BY SumsExist
<1>2. Is(g)
  BY <1>1 DEF AddsUp, Pick
<1>3. Is(it)
  BY <1>2
<1>4. AddsUp(it, f, S)
  <2> HIDE DEF it
  <2> QED
    BY <1>3 DEF AddsUp, Pick
<1>5. it[S] = g[S]
  <2> HIDE DEF it
  <2> QED
    BY <1>1, <1>4, SumsAgree
<1>6. Total(f) = it[S]
  <2>1. DOMAIN f = S
    OBVIOUS
  <2> QED
    BY <2>1 DEF Total, FoldFunction, FoldFunctionOnSet, MapThenFoldSet
<1> QED
  BY <1>1, <1>5, <1>6

\* Zeros add up to zero.
LEMMA SumOfZeros == ASSUME NEW S, IsFiniteSet(S) PROVE Total([x \in S |-> 0]) = 0
<1> DEFINE f == [x \in S |-> 0]
           g == [s \in SUBSET S |-> 0]
<1>1. PICK h \in [SUBSET S -> Int] : AddsUp(h, f, S) /\ Total(f) = h[S]
  <2>1. f \in [S -> Int]
    OBVIOUS
  <2> HIDE DEF f
  <2> QED
    BY <2>1, FoldAddsUp
<1>2. AddsUp(g, f, S)
  BY DEF AddsUp, Pick
<1>3. g[S] = 0
  OBVIOUS
<1> HIDE DEF f, g
<1>4. \A s \in SUBSET S : g[s] = h[s]
  BY <1>1, <1>2, SumsAgree
<1> QED
  BY <1>1, <1>3, <1>4 DEF f

\* Changing one value changes the sum by the difference.
LEMMA SumOfUpdate ==
  ASSUME NEW S, IsFiniteSet(S), NEW f \in [S -> Int], NEW e \in [S -> Int], NEW x \in S,
         \A y \in S \ {x} : e[y] = f[y]
  PROVE  /\ Total(f) \in Int
         /\ Total(e) = Total(f) - f[x] + e[x]
<1>1. PICK g \in [SUBSET S -> Int] : AddsUp(g, f, S) /\ Total(f) = g[S]
  BY FoldAddsUp
<1>2. PICK h \in [SUBSET S -> Int] : AddsUp(h, e, S) /\ Total(e) = h[S]
  BY FoldAddsUp
<1> DEFINE R == S \ {x}
<1>3. R \in SUBSET S /\ x \in S \ R /\ R \cup {x} = S /\ IsFiniteSet(R)
  BY FS_Subset
<1>4. g[S] = g[R] + f[x] /\ h[S] = h[R] + e[x]
  <2> HIDE DEF R
  <2>1. InAnyOrder(g, f, S) /\ InAnyOrder(h, e, S)
    BY <1>1, <1>2, Adding
  <2> QED
    BY <1>3, <2>1 DEF InAnyOrder
<1>5. AddsUp(g, f, R) /\ AddsUp(h, f, R)
  <2>1. ASSUME NEW s \in SUBSET R, s # {} PROVE e[Pick(s)] = f[Pick(s)]
    BY <2>1 DEF Pick
  <2>2. \A s \in SUBSET R : s \in SUBSET S
    OBVIOUS
  <2> HIDE DEF R
  <2> QED
    BY <1>1, <1>2, <2>1, <2>2 DEF AddsUp
<1>6. g[R] = h[R]
  <2> HIDE DEF R
  <2> QED
    BY <1>3, <1>5, SumsAgree
<1>7. g[R] \in Int /\ f[x] \in Int /\ e[x] \in Int /\ g[S] \in Int
  BY <1>3
<1> HIDE DEF R
<1>8. h[S] = g[S] - f[x] + e[x]
  BY <1>4, <1>6, <1>7
<1> QED
  BY <1>1, <1>2, <1>7, <1>8

\* A field of records, added up.
FieldSum(n, D) == MapThenSumSet(LAMBDA d : d[n], D)

\* h of the larger set is g of the smaller one and the value of what was added.
OneMore(g, h, f, S, e) == h[S \cup {e}] = g[S] + f[e]

\* One element more, one value more.
LEMMA GrowingSum ==
  ASSUME NEW S, IsFiniteSet(S), NEW e, e \notin S, NEW f \in [S \cup {e} -> Int],
         NEW g, AddsUp(g, f, S), NEW h, AddsUp(h, f, S \cup {e})
  PROVE  OneMore(g, h, f, S, e)
<1> DEFINE U == S \cup {e}
<1>1. IsFiniteSet(U) /\ S \in SUBSET U /\ U \in SUBSET U /\ e \in U \ S
  BY FS_AddElement
<1>2. PICK i \in [SUBSET U -> Int] : AddsUp(i, f, U)
  <2> HIDE DEF U
  <2>1. f \in [U -> Int]
    BY DEF U
  <2> QED
    BY <1>1, <2>1, SumsExist
<1>3. AddsUp(i, f, S)
  BY <1>1, <1>2 DEF AddsUp
<1>4. i[S] = g[S]
  BY <1>3, SumsAgree
<1>5. i[U] = h[U]
  BY <1>1, <1>2, SumsAgree
<1>6. InAnyOrder(i, f, U)
  BY <1>1, <1>2, Adding
<1>7. i[U] = i[S] + f[e]
  BY <1>1, <1>6 DEF InAnyOrder
<1>8. i[S] \in Int /\ f[e] \in Int
  BY <1>1
<1> QED
  BY <1>4, <1>5, <1>7, <1>8 DEF OneMore

\* The same for a field of records.
FieldGrows(n, S, e) == FieldSum(n, S \cup {e}) = FieldSum(n, S) + e[n]

LEMMA GrowingField ==
  ASSUME NEW n, NEW S, IsFiniteSet(S), NEW e, e \notin S, \A d \in S \cup {e} : d[n] \in Int
  PROVE  FieldGrows(n, S, e)
<1> DEFINE f == [d \in S \cup {e} |-> d[n]]
           Is(g, D) == g = [s \in SUBSET D |-> IF s = {} THEN 0
                              ELSE (CHOOSE x \in s : TRUE)[n] + g[s \ {CHOOSE x \in s : TRUE}]]
           it(D) == CHOOSE g : Is(g, D)
<1>1. ASSUME NEW D \in SUBSET (S \cup {e}), IsFiniteSet(D)
      PROVE  FieldSum(n, D) = it(D)[D] /\ AddsUp(it(D), f, D)
  <2>1. PICK g \in [SUBSET D -> Int] : AddsUp(g, [d \in D |-> d[n]], D)
    <3> DEFINE fd == [d \in D |-> d[n]]
    <3>1. fd \in [D -> Int]
      OBVIOUS
    <3> HIDE DEF fd
    <3>2. \E g \in [SUBSET D -> Int] : AddsUp(g, fd, D)
      BY <1>1, <3>1, SumsExist
    <3> QED
      BY <3>2 DEF fd
  <2>2. Is(g, D)
    BY <2>1 DEF AddsUp, Pick
  <2>3. Is(it(D), D)
    BY <2>2
  <2>4. AddsUp(it(D), f, D)
    <3> HIDE DEF it
    <3>1. \A s \in SUBSET D : s # {} => f[Pick(s)] = (CHOOSE x \in s : TRUE)[n]
      BY DEF Pick
    <3> QED
      BY <2>3, <3>1 DEF AddsUp, Pick
  <2>5. FieldSum(n, D) = it(D)[D]
    BY DEF FieldSum, MapThenSumSet, MapThenFoldSet
  <2> QED
    BY <2>4, <2>5
<1>2. IsFiniteSet(S \cup {e})
  BY FS_AddElement
<1>3. f \in [S \cup {e} -> Int] /\ f[e] = e[n]
  OBVIOUS
<1>4. /\ FieldSum(n, S) = it(S)[S] /\ AddsUp(it(S), f, S)
      /\ FieldSum(n, S \cup {e}) = it(S \cup {e})[S \cup {e}] /\ AddsUp(it(S \cup {e}), f, S \cup {e})
  BY <1>1, <1>2
<1> HIDE DEF f, it
<1>5. OneMore(it(S), it(S \cup {e}), f, S, e)
  BY <1>3, <1>4, GrowingSum
<1> QED
  BY <1>3, <1>4, <1>5 DEF OneMore, FieldGrows

\* Nothing adds up to nothing.
LEMMA EmptyField == ASSUME NEW n PROVE FieldSum(n, {}) = 0
<1> DEFINE Is(g) == g = [s \in SUBSET {} |-> IF s = {} THEN 0
                           ELSE (CHOOSE x \in s : TRUE)[n] + g[s \ {CHOOSE x \in s : TRUE}]]
           it == CHOOSE g : Is(g)
<1>1. Is([s \in SUBSET {} |-> 0])
  OBVIOUS
<1>2. Is(it)
  BY <1>1
<1>3. FieldSum(n, {}) = it[{}]
  BY DEF FieldSum, MapThenSumSet, MapThenFoldSet
<1> HIDE DEF it
<1> QED
  BY <1>2, <1>3

-----------------------------------------------------------------------------
(***************************************************************************)
(* ProviderResilience.                                                     *)
(***************************************************************************)

LEMMA MaxOfZero == ASSUME NEW a \in Int PROVE Max({0, a}) = IF a > 0 THEN a ELSE 0
<1> DEFINE S == {0, a}
           m == IF a > 0 THEN a ELSE 0
<1>1. m \in S /\ \A y \in S : m >= y
  OBVIOUS
<1>2. \A x \in S : (\A y \in S : x >= y) => x = m
  OBVIOUS
<1> QED
  BY <1>1, <1>2 DEF Max

LEMMA MinOfTwo == ASSUME NEW a \in Nat, NEW b \in Nat PROVE Min({a, b}) = IF a < b THEN a ELSE b
<1> DEFINE S == {a, b}
           m == IF a < b THEN a ELSE b
<1>1. m \in S /\ \A y \in S : m =< y
  OBVIOUS
<1>2. \A x \in S : (\A y \in S : x =< y) => x = m
  OBVIOUS
<1> QED
  BY <1>1, <1>2 DEF Min

\* What evaluate_dispatch knows at each step: the claim is exclusive and the Job running; a
\* permit is taken in step (5) and a probe slot in step (7); no evidence was there in step (2),
\* and the reservation was there in step (6).
DispatchInv ==
    \A w \in Workers :
        /\ pc[w] = "idle" <=> job[w] = None
        /\ job[w] # None => status[job[w]] = "RUNNING"
        /\ \A v \in Workers : job[w] # None /\ job[v] = job[w] => v = w
        /\ pc[w] \in {"idle", "facts", "hint", "permit"} => ~permit[w]
        /\ pc[w] # "calling" => probe[w] = 0
        /\ pc[w] \in {"hint", "permit", "afford", "slot"} => evidence[job[w]] = "none"
        /\ pc[w] = "calling" => executed[job[w]] = 0
        /\ pc[w] \in {"slot", "calling"} => reserved[job[w]] = WorstCase

\* An execution leaves evidence, and is settled or funded.
ExecutionInv ==
    \A j \in Jobs :
        /\ executed[j] <= 1
        /\ executed[j] = 1 => evidence[j] # "none"
        /\ executed[j] = 1 /\ j \notin settled => reserved[j] = WorstCase

Holders == {w \in Workers : permit[w]}
Probers == {w \in Workers : probe[w] = round}

\* Permits and slots are counted where they are held.
CountInv ==
    /\ IsFiniteSet(Holders) /\ used = Cardinality(Holders)
    /\ \A w \in Workers : probe[w] <= round
    /\ state = "HALF_OPEN" => /\ round > 0 /\ IsFiniteSet(Probers)
                              /\ probes <= Cardinality(Probers)

ProviderInv == TypeOK /\ DispatchInv /\ ExecutionInv /\ CountInv

-----------------------------------------------------------------------------
(***************************************************************************)
(* What the operations on the ledger and on the circuit do.                *)
(***************************************************************************)

\* Money moves between the tenant's balance and the account of one Job.
MovesMoneyOf(j) ==
    /\ available' \in Nat /\ reserved' \in [Jobs -> {0, WorstCase}] /\ charged' \in [Jobs -> Nat]
    /\ available' + reserved'[j] + charged'[j] = available + reserved[j] + charged[j]
    /\ \A i \in Jobs \ {j} : reserved'[i] = reserved[i] /\ charged'[i] = charged[i]

LEMMA Reserving ==
  ASSUME TypeOK, NEW j \in Jobs, reserve_worst_case(j)
  PROVE  MovesMoneyOf(j) /\ settled' = settled /\ reserved'[j] = WorstCase
<1>1. CASE reserved[j] > 0 /\ UNCHANGED ledger
  BY <1>1, BoundsAssumption DEF TypeOK, ledger, MovesMoneyOf
<1>2. CASE ~(reserved[j] > 0 /\ UNCHANGED ledger)
  BY <1>2, BoundsAssumption DEF TypeOK, reserve_worst_case, Affordable, MovesMoneyOf
<1> QED
  BY <1>1, <1>2

LEMMA Releasing ==
  ASSUME TypeOK, NEW j \in Jobs, release_reservation(j)
  PROVE  MovesMoneyOf(j) /\ settled' = settled
BY BoundsAssumption DEF TypeOK, release_reservation, MovesMoneyOf

LEMMA Settling ==
  ASSUME TypeOK, NEW j \in Jobs, NEW spent \in Costs, settle_actual(j, spent)
  PROVE  MovesMoneyOf(j) /\ settled' = settled \cup {j}
<1>1. /\ spent \in Nat /\ reserved[j] \in Nat /\ available \in Nat /\ charged \in [Jobs -> Nat]
      /\ reserved \in [Jobs -> {0, WorstCase}] /\ WorstCase \in Nat
  BY BoundsAssumption DEF TypeOK
<1>2. Max({0, reserved[j] - spent}) = IF reserved[j] - spent > 0 THEN reserved[j] - spent ELSE 0
  BY <1>1, MaxOfZero
<1>3. Min({spent, reserved[j]}) = IF spent < reserved[j] THEN spent ELSE reserved[j]
  BY <1>1, MinOfTwo
<1> DEFINE back == IF reserved[j] - spent > 0 THEN reserved[j] - spent ELSE 0
           paid == IF spent < reserved[j] THEN spent ELSE reserved[j]
<1>4. /\ reserved' = [reserved EXCEPT ![j] = 0] /\ available' = available + back
      /\ charged' = [charged EXCEPT ![j] = @ + paid] /\ settled' = settled \cup {j}
  BY <1>2, <1>3 DEF settle_actual
<1>5. back \in Nat /\ paid \in Nat /\ back + paid = reserved[j]
  BY <1>1
<1> HIDE DEF back, paid
<1> QED
  BY <1>1, <1>4, <1>5 DEF MovesMoneyOf

\* A report of a call changes no round, opens no recovery round, and frees at most one slot;
\* a probe frees one unless there is none.
LEMMA Reporting ==
  ASSUME TypeOK, NEW w \in Workers, NEW ok \in BOOLEAN, Report(w, ok)
  PROVE  /\ state' \in {"CLOSED", "OPEN", "HALF_OPEN"} /\ {fails', successes'} \subseteq Nat
         /\ probes' \in 0 .. half_open_max_probes /\ round' = round
         /\ state' = "HALF_OPEN" => state = "HALF_OPEN"
         /\ probes' = IF probe[w] > 0 /\ probes > 0 THEN probes - 1 ELSE probes
<1>1. /\ probes \in Nat /\ probes <= half_open_max_probes /\ half_open_max_probes \in Nat
      /\ probe[w] \in Nat /\ fails \in Nat /\ successes \in Nat /\ fail_threshold \in Nat
      /\ needed_to_close \in Nat /\ state \in {"CLOSED", "OPEN", "HALF_OPEN"}
  BY BoundsAssumption DEF TypeOK
<1>2. Max({0, probes - 1}) = IF probes > 0 THEN probes - 1 ELSE 0
  BY <1>1, MaxOfZero
<1>3. CASE probe[w] > 0 /\ ok
  BY <1>1, <1>2, <1>3 DEF Report, record_probe_success, FreeSlot
<1>4. CASE probe[w] > 0 /\ ~ok
  BY <1>1, <1>2, <1>4 DEF Report, record_probe_failure, FreeSlot
<1>5. CASE ~(probe[w] > 0) /\ ok
  BY <1>1, <1>5 DEF Report, circuit
<1>6. CASE ~(probe[w] > 0) /\ ~ok
  BY <1>1, <1>6 DEF Report, record_failure
<1> QED
  BY <1>3, <1>4, <1>5, <1>6

\* The permit goes back to the limiter.
LEMMA Returning ==
  ASSUME TypeOK, NEW w \in Workers, ReturnPermit(w)
  PROVE  /\ up' = up /\ used' \in 0 .. Capacity
         /\ used' = IF permit[w] /\ used > 0 THEN used - 1 ELSE used
<1>1. used \in Nat /\ used <= Capacity /\ Capacity \in Nat /\ permit[w] \in BOOLEAN
  BY BoundsAssumption DEF TypeOK
<1>2. Max({0, used - 1}) = IF used > 0 THEN used - 1 ELSE 0
  BY <1>1, MaxOfZero
<1> QED
  BY <1>1, <1>2 DEF ReturnPermit

-----------------------------------------------------------------------------
(***************************************************************************)
(* The steps that every early return and every end of a call share.        *)
(***************************************************************************)

\* A worker that is not idle holds a Job.
LEMMA HeldJob ==
  ASSUME TypeOK, DispatchInv, NEW w \in Workers, pc[w] # "idle"
  PROVE  job[w] \in Jobs /\ job[w] # None
BY DEF TypeOK, DispatchInv

\* Nobody else holds the Job that a worker leaves, so what it did to the Job disturbs nobody.
LEMMA LeavingDispatch ==
  ASSUME TypeOK, DispatchInv, NEW w \in Workers, pc[w] # "idle", Leave(w),
         NEW s, SetStatus(job[w], s),
         \A i \in Jobs \ {job[w]} : /\ evidence'[i] = evidence[i] /\ executed'[i] = executed[i]
                                    /\ reserved'[i] = reserved[i]
  PROVE  DispatchInv'
<1>1. job[w] \in Jobs /\ job[w] # None
  BY HeldJob
<1>2. ASSUME NEW v \in Workers, v # w, job[v] # None
      PROVE  /\ job[v] \in Jobs \ {job[w]} /\ status'[job[v]] = status[job[v]]
             /\ evidence'[job[v]] = evidence[job[v]] /\ executed'[job[v]] = executed[job[v]]
             /\ reserved'[job[v]] = reserved[job[v]]
  BY <1>1, <1>2 DEF TypeOK, DispatchInv, SetStatus
<1>3. \A v \in Workers \ {w} : /\ pc'[v] = pc[v] /\ job'[v] = job[v] /\ permit'[v] = permit[v]
                               /\ probe'[v] = probe[v]
  BY DEF TypeOK, Leave
<1>4. pc'[w] = "idle" /\ job'[w] = None /\ permit'[w] = FALSE /\ probe'[w] = 0
  BY DEF TypeOK, Leave
<1> QED
  BY <1>2, <1>3, <1>4 DEF DispatchInv

\* A worker that leaves takes its permit and its slot out of the counts.
LEMMA LeavingCount ==
  ASSUME TypeOK, CountInv, NEW w \in Workers, Leave(w),
         round' = round, state' = "HALF_OPEN" => state = "HALF_OPEN",
         used' = IF permit[w] /\ used > 0 THEN used - 1 ELSE used,
         probes' = IF probe[w] > 0 /\ probes > 0 THEN probes - 1 ELSE probes
  PROVE  CountInv'
<1>1. /\ Holders' = Holders \ {w}
      /\ Probers' = IF round = 0 THEN Probers \cup {w} ELSE Probers \ {w}
      /\ \A v \in Workers : probe'[v] <= round'
  BY DEF TypeOK, Leave, Holders, Probers, CountInv
<1>2. /\ permit[w] \in BOOLEAN /\ used \in Nat /\ probes \in Nat /\ round \in Nat /\ probe[w] \in Nat
      /\ (w \in Holders <=> permit[w]) /\ (w \in Probers <=> probe[w] = round)
  BY DEF TypeOK, Holders, Probers
<1>3. IsFiniteSet(Holders') /\ used' = Cardinality(Holders')
  <2>1. /\ IsFiniteSet(Holders) /\ Cardinality(Holders) \in Nat /\ used = Cardinality(Holders)
        /\ IsFiniteSet(Holders \ {w}) /\ Cardinality(Holders \ {w}) \in Nat
        /\ Cardinality(Holders \ {w}) = IF w \in Holders THEN Cardinality(Holders) - 1 ELSE Cardinality(Holders)
    BY FS_RemoveElement, FS_CardinalityType DEF CountInv
  <2> QED
    BY <1>1, <1>2, <2>1
<1>4. ASSUME state' = "HALF_OPEN"
      PROVE  round' > 0 /\ IsFiniteSet(Probers') /\ probes' <= Cardinality(Probers')
  <2>1. /\ round > 0 /\ IsFiniteSet(Probers) /\ probes <= Cardinality(Probers)
        /\ Cardinality(Probers) \in Nat /\ IsFiniteSet(Probers \ {w}) /\ Cardinality(Probers \ {w}) \in Nat
        /\ Cardinality(Probers \ {w}) = IF w \in Probers THEN Cardinality(Probers) - 1 ELSE Cardinality(Probers)
    BY <1>4, FS_RemoveElement, FS_CardinalityType DEF CountInv
  <2>2. Probers' = Probers \ {w}
    BY <1>1, <1>2, <2>1
  <2>3. w \in Probers => probe[w] > 0
    BY <1>2, <2>1
  <2> HIDE DEF Probers
  <2> QED
    BY <1>2, <2>1, <2>2, <2>3
<1> QED
  BY <1>1, <1>3, <1>4 DEF CountInv

\* _defer with nothing held, or with the permit given back.
LEMMA Deferring ==
  ASSUME ProviderInv, NEW w \in Workers, pc[w] # "idle", pc[w] # "calling", _defer(w),
         (UNCHANGED limiter /\ ~permit[w]) \/ ReturnPermit(w)
  PROVE  ProviderInv'
<1> USE DEF ProviderInv
<1>1. job[w] \in Jobs
  BY HeldJob
<1>2. used' \in 0 .. Capacity /\ up' = up /\ used' = IF permit[w] /\ used > 0 THEN used - 1 ELSE used
  <2>1. CASE UNCHANGED limiter /\ ~permit[w]
    BY <2>1 DEF TypeOK, limiter
  <2>2. CASE ReturnPermit(w)
    BY <2>2, Returning
  <2> QED
    BY <2>1, <2>2
<1>3. TypeOK'
  <2>1. status' \in [Jobs -> JobStatus]
    BY <1>1 DEF TypeOK, _defer, SetStatus, JobStatus
  <2>2. /\ pc' \in [Workers -> Steps] /\ job' \in [Workers -> Jobs \cup {None}]
        /\ permit' \in [Workers -> BOOLEAN] /\ probe' \in [Workers -> 0 .. MaxRounds]
        /\ cstate' \in [Workers -> {"CLOSED", "HALF_OPEN", None}]
    BY BoundsAssumption DEF TypeOK, _defer, Leave, Steps
  <2> QED
    BY <1>2, <2>1, <2>2 DEF TypeOK, _defer, ledger, circuit
<1>4. DispatchInv'
  BY LeavingDispatch DEF _defer, ledger
<1>5. ExecutionInv'
  BY DEF ExecutionInv, _defer, ledger
<1>6. CountInv'
  <2>1. probe[w] = 0 /\ round' = round /\ state' = state /\ probes' = probes
    BY DEF DispatchInv, _defer, circuit
  <2> QED
    BY <1>2, <2>1, LeavingCount DEF _defer
<1> QED
  BY <1>3, <1>4, <1>5, <1>6

\* Steps that leave workers, circuit and limiter alone.
LEMMA CountsUntouched ==
  ASSUME CountInv, UNCHANGED <<limiter, circuit, permit, probe>>
  PROVE  CountInv'
BY DEF CountInv, Holders, Probers, limiter, circuit

-----------------------------------------------------------------------------
(***************************************************************************)
(* Steps on a Job that no worker holds, and steps of the environment.      *)
(***************************************************************************)

\* A RUNNING Job is the only kind a worker holds.
LEMMA NotHeld ==
  ASSUME DispatchInv, NEW j \in Jobs, status[j] # "RUNNING" \/ ~Claimed(j)
  PROVE  \A w \in Workers : job[w] # j
BY BoundsAssumption DEF DispatchInv, Claimed

\* Money that stays where it is.
LEMMA KeepingLedger ==
  ASSUME TypeOK, NEW j \in Jobs, UNCHANGED ledger
  PROVE  MovesMoneyOf(j) /\ settled' = settled
BY DEF TypeOK, ledger, MovesMoneyOf

LEMMA UnheldStep ==
  ASSUME ProviderInv, NEW j \in Jobs, NEW s \in JobStatus,
         \A w \in Workers : job[w] # j,
         SetStatus(j, s), MovesMoneyOf(j), settled \subseteq settled', settled' \subseteq Jobs,
         repaired' \subseteq Jobs,
         executed[j] = 1 /\ j \notin settled' => reserved'[j] = WorstCase,
         UNCHANGED <<intent, evidence, late, limiter, circuit, workers, executed>>
  PROVE  ProviderInv'
<1> USE DEF ProviderInv
<1>1. TypeOK'
  <2>1. status' \in [Jobs -> JobStatus]
    BY DEF TypeOK, SetStatus
  <2> QED
    BY <2>1 DEF TypeOK, MovesMoneyOf, limiter, circuit, workers
<1>2. DispatchInv'
  <2>1. ASSUME NEW v \in Workers, job[v] # None
        PROVE  /\ job[v] \in Jobs /\ status'[job[v]] = status[job[v]]
               /\ reserved'[job[v]] = reserved[job[v]]
    BY <2>1 DEF TypeOK, SetStatus, MovesMoneyOf
  <2> QED
    BY <2>1 DEF DispatchInv, workers
<1>3. ExecutionInv'
  BY DEF ExecutionInv, MovesMoneyOf
<1>4. CountInv'
  BY CountsUntouched DEF workers
<1> QED
  BY <1>1, <1>2, <1>3, <1>4

LEMMA AcceptStep == ASSUME ProviderInv, NEW j \in Jobs, Accept(j) PROVE ProviderInv'
<1> USE DEF ProviderInv
<1>1. MovesMoneyOf(j) /\ settled' = settled /\ reserved'[j] = WorstCase
  BY Reserving DEF Accept
<1>2. \A w \in Workers : job[w] # j
  BY NotHeld DEF Accept
<1>3. repaired' = repaired /\ repaired \subseteq Jobs /\ settled \subseteq Jobs
  BY DEF Accept, TypeOK
<1> QED
  BY <1>1, <1>2, <1>3, UnheldStep DEF Accept, JobStatus

LEMMA LateCompletionStep ==
  ASSUME ProviderInv, NEW j \in Jobs, NEW spent \in Costs, LateCompletion(j, spent)
  PROVE  ProviderInv'
<1> USE DEF ProviderInv
<1>1. MovesMoneyOf(j) /\ settled' = settled \cup {j}
  BY Settling DEF LateCompletion
<1>2. \A w \in Workers : job[w] # j
  BY NotHeld DEF LateCompletion
<1>3. repaired' = repaired /\ repaired \subseteq Jobs /\ settled \subseteq Jobs
  BY DEF LateCompletion, TypeOK
<1> QED
  BY <1>1, <1>2, <1>3, UnheldStep DEF LateCompletion, JobStatus, TERMINAL_STATUSES

LEMMA DeadlineStep == ASSUME ProviderInv, NEW j \in Jobs, process_deadline(j) PROVE ProviderInv'
<1> USE DEF ProviderInv
<1>1. \A w \in Workers : job[w] # j
  BY NotHeld DEF process_deadline
<1>2. /\ repaired' = repaired /\ repaired \subseteq Jobs /\ settled \subseteq Jobs
      /\ UNCHANGED <<intent, evidence, late, limiter, circuit, workers, executed>>
  BY DEF process_deadline, TypeOK
<1>3. CASE Evident(j) /\ SetStatus(j, "PENDING_RECONCILIATION") /\ UNCHANGED ledger
  <2>1. MovesMoneyOf(j) /\ settled' = settled /\ reserved' = reserved
    BY <1>3, KeepingLedger DEF ledger
  <2> QED
    BY <1>1, <1>2, <1>3, <2>1, UnheldStep DEF ExecutionInv, JobStatus
<1>4. CASE ~Evident(j) /\ release_reservation(j) /\ SetStatus(j, "EXPIRED")
  <2>1. MovesMoneyOf(j) /\ settled' = settled
    BY <1>4, Releasing
  <2>2. executed[j] # 1
    BY <1>4 DEF ExecutionInv, Evident
  <2> QED
    BY <1>1, <1>2, <1>4, <2>1, <2>2, UnheldStep DEF JobStatus, TERMINAL_STATUSES
<1> QED
  BY <1>3, <1>4 DEF process_deadline

LEMMA RepairStep == ASSUME ProviderInv, NEW j \in Jobs, repair_redispatch(j) PROVE ProviderInv'
<1> USE DEF ProviderInv
<1>1. MovesMoneyOf(j) /\ settled' = settled /\ reserved'[j] = WorstCase
  BY Reserving DEF repair_redispatch
<1>2. \A w \in Workers : job[w] # j
  BY NotHeld DEF repair_redispatch
<1>3. repaired' \subseteq Jobs /\ settled \subseteq Jobs
  BY DEF repair_redispatch, TypeOK
<1> QED
  BY <1>1, <1>2, <1>3, UnheldStep DEF repair_redispatch, JobStatus

\* A cancellation, a business deadline and an outage touch none of the facts.
LEMMA EnvironmentStep ==
  ASSUME ProviderInv, (\E j \in Jobs : Cancel(j) \/ DeadlinePasses(j)) \/ Outage
  PROVE  ProviderInv'
<1> USE DEF ProviderInv
<1>1. /\ intent' \in [Jobs -> BOOLEAN] /\ late' \in [Jobs -> BOOLEAN] /\ up' \in BOOLEAN /\ used' = used
      /\ UNCHANGED <<status, evidence, ledger, circuit, repaired, workers, executed>>
  BY DEF TypeOK, Cancel, DeadlinePasses, Outage, jobVars, limiter
<1>2. TypeOK'
  BY <1>1 DEF TypeOK, ledger, circuit, workers
<1>3. DispatchInv' /\ ExecutionInv'
  BY <1>1 DEF DispatchInv, ExecutionInv, ledger, workers
<1>4. CountInv'
  BY <1>1 DEF CountInv, Holders, Probers, circuit, workers
<1> QED
  BY <1>2, <1>3, <1>4

\* A new recovery round has no probe in flight: every slot held is of an earlier round.
LEMMA HalfOpenStep == ASSUME ProviderInv, start_half_open PROVE ProviderInv'
<1> USE DEF ProviderInv
<1>1. TypeOK'
  BY BoundsAssumption DEF TypeOK, start_half_open, jobVars, ledger, limiter, workers
<1>2. DispatchInv' /\ ExecutionInv'
  BY DEF DispatchInv, ExecutionInv, start_half_open, jobVars, ledger, workers
<1>3. Holders' = Holders /\ used' = used
  BY DEF Holders, start_half_open, workers, limiter
<1>4. Probers' = {} /\ round' > 0 /\ \A w \in Workers : probe'[w] <= round'
  BY DEF TypeOK, CountInv, Probers, start_half_open, workers
<1>5. IsFiniteSet({}) /\ Cardinality({}) = 0 /\ probes' = 0
  BY FS_EmptySet DEF start_half_open
<1>6. CountInv'
  BY <1>3, <1>4, <1>5 DEF CountInv
<1> QED
  BY <1>1, <1>2, <1>6

-----------------------------------------------------------------------------
(***************************************************************************)
(* Steps of a worker.                                                      *)
(***************************************************************************)

LEMMA ClaimStep == ASSUME ProviderInv, NEW w \in Workers, NEW j \in Jobs, Claim(w, j) PROVE ProviderInv'
<1> USE DEF ProviderInv
<1>1. j # None /\ job[w] = None /\ \A v \in Workers : job[v] # j
  BY NotHeld, BoundsAssumption DEF Claim, DispatchInv
<1>2. TypeOK'
  <2>1. /\ status' \in [Jobs -> JobStatus] /\ pc' \in [Workers -> Steps]
        /\ job' \in [Workers -> Jobs \cup {None}]
    BY DEF TypeOK, Claim, SetStatus, JobStatus, Steps
  <2> QED
    BY <2>1 DEF TypeOK, Claim, ledger, limiter, circuit
<1>3. DispatchInv'
  <2>1. /\ pc'[w] = "facts" /\ job'[w] = j /\ status'[j] = "RUNNING" /\ permit'[w] = permit[w]
        /\ probe'[w] = probe[w] /\ ~permit[w] /\ probe[w] = 0
    BY DEF TypeOK, DispatchInv, Claim, SetStatus
  <2>2. ASSUME NEW v \in Workers, v # w
        PROVE  /\ pc'[v] = pc[v] /\ job'[v] = job[v] /\ permit'[v] = permit[v] /\ probe'[v] = probe[v]
               /\ job[v] # None => status'[job[v]] = status[job[v]]
    BY <1>1, <2>2 DEF TypeOK, Claim, SetStatus
  <2>3. UNCHANGED <<evidence, executed, reserved>>
    BY DEF Claim, ledger
  <2> QED
    BY <1>1, <2>1, <2>2, <2>3 DEF DispatchInv
<1>4. ExecutionInv'
  BY DEF ExecutionInv, Claim, ledger
<1>5. CountInv'
  BY CountsUntouched DEF Claim
<1> QED
  BY <1>2, <1>3, <1>4, <1>5

\* A worker goes on to its next question: nothing is taken, and what the next step relies on
\* was just read.
LEMMA GoingOn ==
  ASSUME ProviderInv, NEW w \in Workers, pc[w] \in {"facts", "hint", "permit", "afford"},
         NEW phase \in {"hint", "permit", "afford", "slot", "calling"},
         pc' = [pc EXCEPT ![w] = phase], cstate' \in [Workers -> {"CLOSED", "HALF_OPEN", None}],
         evidence[job[w]] = "none",
         phase \in {"hint", "permit"} => ~permit[w],
         phase \in {"slot", "calling"} => reserved[job[w]] = WorstCase,
         UNCHANGED <<jobVars, ledger, limiter, circuit, repaired, job, permit, probe, executed>>
  PROVE  ProviderInv'
<1> USE DEF ProviderInv
<1>1. TypeOK'
  BY DEF TypeOK, jobVars, ledger, limiter, circuit, Steps
<1>2. DispatchInv'
  <2>1. job[w] \in Jobs /\ job[w] # None /\ probe[w] = 0
    BY HeldJob DEF DispatchInv
  <2>2. executed[job[w]] = 0
    BY <2>1 DEF ExecutionInv, TypeOK
  <2>3. pc'[w] = phase /\ \A v \in Workers \ {w} : pc'[v] = pc[v]
    BY DEF TypeOK
  <2> QED
    BY <2>1, <2>2, <2>3 DEF DispatchInv, jobVars, ledger
<1>3. ExecutionInv'
  BY DEF ExecutionInv, jobVars, ledger
<1>4. CountInv'
  BY CountsUntouched
<1> QED
  BY <1>1, <1>2, <1>3, <1>4

\* A worker lets go of its Job with nothing in hand, before it called.
LEMMA GivingUp ==
  ASSUME ProviderInv, NEW w \in Workers, pc[w] = "facts", NEW s \in JobStatus,
         SetStatus(job[w], s), Leave(w), MovesMoneyOf(job[w]), settled' = settled,
         executed[job[w]] = 1 => reserved'[job[w]] = reserved[job[w]],
         UNCHANGED <<intent, evidence, late, limiter, circuit, repaired, executed>>
  PROVE  ProviderInv'
<1> USE DEF ProviderInv
<1>1. job[w] \in Jobs /\ ~permit[w] /\ probe[w] = 0
  BY HeldJob DEF DispatchInv
<1>2. TypeOK'
  <2>1. status' \in [Jobs -> JobStatus]
    BY <1>1 DEF TypeOK, SetStatus
  <2>2. /\ pc' \in [Workers -> Steps] /\ job' \in [Workers -> Jobs \cup {None}]
        /\ permit' \in [Workers -> BOOLEAN] /\ probe' \in [Workers -> 0 .. MaxRounds]
        /\ cstate' \in [Workers -> {"CLOSED", "HALF_OPEN", None}]
    BY BoundsAssumption DEF TypeOK, Leave, Steps
  <2> QED
    BY <2>1, <2>2 DEF TypeOK, MovesMoneyOf, limiter, circuit
<1>3. DispatchInv'
  BY LeavingDispatch DEF MovesMoneyOf
<1>4. ExecutionInv'
  BY <1>1 DEF ExecutionInv, MovesMoneyOf
<1>5. CountInv'
  BY <1>1, LeavingCount DEF limiter, circuit
<1> QED
  BY <1>2, <1>3, <1>4, <1>5

LEMMA FactsStep == ASSUME ProviderInv, NEW w \in Workers, EvaluateFacts(w) PROVE ProviderInv'
<1> USE DEF ProviderInv
<1> DEFINE j == job[w]
<1>1. pc[w] = "facts" /\ j \in Jobs /\ ~permit[w]
  BY HeldJob DEF EvaluateFacts, DispatchInv
<1>2. CASE \E s \in {"CANCELLED", "PENDING_RECONCILIATION"} :
             /\ SetStatus(j, s) /\ Leave(w)
             /\ UNCHANGED <<intent, evidence, late, ledger, limiter, circuit, repaired, executed>>
  <2>1. MovesMoneyOf(j) /\ settled' = settled /\ reserved' = reserved
    BY <1>1, <1>2, KeepingLedger DEF ledger
  <2>2. {"CANCELLED", "PENDING_RECONCILIATION"} \subseteq JobStatus
    BY DEF JobStatus, TERMINAL_STATUSES
  <2> QED
    BY <1>1, <1>2, <2>1, <2>2, GivingUp
<1>3. CASE /\ ~Evident(j) /\ release_reservation(j) /\ SetStatus(j, "EXPIRED") /\ Leave(w)
           /\ UNCHANGED <<intent, evidence, late, limiter, circuit, repaired, executed>>
  <2>1. MovesMoneyOf(j) /\ settled' = settled
    BY <1>1, <1>3, Releasing
  <2>2. executed[j] # 1
    BY <1>1, <1>3 DEF ExecutionInv, Evident
  <2>3. "EXPIRED" \in JobStatus
    BY DEF JobStatus, TERMINAL_STATUSES
  <2> QED
    BY <1>1, <1>3, <2>1, <2>2, <2>3, GivingUp
<1>4. CASE _defer(w) /\ UNCHANGED limiter
  BY <1>1, <1>4, Deferring
<1>5. CASE /\ ~Evident(j) /\ state # "OPEN"
           /\ cstate' = [cstate EXCEPT ![w] = state]
           /\ pc' = [pc EXCEPT ![w] = IF state = "HALF_OPEN" THEN "hint" ELSE "permit"]
           /\ UNCHANGED <<jobVars, ledger, limiter, circuit, repaired, job, permit, probe, executed>>
  <2> DEFINE phase == IF state = "HALF_OPEN" THEN "hint" ELSE "permit"
  <2>1. /\ cstate' \in [Workers -> {"CLOSED", "HALF_OPEN", None}] /\ phase \in {"hint", "permit"}
        /\ evidence[job[w]] = "none" /\ pc' = [pc EXCEPT ![w] = phase]
    BY <1>5 DEF TypeOK, Evident
  <2> HIDE DEF phase
  <2> QED
    BY <1>1, <1>5, <2>1, GoingOn
<1> QED
  BY <1>2, <1>3, <1>4, <1>5 DEF EvaluateFacts

LEMMA HintStep == ASSUME ProviderInv, NEW w \in Workers, ProbeHint(w) PROVE ProviderInv'
<1> USE DEF ProviderInv
<1>1. pc[w] = "hint" /\ ~permit[w] /\ evidence[job[w]] = "none"
  BY DEF ProbeHint, DispatchInv
<1>2. CASE Go(w, "permit") /\ UNCHANGED <<jobVars, ledger, limiter, circuit, repaired, executed>>
  BY <1>1, <1>2, GoingOn DEF Go, TypeOK
<1>3. CASE _defer(w) /\ UNCHANGED limiter
  BY <1>1, <1>3, Deferring
<1> QED
  BY <1>2, <1>3 DEF ProbeHint

\* The only step that takes a permit.
LEMMA PermitStep ==
  ASSUME ProviderInv, NEW w \in Workers, NEW open \in BOOLEAN, TakePermit(w, open)
  PROVE  ProviderInv'
<1> USE DEF ProviderInv
<1>1. pc[w] = "permit" /\ ~permit[w] /\ evidence[job[w]] = "none" /\ probe[w] = 0
  BY DEF TakePermit, DispatchInv
<1>2. CASE /\ up /\ used < Capacity
           /\ used' = used + 1 /\ permit' = [permit EXCEPT ![w] = TRUE]
           /\ pc' = [pc EXCEPT ![w] = "afford"]
           /\ UNCHANGED <<jobVars, ledger, up, circuit, repaired, job, cstate, probe, executed>>
  <2>1. TypeOK'
    BY <1>2, BoundsAssumption DEF TypeOK, jobVars, ledger, circuit, Steps
  <2>2. DispatchInv'
    BY <1>1, <1>2 DEF TypeOK, DispatchInv, jobVars, ledger
  <2>3. ExecutionInv'
    BY <1>2 DEF ExecutionInv, jobVars, ledger
  <2>4. Holders' = Holders \cup {w} /\ w \notin Holders /\ Probers' = Probers
    BY <1>1, <1>2 DEF TypeOK, Holders, Probers, circuit
  <2>5. /\ IsFiniteSet(Holders \cup {w}) /\ Cardinality(Holders \cup {w}) = Cardinality(Holders) + 1
        /\ used' = Cardinality(Holders) + 1
    BY <1>2, <2>4, FS_AddElement DEF CountInv
  <2>6. CountInv'
    BY <1>2, <2>4, <2>5 DEF CountInv, circuit
  <2> QED
    BY <2>1, <2>2, <2>3, <2>6
<1>3. CASE Go(w, "afford") /\ UNCHANGED <<jobVars, ledger, limiter, circuit, repaired, executed>>
  BY <1>1, <1>3, GoingOn DEF Go, TypeOK
<1>4. CASE _defer(w) /\ UNCHANGED limiter
  BY <1>1, <1>4, Deferring
<1> QED
  BY <1>2, <1>3, <1>4 DEF TakePermit

LEMMA ReservationStep == ASSUME ProviderInv, NEW w \in Workers, CheckReservation(w) PROVE ProviderInv'
<1> USE DEF ProviderInv
<1>1. pc[w] = "afford" /\ evidence[job[w]] = "none" /\ job[w] \in Jobs
  BY HeldJob DEF CheckReservation, DispatchInv
<1>2. CASE reserved[job[w]] > 0
  <2> DEFINE phase == IF cstate[w] = "HALF_OPEN" THEN "slot" ELSE "calling"
  <2>1. /\ phase \in {"slot", "calling"} /\ reserved[job[w]] = WorstCase
        /\ pc' = [pc EXCEPT ![w] = phase]
        /\ UNCHANGED <<jobVars, ledger, limiter, circuit, repaired, job, permit, cstate, probe, executed>>
    BY <1>1, <1>2 DEF CheckReservation, Go, TypeOK
  <2> HIDE DEF phase
  <2>2. cstate' \in [Workers -> {"CLOSED", "HALF_OPEN", None}]
    BY <2>1 DEF TypeOK
  <2> QED
    BY <1>1, <2>1, <2>2, GoingOn
<1>3. CASE ~(reserved[job[w]] > 0)
  BY <1>1, <1>3, Deferring DEF CheckReservation
<1> QED
  BY <1>2, <1>3

\* The only step that takes a probe slot, which is of the round under way.
LEMMA ProbeStep == ASSUME ProviderInv, NEW w \in Workers, try_acquire_probe(w) PROVE ProviderInv'
<1> USE DEF ProviderInv
<1>1. pc[w] = "slot" /\ evidence[job[w]] = "none" /\ job[w] \in Jobs /\ probe[w] = 0
  BY HeldJob DEF try_acquire_probe, DispatchInv
<1>2. CASE has_probe_capacity
  <2>1. /\ probes' = probes + 1 /\ probe' = [probe EXCEPT ![w] = round]
        /\ pc' = [pc EXCEPT ![w] = "calling"]
        /\ state = "HALF_OPEN" /\ probes < half_open_max_probes
        /\ UNCHANGED <<jobVars, ledger, limiter, state, fails, successes, round, repaired, job, permit,
                       cstate, executed>>
    BY <1>2 DEF try_acquire_probe, has_probe_capacity
  <2>2. TypeOK'
    BY <2>1, BoundsAssumption DEF TypeOK, jobVars, ledger, limiter, Steps
  <2>3. executed[job[w]] = 0
    BY <1>1 DEF ExecutionInv, TypeOK
  <2>4. DispatchInv'
    BY <1>1, <2>1, <2>3 DEF TypeOK, DispatchInv, jobVars, ledger
  <2>5. ExecutionInv'
    BY <2>1 DEF ExecutionInv, jobVars, ledger
  <2>6. /\ Holders' = Holders /\ Probers' = Probers \cup {w} /\ round > 0
        /\ \A v \in Workers : probe'[v] <= round'
    BY <2>1 DEF TypeOK, CountInv, Holders, Probers
  <2>7. w \notin Probers
    BY <1>1, <2>6 DEF TypeOK, Probers
  <2>8. /\ IsFiniteSet(Probers \cup {w}) /\ Cardinality(Probers \cup {w}) = Cardinality(Probers) + 1
        /\ probes <= Cardinality(Probers) /\ Cardinality(Probers) \in Nat /\ probes \in Nat
    BY <2>1, <2>7, FS_AddElement, FS_CardinalityType DEF CountInv, TypeOK
  <2>9. CountInv'
    BY <2>1, <2>6, <2>8 DEF CountInv, limiter
  <2> QED
    BY <2>2, <2>4, <2>5, <2>9
<1>3. CASE ~has_probe_capacity
  BY <1>1, <1>3, Deferring DEF try_acquire_probe
<1> QED
  BY <1>2, <1>3

LEMMA RequestIdStep ==
  ASSUME ProviderInv, NEW w \in Workers, record_provider_request_id(w)
  PROVE  ProviderInv'
<1> USE DEF ProviderInv
<1>1. job[w] \in Jobs /\ job[w] # None /\ pc[w] = "calling"
  BY HeldJob DEF record_provider_request_id
<1>2. /\ evidence' = [evidence EXCEPT ![job[w]] = "request_id"]
      /\ UNCHANGED <<status, intent, late, ledger, limiter, circuit, repaired, workers, executed>>
  BY DEF record_provider_request_id
<1>3. TypeOK'
  BY <1>1, <1>2 DEF TypeOK, ledger, limiter, circuit, workers
<1>4. DispatchInv'
  BY <1>1, <1>2 DEF TypeOK, DispatchInv, ledger, workers
<1>5. ExecutionInv'
  BY <1>1, <1>2 DEF TypeOK, ExecutionInv, ledger
<1>6. CountInv'
  BY <1>2, CountsUntouched DEF workers
<1> QED
  BY <1>3, <1>4, <1>5, <1>6

\* A call is over: whatever it may have executed left evidence and is settled or funded, its
\* permit is back and the circuit has heard of it.
LEMMA EndingCall ==
  ASSUME ProviderInv, NEW w \in Workers, pc[w] = "calling", NEW s \in JobStatus, NEW ok \in BOOLEAN,
         SetStatus(job[w], s), Leave(w), Report(w, ok), ReturnPermit(w), MovesMoneyOf(job[w]),
         settled \subseteq settled', settled' \subseteq Jobs, repaired' = repaired,
         evidence' \in [Jobs -> {"none", "marker", "request_id"}], executed' \in [Jobs -> Nat],
         \A i \in Jobs \ {job[w]} : evidence'[i] = evidence[i] /\ executed'[i] = executed[i],
         executed'[job[w]] <= 1,
         executed'[job[w]] = 1 => /\ evidence'[job[w]] # "none"
                                  /\ job[w] \notin settled' => reserved'[job[w]] = WorstCase,
         UNCHANGED <<intent, late>>
  PROVE  ProviderInv'
<1> USE DEF ProviderInv
<1>1. job[w] \in Jobs
  BY HeldJob
<1>2. /\ state' \in {"CLOSED", "OPEN", "HALF_OPEN"} /\ {fails', successes'} \subseteq Nat
      /\ probes' \in 0 .. half_open_max_probes /\ round' = round
      /\ state' = "HALF_OPEN" => state = "HALF_OPEN"
      /\ probes' = IF probe[w] > 0 /\ probes > 0 THEN probes - 1 ELSE probes
  BY Reporting
<1>3. /\ up' = up /\ used' \in 0 .. Capacity
      /\ used' = IF permit[w] /\ used > 0 THEN used - 1 ELSE used
  BY Returning
<1>4. TypeOK'
  <2>1. status' \in [Jobs -> JobStatus]
    BY <1>1 DEF TypeOK, SetStatus
  <2>2. /\ pc' \in [Workers -> Steps] /\ job' \in [Workers -> Jobs \cup {None}]
        /\ permit' \in [Workers -> BOOLEAN] /\ probe' \in [Workers -> 0 .. MaxRounds]
        /\ cstate' \in [Workers -> {"CLOSED", "HALF_OPEN", None}]
    BY BoundsAssumption DEF TypeOK, Leave, Steps
  <2> QED
    BY <1>2, <1>3, <2>1, <2>2 DEF TypeOK, MovesMoneyOf
<1>5. DispatchInv'
  BY LeavingDispatch DEF MovesMoneyOf
<1>6. ExecutionInv'
  BY <1>1 DEF ExecutionInv, MovesMoneyOf
<1>7. CountInv'
  BY <1>2, <1>3, LeavingCount
<1> QED
  BY <1>4, <1>5, <1>6, <1>7

LEMMA SuccessStep ==
  ASSUME ProviderInv, NEW w \in Workers, NEW spent \in Costs, CallSucceeds(w, spent)
  PROVE  ProviderInv'
<1> USE DEF ProviderInv
<1> DEFINE j == job[w]
<1>1. pc[w] = "calling" /\ j \in Jobs /\ executed[j] = 0 /\ evidence[j] = "request_id"
  BY HeldJob DEF CallSucceeds, DispatchInv
<1>2. MovesMoneyOf(j) /\ settled' = settled \cup {j}
  BY <1>1, Settling DEF CallSucceeds
<1>3. /\ executed' \in [Jobs -> Nat] /\ executed'[j] = 1 /\ executed'[j] <= 1 /\ evidence'[j] # "none"
      /\ \A i \in Jobs \ {j} : evidence'[i] = evidence[i] /\ executed'[i] = executed[i]
      /\ evidence' \in [Jobs -> {"none", "marker", "request_id"}]
      /\ settled \subseteq settled' /\ settled' \subseteq Jobs
  BY <1>1, <1>2 DEF CallSucceeds, TypeOK
<1>4. "SUCCEEDED" \in JobStatus
  BY DEF JobStatus, TERMINAL_STATUSES
<1>5. /\ SetStatus(j, "SUCCEEDED") /\ Leave(w) /\ Report(w, TRUE) /\ ReturnPermit(w)
      /\ repaired' = repaired /\ UNCHANGED <<intent, late>>
  BY DEF CallSucceeds
<1> QED
  BY <1>1, <1>2, <1>3, <1>4, <1>5, EndingCall, Zenon

LEMMA FailureStep ==
  ASSUME ProviderInv, NEW w \in Workers, NEW certainty, CallFails(w, certainty)
  PROVE  ProviderInv'
<1> USE DEF ProviderInv
<1> DEFINE j == job[w]
<1>1. pc[w] = "calling" /\ j \in Jobs /\ executed[j] = 0 /\ reserved[j] = WorstCase
  BY HeldJob DEF CallFails, DispatchInv
<1>2. MovesMoneyOf(j) /\ settled' = settled /\ settled \subseteq Jobs /\ reserved' = reserved
  BY <1>1, KeepingLedger DEF CallFails, TypeOK, ledger
<1>3. /\ Leave(w) /\ Report(w, FALSE) /\ ReturnPermit(w)
      /\ repaired' = repaired /\ UNCHANGED <<intent, late>>
  BY DEF CallFails
<1>4. {"DEFERRED", "PENDING_RECONCILIATION"} \subseteq JobStatus
  BY DEF JobStatus
<1>5. CASE certainty = "DEFINITELY_NOT_ACCEPTED"
  <2>1. SetStatus(j, "DEFERRED") /\ UNCHANGED <<evidence, executed>>
    BY <1>5 DEF CallFails
  <2>2. /\ evidence' \in [Jobs -> {"none", "marker", "request_id"}] /\ executed' \in [Jobs -> Nat]
        /\ \A i \in Jobs \ {j} : evidence'[i] = evidence[i] /\ executed'[i] = executed[i]
        /\ executed'[j] # 1 /\ executed'[j] <= 1
    BY <1>1, <2>1 DEF TypeOK
  <2>3. /\ settled \subseteq settled' /\ settled' \subseteq Jobs
        /\ "DEFERRED" \in JobStatus /\ "PENDING_RECONCILIATION" \in JobStatus
    BY <1>2, <1>4
  <2> QED
    BY <1>1, <1>2, <1>3, <2>1, <2>2, <2>3, EndingCall, Zenon
<1>6. CASE certainty # "DEFINITELY_NOT_ACCEPTED"
  <2>1. /\ SetStatus(j, "PENDING_RECONCILIATION")
        /\ evidence' = [evidence EXCEPT ![j] = IF @ = "none" THEN "marker" ELSE @]
        /\ executed' = [executed EXCEPT ![j] = @ + 1]
    BY <1>6 DEF CallFails
  <2>2. /\ evidence' \in [Jobs -> {"none", "marker", "request_id"}] /\ executed' \in [Jobs -> Nat]
        /\ \A i \in Jobs \ {j} : evidence'[i] = evidence[i] /\ executed'[i] = executed[i]
        /\ evidence'[j] # "none" /\ executed'[j] <= 1 /\ reserved'[j] = WorstCase
    BY <1>1, <1>2, <2>1 DEF TypeOK
  <2>3. /\ settled \subseteq settled' /\ settled' \subseteq Jobs
        /\ "DEFERRED" \in JobStatus /\ "PENDING_RECONCILIATION" \in JobStatus
    BY <1>2, <1>4
  <2> QED
    BY <1>1, <1>2, <1>3, <2>1, <2>2, <2>3, EndingCall, Zenon
<1> QED
  BY <1>5, <1>6

-----------------------------------------------------------------------------
(***************************************************************************)
(* The theorems about the control plane.                                   *)
(***************************************************************************)

\* Every step of evaluate_dispatch, of the recovery boundary and of their environment keeps
\* the invariant, and moves money within the account of one Job or not at all.
LEMMA ProviderInitially == Init => ProviderInv
<1> SUFFICES ASSUME Init PROVE ProviderInv
  OBVIOUS
<1>1. TypeOK
  BY BoundsAssumption DEF Init, TypeOK, JobStatus, Steps
<1>2. DispatchInv /\ ExecutionInv
  BY DEF Init, DispatchInv, ExecutionInv
<1>3. Holders = {} /\ IsFiniteSet({}) /\ Cardinality({}) = 0
  BY FS_EmptySet DEF Init, Holders
<1>4. CountInv
  BY <1>3 DEF Init, CountInv
<1> QED
  BY <1>1, <1>2, <1>4 DEF ProviderInv

LEMMA ProviderNext == ASSUME ProviderInv, [Next]_vars PROVE ProviderInv'
<1>1. CASE UNCHANGED vars
  BY <1>1 DEF ProviderInv, TypeOK, DispatchInv, ExecutionInv, CountInv, Holders, Probers, vars, jobVars,
              ledger, limiter, circuit, workers
<1>2. ASSUME NEW j \in Jobs, Accept(j) \/ \E c \in Costs : LateCompletion(j, c) PROVE ProviderInv'
  BY <1>2, AcceptStep, LateCompletionStep
<1>3. ASSUME NEW j \in Disturbed,
             process_deadline(j) \/ repair_redispatch(j) \/ Cancel(j) \/ DeadlinePasses(j)
      PROVE  ProviderInv'
  <2>1. j \in Jobs
    BY BoundsAssumption
  <2> QED
    BY <1>3, <2>1, DeadlineStep, RepairStep, EnvironmentStep
<1>4. ASSUME NEW w \in Workers,
             \/ \E j \in Jobs : Claim(w, j)
             \/ EvaluateFacts(w) \/ ProbeHint(w)
             \/ \E o \in BOOLEAN : TakePermit(w, o)
             \/ CheckReservation(w) \/ try_acquire_probe(w)
             \/ record_provider_request_id(w)
             \/ \E c \in Costs : CallSucceeds(w, c)
             \/ \E c \in {"DEFINITELY_NOT_ACCEPTED", "MAY_HAVE_EXECUTED", "UNKNOWN"} : CallFails(w, c)
      PROVE  ProviderInv'
  BY <1>4, ClaimStep, FactsStep, HintStep, PermitStep, ReservationStep, ProbeStep, RequestIdStep,
     SuccessStep, FailureStep
<1>5. CASE start_half_open \/ Outage
  BY <1>5, HalfOpenStep, EnvironmentStep
<1> QED
  BY <1>1, <1>2, <1>3, <1>4, <1>5 DEF Next

\* evaluate_dispatch keeps, for any number of Jobs and workers: types, what each step relies
\* on, evidence of every execution, and counts that match what is held.
THEOREM ProviderInvariant == Spec => []ProviderInv
<1>1. ProviderInv /\ [Next]_vars => ProviderInv'
  BY ProviderNext
<1> QED
  BY <1>1, ProviderInitially, PTL DEF Spec

\* No early return of evaluate_dispatch and no end of a call leaks a permit or a probe slot,
\* or returns one twice.
THEOREM PermitsAreAccountedFor == Spec => []PermitsAccountedFor
<1>1. ProviderInv => PermitsAccountedFor
  BY DEF ProviderInv, CountInv, PermitsAccountedFor, Holders, Probers
<1> QED
  BY <1>1, ProviderInvariant, PTL

\* A Job may execute at the provider at most once, and its reservation is held until the
\* execution is settled.
THEOREM ExecutionsStayFunded == Spec => []UncertainStaysFunded
<1>1. ProviderInv => UncertainStaysFunded
  BY DEF ProviderInv, ExecutionInv, UncertainStaysFunded
<1> QED
  BY <1>1, ProviderInvariant, PTL

\* Double entry, the step from which the conservation of the balance follows: what a step takes
\* from the tenant's available balance, from a reservation or from a charge reappears in
\* another of the three accounts of the same Job, and no other Job's money moves.
DoubleEntry == UNCHANGED ledger \/ \E j \in Jobs : MovesMoneyOf(j)

\* Every operation of the ledger that a run of the backend performs is such a double entry.
THEOREM MoneyIsNeitherMadeNorLost == Spec => [][DoubleEntry]_vars
<1>1. ASSUME ProviderInv, Next PROVE DoubleEntry
  <2> USE DEF ProviderInv
  <2>1. ASSUME NEW j \in Jobs, Accept(j) PROVE DoubleEntry
    BY <1>1, <2>1, Reserving DEF Accept, DoubleEntry
  <2>2. ASSUME NEW j \in Jobs, NEW c \in Costs, LateCompletion(j, c) PROVE DoubleEntry
    BY <1>1, <2>2, Settling DEF LateCompletion, DoubleEntry
  <2>3. ASSUME NEW j \in Disturbed,
               process_deadline(j) \/ repair_redispatch(j) \/ Cancel(j) \/ DeadlinePasses(j)
        PROVE  DoubleEntry
    <3>1. j \in Jobs
      BY BoundsAssumption
    <3> QED
      BY <1>1, <2>3, <3>1, Releasing, Reserving
         DEF process_deadline, repair_redispatch, Cancel, DeadlinePasses, DoubleEntry
  <2>4. ASSUME NEW w \in Workers, EvaluateFacts(w) PROVE DoubleEntry
    <3>1. job[w] \in Jobs
      BY <1>1, <2>4, HeldJob DEF EvaluateFacts
    <3> QED
      BY <1>1, <2>4, <3>1, Releasing DEF EvaluateFacts, _defer, DoubleEntry
  <2>5. ASSUME NEW w \in Workers, NEW c \in Costs, CallSucceeds(w, c) PROVE DoubleEntry
    <3>1. job[w] \in Jobs
      BY <1>1, <2>5, HeldJob DEF CallSucceeds
    <3> QED
      BY <1>1, <2>5, <3>1, Settling DEF CallSucceeds, DoubleEntry
  <2>6. ASSUME NEW w \in Workers,
               \/ \E j \in Jobs : Claim(w, j)
               \/ ProbeHint(w) \/ \E o \in BOOLEAN : TakePermit(w, o)
               \/ CheckReservation(w) \/ try_acquire_probe(w) \/ record_provider_request_id(w)
               \/ \E c \in {"DEFINITELY_NOT_ACCEPTED", "MAY_HAVE_EXECUTED", "UNKNOWN"} : CallFails(w, c)
        PROVE  DoubleEntry
    BY <2>6 DEF Claim, ProbeHint, TakePermit, CheckReservation, try_acquire_probe, _defer,
                record_provider_request_id, CallFails, DoubleEntry
  <2>7. CASE start_half_open \/ Outage
    BY <2>7 DEF start_half_open, Outage, DoubleEntry
  <2> QED
    BY <1>1, <2>1, <2>2, <2>3, <2>4, <2>5, <2>6, <2>7 DEF Next
<1>2. ProviderInv /\ [Next]_vars => [DoubleEntry]_vars
  BY <1>1
<1> QED
  BY <1>2, ProviderInvariant, PTL DEF Spec

\* The sum of LedgerConserved in terms of Total.
Conserved == available + Total(reserved) + Total(charged) = Balance

\* With what is available typed as a natural number, both say the same.
LEMMA ConservedIsLedger == TypeOK => (Conserved <=> LedgerConserved)
<1>1. TypeOK => available >= 0
  BY DEF TypeOK
<1>2. LedgerConserved <=> available >= 0 /\ Conserved
  BY Zenon DEF Conserved, LedgerConserved, Total
<1> QED
  BY <1>1, <1>2

\* A step that moves the money of one Job changes one term of each sum, by amounts that cancel.
LEMMA ConservedStep ==
  ASSUME TypeOK, TypeOK', DoubleEntry, Conserved
  PROVE  Conserved'
<1>1. CASE UNCHANGED ledger
  BY <1>1 DEF ledger, Conserved
<1>2. ASSUME NEW j \in Jobs, MovesMoneyOf(j) PROVE Conserved'
  <2>1. /\ reserved \in [Jobs -> Int] /\ charged \in [Jobs -> Int] /\ available \in Int
        /\ reserved' \in [Jobs -> Int] /\ charged' \in [Jobs -> Int] /\ available' \in Int
    BY BoundsAssumption DEF TypeOK
  <2>2. /\ Total(reserved) \in Int
        /\ Total(reserved') = Total(reserved) - reserved[j] + reserved'[j]
    <3>1. \A i \in Jobs \ {j} : reserved'[i] = reserved[i]
      BY <1>2 DEF MovesMoneyOf
    <3> QED
      BY <2>1, <3>1, BoundsAssumption, SumOfUpdate
  <2>3. /\ Total(charged) \in Int
        /\ Total(charged') = Total(charged) - charged[j] + charged'[j]
    <3>1. \A i \in Jobs \ {j} : charged'[i] = charged[i]
      BY <1>2 DEF MovesMoneyOf
    <3> QED
      BY <2>1, <3>1, BoundsAssumption, SumOfUpdate
  <2>4. reserved[j] \in Int /\ reserved'[j] \in Int /\ charged[j] \in Int /\ charged'[j] \in Int /\ Balance \in Int
    BY <2>1, BoundsAssumption
  <2>5. available' + reserved'[j] + charged'[j] = available + reserved[j] + charged[j]
    BY <1>2 DEF MovesMoneyOf
  <2>6. available' + Total(reserved') + Total(charged') = Balance
    BY <2>1, <2>2, <2>3, <2>4, <2>5 DEF Conserved
  <2> QED
    BY <2>6 DEF Conserved
<1> QED
  BY <1>1, <1>2 DEF DoubleEntry

\* BudgetLedger: what is available, what is reserved and what is charged for all Jobs always add up to
\* the balance and the tenant is never overdrawn, whatever the workers, the deadlines, the late completions and the repairs interleave to.
THEOREM MoneyIsConserved == Spec => []LedgerConserved
<1>1. Init => Conserved
  <2> SUFFICES ASSUME Init PROVE Conserved
    OBVIOUS
  <2>1. available = Balance /\ reserved = [j \in Jobs |-> 0] /\ charged = [j \in Jobs |-> 0]
    BY DEF Init
  <2>2. Total([j \in Jobs |-> 0]) = 0
    BY BoundsAssumption, SumOfZeros
  <2> QED
    BY <2>1, <2>2, BoundsAssumption DEF Conserved
<1>2. Conserved /\ ProviderInv /\ ProviderInv' /\ [DoubleEntry]_vars => Conserved'
  <2> SUFFICES ASSUME Conserved, ProviderInv, ProviderInv', [DoubleEntry]_vars PROVE Conserved'
    OBVIOUS
  <2>1. CASE DoubleEntry
    BY <2>1, ConservedStep DEF ProviderInv
  <2>2. CASE UNCHANGED vars
    BY <2>2 DEF vars, ledger, Conserved
  <2> QED
    BY <2>1, <2>2
<1>3. Conserved /\ ProviderInv => LedgerConserved
  BY ConservedIsLedger DEF ProviderInv
<1> QED
  BY <1>1, <1>2, <1>3, ProviderInvariant, MoneyIsNeitherMadeNorLost, PTL DEF Spec

-----------------------------------------------------------------------------
(***************************************************************************)
(* Uploads and acceptance.                                                 *)
(***************************************************************************)

SessionRow == [state : {"initiated", "uploading", "verifying", "verified", "failed", "expired"},
               bound : Nat, owner : Verifiers \cup {Nobody}, hold : Nat]
Finalization == [at : {"idle", "inspect", "claim", "scan"}, t0 : Nat, seen : Nat]
Cleanup == [at : {"idle", "inspect", "bind", "delete"}, bound : Nat, seen : Nat]

\* Types; every stored version was numbered by the storage.
UploadTypeOK ==
    /\ session \in SessionRow /\ document \in Nat /\ puts \in Nat /\ now \in Nat
    /\ objects \subseteq [version : Nat \ {0}, bytes : {"expected", "other"}]
    /\ \A o \in objects : o.version <= puts
    /\ verifier \in [Verifiers -> Finalization] /\ cleaner \in [Cleaners -> Cleanup]

Stored(version) == version # 0 /\ [version |-> version, bytes |-> "expected"] \in objects

\* The durable decision comes first: a cleanup under way means an expired session without a
\* Document, for good.
CleanupInv == \A c \in Cleaners : cleaner[c].at # "idle" => session.state = "expired" /\ document = 0

\* Until then, what a verifier inspected is still there.
InspectedInv ==
    session.state # "expired" =>
        \A v \in Verifiers : verifier[v].at \in {"claim", "scan"} => Stored(verifier[v].seen)

DocumentInv ==
    document # 0 => session.state = "verified" /\ session.bound = document /\ Stored(document)

UploadInv == UploadTypeOK /\ CleanupInv /\ InspectedInv /\ DocumentInv

JobRecord == [status : {"none", "queued", "running"}, request : DOMAIN Requests \cup {Nobody}]
OutboxRecord == [state : {"none", "unpublished", "published", "quarantined"}, attempts : Nat,
                 due : {outbox.due}, owner : Relays \cup {Nobody}, hold : Nat]
Command == [at : {"idle", "arbiter", "created", "returned_existing", "conflict"},
            request : DOMAIN Requests \cup {Nobody}]
Pass == [at : {"idle", "publish", "checkpoint"}, t : Nat]

IntakeTypeOK ==
    /\ jobRow \in JobRecord /\ outbox \in OutboxRecord /\ sent \in BOOLEAN
    /\ client \in [Clients -> Command] /\ relay \in [Relays -> Pass]

Admitted(request) == \A d \in Requests[request] : is_verified_and_owned(d)

\* Admission survives until the arbiter, since a Document is never withdrawn, and the Job was
\* inserted by a client that had passed it.
AdmittedInv ==
    /\ \A c \in Clients : client[c].at = "arbiter" => Admitted(client[c].request)
    /\ jobRow.status = "none" => jobRow = NoJob
    /\ jobRow # NoJob => Admitted(jobRow.request)

\* What a client was told is about the Job that is there.
ToldInv ==
    \A c \in Clients : client[c].at \in {"created", "returned_existing"} =>
                           jobRow # NoJob /\ jobRow.request = client[c].request

\* The dispatch of a Job is owed, made or quarantined.  Only an unpublished row is leased and
\* only after its publication does a relay checkpoint, so a late relay loses nothing.
OutboxInv ==
    /\ jobRow # NoJob => \/ sent \/ outbox.state = "unpublished"
                         \/ outbox.state = "quarantined" /\ outbox.attempts = MaxAttempts
    /\ \A r \in Relays : relay[r].at = "checkpoint" => sent
    /\ outbox.owner # Nobody => outbox.state = "unpublished"
    /\ outbox.state = "unpublished" => outbox.attempts < MaxAttempts

BackendInv == UploadInv /\ IntakeTypeOK /\ AdmittedInv /\ ToldInv /\ OutboxInv

\* inspect_object answers with a version that is stored, or with Absent.
LEMMA Inspecting ==
  ASSUME UploadTypeOK, NEW version
  PROVE  inspect_object(version) \in objects \cup {Absent}
<1> DEFINE found == {o \in objects : version \in {0, o.version}} \cup {Absent}
           gaps == {n \in Nat : \E o \in found : n = puts - o.version}
<1>1. \A o \in found : o.version \in Nat /\ o.version <= puts
  BY DEF UploadTypeOK, Absent
<1>2. Absent \in found /\ puts \in Nat
  BY DEF UploadTypeOK
<1> HIDE DEF found
<1>3. gaps \subseteq Nat /\ gaps # {}
  <2>1. puts - Absent.version \in gaps
    BY <1>1, <1>2
  <2> QED
    BY <2>1
<1>4. PICK n \in gaps : \A m \in gaps : n <= m
  BY <1>3, LeastNumber
<1>5. PICK o \in found : n = puts - o.version
  OBVIOUS
<1>6. \A p \in found : p.version <= o.version
  <2> SUFFICES ASSUME NEW p \in found PROVE p.version <= o.version
    OBVIOUS
  <2>1. puts - p.version \in gaps
    BY <1>1, <1>2
  <2> QED
    BY <1>1, <1>2, <1>4, <1>5, <2>1
<1>7. inspect_object(version) = CHOOSE q \in found : \A p \in found : p.version <= q.version
  BY Zenon DEF inspect_object, found
<1>8. inspect_object(version) \in found
  BY <1>6, <1>7
<1> QED
  BY <1>8 DEF found

\* Only a session that nothing protects is given up.
LEMMA Orphaned ==
  ASSUME classify_cleanup = "DELETE_ORPHAN"
  PROVE  session.state # "verified" /\ document = 0
<1> DEFINE a1 == session.state = "verified"
           a2 == document # 0
           a3 == session.state = "verifying" /\ now < session.hold
           a4 == now < cleanup_not_before
           rules == << <<a1, "KEEP_VERIFIED">>, <<a2, "KEEP_HAS_DOCUMENT">>,
                       <<a3, "KEEP_VERIFICATION_HOLD">>, <<a4, "KEEP_TOO_EARLY">>,
                       <<TRUE, "DELETE_ORPHAN">> >>
<1>1. classify_cleanup = FirstMatch(rules)
  BY Zenon DEF classify_cleanup
<1> HIDE DEF a1, a2, a3, a4
<1>2. DOMAIN rules = 1 .. 5
  OBVIOUS
<1>3. /\ rules[1] = <<a1, "KEEP_VERIFIED">> /\ rules[2] = <<a2, "KEEP_HAS_DOCUMENT">>
      /\ rules[3] = <<a3, "KEEP_VERIFICATION_HOLD">> /\ rules[4] = <<a4, "KEEP_TOO_EARLY">>
      /\ rules[5] = <<TRUE, "DELETE_ORPHAN">>
  OBVIOUS
<1> HIDE DEF rules
<1>4. PICK i \in 1 .. 5 :
         /\ rules[i][1]
         /\ \A k \in 1 .. i - 1 : ~rules[k][1]
         /\ FirstMatch(rules) = rules[i][2]
  <2>1. 5 \in Nat /\ 5 > 0 /\ rules[5][1]
    BY <1>3
  <2> QED
    BY <1>2, <2>1, FirstMatchApplies, Zenon
<1>5. i = 5
  BY <1>1, <1>3, <1>4
<1>6. ~a1 /\ ~a2
  BY <1>3, <1>4, <1>5
<1> QED
  BY <1>6 DEF a1, a2

LEMMA PutStep ==
  ASSUME UploadInv, NEW bytes \in {"expected", "other"}, put_object(bytes)
  PROVE  UploadInv' /\ document' = document
<1> USE DEF UploadInv
<1> DEFINE o == [version |-> puts + 1, bytes |-> bytes]
<1>1. /\ puts' = puts + 1 /\ objects' = objects \cup {o}
      /\ UNCHANGED <<session, document, now, verifier, cleaner>>
  BY DEF put_object
<1>2. puts \in Nat /\ o \in [version : Nat \ {0}, bytes : {"expected", "other"}] /\ o.version = puts + 1
  BY DEF UploadTypeOK
<1> HIDE DEF o
<1>3. UploadTypeOK'
  BY <1>1, <1>2 DEF UploadTypeOK
<1>4. CleanupInv' /\ InspectedInv' /\ DocumentInv'
  BY <1>1 DEF CleanupInv, InspectedInv, DocumentInv, Stored
<1> QED
  BY <1>1, <1>3, <1>4

\* A verifier's steps that leave the row alone.
LEMMA VerifierMoves ==
  ASSUME UploadInv, NEW v \in Verifiers, NEW f \in Finalization, verifier' = [verifier EXCEPT ![v] = f],
         f.at \in {"claim", "scan"} /\ session.state # "expired" => Stored(f.seen),
         UNCHANGED <<session, document, objects, puts, now, cleaner>>
  PROVE  UploadInv'
<1> USE DEF UploadInv
<1>1. UploadTypeOK'
  BY DEF UploadTypeOK
<1>2. CleanupInv' /\ DocumentInv'
  BY DEF CleanupInv, DocumentInv, Stored
<1>3. InspectedInv'
  BY DEF UploadTypeOK, InspectedInv, Stored
<1> QED
  BY <1>1, <1>2, <1>3

LEMMA FinalizeSteps ==
  ASSUME UploadInv, NEW v \in Verifiers, StartFinalize(v) \/ InspectUpload(v) \/ VerifierDies(v)
  PROVE  UploadInv' /\ document' = document
<1> USE DEF UploadInv
<1>1. /\ verifier[v] \in Finalization /\ now \in Nat /\ NoVerification \in Finalization
      /\ NoVerification.at = "idle"
  BY DEF UploadTypeOK, Finalization, NoVerification
<1>2. CASE StartFinalize(v)
  <2> DEFINE f == [at |-> "inspect", t0 |-> now, seen |-> 0]
  <2>1. f \in Finalization /\ f.at = "inspect"
    BY <1>1 DEF Finalization
  <2>2. /\ verifier' = [verifier EXCEPT ![v] = f]
        /\ UNCHANGED <<session, document, objects, puts, now, cleaner>>
    BY <1>2, Zenon DEF StartFinalize
  <2> HIDE DEF f
  <2> QED
    BY <2>1, <2>2, VerifierMoves
<1>3. CASE EndsFinalize(v) /\ UNCHANGED <<session, document, objects, puts, now, cleaner>>
  BY <1>1, <1>3, VerifierMoves DEF EndsFinalize
<1>4. CASE InspectUpload(v) /\ verify_object(inspect_object(session.bound))
  <2> DEFINE observed == inspect_object(session.bound)
             f == [verifier[v] EXCEPT !.at = "claim", !.seen = observed.version]
  <2>1. observed \in objects /\ observed.bytes = "expected"
    BY <1>4, Inspecting DEF verify_object
  <2>2. /\ verifier' = [verifier EXCEPT ![v].at = "claim", ![v].seen = observed.version]
        /\ UNCHANGED <<session, document, objects, puts, now, cleaner>>
    BY <1>4 DEF InspectUpload
  <2> HIDE DEF observed
  <2>3. /\ observed.version \in Nat \ {0}
        /\ observed = [version |-> observed.version, bytes |-> "expected"]
    BY <2>1 DEF UploadTypeOK
  <2>4. Stored(observed.version)
    BY <2>1, <2>3 DEF Stored
  <2>5. f \in Finalization /\ f.seen = observed.version
    BY <1>1, <2>3 DEF Finalization
  <2>6. verifier' = [verifier EXCEPT ![v] = f]
    BY <1>1, <2>2 DEF UploadTypeOK, Finalization
  <2> HIDE DEF f
  <2> QED
    BY <2>2, <2>4, <2>5, <2>6, VerifierMoves
<1> QED
  BY <1>2, <1>3, <1>4 DEF InspectUpload, VerifierDies

\* The lease and the version: the row names what the verifier saw.
LEMMA ClaimVerificationStep ==
  ASSUME UploadInv, NEW v \in Verifiers, claim_verification(v)
  PROVE  UploadInv' /\ document' = document
<1> USE DEF UploadInv
<1>1. verifier[v] \in Finalization /\ NoVerification \in Finalization /\ NoVerification.at = "idle"
  BY DEF UploadTypeOK, Finalization, NoVerification
<1>2. CASE ~Claimable(v)
  BY <1>1, <1>2, VerifierMoves DEF claim_verification, EndsFinalize
<1>3. CASE Claimable(v)
  <2> DEFINE row == [state |-> "verifying", bound |-> verifier[v].seen, owner |-> v,
                     hold |-> verifier[v].t0 + HoldTtl]
             f == [verifier[v] EXCEPT !.at = "scan"]
  <2>1. /\ session' = row /\ verifier' = [verifier EXCEPT ![v] = f]
        /\ UNCHANGED <<document, objects, puts, now, cleaner>>
    BY <1>3 DEF claim_verification
  <2>2. /\ row \in SessionRow /\ row.state = "verifying" /\ f \in Finalization
        /\ f.at = "scan" /\ f.seen = verifier[v].seen
    BY <1>1, UploadAssumption DEF SessionRow, Finalization
  <2> HIDE DEF row, f
  <2>3. session.state \in {"uploading", "verifying"} /\ verifier[v].at = "claim"
    BY <1>3 DEF Claimable, claim_verification, COMPLETABLE_STATES
  <2>4. UploadTypeOK'
    BY <2>1, <2>2 DEF UploadTypeOK
  <2>5. CleanupInv' /\ DocumentInv'
    BY <2>1, <2>2, <2>3 DEF CleanupInv, DocumentInv
  <2>6. InspectedInv'
    BY <2>1, <2>2, <2>3 DEF UploadTypeOK, InspectedInv, Stored
  <2> QED
    BY <2>1, <2>4, <2>5, <2>6
<1> QED
  BY <1>2, <1>3 DEF claim_verification

\* The guarded write after a scan.
LEMMA ScanStep ==
  ASSUME UploadInv, NEW v \in Verifiers, NEW held \in BOOLEAN, NEW row, NEW doc, EndScan(v, held, row, doc),
         held => /\ session.state = "verifying" /\ row \in SessionRow /\ row.state # "expired"
                 /\ \/ doc = document
                    \/ row.state = "verified" /\ row.bound = doc /\ doc = verifier[v].seen
  PROVE  UploadInv' /\ (document # 0 => document' # 0)
<1> USE DEF UploadInv
<1>1. verifier[v] \in Finalization /\ NoVerification \in Finalization /\ NoVerification.at = "idle"
  BY DEF UploadTypeOK, Finalization, NoVerification
<1>2. CASE ~held
  BY <1>1, <1>2, VerifierMoves DEF EndScan, EndsFinalize
<1>3. CASE held
  <2>1. /\ session' = row /\ document' = doc /\ verifier' = [verifier EXCEPT ![v] = NoVerification]
        /\ UNCHANGED <<objects, puts, now, cleaner>> /\ verifier[v].at = "scan"
    BY <1>3 DEF EndScan, EndsFinalize
  <2>2. document = 0 /\ Stored(verifier[v].seen) /\ verifier[v].seen \in Nat
    BY <1>1, <1>3, <2>1 DEF DocumentInv, InspectedInv, Finalization
  <2>3. UploadTypeOK'
    BY <1>1, <1>3, <2>1, <2>2 DEF UploadTypeOK
  <2>4. CleanupInv'
    BY <1>3, <2>1 DEF CleanupInv
  <2>5. InspectedInv'
    BY <1>1, <1>3, <2>1 DEF UploadTypeOK, InspectedInv, Stored
  <2>6. DocumentInv'
    BY <1>3, <2>1, <2>2 DEF DocumentInv, Stored
  <2> QED
    BY <2>2, <2>3, <2>4, <2>5, <2>6
<1> QED
  BY <1>2, <1>3

LEMMA EndOfScan ==
  ASSUME UploadInv, NEW v \in Verifiers,
         renew_verification_hold(v) \/ fail_verification_if_owner(v) \/ commit_document_if_owner(v)
  PROVE  UploadInv' /\ (document # 0 => document' # 0)
<1>1. /\ session \in SessionRow /\ now + HoldTtl \in Nat /\ verifier[v].seen \in Nat
  BY UploadAssumption DEF UploadInv, UploadTypeOK, Finalization
<1>2. CASE renew_verification_hold(v)
  <2> DEFINE held == HoldsSession(v) /\ now < SessionExpires
             row == [session EXCEPT !.hold = now + HoldTtl]
  <2>1. held \in BOOLEAN /\ (held => session.state = "verifying")
    BY DEF HoldsSession
  <2>2. row \in SessionRow /\ row.state = session.state
    BY <1>1 DEF SessionRow
  <2>3. EndScan(v, held, row, document)
    BY <1>2, Zenon DEF renew_verification_hold
  <2> HIDE DEF held, row
  <2> QED
    BY <2>1, <2>2, <2>3, ScanStep
<1>3. CASE fail_verification_if_owner(v)
  <2> DEFINE held == HoldsSession(v)
             row == [session EXCEPT !.state = "failed", !.owner = Nobody, !.hold = 0]
  <2>1. held \in BOOLEAN /\ (held => session.state = "verifying")
    BY DEF HoldsSession
  <2>2. row \in SessionRow /\ row.state = "failed"
    BY <1>1 DEF SessionRow
  <2>3. EndScan(v, held, row, document)
    BY <1>3, Zenon DEF fail_verification_if_owner
  <2> HIDE DEF held, row
  <2> QED
    BY <2>1, <2>2, <2>3, ScanStep
<1>4. CASE commit_document_if_owner(v)
  <2> DEFINE held == HoldsSession(v) /\ now < SessionExpires /\ document = 0
             scanned == verifier[v].seen
             row == [session EXCEPT !.state = "verified", !.owner = Nobody, !.hold = 0, !.bound = scanned]
  <2>1. held \in BOOLEAN /\ (held => session.state = "verifying")
    BY DEF HoldsSession
  <2>2. row \in SessionRow /\ row.state = "verified" /\ row.bound = scanned
    BY <1>1 DEF SessionRow
  <2>3. EndScan(v, held, row, scanned)
    BY <1>4, Zenon DEF commit_document_if_owner
  <2> HIDE DEF held, row
  <2> QED
    BY <2>1, <2>2, <2>3, ScanStep
<1> QED
  BY <1>2, <1>3, <1>4

LEMMA ClaimCleanupStep ==
  ASSUME UploadInv, NEW c \in Cleaners, claim_cleanup(c)
  PROVE  UploadInv' /\ document' = document
<1> USE DEF UploadInv
<1> DEFINE row == [session EXCEPT !.state = "expired", !.owner = Nobody, !.hold = 0]
           k == [at |-> "inspect", bound |-> session.bound, seen |-> 0]
<1>1. /\ session' = row /\ cleaner' = [cleaner EXCEPT ![c] = k]
      /\ UNCHANGED <<document, objects, puts, now, verifier>>
  BY Zenon DEF claim_cleanup
<1>2. document = 0
  BY Orphaned DEF claim_cleanup
<1>3. row \in SessionRow /\ row.state = "expired" /\ k \in Cleanup
  BY DEF UploadTypeOK, SessionRow, Cleanup
<1> HIDE DEF row, k
<1>4. UploadTypeOK'
  BY <1>1, <1>3 DEF UploadTypeOK
<1>5. CleanupInv' /\ InspectedInv' /\ DocumentInv'
  BY <1>1, <1>2, <1>3 DEF CleanupInv, InspectedInv, DocumentInv
<1> QED
  BY <1>1, <1>4, <1>5

\* Once the session is expired, cleaners touch only what no Document needs.
LEMMA CleanerMoves ==
  ASSUME UploadInv, NEW c \in Cleaners, cleaner[c].at # "idle", NEW k \in Cleanup,
         cleaner' = [cleaner EXCEPT ![c] = k],
         session' \in SessionRow, session'.state = session.state, objects' \subseteq objects,
         UNCHANGED <<document, puts, now, verifier>>
  PROVE  UploadInv'
<1> USE DEF UploadInv
<1>1. session.state = "expired" /\ document = 0
  BY DEF CleanupInv
<1>2. UploadTypeOK'
  BY DEF UploadTypeOK
<1>3. CleanupInv' /\ InspectedInv' /\ DocumentInv'
  BY <1>1 DEF CleanupInv, InspectedInv, DocumentInv
<1> QED
  BY <1>2, <1>3

LEMMA CleanupSteps ==
  ASSUME UploadInv, NEW c \in Cleaners,
         InspectOrphan(c) \/ bind_object_version(c) \/ execute_cleanup_delete(c) \/ CleanerDies(c)
  PROVE  UploadInv' /\ document' = document
<1> USE DEF UploadInv
<1>1. cleaner[c] \in Cleanup /\ cleaner[c].at # "idle" /\ NoCleanup \in Cleanup /\ session \in SessionRow
  BY DEF UploadTypeOK, Cleanup, NoCleanup, InspectOrphan, bind_object_version, execute_cleanup_delete,
         CleanerDies
<1>2. CASE EndsCleanup(c) /\ objects' \subseteq objects /\ UNCHANGED <<session, document, puts, now, verifier>>
  BY <1>1, <1>2, CleanerMoves DEF EndsCleanup
<1>3. CASE InspectOrphan(c) /\ inspect_object(cleaner[c].bound) # Absent
  <2> DEFINE n == inspect_object(cleaner[c].bound).version
             next == IF cleaner[c].bound = 0 THEN "bind" ELSE "delete"
             k == [cleaner[c] EXCEPT !.seen = n, !.at = next]
  <2>1. n \in Nat
    BY <1>3, Inspecting DEF UploadTypeOK
  <2>2. /\ cleaner' = [cleaner EXCEPT ![c].seen = n, ![c].at = next]
        /\ UNCHANGED <<session, document, objects, puts, now, verifier>>
    BY <1>3 DEF InspectOrphan
  <2>3. next \in {"bind", "delete"}
    OBVIOUS
  <2> HIDE DEF n, next
  <2>4. k \in Cleanup /\ cleaner' = [cleaner EXCEPT ![c] = k]
    BY <1>1, <2>1, <2>2, <2>3 DEF UploadTypeOK, Cleanup
  <2> HIDE DEF k
  <2> QED
    BY <1>1, <2>2, <2>4, CleanerMoves
<1>4. CASE bind_object_version(c)
  <2> DEFINE row == [session EXCEPT !.bound = cleaner[c].seen]
             k == [cleaner[c] EXCEPT !.at = "delete"]
  <2>1. row \in SessionRow /\ row.state = session.state /\ k \in Cleanup
    BY <1>1 DEF SessionRow, Cleanup
  <2>2. /\ session' = row \/ session' = session
        /\ cleaner' = [cleaner EXCEPT ![c] = k] \/ cleaner' = [cleaner EXCEPT ![c] = NoCleanup]
        /\ UNCHANGED <<document, objects, puts, now, verifier>>
    BY <1>4 DEF bind_object_version, EndsCleanup
  <2> HIDE DEF row, k
  <2> QED
    BY <1>1, <2>1, <2>2, CleanerMoves
<1> QED
  BY <1>2, <1>3, <1>4 DEF InspectOrphan, execute_cleanup_delete, CleanerDies

\* Uploads keep their invariant, and a Document is never withdrawn.
LEMMA UploadSteps == ASSUME UploadInv, UploadNext PROVE UploadInv' /\ (document # 0 => document' # 0)
<1>1. ASSUME NEW bytes \in {"expected", "other"}, put_object(bytes) PROVE UploadInv' /\ document' = document
  BY <1>1, PutStep
<1>2. ASSUME NEW v \in Verifiers,
             \/ StartFinalize(v) \/ InspectUpload(v) \/ claim_verification(v)
             \/ renew_verification_hold(v) \/ fail_verification_if_owner(v)
             \/ commit_document_if_owner(v) \/ VerifierDies(v)
      PROVE  UploadInv' /\ (document # 0 => document' # 0)
  BY <1>2, FinalizeSteps, ClaimVerificationStep, EndOfScan
<1>3. ASSUME NEW c \in Cleaners,
             \/ claim_cleanup(c) \/ InspectOrphan(c) \/ bind_object_version(c)
             \/ execute_cleanup_delete(c) \/ CleanerDies(c)
      PROVE  UploadInv' /\ document' = document
  BY <1>3, ClaimCleanupStep, CleanupSteps
<1>4. CASE Clock
  BY <1>4 DEF Clock, UploadInv, UploadTypeOK, CleanupInv, InspectedInv, DocumentInv, Stored
<1> QED
  BY <1>1, <1>2, <1>3, <1>4 DEF UploadNext

-----------------------------------------------------------------------------
(***************************************************************************)
(* Acceptance and the relays.                                              *)
(***************************************************************************)

IntakeInv == IntakeTypeOK /\ AdmittedInv /\ ToldInv /\ OutboxInv

LEMMA AcceptJobStep ==
  ASSUME BackendInv, NEW c \in Clients, NEW request \in DOMAIN Requests, accept_job(c, request),
         UNCHANGED uploadVars
  PROVE  IntakeInv'
<1> USE DEF BackendInv
<1> DEFINE at == IF jobRow = NoJob THEN "arbiter" ELSE Existing(jobRow, request)
           k == [at |-> at, request |-> request]
<1>1. /\ client' = [client EXCEPT ![c] = k] /\ UNCHANGED <<jobRow, outbox, sent, relay, document>>
  BY DEF accept_job, uploadVars
<1>2. at \in {"arbiter", "returned_existing", "conflict"}
  BY DEF Existing
<1>3. at = "arbiter" => Admitted(request)
  BY DEF accept_job, Existing, Admitted
<1>4. at = "returned_existing" => jobRow # NoJob /\ jobRow.request = request
  BY DEF Existing
<1> HIDE DEF at
<1>5. k \in Command /\ k.at = at /\ k.request = request
  BY <1>2 DEF Command
<1> HIDE DEF k
<1>6. IntakeTypeOK'
  BY <1>1, <1>5 DEF IntakeTypeOK, OutboxRecord
<1>7. AdmittedInv'
  BY <1>1, <1>3, <1>5 DEF IntakeTypeOK, AdmittedInv, Admitted, is_verified_and_owned
<1>8. ToldInv'
  BY <1>1, <1>2, <1>4, <1>5 DEF IntakeTypeOK, ToldInv
<1>9. OutboxInv'
  BY <1>1 DEF OutboxInv
<1> QED
  BY <1>6, <1>7, <1>8, <1>9 DEF IntakeInv

\* The first client at the arbiter creates the Job and its intent together; another learns of
\* the Job that is there.
LEMMA ArbiterStep ==
  ASSUME BackendInv, NEW c \in Clients, upsert_job_on_conflict(c), UNCHANGED uploadVars
  PROVE  IntakeInv'
<1> USE DEF BackendInv
<1>1. client[c] \in Command /\ client[c].at = "arbiter" /\ Admitted(client[c].request) /\ document' = document
  BY DEF upsert_job_on_conflict, IntakeTypeOK, AdmittedInv, uploadVars
<1>2. CASE jobRow = NoJob
  <2> DEFINE row == [status |-> "queued", request |-> client[c].request]
             o == [NoIntent EXCEPT !.state = "unpublished", !.due = now]
             k == [client[c] EXCEPT !.at = "created"]
  <2>1. /\ jobRow' = row /\ outbox' = o /\ client' = [client EXCEPT ![c] = k] /\ UNCHANGED <<sent, relay>>
    BY <1>2 DEF upsert_job_on_conflict
  <2>2. row \in JobRecord /\ row.status = "queued" /\ row.request = client[c].request /\ row # NoJob
    BY <1>1 DEF JobRecord, Command, NoJob
  <2>3. k \in Command /\ k.at = "created" /\ k.request = client[c].request
    BY <1>1 DEF Command
  <2>4. /\ o.state = "unpublished" /\ o.attempts = 0 /\ o.owner = Nobody
        /\ o \in [state : {"none", "unpublished", "published", "quarantined"}, attempts : Nat,
                  due : {o.due}, owner : Relays \cup {Nobody}, hold : Nat]
    BY DEF NoIntent
  <2> HIDE DEF row, k, o
  <2>5. outbox' \in OutboxRecord'
    BY <2>1, <2>4 DEF OutboxRecord
  <2>6. IntakeTypeOK'
    BY <2>1, <2>2, <2>3, <2>5 DEF IntakeTypeOK
  <2>7. AdmittedInv'
    BY <1>1, <2>1, <2>2, <2>3 DEF IntakeTypeOK, AdmittedInv, Admitted, is_verified_and_owned
  <2>8. ToldInv'
    BY <1>2, <2>1, <2>2, <2>3 DEF IntakeTypeOK, ToldInv
  <2>9. OutboxInv'
    BY <2>1, <2>4, IntakeAssumption DEF OutboxInv
  <2> QED
    BY <2>6, <2>7, <2>8, <2>9 DEF IntakeInv
<1>3. CASE jobRow # NoJob
  <2> DEFINE at == Existing(jobRow, client[c].request)
             k == [client[c] EXCEPT !.at = at]
  <2>1. client' = [client EXCEPT ![c] = k] /\ UNCHANGED <<jobRow, outbox, sent, relay>>
    BY <1>3 DEF upsert_job_on_conflict
  <2>2. /\ at \in {"returned_existing", "conflict"}
        /\ at = "returned_existing" => jobRow.request = client[c].request
    BY DEF Existing
  <2> HIDE DEF at
  <2>3. k \in Command /\ k.at = at /\ k.request = client[c].request
    BY <1>1, <2>2 DEF Command
  <2> HIDE DEF k
  <2>4. IntakeTypeOK'
    BY <2>1, <2>3 DEF IntakeTypeOK, OutboxRecord
  <2>5. AdmittedInv'
    BY <1>1, <2>1, <2>2, <2>3 DEF IntakeTypeOK, AdmittedInv, Admitted, is_verified_and_owned
  <2>6. ToldInv'
    BY <1>3, <2>1, <2>2, <2>3 DEF IntakeTypeOK, ToldInv
  <2>7. OutboxInv'
    BY <2>1 DEF OutboxInv
  <2> QED
    BY <2>4, <2>5, <2>6, <2>7 DEF IntakeInv
<1> QED
  BY <1>2, <1>3

LEMMA ClientFailsStep ==
  ASSUME BackendInv, NEW c \in Clients, ClientFails(c), UNCHANGED uploadVars
  PROVE  IntakeInv'
<1> USE DEF BackendInv
<1>1. /\ NoCommand \in Command /\ NoCommand.at = "idle" /\ document' = document
      /\ client' = [client EXCEPT ![c] = NoCommand] /\ UNCHANGED <<jobRow, outbox, sent, relay>>
  BY DEF ClientFails, Command, NoCommand, uploadVars
<1>2. IntakeTypeOK'
  BY <1>1 DEF IntakeTypeOK, OutboxRecord
<1>3. AdmittedInv' /\ ToldInv'
  BY <1>1 DEF IntakeTypeOK, AdmittedInv, ToldInv, Admitted, is_verified_and_owned
<1>4. OutboxInv'
  BY <1>1 DEF OutboxInv
<1> QED
  BY <1>2, <1>3, <1>4 DEF IntakeInv

\* Steps of relays change neither Job nor clients.
LEMMA RelayMoves ==
  ASSUME BackendInv, NEW r \in Relays, NEW p \in Pass, relay' = [relay EXCEPT ![r] = p],
         p.at = "checkpoint" => sent', outbox' \in OutboxRecord', sent' \in BOOLEAN, sent => sent',
         sent' \/ \/ outbox.state = "unpublished" => \/ outbox'.state = "unpublished"
                                                     \/ /\ outbox'.state = "quarantined"
                                                        /\ outbox'.attempts = MaxAttempts
                  \/ outbox' = outbox,
         outbox.state # "unpublished" => outbox' = outbox,
         outbox'.owner # Nobody => outbox'.state = "unpublished",
         outbox'.state = "unpublished" => outbox'.attempts < MaxAttempts,
         UNCHANGED <<jobRow, client>>, UNCHANGED uploadVars
  PROVE  IntakeInv'
<1> USE DEF BackendInv
<1>1. IntakeTypeOK'
  BY DEF IntakeTypeOK
<1>2. AdmittedInv' /\ ToldInv'
  BY DEF AdmittedInv, ToldInv, Admitted, is_verified_and_owned, uploadVars
<1>3. OutboxInv'
  BY DEF IntakeTypeOK, OutboxInv
<1> QED
  BY <1>1, <1>2, <1>3 DEF IntakeInv

LEMMA RelaySteps ==
  ASSUME BackendInv, NEW r \in Relays, UNCHANGED uploadVars,
         \/ claim_outbox_batch(r) \/ publish(r) \/ checkpoint_published_if_owner(r)
         \/ record_transport_failure(r) \/ RelayDies(r)
  PROVE  IntakeInv'
<1> USE DEF BackendInv
<1>1. /\ relay[r] \in Pass /\ NoPass \in Pass /\ NoPass.at = "idle" /\ outbox \in OutboxRecord
      /\ sent \in BOOLEAN /\ r # Nobody /\ MaxAttempts \in Nat \ {0} /\ RelayHold \in Nat /\ now \in Nat
      /\ outbox.attempts \in Nat
  BY IntakeAssumption DEF IntakeTypeOK, OutboxRecord, Pass, NoPass, UploadInv, UploadTypeOK
<1>2. /\ outbox.owner # Nobody => outbox.state = "unpublished"
      /\ outbox.state = "unpublished" => outbox.attempts < MaxAttempts
      /\ relay[r].at = "checkpoint" => sent
  BY DEF OutboxInv
<1>3. CASE claim_outbox_batch(r)
  <2> DEFINE h == now + RelayHold
             o == [outbox EXCEPT !.owner = r, !.hold = h]
             p == [at |-> "publish", t |-> now]
  <2>1. /\ outbox' = o /\ relay' = [relay EXCEPT ![r] = p] /\ UNCHANGED <<jobRow, sent, client>>
        /\ outbox.state = "unpublished"
    BY <1>3, Zenon DEF claim_outbox_batch
  <2>2. h \in Nat
    BY <1>1
  <2> HIDE DEF h
  <2>3. /\ o.state = outbox.state /\ o.attempts = outbox.attempts /\ o.due = outbox.due
        /\ o \in [state : {"none", "unpublished", "published", "quarantined"}, attempts : Nat,
                  due : {o.due}, owner : Relays \cup {Nobody}, hold : Nat]
    BY <1>1, <2>2 DEF OutboxRecord
  <2>4. p \in Pass /\ p.at = "publish"
    BY <1>1 DEF Pass
  <2> HIDE DEF o, p
  <2>5. outbox' \in OutboxRecord'
    BY <2>1, <2>3 DEF OutboxRecord
  <2> QED
    BY <1>1, <1>2, <2>1, <2>3, <2>4, <2>5, RelayMoves
<1>4. CASE publish(r)
  <2> DEFINE p == [relay[r] EXCEPT !.at = "checkpoint"]
  <2>1. relay' = [relay EXCEPT ![r] = p] /\ sent' = TRUE /\ UNCHANGED <<jobRow, outbox, client>>
    BY <1>4 DEF publish
  <2>2. p \in Pass
    BY <1>1 DEF Pass
  <2> HIDE DEF p
  <2>3. outbox' \in OutboxRecord'
    BY <1>1, <2>1 DEF OutboxRecord
  <2> QED
    BY <1>1, <1>2, <2>1, <2>2, <2>3, RelayMoves
<1>5. CASE EndsPass(r) /\ UNCHANGED <<jobRow, outbox, sent, client>>
  <2>1. outbox' \in OutboxRecord'
    BY <1>1, <1>5 DEF OutboxRecord
  <2> QED
    BY <1>1, <1>2, <1>5, <2>1, RelayMoves DEF EndsPass
<1>6. CASE checkpoint_published_if_owner(r) /\ outbox.state # "published" /\ LiveLease(r)
  <2> DEFINE o == [outbox EXCEPT !.state = "published", !.owner = Nobody, !.hold = 0]
  <2>1. /\ outbox' = o /\ relay' = [relay EXCEPT ![r] = NoPass] /\ UNCHANGED <<jobRow, sent, client>>
        /\ sent /\ outbox.state = "unpublished"
    BY <1>1, <1>2, <1>6 DEF checkpoint_published_if_owner, EndsPass, LiveLease
  <2>2. /\ o.state = "published" /\ o.owner = Nobody
        /\ o \in [state : {"none", "unpublished", "published", "quarantined"}, attempts : Nat,
                  due : {o.due}, owner : Relays \cup {Nobody}, hold : Nat]
    BY <1>1 DEF OutboxRecord
  <2> HIDE DEF o
  <2>3. outbox' \in OutboxRecord'
    BY <2>1, <2>2 DEF OutboxRecord
  <2> QED
    BY <1>1, <2>1, <2>2, <2>3, RelayMoves
<1>7. CASE record_transport_failure(r) /\ LiveLease(r)
  <2> DEFINE n == outbox.attempts + 1
             s == IF n >= MaxAttempts THEN "quarantined" ELSE outbox.state
             d == relay[r].t + Backoff(n)
             o == [state |-> s, attempts |-> n, due |-> d, owner |-> Nobody, hold |-> 0]
  <2>1. /\ outbox' = o /\ relay' = [relay EXCEPT ![r] = NoPass] /\ UNCHANGED <<jobRow, sent, client>>
        /\ outbox.state = "unpublished"
    BY <1>1, <1>2, <1>7 DEF record_transport_failure, EndsPass, LiveLease
  <2>2. /\ n \in Nat /\ s \in {"quarantined", "unpublished"}
        /\ s = "quarantined" => n = MaxAttempts
        /\ s = "unpublished" => n < MaxAttempts
    BY <1>1, <1>2, <2>1
  <2> HIDE DEF n, s, d
  <2>3. /\ o.state = s /\ o.attempts = n /\ o.owner = Nobody
        /\ o \in [state : {"none", "unpublished", "published", "quarantined"}, attempts : Nat,
                  due : {o.due}, owner : Relays \cup {Nobody}, hold : Nat]
    BY <2>2
  <2> HIDE DEF o
  <2>4. outbox' \in OutboxRecord'
    BY <2>1, <2>3 DEF OutboxRecord
  <2> QED
    BY <1>1, <2>1, <2>2, <2>3, <2>4, RelayMoves
<1> QED
  BY <1>3, <1>4, <1>5, <1>6, <1>7 DEF checkpoint_published_if_owner, record_transport_failure, RelayDies

LEMMA WorkerClaimStep == ASSUME BackendInv, worker_claim, UNCHANGED uploadVars PROVE IntakeInv'
<1> USE DEF BackendInv
<1> DEFINE row == [jobRow EXCEPT !.status = "running"]
<1>1. /\ jobRow' = row /\ sent /\ jobRow.status = "queued" /\ UNCHANGED <<outbox, sent, client, relay>>
  BY DEF worker_claim
<1>2. row \in JobRecord /\ row.status = "running" /\ row.request = jobRow.request /\ row # NoJob
  BY DEF IntakeTypeOK, JobRecord, NoJob
<1>3. jobRow # NoJob /\ document' = document
  BY <1>1 DEF NoJob, uploadVars
<1> HIDE DEF row
<1>4. IntakeTypeOK'
  BY <1>1, <1>2 DEF IntakeTypeOK, OutboxRecord
<1>5. AdmittedInv' /\ ToldInv' /\ OutboxInv'
  BY <1>1, <1>2, <1>3 DEF AdmittedInv, ToldInv, OutboxInv, Admitted, is_verified_and_owned
<1> QED
  BY <1>4, <1>5 DEF IntakeInv

LEMMA BackendInitially == BackendInit => BackendInv
<1> SUFFICES ASSUME BackendInit PROVE BackendInv
  OBVIOUS
<1>1. UploadInv
  <2>1. session \in SessionRow
    BY DEF BackendInit, UploadInit, SessionRow
  <2>2. NoVerification \in Finalization /\ NoCleanup \in Cleanup
    BY DEF Finalization, Cleanup, NoVerification, NoCleanup
  <2>3. UploadTypeOK
    BY <2>1, <2>2 DEF BackendInit, UploadInit, UploadTypeOK
  <2> QED
    BY <2>3 DEF BackendInit, UploadInit, UploadInv, CleanupInv, InspectedInv, DocumentInv, NoVerification,
                NoCleanup
<1>2. IntakeTypeOK
  BY DEF BackendInit, IntakeInit, IntakeTypeOK, JobRecord, OutboxRecord, Command, Pass, NoJob, NoIntent,
         NoCommand, NoPass
<1>3. AdmittedInv /\ ToldInv /\ OutboxInv
  BY DEF BackendInit, IntakeInit, AdmittedInv, ToldInv, OutboxInv, NoIntent, NoCommand, NoPass
<1> QED
  BY <1>1, <1>2, <1>3 DEF BackendInv

\* Uploads, clients and relays keep the invariant in every interleaving.
LEMMA BackendSteps == ASSUME BackendInv, [BackendNext]_<<uploadVars, intakeVars>> PROVE BackendInv'
<1>1. CASE UploadNext /\ UNCHANGED intakeVars
  <2>1. UploadInv' /\ (document # 0 => document' # 0)
    BY <1>1, UploadSteps DEF BackendInv
  <2>2. IntakeTypeOK' /\ ToldInv' /\ OutboxInv'
    BY <1>1 DEF BackendInv, IntakeTypeOK, ToldInv, OutboxInv, OutboxRecord, intakeVars
  <2>3. AdmittedInv'
    BY <1>1, <2>1 DEF BackendInv, AdmittedInv, Admitted, is_verified_and_owned, intakeVars
  <2> QED
    BY <2>1, <2>2, <2>3 DEF BackendInv
<1>2. ASSUME UNCHANGED uploadVars PROVE UploadInv'
  BY <1>2 DEF BackendInv, UploadInv, UploadTypeOK, CleanupInv, InspectedInv, DocumentInv, Stored, uploadVars
<1>3. CASE IntakeNext /\ UNCHANGED uploadVars
  <2>1. IntakeInv'
    BY <1>3, AcceptJobStep, ArbiterStep, ClientFailsStep, RelaySteps, WorkerClaimStep DEF IntakeNext
  <2> QED
    BY <1>2, <1>3, <2>1 DEF BackendInv, IntakeInv
<1>4. CASE UNCHANGED <<uploadVars, intakeVars>>
  <2>1. IntakeTypeOK' /\ AdmittedInv' /\ ToldInv' /\ OutboxInv'
    BY <1>4 DEF BackendInv, IntakeTypeOK, AdmittedInv, ToldInv, OutboxInv, OutboxRecord, Admitted,
                is_verified_and_owned, intakeVars, uploadVars
  <2> QED
    BY <1>2, <1>4, <2>1 DEF BackendInv
<1> QED
  BY <1>1, <1>3, <1>4 DEF BackendNext

\* Verifiers, cleaners, late PUTs, racing clients and relays keep the invariant, for any number
\* of each.
THEOREM BackendInvariant == BackendSpec => []BackendInv
<1>1. BackendInv /\ [BackendNext]_<<uploadVars, intakeVars>> => BackendInv'
  BY BackendSteps
<1> QED
  BY <1>1, BackendInitially, PTL DEF BackendSpec

\* Completion and cleanup never both win: a committed Document names a stored, verified version
\* that no cleaner is about to delete.
THEOREM DocumentsAreStored == BackendSpec => []DocumentIsStored
<1>1. BackendInv => DocumentIsStored
  BY DEF BackendInv, UploadInv, CleanupInv, DocumentInv, DocumentIsStored, Stored
<1> QED
  BY <1>1, BackendInvariant, PTL

\* An accepted command is backed by its Job, its stored documents and a dispatch that is owed,
\* made or quarantined.
THEOREM AcceptedCommandsAreBacked == BackendSpec => []AcceptedIsBacked
<1>1. BackendInv => AcceptedIsBacked
  <2> SUFFICES ASSUME BackendInv, NEW c \in Clients, client[c].at \in {"created", "returned_existing"}
               PROVE  /\ jobRow.request = client[c].request
                      /\ \A d \in Requests[jobRow.request] : is_verified_and_owned(d) /\ DocumentIsStored
                      /\ \/ sent
                         \/ outbox.state = "unpublished"
                         \/ outbox.state = "quarantined" /\ outbox.attempts = MaxAttempts
    BY DEF AcceptedIsBacked
  <2>1. jobRow # NoJob /\ jobRow.request = client[c].request
    BY DEF BackendInv, ToldInv
  <2>2. Admitted(jobRow.request)
    BY <2>1 DEF BackendInv, AdmittedInv
  <2>3. DocumentIsStored
    BY DEF BackendInv, UploadInv, CleanupInv, DocumentInv, DocumentIsStored, Stored
  <2> QED
    BY <2>1, <2>2, <2>3 DEF BackendInv, OutboxInv, Admitted
<1> QED
  BY <1>1, BackendInvariant, PTL

-----------------------------------------------------------------------------
(***************************************************************************)
(* The agent loop: the budget of the record.                               *)
(***************************************************************************)

\* What a candidate asks for is a number of tokens and a cost.
Asks(d) == d.tokens \in Nat /\ d.cost \in Nat

\* What is held is what the applied candidates asked for.
HeldIsApplied ==
    /\ stepsUsed = Cardinality(Continues) /\ stepsUsed = step[1]
    /\ tokens = FieldSum("tokens", Continues)
    /\ cost = FieldSum("cost", Continues)

\* The budget is kept, and its use accounted for.
BudgetInv ==
    /\ candidate = [k \in Controllers |-> candidate[k]]
    /\ \A k \in Controllers : candidate[k] # NoCandidate => Asks(candidate[k])
    /\ IsFiniteSet(applied) /\ \A d \in applied : Asks(d)
    /\ {stepsUsed, tokens, cost} \subseteq Nat
    /\ stepsUsed <= StepLimit /\ tokens <= TokenLimit /\ cost <= CostLimit
    /\ HeldIsApplied

\* This is more than the property says.
LEMMA BudgetIsHeld == BudgetInv => BudgetRespected
BY DEF BudgetInv, HeldIsApplied, BudgetRespected, FieldSum

\* A new Job has used nothing.
LEMMA BudgetInit == LoopInit => BudgetInv
<1> SUFFICES ASSUME LoopInit PROVE BudgetInv
  OBVIOUS
<1>1. /\ applied = {} /\ stepsUsed = 0 /\ tokens = 0 /\ cost = 0 /\ step[1] = 0
      /\ candidate = [c \in Controllers |-> NoCandidate]
  BY DEF LoopInit, AgentInit
<1>2. Continues = {} /\ IsFiniteSet(applied) /\ Cardinality(Continues) = 0
  BY <1>1, FS_EmptySet DEF Continues
<1>3. FieldSum("tokens", Continues) = 0 /\ FieldSum("cost", Continues) = 0
  BY <1>2, EmptyField
<1>4. 0 <= StepLimit /\ 0 <= TokenLimit /\ 0 <= CostLimit
  BY LimitsAssumption
<1>5. HeldIsApplied
  BY <1>1, <1>2, <1>3 DEF HeldIsApplied
<1> QED
  BY <1>1, <1>2, <1>4, <1>5 DEF BudgetInv

\* Reading the budget and deciding leave the record alone.
LEMMA RecordKept ==
  ASSUME BudgetInv, UNCHANGED record, candidate' = [k \in Controllers |-> candidate'[k]],
         \A k \in Controllers : candidate'[k] # NoCandidate => Asks(candidate'[k])
  PROVE  BudgetInv'
<1>1. /\ applied' = applied /\ stepsUsed' = stepsUsed /\ tokens' = tokens /\ cost' = cost /\ step' = step
  BY DEF record
<1>2. Continues' = Continues
  BY <1>1 DEF Continues
<1>3. HeldIsApplied'
  BY <1>1, <1>2 DEF BudgetInv, HeldIsApplied
<1> QED
  BY <1>1, <1>3 DEF BudgetInv

\* A decision makes a candidate, which reserves nothing yet.
LEMMA BudgetDecide ==
  ASSUME BudgetInv, NEW k \in Controllers, NEW o, NEW r \in Reservations, NEW facts,
         Decide(k, o, r[1], r[2], facts)
  PROVE  BudgetInv'
<1>1. r[1] \in Nat /\ r[2] \in Nat
  BY LimitsAssumption
<1>2. PICK d : candidate' = [candidate EXCEPT ![k] =
              [step |-> step, expected |-> agentState, fence |-> fence, action |-> d[1],
               next |-> d[2], status |-> d[3], origin |-> o,
               tokens |-> IF d[1] = "CONTINUE" THEN r[1] ELSE 0, cost |-> IF d[1] = "CONTINUE" THEN r[2] ELSE 0]]
  BY DEF Decide
<1> DEFINE c == [step |-> step, expected |-> agentState, fence |-> fence, action |-> d[1],
                 next |-> d[2], status |-> d[3], origin |-> o,
                 tokens |-> IF d[1] = "CONTINUE" THEN r[1] ELSE 0, cost |-> IF d[1] = "CONTINUE" THEN r[2] ELSE 0]
<1>3. Asks(c)
  BY <1>1 DEF Asks
<1>4. candidate' = [candidate EXCEPT ![k] = c]
  BY <1>2
<1> HIDE DEF c
<1>5. /\ candidate' = [j \in Controllers |-> candidate'[j]]
      /\ \A j \in Controllers : candidate'[j] # NoCandidate => Asks(candidate'[j])
  BY <1>3, <1>4 DEF BudgetInv
<1>6. UNCHANGED record
  BY DEF Decide
<1> QED
  BY <1>5, <1>6, RecordKept

\* apply: the candidate was not applied before, so it is one more, and it fits the budget as it is now.
LEMMA BudgetApply == ASSUME BudgetInv, NEW k \in Controllers, apply(k) PROVE BudgetInv'
<1> DEFINE d == candidate[k]
<1>1. /\ d # NoCandidate /\ Asks(d) /\ applied' = applied \cup {d} /\ candidate' = candidate
      /\ d \notin applied
  BY DEF apply, BudgetInv, Applicable
<1>2. {stepsUsed, tokens, cost} \subseteq Nat /\ {StepLimit, TokenLimit, CostLimit} \subseteq Nat
  BY LimitsAssumption DEF BudgetInv
<1>3. IsFiniteSet(applied') /\ \A e \in applied' : Asks(e)
  BY <1>1, FS_AddElement DEF BudgetInv
<1>4. CASE d.action = "CONTINUE"
  <2>1. /\ WithinBudget(d) /\ step' = <<step[1] + 1, d.origin>> /\ stepsUsed' = stepsUsed + 1
        /\ tokens' = tokens + d.tokens /\ cost' = cost + d.cost
    BY <1>4 DEF apply
  <2>2. Continues' = Continues \cup {d} /\ d \notin Continues /\ Continues \subseteq applied
    BY <1>1, <1>4 DEF Continues
  <2>3. IsFiniteSet(Continues) /\ \A e \in Continues \cup {d} : e["tokens"] \in Int /\ e["cost"] \in Int
    BY <1>1, <2>2, FS_Subset DEF BudgetInv, Asks
  <2> HIDE DEF d
  <2>4. Cardinality(Continues') = Cardinality(Continues) + 1
    BY <2>2, <2>3, FS_AddElement
  <2>5. FieldGrows("tokens", Continues, d) /\ FieldGrows("cost", Continues, d)
    BY <2>2, <2>3, GrowingField
  <2>6. FieldSum("tokens", Continues') = tokens + d.tokens /\ FieldSum("cost", Continues') = cost + d.cost
    BY <2>2, <2>5 DEF FieldGrows, BudgetInv, HeldIsApplied
  <2>7. HeldIsApplied'
    BY <2>1, <2>4, <2>6 DEF BudgetInv, HeldIsApplied
  <2>8. /\ {stepsUsed', tokens', cost'} \subseteq Nat
        /\ stepsUsed' <= StepLimit /\ tokens' <= TokenLimit /\ cost' <= CostLimit
    BY <1>1, <1>2, <2>1 DEF WithinBudget, Asks
  <2> QED
    BY <1>1, <1>3, <2>7, <2>8 DEF BudgetInv
<1>5. CASE d.action # "CONTINUE"
  <2>1. UNCHANGED <<step, stepsUsed, tokens, cost>>
    BY <1>5 DEF apply
  <2>2. Continues' = Continues
    BY <1>1, <1>5 DEF Continues
  <2>3. HeldIsApplied'
    BY <2>1, <2>2 DEF BudgetInv, HeldIsApplied
  <2> QED
    BY <1>1, <1>3, <2>1, <2>3 DEF BudgetInv
<1> QED
  BY <1>4, <1>5

\* No other step of the loop touches the record.
LEMMA BudgetStep == BudgetInv /\ [LoopNext]_loopVars => BudgetInv'
<1> SUFFICES ASSUME BudgetInv, [LoopNext]_loopVars PROVE BudgetInv'
  OBVIOUS
<1>1. CASE UNCHANGED agentVars
  <2>1. UNCHANGED <<record, candidate>>
    BY <1>1 DEF agentVars
  <2> QED
    BY <2>1, RecordKept DEF BudgetInv
<1>2. ASSUME NEW k \in Controllers, Plan(k) PROVE BudgetInv'
  <2>1. UNCHANGED <<record, candidate>>
    BY <1>2 DEF Plan, ReadBudget
  <2> QED
    BY <2>1, RecordKept DEF BudgetInv
<1>3. ASSUME NEW k \in Controllers, DecideGoverned(k) PROVE BudgetInv'
  BY <1>3, BudgetDecide DEF DecideGoverned
<1>4. ASSUME NEW k \in Controllers, ApplyPlan(k) PROVE BudgetInv'
  BY <1>4, BudgetApply DEF ApplyPlan
<1>5. ASSUME NEW k \in Controllers, Prepare(k) \/ Admit(k) \/ Run(k) \/ Complete(k) \/ Abandon(k)
      PROVE  UNCHANGED agentVars
  BY <1>5 DEF Prepare, Admit, Run, Complete, Abandon
<1> QED
  BY <1>1, <1>2, <1>3, <1>4, <1>5 DEF LoopNext, loopVars

\* InMemoryAgentStateStore.apply: whatever budgets the controllers read and however late, often or
\* rejected their candidates arrive, the reservations held are those of the applied candidates and
\* within the budget.
THEOREM BudgetIsRespected == LoopSpec => []BudgetRespected
BY BudgetInit, BudgetStep, BudgetIsHeld, PTL DEF LoopSpec

-----------------------------------------------------------------------------
(***************************************************************************)
(* Tool governance and the tool executor.                                  *)
(***************************************************************************)

\* ToolRegistry.resolve: what is allowed is registered and not disabled.
LEMMA ResolvedIsRegistered ==
  ASSUME NEW tool
  PROVE  /\ Resolve(tool) = "ALLOWED" => tool \in DOMAIN Schemas \ disabled
         /\ Resolve(tool) # "VISIBLE"
<1> DEFINE c1 == tool \in disabled
           c2 == tool \in DOMAIN Schemas
           c3 == \E t \in DOMAIN Schemas : t[1] = tool[1]
           rules == << <<c1, "TOOL_DISABLED">>, <<c2, "ALLOWED">>, <<c3, "INCOMPATIBLE_TOOL_VERSION">>,
                       <<TRUE, "UNKNOWN_TOOL">> >>
<1>1. Resolve(tool) = FirstMatch(rules)
  BY DEF Resolve
<1> HIDE DEF c1, c2, c3
<1>2. /\ DOMAIN rules = 1 .. 4 /\ rules[4][1] /\ rules[1][1] = c1 /\ rules[2][1] = c2
      /\ rules[1][2] = "TOOL_DISABLED" /\ rules[2][2] = "ALLOWED"
      /\ rules[3][2] = "INCOMPATIBLE_TOOL_VERSION" /\ rules[4][2] = "UNKNOWN_TOOL"
  OBVIOUS
<1> HIDE DEF rules
<1>3. PICK i \in 1 .. 4 : /\ rules[i][1]
                          /\ \A k \in 1 .. i - 1 : ~rules[k][1]
                          /\ FirstMatch(rules) = rules[i][2]
  <2>1. rules[4][1] /\ 4 \in Nat /\ 4 > 0
    BY <1>2
  <2>2. DOMAIN rules = 1 .. 4
    BY <1>2
  <2> QED
    BY <2>1, <2>2, FirstMatchApplies
<1>4. i = 1 \/ i = 2 \/ i = 3 \/ i = 4
  OBVIOUS
<1>5. Resolve(tool) = "ALLOWED" => i = 2
  BY <1>1, <1>2, <1>3, <1>4
<1>6. i = 2 => c2 /\ ~c1
  BY <1>2, <1>3
<1> QED
  BY <1>1, <1>2, <1>3, <1>4, <1>5, <1>6 DEF c1, c2

\* A visible tool is granted, registered and enabled.
LEMMA VisibleIsGranted ==
  ASSUME NEW tool, Visibility(tool) = "VISIBLE"
  PROVE  tool \in granted \ disabled /\ tool \in DOMAIN Schemas
<1> DEFINE c1 == tool \notin granted
           c2 == Resolve(tool) # "ALLOWED"
           rules == << <<c1, "NOT_GRANTED_FOR_CONTEXT">>, <<c2, Resolve(tool)>>, <<TRUE, "VISIBLE">> >>
<1>1. Visibility(tool) = FirstMatch(rules)
  BY DEF Visibility
<1> HIDE DEF c1, c2
<1>2. /\ DOMAIN rules = 1 .. 3 /\ rules[3][1] /\ rules[1][1] = c1 /\ rules[2][1] = c2
      /\ rules[1][2] = "NOT_GRANTED_FOR_CONTEXT" /\ rules[2][2] = Resolve(tool) /\ rules[3][2] = "VISIBLE"
  OBVIOUS
<1> HIDE DEF rules
<1>3. \A k \in 1 .. 2 : rules[k][2] # rules[3][2]
  BY <1>2, ResolvedIsRegistered
<1>4. \A k \in 1 .. 2 : ~rules[k][1]
  <2>1. rules[3][1] /\ FirstMatch(rules) = rules[3][2] /\ 3 \in Nat /\ 3 > 0 /\ 3 - 1 = 2
    BY <1>1, <1>2
  <2>2. DOMAIN rules = 1 .. 3
    BY <1>2
  <2> QED
    BY <1>3, <2>1, <2>2, LastRuleApplies
<1>5. ~c1 /\ ~c2
  BY <1>2, <1>4
<1> QED
  BY <1>5, ResolvedIsRegistered DEF c1, c2

\* A binding that governance allows is for the current step and carries the schema in force.
LEMMA GovernedIsCurrent ==
  ASSUME NEW c, NEW s, InvocationGovernance(c, s) = "ALLOWED_TO_DAY74_ADMISSION"
  PROVE  /\ c.step = s /\ c.schema # Nothing
         /\ Visibility(c.tool) = "VISIBLE" /\ c.schema = ProjectSchema(c.tool)
<1> DEFINE current == Snapshot(s)
           c1 == c.step # s
           c2 == c.schema = Nothing
           c3 == current.decisions[c.tool] = "NOT_GRANTED_FOR_CONTEXT"
           c4 == current.decisions[c.tool] # "VISIBLE"
           c5 == c.schema \notin {current.visible[t] : t \in DOMAIN current.visible \cap {c.tool}}
           rules == << <<c1, "ORIGINAL_SNAPSHOT_MISMATCH">>, <<c2, "ORIGINAL_TOOL_NOT_VISIBLE">>,
                       <<c3, "CURRENT_PERMISSION_REVOKED">>, <<c4, "CURRENT_REGISTRY_BLOCKED">>,
                       <<c5, "SCHEMA_BINDING_MISMATCH">>, <<TRUE, "ALLOWED_TO_DAY74_ADMISSION">> >>
<1>1. InvocationGovernance(c, s) = FirstMatch(rules)
  BY DEF InvocationGovernance
<1> HIDE DEF current, c1, c2, c3, c4, c5
<1>2. /\ DOMAIN rules = 1 .. 6 /\ rules[6][1]
      /\ rules[1][1] = c1 /\ rules[2][1] = c2 /\ rules[5][1] = c5
      /\ rules[1][2] = "ORIGINAL_SNAPSHOT_MISMATCH" /\ rules[2][2] = "ORIGINAL_TOOL_NOT_VISIBLE"
      /\ rules[3][2] = "CURRENT_PERMISSION_REVOKED" /\ rules[4][2] = "CURRENT_REGISTRY_BLOCKED"
      /\ rules[5][2] = "SCHEMA_BINDING_MISMATCH" /\ rules[6][2] = "ALLOWED_TO_DAY74_ADMISSION"
  OBVIOUS
<1> HIDE DEF rules
<1>3. \A k \in 1 .. 5 : ~rules[k][1]
  <2>1. \A k \in 1 .. 5 : rules[k][2] # rules[6][2]
    BY <1>2
  <2>2. rules[6][1] /\ FirstMatch(rules) = rules[6][2] /\ 6 \in Nat /\ 6 > 0 /\ 6 - 1 = 5
    BY <1>1, <1>2
  <2>3. DOMAIN rules = 1 .. 6
    BY <1>2
  <2> QED
    BY <2>1, <2>2, <2>3, LastRuleApplies
<1>4. ~c1 /\ ~c2 /\ ~c5
  BY <1>2, <1>3
<1>5. c.tool \in DOMAIN current.visible /\ c.schema = current.visible[c.tool]
  BY <1>4 DEF c5
<1> DEFINE shown == {t \in Catalog : Visibility(t) = "VISIBLE"}
<1>6. current.visible = [t \in shown |-> ProjectSchema(t)]
  BY DEF current, Snapshot
<1> QED
  BY <1>4, <1>5, <1>6 DEF c1, c2

\* A prepared call fits the schema it was bound to, which is the one in force.
LEMMA PreparedIsCurrent ==
  ASSUME NEW c, NEW s, Preparation(c, s) = "READY_FOR_BACKEND_ADMISSION"
  PROVE  /\ c.step = s /\ Visibility(c.tool) = "VISIBLE"
         /\ FitsSchema(c.arguments, ProjectSchema(c.tool))
<1> DEFINE c1 == InvocationGovernance(c, s) # "ALLOWED_TO_DAY74_ADMISSION"
           c2 == c.schema # Nothing /\ ~FitsSchema(c.arguments, c.schema)
           rules == << <<c1, "BLOCKED_BY_GOVERNANCE">>, <<c2, "PROJECTED_SCHEMA_INVALID">>,
                       <<TRUE, "READY_FOR_BACKEND_ADMISSION">> >>
<1>1. Preparation(c, s) = FirstMatch(rules)
  BY DEF Preparation
<1> HIDE DEF c1, c2
<1>2. /\ DOMAIN rules = 1 .. 3 /\ rules[3][1] /\ rules[1][1] = c1 /\ rules[2][1] = c2
      /\ rules[1][2] = "BLOCKED_BY_GOVERNANCE" /\ rules[2][2] = "PROJECTED_SCHEMA_INVALID"
      /\ rules[3][2] = "READY_FOR_BACKEND_ADMISSION"
  OBVIOUS
<1> HIDE DEF rules
<1>3. \A k \in 1 .. 2 : ~rules[k][1]
  <2>1. \A k \in 1 .. 2 : rules[k][2] # rules[3][2]
    BY <1>2
  <2>2. rules[3][1] /\ FirstMatch(rules) = rules[3][2] /\ 3 \in Nat /\ 3 > 0 /\ 3 - 1 = 2
    BY <1>1, <1>2
  <2>3. DOMAIN rules = 1 .. 3
    BY <1>2
  <2> QED
    BY <2>1, <2>2, <2>3, LastRuleApplies
<1>4. ~c1 /\ ~c2
  BY <1>2, <1>3
<1>5. /\ c.step = s /\ c.schema # Nothing
      /\ Visibility(c.tool) = "VISIBLE" /\ c.schema = ProjectSchema(c.tool)
  BY <1>4, GovernedIsCurrent DEF c1
<1> QED
  BY <1>4, <1>5 DEF c2

\* A projected schema admits what the registered one does, under the constraint in force.
LEMMA ProjectionNarrows ==
  ASSUME NEW tool \in DOMAIN Schemas, NEW a, narrowing \in {Nothing} \cup Narrowings,
         FitsSchema(a, ProjectSchema(tool))
  PROVE  /\ FitsSchema(a, Schemas[tool])
         /\ \A n \in {narrowing} \ {Nothing} :
               n.tool = tool /\ n.property \in DOMAIN a => a[n.property] \in n.allowed
<1>1. CASE narrowing = Nothing
  BY <1>1 DEF ProjectSchema
<1>2. CASE narrowing # Nothing /\ narrowing.tool # tool
  BY <1>2 DEF ProjectSchema
<1>3. CASE narrowing # Nothing /\ narrowing.tool = tool
  <2> DEFINE s == Schemas[tool]
             n == narrowing
  <2>1. n \in Narrowings /\ WellFormedSchema(s) /\ WellFormedNarrowing(n)
    BY <1>3, ToolAssumption
  <2>2. PICK p : p = ProjectSchema(tool)
    OBVIOUS
  <2>3. p = [s EXCEPT !.properties[n.property] = n.allowed]
    BY <1>3, <2>2 DEF ProjectSchema
  <2>4. /\ p.required = s.required
        /\ p.properties = [s.properties EXCEPT ![n.property] = n.allowed]
    BY <2>1, <2>3 DEF WellFormedSchema
  <2>5. n.property \in DOMAIN s.properties /\ n.allowed \subseteq s.properties[n.property]
    BY <1>3, <2>1 DEF WellFormedNarrowing
  <2> HIDE DEF s, n
  <2>6. /\ DOMAIN p.properties = DOMAIN s.properties
        /\ p.properties[n.property] = n.allowed
        /\ \A q \in DOMAIN s.properties : p.properties[q] \subseteq s.properties[q]
    BY <2>4, <2>5
  <2>7. FitsSchema(a, p)
    BY <2>2
  <2>8. FitsSchema(a, s)
    BY <2>4, <2>6, <2>7 DEF FitsSchema
  <2>9. n.property \in DOMAIN a => a[n.property] \in n.allowed
    BY <2>6, <2>7 DEF FitsSchema
  <2> QED
    BY <2>8, <2>9 DEF s, n
<1> QED
  BY <1>1, <1>2, <1>3

-----------------------------------------------------------------------------
\* A controller has a call, and one well-formed constraint is in force, or none.
LoopInv == /\ call = [k \in Controllers |-> call[k]]
           /\ narrowing \in {Nothing} \cup Narrowings

\* The steps of the loop keep it so.
LEMMA LoopInvStep == LoopInv /\ [LoopNext]_loopVars => LoopInv'
<1> SUFFICES ASSUME LoopInv, [LoopNext]_loopVars PROVE LoopInv'
  OBVIOUS
<1>1. ASSUME NEW k \in Controllers, NEW c, SetCall(k, c) PROVE call' = [j \in Controllers |-> call'[j]]
  BY <1>1 DEF SetCall, LoopInv
<1>2. CASE UNCHANGED loopVars
  BY <1>2 DEF loopVars, toolVars, contextVars, LoopInv
<1>3. CASE Change /\ UNCHANGED <<agentVars, call>>
  BY <1>3 DEF Change, Disable, ChangeContext, LoopInv
<1>4. ASSUME NEW k \in Controllers,
             \/ Plan(k) \/ DecideGoverned(k) \/ ApplyPlan(k) \/ Prepare(k) \/ Admit(k) \/ Run(k)
             \/ Complete(k) \/ Abandon(k)
      PROVE  LoopInv'
  <2>1. UNCHANGED narrowing
    BY <1>4 DEF Plan, DecideGoverned, ApplyPlan, Prepare, Admit, Run, Complete, Abandon, toolVars, contextVars
  <2>2. UNCHANGED call \/ \E c : SetCall(k, c)
    BY <1>4 DEF Plan, DecideGoverned, ApplyPlan, Prepare, Admit, Run, Complete, Abandon
  <2> QED
    BY <1>1, <2>1, <2>2 DEF LoopInv
<1> QED
  BY <1>2, <1>3, <1>4 DEF LoopNext

\* What one controller does with its call leaves the others' alone, and an applied call is made ready
\* by Prepare only.
LEMMA OnlyPrepareMakesReady ==
  ASSUME LoopInv, [LoopNext]_loopVars, NEW k \in Controllers,
         call[k].pc = "applied", call'[k].pc = "prepared"
  PROVE  Preparation(call[k], step) = "READY_FOR_BACKEND_ADMISSION"
<1>1. call' # call /\ call'[k] # NoCall
  BY DEF NoCall
<1>2. PICK j \in Controllers :
         \/ Plan(j) \/ DecideGoverned(j) \/ ApplyPlan(j) \/ Prepare(j) \/ Admit(j) \/ Run(j)
         \/ Complete(j) \/ Abandon(j)
  BY <1>1 DEF LoopNext, loopVars
<1>3. PICK c : SetCall(j, c)
  BY <1>1, <1>2 DEF Plan, DecideGoverned, ApplyPlan, Prepare, Admit, Run, Complete, Abandon
<1>4. j = k
  BY <1>3 DEF SetCall, LoopInv
<1>5. Prepare(k) \/ Abandon(k)
  BY <1>2, <1>4 DEF Plan, DecideGoverned, ApplyPlan, Admit, Run, Complete, Planning
<1>6. SetCall(k, NoCall) => call'[k] = NoCall
  BY DEF SetCall, LoopInv
<1> QED
  BY <1>1, <1>5, <1>6 DEF Prepare, Abandon

\* prepare_candidate_for_backend_admission: whatever changed since the binding was made, a call that is
\* ready for the backend is granted, enabled and within the constraint in force at that moment.
THEOREM ReadyWhatIsCurrent == LoopSpec => ReadyIsCurrent
<1> DEFINE Current == \A k \in Controllers : call[k].pc = "applied" /\ call'[k].pc = "prepared" =>
             LET tool == call[k].tool IN
             /\ tool \in granted \ disabled /\ tool \in DOMAIN Schemas
             /\ FitsSchema(call[k].arguments, Schemas[tool])
             /\ \A n \in {narrowing} \ {Nothing} :
                   n.tool = tool /\ n.property \in DOMAIN call[k].arguments
                      => call[k].arguments[n.property] \in n.allowed
             /\ call[k].step = step
<1>1. LoopInit => LoopInv
  BY DEF LoopInit, ToolInit, LoopInv
<1>2. LoopInv /\ [LoopNext]_loopVars => [Current]_call
  <2> SUFFICES ASSUME LoopInv, [LoopNext]_loopVars, NEW k \in Controllers,
                      call[k].pc = "applied", call'[k].pc = "prepared"
               PROVE  LET tool == call[k].tool IN
                      /\ tool \in granted \ disabled /\ tool \in DOMAIN Schemas
                      /\ FitsSchema(call[k].arguments, Schemas[tool])
                      /\ \A n \in {narrowing} \ {Nothing} :
                            n.tool = tool /\ n.property \in DOMAIN call[k].arguments
                               => call[k].arguments[n.property] \in n.allowed
                      /\ call[k].step = step
    OBVIOUS
  <2> DEFINE tool == call[k].tool
             a == call[k].arguments
  <2>1. call[k].step = step /\ Visibility(tool) = "VISIBLE" /\ FitsSchema(a, ProjectSchema(tool))
    BY OnlyPrepareMakesReady, PreparedIsCurrent
  <2>2. tool \in granted \ disabled /\ tool \in DOMAIN Schemas
    BY <2>1, VisibleIsGranted
  <2>3. /\ FitsSchema(a, Schemas[tool])
        /\ \A n \in {narrowing} \ {Nothing} :
              n.tool = tool /\ n.property \in DOMAIN a => a[n.property] \in n.allowed
    BY <2>1, <2>2, ProjectionNarrows DEF LoopInv
  <2> QED
    BY <2>1, <2>2, <2>3
<1> QED
  BY <1>1, <1>2, LoopInvStep, PTL DEF LoopSpec, ReadyIsCurrent
-----------------------------------------------------------------------------
\* An operation is of a registered tool; a version without one has no effect, and no more than one with.
EffectInv ==
    /\ effects = [e \in EffectKeys |-> effects[e]]
    /\ \A o \in operations : o = [effect |-> o.effect, tool |-> o.tool] /\ o.tool \in DOMAIN Schemas
    /\ \A e \in EffectKeys : \/ effects[e] = 0
                             \/ effects[e] = 1 /\ \E o \in operations : o.effect = e

\* InMemoryToolExecutor.execute: what is executed is of an enabled tool and was not executed before.
LEMMA ExecutedIsNew ==
  ASSUME NEW c, ExecuteOutcome(c) = "EXECUTED"
  PROVE  c.tool \in DOMAIN Schemas /\ IdempotencyKey(c) \notin operations
<1> DEFINE c1 == Resolve(c.tool) # "ALLOWED"
           c2 == IdempotencyKey(c) \in operations
           rules == << <<c1, "REJECTED_DISABLED">>, <<c2, "DUPLICATE_SUPPRESSED">>, <<TRUE, "EXECUTED">> >>
<1>1. ExecuteOutcome(c) = FirstMatch(rules)
  BY DEF ExecuteOutcome
<1> HIDE DEF c1, c2
<1>2. /\ DOMAIN rules = 1 .. 3 /\ rules[3][1] /\ rules[1][1] = c1 /\ rules[2][1] = c2
      /\ rules[1][2] = "REJECTED_DISABLED" /\ rules[2][2] = "DUPLICATE_SUPPRESSED" /\ rules[3][2] = "EXECUTED"
  OBVIOUS
<1> HIDE DEF rules
<1>3. \A k \in 1 .. 2 : ~rules[k][1]
  <2>1. \A k \in 1 .. 2 : rules[k][2] # rules[3][2]
    BY <1>2
  <2>2. rules[3][1] /\ FirstMatch(rules) = rules[3][2] /\ 3 \in Nat /\ 3 > 0 /\ 3 - 1 = 2
    BY <1>1, <1>2
  <2>3. DOMAIN rules = 1 .. 3
    BY <1>2
  <2> QED
    BY <2>1, <2>2, <2>3, LastRuleApplies
<1>4. ~c1 /\ ~c2
  BY <1>2, <1>3
<1> QED
  BY <1>4, ResolvedIsRegistered DEF c1, c2

\* Of a single tool, two operations on the same version of a report have the same key.
LEMMA EffectExecute ==
  ASSUME \A t, u \in DOMAIN Schemas : t = u, EffectInv, NEW c, Execute(c)
  PROVE  EffectInv'
<1>1. CASE ExecuteOutcome(c) # "EXECUTED"
  BY <1>1 DEF Execute, executorVars, EffectInv
<1>2. CASE ExecuteOutcome(c) = "EXECUTED"
  <2>1. PICK key : key = IdempotencyKey(c)
    OBVIOUS
  <2>2. /\ key.tool \in DOMAIN Schemas /\ key \notin operations
        /\ key = [effect |-> key.effect, tool |-> key.tool]
    BY <1>2, <2>1, ExecutedIsNew DEF IdempotencyKey
  <2>3. operations' = operations \cup {key} /\ effects' = [effects EXCEPT ![key.effect] = @ + 1]
    BY <1>2, <2>1 DEF Execute
  <2>4. \A o \in operations : o.effect # key.effect
    BY <2>2 DEF EffectInv
  <2>5. ASSUME NEW e \in EffectKeys
        PROVE  \/ effects'[e] = 0
               \/ effects'[e] = 1 /\ \E o \in operations' : o.effect = e
    <3>1. CASE e = key.effect
      <4>1. effects[e] = 0
        BY <2>4, <3>1 DEF EffectInv
      <4>2. effects'[e] = 1
        BY <2>3, <3>1, <4>1 DEF EffectInv
      <4> QED
        BY <2>3, <3>1, <4>2
    <3>2. CASE e # key.effect
      <4>1. effects'[e] = effects[e]
        BY <2>3, <3>2 DEF EffectInv
      <4> QED
        BY <2>3, <4>1 DEF EffectInv
    <3> QED
      BY <3>1, <3>2
  <2>6. effects' = [e \in EffectKeys |-> effects'[e]]
    BY <2>3 DEF EffectInv
  <2>7. \A o \in operations' : o = [effect |-> o.effect, tool |-> o.tool] /\ o.tool \in DOMAIN Schemas
    BY <2>2, <2>3 DEF EffectInv
  <2> QED
    BY <2>5, <2>6, <2>7 DEF EffectInv
<1> QED
  BY <1>1, <1>2

\* InMemoryToolExecutor.execute: with one tool registered, as default_registry and the scenarios do,
\* a version of a report is published at most once.  The tool is part of the idempotency key, so the
\* registry's having one is needed.
THEOREM PublishedOnce == ASSUME \A t, u \in DOMAIN Schemas : t = u PROVE LoopSpec => []OneEffectPerVersion
<1>1. LoopInit => EffectInv
  BY DEF LoopInit, ToolInit, EffectInv
<1>2. EffectInv /\ [LoopNext]_loopVars => EffectInv'
  <2> SUFFICES ASSUME EffectInv, [LoopNext]_loopVars PROVE EffectInv'
    OBVIOUS
  <2>1. CASE UNCHANGED executorVars
    BY <2>1 DEF executorVars, EffectInv
  <2>2. ASSUME NEW k \in Controllers, Run(k) PROVE EffectInv'
    BY <2>2, EffectExecute DEF Run
  <2>3. ASSUME NEW k \in Controllers,
               \/ Plan(k) \/ DecideGoverned(k) \/ ApplyPlan(k) \/ Prepare(k) \/ Admit(k)
               \/ Complete(k) \/ Abandon(k)
        PROVE  UNCHANGED executorVars
    BY <2>3 DEF Plan, DecideGoverned, ApplyPlan, Prepare, Admit, Complete, Abandon, toolVars
  <2>4. Change \/ UNCHANGED loopVars => UNCHANGED executorVars
    BY DEF Change, loopVars, toolVars
  <2> QED
    BY <2>1, <2>2, <2>3, <2>4 DEF LoopNext
<1>3. EffectInv => OneEffectPerVersion
  BY DEF EffectInv, OneEffectPerVersion
<1> QED
  BY <1>1, <1>2, <1>3, PTL DEF LoopSpec
=============================================================================
