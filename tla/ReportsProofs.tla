--------------------------- MODULE ReportsProofs ---------------------------
(***************************************************************************)
(* The types of the reports, and what their rows show: ValuationExact,     *)
(* OpenCountExact and ReceivablesAgree.                                    *)
(*                                                                         *)
(* The invariant of the valuation speaks of one item at a time, that of    *)
(* the receivables of all invoices: their accounts share customers.  Both  *)
(* remember what the rows were told: the stock, or the invoice, after each *)
(* event of a stream.  A row, or the accounts, show the states at the      *)
(* cursors, and an event, a rebuild, a registration keeps it so.           *)
(***************************************************************************)
EXTENDS Reports, FiniteSetTheorems, WellFoundedInduction, TLAPS

-----------------------------------------------------------------------------
(* Induction over numbers and over finite sets: a nonempty set of numbers  *)
(* has a least one, so no counterexample can be least.                     *)

(* Every nonempty set of numbers has a least member. *)
LEMMA LeastNumber ==
    ASSUME NEW T \in SUBSET Nat, T # {}
    PROVE  \E n \in T : \A m \in T : n <= m
  <1>1. PICK n \in T : \A m \in T : ~(<<m, n>> \in OpToRel(<, Nat))
    BY NatLessThanWellFounded, WFMin
  <1>2. \A m \in T : ~(m < n)
    BY <1>1 DEF OpToRel
  <1>3. \A m \in T : n <= m
    BY <1>2
  <1> QED
    BY <1>3

(* A family of subsets that has the empty set, and for every other set has *)
(* it if it has the set without some member.                               *)
Hereditary(Good, S) ==
    /\ {} \in Good
    /\ \A s \in SUBSET S : s # {} => \E x \in s : s \ {x} \in Good => s \in Good

(* A choice of a member of every subset, and a way to count it in. *)
Picks(pick, S) == \A s \in SUBSET S : s # {} => pick[s] \in s
Steps(step, S, V) == \A x \in S : \A v \in V : step[<<x, v>>] \in V
Recurs(g, S, base, pick, step) ==
    \A s \in SUBSET S : g[s] = IF s = {} THEN base ELSE step[<<pick[s], g[s \ {pick[s]}]>>]

(* A family of subsets of a finite set that has the empty set, and with    *)
(* every other set's some smaller one the set itself, has them all.        *)
LEMMA SubsetInduction ==
    ASSUME NEW S, IsFiniteSet(S), NEW Good, Hereditary(Good, S)
    PROVE  SUBSET S \subseteq Good
  <1>0. \A s \in SUBSET S : IsFiniteSet(s) /\ Cardinality(s) \in Nat
    BY FS_Subset, FS_CardinalityType
  <1> SUFFICES ASSUME NEW b \in SUBSET S, b \notin Good PROVE FALSE
    OBVIOUS
  <1> DEFINE T == {Cardinality(s) : s \in {t \in SUBSET S : t \notin Good}}
  <1>1. T \in SUBSET Nat /\ T # {}
    BY <1>0
  <1>2. PICK n \in T : \A m \in T : n <= m
    BY <1>1, LeastNumber
  <1>3. PICK s \in SUBSET S : s \notin Good /\ n = Cardinality(s)
    BY <1>2
  <1>4. s # {}
    BY <1>3 DEF Hereditary
  <1>5. PICK x \in s : s \ {x} \in Good => s \in Good
    BY <1>4 DEF Hereditary
  <1>6. s \ {x} \in SUBSET S /\ s \ {x} \notin Good
    BY <1>3, <1>5
  <1>7. Cardinality(s \ {x}) = Cardinality(s) - 1
    BY <1>0, FS_RemoveElement
  <1>8. Cardinality(s \ {x}) \in T
    BY <1>6
  <1> HIDE DEF T
  <1>9. n \in Nat /\ n <= Cardinality(s \ {x})
    BY <1>1, <1>2, <1>8
  <1> QED
    BY <1>3, <1>7, <1>9



(* Recursion over the subsets of a finite set: what is taken away from a   *)
(* set first, and how it counts, determine a function.                     *)
LEMMA SubsetRecursion ==
    ASSUME NEW S, IsFiniteSet(S), NEW V, NEW base \in V,
           NEW pick, Picks(pick, S),
           NEW step, Steps(step, S, V)
    PROVE  \E g \in [SUBSET S -> V] : Recurs(g, S, base, pick, step)
  <1> DEFINE Again(g) == [s \in SUBSET S |->
                            IF s = {} THEN base ELSE step[<<pick[s], g[s \ {pick[s]}]>>]]
             Right(n) == {g \in [SUBSET S -> V] :
                             \A s \in SUBSET S : Cardinality(s) < n => g[s] = Again(g)[s]}
  <1>0. \A s \in SUBSET S : IsFiniteSet(s) /\ Cardinality(s) \in Nat
    BY FS_Subset, FS_CardinalityType
  <1>1. \A g \in [SUBSET S -> V] : Again(g) \in [SUBSET S -> V]
    BY DEF Picks, Steps
  <1>2. ASSUME NEW n \in Nat, NEW g \in Right(n) PROVE Again(g) \in Right(n + 1)
    <2>1. g \in [SUBSET S -> V] /\ \A s \in SUBSET S : Cardinality(s) < n => g[s] = Again(g)[s]
      OBVIOUS
    <2>2. ASSUME NEW s \in SUBSET S, Cardinality(s) < n + 1, s # {}
          PROVE  g[s \ {pick[s]}] = Again(g)[s \ {pick[s]}]
      <3>1. pick[s] \in s /\ s \ {pick[s]} \in SUBSET S
        BY <2>2 DEF Picks
      <3>2. Cardinality(s \ {pick[s]}) = Cardinality(s) - 1
        BY <1>0, <3>1, FS_RemoveElement
      <3>3. Cardinality(s \ {pick[s]}) < n
        BY <1>0, <2>2, <3>2
      <3> QED
        BY <2>1, <3>1, <3>3
    <2>3. ASSUME NEW s \in SUBSET S, Cardinality(s) < n + 1
          PROVE  Again(g)[s] = Again(Again(g))[s]
      <3>1. CASE s = {}
        BY <3>1
      <3>2. CASE s # {}
        <4>1. Again(g)[s] = step[<<pick[s], g[s \ {pick[s]}]>>]
          BY <3>2
        <4>2. Again(Again(g))[s] = step[<<pick[s], Again(g)[s \ {pick[s]}]>>]
          BY <3>2
        <4> HIDE DEF Again
        <4> QED
          BY <2>2, <2>3, <3>2, <4>1, <4>2
      <3> QED
        BY <3>1, <3>2
    <2> HIDE DEF Again
    <2> QED
      BY <1>1, <2>1, <2>3
  <1>3. \A n \in Nat : Right(n) # {}
    <2> SUFFICES ASSUME NEW b \in Nat, Right(b) = {} PROVE FALSE
      OBVIOUS
    <2> DEFINE T == {n \in Nat : Right(n) = {}}
    <2>1. PICK n \in T : \A m \in T : n <= m
      <3> HIDE DEF Right
      <3>1. T \in SUBSET Nat /\ T # {}
        OBVIOUS
      <3> QED
        BY <3>1, LeastNumber
    <2>2. [s \in SUBSET S |-> base] \in Right(0)
      BY <1>0
    <2> HIDE DEF Right
    <2>3. n \in Nat /\ n # 0 /\ Right(n) = {}
      BY <2>1, <2>2
    <2>4. n - 1 \in Nat /\ n - 1 \notin T
      BY <2>1, <2>3
    <2>5. PICK g : g \in Right(n - 1)
      BY <2>4
    <2>6. Again(g) \in Right((n - 1) + 1)
      BY <1>2, <2>4, <2>5
    <2> QED
      BY <2>3, <2>6
  <1>4. PICK g : g \in Right(Cardinality(S) + 1)
    <2> HIDE DEF Right
    <2>1. Cardinality(S) + 1 \in Nat
      BY <1>0
    <2> QED
      BY <1>3, <2>1
  <1>5. \A s \in SUBSET S : Cardinality(s) < Cardinality(S) + 1
    BY <1>0, FS_Subset
  <1>6. g \in [SUBSET S -> V] /\ \A s \in SUBSET S : g[s] = Again(g)[s]
    <2> HIDE DEF Again
    <2> QED
      BY <1>4, <1>5
  <1> QED
    BY <1>6 DEF Recurs

(* The sums of a function over the subsets of a set. *)
Sums(g, f, S) ==
    /\ g \in [SUBSET S -> Int]
    /\ g[{}] = 0
    /\ \A s \in SUBSET S : s # {} =>
           g[s] = f[CHOOSE x \in s : TRUE] + g[s \ {CHOOSE x \in s : TRUE}]

(* A sum is the last value of a function on the subsets of the set. *)
LEMMA SumUnfolds ==
    ASSUME NEW S, IsFiniteSet(S), NEW f, \A x \in S : f[x] \in Int
    PROVE  \E g : Sums(g, f, S) /\ SumOf(f, S) = g[S]
  <1> DEFINE pick == [s \in SUBSET S |-> CHOOSE x \in s : TRUE]
             step == [p \in S \X Int |-> f[p[1]] + p[2]]
             Rec(g) == [s \in SUBSET S |->
                           IF s = {} THEN 0
                           ELSE f[CHOOSE x \in s : TRUE] + g[s \ {CHOOSE x \in s : TRUE}]]
             sum == CHOOSE g : g = Rec(g)
  <1>0. \A s \in SUBSET S : s # {} => /\ (CHOOSE x \in s : TRUE) \in s
                                      /\ s \ {CHOOSE x \in s : TRUE} \in SUBSET S
    OBVIOUS
  <1>1. \A s \in SUBSET S : s # {} => pick[s] \in s /\ pick[s] = CHOOSE x \in s : TRUE
    BY <1>0
  <1>2. \A x \in S : \A v \in Int : step[<<x, v>>] \in Int /\ step[<<x, v>>] = f[x] + v
    OBVIOUS
  <1>3. PICK g \in [SUBSET S -> Int] : Recurs(g, S, 0, pick, step)
    <2> HIDE DEF pick, step
    <2>1. Picks(pick, S) /\ Steps(step, S, Int) /\ 0 \in Int
      BY <1>1, <1>2 DEF Picks, Steps
    <2> QED
      BY <2>1, SubsetRecursion
  <1>4. g = Rec(g)
    <2>1. ASSUME NEW s \in SUBSET S PROVE g[s] = Rec(g)[s]
      <3> HIDE DEF pick, step
      <3>1. CASE s = {}
        BY <1>3, <3>1 DEF Recurs
      <3>2. CASE s # {}
        <4> DEFINE x == CHOOSE y \in s : TRUE
        <4>1. pick[s] = x /\ x \in S /\ s \ {x} \in SUBSET S
          BY <1>0, <1>1, <3>2
        <4>2. g[s] = step[<<x, g[s \ {x}]>>]
          BY <1>3, <3>2, <4>1 DEF Recurs
        <4>3. g[s] = f[x] + g[s \ {x}]
          BY <1>2, <4>1, <4>2
        <4> QED
          BY <3>2, <4>3
      <3> QED
        BY <3>1, <3>2
    <2> QED
      BY <2>1
  <1>5. sum = Rec(sum)
    <2> HIDE DEF Rec
    <2> QED
      BY <1>4
  <1>6. \A s \in SUBSET S :
            sum[s] = IF s = {} THEN 0
                     ELSE f[CHOOSE x \in s : TRUE] + sum[s \ {CHOOSE x \in s : TRUE}]
    <2> HIDE DEF sum
    <2> QED
      BY <1>5
  <1>7. SumOf(f, S) = sum[S]
    BY Zenon DEF SumOf, MapThenSumSet, MapThenFoldSet
  <1> HIDE DEF sum
  <1> DEFINE Good == {s \in SUBSET S : sum[s] \in Int}
  <1>8. SUBSET S \subseteq Good
    <2>1. {} \in Good
      <3>1. sum[{}] = 0
        BY <1>6
      <3> QED
        BY <3>1
    <2>2. ASSUME NEW s \in SUBSET S, s # {}
          PROVE  \E x \in s : s \ {x} \in Good => s \in Good
      <3> DEFINE x == CHOOSE y \in s : TRUE
      <3>1. sum[s] = f[x] + sum[s \ {x}] /\ x \in s
        BY <1>0, <1>6, <2>2
      <3> HIDE DEF x
      <3>2. s \ {x} \in Good => s \in Good
        BY <3>1
      <3> QED
        BY <3>1, <3>2
    <2> HIDE DEF Good
    <2>3. Hereditary(Good, S)
      BY <2>1, <2>2 DEF Hereditary
    <2> QED
      BY <2>3, SubsetInduction
  <1>9. sum \in [SUBSET S -> Int]
    BY <1>5, <1>8
  <1> QED
    BY <1>6, <1>7, <1>9 DEF Sums

(* A summand that changes changes the sum by as much. *)
LEMMA SumChanges ==
    ASSUME NEW S, IsFiniteSet(S), NEW f, \A x \in S : f[x] \in Int,
           NEW h, \A x \in S : h[x] \in Int,
           NEW a \in S, \A x \in S : x # a => h[x] = f[x]
    PROVE  SumOf(f, S) \in Int /\ SumOf(h, S) = SumOf(f, S) + h[a] - f[a]
  <1>1. PICK F : Sums(F, f, S) /\ SumOf(f, S) = F[S]
    BY SumUnfolds
  <1>2. PICK H : Sums(H, h, S) /\ SumOf(h, S) = H[S]
    BY SumUnfolds
  <1> DEFINE Good == {s \in SUBSET S : H[s] = F[s] + (IF a \in s THEN h[a] - f[a] ELSE 0)}
  <1>3. {} \in Good
    BY <1>1, <1>2 DEF Sums
  <1>4. ASSUME NEW s \in SUBSET S, s # {}
        PROVE  \E x \in s : s \ {x} \in Good => s \in Good
    <2> DEFINE x == CHOOSE y \in s : TRUE
    <2>1. x \in s /\ F[s] = f[x] + F[s \ {x}] /\ H[s] = h[x] + H[s \ {x}]
      BY <1>1, <1>2, <1>4 DEF Sums
    <2> HIDE DEF x
    <2>2. s \ {x} \in SUBSET S /\ F[s \ {x}] \in Int
      BY <1>1 DEF Sums
    <2>3. ASSUME s \ {x} \in Good PROVE s \in Good
      <3>1. H[s \ {x}] = F[s \ {x}] + (IF a \in s \ {x} THEN h[a] - f[a] ELSE 0)
        BY <2>3
      <3>2. CASE x = a
        BY <2>1, <2>2, <3>1, <3>2
      <3>3. CASE x # a
        <4>1. h[x] = f[x] /\ f[x] \in Int /\ (a \in s \ {x} <=> a \in s)
          BY <2>1, <3>3
        <4> QED
          BY <2>1, <2>2, <3>1, <4>1
      <3> QED
        BY <3>2, <3>3
    <2> QED
      BY <2>1, <2>3
  <1>5. S \in Good
    <2> HIDE DEF Good
    <2>1. Hereditary(Good, S)
      BY <1>3, <1>4 DEF Hereditary
    <2> QED
      BY <2>1, SubsetInduction
  <1> QED
    BY <1>1, <1>2, <1>5 DEF Sums

(* Nothing adds up to nothing. *)
LEMMA SumOfZeros ==
    ASSUME NEW S, IsFiniteSet(S), NEW f, \A x \in S : f[x] = 0
    PROVE  SumOf(f, S) = 0
  <1>1. PICK F : Sums(F, f, S) /\ SumOf(f, S) = F[S]
    BY SumUnfolds
  <1> DEFINE Good == {s \in SUBSET S : F[s] = 0}
  <1>3. {} \in Good
    BY <1>1 DEF Sums
  <1>4. ASSUME NEW s \in SUBSET S, s # {}
        PROVE  \E x \in s : s \ {x} \in Good => s \in Good
    <2> DEFINE x == CHOOSE y \in s : TRUE
    <2>1. x \in s /\ F[s] = f[x] + F[s \ {x}] 
      BY <1>1, <1>4 DEF Sums
    <2> HIDE DEF x
    <2>2. s \ {x} \in Good => s \in Good
      BY <2>1
    <2> QED
      BY <2>1, <2>2
  <1>5. S \in Good
    <2> HIDE DEF Good
    <2>1. Hereditary(Good, S)
      BY <1>3, <1>4 DEF Hereditary
    <2> QED
      BY <2>1, SubsetInduction
  <1> QED
    BY <1>1, <1>5

(* A set of numbers that has zero and with each number the next. *)
Climbs(Good, n) == 0 \in Good /\ \A i \in 1 .. n : i - 1 \in Good => i \in Good

(* Such a set has every number up to the last. *)
LEMMA Climbing ==
    ASSUME NEW n \in Nat, NEW Good, Climbs(Good, n)
    PROVE  0 .. n \subseteq Good
  <1> SUFFICES ASSUME NEW b \in 0 .. n, b \notin Good PROVE FALSE
    OBVIOUS
  <1> DEFINE T == {i \in 0 .. n : i \notin Good}
  <1>1. T \in SUBSET Nat /\ T # {}
    OBVIOUS
  <1>2. PICK i \in T : \A m \in T : i <= m
    BY <1>1, LeastNumber
  <1>3. i \in 1 .. n /\ i - 1 \in 0 .. n /\ i \notin Good
    BY <1>2 DEF Climbs
  <1>4. i - 1 \in Good
    BY <1>2, <1>3
  <1> QED
    BY <1>3, <1>4 DEF Climbs

(* The largest member of a set of numbers. *)
LEMMA Largest ==
    ASSUME NEW n \in Nat, NEW s \in SUBSET (1 .. n), s # {}
    PROVE  Max(s) \in s /\ \A y \in s : Max(s) >= y
  <1> DEFINE T == {n - x : x \in s}
  <1>1. T \in SUBSET Nat /\ T # {}
    <2>1. \A x \in s : n - x \in Nat
      OBVIOUS
    <2> QED
      BY <2>1
  <1>2. PICK d \in T : \A m \in T : d <= m
    BY <1>1, LeastNumber
  <1>3. PICK x \in s : d = n - x
    BY <1>2
  <1>4. ASSUME NEW y \in s PROVE x >= y
    <2>1. d <= n - y
      BY <1>2
    <2> QED
      BY <1>3, <2>1
  <1>5. \E z \in s : \A y \in s : z >= y
    BY <1>4
  <1> QED
    BY <1>5 DEF Max

(* What a fold has come to after each place. *)
Stages(h, n, V, base, step) ==
    /\ h \in [0 .. n -> V] /\ h[0] = base
    /\ \A i \in 1 .. n : h[i] = step[<<i, h[i - 1]>>]

(* A function on the places of a list that follows the steps. *)
FoldsBy(g, n, V, base, step) ==
    /\ g[{}] = base
    /\ \A s \in SUBSET (1 .. n) :
           s # {} /\ g[s \ {Max(s)}] \in V => g[s] = step[<<Max(s), g[s \ {Max(s)}]>>]

(* There is a function that follows the steps of a list. *)
LEMMA FoldExists ==
    ASSUME NEW n \in Nat, NEW V, NEW base \in V, NEW step, Steps(step, 1 .. n, V)
    PROVE  \E g : g \in [SUBSET (1 .. n) -> V] /\ FoldsBy(g, n, V, base, step)
  <1> DEFINE S == 1 .. n
             pick == [s \in SUBSET S |-> Max(s)]
  <1>1. IsFiniteSet(S)
    BY FS_Interval
  <1>2. Picks(pick, S)
    BY Largest DEF Picks
  <1>3. PICK g \in [SUBSET S -> V] : Recurs(g, S, base, pick, step)
    <2> HIDE DEF S, pick
    <2>1. Steps(step, S, V)
      BY DEF S
    <2> QED
      BY <1>1, <1>2, <2>1, SubsetRecursion
  <1> QED
    BY <1>3 DEF Recurs, FoldsBy

(* A fold over a list is the last value of that function. *)
LEMMA FoldStages ==
    ASSUME NEW n \in Nat, NEW V, NEW base \in V, NEW step, Steps(step, 1 .. n, V),
           NEW g, FoldsBy(g, n, V, base, step)
    PROVE  \E h : Stages(h, n, V, base, step) /\ h[n] = g[1 .. n]
  <1> DEFINE h == [i \in 0 .. n |-> g[1 .. i]]
  <1>1. ASSUME NEW i \in 1 .. n, g[1 .. i - 1] \in V
        PROVE  g[1 .. i] = step[<<i, g[1 .. i - 1]>>]
    <2>1. 1 .. i \in SUBSET (1 .. n) /\ i \in 1 .. i
      <3>1. i \in Nat /\ 1 <= i /\ i <= n
        OBVIOUS
      <3>2. \A j \in 1 .. i : j \in 1 .. n
        BY <3>1
      <3> QED
        BY <3>1, <3>2
    <2>2. Max(1 .. i) = i
      <3>1. 1 .. i # {}
        BY <2>1
      <3>2. Max(1 .. i) \in 1 .. i /\ Max(1 .. i) >= i
        BY <2>1, <3>1, Largest
      <3> QED
        BY <3>2
    <2>3. (1 .. i) \ {i} = 1 .. i - 1
      OBVIOUS
    <2> QED
      BY <1>1, <2>1, <2>2, <2>3, Zenon DEF FoldsBy
  <1>2. \A i \in 0 .. n : g[1 .. i] \in V
    <2> DEFINE Good == {i \in 0 .. n : g[1 .. i] \in V}
    <2>1. 0 \in Good
      <3>1. 1 .. 0 = {}
        OBVIOUS
      <3> QED
        BY <3>1 DEF FoldsBy
    <2>2. ASSUME NEW i \in 1 .. n, i - 1 \in Good PROVE i \in Good
      <3>1. g[1 .. i - 1] \in V /\ i \in 0 .. n
        BY <2>2
      <3>2. g[1 .. i] = step[<<i, g[1 .. i - 1]>>]
        BY <1>1, <3>1
      <3> QED
        BY <3>1, <3>2 DEF Steps
    <2> HIDE DEF Good
    <2>3. Climbs(Good, n)
      BY <2>1, <2>2 DEF Climbs
    <2>4. 0 .. n \subseteq Good
      BY <2>3, Climbing
    <2> QED
      BY <2>4 DEF Good
  <1>3. h[0] = base
    <2>1. 1 .. 0 = {}
      OBVIOUS
    <2> QED
      BY <2>1 DEF FoldsBy
  <1>4. \A i \in 1 .. n : h[i] = step[<<i, h[i - 1]>>]
    BY <1>1, <1>2
  <1>5. h \in [0 .. n -> V] /\ h[n] = g[1 .. n]
    BY <1>2
  <1> HIDE DEF h
  <1> QED
    BY <1>3, <1>4, <1>5 DEF Stages

(* Larger summands make no smaller sum. *)
LEMMA SumGrows ==
    ASSUME NEW S, IsFiniteSet(S), NEW f, \A x \in S : f[x] \in Int,
           NEW h, \A x \in S : h[x] \in Int, \A x \in S : f[x] <= h[x]
    PROVE  SumOf(f, S) \in Int /\ SumOf(h, S) \in Int /\ SumOf(f, S) <= SumOf(h, S)
  <1>1. PICK F : Sums(F, f, S) /\ SumOf(f, S) = F[S]
    BY SumUnfolds
  <1>2. PICK H : Sums(H, h, S) /\ SumOf(h, S) = H[S]
    BY SumUnfolds
  <1> DEFINE Good == {s \in SUBSET S : F[s] <= H[s]}
  <1>3. {} \in Good
    BY <1>1, <1>2 DEF Sums
  <1>4. ASSUME NEW s \in SUBSET S, s # {}
        PROVE  \E x \in s : s \ {x} \in Good => s \in Good
    <2> DEFINE x == CHOOSE y \in s : TRUE
    <2>1. x \in s /\ F[s] = f[x] + F[s \ {x}] /\ H[s] = h[x] + H[s \ {x}]
      BY <1>1, <1>2, <1>4 DEF Sums
    <2> HIDE DEF x
    <2>2. x \in S /\ s \ {x} \in SUBSET S /\ F[s \ {x}] \in Int /\ H[s \ {x}] \in Int
      BY <1>1, <1>2, <2>1 DEF Sums
    <2>3. f[x] \in Int /\ h[x] \in Int /\ f[x] <= h[x]
      BY <2>2
    <2>4. s \ {x} \in Good => s \in Good
      BY <2>1, <2>2, <2>3
    <2> QED
      BY <2>1, <2>4
  <1>5. S \in Good
    <2> HIDE DEF Good
    <2>1. Hereditary(Good, S)
      BY <1>3, <1>4 DEF Hereditary
    <2> QED
      BY <2>1, SubsetInduction
  <1> QED
    BY <1>1, <1>2, <1>5 DEF Sums

(* A sum of no negative numbers is at least each of them, and positive     *)
(* only if one of them is.                                                 *)
LEMMA SumOfNaturals ==
    ASSUME NEW S, IsFiniteSet(S), NEW f, \A x \in S : f[x] \in Nat
    PROVE  /\ SumOf(f, S) \in Nat
           /\ \A x \in S : f[x] <= SumOf(f, S)
           /\ SumOf(f, S) > 0 => \E x \in S : f[x] > 0
  <1>0. \A x \in S : f[x] \in Int
    OBVIOUS
  <1>1. SumOf(f, S) \in Nat
    <2> DEFINE z == [x \in S |-> 0]
    <2>1. /\ \A x \in S : z[x] \in Int
          /\ \A x \in S : z[x] = 0
          /\ \A x \in S : z[x] <= f[x]
      OBVIOUS
    <2> HIDE DEF z
    <2>2. SumOf(z, S) = 0 /\ SumOf(z, S) <= SumOf(f, S) /\ SumOf(f, S) \in Int
      BY <1>0, <2>1, SumGrows, SumOfZeros
    <2> QED
      BY <2>2
  <1>2. ASSUME NEW a \in S PROVE f[a] <= SumOf(f, S)
    <2> DEFINE z == [x \in S |-> 0]
               o == [x \in S |-> IF x = a THEN f[a] ELSE 0]
    <2>1. /\ \A x \in S : z[x] \in Int
          /\ \A x \in S : z[x] = 0
          /\ \A x \in S : o[x] \in Int
          /\ \A x \in S : o[x] <= f[x]
          /\ \A x \in S : x # a => o[x] = z[x]
          /\ o[a] = f[a] /\ z[a] = 0
      BY <1>0
    <2> HIDE DEF z, o
    <2>2. SumOf(z, S) = 0
      BY <2>1, SumOfZeros
    <2>3. SumOf(o, S) = SumOf(z, S) + o[a] - z[a]
      BY <2>1, SumChanges
    <2>4. SumOf(o, S) <= SumOf(f, S)
      BY <1>0, <2>1, SumGrows
    <2> QED
      BY <1>0, <2>1, <2>2, <2>3, <2>4
  <1>3. ASSUME SumOf(f, S) > 0 PROVE \E x \in S : f[x] > 0
    <2>1. CASE \A x \in S : f[x] = 0
      <3>1. SumOf(f, S) = 0
        BY <2>1, SumOfZeros
      <3> QED
        BY <1>3, <3>1
    <2>2. CASE \E x \in S : f[x] # 0
      BY <2>2
    <2> QED
      BY <2>1, <2>2
  <1> QED
    BY <1>1, <1>2, <1>3

-----------------------------------------------------------------------------
(* What the operators return. *)

(* The fields of an invoice event, by its type. *)
LEMMA InvoiceEventFields ==
    ASSUME NEW e \in InvoiceEvent
    PROVE  /\ e.type \in {"InvoiceIssued", "PaymentRegistered", "InvoiceVoided"}
           /\ e.type = "InvoiceIssued" => e.sales_order_id \in Orders /\ e.total \in Amount
           /\ e.type = "PaymentRegistered" => e.amount \in Amount /\ e.new_total_paid \in Amount
  <1>1. CASE e \in [type : {"InvoiceIssued"}, sales_order_id : Orders, total : Amount]
    BY <1>1
  <1>2. CASE e \in [type : {"PaymentRegistered"}, amount : Amount, new_total_paid : Amount]
    BY <1>2
  <1>3. CASE e \in [type : {"InvoiceVoided"}]
    BY <1>3
  <1> QED
    BY <1>1, <1>2, <1>3 DEF InvoiceEvent

(* The arithmetic of the rows stays in its types: sums that wrap,          *)
(* saturating_sub and saturating_mul.                                      *)
LEMMA Arithmetic ==
    /\ \A a, b \in Amount : Plus(a, b) \in Amount /\ SaturatingSub(a, b) \in Amount
    /\ \A a, b \in Amount : a + b <= MaxU64 => Plus(a, b) = a + b
    /\ \A a, b \in Nat : SaturatingSub(a, b) \in Nat
    /\ \A a, b \in I64 : AddI64(a, b) \in I64
    /\ \A a \in I64, b \in 0 .. MaxValue : a >= 0 => SaturatingMul(a, b) \in 0 .. MaxValue
    /\ 0 \in Amount /\ 0 \in I64
  <1>1. MaxU64 \in Nat /\ MaxI64 \in Nat /\ MaxValue \in Nat
    BY InvoiceAssumption, InventoryAssumption, ValuationAssumption
  <1>2. \A a, b \in Amount : Plus(a, b) \in Amount /\ SaturatingSub(a, b) \in Amount
    BY <1>1 DEF Amount, Plus, SaturatingSub
  <1>3. \A a, b \in Amount : a + b <= MaxU64 => Plus(a, b) = a + b
    BY <1>1 DEF Amount, Plus
  <1>4. \A a, b \in Nat : SaturatingSub(a, b) \in Nat
    BY DEF SaturatingSub
  <1>5. \A a, b \in I64 : AddI64(a, b) \in I64
    BY <1>1 DEF I64, AddI64
  <1>6. ASSUME NEW a \in I64, NEW b \in 0 .. MaxValue, a >= 0
        PROVE  SaturatingMul(a, b) \in 0 .. MaxValue
    <2>1. a \in Int /\ b \in Int /\ b >= 0
      BY <1>1 DEF I64
    <2>2. a * b \in Int /\ a * b >= 0
      BY <1>6, <2>1
    <2> QED
      BY <1>1, <2>2 DEF SaturatingMul
  <1>7. 0 \in Amount /\ 0 \in I64
    BY <1>1 DEF Amount, I64
  <1> QED
    BY <1>2, <1>3, <1>4, <1>5, <1>6, <1>7

(* The value of a stock at each cost. *)
Values(q, costs) == {IF q > 0 THEN SaturatingMul(q, cost) ELSE 0 : cost \in costs}

(* The value of a stock is in the type of the row. *)
LEMMA ValuesTyped ==
    ASSUME NEW q \in I64, NEW costs \in SUBSET (0 .. MaxValue)
    PROVE  Values(q, costs) \in SUBSET (0 .. MaxValue)
  <1>1. MaxValue \in Nat /\ q \in Int
    BY ValuationAssumption, InventoryAssumption DEF I64
  <1>2. ASSUME NEW cost \in costs
        PROVE  (IF q > 0 THEN SaturatingMul(q, cost) ELSE 0) \in 0 .. MaxValue
    BY <1>1, Arithmetic
  <1> QED
    BY <1>2 DEF Values

(* What set_unit_cost and an event make of a row of the valuation. *)
LEMMA ValuationRows ==
    ASSUME NEW row \in ValuationRow
    PROVE  /\ NoValuation \in ValuationRow /\ NewValuation \in ValuationRow
           /\ \A cost \in 0 .. MaxValue :
                  /\ SetUnitCost(row, cost) = [listed |-> row.listed, quantity |-> row.quantity,
                         unit_cost |-> {cost}, total_value |-> Values(row.quantity, {cost})]
                  /\ SetUnitCost(row, cost) \in ValuationRow
           /\ \A e \in Event :
                  /\ ValuationAfter(row, e) =
                         IF e.type = "ItemCreated" THEN NewValuation
                         ELSE [listed |-> TRUE, quantity |-> AddI64(row.quantity, e.delta),
                               unit_cost |-> row.unit_cost,
                               total_value |-> Values(AddI64(row.quantity, e.delta), row.unit_cost)]
                  /\ ValuationAfter(row, e) \in ValuationRow
  <1>1. PICK r : r = row
    OBVIOUS
  <1>2. r = [listed |-> r.listed, quantity |-> r.quantity, unit_cost |-> r.unit_cost,
             total_value |-> r.total_value]
        /\ r.listed \in BOOLEAN /\ r.quantity \in I64 /\ r.unit_cost \in SUBSET (0 .. MaxValue)
    BY <1>1 DEF ValuationRow
  <1>3. NewValuation \in ValuationRow
    BY Arithmetic DEF NewValuation, ValuationRow
  <1>4. NoValuation \in ValuationRow
    BY Arithmetic DEF NewValuation, NoValuation, ValuationRow
  <1>5. ASSUME NEW cost \in 0 .. MaxValue
        PROVE  /\ SetUnitCost(r, cost) = [listed |-> r.listed, quantity |-> r.quantity,
                      unit_cost |-> {cost}, total_value |-> Values(r.quantity, {cost})]
               /\ SetUnitCost(r, cost) \in ValuationRow
    <2>1. PICK c : c = [r EXCEPT !.unit_cost = {cost}]
      OBVIOUS
    <2>2. c = [listed |-> r.listed, quantity |-> r.quantity, unit_cost |-> {cost},
               total_value |-> r.total_value]
      BY <1>2, <2>1
    <2>3. SetUnitCost(r, cost) = [c EXCEPT !.total_value = Values(c.quantity, c.unit_cost)]
      BY <2>1 DEF SetUnitCost, RecalculateValue, Values
    <2>4. SetUnitCost(r, cost) = [listed |-> r.listed, quantity |-> r.quantity,
              unit_cost |-> {cost}, total_value |-> Values(r.quantity, {cost})]
      BY <2>2, <2>3
    <2>5. Values(r.quantity, {cost}) \in SUBSET (0 .. MaxValue)
      BY <1>2, ValuesTyped
    <2> QED
      BY <1>2, <2>4, <2>5 DEF ValuationRow
  <1>6. ASSUME NEW e \in Event
        PROVE  /\ ValuationAfter(r, e) =
                      IF e.type = "ItemCreated" THEN NewValuation
                      ELSE [listed |-> TRUE, quantity |-> AddI64(r.quantity, e.delta),
                            unit_cost |-> r.unit_cost,
                            total_value |-> Values(AddI64(r.quantity, e.delta), r.unit_cost)]
               /\ ValuationAfter(r, e) \in ValuationRow
    <2>1. PICK q : q = AddI64(r.quantity, e.delta)
      OBVIOUS
    <2>2. q \in I64 /\ Values(q, r.unit_cost) \in SUBSET (0 .. MaxValue)
      BY <1>2, <2>1, Arithmetic, ValuesTyped DEF Event
    <2>3. PICK c : c = [r EXCEPT !.listed = TRUE, !.quantity = q]
      OBVIOUS
    <2>4. c = [listed |-> TRUE, quantity |-> q, unit_cost |-> r.unit_cost,
               total_value |-> r.total_value]
      BY <1>2, <2>3
    <2>5. e.type # "ItemCreated" =>
              ValuationAfter(r, e) = [c EXCEPT !.total_value = Values(c.quantity, c.unit_cost)]
      BY <2>1, <2>3 DEF ValuationAfter, RecalculateValue, Values
    <2>6. e.type # "ItemCreated" =>
              ValuationAfter(r, e) = [listed |-> TRUE, quantity |-> q, unit_cost |-> r.unit_cost,
                                      total_value |-> Values(q, r.unit_cost)]
      BY <2>4, <2>5
    <2>7. e.type = "ItemCreated" => ValuationAfter(r, e) = NewValuation
      BY DEF ValuationAfter
    <2>8. [listed |-> TRUE, quantity |-> q, unit_cost |-> r.unit_cost,
           total_value |-> Values(q, r.unit_cost)] \in ValuationRow
      BY <1>2, <2>2 DEF ValuationRow
    <2>9. CASE e.type = "ItemCreated"
      BY <1>3, <2>7, <2>9
    <2>10. CASE e.type # "ItemCreated"
      BY <2>1, <2>6, <2>8, <2>10
    <2> QED
      BY <2>9, <2>10
  <1> QED
    BY <1>1, <1>3, <1>4, <1>5, <1>6

(* What an event makes of a row of open invoices. *)
LEMMA OpenRows ==
    ASSUME NEW row \in OpenRow, NEW e \in InvoiceEvent
    PROVE  /\ OpenRowAfter(row, e) \in OpenRow /\ NoOpenRow \in OpenRow
           /\ e.type = "InvoiceIssued" =>
                  OpenRowAfter(row, e) = [listed |-> TRUE, total |-> e.total, paid |-> 0,
                                          outstanding |-> e.total]
           /\ row.listed /\ e.type = "PaymentRegistered" =>
                  OpenRowAfter(row, e) = [listed |-> TRUE, total |-> row.total,
                      paid |-> e.new_total_paid,
                      outstanding |-> SaturatingSub(row.total, e.new_total_paid)]
           /\ row.listed /\ e.type = "InvoiceVoided" =>
                  OpenRowAfter(row, e) = [listed |-> TRUE, total |-> row.total, paid |-> row.paid,
                                          outstanding |-> 0]
  <1>0. NoOpenRow \in OpenRow
    BY Arithmetic DEF NoOpenRow, OpenRow
  <1>1. CASE e.type = "InvoiceIssued"
    <2>1. OpenRowAfter(row, e) = [listed |-> TRUE, total |-> e.total, paid |-> 0,
                                  outstanding |-> e.total]
      BY <1>1 DEF OpenRowAfter
    <2>2. e.total \in Amount
      BY <1>1, InvoiceEventFields
    <2>3. [listed |-> TRUE, total |-> e.total, paid |-> 0, outstanding |-> e.total] \in OpenRow
      BY <2>2, Arithmetic DEF OpenRow
    <2> QED
      BY <1>0, <1>1, <2>1, <2>3
  <1>2. CASE e.type # "InvoiceIssued" /\ ~row.listed
    BY <1>0, <1>2 DEF OpenRowAfter
  <1>3. CASE e.type = "PaymentRegistered" /\ row.listed
    <2>1. PICK left : left = SaturatingSub(row.total, e.new_total_paid)
      OBVIOUS
    <2>2. OpenRowAfter(row, e) = [row EXCEPT !.paid = e.new_total_paid, !.outstanding = left]
      BY <1>3, <2>1 DEF OpenRowAfter
    <2>3. e.new_total_paid \in Amount /\ row.total \in Amount
      BY <1>3, InvoiceEventFields DEF OpenRow
    <2>4. left \in Amount
      BY <2>1, <2>3, Arithmetic
    <2>5. OpenRowAfter(row, e) = [listed |-> TRUE, total |-> row.total,
                                  paid |-> e.new_total_paid, outstanding |-> left]
      BY <1>3, <2>2 DEF OpenRow
    <2>6. [listed |-> TRUE, total |-> row.total, paid |-> e.new_total_paid,
           outstanding |-> left] \in OpenRow
      BY <2>3, <2>4 DEF OpenRow
    <2> QED
      BY <1>0, <1>3, <2>1, <2>5, <2>6
  <1>4. CASE e.type = "InvoiceVoided" /\ row.listed
    <2>1. OpenRowAfter(row, e) = [row EXCEPT !.outstanding = 0]
      BY <1>4 DEF OpenRowAfter
    <2>2. OpenRowAfter(row, e) = [listed |-> TRUE, total |-> row.total, paid |-> row.paid,
                                  outstanding |-> 0]
      BY <1>4, <2>1 DEF OpenRow
    <2>3. [listed |-> TRUE, total |-> row.total, paid |-> row.paid, outstanding |-> 0] \in OpenRow
      BY Arithmetic DEF OpenRow
    <2> QED
      BY <1>0, <1>4, <2>2, <2>3
  <1> QED
    BY <1>1, <1>2, <1>3, <1>4, InvoiceEventFields DEF OpenRow

-----------------------------------------------------------------------------
(* The folds of the rebuilds. *)

(* One event, as a function of its place and the row before it. *)
ValuationStep(events) ==
    [p \in (1 .. Len(events)) \X ValuationRow |-> ValuationAfter(p[2], events[p[1]])]
OpenStep(events) == [p \in (1 .. Len(events)) \X OpenRow |-> OpenRowAfter(p[2], events[p[1]])]

(* A rebuilt row of the valuation is the last of the rows after each       *)
(* event.                                                                  *)
LEMMA ValuationStages ==
    ASSUME NEW events \in Seq(Event)
    PROVE  \E h : /\ Stages(h, Len(events), ValuationRow, NoValuation, ValuationStep(events))
                  /\ h[Len(events)] = RebuiltValuation(events)
  <1> DEFINE n == Len(events)
             V == ValuationRow
             step == ValuationStep(events)
             Rec(g) == [s \in SUBSET DOMAIN events |->
                           IF s = {} THEN NoValuation
                           ELSE ValuationAfter(g[s \ {Max(s)}], events[Max(s)])]
             fold == CHOOSE g : g = Rec(g)
  <1>1. n \in Nat /\ DOMAIN events = 1 .. n /\ \A i \in 1 .. n : events[i] \in Event
    OBVIOUS
  <1>2. \A i \in 1 .. n : \A v \in V :
            step[<<i, v>>] \in V /\ step[<<i, v>>] = ValuationAfter(v, events[i])
    BY <1>1, ValuationRows DEF ValuationStep
  <1>3. RebuiltValuation(events) = fold[DOMAIN events]
    BY Zenon DEF RebuiltValuation, FoldLeft, MapThenFoldSet
  <1>4. NoValuation \in V
    BY Arithmetic DEF NewValuation, NoValuation, ValuationRow
  <1> HIDE DEF n, V, step
  <1>5. Steps(step, 1 .. n, V)
    BY <1>2 DEF Steps
  <1>6. PICK g : g \in [SUBSET (1 .. n) -> V] /\ FoldsBy(g, n, V, NoValuation, step)
    BY <1>1, <1>4, <1>5, FoldExists
  <1>7. \A s \in SUBSET (1 .. n) : s # {} => Max(s) \in 1 .. n /\ s \ {Max(s)} \in SUBSET (1 .. n)
    BY <1>1, Largest
  <1>8. g = Rec(g)
    <2>1. ASSUME NEW s \in SUBSET (1 .. n) PROVE g[s] = Rec(g)[s]
      BY <1>1, <1>2, <1>6, <1>7 DEF FoldsBy
    <2> QED
      BY <1>1, <1>6, <2>1
  <1>9. fold = Rec(fold)
    <2> HIDE DEF Rec
    <2> QED
      BY <1>8
  <1> HIDE DEF fold
  <1>10. FoldsBy(fold, n, V, NoValuation, step)
    <2>1. \A s \in SUBSET (1 .. n) : fold[s] = Rec(fold)[s]
      BY <1>9
    <2> QED
      BY <1>1, <1>2, <1>7, <2>1 DEF FoldsBy
  <1>11. \E h : Stages(h, n, V, NoValuation, step) /\ h[n] = fold[1 .. n]
    BY <1>1, <1>4, <1>5, <1>10, FoldStages
  <1>12. fold[1 .. n] = RebuiltValuation(events)
    BY <1>1, <1>3
  <1> QED
    BY <1>11, <1>12 DEF n, step, V

(* A rebuilt row of open invoices is the last of the rows after each       *)
(* event.                                                                  *)
LEMMA OpenStages ==
    ASSUME NEW events \in Seq(InvoiceEvent)
    PROVE  \E h : /\ Stages(h, Len(events), OpenRow, NoOpenRow, OpenStep(events))
                  /\ h[Len(events)] = RebuiltOpenRow(events)
  <1> DEFINE n == Len(events)
             V == OpenRow
             step == OpenStep(events)
             Rec(g) == [s \in SUBSET DOMAIN events |->
                           IF s = {} THEN NoOpenRow
                           ELSE OpenRowAfter(g[s \ {Max(s)}], events[Max(s)])]
             fold == CHOOSE g : g = Rec(g)
  <1>1. n \in Nat /\ DOMAIN events = 1 .. n /\ \A i \in 1 .. n : events[i] \in InvoiceEvent
    OBVIOUS
  <1>2. \A i \in 1 .. n : \A v \in V :
            step[<<i, v>>] \in V /\ step[<<i, v>>] = OpenRowAfter(v, events[i])
    BY <1>1, OpenRows DEF OpenStep
  <1>3. RebuiltOpenRow(events) = fold[DOMAIN events]
    BY Zenon DEF RebuiltOpenRow, FoldLeft, MapThenFoldSet
  <1>4. NoOpenRow \in V
    BY Arithmetic DEF NoOpenRow, OpenRow
  <1> HIDE DEF n, V, step
  <1>5. Steps(step, 1 .. n, V)
    BY <1>2 DEF Steps
  <1>6. PICK g : g \in [SUBSET (1 .. n) -> V] /\ FoldsBy(g, n, V, NoOpenRow, step)
    BY <1>1, <1>4, <1>5, FoldExists
  <1>7. \A s \in SUBSET (1 .. n) : s # {} => Max(s) \in 1 .. n /\ s \ {Max(s)} \in SUBSET (1 .. n)
    BY <1>1, Largest
  <1>8. g = Rec(g)
    <2>1. ASSUME NEW s \in SUBSET (1 .. n) PROVE g[s] = Rec(g)[s]
      BY <1>1, <1>2, <1>6, <1>7 DEF FoldsBy
    <2> QED
      BY <1>1, <1>6, <2>1
  <1>9. fold = Rec(fold)
    <2> HIDE DEF Rec
    <2> QED
      BY <1>8
  <1> HIDE DEF fold
  <1>10. FoldsBy(fold, n, V, NoOpenRow, step)
    <2>1. \A s \in SUBSET (1 .. n) : fold[s] = Rec(fold)[s]
      BY <1>9
    <2> QED
      BY <1>1, <1>2, <1>7, <2>1 DEF FoldsBy
  <1>11. \E h : Stages(h, n, V, NoOpenRow, step) /\ h[n] = fold[1 .. n]
    BY <1>1, <1>4, <1>5, <1>10, FoldStages
  <1>12. fold[1 .. n] = RebuiltOpenRow(events)
    BY <1>1, <1>3
  <1> QED
    BY <1>11, <1>12 DEF n, step, V

(* The fields of a mapping that is known. *)
LEMMA MappingFields ==
    ASSUME NEW m \in Mapping
    PROVE  /\ m = [known |-> m.known, customer |-> m.customer, total |-> m.total, paid |-> m.paid]
           /\ m.known \in BOOLEAN /\ m.total \in Amount /\ m.paid \in Amount
           /\ m.known => m.customer \in Customers
  <1>1. CASE m \in [known : {TRUE}, customer : Customers, total : Amount, paid : Amount]
    BY <1>1
  <1>2. CASE m = NoMapping
    BY <1>2, Arithmetic DEF NoMapping
  <1> QED
    BY <1>1, <1>2 DEF Mapping

(* The state after an event, with the mapping and the account it changes. *)
Entered(st, i, m, c, a) ==
    [mapping |-> [st.mapping EXCEPT ![i] = m], accounts |-> [st.accounts EXCEPT ![c] = a]]

(* Only the one mapping and the one account are changed. *)
LEMMA EnteredTyped ==
    ASSUME NEW st \in Balances, NEW i \in Invoices, NEW m \in Mapping, NEW c \in Customers,
           NEW a \in Account
    PROVE  /\ Entered(st, i, m, c, a) \in Balances
           /\ \A j \in Invoices : Entered(st, i, m, c, a).mapping[j] = IF j = i THEN m ELSE st.mapping[j]
           /\ \A d \in Customers : Entered(st, i, m, c, a).accounts[d] = IF d = c THEN a ELSE st.accounts[d]
  BY DEF Entered, Balances

(* The fields of an account. *)
LEMMA AccountFields ==
    ASSUME NEW a \in Account
    PROVE  /\ a = [listed |-> a.listed, invoiced |-> a.invoiced, paid |-> a.paid,
                   outstanding |-> a.outstanding, open |-> a.open]
           /\ a.listed \in BOOLEAN /\ a.invoiced \in Amount /\ a.paid \in Amount
           /\ a.outstanding \in Amount /\ a.open \in Nat
  BY DEF Account

(* An account after an invoice is issued. *)
LEMMA ChargedIs ==
    ASSUME NEW a \in Account, NEW t \in Amount
    PROVE  /\ Charged(a, t) \in Account
           /\ Charged(a, t).listed
           /\ Charged(a, t).outstanding = Plus(a.outstanding, t)
           /\ Charged(a, t).open = a.open + 1
  <1>1. PICK b : b = Charged(a, t)
    OBVIOUS
  <1>2. b = [listed |-> TRUE, invoiced |-> Plus(a.invoiced, t), paid |-> a.paid,
             outstanding |-> Plus(a.outstanding, t), open |-> a.open + 1]
    BY <1>1 DEF Charged, Account
  <1>3. Plus(a.invoiced, t) \in Amount /\ Plus(a.outstanding, t) \in Amount /\ a.open + 1 \in Nat
    BY AccountFields, Arithmetic
  <1>4. b \in Account
    BY <1>2, <1>3, AccountFields DEF Account
  <1> QED
    BY <1>1, <1>2, <1>4

(* An account after a payment. *)
LEMMA CreditedIs ==
    ASSUME NEW a \in Account, NEW t \in Amount, NEW settled \in BOOLEAN
    PROVE  /\ Credited(a, t, settled) \in Account
           /\ Credited(a, t, settled).listed = a.listed
           /\ a.listed =>
                /\ Credited(a, t, settled).outstanding = SaturatingSub(a.outstanding, t)
                /\ Credited(a, t, settled).open = IF settled THEN SaturatingSub(a.open, 1) ELSE a.open
  <1>1. PICK b : b = Credited(a, t, settled)
    OBVIOUS
  <1>2. PICK n : n = IF settled THEN SaturatingSub(a.open, 1) ELSE a.open
    OBVIOUS
  <1>3. n \in Nat /\ Plus(a.paid, t) \in Amount /\ SaturatingSub(a.outstanding, t) \in Amount
    <2>1. 1 \in Nat /\ a.open \in Nat /\ SaturatingSub(a.open, 1) \in Nat
      BY AccountFields, Arithmetic
    <2> QED
      BY <1>2, <2>1, AccountFields, Arithmetic
  <1>4. CASE a.listed
    <2>1. b = [listed |-> TRUE, invoiced |-> a.invoiced, paid |-> Plus(a.paid, t),
               outstanding |-> SaturatingSub(a.outstanding, t), open |-> n]
      BY <1>1, <1>2, <1>4 DEF Credited, Account
    <2>2. b \in Account
      BY <1>3, <2>1, AccountFields DEF Account
    <2> QED
      BY <1>1, <1>2, <1>4, <2>1, <2>2
  <1>5. CASE ~a.listed
    BY <1>5 DEF Credited
  <1> QED
    BY <1>4, <1>5

(* An account after an invoice is voided. *)
LEMMA ReleasedIs ==
    ASSUME NEW a \in Account, NEW t \in Amount
    PROVE  /\ Released(a, t) \in Account
           /\ Released(a, t).listed = a.listed
           /\ a.listed =>
                /\ Released(a, t).outstanding = SaturatingSub(a.outstanding, t)
                /\ Released(a, t).open = SaturatingSub(a.open, 1)
  <1>1. PICK b : b = Released(a, t)
    OBVIOUS
  <1>3. SaturatingSub(a.open, 1) \in Nat /\ SaturatingSub(a.outstanding, t) \in Amount
    <2>1. 1 \in Nat /\ a.open \in Nat /\ SaturatingSub(a.open, 1) \in Nat
      BY AccountFields, Arithmetic
    <2> QED
      BY <2>1, AccountFields, Arithmetic
  <1>4. CASE a.listed
    <2>1. b = [listed |-> TRUE, invoiced |-> a.invoiced, paid |-> a.paid,
               outstanding |-> SaturatingSub(a.outstanding, t), open |-> SaturatingSub(a.open, 1)]
      BY <1>1, <1>4 DEF Released, Account
    <2>2. b \in Account
      BY <1>3, <2>1, AccountFields DEF Account
    <2> QED
      BY <1>1, <1>4, <2>1, <2>2
  <1>5. CASE ~a.listed
    BY <1>5 DEF Released
  <1> QED
    BY <1>4, <1>5

(* An event of an invoice enters its mapping and its customer's account. *)
LEMMA IssueEntered ==
    ASSUME NEW st \in Balances, NEW i \in Invoices, NEW e \in InvoiceEvent, e.type = "InvoiceIssued"
    PROVE  \E p \in Mapping, c \in Customers, a \in Account :
               /\ p.known /\ p.customer = c /\ p.total = e.total /\ p.paid = 0
               /\ a.listed
               /\ a.outstanding = Plus(st.accounts[c].outstanding, e.total)
               /\ a.open = st.accounts[c].open + 1
               /\ BalancesAfterEvent(st, i, e) = Entered(st, i, p, c, a)
  <1>1. PICK c : c = CustomerOf(st, i, e)
    OBVIOUS
  <1>2. st.mapping[i] \in Mapping
    BY DEF Balances
  <1>3. c \in Customers
    BY <1>1, <1>2, MappingFields, InvoiceEventFields DEF CustomerOf, Customers
  <1>4. PICK m : m = [known |-> TRUE, customer |-> c, total |-> e.total, paid |-> 0]
    OBVIOUS
  <1>5. e.total \in Amount /\ m \in Mapping
    BY <1>3, <1>4, InvoiceEventFields, Arithmetic DEF Mapping
  <1>6. st.accounts[c] \in Account
    BY <1>3 DEF Balances
  <1>7. AfterIssue(st, i, e) = [st EXCEPT !.mapping[i] = m,
                                          !.accounts[c] = Charged(@, e.total)]
    BY <1>1, <1>4 DEF AfterIssue
  <1>8. st = [mapping |-> st.mapping, accounts |-> st.accounts]
    BY DEF Balances
  <1>9. AfterIssue(st, i, e) = Entered(st, i, m, c, Charged(st.accounts[c], e.total))
    BY <1>7, <1>8 DEF Entered
  <1>10. BalancesAfterEvent(st, i, e) = AfterIssue(st, i, e)
    BY DEF BalancesAfterEvent
  <1>11. PICK a : a = Charged(st.accounts[c], e.total)
    OBVIOUS
  <1>12. /\ a \in Account /\ a.listed
         /\ a.outstanding = Plus(st.accounts[c].outstanding, e.total)
         /\ a.open = st.accounts[c].open + 1
    BY <1>5, <1>6, <1>11, ChargedIs
  <1>13. m.known /\ m.customer = c /\ m.total = e.total /\ m.paid = 0
    BY <1>4
  <1>14. BalancesAfterEvent(st, i, e) = Entered(st, i, m, c, a)
    BY <1>9, <1>10, <1>11
  <1> QED
    BY <1>3, <1>5, <1>12, <1>13, <1>14

(* A known mapping is a record with a customer. *)
LEMMA KnownMapping ==
    ASSUME NEW m \in Mapping, m.known
    PROVE  m \in [known : {TRUE}, customer : Customers, total : Amount, paid : Amount]
  <1>1. m # NoMapping
    BY DEF NoMapping
  <1> QED
    BY <1>1 DEF Mapping

(* A payment enters the mapping and the account of its customer. *)
LEMMA PaymentEntered ==
    ASSUME NEW st \in Balances, NEW i \in Invoices, NEW e \in InvoiceEvent,
           e.type = "PaymentRegistered", st.mapping[i].known
    PROVE  \E p \in Mapping, c \in Customers, a \in Account :
               /\ c = st.mapping[i].customer
               /\ p.known /\ p.customer = c /\ p.total = st.mapping[i].total
               /\ p.paid = e.new_total_paid
               /\ a.listed = st.accounts[c].listed
               /\ a.listed =>
                      /\ a.outstanding = SaturatingSub(st.accounts[c].outstanding, e.amount)
                      /\ a.open = IF e.new_total_paid >= p.total
                                  THEN SaturatingSub(st.accounts[c].open, 1)
                                  ELSE st.accounts[c].open
               /\ BalancesAfterEvent(st, i, e) = Entered(st, i, p, c, a)
  <1>1. PICK m : m = st.mapping[i]
    OBVIOUS
  <1>2. m \in [known : {TRUE}, customer : Customers, total : Amount, paid : Amount]
    <2>1. m \in Mapping /\ m.known
      BY <1>1 DEF Balances
    <2> QED
      BY <2>1, KnownMapping
  <1>3. PICK c : c = m.customer
    OBVIOUS
  <1>4. c \in Customers /\ e.amount \in Amount /\ e.new_total_paid \in Amount
    BY <1>2, <1>3, InvoiceEventFields
  <1>5. PICK p : p = [m EXCEPT !.paid = e.new_total_paid]
    OBVIOUS
  <1>6. /\ p \in Mapping
        /\ p.known /\ p.customer = c /\ p.total = m.total /\ p.paid = e.new_total_paid
    <2>1. p \in [known : {TRUE}, customer : Customers, total : Amount, paid : Amount]
      BY <1>2, <1>4, <1>5
    <2> QED
      BY <1>2, <1>3, <1>4, <1>5, <2>1 DEF Mapping
  <1>7. PICK settled : settled = (e.new_total_paid >= m.total)
    OBVIOUS
  <1>8. st.accounts[c] \in Account /\ settled \in BOOLEAN
    BY <1>4, <1>7 DEF Balances
  <1>9. PICK a : a = Credited(st.accounts[c], e.amount, settled)
    OBVIOUS
  <1>10. /\ a \in Account
         /\ a.listed = st.accounts[c].listed
         /\ a.listed =>
                /\ a.outstanding = SaturatingSub(st.accounts[c].outstanding, e.amount)
                /\ a.open = IF settled THEN SaturatingSub(st.accounts[c].open, 1)
                                       ELSE st.accounts[c].open
    BY <1>4, <1>8, <1>9, CreditedIs
  <1>11. st = [mapping |-> st.mapping, accounts |-> st.accounts]
    BY DEF Balances
  <1>12. AfterPayment(st, i, e) =
             [st EXCEPT !.mapping[i].paid = e.new_total_paid,
                        !.accounts[c] = Credited(@, e.amount, settled)]
    BY <1>1, <1>3, <1>7 DEF AfterPayment
  <1>13. AfterPayment(st, i, e) = Entered(st, i, p, c, a)
    <2>1. [st.mapping EXCEPT ![i].paid = e.new_total_paid] = [st.mapping EXCEPT ![i] = p]
      BY <1>1, <1>5
    <2>2. [st.accounts EXCEPT ![c] = Credited(@, e.amount, settled)] = [st.accounts EXCEPT ![c] = a]
      BY <1>9
    <2>3. AfterPayment(st, i, e) =
              [mapping |-> [st.mapping EXCEPT ![i].paid = e.new_total_paid],
               accounts |-> [st.accounts EXCEPT ![c] = Credited(@, e.amount, settled)]]
      BY <1>11, <1>12
    <2> QED
      BY <2>1, <2>2, <2>3 DEF Entered
  <1>14. BalancesAfterEvent(st, i, e) = Entered(st, i, p, c, a)
    <2>1. BalancesAfterEvent(st, i, e) = AfterPayment(st, i, e)
      BY DEF BalancesAfterEvent
    <2> QED
      BY <1>13, <2>1
  <1>15. a.listed =>
             a.open = IF e.new_total_paid >= p.total THEN SaturatingSub(st.accounts[c].open, 1)
                                                    ELSE st.accounts[c].open
    BY <1>6, <1>7, <1>10
  <1> QED
    BY <1>1, <1>3, <1>4, <1>6, <1>10, <1>14, <1>15

(* So does a void. *)
LEMMA VoidEntered ==
    ASSUME NEW st \in Balances, NEW i \in Invoices, NEW e \in InvoiceEvent,
           e.type = "InvoiceVoided", st.mapping[i].known
    PROVE  \E p \in Mapping, c \in Customers, a \in Account :
               /\ p = st.mapping[i] /\ c = p.customer
               /\ a.listed = st.accounts[c].listed
               /\ a.listed =>
                      /\ a.outstanding = SaturatingSub(st.accounts[c].outstanding,
                                                       SaturatingSub(p.total, p.paid))
                      /\ a.open = SaturatingSub(st.accounts[c].open, 1)
               /\ BalancesAfterEvent(st, i, e) = Entered(st, i, p, c, a)
  <1>1. PICK m : m = st.mapping[i]
    OBVIOUS
  <1>2. m \in Mapping /\ m.known
    BY <1>1 DEF Balances
  <1>3. PICK c : c = m.customer
    OBVIOUS
  <1>4. c \in Customers /\ m.total \in Amount /\ m.paid \in Amount
    BY <1>2, <1>3, MappingFields
  <1>5. PICK due : due = SaturatingSub(m.total, m.paid)
    OBVIOUS
  <1>6. due \in Amount
    BY <1>4, <1>5, Arithmetic
  <1>10. st.accounts[c] \in Account
    BY <1>4 DEF Balances
  <1>11. PICK a : a = Released(st.accounts[c], due)
    OBVIOUS
  <1>12. /\ a \in Account
         /\ a.listed = st.accounts[c].listed
         /\ a.listed =>
                /\ a.outstanding = SaturatingSub(st.accounts[c].outstanding, due)
                /\ a.open = SaturatingSub(st.accounts[c].open, 1)
    BY <1>6, <1>10, <1>11, ReleasedIs
  <1>13. st = [mapping |-> st.mapping, accounts |-> st.accounts] /\ st.mapping \in [Invoices -> Mapping]
    BY DEF Balances
  <1>14. AfterVoid(st, i) = [st EXCEPT !.accounts[c] = Released(@, due)]
    BY <1>1, <1>3, <1>5 DEF AfterVoid
  <1>15. AfterVoid(st, i) = Entered(st, i, m, c, a)
    BY <1>1, <1>11, <1>13, <1>14 DEF Entered
  <1>16. BalancesAfterEvent(st, i, e) = AfterVoid(st, i)
    BY DEF BalancesAfterEvent
  <1>17. BalancesAfterEvent(st, i, e) = Entered(st, i, m, c, a)
    BY <1>15, <1>16
  <1> QED
    BY <1>1, <1>2, <1>3, <1>4, <1>5, <1>12, <1>17

(* The accounts keep their type with every event. *)
LEMMA BalancesTyped ==
    ASSUME NEW st \in Balances, NEW i \in Invoices, NEW e \in InvoiceEvent
    PROVE  BalancesAfterEvent(st, i, e) \in Balances
  <1>1. CASE e.type = "InvoiceIssued"
    <2>1. \E p \in Mapping, c \in Customers, a \in Account :
              BalancesAfterEvent(st, i, e) = Entered(st, i, p, c, a)
      BY <1>1, IssueEntered
    <2> QED
      BY <2>1, EnteredTyped
  <1>2. CASE e.type = "PaymentRegistered" /\ st.mapping[i].known
    <2>1. \E p \in Mapping, c \in Customers, a \in Account :
              BalancesAfterEvent(st, i, e) = Entered(st, i, p, c, a)
      BY <1>2, PaymentEntered
    <2> QED
      BY <2>1, EnteredTyped
  <1>3. CASE e.type = "InvoiceVoided" /\ st.mapping[i].known
    <2>1. \E m \in Mapping, c \in Customers, a \in Account :
              BalancesAfterEvent(st, i, e) = Entered(st, i, m, c, a)
      BY <1>3, VoidEntered
    <2> QED
      BY <2>1, EnteredTyped
  <1>4. CASE e.type # "InvoiceIssued" /\ ~st.mapping[i].known
    BY <1>4 DEF BalancesAfterEvent
  <1> QED
    BY <1>1, <1>2, <1>3, <1>4, InvoiceEventFields

(* The empty accounts have it. *)
LEMMA NoBalancesTyped == NoBalances \in Balances
  <1>1. NoAccount \in Account
    BY Arithmetic DEF NoAccount, Account
  <1>2. NoMapping \in Mapping
    BY DEF Mapping
  <1> QED
    BY <1>1, <1>2 DEF NoBalances, Balances

BalancesStep(i, events) ==
    [p \in (1 .. Len(events)) \X Balances |-> BalancesAfterEvent(p[2], i, events[p[1]])]

(* The accounts after a stream are the last of those after each of its     *)
(* events.                                                                 *)
LEMMA BalancesStages ==
    ASSUME NEW i \in Invoices, NEW events \in Seq(InvoiceEvent), NEW st \in Balances
    PROVE  \E h : /\ Stages(h, Len(events), Balances, st, BalancesStep(i, events))
                  /\ h[Len(events)] = BalancesAfterStream(st, i, events)
  <1> DEFINE n == Len(events)
             V == Balances
             step == BalancesStep(i, events)
             Rec(g) == [s \in SUBSET DOMAIN events |->
                           IF s = {} THEN st
                           ELSE BalancesAfterEvent(g[s \ {Max(s)}], i, events[Max(s)])]
             fold == CHOOSE g : g = Rec(g)
  <1>1. n \in Nat /\ DOMAIN events = 1 .. n /\ \A j \in 1 .. n : events[j] \in InvoiceEvent
    OBVIOUS
  <1>2. \A j \in 1 .. n : \A v \in V :
            step[<<j, v>>] \in V /\ step[<<j, v>>] = BalancesAfterEvent(v, i, events[j])
    BY <1>1, BalancesTyped DEF BalancesStep
  <1>3. BalancesAfterStream(st, i, events) = fold[DOMAIN events]
    BY Zenon DEF BalancesAfterStream, FoldLeft, MapThenFoldSet
  <1>4. st \in V
    OBVIOUS
  <1> HIDE DEF n, V, step
  <1>5. Steps(step, 1 .. n, V)
    BY <1>2 DEF Steps
  <1>6. PICK g : g \in [SUBSET (1 .. n) -> V] /\ FoldsBy(g, n, V, st, step)
    BY <1>1, <1>4, <1>5, FoldExists
  <1>7. \A s \in SUBSET (1 .. n) : s # {} => Max(s) \in 1 .. n /\ s \ {Max(s)} \in SUBSET (1 .. n)
    BY <1>1, Largest
  <1>8. g = Rec(g)
    <2>1. ASSUME NEW s \in SUBSET (1 .. n) PROVE g[s] = Rec(g)[s]
      BY <1>1, <1>2, <1>6, <1>7 DEF FoldsBy
    <2> QED
      BY <1>1, <1>6, <2>1
  <1>9. fold = Rec(fold)
    <2> HIDE DEF Rec
    <2> QED
      BY <1>8
  <1> HIDE DEF fold
  <1>10. FoldsBy(fold, n, V, st, step)
    <2>1. \A s \in SUBSET (1 .. n) : fold[s] = Rec(fold)[s]
      BY <1>9
    <2> QED
      BY <1>1, <1>2, <1>7, <2>1 DEF FoldsBy
  <1>11. \E h : Stages(h, n, V, st, step) /\ h[n] = fold[1 .. n]
    BY <1>1, <1>4, <1>5, <1>10, FoldStages
  <1>12. fold[1 .. n] = BalancesAfterStream(st, i, events)
    BY <1>1, <1>3
  <1> QED
    BY <1>11, <1>12 DEF n, step, V

(* They have their type. *)
LEMMA StreamTyped ==
    ASSUME NEW i \in Invoices, NEW events \in Seq(InvoiceEvent), NEW st \in Balances
    PROVE  BalancesAfterStream(st, i, events) \in Balances
  <1>1. PICK h : /\ Stages(h, Len(events), Balances, st, BalancesStep(i, events))
                 /\ h[Len(events)] = BalancesAfterStream(st, i, events)
    BY BalancesStages
  <1>2. Len(events) \in 0 .. Len(events)
    OBVIOUS
  <1> QED
    BY <1>1, <1>2 DEF Stages

(* The order of the streams in a rebuild has every invoice once. *)
LEMMA RebuildOrder ==
    /\ SetToSeq(Invoices) \in Seq(Invoices)
    /\ \A j, l \in 1 .. Len(SetToSeq(Invoices)) :
           SetToSeq(Invoices)[j] = SetToSeq(Invoices)[l] => j = l
    /\ \A i \in Invoices : \E j \in 1 .. Len(SetToSeq(Invoices)) : SetToSeq(Invoices)[j] = i
  <1> DEFINE n == Cardinality(Invoices)
             order == SetToSeq(Invoices)
  <1>1. IsFiniteSet(Invoices)
    BY ReportsAssumption
  <1>2. n \in Nat /\ ExistsBijection(1 .. n, Invoices)
    BY <1>1, FS_CardinalityType
  <1>3. \E f \in [1 .. n -> Invoices] : IsInjective(f)
    BY <1>2 DEF ExistsBijection, Bijection, Injection
  <1>4. order \in [1 .. n -> Invoices] /\ IsInjective(order)
    BY <1>3 DEF SetToSeq
  <1> HIDE DEF order
  <1>5. Cardinality(1 .. n) = n
    BY <1>2, FS_Interval
  <1>6. order \in Injection(1 .. n, Invoices)
    BY <1>4 DEF Injection
  <1>7. order \in Surjection(1 .. n, Invoices)
    BY <1>1, <1>5, <1>6, FS_Injection
  <1>8. order \in Seq(Invoices) /\ Len(order) = n
    BY <1>2, <1>4
  <1>9. \A j, l \in 1 .. n : order[j] = order[l] => j = l
    BY <1>4 DEF IsInjective
  <1>10. \A i \in Invoices : \E j \in 1 .. n : order[j] = i
    BY <1>7 DEF Surjection
  <1> HIDE DEF n
  <1> QED
    BY <1>8, <1>9, <1>10 DEF order

Streams(streams) == \A i \in Invoices : streams[i] \in Seq(InvoiceEvent)

RebuildStep(streams, order) ==
    [p \in (1 .. Len(order)) \X Balances |->
        BalancesAfterStream(p[2], order[p[1]], streams[order[p[1]]])]

(* The rebuilt accounts are the last of those after each stream. *)
LEMMA RebuildStages ==
    ASSUME NEW streams, Streams(streams), NEW order \in Seq(Invoices), order = SetToSeq(Invoices)
    PROVE  \E h : /\ Stages(h, Len(order), Balances, NoBalances, RebuildStep(streams, order))
                  /\ h[Len(order)] = RebuiltBalances(streams, NoBalances, Invoices)
  <1> DEFINE n == Len(order)
             V == Balances
             step == RebuildStep(streams, order)
             Rec(g) == [s \in SUBSET DOMAIN order |->
                           IF s = {} THEN NoBalances
                           ELSE BalancesAfterStream(g[s \ {Max(s)}], order[Max(s)], streams[order[Max(s)]])]
             fold == CHOOSE g : g = Rec(g)
  <1>1. n \in Nat /\ DOMAIN order = 1 .. n /\ \A j \in 1 .. n : order[j] \in Invoices
    OBVIOUS
  <1>2. \A j \in 1 .. n : \A v \in V :
            step[<<j, v>>] \in V /\ step[<<j, v>>] = BalancesAfterStream(v, order[j], streams[order[j]])
    BY <1>1, StreamTyped DEF RebuildStep, Streams
  <1>3. RebuiltBalances(streams, NoBalances, Invoices) = fold[DOMAIN order]
    BY Zenon DEF RebuiltBalances, FoldLeft, MapThenFoldSet
  <1>4. NoBalances \in V
    BY NoBalancesTyped
  <1> HIDE DEF n, V, step
  <1>5. Steps(step, 1 .. n, V)
    BY <1>2 DEF Steps
  <1>6. PICK g : g \in [SUBSET (1 .. n) -> V] /\ FoldsBy(g, n, V, NoBalances, step)
    BY <1>1, <1>4, <1>5, FoldExists
  <1>7. \A s \in SUBSET (1 .. n) : s # {} => Max(s) \in 1 .. n /\ s \ {Max(s)} \in SUBSET (1 .. n)
    BY <1>1, Largest
  <1>8. g = Rec(g)
    <2>1. ASSUME NEW s \in SUBSET (1 .. n) PROVE g[s] = Rec(g)[s]
      BY <1>1, <1>2, <1>6, <1>7 DEF FoldsBy
    <2> QED
      BY <1>1, <1>6, <2>1
  <1>9. fold = Rec(fold)
    <2> HIDE DEF Rec
    <2> QED
      BY <1>8
  <1> HIDE DEF fold
  <1>10. FoldsBy(fold, n, V, NoBalances, step)
    <2>1. \A s \in SUBSET (1 .. n) : fold[s] = Rec(fold)[s]
      BY <1>9
    <2> QED
      BY <1>1, <1>2, <1>7, <2>1 DEF FoldsBy
  <1>11. \E h : Stages(h, n, V, NoBalances, step) /\ h[n] = fold[1 .. n]
    BY <1>1, <1>4, <1>5, <1>10, FoldStages
  <1>12. fold[1 .. n] = RebuiltBalances(streams, NoBalances, Invoices)
    BY <1>1, <1>3
  <1> QED
    BY <1>11, <1>12 DEF n, step, V

-----------------------------------------------------------------------------
(* Types. *)

(* What an event makes of an invoice. *)
LEMMA BillAfter ==
    ASSUME NEW b \in Bill, NEW e \in InvoiceEvent
    PROVE  /\ ApplyInvoice(b, e) \in Bill
           /\ e.type = "InvoiceIssued" =>
                  /\ ApplyInvoice(b, e).created /\ ApplyInvoice(b, e).status = "Open"
                  /\ ApplyInvoice(b, e).total = e.total /\ ApplyInvoice(b, e).paid = 0
           /\ e.type = "PaymentRegistered" =>
                  /\ ApplyInvoice(b, e).created = b.created
                  /\ ApplyInvoice(b, e).total = b.total /\ ApplyInvoice(b, e).paid = e.new_total_paid
                  /\ ApplyInvoice(b, e).status =
                         IF e.new_total_paid >= b.total THEN "Paid" ELSE b.status
           /\ e.type = "InvoiceVoided" =>
                  /\ ApplyInvoice(b, e).created = b.created /\ ApplyInvoice(b, e).status = "Void"
                  /\ ApplyInvoice(b, e).total = b.total /\ ApplyInvoice(b, e).paid = b.paid
  <1>1. PICK n : n = ApplyInvoice(b, e)
    OBVIOUS
  <1>2. CASE e.type = "InvoiceIssued"
    <2>1. n = [created |-> TRUE, order |-> e.sales_order_id, status |-> "Open",
               total |-> e.total, paid |-> 0]
      BY <1>1, <1>2 DEF ApplyInvoice
    <2>2. e.sales_order_id \in Orders /\ e.total \in Amount /\ 0 \in Amount
      BY <1>2, InvoiceEventFields, Arithmetic
    <2>3. n \in Bill
      BY <2>1, <2>2 DEF Bill
    <2> QED
      BY <1>1, <1>2, <2>1, <2>3
  <1>3. CASE e.type = "PaymentRegistered"
    <2>1. PICK status : status = IF e.new_total_paid >= b.total THEN "Paid" ELSE b.status
      OBVIOUS
    <2>2. n = [b EXCEPT !.paid = e.new_total_paid, !.status = status]
      BY <1>1, <1>3, <2>1 DEF ApplyInvoice
    <2>3. e.new_total_paid \in Amount /\ status \in {"Open", "Paid", "Void"}
      BY <1>3, <2>1, InvoiceEventFields DEF Bill
    <2>4. /\ n \in Bill
          /\ n.created = b.created /\ n.total = b.total /\ n.paid = e.new_total_paid
          /\ n.status = status
      BY <2>2, <2>3 DEF Bill
    <2> QED
      BY <1>1, <1>3, <2>1, <2>4
  <1>4. CASE e.type = "InvoiceVoided"
    <2>1. n = [b EXCEPT !.status = "Void"]
      BY <1>1, <1>4 DEF ApplyInvoice
    <2>2. /\ n \in Bill
          /\ n.created = b.created /\ n.total = b.total /\ n.paid = b.paid /\ n.status = "Void"
      BY <2>1 DEF Bill
    <2> QED
      BY <1>1, <1>4, <2>2
  <1> QED
    BY <1>2, <1>3, <1>4, InvoiceEventFields

(* What an event makes of an item. *)
LEMMA ItemAfter ==
    ASSUME NEW item \in Item, NEW e \in Event
    PROVE  /\ Apply(item, e) \in Item
           /\ Apply(item, e).stock = IF e.type = "ItemCreated" THEN 0 ELSE AddI64(item.stock, e.delta)
  <1>1. PICK n : n = Apply(item, e)
    OBVIOUS
  <1>2. CASE e.type = "ItemCreated"
    <2>1. n = [created |-> TRUE, key |-> e.key, name |-> e.name, stock |-> 0,
               version |-> item.version + 1]
      BY <1>1, <1>2 DEF Apply
    <2>2. n \in Item
      <3>1. PICK v : v = item.version + 1
        OBVIOUS
      <3>2. v \in Nat
        BY <3>1 DEF Item
      <3>4. e.key \in Keys /\ e.name \in Names \cup {BlankName} /\ 0 \in I64
        BY Arithmetic DEF Event
      <3>3. n = [created |-> TRUE, key |-> e.key, name |-> e.name, stock |-> 0, version |-> v]
        BY <2>1, <3>1
      <3> QED
        BY <3>2, <3>3, <3>4 DEF Item
    <2> QED
      BY <1>1, <1>2, <2>1, <2>2
  <1>3. CASE e.type # "ItemCreated"
    <2>1. PICK q : q = AddI64(item.stock, e.delta)
      OBVIOUS
    <2>2. q \in I64
      BY <2>1, Arithmetic DEF Item, Event
    <2>3. PICK v : v = item.version + 1
      OBVIOUS
    <2>5. v \in Nat
      BY <2>3 DEF Item
    <2>6. n = [item EXCEPT !.stock = q, !.version = v]
      BY <1>1, <1>3, <2>1, <2>3 DEF Apply
    <2>4. n \in Item /\ n.stock = q
      BY <2>2, <2>5, <2>6 DEF Item
    <2> QED
      BY <1>1, <1>3, <2>1, <2>4
  <1> QED
    BY <1>2, <1>3

(* The events the aggregates decide. *)
LEMMA IssueDecides ==
    ASSUME TypeOK, NEW i \in Invoices, NEW o \in Orders, NEW lines, CanIssue(invoices[i], lines)
    PROVE  [type |-> "InvoiceIssued", sales_order_id |-> o, total |-> Total(lines)] \in InvoiceEvent
  BY DEF CanIssue, InvoiceEvent, Amount

(* A payment handle() lets through is an event of the type. *)
LEMMA PayDecides ==
    ASSUME TypeOK, NEW i \in Invoices, NEW amount \in Amounts, CanPay(invoices[i], amount)
    PROVE  [type |-> "PaymentRegistered", amount |-> amount,
            new_total_paid |-> invoices[i].paid + amount] \in InvoiceEvent
  <1>1. MaxU64 \in Nat /\ amount \in 0 .. MaxU64
    BY InvoiceAssumption, ReportsAssumption
  <1>2. invoices[i].paid \in 0 .. MaxU64 /\ invoices[i].total \in 0 .. MaxU64
    BY DEF TypeOK, Bill, Amount
  <1>3. invoices[i].paid + amount \in 0 .. MaxU64
    BY <1>1, <1>2 DEF CanPay
  <1> QED
    BY <1>1, <1>3 DEF InvoiceEvent, Amount

(* So is a void. *)
LEMMA VoidDecides == [type |-> "InvoiceVoided"] \in InvoiceEvent
  BY DEF InvoiceEvent

(* A command of an item decides an event of that item. *)
LEMMA ItemDecides ==
    ASSUME NEW k \in Keys, NEW cmd \in CommandsFor(k)
    PROVE  /\ cmd.key = k /\ Decide(cmd) \in Event
           /\ Decide(cmd).delta = cmd.delta /\ cmd.delta \in I64
           /\ Decide(cmd).type = "ItemCreated" <=> cmd.type = "CreateItem"
  <1>0. PICK e : e = Decide(cmd)
    OBVIOUS
  <1>1. CASE cmd \in {CreateItem(k, n) : n \in Names}
    <2>1. PICK n \in Names : cmd = CreateItem(k, n)
      BY <1>1
    <2>2. cmd.type = "CreateItem" /\ cmd.key = k /\ cmd.name = n /\ cmd.delta = 0
      BY <2>1 DEF CreateItem
    <2>3. e = [type |-> "ItemCreated", key |-> k, name |-> n, delta |-> 0]
      BY <1>0, <2>2 DEF Decide
    <2>4. e \in Event
      BY <2>3, Arithmetic DEF Event
    <2> QED
      BY <1>0, <2>2, <2>3, <2>4, Arithmetic
  <1>2. CASE cmd \in {AdjustStock(k, d) : d \in Deltas}
    <2>1. PICK d \in Deltas : cmd = AdjustStock(k, d)
      BY <1>2
    <2>2. cmd.type = "AdjustStock" /\ cmd.key = k /\ cmd.name = BlankName /\ cmd.delta = d
      BY <2>1 DEF AdjustStock
    <2>3. e = [type |-> "StockAdjusted", key |-> k, name |-> BlankName, delta |-> d]
      BY <1>0, <2>2 DEF Decide
    <2>4. d \in I64
      BY InventoryAssumption DEF I64
    <2>5. e \in Event
      BY <2>3, <2>4 DEF Event
    <2> QED
      BY <1>0, <2>2, <2>3, <2>4, <2>5
  <1> QED
    BY <1>1, <1>2 DEF CommandsFor

(* The types of the aggregates, of the receivables, of the valuation. *)
AggregatesOK ==
    /\ invoices \in [Invoices -> Bill]
    /\ items \in [Keys -> Item]
    /\ stream \in [Invoices \cup Keys -> Seq(InvoiceEvent \cup Event)]
    /\ \A i \in Invoices : stream[i] \in Seq(InvoiceEvent)
    /\ \A k \in Keys : stream[k] \in Seq(Event)

ReceivablesOK ==
    /\ openRows \in [Invoices -> OpenRow]
    /\ customers \in Balances
    /\ cursor \in [Reports -> [Invoices -> Nat]]

ValuationOK ==
    /\ valuations \in [Keys -> ValuationRow]
    /\ applying \in [Keys -> [active : BOOLEAN, arg : Nat, row : ValuationRow]]
    /\ setting \in [Keys -> [active : BOOLEAN, arg : 0 .. MaxValue, row : ValuationRow]]
    /\ valued \in [Keys -> Nat]
    /\ raced \subseteq Keys

FirstOK == first \in [AllReports -> [Invoices \cup Keys -> Nat]]

(* The type invariant is its four parts. *)
LEMMA TypeParts == TypeOK <=> AggregatesOK /\ ReceivablesOK /\ ValuationOK /\ FirstOK
  BY DEF TypeOK, AggregatesOK, ReceivablesOK, ValuationOK, FirstOK

(* Storing an event appends it to the one stream. *)
LEMMA StreamGrows ==
    ASSUME AggregatesOK, NEW s \in Invoices \cup Keys, NEW e, Store(s, e),
           s \in Invoices => e \in InvoiceEvent, s \in Keys => e \in Event
    PROVE  /\ stream' \in [Invoices \cup Keys -> Seq(InvoiceEvent \cup Event)]
           /\ \A i \in Invoices : stream'[i] \in Seq(InvoiceEvent)
           /\ \A k \in Keys : stream'[k] \in Seq(Event)
           /\ stream'[s] = Append(stream[s], e)
           /\ \A r \in Invoices \cup Keys : r # s => stream'[r] = stream[r]
  <1>1. /\ stream'[s] = Append(stream[s], e)
        /\ \A r \in Invoices \cup Keys : r # s => stream'[r] = stream[r]
        /\ DOMAIN stream' = Invoices \cup Keys
    BY DEF Store, AggregatesOK
  <1>2. s \in Invoices => stream'[s] \in Seq(InvoiceEvent)
    BY <1>1 DEF AggregatesOK
  <1>3. s \in Keys => stream'[s] \in Seq(Event)
    BY <1>1 DEF AggregatesOK
  <1>4. /\ \A i \in Invoices : stream'[i] \in Seq(InvoiceEvent)
        /\ \A k \in Keys : stream'[k] \in Seq(Event)
    BY <1>1, <1>2, <1>3 DEF AggregatesOK
  <1>5. stream'[s] \in Seq(InvoiceEvent \cup Event)
    <2>1. e \in InvoiceEvent \cup Event
      OBVIOUS
    <2>2. stream[s] \in Seq(InvoiceEvent \cup Event)
      BY DEF AggregatesOK
    <2> QED
      BY <1>1, <2>1, <2>2
  <1>6. stream' = [stream EXCEPT ![s] = Append(stream[s], e)]
    BY DEF Store
  <1>7. stream' \in [Invoices \cup Keys -> Seq(InvoiceEvent \cup Event)]
    BY <1>1, <1>5, <1>6 DEF AggregatesOK
  <1> QED
    BY <1>1, <1>4, <1>7

(* Types: the invoices decide. *)
LEMMA InvoiceStored ==
    ASSUME TypeOK, NEW i \in Invoices, NEW e \in InvoiceEvent, StoreInvoice(i, e)
    PROVE  TypeOK'
  <1>1. AggregatesOK /\ ReceivablesOK /\ ValuationOK /\ FirstOK /\ Store(i, e) /\ i \notin Keys
    BY TypeParts, ReportsAssumption DEF StoreInvoice
  <1>2. ApplyInvoice(invoices[i], e) \in Bill
    BY <1>1, BillAfter DEF AggregatesOK
  <1>3. AggregatesOK'
    BY <1>1, <1>2, StreamGrows DEF AggregatesOK, StoreInvoice
  <1>4. ReceivablesOK' /\ ValuationOK' /\ FirstOK'
    BY <1>1 DEF Store, receivables, valuation, ReceivablesOK, ValuationOK, FirstOK
  <1> QED
    BY <1>3, <1>4, TypeParts DEF TypeOK, AggregatesOK, ReceivablesOK, ValuationOK, FirstOK

(* Types: the items decide. *)
LEMMA ItemStored ==
    ASSUME TypeOK, NEW k \in Keys, NEW cmd \in CommandsFor(k), HandleItem(cmd)
    PROVE  TypeOK'
  <1>1. AggregatesOK /\ ReceivablesOK /\ ValuationOK /\ FirstOK /\ k \notin Invoices
    BY TypeParts, ReportsAssumption
  <1>2. cmd.key = k /\ Decide(cmd) \in Event /\ Store(k, Decide(cmd))
    BY ItemDecides DEF HandleItem
  <1>3. Apply(items[k], Decide(cmd)) \in Item
    BY <1>1, <1>2, ItemAfter DEF AggregatesOK
  <1>4. AggregatesOK'
    BY <1>1, <1>2, <1>3, StreamGrows DEF AggregatesOK, HandleItem
  <1>5. ReceivablesOK' /\ ValuationOK' /\ FirstOK'
    BY <1>1, <1>2 DEF Store, receivables, valuation, ReceivablesOK, ValuationOK, FirstOK
  <1> QED
    BY <1>4, <1>5 DEF TypeOK, AggregatesOK, ReceivablesOK, ValuationOK, FirstOK

(* Types: a report takes an event. *)
LEMMA HandKeeps ==
    ASSUME TypeOK, NEW r \in Reports, NEW i \in Invoices, NEW n \in 1 .. Len(stream[i]), Hand(r, i, n)
    PROVE  /\ AggregatesOK' /\ ValuationOK' /\ FirstOK'
           /\ cursor' \in [Reports -> [Invoices -> Nat]]
           /\ stream[i][n] \in InvoiceEvent
  <1>1. AggregatesOK /\ ReceivablesOK /\ ValuationOK /\ FirstOK /\ n \in Nat
    BY TypeParts
  <1>2. AggregatesOK' /\ ValuationOK'
    BY <1>1 DEF Hand, aggregates, valuation, AggregatesOK, ValuationOK
  <1>3. FirstOK'
    BY <1>1 DEF Hand, Accepted, FirstOK, AllReports
  <1>4. cursor' \in [Reports -> [Invoices -> Nat]]
    BY <1>1 DEF Hand, ReceivablesOK
  <1>5. stream[i][n] \in InvoiceEvent
    BY <1>1 DEF AggregatesOK
  <1> QED
    BY <1>2, <1>3, <1>4, <1>5

(* Types: a report is rebuilt. *)
LEMMA RestartKeeps ==
    ASSUME TypeOK, NEW r \in Reports, Restarted(r)
    PROVE  /\ AggregatesOK' /\ ValuationOK' /\ FirstOK'
           /\ cursor' \in [Reports -> [Invoices -> Nat]]
  <1>1. AggregatesOK /\ ReceivablesOK /\ ValuationOK /\ FirstOK
    BY TypeParts
  <1>2. AggregatesOK' /\ ValuationOK'
    BY <1>1 DEF Restarted, aggregates, valuation, AggregatesOK, ValuationOK
  <1>3. FirstOK'
    BY <1>1 DEF Restarted, FirstOK, AllReports
  <1>4. cursor' \in [Reports -> [Invoices -> Nat]]
    BY <1>1 DEF Restarted, ReceivablesOK, AggregatesOK
  <1> QED
    BY <1>2, <1>3, <1>4

(* Types: what a rebuild makes. *)
LEMMA RebuiltTyped ==
    ASSUME AggregatesOK
    PROVE  /\ RebuiltBalances(stream, NoBalances, Invoices) \in Balances
           /\ \A i \in Invoices : RebuiltOpenRow(stream[i]) \in OpenRow
           /\ \A k \in Keys : RebuiltValuation(stream[k]) \in ValuationRow
  <1>1. RebuiltBalances(stream, NoBalances, Invoices) \in Balances
    <2>1. Streams(stream) /\ SetToSeq(Invoices) \in Seq(Invoices)
      BY RebuildOrder DEF AggregatesOK, Streams
    <2>2. PICK order : order = SetToSeq(Invoices)
      OBVIOUS
    <2>3. order \in Seq(Invoices)
      BY <2>1, <2>2
    <2>4. PICK h : /\ Stages(h, Len(order), Balances, NoBalances, RebuildStep(stream, order))
                   /\ h[Len(order)] = RebuiltBalances(stream, NoBalances, Invoices)
      BY <2>1, <2>2, <2>3, RebuildStages
    <2>5. Len(order) \in 0 .. Len(order)
      BY <2>3
    <2> QED
      BY <2>4, <2>5 DEF Stages
  <1>2. ASSUME NEW i \in Invoices PROVE RebuiltOpenRow(stream[i]) \in OpenRow
    <2>1. stream[i] \in Seq(InvoiceEvent)
      BY DEF AggregatesOK
    <2>2. PICK h : /\ Stages(h, Len(stream[i]), OpenRow, NoOpenRow, OpenStep(stream[i]))
                   /\ h[Len(stream[i])] = RebuiltOpenRow(stream[i])
      BY <2>1, OpenStages
    <2>3. Len(stream[i]) \in 0 .. Len(stream[i])
      BY <2>1
    <2> QED
      BY <2>2, <2>3 DEF Stages
  <1>3. ASSUME NEW k \in Keys PROVE RebuiltValuation(stream[k]) \in ValuationRow
    <2>1. stream[k] \in Seq(Event)
      BY DEF AggregatesOK
    <2>2. PICK h : /\ Stages(h, Len(stream[k]), ValuationRow, NoValuation, ValuationStep(stream[k]))
                   /\ h[Len(stream[k])] = RebuiltValuation(stream[k])
      BY <2>1, ValuationStages
    <2>3. Len(stream[k]) \in 0 .. Len(stream[k])
      BY <2>1
    <2> QED
      BY <2>2, <2>3 DEF Stages
  <1> QED
    BY <1>1, <1>2, <1>3

(* No call is a call. *)
LEMMA NoCallTyped ==
    /\ NoCall \in [active : BOOLEAN, arg : Nat, row : ValuationRow]
    /\ NoCall \in [active : BOOLEAN, arg : 0 .. MaxValue, row : ValuationRow]
  <1>1. NoValuation \in ValuationRow
    BY Arithmetic DEF NewValuation, NoValuation, ValuationRow
  <1> QED
    BY <1>1, ValuationAssumption DEF NoCall

(* Types: at the start. *)
LEMMA InitTyped == Init => TypeOK
  <1> SUFFICES ASSUME Init PROVE TypeOK
    OBVIOUS
  <1>1. EmptyInvoice \in Bill
    BY Arithmetic DEF EmptyInvoice, Bill
  <1>2. EmptyItem \in Item
    BY Arithmetic DEF EmptyItem, Item
  <1>3. NoOpenRow \in OpenRow /\ NoValuation \in ValuationRow
    BY Arithmetic DEF NoOpenRow, OpenRow, NewValuation, NoValuation, ValuationRow
  <1>4. /\ NoCall \in [active : BOOLEAN, arg : Nat, row : ValuationRow]
        /\ NoCall \in [active : BOOLEAN, arg : 0 .. MaxValue, row : ValuationRow]
    BY NoCallTyped
  <1>5. AggregatesOK
    <2>1. \A s \in Invoices \cup Keys : stream[s] = <<>>
      BY DEF Init
    <2> QED
      BY <1>1, <1>2, <2>1 DEF Init, AggregatesOK
  <1>6. ReceivablesOK
    BY <1>3, NoBalancesTyped DEF Init, ReceivablesOK
  <1>7. ValuationOK /\ FirstOK
    BY <1>3, <1>4 DEF Init, ValuationOK, FirstOK
  <1> QED
    BY <1>5, <1>6, <1>7, TypeParts

(* An event is only read where there is one. *)
Reading == \A k \in Keys : applying[k].active => applying[k].arg \in 1 .. Len(stream[k])

(* Types: every step. *)
LEMMA NextTyped == TypeOK /\ Reading /\ [Next]_vars => TypeOK'
  <1> SUFFICES ASSUME TypeOK, Reading, [Next]_vars PROVE TypeOK'
    OBVIOUS
  <1>0. AggregatesOK /\ ReceivablesOK /\ ValuationOK /\ FirstOK
    BY TypeParts
  <1> DEFINE All == AggregatesOK' /\ ReceivablesOK' /\ ValuationOK' /\ FirstOK'
  <1>1. ASSUME All PROVE TypeOK'
    BY <1>1 DEF TypeOK, AggregatesOK, ReceivablesOK, ValuationOK, FirstOK
  <1>2. ASSUME NEW i \in Invoices, NEW o \in Orders, NEW lines \in InvoiceLines, Issue(i, o, lines)
        PROVE  TypeOK'
    BY <1>2, IssueDecides, InvoiceStored DEF Issue
  <1>3. ASSUME NEW i \in Invoices, NEW amount \in Amounts, Pay(i, amount) PROVE TypeOK'
    BY <1>3, PayDecides, InvoiceStored DEF Pay
  <1>4. ASSUME NEW i \in Invoices, Void(i) PROVE TypeOK'
    BY <1>4, VoidDecides, InvoiceStored DEF Void
  <1>5. ASSUME NEW k \in Keys, NEW cmd \in CommandsFor(k), HandleItem(cmd) PROVE TypeOK'
    BY <1>5, ItemStored
  <1>6. ASSUME NEW i \in Invoices, NEW n \in 1 .. Len(stream[i]), ApplyOpen(i, n) PROVE TypeOK'
    <2>1. /\ AggregatesOK' /\ ValuationOK' /\ FirstOK'
          /\ cursor' \in [Reports -> [Invoices -> Nat]] /\ stream[i][n] \in InvoiceEvent
      BY <1>6, HandKeeps DEF ApplyOpen, Reports
    <2>2. OpenRowAfter(openRows[i], stream[i][n]) \in OpenRow
      BY <1>0, <2>1, OpenRows DEF ReceivablesOK
    <2>3. ReceivablesOK'
      BY <1>0, <1>6, <2>1, <2>2 DEF ApplyOpen, ReceivablesOK
    <2> QED
      BY <1>1, <2>1, <2>3
  <1>7. ASSUME NEW i \in Invoices, NEW n \in 1 .. Len(stream[i]), ApplyBalances(i, n) PROVE TypeOK'
    <2>1. /\ AggregatesOK' /\ ValuationOK' /\ FirstOK'
          /\ cursor' \in [Reports -> [Invoices -> Nat]] /\ stream[i][n] \in InvoiceEvent
      BY <1>7, HandKeeps DEF ApplyBalances, Reports
    <2>2. BalancesAfterEvent(customers, i, stream[i][n]) \in Balances
      BY <1>0, <2>1, BalancesTyped DEF ReceivablesOK
    <2>3. ReceivablesOK'
      BY <1>0, <1>7, <2>1, <2>2 DEF ApplyBalances, ReceivablesOK
    <2> QED
      BY <1>1, <2>1, <2>3
  <1>8. ASSUME NEW i \in Invoices, NEW c \in Parties, RegisterInvoiceCustomer(i, c) PROVE TypeOK'
    <2>1. PICK m : m = [known |-> TRUE, customer |-> c, total |-> 0, paid |-> 0]
      OBVIOUS
    <2>2. m \in Mapping
      BY <2>1, Arithmetic DEF Mapping, Customers
    <2>3. customers' = [customers EXCEPT !.mapping[i] = m]
      BY <1>8, <2>1 DEF RegisterInvoiceCustomer, Registered
    <2>4. customers' \in Balances
      BY <1>0, <2>2, <2>3 DEF ReceivablesOK, Balances
    <2>5. ReceivablesOK'
      BY <1>0, <1>8, <2>4 DEF RegisterInvoiceCustomer, ReceivablesOK
    <2>6. AggregatesOK' /\ ValuationOK' /\ FirstOK'
      BY <1>0, <1>8 DEF RegisterInvoiceCustomer, aggregates, valuation, AggregatesOK,
                        ValuationOK, FirstOK
    <2> QED
      BY <1>1, <2>5, <2>6
  <1>9. ASSUME RebuildOpen PROVE TypeOK'
    <2>1. AggregatesOK' /\ ValuationOK' /\ FirstOK' /\ cursor' \in [Reports -> [Invoices -> Nat]]
      BY <1>9, RestartKeeps DEF RebuildOpen, Reports
    <2>2. ReceivablesOK'
      BY <1>0, <1>9, <2>1, RebuiltTyped DEF RebuildOpen, ReceivablesOK
    <2> QED
      BY <1>1, <2>1, <2>2
  <1>10. ASSUME RebuildBalances PROVE TypeOK'
    <2>1. AggregatesOK' /\ ValuationOK' /\ FirstOK' /\ cursor' \in [Reports -> [Invoices -> Nat]]
      BY <1>10, RestartKeeps DEF RebuildBalances, Reports
    <2>2. ReceivablesOK'
      BY <1>0, <1>10, <2>1, RebuiltTyped DEF RebuildBalances, ReceivablesOK
    <2> QED
      BY <1>1, <2>1, <2>2
  <1>11. ASSUME NEW k \in Keys, NEW n \in 1 .. Len(stream[k]), ReadForEvent(k, n) PROVE TypeOK'
    <2>1. n \in Nat
      OBVIOUS
    <2>2. [active |-> TRUE, arg |-> n, row |-> valuations[k]]
              \in [active : BOOLEAN, arg : Nat, row : ValuationRow]
      BY <1>0, <2>1 DEF ValuationOK
    <2>3. ValuationOK'
      BY <1>0, <1>11, <2>2 DEF ReadForEvent, ValuationOK
    <2>4. AggregatesOK' /\ ReceivablesOK' /\ FirstOK'
      BY <1>0, <1>11 DEF ReadForEvent, aggregates, receivables, AggregatesOK, ReceivablesOK, FirstOK
    <2> QED
      BY <1>1, <2>3, <2>4
  <1>12. ASSUME NEW k \in Keys, WriteForEvent(k) PROVE TypeOK'
    <2>1. PICK n : n = applying[k].arg
      OBVIOUS
    <2>7. n \in 1 .. Len(stream[k])
      BY <1>12, <2>1 DEF WriteForEvent, Reading
    <2>2. n \in Nat /\ stream[k][n] \in Event /\ applying[k].row \in ValuationRow
      BY <1>0, <2>1, <2>7 DEF AggregatesOK, ValuationOK
    <2>3. ValuationAfter(applying[k].row, stream[k][n]) \in ValuationRow
      BY <2>2, ValuationRows
    <2>4. NoCall \in [active : BOOLEAN, arg : Nat, row : ValuationRow]
      BY NoCallTyped
    <2>5. ValuationOK'
      BY <1>0, <1>12, <2>1, <2>2, <2>3, <2>4 DEF WriteForEvent, ValuationOK
    <2>6. AggregatesOK' /\ ReceivablesOK' /\ FirstOK'
      BY <1>0, <1>12, <2>1, <2>2 DEF WriteForEvent, Accepted, aggregates, receivables,
                                     AggregatesOK, ReceivablesOK, FirstOK, AllReports
    <2> QED
      BY <1>1, <2>5, <2>6
  <1>13. ASSUME NEW k \in Keys, NEW cost \in Costs, ReadForCost(k, cost) PROVE TypeOK'
    <2>1. cost \in 0 .. MaxValue
      BY ReportsAssumption
    <2>2. [active |-> TRUE, arg |-> cost, row |-> valuations[k]]
              \in [active : BOOLEAN, arg : 0 .. MaxValue, row : ValuationRow]
      BY <1>0, <2>1 DEF ValuationOK
    <2>3. ValuationOK'
      BY <1>0, <1>13, <2>2 DEF ReadForCost, ValuationOK
    <2>4. AggregatesOK' /\ ReceivablesOK' /\ FirstOK'
      BY <1>0, <1>13 DEF ReadForCost, aggregates, receivables, AggregatesOK, ReceivablesOK, FirstOK
    <2> QED
      BY <1>1, <2>3, <2>4
  <1>14. ASSUME NEW k \in Keys, WriteCost(k) PROVE TypeOK'
    <2>1. setting[k].row \in ValuationRow /\ setting[k].arg \in 0 .. MaxValue
      BY <1>0 DEF ValuationOK
    <2>2. SetUnitCost(setting[k].row, setting[k].arg) \in ValuationRow
      <3>1. PICK row, cost : row = setting[k].row /\ cost = setting[k].arg
        OBVIOUS
      <3>2. row \in ValuationRow /\ cost \in 0 .. MaxValue
        BY <2>1, <3>1
      <3> QED
        BY <3>1, <3>2, ValuationRows
    <2>3. NoCall \in [active : BOOLEAN, arg : 0 .. MaxValue, row : ValuationRow]
      BY NoCallTyped
    <2>4. ValuationOK'
      BY <1>0, <1>14, <2>2, <2>3 DEF WriteCost, ValuationOK
    <2>5. AggregatesOK' /\ ReceivablesOK' /\ FirstOK'
      BY <1>0, <1>14 DEF WriteCost, aggregates, receivables, AggregatesOK, ReceivablesOK, FirstOK
    <2> QED
      BY <1>1, <2>4, <2>5
  <1>15. ASSUME RebuildValuation PROVE TypeOK'
    <2>1. ValuationOK'
      BY <1>0, <1>15, RebuiltTyped DEF RebuildValuation, ValuationOK, AggregatesOK
    <2>2. FirstOK'
      BY <1>0, <1>15 DEF RebuildValuation, FirstOK, AllReports
    <2>3. AggregatesOK' /\ ReceivablesOK'
      BY <1>0, <1>15 DEF RebuildValuation, aggregates, receivables, AggregatesOK, ReceivablesOK
    <2> QED
      BY <1>1, <2>1, <2>2, <2>3
  <1>16. ASSUME UNCHANGED vars PROVE TypeOK'
    BY <1>0, <1>16 DEF vars, aggregates, receivables, valuation, TypeOK
  <1> HIDE DEF All
  <1> QED
    BY <1>2, <1>3, <1>4, <1>5, <1>6, <1>7, <1>8, <1>9, <1>10, <1>11, <1>12, <1>13, <1>14, <1>15, <1>16
    DEF Next

-----------------------------------------------------------------------------
(* The valuation: what the rows show of the stock. *)

(* The stock after each of a list of events; it never is negative. *)
Levels(h, events) ==
    /\ h[0] = 0
    /\ \A n \in 1 .. Len(events) :
           h[n] = IF events[n].type = "ItemCreated" THEN 0 ELSE AddI64(h[n - 1], events[n].delta)
    /\ \A n \in 0 .. Len(events) : h[n] \in 0 .. MaxI64

(* An item has the stock of its last event. *)
Counted(k, h) == Levels(h, stream[k]) /\ h[Len(stream[k])] = items[k].stock

(* The cursor is a place of the stream, 0 as long as nothing was applied;  *)
(* then there is no row, so nobody sets a cost.  The event being applied   *)
(* is the one the cursor lets through.                                     *)
Places(k) ==
    /\ valued[k] <= Len(stream[k])
    /\ first["valuation"][k] = 0 <=> valued[k] = 0
    /\ valued[k] = 0 => valuations[k] = NoValuation /\ ~setting[k].active
    /\ applying[k].active => /\ applying[k].arg \in 1 .. Len(stream[k])
                             /\ CursorVerdict(valued[k], applying[k].arg) = "Next"

(* Without a race what was read is what is there. *)
Fresh(k) ==
    k \notin raced =>
        /\ applying[k].active => applying[k].row = valuations[k]
        /\ setting[k].active => setting[k].row = valuations[k]

(* Applied from the first event on, the row shows the stock at the cursor. *)
Shown(k, h) ==
    k \notin raced /\ first["valuation"][k] <= 1 =>
        /\ valuations[k].quantity = h[valued[k]]
        /\ valuations[k].total_value = Values(valuations[k].quantity, valuations[k].unit_cost)

KeyOK(k) == Places(k) /\ Fresh(k) /\ \E h : Counted(k, h) /\ Shown(k, h)

ValuationInv == \A k \in Keys : KeyOK(k)

(* One more event of an item adds a level. *)
LEMMA LevelsGrow ==
    ASSUME NEW events \in Seq(Event), NEW e \in Event, NEW h, Levels(h, events), NEW v \in 0 .. MaxI64,
           v = IF e.type = "ItemCreated" THEN 0 ELSE AddI64(h[Len(events)], e.delta)
    PROVE  \E g : /\ Levels(g, Append(events, e))
                  /\ g[Len(events) + 1] = v
                  /\ \A n \in 0 .. Len(events) : g[n] = h[n]
  <1> DEFINE l == Len(events)
             more == Append(events, e)
             g == [n \in 0 .. l + 1 |-> IF n = l + 1 THEN v ELSE h[n]]
  <1>1. l \in Nat /\ Len(more) = l + 1 /\ more[l + 1] = e /\ \A n \in 1 .. l : more[n] = events[n]
    OBVIOUS
  <1>2. g[l + 1] = v /\ \A n \in 0 .. l : g[n] = h[n]
    BY <1>1
  <1> HIDE DEF l, more, g
  <1>3. g[0] = 0
    BY <1>1, <1>2 DEF Levels
  <1>4. ASSUME NEW n \in 1 .. l + 1
        PROVE  g[n] = IF more[n].type = "ItemCreated" THEN 0 ELSE AddI64(g[n - 1], more[n].delta)
    <2>1. CASE n = l + 1
      <3>1. g[n - 1] = h[l] /\ g[n] = v /\ more[n] = e
        BY <1>1, <1>2, <2>1
      <3> QED
        BY <3>1 DEF l
    <2>2. CASE n \in 1 .. l
      <3>1. g[n] = h[n] /\ g[n - 1] = h[n - 1] /\ more[n] = events[n]
        BY <1>1, <1>2, <2>2
      <3>2. h[n] = IF events[n].type = "ItemCreated" THEN 0 ELSE AddI64(h[n - 1], events[n].delta)
        BY <2>2 DEF Levels, l
      <3> QED
        BY <3>1, <3>2
    <2> QED
      BY <1>1, <2>1, <2>2
  <1>5. ASSUME NEW n \in 0 .. l + 1 PROVE g[n] \in 0 .. MaxI64
    <2>1. CASE n = l + 1
      BY <1>2, <2>1
    <2>2. CASE n \in 0 .. l
      BY <1>2, <2>2 DEF Levels, l
    <2> QED
      BY <1>1, <2>1, <2>2
  <1>6. Levels(g, more)
    BY <1>1, <1>3, <1>4, <1>5 DEF Levels
  <1> QED
    BY <1>2, <1>6 DEF l, more

(* What nobody touches stays right. *)
LEMMA SameKey ==
    ASSUME NEW k \in Keys, KeyOK(k), stream'[k] = stream[k], items'[k] = items[k],
           valuations'[k] = valuations[k], applying'[k] = applying[k], setting'[k] = setting[k],
           valued'[k] = valued[k], first'["valuation"][k] = first["valuation"][k],
           k \in raced' <=> k \in raced
    PROVE  KeyOK(k)'
  <1>1. Places(k)'
    BY DEF KeyOK, Places
  <1>2. Fresh(k)'
    BY DEF KeyOK, Fresh
  <1>3. PICK h : Counted(k, h) /\ Shown(k, h)
    BY DEF KeyOK
  <1>4. Counted(k, h)'
    BY <1>3 DEF Counted
  <1>5. Shown(k, h)'
    BY <1>3 DEF Shown
  <1> QED
    BY <1>1, <1>2, <1>4, <1>5 DEF KeyOK

(* The empty rows show no stock and no value. *)
LEMMA NothingValued ==
    /\ NoValuation.quantity = 0 /\ NoValuation.unit_cost = {} /\ ~NoValuation.listed
    /\ NoValuation.total_value = Values(0, {})
    /\ NewValuation.quantity = 0 /\ NewValuation.unit_cost = {}
    /\ NewValuation.total_value = Values(0, {})
  <1>1. Values(0, {}) = {}
    BY DEF Values
  <1> QED
    BY <1>1 DEF NoValuation, NewValuation

(* At the start no row shows anything. *)
LEMMA InitKeys == Init => ValuationInv
  <1> SUFFICES ASSUME Init, NEW k \in Keys PROVE KeyOK(k)
    BY DEF ValuationInv
  <1>1. /\ stream[k] = <<>> /\ items[k] = EmptyItem /\ valuations[k] = NoValuation
        /\ applying[k] = NoCall /\ setting[k] = NoCall /\ valued[k] = 0
        /\ first["valuation"][k] = 0
    BY DEF Init, AllReports
  <1>2. Places(k)
    BY <1>1 DEF Places, NoCall
  <1>3. Fresh(k)
    BY <1>1 DEF Fresh, NoCall
  <1> DEFINE h == [n \in {0} |-> 0]
  <1>4. h[0] = 0 /\ MaxI64 \in Nat
    BY InventoryAssumption
  <1> HIDE DEF h
  <1>5. Len(stream[k]) = 0 /\ items[k].stock = 0
    BY <1>1 DEF EmptyItem
  <1>6. Counted(k, h)
    BY <1>4, <1>5 DEF Counted, Levels
  <1>7. Shown(k, h)
    BY <1>1, <1>4, NothingValued DEF Shown
  <1> QED
    BY <1>2, <1>3, <1>6, <1>7 DEF KeyOK

(* Only the aggregate and the stream change. *)
LEMMA ItemKeeps ==
    ASSUME TypeOK, ValuationInv, NEW k \in Keys, NEW cmd \in CommandsFor(k), HandleItem(cmd)
    PROVE  KeyOK(k)'
  <1>1. AggregatesOK /\ ReceivablesOK /\ ValuationOK /\ FirstOK /\ k \notin Invoices
    BY TypeParts, ReportsAssumption
  <1>2. PICK e : e = Decide(cmd)
    OBVIOUS
  <1>3. /\ cmd.key = k /\ e \in Event /\ Store(k, e)
        /\ e.delta = cmd.delta /\ (e.type = "ItemCreated" <=> cmd.type = "CreateItem")
    BY <1>2, ItemDecides DEF HandleItem
  <1>4. stream'[k] = Append(stream[k], e) /\ stream[k] \in Seq(Event)
    BY <1>1, <1>3, StreamGrows DEF AggregatesOK
  <1>5. PICK v : v = IF e.type = "ItemCreated" THEN 0 ELSE AddI64(items[k].stock, e.delta)
    OBVIOUS
  <1>6. items'[k].stock = v
    <2>1. items'[k] = Apply(items[k], e) /\ items[k] \in Item
      BY <1>1, <1>2, <1>3 DEF HandleItem, AggregatesOK
    <2> QED
      BY <1>3, <1>5, <2>1, ItemAfter
  <1>7. v \in 0 .. MaxI64
    <2>1. v \in I64 /\ MaxI64 \in Nat
      <3>1. items[k].stock \in I64 /\ e.delta \in I64
        BY <1>1, <1>3 DEF AggregatesOK, Item, Event
      <3> QED
        BY <1>5, <3>1, Arithmetic, InventoryAssumption
    <2>2. e.type # "ItemCreated" => AddI64(items[k].stock, e.delta) >= 0
      <3>1. HandleError(items[k], cmd) = "None"
        BY <1>3 DEF HandleItem
      <3>2. e.type # "ItemCreated" => AdjustError(items[k], cmd) = "None"
        BY <1>3, <3>1 DEF HandleError
      <3>3. e.type # "ItemCreated" => ~(AddI64(items[k].stock, cmd.delta) < 0)
        BY <3>2 DEF AdjustError
      <3>4. e.type # "ItemCreated" => AddI64(items[k].stock, e.delta) = v
        BY <1>5
      <3> QED
        BY <1>3, <2>1, <3>3, <3>4 DEF I64
    <2> QED
      BY <1>5, <2>1, <2>2 DEF I64
  <1>8. KeyOK(k)
    BY DEF ValuationInv
  <1>9. PICK h : Counted(k, h) /\ Shown(k, h)
    BY <1>8 DEF KeyOK
  <1>10. v = IF e.type = "ItemCreated" THEN 0 ELSE AddI64(h[Len(stream[k])], e.delta)
    BY <1>5, <1>9 DEF Counted
  <1>11. PICK g : /\ Levels(g, Append(stream[k], e))
                  /\ g[Len(stream[k]) + 1] = v
                  /\ \A n \in 0 .. Len(stream[k]) : g[n] = h[n]
    BY <1>3, <1>4, <1>7, <1>9, <1>10, LevelsGrow DEF Counted
  <1>12. Len(stream'[k]) = Len(stream[k]) + 1 /\ Len(stream[k]) \in Nat
    BY <1>3, <1>4
  <1>13. Counted(k, g)'
    BY <1>4, <1>6, <1>11, <1>12 DEF Counted
  <1>14. /\ valuations' = valuations /\ applying' = applying /\ setting' = setting
         /\ valued' = valued /\ first' = first /\ raced' = raced /\ valued[k] \in Nat
    BY <1>1, <1>3 DEF Store, valuation, ValuationOK
  <1>15. Places(k)'
    <2>1. Places(k)
      BY <1>8 DEF KeyOK
    <2> QED
      BY <1>12, <1>14, <2>1 DEF Places
  <1>16. Fresh(k)'
    BY <1>8, <1>14 DEF KeyOK, Fresh
  <1>17. Shown(k, g)'
    <2>1. valued[k] \in 0 .. Len(stream[k])
      BY <1>8, <1>12, <1>14 DEF KeyOK, Places
    <2> QED
      BY <1>9, <1>11, <1>14, <2>1 DEF Shown
  <1> QED
    BY <1>13, <1>15, <1>16, <1>17 DEF KeyOK

(* The event is read: the copy is the row. *)
LEMMA ReadKeeps ==
    ASSUME TypeOK, ValuationInv, NEW k \in Keys, NEW n \in 1 .. Len(stream[k]), ReadForEvent(k, n)
    PROVE  KeyOK(k)'
  <1>1. KeyOK(k) /\ ValuationOK
    BY TypeParts DEF ValuationInv
  <1>2. /\ stream' = stream /\ items' = items /\ valuations' = valuations /\ setting' = setting
        /\ valued' = valued /\ first' = first /\ raced' = raced
        /\ CursorVerdict(valued[k], n) = "Next"
        /\ applying'[k] = [active |-> TRUE, arg |-> n, row |-> valuations[k]]
    BY <1>1 DEF ReadForEvent, aggregates, ValuationOK
  <1>3. applying'[k].arg = n /\ applying'[k].row = valuations[k]
    BY <1>2
  <1>4. Places(k)'
    BY <1>1, <1>2, <1>3 DEF KeyOK, Places
  <1>5. Fresh(k)'
    BY <1>1, <1>2, <1>3 DEF KeyOK, Fresh
  <1>6. PICK h : Counted(k, h) /\ Shown(k, h)
    BY <1>1 DEF KeyOK
  <1>7. Counted(k, h)' /\ Shown(k, h)'
    BY <1>2, <1>6 DEF Counted, Shown
  <1> QED
    BY <1>4, <1>5, <1>7 DEF KeyOK

(* The next number, or the first. *)
LEMMA NextNumber ==
    ASSUME NEW last \in Nat, NEW n \in Nat, CursorVerdict(last, n) = "Next"
    PROVE  n >= 1 /\ (last # 0 => n = last + 1)
  BY DEF CursorVerdict

(* The row is written back: it shows the next level, unless a cost was     *)
(* being set.                                                              *)
LEMMA WriteKeeps ==
    ASSUME TypeOK, ValuationInv, NEW k \in Keys, WriteForEvent(k)
    PROVE  KeyOK(k)'
  <1>1. KeyOK(k) /\ ValuationOK /\ AggregatesOK /\ FirstOK
    BY TypeParts DEF ValuationInv
  <1>2. PICK n, row, e : n = applying[k].arg /\ row = applying[k].row /\ e = stream[k][n]
    OBVIOUS
  <1>3. /\ applying[k].active /\ n \in 1 .. Len(stream[k]) /\ CursorVerdict(valued[k], n) = "Next"
        /\ Len(stream[k]) \in Nat /\ valued[k] \in Nat /\ row \in ValuationRow /\ e \in Event
    BY <1>1, <1>2 DEF KeyOK, Places, WriteForEvent, AggregatesOK, ValuationOK
  <1>4. n >= 1 /\ (valued[k] # 0 => n = valued[k] + 1)
    BY <1>3, NextNumber
  <1>5. /\ stream' = stream /\ items' = items /\ setting' = setting
        /\ valuations'[k] = ValuationAfter(row, e)
        /\ valued'[k] = n /\ applying'[k] = NoCall
        /\ raced' = IF setting[k].active THEN raced \cup {k} ELSE raced
    BY <1>1, <1>2 DEF WriteForEvent, aggregates, ValuationOK
  <1>6. first'["valuation"][k] = IF first["valuation"][k] = 0 THEN n ELSE first["valuation"][k]
    BY <1>1, <1>2 DEF WriteForEvent, Accepted, FirstOK, AllReports
  <1>7. ~applying'[k].active
    BY <1>5 DEF NoCall
  <1>8. first["valuation"][k] = 0 <=> valued[k] = 0
    BY <1>1 DEF KeyOK, Places
  <1>9. first["valuation"][k] \in Nat
    BY <1>1 DEF FirstOK, AllReports
  <1>10. Places(k)'
    BY <1>3, <1>4, <1>5, <1>6, <1>7, <1>9 DEF Places
  <1>11. Fresh(k)'
    BY <1>5, <1>7 DEF Fresh
  <1>12. PICK h : Counted(k, h) /\ Shown(k, h)
    BY <1>1 DEF KeyOK
  <1>13. Counted(k, h)'
    BY <1>5, <1>12 DEF Counted
  <1>14. Shown(k, h)'
    <2> SUFFICES ASSUME k \notin raced', first'["valuation"][k] <= 1
                 PROVE  /\ valuations'[k].quantity = h[n]
                        /\ valuations'[k].total_value =
                               Values(valuations'[k].quantity, valuations'[k].unit_cost)
      BY <1>5 DEF Shown
    <2>1. k \notin raced /\ row = valuations[k]
      BY <1>1, <1>2, <1>3, <1>5 DEF KeyOK, Fresh
    <2>2. first["valuation"][k] <= 1
      BY <1>6, <1>9
    <2>3. valuations[k].quantity = h[valued[k]]
      BY <1>12, <2>1, <2>2 DEF Shown
    <2>4. n = valued[k] + 1
      BY <1>3, <1>4, <1>6, <1>8
    <2>5. h[n] = IF e.type = "ItemCreated" THEN 0 ELSE AddI64(h[n - 1], e.delta)
      BY <1>2, <1>3, <1>12 DEF Counted, Levels
    <2>6. n - 1 = valued[k]
      BY <1>3, <2>4
    <2>7. CASE e.type = "ItemCreated"
      <3>1. ValuationAfter(row, e) = NewValuation
        BY <2>7 DEF ValuationAfter
      <3> QED
        BY <1>5, <2>5, <2>7, <3>1, NothingValued
    <2>8. CASE e.type # "ItemCreated"
      <3>1. PICK q : q = AddI64(row.quantity, e.delta)
        OBVIOUS
      <3>2. ValuationAfter(row, e) =
                [listed |-> TRUE, quantity |-> q, unit_cost |-> row.unit_cost,
                 total_value |-> Values(q, row.unit_cost)]
        BY <1>3, <2>8, <3>1, ValuationRows
      <3>3. h[n] = q
        BY <2>1, <2>3, <2>5, <2>6, <2>8, <3>1
      <3>4. /\ valuations'[k].quantity = q /\ valuations'[k].unit_cost = row.unit_cost
            /\ valuations'[k].total_value = Values(q, row.unit_cost)
        BY <1>5, <3>2
      <3> QED
        BY <3>3, <3>4
    <2> QED
      BY <2>7, <2>8
  <1> QED
    BY <1>10, <1>11, <1>13, <1>14 DEF KeyOK

(* A cost is about to be set: there is a row, so something was applied. *)
LEMMA ReadCostKeeps ==
    ASSUME TypeOK, ValuationInv, NEW k \in Keys, NEW cost \in Costs, ReadForCost(k, cost)
    PROVE  KeyOK(k)'
  <1>1. KeyOK(k) /\ ValuationOK
    BY TypeParts DEF ValuationInv
  <1>2. /\ stream' = stream /\ items' = items /\ valuations' = valuations /\ applying' = applying
        /\ valued' = valued /\ first' = first /\ raced' = raced
        /\ valuations[k].listed
        /\ setting'[k] = [active |-> TRUE, arg |-> cost, row |-> valuations[k]]
    BY <1>1 DEF ReadForCost, aggregates, ValuationOK
  <1>3. setting'[k].row = valuations[k]
    BY <1>2
  <1>4. valued[k] # 0
    BY <1>1, <1>2, NothingValued DEF KeyOK, Places
  <1>5. Places(k)'
    BY <1>1, <1>2, <1>4 DEF KeyOK, Places
  <1>6. Fresh(k)'
    BY <1>1, <1>2, <1>3 DEF KeyOK, Fresh
  <1>7. PICK h : Counted(k, h) /\ Shown(k, h)
    BY <1>1 DEF KeyOK
  <1>8. Counted(k, h)' /\ Shown(k, h)'
    BY <1>2, <1>7 DEF Counted, Shown
  <1> QED
    BY <1>5, <1>6, <1>8 DEF KeyOK

(* The cost is written back: the stock stays, the value follows it. *)
LEMMA WriteCostKeeps ==
    ASSUME TypeOK, ValuationInv, NEW k \in Keys, WriteCost(k)
    PROVE  KeyOK(k)'
  <1>1. KeyOK(k) /\ ValuationOK
    BY TypeParts DEF ValuationInv
  <1>2. PICK row, cost : row = setting[k].row /\ cost = setting[k].arg
    OBVIOUS
  <1>3. row \in ValuationRow /\ cost \in 0 .. MaxValue
    BY <1>1, <1>2 DEF ValuationOK
  <1>4. /\ stream' = stream /\ items' = items /\ applying' = applying
        /\ valued' = valued /\ first' = first
        /\ valuations'[k] = SetUnitCost(row, cost)
        /\ setting[k].active /\ setting'[k] = NoCall
        /\ raced' = IF applying[k].active THEN raced \cup {k} ELSE raced
    BY <1>1, <1>2 DEF WriteCost, aggregates, ValuationOK
  <1>5. valued[k] # 0
    BY <1>1, <1>4 DEF KeyOK, Places
  <1>6. ~setting'[k].active
    BY <1>4 DEF NoCall
  <1>7. Places(k)'
    BY <1>1, <1>4, <1>5 DEF KeyOK, Places
  <1>8. Fresh(k)'
    BY <1>4, <1>6 DEF Fresh
  <1>9. PICK h : Counted(k, h) /\ Shown(k, h)
    BY <1>1 DEF KeyOK
  <1>10. Counted(k, h)'
    BY <1>4, <1>9 DEF Counted
  <1>11. Shown(k, h)'
    <2> SUFFICES ASSUME k \notin raced', first["valuation"][k] <= 1
                 PROVE  /\ valuations'[k].quantity = h[valued[k]]
                        /\ valuations'[k].total_value =
                               Values(valuations'[k].quantity, valuations'[k].unit_cost)
      BY <1>4 DEF Shown
    <2>1. k \notin raced /\ row = valuations[k]
      BY <1>1, <1>2, <1>4 DEF KeyOK, Fresh
    <2>2. valuations[k].quantity = h[valued[k]]
      BY <1>9, <2>1 DEF Shown
    <2>3. SetUnitCost(row, cost) =
              [listed |-> row.listed, quantity |-> row.quantity, unit_cost |-> {cost},
               total_value |-> Values(row.quantity, {cost})]
      BY <1>3, ValuationRows
    <2>4. /\ valuations'[k].quantity = row.quantity /\ valuations'[k].unit_cost = {cost}
          /\ valuations'[k].total_value = Values(row.quantity, {cost})
      BY <1>4, <2>3
    <2> QED
      BY <2>1, <2>2, <2>4
  <1> QED
    BY <1>7, <1>8, <1>10, <1>11 DEF KeyOK

(* A rebuilt row has the stock of the last event, and no cost. *)
LEMMA RebuiltRow ==
    ASSUME NEW events \in Seq(Event), NEW h, Levels(h, events)
    PROVE  /\ RebuiltValuation(events).quantity = h[Len(events)]
           /\ RebuiltValuation(events).total_value =
                  Values(RebuiltValuation(events).quantity, RebuiltValuation(events).unit_cost)
           /\ Len(events) = 0 => RebuiltValuation(events) = NoValuation
  <1> DEFINE l == Len(events)
  <1>1. PICK g : /\ Stages(g, l, ValuationRow, NoValuation, ValuationStep(events))
                 /\ g[l] = RebuiltValuation(events)
    BY ValuationStages
  <1>2. l \in Nat /\ \A n \in 1 .. l : events[n] \in Event
    OBVIOUS
  <1> DEFINE Good == {n \in 0 .. l : /\ g[n].quantity = h[n]
                                     /\ g[n].total_value = Values(g[n].quantity, g[n].unit_cost)}
  <1>3. 0 \in Good
    <2>1. g[0] = NoValuation /\ h[0] = 0
      BY <1>1 DEF Stages, Levels
    <2>2. g[0].quantity = h[0] /\ g[0].total_value = Values(g[0].quantity, g[0].unit_cost)
      BY <2>1, NothingValued
    <2>3. 0 \in 0 .. l
      BY <1>2
    <2> QED
      BY <2>2, <2>3
  <1>4. ASSUME NEW n \in 1 .. l, n - 1 \in Good PROVE n \in Good
    <2>1. PICK row, e : row = g[n - 1] /\ e = events[n]
      OBVIOUS
    <2>2. n - 1 \in 0 .. l /\ n \in 0 .. l /\ e \in Event /\ row \in ValuationRow
      <3>1. n - 1 \in 0 .. l /\ n \in 0 .. l /\ e \in Event
        BY <1>2, <2>1
      <3> HIDE DEF Good, l
      <3> QED
        BY <1>1, <2>1, <3>1 DEF Stages
    <2>3. g[n] = ValuationAfter(row, e)
      <3>1. g[n] = ValuationStep(events)[<<n, row>>]
        BY <1>1, <2>1 DEF Stages
      <3> QED
        BY <2>1, <2>2, <3>1 DEF ValuationStep
    <2>4. h[n] = IF e.type = "ItemCreated" THEN 0 ELSE AddI64(row.quantity, e.delta)
      BY <1>4, <2>1 DEF Levels
    <2>5. CASE e.type = "ItemCreated"
      <3>1. g[n] = NewValuation
        BY <2>3, <2>5 DEF ValuationAfter
      <3> QED
        BY <2>2, <2>4, <2>5, <3>1, NothingValued
    <2>6. CASE e.type # "ItemCreated"
      <3>1. PICK q : q = AddI64(row.quantity, e.delta)
        OBVIOUS
      <3>2. g[n] = [listed |-> TRUE, quantity |-> q, unit_cost |-> row.unit_cost,
                    total_value |-> Values(q, row.unit_cost)]
        BY <2>2, <2>3, <2>6, <3>1, ValuationRows
      <3>3. g[n].quantity = q /\ g[n].unit_cost = row.unit_cost
            /\ g[n].total_value = Values(q, row.unit_cost)
        BY <3>2
      <3> QED
        BY <2>2, <2>4, <2>6, <3>1, <3>3
    <2> QED
      BY <2>5, <2>6
  <1>5. 0 .. l \subseteq Good
    <2> HIDE DEF Good
    <2>1. Climbs(Good, l)
      BY <1>3, <1>4 DEF Climbs
    <2> QED
      BY <1>2, <2>1, Climbing
  <1>6. l \in Good
    BY <1>2, <1>5
  <1>7. l = 0 => RebuiltValuation(events) = NoValuation
    BY <1>1 DEF Stages
  <1> QED
    BY <1>1, <1>6, <1>7

(* After a rebuild a row shows the last level; a cost being set has        *)
(* raced.                                                                  *)
LEMMA RebuildKeeps ==
    ASSUME TypeOK, ValuationInv, NEW k \in Keys, RebuildValuation
    PROVE  KeyOK(k)'
  <1>1. KeyOK(k) /\ ValuationOK /\ AggregatesOK /\ FirstOK
    BY TypeParts DEF ValuationInv
  <1>2. /\ stream' = stream /\ items' = items /\ applying' = applying /\ setting' = setting
        /\ valuations'[k] = RebuiltValuation(stream[k])
        /\ valued'[k] = Len(stream[k]) /\ ~applying[k].active
        /\ raced' = {j \in Keys : setting[j].active}
    BY DEF RebuildValuation, aggregates
  <1>3. first'["valuation"][k] = IF stream[k] # <<>> THEN 1 ELSE 0
    BY <1>1 DEF RebuildValuation, FirstOK, AllReports
  <1>4. PICK h : Counted(k, h) /\ Shown(k, h)
    BY <1>1 DEF KeyOK
  <1>5. stream[k] \in Seq(Event) /\ Levels(h, stream[k])
    BY <1>1, <1>4 DEF AggregatesOK, Counted
  <1>6. /\ RebuiltValuation(stream[k]).quantity = h[Len(stream[k])]
        /\ RebuiltValuation(stream[k]).total_value =
               Values(RebuiltValuation(stream[k]).quantity, RebuiltValuation(stream[k]).unit_cost)
        /\ Len(stream[k]) = 0 => RebuiltValuation(stream[k]) = NoValuation
    BY <1>5, RebuiltRow
  <1>7. Len(stream[k]) \in Nat /\ (Len(stream[k]) = 0 <=> stream[k] = <<>>)
    BY <1>5
  <1>8. Len(stream[k]) = 0 => ~setting[k].active
    BY <1>1, <1>7 DEF KeyOK, Places, ValuationOK
  <1>9. Places(k)'
    BY <1>2, <1>3, <1>6, <1>7, <1>8 DEF Places
  <1>10. Fresh(k)'
    BY <1>2 DEF Fresh
  <1>11. Counted(k, h)'
    BY <1>2, <1>4 DEF Counted
  <1>12. Shown(k, h)'
    BY <1>2, <1>6 DEF Shown
  <1> QED
    BY <1>9, <1>10, <1>11, <1>12 DEF KeyOK

(* Only one of the items is touched, or none. *)
LEMMA OtherKeys ==
    ASSUME TypeOK, ValuationInv, NEW k \in Keys, KeyOK(k)', items' = [items EXCEPT ![k] = items'[k]],
           valuations' = [valuations EXCEPT ![k] = valuations'[k]],
           applying' = [applying EXCEPT ![k] = applying'[k]],
           setting' = [setting EXCEPT ![k] = setting'[k]],
           valued' = [valued EXCEPT ![k] = valued'[k]],
           \A j \in Keys : j # k =>
               /\ stream'[j] = stream[j] /\ first'["valuation"][j] = first["valuation"][j]
               /\ j \in raced' <=> j \in raced
    PROVE  ValuationInv'
  <1>1. AggregatesOK /\ ValuationOK
    BY TypeParts
  <1>2. ASSUME NEW j \in Keys PROVE KeyOK(j)'
    <2>1. CASE j = k
      BY <2>1
    <2>2. CASE j # k
      <3>1. KeyOK(j)
        BY DEF ValuationInv
      <3>2. /\ items'[j] = items[j] /\ valuations'[j] = valuations[j] /\ applying'[j] = applying[j]
            /\ setting'[j] = setting[j] /\ valued'[j] = valued[j]
        BY <1>1, <2>2 DEF AggregatesOK, ValuationOK
      <3> QED
        BY <2>2, <3>1, <3>2, SameKey
    <2> QED
      BY <2>1, <2>2
  <1> QED
    BY <1>2 DEF ValuationInv

(* None of the items is touched. *)
LEMMA NoKeys ==
    ASSUME ValuationInv, items' = items, UNCHANGED valuation,
           \A j \in Keys : stream'[j] = stream[j] /\ first'["valuation"][j] = first["valuation"][j]
    PROVE  ValuationInv'
  <1>1. ASSUME NEW j \in Keys PROVE KeyOK(j)'
    <2>1. KeyOK(j)
      BY DEF ValuationInv
    <2> QED
      BY <2>1, SameKey DEF valuation
  <1> QED
    BY <1>1 DEF ValuationInv

(* The valuation: every step. *)
LEMMA NextKeys == TypeOK /\ ValuationInv /\ [Next]_vars => ValuationInv'
  <1> SUFFICES ASSUME TypeOK, ValuationInv, [Next]_vars PROVE ValuationInv'
    OBVIOUS
  <1>0. AggregatesOK /\ ReceivablesOK /\ ValuationOK /\ FirstOK /\ Invoices \cap Keys = {}
    BY TypeParts, ReportsAssumption
  <1>1. ASSUME NEW i \in Invoices, NEW e, StoreInvoice(i, e) PROVE ValuationInv'
    <2>1. \A j \in Keys : stream'[j] = stream[j]
      BY <1>0, <1>1 DEF StoreInvoice, Store, AggregatesOK
    <2> QED
      BY <1>1, <2>1, NoKeys DEF StoreInvoice, Store
  <1>2. ASSUME NEW r \in Reports, NEW i \in Invoices, NEW n, Hand(r, i, n) PROVE ValuationInv'
    <2>1. first'["valuation"] = first["valuation"]
      BY <1>0, <1>2 DEF Hand, Accepted, FirstOK, Reports, AllReports
    <2> QED
      BY <1>2, <2>1, NoKeys DEF Hand, aggregates
  <1>3. ASSUME NEW r \in Reports, Restarted(r) PROVE ValuationInv'
    <2>1. first'["valuation"] = first["valuation"]
      BY <1>0, <1>3 DEF Restarted, FirstOK, Reports, AllReports
    <2> QED
      BY <1>3, <2>1, NoKeys DEF Restarted, aggregates
  <1>4. ASSUME NEW i, NEW c, RegisterInvoiceCustomer(i, c) PROVE ValuationInv'
    BY <1>4, NoKeys DEF RegisterInvoiceCustomer, aggregates
  <1>5. ASSUME NEW k \in Keys, NEW cmd \in CommandsFor(k), HandleItem(cmd) PROVE ValuationInv'
    <2>1. KeyOK(k)' /\ cmd.key = k
      BY <1>5, ItemKeeps, ItemDecides
    <2>2. /\ items' = [items EXCEPT ![k] = items'[k]]
          /\ \A j \in Keys : j # k => stream'[j] = stream[j]
      BY <1>0, <1>5, <2>1 DEF HandleItem, Store, AggregatesOK
    <2>3. UNCHANGED <<valuation, first>>
      BY <1>5 DEF HandleItem, Store
    <2>4. /\ valuations' = [valuations EXCEPT ![k] = valuations'[k]]
          /\ applying' = [applying EXCEPT ![k] = applying'[k]]
          /\ setting' = [setting EXCEPT ![k] = setting'[k]]
          /\ valued' = [valued EXCEPT ![k] = valued'[k]]
      BY <1>0, <2>3 DEF ValuationOK, valuation
    <2> QED
      BY <2>1, <2>2, <2>3, <2>4, OtherKeys DEF valuation
  <1>6. ASSUME NEW k \in Keys, NEW n \in 1 .. Len(stream[k]), ReadForEvent(k, n) PROVE ValuationInv'
    <2>1. KeyOK(k)'
      BY <1>6, ReadKeeps
    <2>2. /\ items' = [items EXCEPT ![k] = items'[k]]
          /\ valuations' = [valuations EXCEPT ![k] = valuations'[k]]
          /\ applying' = [applying EXCEPT ![k] = applying'[k]]
          /\ setting' = [setting EXCEPT ![k] = setting'[k]]
          /\ valued' = [valued EXCEPT ![k] = valued'[k]]
      BY <1>0, <1>6 DEF ReadForEvent, aggregates, AggregatesOK, ValuationOK
    <2> QED
      BY <1>6, <2>1, <2>2, OtherKeys DEF ReadForEvent, aggregates
  <1>7. ASSUME NEW k \in Keys, WriteForEvent(k) PROVE ValuationInv'
    <2>1. KeyOK(k)'
      BY <1>7, WriteKeeps
    <2>2. /\ items' = [items EXCEPT ![k] = items'[k]]
          /\ valuations' = [valuations EXCEPT ![k] = valuations'[k]]
          /\ applying' = [applying EXCEPT ![k] = applying'[k]]
          /\ setting' = [setting EXCEPT ![k] = setting'[k]]
          /\ valued' = [valued EXCEPT ![k] = valued'[k]]
      BY <1>0, <1>7 DEF WriteForEvent, aggregates, AggregatesOK, ValuationOK
    <2>3. ASSUME NEW j \in Keys, j # k
          PROVE  first'["valuation"][j] = first["valuation"][j] /\ (j \in raced' <=> j \in raced)
      BY <1>0, <1>7, <2>3 DEF WriteForEvent, Accepted, FirstOK, AllReports
    <2>4. stream' = stream
      BY <1>7 DEF WriteForEvent, aggregates
    <2> QED
      BY <2>1, <2>2, <2>3, <2>4, OtherKeys
  <1>8. ASSUME NEW k \in Keys, NEW cost \in Costs, ReadForCost(k, cost) PROVE ValuationInv'
    <2>1. KeyOK(k)'
      BY <1>8, ReadCostKeeps
    <2>2. /\ items' = [items EXCEPT ![k] = items'[k]]
          /\ valuations' = [valuations EXCEPT ![k] = valuations'[k]]
          /\ applying' = [applying EXCEPT ![k] = applying'[k]]
          /\ setting' = [setting EXCEPT ![k] = setting'[k]]
          /\ valued' = [valued EXCEPT ![k] = valued'[k]]
      BY <1>0, <1>8 DEF ReadForCost, aggregates, AggregatesOK, ValuationOK
    <2> QED
      BY <1>8, <2>1, <2>2, OtherKeys DEF ReadForCost, aggregates
  <1>9. ASSUME NEW k \in Keys, WriteCost(k) PROVE ValuationInv'
    <2>1. KeyOK(k)'
      BY <1>9, WriteCostKeeps
    <2>2. /\ items' = [items EXCEPT ![k] = items'[k]]
          /\ valuations' = [valuations EXCEPT ![k] = valuations'[k]]
          /\ applying' = [applying EXCEPT ![k] = applying'[k]]
          /\ setting' = [setting EXCEPT ![k] = setting'[k]]
          /\ valued' = [valued EXCEPT ![k] = valued'[k]]
      BY <1>0, <1>9 DEF WriteCost, aggregates, AggregatesOK, ValuationOK
    <2>3. \A j \in Keys : j # k => (j \in raced' <=> j \in raced)
      BY <1>9 DEF WriteCost
    <2> QED
      BY <1>9, <2>1, <2>2, <2>3, OtherKeys DEF WriteCost, aggregates
  <1>10. ASSUME RebuildValuation PROVE ValuationInv'
    BY <1>10, RebuildKeeps DEF ValuationInv
  <1>11. ASSUME UNCHANGED vars PROVE ValuationInv'
    BY <1>11, NoKeys DEF vars, aggregates
  <1>12. ASSUME NEW i \in Invoices, NEW n \in 1 .. Len(stream[i]), ApplyOpen(i, n) \/ ApplyBalances(i, n)
         PROVE  ValuationInv'
    BY <1>2, <1>12 DEF ApplyOpen, ApplyBalances, Reports
  <1>13. ASSUME RebuildOpen \/ RebuildBalances PROVE ValuationInv'
    BY <1>3, <1>13 DEF RebuildOpen, RebuildBalances, Reports
  <1>14. ASSUME NEW i \in Invoices,
                \/ \E o \in Orders, lines \in InvoiceLines : Issue(i, o, lines)
                \/ \E amount \in Amounts : Pay(i, amount)
                \/ Void(i)
         PROVE  ValuationInv'
    BY <1>1, <1>14 DEF Issue, Pay, Void
  <1> QED
    BY <1>4, <1>5, <1>6, <1>7, <1>8, <1>9, <1>10, <1>11, <1>12, <1>13, <1>14 DEF Next

(* An event being applied is one of the stream. *)
LEMMA KeysRead == ASSUME ValuationInv PROVE Reading
  BY DEF ValuationInv, KeyOK, Places, Reading

(* The valuation's invariant always holds. *)
LEMMA KeysHold == Spec => [](TypeOK /\ ValuationInv)
  <1>1. Init => TypeOK /\ ValuationInv
    BY InitTyped, InitKeys
  <1>2. TypeOK /\ ValuationInv /\ [Next]_vars => (TypeOK /\ ValuationInv)'
    BY NextTyped, NextKeys, KeysRead
  <1> QED
    BY <1>1, <1>2, PTL DEF Spec

(* The invariant gives the property. *)
LEMMA KeysExact == TypeOK /\ ValuationInv => ValuationExact
  <1> SUFFICES ASSUME TypeOK, ValuationInv, NEW k \in Keys,
                      Numbered("valuation", k, valued[k]), k \notin raced
               PROVE  /\ valuations[k].quantity = items[k].stock
                      /\ valuations[k].total_value =
                             {SaturatingMul(items[k].stock, cost) : cost \in valuations[k].unit_cost}
    BY DEF ValuationExact
  <1>1. AggregatesOK /\ ValuationOK /\ FirstOK /\ KeyOK(k)
    BY TypeParts DEF ValuationInv
  <1>2. PICK h : Counted(k, h) /\ Shown(k, h)
    BY <1>1 DEF KeyOK
  <1>3. valued[k] = Len(stream[k]) /\ stream[k] \in Seq(Event)
    BY <1>1 DEF Numbered, AggregatesOK
  <1>4. first["valuation"][k] <= 1
    BY <1>1, <1>3 DEF KeyOK, Places, Numbered
  <1>5. PICK q : q = h[valued[k]]
    OBVIOUS
  <1>6. items[k].stock = q /\ q \in 0 .. MaxI64
    <2>1. Len(stream[k]) \in 0 .. Len(stream[k])
      BY <1>3
    <2> QED
      BY <1>2, <1>3, <1>5, <2>1 DEF Counted, Levels
  <1>7. valuations[k].quantity = q /\ valuations[k].total_value = Values(q, valuations[k].unit_cost)
    BY <1>2, <1>4, <1>5 DEF Shown
  <1>8. Values(q, valuations[k].unit_cost) = {SaturatingMul(q, cost) : cost \in valuations[k].unit_cost}
    <2>1. ASSUME NEW cost \in valuations[k].unit_cost
          PROVE  SaturatingMul(q, cost) = IF q > 0 THEN SaturatingMul(q, cost) ELSE 0
      <3>1. cost \in 0 .. MaxValue /\ MaxValue \in Nat
        BY <1>1, ValuationAssumption DEF ValuationOK, ValuationRow
      <3>2. q # 0 => q > 0
        BY <1>6, InventoryAssumption
      <3>3. SaturatingMul(0, cost) = 0
        BY <3>1 DEF SaturatingMul
      <3>4. ~(0 > 0)
        OBVIOUS
      <3> QED
        BY <3>2, <3>3, <3>4
    <2> QED
      BY <2>1 DEF Values
  <1> QED
    BY <1>6, <1>7, <1>8

(***************************************************************************)
(* Every variable of the reports keeps its type, for any number of         *)
(* invoices, items and customers: no total, count or value of a row leaves *)
(* the range its column has, whatever the host hands over, registers or    *)
(* rebuilds.                                                               *)
(***************************************************************************)
THEOREM ReportTypes == Spec => []TypeOK
  BY KeysHold, PTL

(***************************************************************************)
(* InventoryValuationProjection: a row that was handed every event from    *)
(* the first on shows the stock of the item, and at each cost its value,   *)
(* unless set_unit_cost and apply_envelope overlapped between a read of    *)
(* the row and its write.                                                  *)
(***************************************************************************)
THEOREM RowsExact == Spec => []ValuationExact
  BY KeysHold, KeysExact, PTL

-----------------------------------------------------------------------------
(* The receivables: what the rows and the accounts show of the invoices. *)

(* What is owed on an invoice. *)
Due(b) == IF b.status = "Void" THEN 0 ELSE Outstanding(b)

(* An invoice that went through handle(). *)
Sound(b) ==
    /\ b.paid <= b.total
    /\ ~b.created => b.status = "Open" /\ b.total = 0 /\ b.paid = 0
    /\ b.status = "Paid" => b.paid = b.total /\ b.paid > 0

(* An event handle() decides in a state. *)
Decides(b, e) ==
    /\ e.type = "InvoiceIssued" <=> ~b.created
    /\ e.type = "PaymentRegistered" =>
           /\ b.status = "Open" /\ e.amount > 0
           /\ e.new_total_paid = b.paid + e.amount /\ e.new_total_paid <= b.total
    /\ e.type = "InvoiceVoided" => b.status # "Void"

(* Voided after it had been paid in full. *)
Withdrawn(b) == b.status = "Void" /\ b.paid = b.total /\ b.paid > 0

(* What is owed on a sound invoice is a number, at most its total. *)
LEMMA DueIs ==
    ASSUME NEW b \in Bill, Sound(b)
    PROVE  /\ b.total \in Nat /\ b.paid \in Nat /\ b.total <= MaxU64 /\ MaxU64 \in Nat
           /\ Due(b) = IF b.status = "Void" THEN 0 ELSE b.total - b.paid
           /\ Due(b) \in Nat /\ Due(b) <= b.total
           /\ ~b.created => Due(b) = 0
  <1>1. b.total \in Nat /\ b.paid \in Nat /\ b.total <= MaxU64 /\ MaxU64 \in Nat
    BY InvoiceAssumption DEF Bill, Amount
  <1>2. Outstanding(b) = b.total - b.paid
    BY <1>1 DEF Outstanding, Sound
  <1>3. Due(b) = IF b.status = "Void" THEN 0 ELSE b.total - b.paid
    BY <1>2 DEF Due
  <1> QED
    BY <1>1, <1>3 DEF Sound

(* A decided event keeps an invoice sound; what it does to the debt. *)
LEMMA BillStep ==
    ASSUME NEW b \in Bill, Sound(b), NEW e \in InvoiceEvent, Decides(b, e),
           NEW n, n = ApplyInvoice(b, e)
    PROVE  /\ n \in Bill /\ Sound(n) /\ n.created /\ n.total >= b.total /\ b.status # "Void"
           /\ e.type = "InvoiceIssued" =>
                  /\ n.status = "Open" /\ n.total = e.total /\ n.paid = 0 /\ e.total \in Nat
                  /\ Due(b) = 0 /\ Due(n) = e.total /\ b.total = 0
           /\ e.type = "PaymentRegistered" =>
                  /\ n.total = b.total /\ n.paid = e.new_total_paid /\ e.amount \in Nat
                  /\ b.created /\ b.status = "Open"
                  /\ n.status = IF e.new_total_paid >= n.total THEN "Paid" ELSE "Open"
                  /\ e.amount <= Due(b) /\ Due(n) = Due(b) - e.amount
           /\ e.type = "InvoiceVoided" =>
                  /\ n.total = b.total /\ n.paid = b.paid /\ n.status = "Void" /\ b.created
                  /\ Due(b) = b.total - b.paid /\ Due(n) = 0
                  /\ b.status = "Open" \/ Withdrawn(n)
  <1>1. /\ b.total \in Nat /\ b.paid \in Nat /\ b.total <= MaxU64 /\ b.status \in {"Open", "Paid", "Void"}
        /\ Due(b) = IF b.status = "Void" THEN 0 ELSE b.total - b.paid
    BY DueIs DEF Bill
  <1>2. CASE e.type = "InvoiceIssued"
    <2>1. /\ n \in Bill /\ n.created /\ n.status = "Open" /\ n.total = e.total /\ n.paid = 0
          /\ e.total \in Nat /\ ~b.created
      BY <1>2, BillAfter, InvoiceEventFields, InvoiceAssumption DEF Decides, Amount
    <2>2. b.status = "Open" /\ b.total = 0 /\ b.paid = 0
      BY <2>1 DEF Sound
    <2>3. Sound(n)
      BY <2>1 DEF Sound
    <2>4. Due(n) = n.total - n.paid
      BY <2>1, <2>3, DueIs
    <2> QED
      BY <1>1, <1>2, <2>1, <2>2, <2>3, <2>4
  <1>3. CASE e.type = "PaymentRegistered"
    <2>1. /\ n \in Bill /\ n.created = b.created /\ n.total = b.total /\ n.paid = e.new_total_paid
          /\ n.status = IF e.new_total_paid >= b.total THEN "Paid" ELSE b.status
          /\ e.amount \in Nat /\ e.new_total_paid \in Nat
      BY <1>3, BillAfter, InvoiceEventFields, InvoiceAssumption DEF Amount
    <2>2. /\ b.created /\ b.status = "Open" /\ e.amount > 0
          /\ e.new_total_paid = b.paid + e.amount /\ e.new_total_paid <= b.total
      BY <1>3 DEF Decides
    <2>3. Sound(n)
      BY <1>1, <2>1, <2>2 DEF Sound
    <2>4. Due(n) = n.total - n.paid
      BY <2>1, <2>2, <2>3, DueIs
    <2> QED
      BY <1>1, <1>3, <2>1, <2>2, <2>3, <2>4
  <1>4. CASE e.type = "InvoiceVoided"
    <2>1. /\ n \in Bill /\ n.created = b.created /\ n.total = b.total /\ n.paid = b.paid
          /\ n.status = "Void"
      BY <1>4, BillAfter
    <2>2. b.created /\ b.status # "Void"
      BY <1>4 DEF Decides
    <2>3. Sound(n)
      BY <1>1, <2>1, <2>2 DEF Sound
    <2>4. Due(n) = 0
      BY <2>1 DEF Due
    <2>5. b.status = "Open" \/ Withdrawn(n)
      BY <1>1, <2>1, <2>2 DEF Sound, Withdrawn
    <2> QED
      BY <1>1, <1>4, <2>1, <2>2, <2>3, <2>4, <2>5
  <1> QED
    BY <1>2, <1>3, <1>4, InvoiceEventFields

-----------------------------------------------------------------------------
(* The accounts of a list of invoices B, each as far as it has been told. *)

Mapped(st, B) ==
    \A i \in Invoices : B[i].created =>
        /\ st.mapping[i].known /\ st.mapping[i].total = B[i].total /\ st.mapping[i].paid = B[i].paid
        /\ st.accounts[st.mapping[i].customer].listed

OwnedBy(st, B, c) == {i \in Invoices : B[i].created /\ st.mapping[i].customer = c}
OpenOf(st, B, c) == {i \in OwnedBy(st, B, c) : B[i].status = "Open"}

CountsRight(st, B) ==
    \A c \in Customers : (\A i \in OwnedBy(st, B, c) : ~Withdrawn(B[i])) =>
        st.accounts[c].open = Cardinality(OpenOf(st, B, c))

Totals(B) == [i \in Invoices |-> B[i].total]
Dues(B) == [i \in Invoices |-> Due(B[i])]
Shares(st, B, c) == [i \in Invoices |-> IF st.mapping[i].customer = c THEN Due(B[i]) ELSE 0]
Owing(st) == [c \in Customers |-> st.accounts[c].outstanding]

SumsRight(st, B) ==
    SumOf(Totals(B), Invoices) <= MaxU64 =>
        /\ \A c \in Customers : st.accounts[c].outstanding = SumOf(Shares(st, B, c), Invoices)
        /\ SumOf(Owing(st), Customers) = SumOf(Dues(B), Invoices)

Reflects(st, B) == Mapped(st, B) /\ CountsRight(st, B) /\ SumsRight(st, B)

(* The state st with B before an event of invoice i, and what it enters:   *)
(* the mapping p, the account a of the customer c, the invoice n.          *)
Entry(st, B, i, p, c, a, n) ==
    /\ n.created /\ p.known /\ p.customer = c /\ p.total = n.total /\ p.paid = n.paid
    /\ a.listed
    /\ B[i].created => st.mapping[i].customer = c
    /\ B[i].status # "Void"

(* The mapping follows an event. *)
LEMMA MappedAfter ==
    ASSUME NEW st \in Balances, NEW B \in [Invoices -> Bill], Mapped(st, B),
           NEW i \in Invoices, NEW p \in Mapping, NEW c \in Customers, NEW a \in Account, NEW n \in Bill,
           Entry(st, B, i, p, c, a, n)
    PROVE  Mapped(Entered(st, i, p, c, a), [B EXCEPT ![i] = n])
  <1>1. PICK s, N : s = Entered(st, i, p, c, a) /\ N = [B EXCEPT ![i] = n]
    OBVIOUS
  <1>2. /\ \A j \in Invoices : s.mapping[j] = IF j = i THEN p ELSE st.mapping[j]
        /\ \A d \in Customers : s.accounts[d] = IF d = c THEN a ELSE st.accounts[d]
        /\ \A j \in Invoices : N[j] = IF j = i THEN n ELSE B[j]
    BY <1>1, EnteredTyped
  <1>3. ASSUME NEW j \in Invoices, N[j].created
        PROVE  /\ s.mapping[j].known /\ s.mapping[j].total = N[j].total
               /\ s.mapping[j].paid = N[j].paid
               /\ s.accounts[s.mapping[j].customer].listed
    <2>1. CASE j = i
      BY <1>2, <2>1 DEF Entry
    <2>2. CASE j # i
      <3>1. N[j] = B[j] /\ s.mapping[j] = st.mapping[j]
        BY <1>2, <2>2
      <3>2. /\ st.mapping[j].known /\ st.mapping[j].total = B[j].total
            /\ st.mapping[j].paid = B[j].paid /\ st.accounts[st.mapping[j].customer].listed
        BY <1>3, <3>1 DEF Mapped
      <3>3. PICK d : d = st.mapping[j].customer
        OBVIOUS
      <3>4. d \in Customers
        BY <3>2, <3>3, MappingFields DEF Balances
      <3>5. s.accounts[d].listed
        BY <1>2, <3>2, <3>3, <3>4 DEF Entry
      <3> QED
        BY <3>1, <3>2, <3>3, <3>5
    <2> QED
      BY <2>1, <2>2
  <1>4. Mapped(s, N)
    BY <1>3 DEF Mapped
  <1> QED
    BY <1>1, <1>4

(* Who owns what after the event. *)
Ownership(s, N, st, B, i, c, n) ==
    /\ OwnedBy(s, N, c) = OwnedBy(st, B, c) \cup {i}
    /\ OpenOf(s, N, c) = IF n.status = "Open" THEN OpenOf(st, B, c) \cup {i}
                                              ELSE OpenOf(st, B, c) \ {i}
    /\ \A d \in Customers : d # c =>
           OwnedBy(s, N, d) = OwnedBy(st, B, d) /\ OpenOf(s, N, d) = OpenOf(st, B, d)
    /\ \A d \in Customers : d # c => i \notin OwnedBy(st, B, d)

(* Only the one invoice changes, and it keeps its customer. *)
LEMMA OwnedAfter ==
    ASSUME NEW st \in Balances, NEW B \in [Invoices -> Bill],
           NEW i \in Invoices, NEW p \in Mapping, NEW c \in Customers, NEW a \in Account, NEW n \in Bill,
           Entry(st, B, i, p, c, a, n),
           NEW s, s = Entered(st, i, p, c, a), NEW N, N = [B EXCEPT ![i] = n]
    PROVE  Ownership(s, N, st, B, i, c, n)
  <1>1. /\ \A j \in Invoices : s.mapping[j] = IF j = i THEN p ELSE st.mapping[j]
        /\ \A j \in Invoices : N[j] = IF j = i THEN n ELSE B[j]
    BY EnteredTyped
  <1>2. OwnedBy(s, N, c) = OwnedBy(st, B, c) \cup {i}
    BY <1>1 DEF OwnedBy, Entry
  <1>3. \A d \in Customers : d # c =>
            OwnedBy(s, N, d) = OwnedBy(st, B, d) /\ i \notin OwnedBy(st, B, d)
    BY <1>1 DEF OwnedBy, Entry
  <1>4. OpenOf(s, N, c) = IF n.status = "Open" THEN OpenOf(st, B, c) \cup {i}
                                               ELSE OpenOf(st, B, c) \ {i}
    <2>1. OpenOf(s, N, c) = {j \in OwnedBy(st, B, c) \cup {i} : N[j].status = "Open"}
      BY <1>2 DEF OpenOf
    <2>2. \A j \in OwnedBy(st, B, c) : j \in Invoices
      BY DEF OwnedBy
    <2>3. CASE n.status = "Open"
      BY <1>1, <2>1, <2>2, <2>3 DEF OpenOf
    <2>4. CASE n.status # "Open"
      BY <1>1, <2>1, <2>2, <2>4 DEF OpenOf
    <2> QED
      BY <2>3, <2>4
  <1>5. ASSUME NEW d \in Customers, d # c PROVE OpenOf(s, N, d) = OpenOf(st, B, d)
    <2>1. \A j \in OwnedBy(st, B, d) : j \in Invoices /\ j # i
      BY <1>3, <1>5 DEF OwnedBy
    <2> QED
      BY <1>1, <1>3, <1>5, <2>1 DEF OpenOf
  <1> QED
    BY <1>2, <1>3, <1>4, <1>5 DEF Ownership

(* The count follows the set of open invoices. *)
Recounts(st, B, i, c, a, n) ==
    \/ Withdrawn(n)
    \/ /\ n.status = "Open" /\ ~B[i].created
       /\ a.open = st.accounts[c].open + 1
    \/ /\ n.status = "Open" /\ B[i].created /\ B[i].status = "Open"
       /\ a.open = st.accounts[c].open
    \/ /\ n.status # "Open" /\ B[i].created /\ B[i].status = "Open"
       /\ a.open = SaturatingSub(st.accounts[c].open, 1)

(* The counts follow an event. *)
LEMMA CountsAfter ==
    ASSUME NEW st \in Balances, NEW B \in [Invoices -> Bill], CountsRight(st, B),
           NEW i \in Invoices, NEW p \in Mapping, NEW c \in Customers, NEW a \in Account, NEW n \in Bill,
           Entry(st, B, i, p, c, a, n), Recounts(st, B, i, c, a, n)
    PROVE  CountsRight(Entered(st, i, p, c, a), [B EXCEPT ![i] = n])
  <1>1. PICK s, N : s = Entered(st, i, p, c, a) /\ N = [B EXCEPT ![i] = n]
    OBVIOUS
  <1>2. /\ \A d \in Customers : s.accounts[d] = IF d = c THEN a ELSE st.accounts[d]
        /\ \A j \in Invoices : N[j] = IF j = i THEN n ELSE B[j]
    BY <1>1, EnteredTyped
  <1>3. /\ OwnedBy(s, N, c) = OwnedBy(st, B, c) \cup {i}
        /\ OpenOf(s, N, c) = IF n.status = "Open" THEN OpenOf(st, B, c) \cup {i}
                                                  ELSE OpenOf(st, B, c) \ {i}
        /\ \A d \in Customers : d # c =>
               OwnedBy(s, N, d) = OwnedBy(st, B, d) /\ OpenOf(s, N, d) = OpenOf(st, B, d)
        /\ \A d \in Customers : d # c => i \notin OwnedBy(st, B, d)
    <2>1. Ownership(s, N, st, B, i, c, n)
      BY <1>1, OwnedAfter
    <2> QED
      BY <2>1 DEF Ownership
  <1>4. \A d : OwnedBy(st, B, d) \subseteq Invoices
    BY DEF OwnedBy
  <1>5. ASSUME NEW d \in Customers, d # c, \A j \in OwnedBy(s, N, d) : ~Withdrawn(N[j])
        PROVE  s.accounts[d].open = Cardinality(OpenOf(s, N, d))
    <2>1. \A j \in OwnedBy(st, B, d) : ~Withdrawn(B[j])
      BY <1>2, <1>3, <1>4, <1>5
    <2>2. st.accounts[d].open = Cardinality(OpenOf(st, B, d))
      BY <2>1 DEF CountsRight
    <2> QED
      BY <1>2, <1>3, <1>5, <2>2
  <1>6. ASSUME \A j \in OwnedBy(s, N, c) : ~Withdrawn(N[j])
        PROVE  s.accounts[c].open = Cardinality(OpenOf(s, N, c))
    <2>1. ~Withdrawn(n)
      BY <1>2, <1>3, <1>6
    <2>2. \A j \in OwnedBy(st, B, c) : ~Withdrawn(B[j])
      <3>1. ~Withdrawn(B[i])
        BY DEF Entry, Withdrawn
      <3> QED
        BY <1>2, <1>3, <1>4, <1>6, <3>1
    <2> DEFINE S == OpenOf(st, B, c)
    <2>3. st.accounts[c].open = Cardinality(S)
      BY <2>2 DEF CountsRight
    <2>4. IsFiniteSet(S) /\ Cardinality(S) \in Nat
      <3>1. S \in SUBSET Invoices
        BY <1>4 DEF OpenOf
      <3> HIDE DEF S
      <3> QED
        BY <3>1, ReportsAssumption, FS_Subset, FS_CardinalityType
    <2>5. i \in S <=> B[i].created /\ B[i].status = "Open"
      BY DEF OpenOf, OwnedBy, Entry
    <2>6. s.accounts[c] = a
      BY <1>2
    <2> HIDE DEF S
    <2>7. /\ Cardinality(S \cup {i}) = IF i \in S THEN Cardinality(S) ELSE Cardinality(S) + 1
          /\ Cardinality(S \ {i}) = IF i \in S THEN Cardinality(S) - 1 ELSE Cardinality(S)
      BY <2>4, FS_AddElement, FS_RemoveElement
    <2>8. i \in S => Cardinality(S) >= 1
      BY <2>4, FS_EmptySet
    <2>9. OpenOf(s, N, c) = IF n.status = "Open" THEN S \cup {i} ELSE S \ {i}
      BY <1>3 DEF S
    <2>10. CASE n.status = "Open"
      BY <2>1, <2>3, <2>4, <2>5, <2>6, <2>7, <2>9, <2>10 DEF Recounts
    <2>11. CASE n.status # "Open"
      <3>1. i \in S /\ a.open = SaturatingSub(Cardinality(S), 1)
        BY <2>1, <2>3, <2>5, <2>11 DEF Recounts
      <3>2. SaturatingSub(Cardinality(S), 1) = Cardinality(S) - 1
        BY <2>4, <2>8, <3>1 DEF SaturatingSub
      <3> QED
        BY <2>6, <2>7, <2>9, <2>11, <3>1, <3>2
    <2> QED
      BY <2>10, <2>11
  <1>7. CountsRight(s, N)
    BY <1>5, <1>6 DEF CountsRight
  <1> QED
    BY <1>1, <1>7

(* The account moves by what the event moves on the invoice, unless the    *)
(* type gives out.                                                         *)
Moves(st, B, i, c, a, n) ==
    \/ /\ Due(B[i]) = 0 /\ B[i].total = 0 /\ Due(n) = n.total
       /\ a.outstanding = Plus(st.accounts[c].outstanding, n.total)
    \/ /\ B[i].created /\ n.total = B[i].total /\ Due(n) <= Due(B[i])
       /\ a.outstanding = SaturatingSub(st.accounts[c].outstanding, Due(B[i]) - Due(n))

SoundBills(B) == \A i \in Invoices : Sound(B[i])

(* The sums are sums of numbers; no debt exceeds what was invoiced. *)
LEMMA SumsOfBills ==
    ASSUME NEW B \in [Invoices -> Bill], SoundBills(B), NEW st, NEW c
    PROVE  /\ \A i \in Invoices : Totals(B)[i] \in Nat /\ Totals(B)[i] \in Int
           /\ \A i \in Invoices : Dues(B)[i] \in Nat /\ Dues(B)[i] \in Int
           /\ \A i \in Invoices : Shares(st, B, c)[i] \in Nat /\ Shares(st, B, c)[i] \in Int
           /\ SumOf(Totals(B), Invoices) \in Nat
           /\ SumOf(Dues(B), Invoices) \in Nat
           /\ SumOf(Shares(st, B, c), Invoices) \in Nat
           /\ SumOf(Shares(st, B, c), Invoices) <= SumOf(Totals(B), Invoices)
           /\ \A i \in Invoices : Shares(st, B, c)[i] <= SumOf(Shares(st, B, c), Invoices)
           /\ IsFiniteSet(Invoices)
  <1>0. IsFiniteSet(Invoices)
    BY ReportsAssumption
  <1>1. \A i \in Invoices : /\ B[i].total \in Nat /\ Due(B[i]) \in Nat /\ Due(B[i]) <= B[i].total
    BY DueIs DEF SoundBills
  <1> DEFINE T == Totals(B)
             D == Dues(B)
             S == Shares(st, B, c)
  <1>2. /\ \A i \in Invoices : T[i] \in Nat /\ T[i] \in Int /\ T[i] = B[i].total
        /\ \A i \in Invoices : D[i] \in Nat /\ D[i] \in Int
        /\ \A i \in Invoices : S[i] \in Nat /\ S[i] \in Int /\ S[i] <= T[i]
    BY <1>1 DEF Totals, Dues, Shares
  <1> HIDE DEF T, D, S
  <1>3. SumOf(T, Invoices) \in Nat /\ SumOf(D, Invoices) \in Nat
    BY <1>0, <1>2, SumOfNaturals
  <1>4. SumOf(S, Invoices) \in Nat /\ \A i \in Invoices : S[i] <= SumOf(S, Invoices)
    BY <1>0, <1>2, SumOfNaturals
  <1>5. SumOf(S, Invoices) <= SumOf(T, Invoices)
    BY <1>0, <1>2, SumGrows
  <1> QED
    BY <1>0, <1>2, <1>3, <1>4, <1>5 DEF T, D, S

(* The sums follow an event. *)
LEMMA SumsAfter ==
    ASSUME NEW st \in Balances, NEW B \in [Invoices -> Bill], SoundBills(B), SumsRight(st, B),
           NEW i \in Invoices, NEW p \in Mapping, NEW c \in Customers, NEW a \in Account,
           NEW n \in Bill, Sound(n), n.total >= B[i].total,
           Entry(st, B, i, p, c, a, n), Moves(st, B, i, c, a, n)
    PROVE  SumsRight(Entered(st, i, p, c, a), [B EXCEPT ![i] = n])
  <1>1. PICK s, N : s = Entered(st, i, p, c, a) /\ N = [B EXCEPT ![i] = n]
    OBVIOUS
  <1>2. /\ \A j \in Invoices : s.mapping[j] = IF j = i THEN p ELSE st.mapping[j]
        /\ \A d \in Customers : s.accounts[d] = IF d = c THEN a ELSE st.accounts[d]
        /\ \A j \in Invoices : N[j] = IF j = i THEN n ELSE B[j]
        /\ N \in [Invoices -> Bill]
    BY <1>1, EnteredTyped
  <1>3. SoundBills(N)
    BY <1>2 DEF SoundBills
  <1>4. PICK b : b = B[i]
    OBVIOUS
  <1>5. /\ b.total \in Nat /\ Due(b) \in Nat /\ n.total \in Nat /\ Due(n) \in Nat /\ MaxU64 \in Nat
        /\ Due(b) <= b.total /\ Due(n) <= n.total /\ (~b.created => Due(b) = 0)
    BY <1>4, DueIs DEF SoundBills
  <1>6. SumOf(Totals(N), Invoices) = SumOf(Totals(B), Invoices) + n.total - b.total
    <2> DEFINE F == Totals(B)
               G == Totals(N)
    <2>1. \A j \in Invoices : F[j] \in Int /\ G[j] \in Int /\ (j # i => G[j] = F[j])
      BY <1>2, <1>3, SumsOfBills DEF Totals
    <2>2. F[i] = b.total /\ G[i] = n.total
      BY <1>2, <1>4 DEF Totals
    <2> HIDE DEF F, G
    <2>3. SumOf(G, Invoices) = SumOf(F, Invoices) + G[i] - F[i]
      BY <2>1, ReportsAssumption, SumChanges
    <2> QED
      BY <2>2, <2>3 DEF F, G
  <1>7. SumOf(Dues(N), Invoices) = SumOf(Dues(B), Invoices) + Due(n) - Due(b)
    <2> DEFINE F == Dues(B)
               G == Dues(N)
    <2>1. \A j \in Invoices : F[j] \in Int /\ G[j] \in Int /\ (j # i => G[j] = F[j])
      BY <1>2, <1>3, SumsOfBills DEF Dues
    <2>2. F[i] = Due(b) /\ G[i] = Due(n)
      BY <1>2, <1>4 DEF Dues
    <2> HIDE DEF F, G
    <2>3. SumOf(G, Invoices) = SumOf(F, Invoices) + G[i] - F[i]
      BY <2>1, ReportsAssumption, SumChanges
    <2> QED
      BY <2>2, <2>3 DEF F, G
  <1>8. ASSUME NEW d \in Customers
        PROVE  SumOf(Shares(s, N, d), Invoices) =
                   SumOf(Shares(st, B, d), Invoices) + (IF d = c THEN Due(n) - Due(b) ELSE 0)
    <2> DEFINE F == Shares(st, B, d)
               G == Shares(s, N, d)
    <2>1. \A j \in Invoices : F[j] \in Int /\ G[j] \in Int
      BY <1>2, <1>3, SumsOfBills
    <2>2. \A j \in Invoices : j # i => G[j] = F[j]
      BY <1>2 DEF Shares
    <2>3. G[i] = IF d = c THEN Due(n) ELSE 0
      BY <1>2 DEF Shares, Entry
    <2>4. F[i] = IF d = c THEN Due(b) ELSE 0
      <3>1. F[i] = IF st.mapping[i].customer = d THEN Due(b) ELSE 0
        BY <1>4 DEF Shares
      <3>2. b.created => st.mapping[i].customer = c
        BY <1>4 DEF Entry
      <3> QED
        BY <1>5, <3>1, <3>2
    <2> HIDE DEF F, G
    <2>5. SumOf(F, Invoices) \in Int /\ SumOf(G, Invoices) = SumOf(F, Invoices) + G[i] - F[i]
      BY <2>1, <2>2, ReportsAssumption, SumChanges
    <2>6. SumOf(G, Invoices) = SumOf(F, Invoices) + (IF d = c THEN Due(n) - Due(b) ELSE 0)
      BY <1>5, <2>3, <2>4, <2>5
    <2> QED
      BY <2>6 DEF F, G
  <1>9. ASSUME SumOf(Totals(N), Invoices) <= MaxU64
        PROVE  /\ \A d \in Customers : s.accounts[d].outstanding = SumOf(Shares(s, N, d), Invoices)
               /\ SumOf(Owing(s), Customers) = SumOf(Dues(N), Invoices)
    <2>1. SumOf(Totals(B), Invoices) \in Nat
      BY SumsOfBills
    <2>2. SumOf(Totals(B), Invoices) <= MaxU64
      <3>1. n.total >= b.total
        BY <1>4
      <3> QED
        BY <1>5, <1>6, <1>9, <2>1, <3>1
    <2>3. /\ \A d \in Customers : st.accounts[d].outstanding = SumOf(Shares(st, B, d), Invoices)
          /\ SumOf(Owing(st), Customers) = SumOf(Dues(B), Invoices)
      BY <2>2 DEF SumsRight
    <2>4. PICK o, t : o = st.accounts[c].outstanding /\ t = SumOf(Totals(B), Invoices)
      OBVIOUS
    <2>5. /\ o = SumOf(Shares(st, B, c), Invoices) /\ o \in Nat /\ o <= t /\ t \in Nat
          /\ Shares(st, B, c)[i] <= o
      BY <2>3, <2>4, SumsOfBills
    <2>6. a.outstanding = o + Due(n) - Due(b)
      <3>1. CASE /\ Due(b) = 0 /\ b.total = 0 /\ Due(n) = n.total
                 /\ a.outstanding = Plus(o, n.total)
        <4>1. o + n.total <= MaxU64
          BY <1>5, <1>6, <1>9, <2>4, <2>5, <3>1
        <4>2. Plus(o, n.total) = o + n.total
          BY <1>5, <2>5, <4>1 DEF Plus
        <4> QED
          BY <1>5, <2>5, <3>1, <4>2
      <3>2. CASE /\ b.created /\ Due(n) <= Due(b)
                 /\ a.outstanding = SaturatingSub(o, Due(b) - Due(n))
        <4>1. Shares(st, B, c)[i] = Due(b)
          BY <1>4, <3>2 DEF Shares, Entry
        <4>2. Due(b) - Due(n) <= o /\ Due(b) - Due(n) >= 0
          BY <1>5, <2>5, <3>2, <4>1
        <4>3. SaturatingSub(o, Due(b) - Due(n)) = o - (Due(b) - Due(n))
          BY <1>5, <2>5, <4>2 DEF SaturatingSub
        <4> QED
          BY <1>5, <2>5, <3>2, <4>3
      <3> QED
        BY <1>4, <2>4, <3>1, <3>2 DEF Moves
    <2>7. ASSUME NEW d \in Customers
          PROVE  s.accounts[d].outstanding = SumOf(Shares(s, N, d), Invoices)
      <3>1. CASE d = c
        <4>1. s.accounts[d] = a
          BY <1>2, <3>1
        <4>2. SumOf(Shares(s, N, d), Invoices) = o + (Due(n) - Due(b))
          BY <1>8, <2>5, <3>1
        <4> QED
          BY <1>5, <2>5, <2>6, <4>1, <4>2
      <3>2. CASE d # c
        <4>1. s.accounts[d] = st.accounts[d]
          BY <1>2, <3>2
        <4>2. SumOf(Shares(s, N, d), Invoices) = SumOf(Shares(st, B, d), Invoices) + 0
          BY <1>8, <3>2
        <4>3. SumOf(Shares(st, B, d), Invoices) \in Nat
          BY SumsOfBills
        <4> QED
          BY <2>3, <4>1, <4>2, <4>3
      <3> QED
        BY <3>1, <3>2
    <2>8. SumOf(Owing(s), Customers) = SumOf(Dues(N), Invoices)
      <3> DEFINE F == Owing(st)
                 G == Owing(s)
      <3>1. \A d \in Customers : F[d] \in Int /\ G[d] \in Int
        <4>1. \A d \in Customers : s.accounts[d] \in Account /\ st.accounts[d] \in Account
          BY <1>2 DEF Balances
        <4>2. \A x \in Amount : x \in Int
          BY InvoiceAssumption DEF Amount
        <4> QED
          BY <4>1, <4>2, AccountFields DEF Owing
      <3>2. \A d \in Customers : d # c => G[d] = F[d]
        BY <1>2 DEF Owing
      <3>3. F[c] = o /\ G[c] = a.outstanding
        BY <1>2, <2>4 DEF Owing
      <3> HIDE DEF F, G
      <3>4. SumOf(F, Customers) \in Int /\ SumOf(G, Customers) = SumOf(F, Customers) + G[c] - F[c]
        BY <3>1, <3>2, ReportsAssumption, SumChanges
      <3>5. SumOf(G, Customers) = SumOf(F, Customers) + (Due(n) - Due(b))
        BY <1>5, <2>5, <2>6, <3>3, <3>4
      <3>6. SumOf(F, Customers) = SumOf(Dues(B), Invoices)
        BY <2>3 DEF F
      <3>7. SumOf(Dues(B), Invoices) \in Nat
        BY SumsOfBills
      <3>8. SumOf(G, Customers) = SumOf(Dues(N), Invoices)
        BY <1>5, <1>7, <3>5, <3>6, <3>7
      <3> QED
        BY <3>8 DEF G
    <2> QED
      BY <2>7, <2>8
  <1>10. SumsRight(s, N)
    BY <1>9 DEF SumsRight
  <1> QED
    BY <1>1, <1>10

(* One more event of an invoice. *)
LEMMA OneEvent ==
    ASSUME NEW st \in Balances, NEW B \in [Invoices -> Bill], SoundBills(B), Reflects(st, B),
           NEW i \in Invoices, NEW e \in InvoiceEvent, Decides(B[i], e)
    PROVE  Reflects(BalancesAfterEvent(st, i, e), [B EXCEPT ![i] = ApplyInvoice(B[i], e)])
  <1>1. PICK b, n : b = B[i] /\ n = ApplyInvoice(b, e)
    OBVIOUS
  <1>2. b \in Bill /\ Sound(b) /\ Decides(b, e)
    BY <1>1 DEF SoundBills
  <1>3. n \in Bill /\ Sound(n) /\ n.created /\ n.total >= b.total /\ b.status # "Void"
    BY <1>1, <1>2, BillStep
  <1>4. /\ b.total \in Nat /\ b.paid \in Nat /\ Due(b) \in Nat /\ Due(n) \in Nat
        /\ n.total \in Nat /\ n.paid \in Nat
    BY <1>2, <1>3, DueIs
  <1>5. Mapped(st, B) /\ CountsRight(st, B) /\ SumsRight(st, B)
    BY DEF Reflects
  <1>6. ASSUME NEW p \in Mapping, NEW c \in Customers, NEW a \in Account,
               BalancesAfterEvent(st, i, e) = Entered(st, i, p, c, a),
               Entry(st, B, i, p, c, a, n), Recounts(st, B, i, c, a, n), Moves(st, B, i, c, a, n)
        PROVE  Reflects(BalancesAfterEvent(st, i, e), [B EXCEPT ![i] = n])
    <2>1. Mapped(Entered(st, i, p, c, a), [B EXCEPT ![i] = n])
      BY <1>3, <1>5, <1>6, MappedAfter
    <2>2. CountsRight(Entered(st, i, p, c, a), [B EXCEPT ![i] = n])
      BY <1>3, <1>5, <1>6, CountsAfter
    <2>3. SumsRight(Entered(st, i, p, c, a), [B EXCEPT ![i] = n])
      BY <1>1, <1>3, <1>5, <1>6, SumsAfter
    <2> QED
      BY <1>6, <2>1, <2>2, <2>3 DEF Reflects
  <1>7. b.created =>
            /\ st.mapping[i] \in Mapping /\ st.mapping[i].known
            /\ st.mapping[i].total = b.total /\ st.mapping[i].paid = b.paid
            /\ st.accounts[st.mapping[i].customer].listed
    BY <1>1, <1>5 DEF Mapped, Balances
  <1>8. CASE e.type = "InvoiceIssued"
    <2>1. /\ n.status = "Open" /\ n.total = e.total /\ n.paid = 0
          /\ Due(b) = 0 /\ Due(n) = e.total /\ b.total = 0 /\ ~b.created
      BY <1>1, <1>2, <1>8, BillStep DEF Decides
    <2>2. PICK p \in Mapping, c \in Customers, a \in Account :
               /\ p.known /\ p.customer = c /\ p.total = e.total /\ p.paid = 0
               /\ a.listed
               /\ a.outstanding = Plus(st.accounts[c].outstanding, e.total)
               /\ a.open = st.accounts[c].open + 1
               /\ BalancesAfterEvent(st, i, e) = Entered(st, i, p, c, a)
      BY <1>8, IssueEntered
    <2>3. Entry(st, B, i, p, c, a, n)
      BY <1>1, <1>3, <2>1, <2>2 DEF Entry
    <2>4. Recounts(st, B, i, c, a, n)
      BY <1>1, <2>1, <2>2 DEF Recounts
    <2>5. Moves(st, B, i, c, a, n)
      BY <1>1, <2>1, <2>2 DEF Moves
    <2> QED
      BY <1>1, <1>6, <2>2, <2>3, <2>4, <2>5
  <1>9. CASE e.type = "PaymentRegistered"
    <2>1. /\ n.total = b.total /\ n.paid = e.new_total_paid /\ e.amount \in Nat
          /\ b.created /\ b.status = "Open"
          /\ n.status = IF e.new_total_paid >= n.total THEN "Paid" ELSE "Open"
          /\ e.amount <= Due(b) /\ Due(n) = Due(b) - e.amount
      BY <1>1, <1>2, <1>9, BillStep
    <2>2. PICK p \in Mapping, c \in Customers, a \in Account :
               /\ c = st.mapping[i].customer
               /\ p.known /\ p.customer = c /\ p.total = st.mapping[i].total
               /\ p.paid = e.new_total_paid
               /\ a.listed = st.accounts[c].listed
               /\ a.listed =>
                      /\ a.outstanding = SaturatingSub(st.accounts[c].outstanding, e.amount)
                      /\ a.open = IF e.new_total_paid >= p.total
                                  THEN SaturatingSub(st.accounts[c].open, 1)
                                  ELSE st.accounts[c].open
               /\ BalancesAfterEvent(st, i, e) = Entered(st, i, p, c, a)
      BY <1>7, <1>9, <2>1, PaymentEntered
    <2>3. a.listed /\ p.total = n.total
      BY <1>7, <2>1, <2>2
    <2>4. Entry(st, B, i, p, c, a, n)
      BY <1>1, <1>3, <2>1, <2>2, <2>3 DEF Entry
    <2>5. Recounts(st, B, i, c, a, n)
      BY <1>1, <2>1, <2>2, <2>3 DEF Recounts
    <2>6. Due(b) - Due(n) = e.amount /\ Due(n) <= Due(b)
      BY <1>4, <2>1
    <2>7. Moves(st, B, i, c, a, n)
      BY <1>1, <2>1, <2>2, <2>3, <2>6 DEF Moves
    <2> QED
      BY <1>1, <1>6, <2>2, <2>4, <2>5, <2>7
  <1>10. CASE e.type = "InvoiceVoided"
    <2>1. /\ n.total = b.total /\ n.paid = b.paid /\ n.status = "Void" /\ b.created
          /\ Due(b) = b.total - b.paid /\ Due(n) = 0
          /\ b.status = "Open" \/ Withdrawn(n)
      BY <1>1, <1>2, <1>10, BillStep
    <2>2. PICK p \in Mapping, c \in Customers, a \in Account :
               /\ p = st.mapping[i] /\ c = p.customer
               /\ a.listed = st.accounts[c].listed
               /\ a.listed =>
                      /\ a.outstanding = SaturatingSub(st.accounts[c].outstanding,
                                                       SaturatingSub(p.total, p.paid))
                      /\ a.open = SaturatingSub(st.accounts[c].open, 1)
               /\ BalancesAfterEvent(st, i, e) = Entered(st, i, p, c, a)
      BY <1>7, <1>10, <2>1, VoidEntered
    <2>3. a.listed /\ p.known /\ p.total = n.total /\ p.paid = n.paid
      BY <1>7, <2>1, <2>2
    <2>4. Entry(st, B, i, p, c, a, n)
      BY <1>1, <1>3, <2>1, <2>2, <2>3 DEF Entry
    <2>5. Recounts(st, B, i, c, a, n)
      BY <1>1, <2>1, <2>2, <2>3 DEF Recounts
    <2>6. SaturatingSub(p.total, p.paid) = Due(b) - Due(n) /\ Due(n) <= Due(b)
      BY <1>4, <2>1, <2>3 DEF SaturatingSub
    <2>7. Moves(st, B, i, c, a, n)
      BY <1>1, <2>1, <2>2, <2>3, <2>6 DEF Moves
    <2> QED
      BY <1>1, <1>6, <2>2, <2>4, <2>5, <2>7
  <1> QED
    BY <1>8, <1>9, <1>10, InvoiceEventFields

(* Before the first event. *)
LEMMA NothingReflected ==
    ASSUME NEW B \in [Invoices -> Bill], SoundBills(B), \A i \in Invoices : ~B[i].created
    PROVE  Reflects(NoBalances, B)
  <1>1. \A c \in Customers : NoBalances.accounts[c] = NoAccount
    BY DEF NoBalances
  <1>2. NoAccount.outstanding = 0 /\ NoAccount.open = 0
    BY DEF NoAccount
  <1>3. Mapped(NoBalances, B)
    BY DEF Mapped
  <1>4. CountsRight(NoBalances, B)
    <2>1. \A c \in Customers : OpenOf(NoBalances, B, c) = {}
      BY DEF OpenOf, OwnedBy
    <2> QED
      BY <1>1, <1>2, <2>1, FS_EmptySet DEF CountsRight
  <1>5. \A i \in Invoices : Due(B[i]) = 0
    BY DueIs DEF SoundBills
  <1>6. ASSUME NEW c \in Customers
        PROVE  NoBalances.accounts[c].outstanding = SumOf(Shares(NoBalances, B, c), Invoices)
    <2> DEFINE F == Shares(NoBalances, B, c)
    <2>1. \A i \in Invoices : F[i] = 0
      BY <1>5 DEF Shares
    <2> HIDE DEF F
    <2>2. SumOf(F, Invoices) = 0
      BY <2>1, ReportsAssumption, SumOfZeros
    <2> QED
      BY <1>1, <1>2, <2>2 DEF F
  <1>7. SumOf(Owing(NoBalances), Customers) = SumOf(Dues(B), Invoices)
    <2> DEFINE F == Owing(NoBalances)
               G == Dues(B)
    <2>1. (\A c \in Customers : F[c] = 0) /\ (\A i \in Invoices : G[i] = 0)
      BY <1>1, <1>2, <1>5 DEF Owing, Dues
    <2> HIDE DEF F, G
    <2>2. SumOf(F, Customers) = 0 /\ SumOf(G, Invoices) = 0
      BY <2>1, ReportsAssumption, SumOfZeros
    <2> QED
      BY <2>2 DEF F, G
  <1> QED
    BY <1>3, <1>4, <1>6, <1>7 DEF Reflects, SumsRight

(* Registering the customer of an invoice nobody has told of. *)
LEMMA RegisteredReflects ==
    ASSUME NEW st \in Balances, NEW B \in [Invoices -> Bill], SoundBills(B), Reflects(st, B),
           NEW i \in Invoices, ~B[i].created, NEW c \in Customers
    PROVE  Reflects(Registered(st, i, c), B)
  <1>1. PICK s : s = Registered(st, i, c)
    OBVIOUS
  <1>2. s.accounts = st.accounts /\ \A j \in Invoices : j # i => s.mapping[j] = st.mapping[j]
    BY <1>1 DEF Registered, Balances
  <1>3. Mapped(st, B) /\ CountsRight(st, B) /\ SumsRight(st, B)
    BY DEF Reflects
  <1>4. Mapped(s, B)
    BY <1>2, <1>3 DEF Mapped
  <1>5. \A d : OwnedBy(s, B, d) = OwnedBy(st, B, d)
    BY <1>2 DEF OwnedBy
  <1>6. \A d : OpenOf(s, B, d) = OpenOf(st, B, d)
    BY <1>5 DEF OpenOf
  <1>7. CountsRight(s, B)
    BY <1>2, <1>3, <1>5, <1>6 DEF CountsRight
  <1>8. Due(B[i]) = 0
    BY DueIs DEF SoundBills
  <1>9. \A d : Shares(s, B, d) = Shares(st, B, d)
    BY <1>2, <1>8 DEF Shares
  <1>10. Owing(s) = Owing(st)
    BY <1>2 DEF Owing
  <1>11. SumsRight(s, B)
    BY <1>2, <1>3, <1>9, <1>10 DEF SumsRight
  <1> QED
    BY <1>1, <1>4, <1>7, <1>11 DEF Reflects

-----------------------------------------------------------------------------
(* Histories: the states of an invoice, from before its first event on. *)

IsHistory(h, events) ==
    /\ ~h[0].created
    /\ \A n \in 0 .. Len(events) : h[n] \in Bill /\ Sound(h[n])
    /\ \A n \in 1 .. Len(events) :
           Decides(h[n - 1], events[n]) /\ h[n] = ApplyInvoice(h[n - 1], events[n])

Histories(H, streams) == \A i \in Invoices : IsHistory(H[i], streams[i])

(* An invoice exists from its first event on. *)
LEMMA HistoryCreates ==
    ASSUME NEW events \in Seq(InvoiceEvent), NEW h, IsHistory(h, events), NEW n \in 0 .. Len(events)
    PROVE  h[n].created <=> n > 0
  <1>1. CASE n = 0
    BY <1>1 DEF IsHistory
  <1>2. CASE n \in 1 .. Len(events)
    <2>1. n - 1 \in 0 .. Len(events) /\ events[n] \in InvoiceEvent
      BY <1>2
    <2>2. /\ h[n - 1] \in Bill /\ Sound(h[n - 1]) /\ Decides(h[n - 1], events[n])
          /\ h[n] = ApplyInvoice(h[n - 1], events[n])
      BY <1>2, <2>1 DEF IsHistory
    <2>3. h[n].created
      BY <2>1, <2>2, BillStep
    <2> QED
      BY <1>2, <2>3
  <1> QED
    BY <1>1, <1>2

(* A decided event continues a history. *)
LEMMA HistoryGrows ==
    ASSUME NEW events \in Seq(InvoiceEvent), NEW e \in InvoiceEvent, NEW h, IsHistory(h, events),
           Decides(h[Len(events)], e)
    PROVE  \E g : /\ IsHistory(g, Append(events, e))
                  /\ g[Len(events) + 1] = ApplyInvoice(h[Len(events)], e)
                  /\ \A n \in 0 .. Len(events) : g[n] = h[n]
  <1> DEFINE l == Len(events)
             v == ApplyInvoice(h[l], e)
             more == Append(events, e)
             g == [n \in 0 .. l + 1 |-> IF n = l + 1 THEN v ELSE h[n]]
  <1>1. l \in Nat /\ Len(more) = l + 1 /\ more[l + 1] = e /\ \A n \in 1 .. l : more[n] = events[n]
    OBVIOUS
  <1>2. g[l + 1] = v /\ \A n \in 0 .. l : g[n] = h[n]
    BY <1>1
  <1>3. l \in 0 .. l /\ h[l] \in Bill /\ Sound(h[l])
    BY <1>1 DEF IsHistory
  <1>4. v \in Bill /\ Sound(v)
    BY <1>3, BillStep
  <1> HIDE DEF l, more, g, v
  <1>5. ~g[0].created
    BY <1>1, <1>2 DEF IsHistory
  <1>6. ASSUME NEW n \in 1 .. l + 1
        PROVE  Decides(g[n - 1], more[n]) /\ g[n] = ApplyInvoice(g[n - 1], more[n])
    <2>1. CASE n = l + 1
      <3>1. g[n - 1] = h[l] /\ g[n] = v /\ more[n] = e
        BY <1>1, <1>2, <2>1
      <3> QED
        BY <3>1 DEF l, v
    <2>2. CASE n \in 1 .. l
      <3>1. g[n] = h[n] /\ g[n - 1] = h[n - 1] /\ more[n] = events[n]
        BY <1>1, <1>2, <2>2
      <3>2. Decides(h[n - 1], events[n]) /\ h[n] = ApplyInvoice(h[n - 1], events[n])
        BY <2>2 DEF IsHistory, l
      <3> QED
        BY <3>1, <3>2
    <2> QED
      BY <1>1, <2>1, <2>2
  <1>7. ASSUME NEW n \in 0 .. l + 1 PROVE g[n] \in Bill /\ Sound(g[n])
    <2>1. CASE n = l + 1
      BY <1>2, <1>4, <2>1
    <2>2. CASE n \in 0 .. l
      BY <1>2, <2>2 DEF IsHistory, l
    <2> QED
      BY <1>1, <2>1, <2>2
  <1>8. IsHistory(g, more)
    BY <1>1, <1>5, <1>6, <1>7 DEF IsHistory
  <1> QED
    BY <1>2, <1>8 DEF l, more, v

(* The events of a whole stream are reflected, one by one. *)
LEMMA StreamReflects ==
    ASSUME NEW st \in Balances, NEW B \in [Invoices -> Bill], SoundBills(B), Reflects(st, B),
           NEW i \in Invoices, NEW events \in Seq(InvoiceEvent), NEW h, IsHistory(h, events), B[i] = h[0]
    PROVE  Reflects(BalancesAfterStream(st, i, events), [B EXCEPT ![i] = h[Len(events)]])
  <1> DEFINE l == Len(events)
  <1>1. PICK g : /\ Stages(g, l, Balances, st, BalancesStep(i, events))
                 /\ g[l] = BalancesAfterStream(st, i, events)
    BY BalancesStages
  <1>2. l \in Nat /\ \A n \in 1 .. l : events[n] \in InvoiceEvent
    OBVIOUS
  <1> DEFINE Good == {n \in 0 .. l : Reflects(g[n], [B EXCEPT ![i] = h[n]])}
  <1>3. 0 \in Good
    <2>1. g[0] = st /\ [B EXCEPT ![i] = h[0]] = B /\ 0 \in 0 .. l
      BY <1>1, <1>2 DEF Stages
    <2> QED
      BY <2>1
  <1>4. ASSUME NEW n \in 1 .. l, n - 1 \in Good PROVE n \in Good
    <2>1. PICK s, e, C : s = g[n - 1] /\ e = events[n] /\ C = [B EXCEPT ![i] = h[n - 1]]
      OBVIOUS
    <2>2. n - 1 \in 0 .. l /\ n \in 0 .. l /\ e \in InvoiceEvent /\ Reflects(s, C)
      BY <1>2, <1>4, <2>1
    <2> HIDE DEF Good
    <2>3. s \in Balances
      BY <1>1, <2>1, <2>2 DEF Stages
    <2>4. g[n] = BalancesAfterEvent(s, i, e)
      <3>1. g[n] = BalancesStep(i, events)[<<n, s>>]
        BY <1>1, <2>1 DEF Stages
      <3> QED
        BY <2>1, <2>3, <3>1 DEF BalancesStep
    <2>5. /\ h[n - 1] \in Bill /\ Sound(h[n - 1]) /\ Decides(h[n - 1], e)
          /\ h[n] = ApplyInvoice(h[n - 1], e)
      BY <1>4, <2>1, <2>2 DEF IsHistory
    <2>6. C \in [Invoices -> Bill] /\ SoundBills(C) /\ C[i] = h[n - 1]
      BY <2>1, <2>5 DEF SoundBills
    <2>7. Reflects(BalancesAfterEvent(s, i, e), [C EXCEPT ![i] = ApplyInvoice(C[i], e)])
      BY <2>2, <2>3, <2>5, <2>6, OneEvent
    <2>8. [C EXCEPT ![i] = ApplyInvoice(C[i], e)] = [B EXCEPT ![i] = h[n]]
      BY <2>1, <2>5, <2>6
    <2>9. Reflects(g[n], [B EXCEPT ![i] = h[n]])
      BY <2>4, <2>7, <2>8
    <2> QED
      BY <2>2, <2>9 DEF Good
  <1>5. 0 .. l \subseteq Good
    <2> HIDE DEF Good
    <2>1. Climbs(Good, l)
      BY <1>3, <1>4 DEF Climbs
    <2> QED
      BY <1>2, <2>1, Climbing
  <1>6. l \in Good
    <2> HIDE DEF Good, l
    <2> QED
      BY <1>2, <1>5
  <1>7. Reflects(g[l], [B EXCEPT ![i] = h[l]])
    <2> HIDE DEF l
    <2> QED
      BY <1>6
  <1> QED
    BY <1>1, <1>7

(* So are all streams, in whatever order a rebuild takes them. *)
LEMMA RebuildReflects ==
    ASSUME NEW streams, Streams(streams), NEW H, Histories(H, streams)
    PROVE  Reflects(RebuiltBalances(streams, NoBalances, Invoices),
                    [i \in Invoices |-> H[i][Len(streams[i])]])
  <1>1. PICK order : order = SetToSeq(Invoices)
    OBVIOUS
  <1> DEFINE l == Len(order)
             Seen(m) == {order[j] : j \in 1 .. m}
             Bills(m) == [i \in Invoices |-> IF i \in Seen(m) THEN H[i][Len(streams[i])] ELSE H[i][0]]
  <1>2. /\ order \in Seq(Invoices)
        /\ \A j, k \in 1 .. l : order[j] = order[k] => j = k
        /\ \A i \in Invoices : \E j \in 1 .. l : order[j] = i
    BY <1>1, RebuildOrder
  <1>3. PICK g : /\ Stages(g, l, Balances, NoBalances, RebuildStep(streams, order))
                 /\ g[l] = RebuiltBalances(streams, NoBalances, Invoices)
    BY <1>1, <1>2, RebuildStages
  <1>4. l \in Nat /\ \A n \in 1 .. l : order[n] \in Invoices
    BY <1>2
  <1>5. ASSUME NEW i \in Invoices
        PROVE  /\ streams[i] \in Seq(InvoiceEvent) /\ IsHistory(H[i], streams[i])
               /\ H[i][0] \in Bill /\ Sound(H[i][0]) /\ ~H[i][0].created
               /\ H[i][Len(streams[i])] \in Bill /\ Sound(H[i][Len(streams[i])])
    <2>1. streams[i] \in Seq(InvoiceEvent) /\ IsHistory(H[i], streams[i])
      BY DEF Streams, Histories
    <2>2. 0 \in 0 .. Len(streams[i]) /\ Len(streams[i]) \in 0 .. Len(streams[i])
      BY <2>1
    <2> QED
      BY <2>1, <2>2 DEF IsHistory
  <1>6. \A m : Bills(m) \in [Invoices -> Bill] /\ SoundBills(Bills(m))
    BY <1>5 DEF SoundBills
  <1> DEFINE Good == {n \in 0 .. l : Reflects(g[n], Bills(n))}
  <1>7. 0 \in Good
    <2>1. Seen(0) = {}
      OBVIOUS
    <2>2. \A i \in Invoices : ~Bills(0)[i].created
      BY <1>5, <2>1
    <2> HIDE DEF Bills, Seen
    <2>3. Reflects(NoBalances, Bills(0))
      BY <1>6, <2>2, NothingReflected
    <2>4. g[0] = NoBalances /\ 0 \in 0 .. l
      BY <1>3, <1>4 DEF Stages
    <2> QED
      BY <2>3, <2>4
  <1>8. ASSUME NEW n \in 1 .. l, n - 1 \in Good PROVE n \in Good
    <2>1. PICK s, i : s = g[n - 1] /\ i = order[n]
      OBVIOUS
    <2>2. n - 1 \in 0 .. l /\ n \in 0 .. l /\ i \in Invoices /\ Reflects(s, Bills(n - 1))
      BY <1>4, <1>8, <2>1
    <2>3. s \in Balances
      <3> HIDE DEF Good, Bills, Seen
      <3> QED
        BY <1>3, <2>1, <2>2 DEF Stages
    <2>4. g[n] = BalancesAfterStream(s, i, streams[i])
      <3> HIDE DEF Good, Bills, Seen
      <3>1. g[n] = RebuildStep(streams, order)[<<n, s>>]
        BY <1>3, <2>1 DEF Stages
      <3> QED
        BY <2>1, <2>3, <3>1 DEF RebuildStep
    <2>5. i \notin Seen(n - 1)
      <3>1. ASSUME NEW j \in 1 .. n - 1 PROVE order[j] # i
        <4>1. j \in 1 .. l /\ j # n
          BY <1>4
        <4> QED
          BY <1>2, <2>1, <4>1
      <3> QED
        BY <3>1
    <2>6. Seen(n) = Seen(n - 1) \cup {i}
      <3>1. \A j \in 1 .. n : j = n \/ j \in 1 .. n - 1
        BY <1>4
      <3>2. \A j \in 1 .. n - 1 : j \in 1 .. n
        BY <1>4
      <3>3. n \in 1 .. n
        BY <1>4
      <3> QED
        BY <2>1, <3>1, <3>2, <3>3
    <2>7. Bills(n - 1)[i] = H[i][0]
      BY <2>2, <2>5
    <2>8. [Bills(n - 1) EXCEPT ![i] = H[i][Len(streams[i])]] = Bills(n)
      <3> HIDE DEF Seen
      <3> QED
        BY <2>2, <2>6
    <2> HIDE DEF Bills, Seen
    <2>9. Reflects(BalancesAfterStream(s, i, streams[i]),
                   [Bills(n - 1) EXCEPT ![i] = H[i][Len(streams[i])]])
      BY <1>5, <1>6, <2>2, <2>3, <2>7, StreamReflects
    <2> QED
      BY <2>2, <2>4, <2>8, <2>9
  <1>9. 0 .. l \subseteq Good
    <2> HIDE DEF Good
    <2>1. Climbs(Good, l)
      BY <1>7, <1>8 DEF Climbs
    <2> QED
      BY <1>4, <2>1, Climbing
  <1>10. l \in Good
    <2> HIDE DEF Good, l
    <2> QED
      BY <1>4, <1>9
  <1>11. Bills(l) = [i \in Invoices |-> H[i][Len(streams[i])]]
    BY <1>2
  <1>12. Reflects(g[l], Bills(l))
    <2> HIDE DEF l, Bills, Seen
    <2> QED
      BY <1>10
  <1> HIDE DEF Bills, Seen, Good
  <1> QED
    BY <1>3, <1>11, <1>12

-----------------------------------------------------------------------------
(* The row of an invoice. *)

RowShows(row, b) ==
    /\ row.listed = b.created
    /\ row.outstanding = Due(b)
    /\ b.created => row.total = b.total

(* A row follows an event. *)
LEMMA RowAfter ==
    ASSUME NEW row \in OpenRow, NEW b \in Bill, Sound(b), NEW e \in InvoiceEvent, Decides(b, e),
           RowShows(row, b)
    PROVE  RowShows(OpenRowAfter(row, e), ApplyInvoice(b, e))
  <1>1. PICK r, n : r = OpenRowAfter(row, e) /\ n = ApplyInvoice(b, e)
    OBVIOUS
  <1>2. n \in Bill /\ Sound(n) /\ n.created = TRUE
    BY <1>1, BillStep DEF Bill
  <1>3. b.total \in Nat /\ n.total \in Nat /\ n.paid \in Nat
    BY <1>2, DueIs
  <1>4. CASE e.type = "InvoiceIssued"
    <2>1. n.total = e.total /\ Due(n) = e.total
      BY <1>1, <1>4, BillStep
    <2>2. r.listed = TRUE /\ r.total = e.total /\ r.outstanding = e.total
      BY <1>1, <1>4, OpenRows
    <2> QED
      BY <1>1, <1>2, <2>1, <2>2 DEF RowShows
  <1>5. CASE e.type = "PaymentRegistered"
    <2>1. n.total = b.total /\ n.paid = e.new_total_paid /\ b.created /\ n.status # "Void"
      BY <1>1, <1>5, BillStep
    <2>2. row.listed /\ row.total = b.total
      BY <2>1 DEF RowShows
    <2>3. /\ r.listed = TRUE /\ r.total = row.total
          /\ r.outstanding = SaturatingSub(row.total, e.new_total_paid)
      BY <1>1, <1>5, <2>2, OpenRows
    <2>4. Due(n) = n.total - n.paid /\ n.paid <= n.total
      BY <1>2, <2>1, DueIs DEF Sound
    <2>5. SaturatingSub(row.total, e.new_total_paid) = n.total - n.paid
      BY <1>3, <2>1, <2>2, <2>4 DEF SaturatingSub
    <2> QED
      BY <1>1, <1>2, <2>1, <2>2, <2>3, <2>4, <2>5 DEF RowShows
  <1>6. CASE e.type = "InvoiceVoided"
    <2>1. n.total = b.total /\ b.created /\ Due(n) = 0
      BY <1>1, <1>6, BillStep
    <2>2. row.listed /\ row.total = b.total
      BY <2>1 DEF RowShows
    <2>3. r.listed = TRUE /\ r.total = row.total /\ r.outstanding = 0
      BY <1>1, <1>6, <2>2, OpenRows
    <2> QED
      BY <1>1, <1>2, <2>1, <2>2, <2>3 DEF RowShows
  <1> QED
    BY <1>4, <1>5, <1>6, InvoiceEventFields

(* No row is the row of an invoice nobody has issued. *)
LEMMA NoRowShows ==
    ASSUME NEW b \in Bill, Sound(b), ~b.created
    PROVE  RowShows(NoOpenRow, b)
  <1>1. b.created = FALSE
    BY DEF Bill
  <1> QED
    BY <1>1, DueIs DEF RowShows, NoOpenRow

(* A rebuilt row shows the invoice. *)
LEMMA RebuiltRowShows ==
    ASSUME NEW events \in Seq(InvoiceEvent), NEW h, IsHistory(h, events)
    PROVE  RowShows(RebuiltOpenRow(events), h[Len(events)])
  <1> DEFINE l == Len(events)
  <1>1. PICK g : /\ Stages(g, l, OpenRow, NoOpenRow, OpenStep(events))
                 /\ g[l] = RebuiltOpenRow(events)
    BY OpenStages
  <1>2. l \in Nat /\ \A n \in 1 .. l : events[n] \in InvoiceEvent
    OBVIOUS
  <1> DEFINE Good == {n \in 0 .. l : RowShows(g[n], h[n])}
  <1>3. 0 \in Good
    <2>1. g[0] = NoOpenRow /\ 0 \in 0 .. l
      BY <1>1, <1>2 DEF Stages
    <2>2. h[0] \in Bill /\ Sound(h[0]) /\ ~h[0].created
      BY <2>1 DEF IsHistory
    <2>3. RowShows(g[0], h[0])
      BY <2>1, <2>2, NoRowShows
    <2> QED
      BY <2>1, <2>3
  <1>4. ASSUME NEW n \in 1 .. l, n - 1 \in Good PROVE n \in Good
    <2>1. PICK row, e, b : row = g[n - 1] /\ e = events[n] /\ b = h[n - 1]
      OBVIOUS
    <2>2. n - 1 \in 0 .. l /\ n \in 0 .. l /\ e \in InvoiceEvent /\ RowShows(row, b)
      BY <1>2, <1>4, <2>1
    <2> HIDE DEF Good
    <2>3. row \in OpenRow
      BY <1>1, <2>1, <2>2 DEF Stages
    <2>4. g[n] = OpenRowAfter(row, e)
      <3>1. g[n] = OpenStep(events)[<<n, row>>]
        BY <1>1, <2>1 DEF Stages
      <3> QED
        BY <2>1, <2>3, <3>1 DEF OpenStep
    <2>5. b \in Bill /\ Sound(b) /\ Decides(b, e) /\ h[n] = ApplyInvoice(b, e)
      BY <1>4, <2>1, <2>2 DEF IsHistory
    <2>6. RowShows(g[n], h[n])
      BY <2>2, <2>3, <2>4, <2>5, RowAfter
    <2> QED
      BY <2>2, <2>6 DEF Good
  <1>5. 0 .. l \subseteq Good
    <2> HIDE DEF Good
    <2>1. Climbs(Good, l)
      BY <1>3, <1>4 DEF Climbs
    <2> QED
      BY <1>2, <2>1, Climbing
  <1>6. l \in Good
    <2> HIDE DEF Good, l
    <2> QED
      BY <1>2, <1>5
  <1> QED
    BY <1>1, <1>6

-----------------------------------------------------------------------------
(* The receivables: the inductive invariant and its steps. *)

(* The histories end where the invoices are. *)
Remembered(H) ==
    Histories(H, stream) /\ \A i \in Invoices : H[i][Len(stream[i])] = invoices[i]

(* A cursor is a place of the stream, 0 as long as nothing was applied. *)
Cursors ==
    \A r \in Reports, i \in Invoices :
        cursor[r][i] <= Len(stream[i]) /\ (first[r][i] = 0 <=> cursor[r][i] = 0)

(* Applied from the first event on, a row shows the invoice at the cursor. *)
RowsOK(H) ==
    \A i \in Invoices : first["open"][i] <= 1 => RowShows(openRows[i], H[i][cursor["open"][i]])

(* The accounts share customers: they are right once every stream was      *)
(* applied from its first event on.                                        *)
Clean == \A i \in Invoices : first["balances"][i] <= 1

Told(H) == [i \in Invoices |-> H[i][cursor["balances"][i]]]

AccountsOK(H) == Clean => Reflects(customers, Told(H))

ReceivablesInv == Cursors /\ \E H : Remembered(H) /\ RowsOK(H) /\ AccountsOK(H)

(* At the start there is nothing to show. *)
LEMMA InitReceivables == Init => ReceivablesInv
  <1> SUFFICES ASSUME Init PROVE ReceivablesInv
    OBVIOUS
  <1>0. TypeOK
    BY InitTyped
  <1> DEFINE H == [i \in Invoices |-> [n \in {0} |-> EmptyInvoice]]
  <1>1. \A i \in Invoices : H[i][0] = EmptyInvoice
    OBVIOUS
  <1> HIDE DEF H
  <1>2. /\ \A i \in Invoices : /\ stream[i] = <<>> /\ invoices[i] = EmptyInvoice
                               /\ openRows[i] = NoOpenRow
        /\ \A r \in Reports, i \in Invoices : cursor[r][i] = 0 /\ first[r][i] = 0
        /\ customers = NoBalances
    BY DEF Init, Reports, AllReports
  <1>3. \A i \in Invoices : Len(stream[i]) = 0
    BY <1>2
  <1>4. /\ EmptyInvoice \in Bill /\ ~EmptyInvoice.created /\ EmptyInvoice.status = "Open"
        /\ EmptyInvoice.total = 0 /\ EmptyInvoice.paid = 0
    BY Arithmetic DEF EmptyInvoice, Bill
  <1>5. Sound(EmptyInvoice)
    BY <1>4 DEF Sound
  <1>6. Cursors
    BY <1>2, <1>3 DEF Cursors
  <1>7. Remembered(H)
    <2>1. ASSUME NEW i \in Invoices PROVE IsHistory(H[i], stream[i])
      BY <1>1, <1>3, <1>4, <1>5 DEF IsHistory
    <2> QED
      BY <1>1, <1>2, <1>3, <2>1 DEF Remembered, Histories
  <1>8. RowsOK(H)
    <2>1. RowShows(NoOpenRow, EmptyInvoice)
      BY <1>4, <1>5, NoRowShows
    <2> QED
      BY <1>1, <1>2, <2>1 DEF RowsOK, Reports
  <1>9. AccountsOK(H)
    <2>1. PICK B : B = Told(H)
      OBVIOUS
    <2>2. B = [i \in Invoices |-> EmptyInvoice]
      BY <1>1, <1>2, <2>1 DEF Told, Reports
    <2>3. B \in [Invoices -> Bill] /\ SoundBills(B) /\ \A i \in Invoices : ~B[i].created
      BY <1>4, <1>5, <2>2 DEF SoundBills
    <2> QED
      BY <1>2, <2>1, <2>3, NothingReflected DEF AccountsOK
  <1> QED
    BY <1>6, <1>7, <1>8, <1>9 DEF ReceivablesInv

(* What the histories say of the places the cursors name. *)
LEMMA TheTold ==
    ASSUME TypeOK, Cursors, NEW H, Remembered(H)
    PROVE  /\ Told(H) \in [Invoices -> Bill] /\ SoundBills(Told(H))
           /\ \A r \in Reports, i \in Invoices :
                  /\ cursor[r][i] \in 0 .. Len(stream[i]) /\ stream[i] \in Seq(InvoiceEvent)
                  /\ first[r][i] \in Nat
                  /\ H[i][cursor[r][i]] \in Bill /\ Sound(H[i][cursor[r][i]])
           /\ \A i \in Invoices : Sound(invoices[i])
  <1>1. ASSUME NEW r \in Reports, NEW i \in Invoices
        PROVE  /\ cursor[r][i] \in 0 .. Len(stream[i]) /\ stream[i] \in Seq(InvoiceEvent)
               /\ first[r][i] \in Nat
               /\ H[i][cursor[r][i]] \in Bill /\ Sound(H[i][cursor[r][i]])
    <2>1. cursor[r][i] \in Nat /\ stream[i] \in Seq(InvoiceEvent) /\ first[r][i] \in Nat
      BY DEF TypeOK, AllReports
    <2>2. cursor[r][i] \in 0 .. Len(stream[i])
      BY <2>1 DEF Cursors
    <2>3. IsHistory(H[i], stream[i])
      BY DEF Remembered, Histories
    <2> QED
      BY <2>1, <2>2, <2>3 DEF IsHistory
  <1>2. ASSUME NEW i \in Invoices PROVE Sound(invoices[i])
    <2>1. Len(stream[i]) \in 0 .. Len(stream[i])
      BY DEF TypeOK
    <2> QED
      BY <2>1 DEF Remembered, Histories, IsHistory
  <1>3. "balances" \in Reports
    BY DEF Reports
  <1> QED
    BY <1>1, <1>2, <1>3 DEF Told, SoundBills

(* The aggregates decide: a history grows at its end. *)
LEMMA StoreKeeps ==
    ASSUME TypeOK, ReceivablesInv, NEW i \in Invoices, NEW e \in InvoiceEvent, StoreInvoice(i, e),
           Sound(invoices[i]) => Decides(invoices[i], e)
    PROVE  ReceivablesInv'
  <1>1. PICK H : Remembered(H) /\ RowsOK(H) /\ AccountsOK(H)
    BY DEF ReceivablesInv
  <1>2. Cursors /\ AggregatesOK /\ i \notin Keys /\ Store(i, e)
    BY TypeParts, ReportsAssumption DEF ReceivablesInv, StoreInvoice
  <1>3. /\ stream'[i] = Append(stream[i], e)
        /\ \A j \in Invoices : j # i => stream'[j] = stream[j]
    BY <1>2, StreamGrows
  <1>4. stream[i] \in Seq(InvoiceEvent) /\ Len(stream[i]) \in Nat /\ Len(stream'[i]) = Len(stream[i]) + 1
    BY <1>2, <1>3 DEF AggregatesOK
  <1>5. /\ invoices'[i] = ApplyInvoice(invoices[i], e)
        /\ \A j \in Invoices : j # i => invoices'[j] = invoices[j]
        /\ cursor' = cursor /\ first' = first /\ openRows' = openRows /\ customers' = customers
    BY <1>2 DEF StoreInvoice, Store, receivables, AggregatesOK
  <1>6. IsHistory(H[i], stream[i]) /\ H[i][Len(stream[i])] = invoices[i] /\ Decides(invoices[i], e)
    BY <1>1, <1>2, TheTold DEF Remembered, Histories
  <1>7. PICK g : /\ IsHistory(g, Append(stream[i], e))
                 /\ g[Len(stream[i]) + 1] = ApplyInvoice(H[i][Len(stream[i])], e)
                 /\ \A n \in 0 .. Len(stream[i]) : g[n] = H[i][n]
    <2>1. PICK events, h : events = stream[i] /\ h = H[i]
      OBVIOUS
    <2>2. events \in Seq(InvoiceEvent) /\ IsHistory(h, events) /\ Decides(h[Len(events)], e)
      BY <1>4, <1>6, <2>1
    <2>3. \E g : /\ IsHistory(g, Append(events, e))
                 /\ g[Len(events) + 1] = ApplyInvoice(h[Len(events)], e)
                 /\ \A n \in 0 .. Len(events) : g[n] = h[n]
      BY <2>2, HistoryGrows
    <2> QED
      BY <2>1, <2>3
  <1>8. PICK G : G = [j \in Invoices |-> IF j = i THEN g ELSE H[j]]
    OBVIOUS
  <1>9. G[i] = g /\ \A j \in Invoices : j # i => G[j] = H[j]
    BY <1>8
  <1>10. ASSUME NEW r \in Reports, NEW j \in Invoices PROVE G[j][cursor[r][j]] = H[j][cursor[r][j]]
    <2>1. cursor[r][j] \in 0 .. Len(stream[j])
      BY <1>1, <1>2, TheTold
    <2> QED
      BY <1>7, <1>9, <2>1
  <1>11. Remembered(G)'
    <2>1. ASSUME NEW j \in Invoices
          PROVE  IsHistory(G[j], stream'[j]) /\ G[j][Len(stream'[j])] = invoices'[j]
      <3>1. CASE j = i
        BY <1>3, <1>4, <1>5, <1>6, <1>7, <1>9, <3>1
      <3>2. CASE j # i
        BY <1>1, <1>3, <1>5, <1>9, <3>2 DEF Remembered, Histories
      <3> QED
        BY <3>1, <3>2
    <2> QED
      BY <2>1 DEF Remembered, Histories
  <1>12. Cursors'
    <2>1. ASSUME NEW r \in Reports, NEW j \in Invoices
          PROVE  cursor[r][j] <= Len(stream'[j]) /\ (first[r][j] = 0 <=> cursor[r][j] = 0)
      <3>1. cursor[r][j] \in 0 .. Len(stream[j]) /\ stream[j] \in Seq(InvoiceEvent)
        BY <1>1, <1>2, TheTold
      <3>2. Len(stream[j]) <= Len(stream'[j]) /\ Len(stream'[j]) \in Nat
        BY <1>3, <1>4, <3>1
      <3> QED
        BY <1>2, <3>1, <3>2 DEF Cursors
    <2> QED
      BY <1>5, <2>1 DEF Cursors
  <1>13. RowsOK(G)'
    BY <1>1, <1>5, <1>10 DEF RowsOK, Reports
  <1>14. AccountsOK(G)'
    <2>1. Told(G)' = Told(H)
      BY <1>5, <1>10 DEF Told, Reports
    <2>2. Clean' <=> Clean
      BY <1>5 DEF Clean
    <2> QED
      BY <1>1, <1>5, <2>1, <2>2 DEF AccountsOK
  <1> QED
    BY <1>11, <1>12, <1>13, <1>14 DEF ReceivablesInv

(* What the aggregates and the receivables do not notice. *)
LEMMA OthersKeep ==
    ASSUME ReceivablesInv, UNCHANGED <<invoices, receivables>>,
           \A i \in Invoices : stream'[i] = stream[i],
           \A r \in Reports, i \in Invoices : first'[r][i] = first[r][i]
    PROVE  ReceivablesInv'
  <1>1. PICK H : Remembered(H) /\ RowsOK(H) /\ AccountsOK(H)
    BY DEF ReceivablesInv
  <1>2. invoices' = invoices /\ openRows' = openRows /\ customers' = customers /\ cursor' = cursor
    BY DEF receivables
  <1>3. Cursors'
    BY <1>2 DEF ReceivablesInv, Cursors
  <1>4. Remembered(H)'
    BY <1>1, <1>2 DEF Remembered, Histories
  <1>5. RowsOK(H)'
    BY <1>1, <1>2 DEF RowsOK, Reports
  <1>6. AccountsOK(H)'
    <2>1. Clean' <=> Clean
      BY DEF Clean, Reports
    <2>2. Told(H)' = Told(H)
      BY <1>2 DEF Told
    <2> QED
      BY <1>1, <1>2, <2>1, <2>2 DEF AccountsOK
  <1> QED
    BY <1>3, <1>4, <1>5, <1>6 DEF ReceivablesInv

(* A report takes an event. *)
LEMMA HandCursors ==
    ASSUME TypeOK, ReceivablesInv, NEW r \in Reports, NEW i \in Invoices, NEW n \in 1 .. Len(stream[i]),
           Hand(r, i, n)
    PROVE  /\ stream' = stream /\ invoices' = invoices
           /\ cursor'[r][i] = n
           /\ \A q \in Reports, j \in Invoices : q # r \/ j # i =>
                  cursor'[q][j] = cursor[q][j] /\ first'[q][j] = first[q][j]
           /\ Cursors'
           /\ first'[r][i] <= 1 => first[r][i] <= 1 /\ n - 1 = cursor[r][i]
  <1>1. ReceivablesOK /\ FirstOK /\ Cursors
    BY TypeParts DEF ReceivablesInv
  <1>2. stream' = stream /\ invoices' = invoices
    BY DEF Hand, aggregates
  <1>3. /\ cursor'[r][i] = n
        /\ \A q \in Reports, j \in Invoices : q # r \/ j # i => cursor'[q][j] = cursor[q][j]
    BY <1>1 DEF Hand, ReceivablesOK
  <1>4. /\ first'[r][i] = IF first[r][i] = 0 THEN n ELSE first[r][i]
        /\ \A q \in Reports, j \in Invoices : q # r \/ j # i => first'[q][j] = first[q][j]
    BY <1>1 DEF Hand, Accepted, FirstOK, AllReports
  <1>5. /\ cursor[r][i] \in Nat /\ first[r][i] \in Nat /\ n \in Nat /\ n <= Len(stream[i])
        /\ CursorVerdict(cursor[r][i], n) = "Next" /\ (first[r][i] = 0 <=> cursor[r][i] = 0)
    BY <1>1 DEF ReceivablesOK, FirstOK, AllReports, Hand, Cursors
  <1>6. n >= 1 /\ (cursor[r][i] # 0 => n = cursor[r][i] + 1)
    BY <1>5, NextNumber
  <1>7. Cursors'
    <2>1. ASSUME NEW q \in Reports, NEW j \in Invoices
          PROVE  cursor'[q][j] <= Len(stream[j]) /\ (first'[q][j] = 0 <=> cursor'[q][j] = 0)
      <3>1. CASE q = r /\ j = i
        BY <1>3, <1>4, <1>5, <1>6, <3>1
      <3>2. CASE q # r \/ j # i
        BY <1>1, <1>3, <1>4, <3>2 DEF Cursors
      <3> QED
        BY <3>1, <3>2
    <2> QED
      BY <1>2, <2>1 DEF Cursors
  <1>8. ASSUME first'[r][i] <= 1 PROVE first[r][i] <= 1 /\ n - 1 = cursor[r][i]
    BY <1>4, <1>5, <1>6, <1>8
  <1> QED
    BY <1>2, <1>3, <1>4, <1>7, <1>8

(* The list of open invoices takes an event. *)
LEMMA OpenKeeps ==
    ASSUME TypeOK, ReceivablesInv, NEW i \in Invoices, NEW n \in 1 .. Len(stream[i]), ApplyOpen(i, n)
    PROVE  ReceivablesInv'
  <1>1. PICK H : Remembered(H) /\ RowsOK(H) /\ AccountsOK(H)
    BY DEF ReceivablesInv
  <1>2. "open" \in Reports /\ "balances" \in Reports /\ Hand("open", i, n) /\ Cursors /\ ReceivablesOK
    BY TypeParts DEF Reports, ApplyOpen, ReceivablesInv
  <1>3. /\ stream' = stream /\ invoices' = invoices /\ cursor'["open"][i] = n /\ Cursors'
        /\ \A q \in Reports, j \in Invoices : q # "open" \/ j # i =>
               cursor'[q][j] = cursor[q][j] /\ first'[q][j] = first[q][j]
        /\ first'["open"][i] <= 1 => first["open"][i] <= 1 /\ n - 1 = cursor["open"][i]
    BY <1>2, HandCursors
  <1>4. /\ openRows'[i] = OpenRowAfter(openRows[i], stream[i][n]) /\ customers' = customers
        /\ \A j \in Invoices : j # i => openRows'[j] = openRows[j]
    BY <1>2 DEF ApplyOpen, ReceivablesOK
  <1>5. Remembered(H)'
    BY <1>1, <1>3 DEF Remembered
  <1>6. AccountsOK(H)'
    <2>1. Clean' <=> Clean
      BY <1>2, <1>3 DEF Clean
    <2>2. Told(H)' = Told(H)
      BY <1>2, <1>3 DEF Told
    <2> QED
      BY <1>1, <1>4, <2>1, <2>2 DEF AccountsOK
  <1>7. RowsOK(H)'
    <2>1. ASSUME NEW j \in Invoices, first'["open"][j] <= 1
          PROVE  RowShows(openRows'[j], H[j][cursor'["open"][j]])
      <3>1. CASE j # i
        BY <1>1, <1>2, <1>3, <1>4, <2>1, <3>1 DEF RowsOK
      <3>2. CASE j = i
        <4>1. PICK row, b, e : /\ row = openRows[i] /\ b = H[i][cursor["open"][i]] /\ e = stream[i][n]
          OBVIOUS
        <4>2. first["open"][i] <= 1 /\ n - 1 = cursor["open"][i]
          BY <1>3, <2>1, <3>2
        <4>3. RowShows(row, b)
          BY <1>1, <4>1, <4>2 DEF RowsOK
        <4>4. b \in Bill /\ Sound(b) /\ stream[i] \in Seq(InvoiceEvent)
          BY <1>1, <1>2, <4>1, TheTold
        <4>5. row \in OpenRow /\ e \in InvoiceEvent
          BY <1>2, <4>1, <4>4 DEF ReceivablesOK
        <4>6. IsHistory(H[i], stream[i])
          BY <1>1 DEF Remembered, Histories
        <4>7. Decides(b, e) /\ H[i][n] = ApplyInvoice(b, e)
          BY <4>1, <4>2, <4>6 DEF IsHistory
        <4>8. RowShows(OpenRowAfter(row, e), ApplyInvoice(b, e))
          BY <4>3, <4>4, <4>5, <4>7, RowAfter
        <4> QED
          BY <1>3, <1>4, <3>2, <4>1, <4>7, <4>8
      <3> QED
        BY <3>1, <3>2
    <2> QED
      BY <2>1 DEF RowsOK
  <1> QED
    BY <1>3, <1>5, <1>6, <1>7 DEF ReceivablesInv

(* The accounts take an event. *)
LEMMA BalancesKeep ==
    ASSUME TypeOK, ReceivablesInv, NEW i \in Invoices, NEW n \in 1 .. Len(stream[i]), ApplyBalances(i, n)
    PROVE  ReceivablesInv'
  <1>1. PICK H : Remembered(H) /\ RowsOK(H) /\ AccountsOK(H)
    BY DEF ReceivablesInv
  <1>2. /\ "open" \in Reports /\ "balances" \in Reports /\ Hand("balances", i, n) /\ Cursors
        /\ ReceivablesOK
    BY TypeParts DEF Reports, ApplyBalances, ReceivablesInv
  <1>3. /\ stream' = stream /\ invoices' = invoices /\ cursor'["balances"][i] = n /\ Cursors'
        /\ \A q \in Reports, j \in Invoices : q # "balances" \/ j # i =>
               cursor'[q][j] = cursor[q][j] /\ first'[q][j] = first[q][j]
        /\ first'["balances"][i] <= 1 => first["balances"][i] <= 1 /\ n - 1 = cursor["balances"][i]
    BY <1>2, HandCursors
  <1>4. customers' = BalancesAfterEvent(customers, i, stream[i][n]) /\ openRows' = openRows
    BY DEF ApplyBalances
  <1>5. Remembered(H)'
    BY <1>1, <1>3 DEF Remembered
  <1>6. RowsOK(H)'
    BY <1>1, <1>2, <1>3, <1>4 DEF RowsOK
  <1>7. AccountsOK(H)'
    <2> SUFFICES ASSUME Clean' PROVE Reflects(customers', Told(H)')
      BY DEF AccountsOK
    <2>1. Clean /\ n - 1 = cursor["balances"][i]
      BY <1>2, <1>3 DEF Clean
    <2>2. PICK st, B, e, N : st = customers /\ B = Told(H) /\ e = stream[i][n] /\ N = Told(H)'
      OBVIOUS
    <2>3. Reflects(st, B)
      BY <1>1, <2>1, <2>2 DEF AccountsOK
    <2>4. /\ B \in [Invoices -> Bill] /\ SoundBills(B) /\ stream[i] \in Seq(InvoiceEvent)
      BY <1>1, <1>2, <2>2, TheTold
    <2>5. st \in Balances /\ e \in InvoiceEvent
      BY <1>2, <2>2, <2>4 DEF ReceivablesOK
    <2>6. IsHistory(H[i], stream[i])
      BY <1>1 DEF Remembered, Histories
    <2>7. B[i] = H[i][n - 1]
      BY <2>1, <2>2 DEF Told
    <2>8. Decides(B[i], e) /\ H[i][n] = ApplyInvoice(B[i], e)
      BY <2>2, <2>6, <2>7 DEF IsHistory
    <2>9. Reflects(BalancesAfterEvent(st, i, e), [B EXCEPT ![i] = ApplyInvoice(B[i], e)])
      BY <2>3, <2>4, <2>5, <2>8, OneEvent
    <2>10. N = [j \in Invoices |-> H[j][cursor'["balances"][j]]]
      BY <2>2 DEF Told
    <2>11. B = [j \in Invoices |-> H[j][cursor["balances"][j]]]
      BY <2>2 DEF Told
    <2>12. \A j \in Invoices : N[j] = IF j = i THEN H[i][n] ELSE B[j]
      BY <1>2, <1>3, <2>10, <2>11
    <2>13. PICK v : v = ApplyInvoice(B[i], e)
      OBVIOUS
    <2>14. N = [B EXCEPT ![i] = v]
      BY <2>4, <2>8, <2>10, <2>12, <2>13
    <2> QED
      BY <1>4, <2>2, <2>9, <2>13, <2>14
  <1> QED
    BY <1>3, <1>5, <1>6, <1>7 DEF ReceivablesInv

(* A customer is registered, before the invoice is handed over. *)
LEMMA RegisterKeeps ==
    ASSUME TypeOK, ReceivablesInv, NEW i \in Invoices, NEW c \in Parties, RegisterInvoiceCustomer(i, c)
    PROVE  ReceivablesInv'
  <1>1. PICK H : Remembered(H) /\ RowsOK(H) /\ AccountsOK(H)
    BY DEF ReceivablesInv
  <1>2. /\ stream' = stream /\ invoices' = invoices /\ openRows' = openRows /\ cursor' = cursor
        /\ first' = first /\ customers' = Registered(customers, i, c) /\ cursor["balances"][i] = 0
    BY DEF RegisterInvoiceCustomer, aggregates
  <1>3. Cursors /\ "balances" \in Reports
    BY DEF ReceivablesInv, Reports
  <1>4. Cursors' /\ Remembered(H)' /\ RowsOK(H)'
    BY <1>1, <1>2, <1>3 DEF Cursors, Remembered, RowsOK
  <1>5. AccountsOK(H)'
    <2>1. (Clean' <=> Clean) /\ Told(H)' = Told(H)
      BY <1>2 DEF Clean, Told
    <2>2. PICK st, B : st = customers /\ B = Told(H)
      OBVIOUS
    <2>3. B \in [Invoices -> Bill] /\ SoundBills(B) /\ st \in Balances
      BY <1>1, <1>3, <2>2, TheTold DEF TypeOK
    <2>4. ~B[i].created
      BY <1>1, <1>2, <2>2 DEF Told, Remembered, Histories, IsHistory
    <2>5. Reflects(st, B) => Reflects(Registered(st, i, c), B)
      BY <2>3, <2>4, RegisteredReflects DEF Customers
    <2> QED
      BY <1>1, <1>2, <2>1, <2>2, <2>5 DEF AccountsOK
  <1> QED
    BY <1>4, <1>5 DEF ReceivablesInv

(* A rebuilt report has applied everything. *)
LEMMA RestartCursors ==
    ASSUME TypeOK, ReceivablesInv, NEW r \in Reports, Restarted(r)
    PROVE  /\ stream' = stream /\ invoices' = invoices
           /\ \A i \in Invoices : cursor'[r][i] = Len(stream[i])
           /\ \A q \in Reports, i \in Invoices : q # r =>
                  cursor'[q][i] = cursor[q][i] /\ first'[q][i] = first[q][i]
           /\ Cursors'
  <1>1. ReceivablesOK /\ FirstOK /\ Cursors /\ AggregatesOK
    BY TypeParts DEF ReceivablesInv
  <1>2. stream' = stream /\ invoices' = invoices
    BY DEF Restarted, aggregates
  <1>3. /\ \A i \in Invoices : cursor'[r][i] = Len(stream[i])
        /\ \A q \in Reports, i \in Invoices : q # r => cursor'[q][i] = cursor[q][i]
    BY <1>1 DEF Restarted, ReceivablesOK
  <1>4. /\ \A i \in Invoices : first'[r][i] = IF stream[i] # <<>> THEN 1 ELSE 0
        /\ \A q \in Reports, i \in Invoices : q # r => first'[q][i] = first[q][i]
    BY <1>1 DEF Restarted, FirstOK, AllReports
  <1>5. \A i \in Invoices : Len(stream[i]) \in Nat /\ (Len(stream[i]) = 0 <=> stream[i] = <<>>)
    BY <1>1 DEF AggregatesOK
  <1>6. Cursors'
    <2>1. ASSUME NEW q \in Reports, NEW j \in Invoices
          PROVE  cursor'[q][j] <= Len(stream[j]) /\ (first'[q][j] = 0 <=> cursor'[q][j] = 0)
      <3>1. CASE q = r
        BY <1>3, <1>4, <1>5, <3>1
      <3>2. CASE q # r
        BY <1>1, <1>3, <1>4, <3>2 DEF Cursors
      <3> QED
        BY <3>1, <3>2
    <2> QED
      BY <1>2, <2>1 DEF Cursors
  <1> QED
    BY <1>2, <1>3, <1>4, <1>6

(* A rebuild has everything, whatever was there before. *)
LEMMA RebuiltKeep ==
    ASSUME TypeOK, ReceivablesInv, RebuildOpen \/ RebuildBalances
    PROVE  ReceivablesInv'
  <1>1. PICK H : Remembered(H) /\ RowsOK(H) /\ AccountsOK(H)
    BY DEF ReceivablesInv
  <1>2. /\ "open" \in Reports /\ "balances" \in Reports
        /\ \A j \in Invoices : stream[j] \in Seq(InvoiceEvent) /\ IsHistory(H[j], stream[j])
    BY <1>1 DEF Reports, TypeOK, Remembered, Histories
  <1>3. CASE RebuildOpen
    <2>1. /\ stream' = stream /\ invoices' = invoices /\ Cursors'
          /\ \A j \in Invoices : cursor'["open"][j] = Len(stream[j])
          /\ \A j \in Invoices : /\ cursor'["balances"][j] = cursor["balances"][j]
                                 /\ first'["balances"][j] = first["balances"][j]
      BY <1>2, <1>3, RestartCursors DEF RebuildOpen
    <2>2. Remembered(H)'
      BY <1>1, <2>1 DEF Remembered
    <2>3. RowsOK(H)'
      <3>1. ASSUME NEW j \in Invoices PROVE RowShows(openRows'[j], H[j][Len(stream[j])])
        <4>1. openRows'[j] = RebuiltOpenRow(stream[j])
          BY <1>3 DEF RebuildOpen
        <4>2. PICK events, h : events = stream[j] /\ h = H[j]
          OBVIOUS
        <4>3. RowShows(RebuiltOpenRow(events), h[Len(events)])
          BY <1>2, <4>2, RebuiltRowShows
        <4> QED
          BY <4>1, <4>2, <4>3
      <3> QED
        BY <2>1, <3>1 DEF RowsOK
    <2>4. AccountsOK(H)'
      <3>1. (Clean' <=> Clean) /\ Told(H)' = Told(H) /\ customers' = customers
        BY <1>3, <2>1 DEF Clean, Told, RebuildOpen
      <3> QED
        BY <1>1, <3>1 DEF AccountsOK
    <2> QED
      BY <2>1, <2>2, <2>3, <2>4 DEF ReceivablesInv
  <1>4. CASE RebuildBalances
    <2>1. /\ stream' = stream /\ invoices' = invoices /\ Cursors'
          /\ \A j \in Invoices : cursor'["balances"][j] = Len(stream[j])
          /\ \A j \in Invoices : /\ cursor'["open"][j] = cursor["open"][j]
                                 /\ first'["open"][j] = first["open"][j]
      BY <1>2, <1>4, RestartCursors DEF RebuildBalances
    <2>2. Remembered(H)'
      BY <1>1, <2>1 DEF Remembered
    <2>3. RowsOK(H)'
      BY <1>1, <1>4, <2>1 DEF RowsOK, RebuildBalances
    <2>4. AccountsOK(H)'
      <3>1. Told(H)' = [j \in Invoices |-> H[j][Len(stream[j])]]
        BY <2>1 DEF Told
      <3>2. Streams(stream) /\ Histories(H, stream)
        BY <1>1, <1>2 DEF Streams, Remembered
      <3>3. customers' = RebuiltBalances(stream, NoBalances, Invoices)
        BY <1>4 DEF RebuildBalances
      <3>4. PICK streams, B, st : /\ streams = stream /\ st = RebuiltBalances(stream, NoBalances, Invoices)
                                  /\ B = [j \in Invoices |-> H[j][Len(stream[j])]]
        OBVIOUS
      <3>5. Reflects(st, B)
        BY <3>2, <3>4, RebuildReflects
      <3> QED
        BY <3>1, <3>3, <3>4, <3>5 DEF AccountsOK
    <2> QED
      BY <2>1, <2>2, <2>3, <2>4 DEF ReceivablesInv
  <1> QED
    BY <1>3, <1>4

(* What handle() lets through is what Decides says. *)
LEMMA InvoiceDecides ==
    ASSUME TypeOK, NEW i \in Invoices, NEW b, b = invoices[i], Sound(b)
    PROVE  /\ \A o \in Orders, lines \in InvoiceLines : CanIssue(b, lines) =>
                  Decides(b, [type |-> "InvoiceIssued", sales_order_id |-> o, total |-> Total(lines)])
           /\ \A amount \in Amounts : CanPay(b, amount) =>
                  Decides(b, [type |-> "PaymentRegistered", amount |-> amount,
                              new_total_paid |-> b.paid + amount])
           /\ CanVoid(b) => Decides(b, [type |-> "InvoiceVoided"])
  <1>0. b \in Bill
    BY DEF TypeOK
  <1>1. ASSUME NEW o \in Orders, NEW lines \in InvoiceLines, CanIssue(b, lines)
        PROVE  Decides(b, [type |-> "InvoiceIssued", sales_order_id |-> o, total |-> Total(lines)])
    <2>1. PICK e : e = [type |-> "InvoiceIssued", sales_order_id |-> o, total |-> Total(lines)]
      OBVIOUS
    <2>2. e.type = "InvoiceIssued" /\ ~b.created
      BY <1>1, <2>1 DEF CanIssue
    <2>3. Decides(b, e)
      BY <2>2 DEF Decides
    <2> QED
      BY <2>1, <2>3
  <1>2. ASSUME NEW amount \in Amounts, CanPay(b, amount)
        PROVE  Decides(b, [type |-> "PaymentRegistered", amount |-> amount,
                           new_total_paid |-> b.paid + amount])
    <2>1. PICK e : e = [type |-> "PaymentRegistered", amount |-> amount,
                        new_total_paid |-> b.paid + amount]
      OBVIOUS
    <2>2. e.type = "PaymentRegistered" /\ e.amount = amount /\ e.new_total_paid = b.paid + amount
      BY <2>1
    <2>3. /\ b.created /\ amount > 0 /\ b.paid + amount <= b.total
          /\ b.status # "Void" /\ Outstanding(b) > 0
      BY <1>2 DEF CanPay, CanAcceptPayment
    <2>4. b.total \in Nat /\ b.paid \in Nat /\ b.status \in {"Open", "Paid", "Void"}
      BY <1>0, DueIs DEF Bill
    <2>5. b.status = "Open"
      BY <2>3, <2>4 DEF Sound, Outstanding
    <2>6. Decides(b, e)
      BY <2>2, <2>3, <2>5 DEF Decides
    <2> QED
      BY <2>1, <2>6
  <1>3. ASSUME CanVoid(b) PROVE Decides(b, [type |-> "InvoiceVoided"])
    <2>1. PICK e : e = [type |-> "InvoiceVoided"]
      OBVIOUS
    <2>2. e.type = "InvoiceVoided" /\ b.created /\ b.status # "Void"
      BY <1>3, <2>1 DEF CanVoid
    <2>3. Decides(b, e)
      BY <2>2 DEF Decides
    <2> QED
      BY <2>1, <2>3
  <1> QED
    BY <1>1, <1>2, <1>3

(* The receivables: every step. *)
LEMMA NextReceivables == TypeOK /\ ReceivablesInv /\ [Next]_vars => ReceivablesInv'
  <1> SUFFICES ASSUME TypeOK, ReceivablesInv, [Next]_vars PROVE ReceivablesInv'
    OBVIOUS
  <1>0. AggregatesOK /\ FirstOK /\ Invoices \cap Keys = {}
    BY TypeParts, ReportsAssumption
  <1>1. ASSUME NEW i \in Invoices, NEW o \in Orders, NEW lines \in InvoiceLines, Issue(i, o, lines)
        PROVE  ReceivablesInv'
    <2>1. PICK e : e = [type |-> "InvoiceIssued", sales_order_id |-> o, total |-> Total(lines)]
      OBVIOUS
    <2>2. StoreInvoice(i, e) /\ e \in InvoiceEvent /\ CanIssue(invoices[i], lines)
      BY <1>1, <2>1, IssueDecides DEF Issue
    <2>3. Sound(invoices[i]) => Decides(invoices[i], e)
      BY <2>1, <2>2, InvoiceDecides
    <2> QED
      BY <2>2, <2>3, StoreKeeps
  <1>2. ASSUME NEW i \in Invoices, NEW amount \in Amounts, Pay(i, amount) PROVE ReceivablesInv'
    <2>1. PICK e : e = [type |-> "PaymentRegistered", amount |-> amount,
                        new_total_paid |-> invoices[i].paid + amount]
      OBVIOUS
    <2>2. StoreInvoice(i, e) /\ e \in InvoiceEvent /\ CanPay(invoices[i], amount)
      BY <1>2, <2>1, PayDecides DEF Pay
    <2>3. Sound(invoices[i]) => Decides(invoices[i], e)
      BY <2>1, <2>2, InvoiceDecides
    <2> QED
      BY <2>2, <2>3, StoreKeeps
  <1>3. ASSUME NEW i \in Invoices, Void(i) PROVE ReceivablesInv'
    <2>1. PICK e : e = [type |-> "InvoiceVoided"]
      OBVIOUS
    <2>2. StoreInvoice(i, e) /\ e \in InvoiceEvent /\ CanVoid(invoices[i])
      BY <1>3, <2>1, VoidDecides DEF Void
    <2>3. Sound(invoices[i]) => Decides(invoices[i], e)
      BY <2>1, <2>2, InvoiceDecides
    <2> QED
      BY <2>2, <2>3, StoreKeeps
  <1>4. ASSUME NEW k \in Keys, NEW cmd \in CommandsFor(k), HandleItem(cmd) PROVE ReceivablesInv'
    <2>1. cmd.key = k /\ k \notin Invoices
      BY <1>0, <1>4, ItemDecides
    <2>2. \A j \in Invoices : stream'[j] = stream[j]
      BY <1>0, <1>4, <2>1 DEF HandleItem, Store, AggregatesOK
    <2> QED
      BY <1>4, <2>2, OthersKeep DEF HandleItem, Store
  <1>5. ASSUME NEW i \in Invoices, NEW n \in 1 .. Len(stream[i]), ApplyOpen(i, n) \/ ApplyBalances(i, n)
        PROVE  ReceivablesInv'
    BY <1>5, OpenKeeps, BalancesKeep
  <1>6. ASSUME NEW i \in Invoices, NEW c \in Parties, RegisterInvoiceCustomer(i, c)
        PROVE  ReceivablesInv'
    BY <1>6, RegisterKeeps
  <1>7. ASSUME RebuildOpen \/ RebuildBalances PROVE ReceivablesInv'
    BY <1>7, RebuiltKeep
  <1>8. ASSUME NEW k \in Keys, NEW n, ReadForEvent(k, n) PROVE ReceivablesInv'
    BY <1>8, OthersKeep DEF ReadForEvent, aggregates
  <1>9. ASSUME NEW k \in Keys, WriteForEvent(k) PROVE ReceivablesInv'
    <2>1. \A r \in Reports : first'[r] = first[r]
      BY <1>0, <1>9 DEF WriteForEvent, Accepted, FirstOK, Reports, AllReports
    <2> QED
      BY <1>9, <2>1, OthersKeep DEF WriteForEvent, aggregates
  <1>10. ASSUME NEW k \in Keys, WriteCost(k) PROVE ReceivablesInv'
    BY <1>10, OthersKeep DEF WriteCost, aggregates
  <1>11. ASSUME NEW k \in Keys, NEW cost, ReadForCost(k, cost) PROVE ReceivablesInv'
    BY <1>11, OthersKeep DEF ReadForCost, aggregates
  <1>12. ASSUME RebuildValuation PROVE ReceivablesInv'
    <2>1. \A r \in Reports : first'[r] = first[r]
      BY <1>0, <1>12 DEF RebuildValuation, FirstOK, Reports, AllReports
    <2> QED
      BY <1>12, <2>1, OthersKeep DEF RebuildValuation, aggregates
  <1>13. ASSUME UNCHANGED vars PROVE ReceivablesInv'
    BY <1>13, OthersKeep DEF vars, aggregates
  <1> QED
    BY <1>1, <1>2, <1>3, <1>4, <1>5, <1>6, <1>7, <1>8, <1>9, <1>10, <1>11, <1>12, <1>13 DEF Next

(* The invariant of the receivables always holds. *)
LEMMA ReceivablesHold == Spec => [](TypeOK /\ ReceivablesInv)
  <1>1. Init => ReceivablesInv
    BY InitReceivables
  <1>2. TypeOK /\ ReceivablesInv /\ [Next]_vars => ReceivablesInv'
    BY NextReceivables
  <1> QED
    BY <1>1, <1>2, ReportTypes, PTL DEF Spec

(* Caught up, the accounts were told what the invoices are. *)
LEMMA AllTold ==
    ASSUME TypeOK, ReceivablesInv, CaughtUp("balances")
    PROVE  /\ Reflects(customers, invoices) /\ SoundBills(invoices)
           /\ \A i \in Invoices : invoices[i].created <=> stream[i] # <<>>
  <1>1. PICK H : Remembered(H) /\ RowsOK(H) /\ AccountsOK(H)
    BY DEF ReceivablesInv
  <1>2. /\ Cursors /\ "balances" \in Reports
        /\ \A i \in Invoices : IsHistory(H[i], stream[i]) /\ H[i][Len(stream[i])] = invoices[i]
    BY <1>1 DEF ReceivablesInv, Reports, Remembered, Histories
  <1>3. \A i \in Invoices : /\ stream[i] \in Seq(InvoiceEvent)
                            /\ cursor["balances"][i] = Len(stream[i])
                            /\ stream[i] # <<>> => first["balances"][i] = 1
    BY DEF TypeOK, CaughtUp, Numbered
  <1>4. Clean
    <2>1. ASSUME NEW i \in Invoices PROVE first["balances"][i] <= 1
      <3>1. stream[i] = <<>> => cursor["balances"][i] = 0
        BY <1>3
      <3> QED
        BY <1>2, <1>3, <3>1 DEF Cursors
    <2> QED
      BY <2>1 DEF Clean
  <1>5. Told(H) = invoices
    BY <1>2, <1>3 DEF Told, TypeOK
  <1>6. Reflects(customers, invoices) /\ SoundBills(invoices)
    BY <1>1, <1>2, <1>4, <1>5, TheTold DEF AccountsOK
  <1>7. ASSUME NEW i \in Invoices PROVE invoices[i].created <=> stream[i] # <<>>
    <2>1. PICK events, h : events = stream[i] /\ h = H[i]
      OBVIOUS
    <2>2. /\ events \in Seq(InvoiceEvent) /\ IsHistory(h, events)
          /\ Len(events) \in 0 .. Len(events) /\ (Len(events) > 0 <=> events # <<>>)
      BY <1>2, <1>3, <2>1
    <2>3. h[Len(events)].created <=> Len(events) > 0
      BY <2>2, HistoryCreates
    <2> QED
      BY <1>2, <2>1, <2>2, <2>3
  <1> QED
    BY <1>6, <1>7

(* The invariant gives the count. *)
LEMMA CountsExact == TypeOK /\ ReceivablesInv => OpenCountExact
  <1> SUFFICES ASSUME TypeOK, ReceivablesInv, CaughtUp("balances"), NEW c \in Customers,
                      NEW mine, mine = {i \in Invoices : stream[i] # <<>> /\ customers.mapping[i].customer = c},
                      \A i \in mine : ~PaidThenVoided(i)
               PROVE  customers.accounts[c].open = Cardinality({i \in mine : invoices[i].status = "Open"})
    BY DEF OpenCountExact
  <1>1. /\ Reflects(customers, invoices)
        /\ \A i \in Invoices : invoices[i].created <=> stream[i] # <<>>
    BY AllTold
  <1>2. mine = OwnedBy(customers, invoices, c)
    BY <1>1 DEF OwnedBy
  <1>3. {i \in mine : invoices[i].status = "Open"} = OpenOf(customers, invoices, c)
    BY <1>2 DEF OpenOf
  <1>4. \A i \in OwnedBy(customers, invoices, c) : ~Withdrawn(invoices[i])
    BY <1>2 DEF PaidThenVoided, Withdrawn
  <1>5. customers.accounts[c].open = Cardinality(OpenOf(customers, invoices, c))
    BY <1>1, <1>4 DEF Reflects, CountsRight
  <1> QED
    BY <1>3, <1>5

(***************************************************************************)
(* CustomerBalancesProjection: an account that was handed every event      *)
(* counts the open invoices of its customer, unless one of them was voided *)
(* after it had been paid in full, however the events of several invoices  *)
(* were mixed and however often the report was rebuilt.                    *)
(***************************************************************************)
THEOREM CountsAreExact == Spec => []OpenCountExact
  BY ReceivablesHold, CountsExact, PTL

(* The invariant gives the agreement: both reports were told what the      *)
(* invoices are.                                                           *)
LEMMA ReportsAgree == TypeOK /\ ReceivablesInv => ReceivablesAgree
  <1> SUFFICES ASSUME TypeOK, ReceivablesInv, CaughtUp("open"), CaughtUp("balances"), Fits
               PROVE  /\ TotalOutstanding(openRows) = SumOf([i \in Invoices |-> Owed(i)], Invoices)
                      /\ SumOf([c \in Customers |-> customers.accounts[c].outstanding], Customers)
                           = SumOf([i \in Invoices |-> Owed(i)], Invoices)
                      /\ ListWithOutstanding(customers)
                           = {customers.mapping[i].customer : i \in {j \in Invoices : Owed(j) > 0}}
    BY DEF ReceivablesAgree
  <1>1. Reflects(customers, invoices) /\ SoundBills(invoices)
    BY AllTold
  <1>2. \A i \in Invoices : Owed(i) = Due(invoices[i])
    BY DEF Owed, Due
  <1>3. PICK owed : owed = [i \in Invoices |-> Owed(i)]
    OBVIOUS
  <1>4. owed = Dues(invoices)
    BY <1>2, <1>3 DEF Dues
  <1>5. TotalOutstanding(openRows) = SumOf(owed, Invoices)
    <2>1. PICK H : Remembered(H) /\ RowsOK(H) /\ AccountsOK(H)
      BY DEF ReceivablesInv
    <2>2. Cursors /\ "open" \in Reports /\ openRows \in [Invoices -> OpenRow]
      BY DEF ReceivablesInv, Reports, TypeOK
    <2>3. ASSUME NEW i \in Invoices PROVE openRows[i].outstanding = Due(invoices[i])
      <3>1. /\ stream[i] \in Seq(InvoiceEvent) /\ cursor["open"][i] = Len(stream[i])
            /\ stream[i] # <<>> => first["open"][i] = 1
        BY DEF TypeOK, CaughtUp, Numbered
      <3>2. stream[i] = <<>> => cursor["open"][i] = 0
        BY <3>1
      <3>3. first["open"][i] <= 1
        BY <2>2, <3>1, <3>2 DEF Cursors
      <3>4. H[i][cursor["open"][i]] = invoices[i]
        BY <2>1, <3>1 DEF Remembered
      <3> QED
        BY <2>1, <3>3, <3>4 DEF RowsOK, RowShows
    <2>4. DOMAIN openRows = Invoices
      BY <2>2
    <2>5. [i \in DOMAIN openRows |-> openRows[i].outstanding] = owed
      BY <1>4, <2>3, <2>4 DEF Dues
    <2> QED
      BY <2>4, <2>5 DEF TotalOutstanding
  <1>6. /\ \A c \in Customers :
               customers.accounts[c].outstanding = SumOf(Shares(customers, invoices, c), Invoices)
        /\ SumOf(Owing(customers), Customers) = SumOf(Dues(invoices), Invoices)
    BY <1>1 DEF Reflects, SumsRight, Fits, Totals
  <1>7. SumOf([c \in Customers |-> customers.accounts[c].outstanding], Customers) = SumOf(owed, Invoices)
    BY <1>4, <1>6 DEF Owing
  <1>8. \A i \in Invoices : Due(invoices[i]) \in Nat /\ (~invoices[i].created => Due(invoices[i]) = 0)
    BY <1>1, DueIs DEF SoundBills, TypeOK
  <1>9. ASSUME NEW c \in Customers
        PROVE  customers.accounts[c].outstanding > 0 <=>
                   \E i \in Invoices : Owed(i) > 0 /\ customers.mapping[i].customer = c
    <2>1. PICK f : f = Shares(customers, invoices, c)
      OBVIOUS
    <2>2. \A i \in Invoices : f[i] = IF customers.mapping[i].customer = c THEN Due(invoices[i]) ELSE 0
      BY <2>1 DEF Shares
    <2>3. \A i \in Invoices : f[i] \in Nat
      BY <1>8, <2>2
    <2>4. /\ SumOf(f, Invoices) \in Nat
          /\ \A i \in Invoices : f[i] <= SumOf(f, Invoices)
          /\ SumOf(f, Invoices) > 0 => \E i \in Invoices : f[i] > 0
      BY <2>3, SumOfNaturals, ReportsAssumption
    <2>5. PICK s : s = SumOf(f, Invoices)
      OBVIOUS
    <2>6. customers.accounts[c].outstanding = s
      BY <1>6, <2>1, <2>5
    <2>7. ASSUME s > 0
          PROVE  \E i \in Invoices : Owed(i) > 0 /\ customers.mapping[i].customer = c
      <3>1. PICK i \in Invoices : f[i] > 0
        BY <2>4, <2>5, <2>7
      <3>2. customers.mapping[i].customer = c /\ f[i] = Due(invoices[i])
        BY <2>2, <3>1
      <3> QED
        BY <1>2, <3>1, <3>2
    <2>8. ASSUME NEW i \in Invoices, Owed(i) > 0, customers.mapping[i].customer = c
          PROVE  s > 0
      <3>1. f[i] = Owed(i) /\ Owed(i) \in Nat
        BY <1>2, <1>8, <2>2, <2>8
      <3> QED
        BY <2>4, <2>5, <2>8, <3>1
    <2> QED
      BY <2>6, <2>7, <2>8
  <1>10. ASSUME NEW i \in Invoices, Owed(i) > 0 PROVE customers.mapping[i].customer \in Customers
    <2>1. invoices[i].created
      BY <1>2, <1>8, <1>10
    <2>2. customers.mapping[i].known
      BY <1>1, <2>1 DEF Reflects, Mapped
    <2> QED
      BY <2>2, MappingFields DEF TypeOK, Balances
  <1>11. ListWithOutstanding(customers)
             = {customers.mapping[i].customer : i \in {j \in Invoices : Owed(j) > 0}}
    <2>1. DOMAIN customers.accounts = Customers
      BY DEF TypeOK, Balances
    <2>2. ListWithOutstanding(customers) = {c \in Customers : customers.accounts[c].outstanding > 0}
      BY <2>1 DEF ListWithOutstanding
    <2> QED
      BY <1>9, <1>10, <2>2
  <1> QED
    BY <1>3, <1>5, <1>7, <1>11

(***************************************************************************)
(* OpenInvoicesProjection and CustomerBalancesProjection: once both were   *)
(* handed every event, the customers owe in sum what the open invoices and *)
(* the invoices themselves say, and those listed as owing are the owners   *)
(* of the invoices something is due on, as long as all that was invoiced   *)
(* fits in a u64.                                                          *)
(***************************************************************************)
THEOREM ReceivablesAreOne == Spec => []ReceivablesAgree
  BY ReceivablesHold, ReportsAgree, PTL

=============================================================================
