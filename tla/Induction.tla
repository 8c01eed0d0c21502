----------------------------- MODULE Induction -----------------------------
(***************************************************************************)
(* Induction without operators as parameters: a property is the set of what *)
(* has it.  From the well-foundedness of < on the naturals follow the       *)
(* greatest element of a bounded set, induction over numbers and finite     *)
(* sets, and that the recursive functions by which the folds of the         *)
(* community modules are defined exist.                                     *)
(***************************************************************************)
EXTENDS Integers, FiniteSets, FiniteSetsExt, Functions, FiniteSetTheorems, WellFoundedInduction, TLAPS

LEMMA GreatestElement ==
  ASSUME NEW n \in Nat, NEW S, S \subseteq 1 .. n, S # {}
  PROVE  \E i \in S : \A j \in S : j <= i
<1>0. \A i \in S : i \in Nat /\ i <= n
  OBVIOUS
<1> DEFINE T == {n - i : i \in S}
<1>1. T \subseteq Nat /\ T # {}
  <2>1. \A i \in S : n - i \in Nat
    BY <1>0, SMT
  <2>2. PICK i \in S : TRUE
    OBVIOUS
  <2> QED BY <2>1, <2>2
<1>2. \E x \in T : \A y \in T : ~(<<y, x>> \in OpToRel(<, Nat))
  <2> HIDE DEF T
  <2> QED BY <1>1, NatLessThanWellFounded, WFMin, Zenon
<1>3. PICK x \in T : \A y \in T : ~(<<y, x>> \in OpToRel(<, Nat))
  BY <1>2
<1>4. \A y \in T : ~(y < x)
  BY <1>1, <1>3, Zenon DEF OpToRel
<1>5. PICK i \in S : x = n - i
  OBVIOUS
<1>6. ASSUME NEW j \in S  PROVE j <= i
  <2>1. ~(n - j < n - i)
    BY <1>4, <1>5
  <2>2. i \in Int /\ j \in Int
    BY <1>0, SMT
  <2> QED BY <2>1, <2>2
<1> QED BY <1>6

LEMMA LeastElement ==
  ASSUME NEW S, S \subseteq Nat, S # {}
  PROVE  \E i \in S : \A j \in S : i <= j
<1>1. \E x \in S : \A y \in S : ~(<<y, x>> \in OpToRel(<, Nat))
  BY NatLessThanWellFounded, WFMin, Zenon
<1>2. PICK x \in S : \A y \in S : ~(<<y, x>> \in OpToRel(<, Nat))
  BY <1>1
<1>3. \A y \in S : ~(y < x)
  BY <1>2, Zenon DEF OpToRel
<1> QED BY <1>3

\* A set with 0 that is closed under successors has all natural numbers.
LEMMA InductionOnNat ==
  ASSUME NEW S, 0 \in S, \A k \in Nat : k \in S => k + 1 \in S
  PROVE  Nat \subseteq S
<1> SUFFICES ASSUME Nat \ S # {} PROVE FALSE
  OBVIOUS
<1> DEFINE T == Nat \ S
<1>1. T \subseteq Nat /\ T # {}
  OBVIOUS
<1>2. \E x \in T : \A y \in T : ~(<<y, x>> \in OpToRel(<, Nat))
  <2> HIDE DEF T
  <2> QED BY <1>1, NatLessThanWellFounded, WFMin, Zenon
<1>3. PICK x \in T : \A y \in T : ~(<<y, x>> \in OpToRel(<, Nat))
  BY <1>2
<1>4. \A y \in T : ~(y < x)
  BY <1>1, <1>3, Zenon DEF OpToRel
<1>5. x # 0 /\ x \in Nat
  OBVIOUS
<1>6. x - 1 \in Nat /\ x - 1 < x /\ (x - 1) + 1 = x
  BY <1>5
<1>7. x - 1 \notin T
  BY <1>4, <1>6
<1>8. x \in S
  BY <1>6, <1>7
<1> QED BY <1>8

\* From every non-empty subset of the finite set D, pick takes one element.
Picks(pick, D) == IsFiniteSet(D) /\ \A s \in SUBSET D : s # {} => pick[s] \in s

\* The function that MapThenFoldSet defines.
IsFold(f, D, pick, base, step) ==
  \A s \in SUBSET D : f[s] = IF s = {} THEN base ELSE step[<<f[s \ {pick[s]}], pick[s]>>]

\* W has {}, and every set of which it has all but the picked element.
IsClosed(W, D, pick) ==
  {} \in W /\ \A s \in SUBSET D : s # {} /\ s \ {pick[s]} \in W => s \in W

\* A set with {} that has every set of which it has all but the picked element,
\* has all subsets of D.
LEMMA InductionOnSubsets ==
  ASSUME NEW D, NEW pick, Picks(pick, D), NEW W, IsClosed(W, D, pick)
  PROVE  SUBSET D \subseteq W
<1> USE DEF Picks, IsClosed
<1> DEFINE S == {k \in Nat : \A s \in SUBSET D : Cardinality(s) <= k => s \in W}
<1>1. \A s \in SUBSET D : IsFiniteSet(s) /\ Cardinality(s) \in Nat
  BY FS_Subset, FS_CardinalityType
<1>2. 0 \in S
  <2> SUFFICES ASSUME NEW s \in SUBSET D, Cardinality(s) <= 0 PROVE s \in W
    OBVIOUS
  <2>1. s = {}
    BY <1>1, FS_EmptySet
  <2> QED BY <2>1
<1>3. ASSUME NEW k \in Nat, k \in S PROVE k + 1 \in S
  <2> SUFFICES ASSUME NEW s \in SUBSET D, Cardinality(s) <= k + 1 PROVE s \in W
    OBVIOUS
  <2>1. CASE s # {}
    <3>1. s \ {pick[s]} \in SUBSET D /\ Cardinality(s \ {pick[s]}) = Cardinality(s) - 1
      BY <1>1, <2>1, FS_RemoveElement
    <3>2. Cardinality(s \ {pick[s]}) <= k
      BY <1>1, <3>1
    <3> QED BY <1>3, <2>1, <3>1, <3>2
  <2> QED BY <2>1
<1> HIDE DEF S
<1>4. Nat \subseteq S
  BY <1>2, <1>3, InductionOnNat
<1> SUFFICES ASSUME NEW s \in SUBSET D PROVE s \in W
  OBVIOUS
<1>5. Cardinality(s) \in S /\ Cardinality(s) <= Cardinality(s)
  BY <1>1, <1>4
<1> QED BY <1>5 DEF S

\* A function on the subsets of D that is defined from what it is without the
\* picked element exists.
LEMMA FoldExists ==
  ASSUME NEW D, NEW pick, Picks(pick, D),
         NEW Good, NEW base \in Good, NEW step \in [Good \X D -> Good]
  PROVE  \E f \in [SUBSET D -> Good] : IsFold(f, D, pick, base, step)
<1> USE DEF Picks
<1> DEFINE Is(f, s) == f[s] = IF s = {} THEN base ELSE step[<<f[s \ {pick[s]}], pick[s]>>]
           S == {k \in Nat : \E f \in [SUBSET D -> Good] :
                               \A s \in SUBSET D : Cardinality(s) <= k => Is(f, s)}
<1>1. \A s \in SUBSET D : IsFiniteSet(s) /\ Cardinality(s) \in Nat /\ (s = {} <=> Cardinality(s) = 0)
  BY FS_Subset, FS_CardinalityType, FS_EmptySet
<1>2. 0 \in S
  <2> DEFINE f == [s \in SUBSET D |-> base]
  <2>1. \A s \in SUBSET D : Cardinality(s) <= 0 => Is(f, s)
    BY <1>1
  <2>2. f \in [SUBSET D -> Good]
    OBVIOUS
  <2> QED BY <2>1, <2>2
<1>3. ASSUME NEW k \in Nat, k \in S PROVE k + 1 \in S
  <2>1. PICK f \in [SUBSET D -> Good] : \A s \in SUBSET D : Cardinality(s) <= k => Is(f, s)
    BY <1>3
  <2> DEFINE g == [s \in SUBSET D |-> IF Cardinality(s) <= k THEN f[s]
                                      ELSE step[<<f[s \ {pick[s]}], pick[s]>>]]
  <2>2. ASSUME NEW s \in SUBSET D, s # {}
        PROVE  /\ pick[s] \in D /\ s \ {pick[s]} \in SUBSET D
               /\ Cardinality(s \ {pick[s]}) = Cardinality(s) - 1
    BY <1>1, <2>2, FS_RemoveElement
  <2>3. ASSUME NEW s \in SUBSET D, ~(Cardinality(s) <= k)
        PROVE  step[<<f[s \ {pick[s]}], pick[s]>>] \in Good
    BY <1>1, <2>2, <2>3
  <2>4. g \in [SUBSET D -> Good]
    BY <2>3
  <2>5. ASSUME NEW s \in SUBSET D, Cardinality(s) <= k + 1
        PROVE  Is(g, s)
    <3>1. CASE s = {}
      BY <1>1, <2>1, <3>1
    <3>2. CASE s # {}
      <4>1. s \ {pick[s]} \in SUBSET D /\ Cardinality(s \ {pick[s]}) <= k
        BY <1>1, <2>2, <2>5, <3>2
      <4>2. g[s \ {pick[s]}] = f[s \ {pick[s]}]
        BY <4>1
      <4>3. g[s] = step[<<f[s \ {pick[s]}], pick[s]>>]
        BY <2>1, <3>2
      <4> QED BY <3>2, <4>2, <4>3
    <3> QED BY <3>1, <3>2
  <2> HIDE DEF g, Is
  <2>6. \A s \in SUBSET D : Cardinality(s) <= k + 1 => Is(g, s)
    BY <2>5
  <2> QED BY <2>4, <2>6
<1> HIDE DEF S
<1>4. Cardinality(D) \in S
  BY <1>1, <1>2, <1>3, InductionOnNat
<1>5. PICK f \in [SUBSET D -> Good] : \A s \in SUBSET D : Cardinality(s) <= Cardinality(D) => Is(f, s)
  BY <1>4 DEF S
<1>6. \A s \in SUBSET D : Cardinality(s) <= Cardinality(D)
  BY FS_Subset
<1> QED BY <1>5, <1>6 DEF IsFold

-----------------------------------------------------------------------------
(* The two for FoldLeft, which takes the greatest index off *)

LEMMA MaxOfIndices ==
  ASSUME NEW n \in Nat, NEW s, s \subseteq 1 .. n, s # {}
  PROVE  Max(s) \in s
<1>1. PICK i \in s : \A j \in s : j <= i
  BY GreatestElement
<1>2. \A j \in s : i >= j
  <2>1. i \in Int /\ \A j \in s : j \in Int
    OBVIOUS
  <2> QED BY <1>1, <2>1
<1> QED BY <1>2 DEF Max

LEMMA PickMax ==
  ASSUME NEW n \in Nat, NEW D, D = 1 .. n,
         NEW pick, pick = [s \in SUBSET D |-> Max(s)]
  PROVE  Picks(pick, D) /\ \A s \in SUBSET D : pick[s] = Max(s)
<1>1. IsFiniteSet(D)
  BY FS_Interval
<1>2. \A s \in SUBSET D : pick[s] = Max(s)
  OBVIOUS
<1>3. \A s \in SUBSET D : s # {} => pick[s] \in s
  BY <1>2, MaxOfIndices
<1> QED BY <1>1, <1>2, <1>3 DEF Picks

IsFoldLeft(f, n, base, step) ==
  \A s \in SUBSET (1 .. n) : f[s] = IF s = {} THEN base ELSE step[<<f[s \ {Max(s)}], Max(s)>>]

LEMMA FoldLeftExists ==
  ASSUME NEW n \in Nat, NEW Good, NEW base \in Good, NEW step \in [Good \X (1 .. n) -> Good]
  PROVE  \E f \in [SUBSET (1 .. n) -> Good] : IsFoldLeft(f, n, base, step)
<1> DEFINE D == 1 .. n
           pick == [s \in SUBSET D |-> Max(s)]
<1>1. Picks(pick, D) /\ \A s \in SUBSET D : pick[s] = Max(s)
  BY PickMax
<1>2. step \in [Good \X D -> Good]
  OBVIOUS
<1> HIDE DEF pick, D
<1>3. PICK f \in [SUBSET D -> Good] : IsFold(f, D, pick, base, step)
  BY <1>1, <1>2, FoldExists
<1>4. \A s \in SUBSET D : f[s] = IF s = {} THEN base ELSE step[<<f[s \ {Max(s)}], Max(s)>>]
  BY <1>1, <1>3 DEF IsFold
<1> QED BY <1>4 DEF D, IsFoldLeft

LEMMA FoldLeftInduction ==
  ASSUME NEW n \in Nat, NEW W, {} \in W,
         \A s \in SUBSET (1 .. n) : s # {} /\ s \ {Max(s)} \in W => s \in W
  PROVE  1 .. n \in W
<1> DEFINE D == 1 .. n
           pick == [s \in SUBSET D |-> Max(s)]
<1>1. Picks(pick, D) /\ \A s \in SUBSET D : pick[s] = Max(s)
  BY PickMax
<1>2. \A s \in SUBSET D : s # {} /\ s \ {Max(s)} \in W => s \in W
  OBVIOUS
<1> HIDE DEF pick, D
<1>3. IsClosed(W, D, pick)
  BY <1>1, <1>2 DEF IsClosed
<1>4. SUBSET D \subseteq W
  BY <1>1, <1>3, InductionOnSubsets
<1> QED BY <1>4 DEF D

-----------------------------------------------------------------------------
(* Sums *)

\* The function by which the sum over f is defined, which takes some index off.
IsSum(h, D, f) ==
  \A s \in SUBSET D :
    h[s] = IF s = {} THEN 0 ELSE f[CHOOSE x \in s : TRUE] + h[s \ {CHOOSE x \in s : TRUE}]

LEMMA SumExists ==
  ASSUME NEW D, IsFiniteSet(D), NEW f \in [D -> Int]
  PROVE  \E h \in [SUBSET D -> Int] : IsSum(h, D, f) /\ SumFunction(f) = h[D]
<1> DEFINE pick == [s \in SUBSET D |-> CHOOSE x \in s : TRUE]
           step == [z \in Int \X D |-> f[z[2]] + z[1]]
           iter == CHOOSE h : h = [s \in SUBSET D |->
                     IF s = {} THEN 0 ELSE f[CHOOSE x \in s : TRUE] + h[s \ {CHOOSE x \in s : TRUE}]]
<1>1. IsFiniteSet(D) /\ f \in [D -> Int]
  OBVIOUS
<1>2. SumFunction(f) = iter[D]
  <2>1. DOMAIN f = D
    BY <1>1
  <2> QED BY <2>1 DEF SumFunction, SumFunctionOnSet, FoldFunctionOnSet, MapThenFoldSet
<1>3. \A s \in SUBSET D : pick[s] = (CHOOSE x \in s : TRUE) /\ (s # {} => pick[s] \in s)
  OBVIOUS
<1>4. step \in [Int \X D -> Int] /\ \A c \in Int, i \in D : step[<<c, i>>] = f[i] + c
  BY <1>1
<1>5. Picks(pick, D)
  BY <1>1, <1>3 DEF Picks
<1> HIDE DEF pick, step
<1>6. PICK h \in [SUBSET D -> Int] : IsFold(h, D, pick, 0, step)
  <2>1. 0 \in Int
    OBVIOUS
  <2> QED BY <1>4, <1>5, <2>1, FoldExists
<1>7. \A s \in SUBSET D : h[s] = IF s = {} THEN 0
                           ELSE f[CHOOSE x \in s : TRUE] + h[s \ {CHOOSE x \in s : TRUE}]
  <2> SUFFICES ASSUME NEW s \in SUBSET D, s # {}
               PROVE  h[s] = f[pick[s]] + h[s \ {pick[s]}]
    BY <1>3, <1>6 DEF IsFold
  <2>1. pick[s] \in D /\ s \ {pick[s]} \in SUBSET D
    BY <1>3
  <2>2. h[s] = step[<<h[s \ {pick[s]}], pick[s]>>] /\ h[s \ {pick[s]}] \in Int
    BY <1>6, <2>1 DEF IsFold
  <2> QED BY <1>4, <2>1, <2>2
<1>8. h = [s \in SUBSET D |->
             IF s = {} THEN 0 ELSE f[CHOOSE x \in s : TRUE] + h[s \ {CHOOSE x \in s : TRUE}]]
  BY <1>6, <1>7
<1>9. iter = [s \in SUBSET D |->
                IF s = {} THEN 0 ELSE f[CHOOSE x \in s : TRUE] + iter[s \ {CHOOSE x \in s : TRUE}]]
  BY <1>8
<1> HIDE DEF iter
<1>10. iter \in [SUBSET D -> Int]
  <2> DEFINE W == {s \in SUBSET D : iter[s] \in Int}
  <2>1. \A s \in SUBSET D : s # {} => iter[s] = f[pick[s]] + iter[s \ {pick[s]}] /\ pick[s] \in D
    BY <1>3, <1>9
  <2>2. {} \in W
    BY <1>9
  <2>3. ASSUME NEW s \in SUBSET D, s # {}, s \ {pick[s]} \in W  PROVE s \in W
    <3>1. iter[s] = f[pick[s]] + iter[s \ {pick[s]}] /\ pick[s] \in D
      BY <2>1, <2>3
    <3>2. iter[s \ {pick[s]}] \in Int /\ f[pick[s]] \in Int
      BY <1>1, <2>3, <3>1
    <3> QED BY <3>1, <3>2
  <2>4. IsClosed(W, D, pick)
    BY <2>2, <2>3 DEF IsClosed
  <2> HIDE DEF W
  <2>5. SUBSET D \subseteq W
    BY <1>5, <2>4, InductionOnSubsets
  <2>6. \A s \in SUBSET D : iter[s] \in Int
    BY <2>5 DEF W
  <2> QED BY <1>9, <2>6
<1>11. IsSum(iter, D, f)
  BY <1>9 DEF IsSum
<1> QED BY <1>2, <1>10, <1>11

\* Whichever index is taken off.
TakesOff(h, D, f) == \A t \in SUBSET D : \A j \in t : h[t] = f[j] + h[t \ {j}]

LEMMA SumWithout ==
  ASSUME NEW D, IsFiniteSet(D), NEW f \in [D -> Int], NEW h \in [SUBSET D -> Int], IsSum(h, D, f)
  PROVE  TakesOff(h, D, f)
<1> DEFINE Right == {s \in SUBSET D : \A x \in s : h[s] = f[x] + h[s \ {x}]}
           S == {k \in Nat : \A s \in SUBSET D : Cardinality(s) <= k => s \in Right}
<1>1. IsFiniteSet(D) /\ f \in [D -> Int] /\ h \in [SUBSET D -> Int]
  OBVIOUS
<1>2. \A s \in SUBSET D : s # {} => \E y \in s : h[s] = f[y] + h[s \ {y}]
  BY DEF IsSum
<1>3. \A s \in SUBSET D : IsFiniteSet(s) /\ Cardinality(s) \in Nat
  BY <1>1, FS_Subset, FS_CardinalityType
<1>4. \A s \in SUBSET D : \A x \in s : /\ s \ {x} \in SUBSET D /\ Cardinality(s) # 0
                                     /\ Cardinality(s \ {x}) = Cardinality(s) - 1
  BY <1>3, FS_RemoveElement, FS_EmptySet
<1>5. \A s \in SUBSET D : s = {} => s \in Right
  OBVIOUS
<1>6. ASSUME NEW s \in SUBSET D, \A x \in s : s \ {x} \in Right  PROVE s \in Right
  <2> SUFFICES ASSUME NEW x \in s  PROVE h[s] = f[x] + h[s \ {x}]
    OBVIOUS
  <2>1. PICK y \in s : h[s] = f[y] + h[s \ {y}]
    BY <1>2
  <2>2. CASE x # y
    <3> DEFINE u == (s \ {y}) \ {x}
    <3>1. x \in s \ {y} /\ y \in s \ {x}
      BY <2>2
    <3>2. h[s \ {y}] = f[x] + h[(s \ {y}) \ {x}] /\ h[s \ {x}] = f[y] + h[(s \ {x}) \ {y}]
      BY <1>6, <3>1
    <3>3. (s \ {x}) \ {y} = u
      OBVIOUS
    <3>4. h[s \ {y}] = f[x] + h[u] /\ h[s \ {x}] = f[y] + h[u]
      BY <3>2, <3>3
    <3>5. f[x] \in Int /\ f[y] \in Int /\ h[u] \in Int
      BY <1>1
    <3> QED BY <2>1, <3>4, <3>5
  <2> QED BY <2>1, <2>2
<1> HIDE DEF Right
<1>7. 0 \in S
  BY <1>3, <1>5, FS_EmptySet
<1>8. ASSUME NEW k \in Nat, k \in S  PROVE k + 1 \in S
  <2> SUFFICES ASSUME NEW s \in SUBSET D, Cardinality(s) <= k + 1  PROVE s \in Right
    BY <1>8
  <2>1. ASSUME NEW x \in s  PROVE s \ {x} \in Right
    <3>1. s \ {x} \in SUBSET D /\ Cardinality(s \ {x}) = Cardinality(s) - 1
      BY <1>4
    <3>2. Cardinality(s \ {x}) <= k
      BY <1>3, <3>1
    <3> QED BY <1>8, <3>1, <3>2
  <2> QED BY <1>6, <2>1
<1> HIDE DEF S
<1>9. Nat \subseteq S
  BY <1>7, <1>8, InductionOnNat
<1>10. ASSUME NEW t \in SUBSET D  PROVE t \in Right
  <2>1. Cardinality(t) \in S /\ Cardinality(t) <= Cardinality(t)
    BY <1>3, <1>9
  <2> QED BY <2>1 DEF S
<1> QED BY <1>10 DEF Right, TakesOff

\* The sum of the differences between neighbours.
LEMMA SumTelescopes ==
  ASSUME NEW n \in Nat, NEW f \in [1 .. n -> Int], NEW g \in [1 .. n + 1 -> Int],
         \A i \in 1 .. n : f[i] = g[i + 1] - g[i]
  PROVE  SumFunction(f) = g[n + 1] - g[1]
<1> DEFINE D == 1 .. n
<1>0. IsFiniteSet(D) /\ f \in [D -> Int]
  BY FS_Interval
<1> HIDE DEF D
<1>1. PICK h \in [SUBSET D -> Int] : IsSum(h, D, f) /\ SumFunction(f) = h[D]
  BY <1>0, SumExists
<1> DEFINE S == {m \in Nat : m <= n => h[1 .. m] = g[m + 1] - g[1]}
<1>2. \A t \in SUBSET D : \A j \in t : h[t] = f[j] + h[t \ {j}]
  <2>1. TakesOff(h, D, f)
    BY <1>0, <1>1, SumWithout
  <2> QED BY <2>1 DEF TakesOff
<1>3. 0 \in S
  <2>1. h[{}] = 0
    BY <1>1 DEF IsSum
  <2>2. 1 .. 0 = {}
    OBVIOUS
  <2>3. g[1] \in Int
    OBVIOUS
  <2>4. h[1 .. 0] = g[0 + 1] - g[1]
    BY <2>1, <2>2, <2>3
  <2> QED BY <2>4
<1>4. ASSUME NEW m \in Nat, m \in S  PROVE m + 1 \in S
  <2> SUFFICES ASSUME m + 1 <= n PROVE h[1 .. (m + 1)] = g[(m + 1) + 1] - g[1]
    OBVIOUS
  <2> DEFINE t == 1 .. (m + 1)
  <2>1. t \in SUBSET D /\ m + 1 \in t
    BY DEF D
  <2>2. t \ {m + 1} = 1 .. m
    <3>1. \A i \in Int : i \in t /\ i # m + 1 <=> i \in 1 .. m
      OBVIOUS
    <3>2. \A i \in t : i \in Int
      OBVIOUS
    <3>3. \A i \in 1 .. m : i \in Int
      OBVIOUS
    <3> HIDE DEF t
    <3> QED BY <3>1, <3>2, <3>3
  <2> HIDE DEF t
  <2>3. h[t] = f[m + 1] + h[1 .. m]
    BY <1>2, <2>1, <2>2
  <2>4. f[m + 1] = g[(m + 1) + 1] - g[m + 1] /\ h[1 .. m] = g[m + 1] - g[1]
    BY <1>4
  <2>5. g[(m + 1) + 1] \in Int /\ g[m + 1] \in Int /\ g[1] \in Int
    OBVIOUS
  <2>6. h[t] = g[(m + 1) + 1] - g[1]
    BY <2>3, <2>4, <2>5
  <2> QED BY <2>6 DEF t
<1> HIDE DEF S
<1>5. n \in S
  BY <1>3, <1>4, InductionOnNat
<1> QED BY <1>1, <1>5 DEF S, D
=============================================================================
