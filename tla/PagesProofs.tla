---------------------------- MODULE PagesProofs ----------------------------
(***************************************************************************)
(* Proofs about Pages, for all values of its constants.                     *)
(***************************************************************************)
EXTENDS Pages, SequenceTheorems, Induction

-----------------------------------------------------------------------------
(* Lists in descending order *)

\* The elements of S, each once, the highest first.
Falls(s, S) ==
  /\ s \in Seq(S)
  /\ \A i, j \in 1 .. Len(s) : i < j => s[i] > s[j]

Sorts(s, S) == Falls(s, S) /\ \A v \in S : \E i \in 1 .. Len(s) : s[i] = v

LEMMA DescendingSorts ==
  ASSUME NEW S, S \subseteq Versions
  PROVE  Sorts(Descending(S), S) /\ Len(Descending(S)) = Cardinality(S) /\ IsFiniteSet(S)
<1> DEFINE n == Cardinality(S)
           above(v) == {w \in S : w > v}
           d == Descending(S)
<1>1. IsFiniteSet(S) /\ n \in Nat
  <2>1. IsFiniteSet(Versions)
    BY PagesAssumption, FS_Interval DEF Versions
  <2>2. IsFiniteSet(S)
    BY <2>1, FS_Subset
  <2> QED BY <2>2, FS_CardinalityType
<1>2. \A v \in S : v \in Int
  BY PagesAssumption DEF Versions
<1>3. ASSUME NEW v \in S
      PROVE  IsFiniteSet(above(v)) /\ Cardinality(above(v)) \in Nat /\ Cardinality(above(v)) < n
  <2>1. above(v) \subseteq S \ {v}
    BY <1>2
  <2>2. IsFiniteSet(S \ {v}) /\ Cardinality(S \ {v}) = n - 1
    BY <1>1, FS_RemoveElement
  <2>3. IsFiniteSet(above(v)) /\ Cardinality(above(v)) <= n - 1
    BY <2>1, <2>2, FS_Subset
  <2>4. Cardinality(above(v)) \in Nat
    BY <2>3, FS_CardinalityType
  <2> HIDE DEF n, above
  <2> QED BY <1>1, <2>3, <2>4
<1>4. ASSUME NEW v \in S, NEW w \in S, v < w
      PROVE  Cardinality(above(w)) < Cardinality(above(v))
  <2>1. above(w) \subseteq above(v) \ {w} /\ w \in above(v)
    BY <1>2, <1>4
  <2>2. IsFiniteSet(above(v) \ {w}) /\ Cardinality(above(v) \ {w}) = Cardinality(above(v)) - 1
    BY <1>3, <2>1, FS_RemoveElement
  <2>3. Cardinality(above(w)) <= Cardinality(above(v)) - 1
    BY <2>1, <2>2, FS_Subset
  <2>4. Cardinality(above(w)) \in Nat /\ Cardinality(above(v)) \in Nat
    BY <1>3
  <2> HIDE DEF above
  <2> QED BY <2>3, <2>4
<1>5. /\ d \in [1 .. n -> {d[i] : i \in 1 .. n}]
      /\ \A i \in 1 .. n : d[i] = CHOOSE v \in S : Cardinality(above(v)) = i - 1
  BY DEF Descending
<1> HIDE DEF n, above, d
<1> DEFINE rank == [v \in S |-> Cardinality(above(v)) + 1]
<1>6. rank \in [S -> 1 .. n] /\ \A v \in S : rank[v] = Cardinality(above(v)) + 1
  <2>1. \A v \in S : Cardinality(above(v)) + 1 \in 1 .. n
    BY <1>1, <1>3
  <2> QED BY <2>1
<1> HIDE DEF rank
<1>7. \A v, w \in S : v # w => rank[v] # rank[w]
  <2>1. ASSUME NEW v \in S, NEW w \in S, v < w  PROVE rank[v] # rank[w]
    <3>1. Cardinality(above(w)) < Cardinality(above(v)) /\ Cardinality(above(w)) \in Nat
          /\ Cardinality(above(v)) \in Nat
      BY <1>3, <1>4, <2>1
    <3> QED BY <1>6, <3>1
  <2>2. \A v, w \in S : v # w => v < w \/ w < v
    BY <1>2
  <2> QED BY <2>1, <2>2
<1>8. ASSUME NEW i \in 1 .. n  PROVE \E v \in S : rank[v] = i
  <2> SUFFICES ASSUME \A v \in S : rank[v] # i PROVE FALSE
    OBVIOUS
  <2> DEFINE T == (1 .. n) \ {i}
  <2>1. IsFiniteSet(1 .. n) /\ Cardinality(1 .. n) = n
    BY <1>1, FS_Interval
  <2>2. IsFiniteSet(T) /\ Cardinality(T) = n - 1
    BY <2>1, FS_RemoveElement
  <2>3. rank \in [S -> T]
    BY <1>6
  <2>4. Cardinality(T) < Cardinality(S)
    BY <1>1, <2>2 DEF n
  <2> HIDE DEF T
  <2>5. \E v, w \in S : v # w /\ rank[v] = rank[w]
    BY <1>1, <2>2, <2>3, <2>4, FS_PigeonHole
  <2> QED BY <1>7, <2>5
<1>9. ASSUME NEW i \in 1 .. n  PROVE d[i] \in S /\ rank[d[i]] = i
  <2>1. \E v \in S : Cardinality(above(v)) = i - 1
    <3>1. PICK v \in S : rank[v] = i
      BY <1>8
    <3>2. Cardinality(above(v)) \in Nat /\ Cardinality(above(v)) + 1 = i
      BY <1>3, <1>6, <3>1
    <3> QED BY <3>2
  <2>2. d[i] \in S /\ Cardinality(above(d[i])) = i - 1
    BY <1>5, <2>1, Zenon
  <2> QED BY <1>6, <2>2
<1>10. d \in [1 .. n -> S]
  BY <1>5, <1>9
<1>11. d \in Seq(S) /\ Len(d) = n
  BY <1>1, <1>10
<1>12. ASSUME NEW i \in 1 .. n, NEW j \in 1 .. n, i < j  PROVE d[i] > d[j]
  <2>1. d[i] \in S /\ d[j] \in S /\ rank[d[i]] = i /\ rank[d[j]] = j
    BY <1>9
  <2>2. d[i] \in Int /\ d[j] \in Int
    BY <1>2, <2>1
  <2>3. ~(d[i] < d[j])
    <3> SUFFICES ASSUME d[i] < d[j] PROVE FALSE
      OBVIOUS
    <3>1. Cardinality(above(d[j])) < Cardinality(above(d[i])) /\ Cardinality(above(d[i])) \in Nat
          /\ Cardinality(above(d[j])) \in Nat
      BY <1>3, <1>4, <2>1
    <3> QED BY <1>6, <1>12, <2>1, <3>1
  <2>4. d[i] # d[j]
    BY <1>12, <2>1
  <2> QED BY <2>2, <2>3, <2>4
<1>13. ASSUME NEW v \in S  PROVE \E i \in 1 .. n : d[i] = v
  <2>1. rank[v] \in 1 .. n
    BY <1>6
  <2>2. rank[d[rank[v]]] = rank[v] /\ d[rank[v]] \in S
    BY <1>9, <2>1
  <2>3. d[rank[v]] = v
    BY <1>7, <2>2
  <2> QED BY <2>1, <2>3
<1> QED BY <1>1, <1>11, <1>12, <1>13 DEF Sorts, Falls, d, n

LEMMA MinOfTwo ==
  ASSUME NEW a \in Int, NEW b \in Int
  PROVE  Min({a, b}) = IF a <= b THEN a ELSE b
BY DEF Min

\* Where a version stands.
LEMMA FindIndexFinds ==
  ASSUME NEW S, S \subseteq Int, NEW s, Falls(s, S), NEW i \in 1 .. Len(s)
  PROVE  FindIndex(s, s[i]) = i - 1
<1> DEFINE I == {j \in 1 .. Len(s) : s[j] = s[i]}
<1>1. \A j \in 1 .. Len(s) : s[j] \in Int
  <2>1. \A v \in S : v \in Int
    OBVIOUS
  <2>2. \A j \in 1 .. Len(s) : s[j] \in S
    BY DEF Falls
  <2> QED BY <2>1, <2>2
<1>2. I = {i}
  BY <1>1 DEF Falls
<1>3. Min({i}) = i
  BY DEF Min
<1>4. FindIndex(s, s[i]) = (IF I # {} THEN Min(I) ELSE 0) - 1
  BY DEF FindIndex, SelectInSeq
<1> QED BY <1>2, <1>3, <1>4

\* A slice that starts behind the first k elements.
LEMMA SliceElements ==
  ASSUME NEW S, NEW s \in Seq(S), NEW k \in 0 .. Len(s), NEW to \in Int
  PROVE  /\ Slice(s, k, to) \in Seq(S)
         /\ Len(Slice(s, k, to)) <= Len(s) - k
         /\ \A i \in 1 .. Len(Slice(s, k, to)) : Slice(s, k, to)[i] = s[k + i]
<1> DEFINE m == Min({to, Len(s)})
           t == SubSeq(s, k + 1, m)
<1>1. m = IF to <= Len(s) THEN to ELSE Len(s)
  BY MinOfTwo
<1>2. Len(s) \in Nat /\ m \in Int /\ m <= Len(s) /\ k + 1 \in 1 .. Len(s) + 1
  BY <1>1
<1>3. Slice(s, k, to) = t
  BY DEF Slice
<1> HIDE DEF m
<1>4. t \in Seq(S) /\ Len(t) = (IF k + 1 <= m THEN m - (k + 1) + 1 ELSE 0)
      /\ \A i \in 1 .. m - (k + 1) + 1 : t[i] = s[(k + 1) + i - 1]
  BY <1>2, SubSeqProperties
<1> HIDE DEF t
<1> QED BY <1>2, <1>3, <1>4

-----------------------------------------------------------------------------
(* The cards of a lane *)

\* From the latest release downwards, with the versions of R.
Covers(cards, all, S, R) ==
  /\ Falls(cards, S)
  /\ Len(cards) >= 1 /\ cards[1] = all[1]
  /\ \A v \in R : \E i \in 1 .. Len(cards) : cards[i] = v

LEMMA ImportantCovers ==
  ASSUME NEW S, S \subseteq Int, S # {}, NEW all, Sorts(all, S),
         NEW R, R \subseteq S, NEW running, Sorts(running, R)
  PROVE  Covers(ImportantReleases(running, all), all, S, R)
<1>1. all \in Seq(S) /\ Len(all) \in Nat /\ Len(all) >= 1 /\ 1 \in 1 .. Len(all)
  <2>1. all \in Seq(S) /\ \E i \in 1 .. Len(all) : TRUE
    BY DEF Sorts, Falls
  <2> QED BY <2>1
<1>2. all[1] \in S /\ all[1] \in Int /\ \A v \in S : v \in Int /\ (v = all[1] \/ v < all[1])
  <2>1. \A v \in S : v \in Int
    OBVIOUS
  <2>2. \A i \in 1 .. Len(all) : all[i] \in S
    BY <1>1
  <2>3. \A i \in 1 .. Len(all) : i = 1 \/ all[1] > all[i]
    BY <1>1 DEF Sorts, Falls
  <2>4. \A v \in S : v = all[1] \/ all[1] > v
    BY <2>3 DEF Sorts
  <2>5. all[1] \in S /\ all[1] \in Int
    BY <1>1, <2>1, <2>2
  <2> QED BY <2>1, <2>4, <2>5
<1>3. /\ running \in Seq(R) /\ running \in Seq(S) /\ Len(running) \in Nat
      /\ \A i \in 1 .. Len(running) : running[i] \in S
      /\ \A i, j \in 1 .. Len(running) : i < j => running[i] > running[j]
      /\ \A v \in R : \E i \in 1 .. Len(running) : running[i] = v
  <2>1. running \in Seq(R) /\ Falls(running, R)
    BY DEF Sorts, Falls
  <2>2. running \in Seq(S)
    BY <2>1, SeqMonotonic
  <2> QED BY <2>1, <2>2 DEF Sorts, Falls
<1>4. CASE Contains(running, all[1])
  <2>1. PICK j \in 1 .. Len(running) : running[j] = all[1]
    BY <1>4 DEF Contains
  <2>2. 1 \in 1 .. Len(running)
    BY <1>3
  <2>3. running[1] = all[1]
    <3>1. running[1] \in S /\ (j = 1 \/ running[1] > running[j])
      BY <1>3, <2>2
    <3>2. running[1] \in Int /\ all[1] \in Int /\ (running[1] = all[1] \/ running[1] < all[1])
      BY <1>2, <3>1, Zenon
    <3> QED BY <2>1, <3>1, <3>2
  <2>4. ImportantReleases(running, all) = running /\ Len(running) >= 1
    BY <1>3, <1>4, <2>2 DEF ImportantReleases
  <2> QED BY <1>3, <2>3, <2>4 DEF Covers, Falls
<1>5. CASE ~Contains(running, all[1])
  <2> DEFINE c == <<all[1]>> \o running
  <2>1. ImportantReleases(running, all) = c
    BY <1>5 DEF ImportantReleases
  <2>2. /\ c \in Seq(S) /\ Len(c) = Len(running) + 1
        /\ c[1] = all[1] /\ \A i \in 2 .. Len(running) + 1 : c[i] = running[i - 1]
    BY <1>2, <1>3
  <2> HIDE DEF c
  <2>3. \A i \in 1 .. Len(running) : running[i] < all[1]
    BY <1>2, <1>3, <1>5 DEF Contains
  <2>4. ASSUME NEW i \in 1 .. Len(c), NEW j \in 1 .. Len(c), i < j  PROVE c[i] > c[j]
    <3>1. j \in 2 .. Len(running) + 1 /\ j - 1 \in 1 .. Len(running) /\ c[j] = running[j - 1]
          /\ running[j - 1] \in Int
      <4>1. j \in 2 .. Len(running) + 1 /\ j - 1 \in 1 .. Len(running)
        BY <1>3, <2>2, <2>4
      <4>2. c[j] = running[j - 1] /\ running[j - 1] \in S
        BY <1>3, <2>2, <4>1
      <4> QED BY <1>2, <4>1, <4>2
    <3>2. CASE i = 1
      BY <1>2, <2>2, <2>3, <3>1, <3>2
    <3>3. CASE i # 1
      <4>1. c[i] = running[i - 1] /\ i - 1 \in 1 .. Len(running) /\ i - 1 < j - 1
        BY <1>3, <2>2, <2>4, <3>3
      <4> QED BY <1>3, <3>1, <4>1
    <3> QED BY <3>2, <3>3
  <2>5. ASSUME NEW v \in R  PROVE \E i \in 1 .. Len(c) : c[i] = v
    <3>1. PICK i \in 1 .. Len(running) : running[i] = v
      BY <1>3
    <3>2. i + 1 \in 2 .. Len(running) + 1 /\ i + 1 \in 1 .. Len(c) /\ (i + 1) - 1 = i
      BY <1>3, <2>2
    <3>3. c[i + 1] = running[i]
      BY <2>2, <3>2
    <3> QED BY <3>1, <3>2, <3>3
  <2>6. Len(c) >= 1
    BY <1>3, <2>2
  <2> QED BY <2>1, <2>2, <2>4, <2>5, <2>6 DEF Covers, Falls
<1> QED BY <1>4, <1>5

LEMMA CardsCover ==
  ASSUME NEW S, S \subseteq Int, S # {}, NEW all, Sorts(all, S),
         NEW R, R \subseteq S, NEW running, Sorts(running, R)
  PROVE  Covers(ReleasesToDisplay(running, all), all, S, R)
<1> DEFINE imp == ImportantReleases(running, all)
           k == Len(imp)
           oldest == FindIndex(all, Last(imp))
           trailing == Displayed - k
           more == Slice(all, oldest + 1, oldest + trailing + 1)
           c == imp \o more
<1>1. Covers(imp, all, S, R)
  BY ImportantCovers
<1>2. ReleasesToDisplay(running, all) = c
  BY DEF ReleasesToDisplay
<1> HIDE DEF imp
<1>3. /\ imp \in Seq(S) /\ k \in Nat /\ k >= 1 /\ k \in 1 .. k /\ Last(imp) = imp[k] /\ imp[1] = all[1]
      /\ \A i \in 1 .. k : imp[i] \in S
      /\ \A i, j \in 1 .. k : i < j => imp[i] > imp[j]
      /\ \A v \in R : \E i \in 1 .. k : imp[i] = v
  <2>1. imp \in Seq(S) /\ k >= 1
    BY <1>1 DEF Covers, Falls
  <2>2. k \in 1 .. k /\ Last(imp) = imp[k]
    BY <2>1 DEF Last
  <2> QED BY <1>1, <2>1, <2>2 DEF Covers, Falls
<1>4. all \in Seq(S) /\ Falls(all, S) /\ Len(all) \in Nat /\ \A i \in 1 .. Len(all) : all[i] \in S
  <2>1. all \in Seq(S) /\ Falls(all, S)
    BY DEF Sorts, Falls
  <2> QED BY <2>1
<1>5. PICK q \in 1 .. Len(all) : all[q] = imp[k]
  BY <1>3 DEF Sorts
<1>6. oldest = q - 1
  BY <1>3, <1>4, <1>5, FindIndexFinds
<1> HIDE DEF k, oldest
<1>7. trailing \in Int /\ oldest + 1 \in 0 .. Len(all) /\ oldest + trailing + 1 \in Int
  BY <1>3, <1>4, <1>6, PagesAssumption
<1> HIDE DEF trailing
<1>8. /\ more \in Seq(S) /\ Len(more) \in Nat /\ Len(more) <= Len(all) - q
      /\ \A i \in 1 .. Len(more) : more[i] = all[q + i]
  <2>1. /\ more \in Seq(S) /\ Len(more) <= Len(all) - (oldest + 1)
        /\ \A i \in 1 .. Len(more) : more[i] = all[oldest + 1 + i]
    BY <1>4, <1>7, SliceElements
  <2>2. oldest + 1 = q
    BY <1>6
  <2> HIDE DEF more
  <2> QED BY <2>1, <2>2
<1> HIDE DEF more
<1>9. /\ c \in Seq(S) /\ Len(c) = k + Len(more)
      /\ \A i \in 1 .. k : c[i] = imp[i]
      /\ \A i \in k + 1 .. k + Len(more) : c[i] = more[i - k]
  BY <1>3, <1>8 DEF k
<1> HIDE DEF c
<1>10. \A v \in S : v \in Int
  OBVIOUS
<1>11. ASSUME NEW i \in 1 .. Len(c), NEW j \in 1 .. Len(c), i < j  PROVE c[i] > c[j]
  <2>1. CASE j <= k
    BY <1>3, <1>9, <1>11, <2>1
  <2>2. CASE j > k
    <3>1. j - k \in 1 .. Len(more) /\ q + (j - k) \in 1 .. Len(all) /\ c[j] = all[q + (j - k)]
      BY <1>3, <1>4, <1>8, <1>9, <2>2
    <3>2. all[q] > c[j]
      BY <1>3, <1>4, <1>5, <3>1 DEF Falls
    <3>3. CASE i <= k
      <4>1. c[i] = imp[i] /\ i \in 1 .. k /\ (i = k \/ imp[i] > imp[k])
        BY <1>3, <1>9, <3>3
      <4>2. c[i] \in Int /\ c[j] \in Int /\ imp[k] \in Int
        BY <1>3, <1>4, <1>10, <3>1, <4>1
      <4> QED BY <1>5, <3>2, <4>1, <4>2
    <3>4. CASE i > k
      <4>1. i - k \in 1 .. Len(more) /\ q + (i - k) \in 1 .. Len(all) /\ c[i] = all[q + (i - k)]
        BY <1>3, <1>4, <1>8, <1>9, <3>4
      <4>2. q + (i - k) < q + (j - k)
        BY <1>3, <1>11
      <4> QED BY <1>4, <3>1, <4>1, <4>2 DEF Falls
    <3> QED BY <1>3, <3>3, <3>4
  <2> QED BY <1>3, <2>1, <2>2
<1>12. ASSUME NEW v \in R  PROVE \E i \in 1 .. Len(c) : c[i] = v
  <2>1. PICK i \in 1 .. k : imp[i] = v
    BY <1>3
  <2>2. i \in 1 .. Len(c) /\ c[i] = imp[i]
    BY <1>3, <1>8, <1>9
  <2> QED BY <2>1, <2>2
<1>13. Len(c) >= 1 /\ c[1] = all[1]
  BY <1>3, <1>8, <1>9
<1> QED BY <1>2, <1>9, <1>11, <1>12, <1>13 DEF Covers, Falls

\* The numbers between and behind cards that go from the latest release
\* downwards: their sum is telescoping in the positions of the cards.
Gaps(f, c, all) ==
  f = [i \in 1 .. Len(c) |-> IF i < Len(c) THEN NumberOfReleasesBetween(all, c[i], c[i + 1])
                             ELSE NumberOfReleasesBetween(all, c[i], Last(all)) + 1]

AddUp(f, c, all) ==
  /\ \A i \in 1 .. Len(c) : f[i] >= 0
  /\ Len(c) + SumFunction(f) = Len(all)

LEMMA HiddenSum ==
  ASSUME NEW S, S \subseteq Int, NEW all, Sorts(all, S), NEW R, NEW c, Covers(c, all, S, R),
         NEW f, Gaps(f, c, all)
  PROVE  AddUp(f, c, all)
<1> USE DEF Gaps, AddUp
<1> DEFINE k == Len(c)
           n == Len(all)
<1>1. /\ c \in Seq(S) /\ k \in Nat /\ k >= 1 /\ c[1] = all[1]
      /\ \A i, j \in 1 .. k : i < j => c[i] > c[j]
  BY DEF Covers, Falls
<1>2. /\ all \in Seq(S) /\ n \in Nat /\ Falls(all, S)
      /\ \A i, j \in 1 .. n : i < j => all[i] > all[j]
      /\ \A v \in S : \E i \in 1 .. n : all[i] = v
  BY DEF Sorts, Falls
<1>3. (\A v \in S : v \in Int) /\ (\A i \in 1 .. k : c[i] \in S) /\ \A i \in 1 .. n : all[i] \in S
  BY <1>1, <1>2
<1> DEFINE p == [i \in 1 .. k |-> FindIndex(all, c[i]) + 1]
<1>4. ASSUME NEW i \in 1 .. k
      PROVE  p[i] \in 1 .. n /\ all[p[i]] = c[i] /\ FindIndex(all, c[i]) = p[i] - 1
  <2>1. PICK j \in 1 .. n : all[j] = c[i]
    BY <1>2, <1>3
  <2>2. FindIndex(all, c[i]) = j - 1
    BY <1>2, <2>1, FindIndexFinds
  <2> QED BY <1>2, <2>1, <2>2
<1> HIDE DEF p
<1>5. ASSUME NEW i \in 1 .. k, NEW j \in 1 .. k, i < j  PROVE p[i] < p[j]
  <2>1. p[i] \in 1 .. n /\ p[j] \in 1 .. n /\ all[p[i]] = c[i] /\ all[p[j]] = c[j] /\ c[i] > c[j]
    BY <1>1, <1>4, <1>5
  <2>2. c[i] \in Int /\ c[j] \in Int
    BY <1>3
  <2>3. ~(p[j] < p[i]) /\ p[i] # p[j]
    BY <1>2, <2>1, <2>2
  <2> QED BY <2>1, <2>3
<1>6. 1 \in 1 .. k /\ p[1] = 1 /\ n >= 1
  <2>1. 1 \in 1 .. k
    BY <1>1
  <2>2. p[1] \in 1 .. n /\ all[p[1]] = all[1]
    BY <1>1, <1>4, <2>1
  <2>3. 1 \in 1 .. n
    BY <2>2
  <2>4. all[1] \in Int
    BY <1>3, <2>3
  <2>5. ~(1 < p[1])
    BY <1>2, <2>2, <2>3, <2>4
  <2> QED BY <2>1, <2>2, <2>3, <2>5
<1>7. FindIndex(all, Last(all)) = n - 1
  <2>1. n \in 1 .. n /\ Last(all) = all[n]
    BY <1>2, <1>6 DEF Last
  <2> QED BY <1>2, <2>1, FindIndexFinds
<1>8. ASSUME NEW i \in 1 .. k
      PROVE  /\ i < k => f[i] = p[i + 1] - p[i] - 1 /\ p[i + 1] \in 1 .. n /\ p[i] < p[i + 1]
             /\ ~(i < k) => f[i] = n - p[i] /\ i = k
             /\ p[i] \in 1 .. n
  <2>1. CASE i < k
    <3>1. i + 1 \in 1 .. k /\ i < i + 1
      BY <1>1, <2>1
    <3>2. f[i] = FindIndex(all, c[i + 1]) - FindIndex(all, c[i]) - 1
      BY <2>1 DEF NumberOfReleasesBetween
    <3>3. FindIndex(all, c[i + 1]) = p[i + 1] - 1 /\ FindIndex(all, c[i]) = p[i] - 1
          /\ p[i + 1] \in 1 .. n /\ p[i] \in 1 .. n
      BY <1>4, <3>1
    <3>4. p[i] < p[i + 1]
      BY <1>5, <3>1
    <3> QED BY <2>1, <3>2, <3>3, <3>4
  <2>2. CASE ~(i < k)
    <3>1. f[i] = FindIndex(all, Last(all)) - FindIndex(all, c[i]) - 1 + 1
      BY <2>2 DEF NumberOfReleasesBetween
    <3>2. FindIndex(all, c[i]) = p[i] - 1 /\ p[i] \in 1 .. n
      BY <1>4
    <3> QED BY <1>1, <1>2, <1>7, <2>2, <3>1, <3>2
  <2> QED BY <2>1, <2>2
<1> DEFINE g == [i \in 1 .. k + 1 |-> IF i = k + 1 THEN n - k ELSE p[i] - i]
<1>9. ASSUME NEW i \in 1 .. k  PROVE f[i] \in Int /\ f[i] >= 0
  <2>1. k \in Nat /\ n \in Nat /\ p[i] \in 1 .. n
    BY <1>1, <1>2, <1>8
  <2>2. CASE i < k
    <3>1. f[i] = p[i + 1] - p[i] - 1 /\ p[i + 1] \in 1 .. n /\ p[i] < p[i + 1]
      BY <1>8, <2>2
    <3> HIDE DEF n, k
    <3> QED BY <2>1, <3>1
  <2>3. CASE ~(i < k)
    <3>1. f[i] = n - p[i]
      BY <1>8, <2>3
    <3> HIDE DEF n, k
    <3> QED BY <2>1, <3>1
  <2> QED BY <2>2, <2>3
<1>10. f \in [1 .. k -> Int]
  BY <1>9
<1>11. g \in [1 .. k + 1 -> Int]
  <2>1. \A i \in 1 .. k + 1 : i # k + 1 => i \in 1 .. k
    BY <1>1
  <2>2. \A i \in 1 .. k : p[i] - i \in Int
    BY <1>4
  <2>3. n - k \in Int
    BY <1>1, <1>2
  <2> QED BY <2>1, <2>2, <2>3
<1>12. ASSUME NEW i \in 1 .. k  PROVE f[i] = g[i + 1] - g[i]
  <2>1. i \in 1 .. k + 1 /\ i + 1 \in 1 .. k + 1 /\ i # k + 1
    BY <1>1
  <2>2. g[i] = p[i] - i /\ g[i + 1] = IF i + 1 = k + 1 THEN n - k ELSE p[i + 1] - (i + 1)
    BY <2>1
  <2> HIDE DEF g
  <2>3. CASE i < k
    <3>1. i + 1 # k + 1
      BY <1>1, <2>3
    <3> QED BY <1>8, <2>2, <2>3, <3>1
  <2>4. CASE ~(i < k)
    <3>1. i = k /\ f[i] = n - p[i] /\ p[i] \in 1 .. n /\ n \in Nat /\ k \in Nat
      BY <1>1, <1>2, <1>8, <2>4
    <3>2. g[i + 1] = n - k
      BY <2>2, <3>1
    <3> HIDE DEF n, k
    <3> QED BY <2>2, <3>1, <3>2
  <2> QED BY <2>3, <2>4
<1>13. g[1] = 0 /\ g[k + 1] = n - k
  <2>1. 1 \in 1 .. k + 1 /\ 1 # k + 1 /\ k + 1 \in 1 .. k + 1
    BY <1>1
  <2> QED BY <1>6, <2>1
<1> HIDE DEF g
<1>14. SumFunction(f) = n - k
  <2>1. SumFunction(f) = g[k + 1] - g[1]
    BY <1>1, <1>10, <1>11, <1>12, SumTelescopes
  <2> QED BY <1>1, <1>2, <1>13, <2>1
<1> QED BY <1>1, <1>2, <1>9, <1>14

\* The environments of a group, counted by the version they run.
Counts(f, G, runs, c, k) == f = [i \in 1 .. k |-> Cardinality({e \in G : runs[e] = c[i]})]

Distinct(c, k) == \A i, j \in 1 .. k : i # j => c[i] # c[j]

LEMMA CountByVersion ==
  ASSUME NEW G, IsFiniteSet(G), NEW runs, NEW c, NEW k \in Nat, Distinct(c, k),
         NEW f, Counts(f, G, runs, c, k)
  PROVE  SumFunction(f) = Cardinality({e \in G : \E i \in 1 .. k : runs[e] = c[i]})
<1> USE DEF Distinct, Counts
<1> DEFINE on(i) == {e \in G : runs[e] = c[i]}
           before(i) == {e \in G : \E j \in 1 .. k : j < i /\ runs[e] = c[j]}
           g == [i \in 1 .. k + 1 |-> Cardinality(before(i))]
<1>1. \A i : IsFiniteSet(on(i)) /\ Cardinality(on(i)) \in Nat
             /\ IsFiniteSet(before(i)) /\ Cardinality(before(i)) \in Nat
  <2> SUFFICES ASSUME NEW i
               PROVE  IsFiniteSet(on(i)) /\ Cardinality(on(i)) \in Nat
                      /\ IsFiniteSet(before(i)) /\ Cardinality(before(i)) \in Nat
    OBVIOUS
  <2>1. on(i) \subseteq G /\ before(i) \subseteq G
    OBVIOUS
  <2> HIDE DEF on, before
  <2> QED BY <2>1, FS_Subset, FS_CardinalityType
<1>2. ASSUME NEW i \in 1 .. k
      PROVE  before(i + 1) = before(i) \cup on(i) /\ before(i) \cap on(i) = {}
  <2>1. \A j \in 1 .. k : j < i + 1 <=> j < i \/ j = i
    OBVIOUS
  <2>2. before(i + 1) = before(i) \cup on(i)
    BY <2>1
  <2>3. before(i) \cap on(i) = {}
    OBVIOUS
  <2> QED BY <2>2, <2>3
<1>3. before(1) = {} /\ before(k + 1) = {e \in G : \E i \in 1 .. k : runs[e] = c[i]}
  <2>1. \A j \in 1 .. k : ~(j < 1) /\ j < k + 1
    OBVIOUS
  <2> QED BY <2>1
<1>4. \A i \in 1 .. k : f[i] = Cardinality(on(i))
  OBVIOUS
<1>5. DOMAIN f = 1 .. k /\ f = [i \in 1 .. k |-> f[i]]
  OBVIOUS
<1> HIDE DEF on, before
<1>6. f \in [1 .. k -> Int]
  BY <1>1, <1>4, <1>5
<1>7. g \in [1 .. k + 1 -> Int]
  BY <1>1
<1>8. ASSUME NEW i \in 1 .. k  PROVE f[i] = g[i + 1] - g[i]
  <2> DEFINE b == Cardinality(before(i))
             o == Cardinality(on(i))
             u == Cardinality(before(i) \cup on(i))
             x == Cardinality(before(i) \cap on(i))
  <2>1. u = b + o - x
    BY <1>1, FS_Union
  <2>2. Cardinality(before(i + 1)) = Cardinality(before(i)) + Cardinality(on(i))
    <3>1. x = 0 /\ Cardinality(before(i + 1)) = u
      BY <1>2, FS_EmptySet, Zenon
    <3>2. b \in Nat /\ o \in Nat
      BY <1>1
    <3> HIDE DEF b, o, u, x
    <3>3. u = b + o
      BY <2>1, <3>1, <3>2
    <3> QED BY <3>1, <3>3 DEF b, o
  <2>3. g[i + 1] = Cardinality(before(i + 1)) /\ g[i] = Cardinality(before(i))
    OBVIOUS
  <2>4. Cardinality(before(i)) \in Nat /\ Cardinality(on(i)) \in Nat /\ f[i] = Cardinality(on(i))
    BY <1>1, <1>4
  <2> HIDE DEF g
  <2> QED BY <2>2, <2>3, <2>4
<1>9. g[1] = Cardinality(before(1)) /\ g[k + 1] = Cardinality(before(k + 1)) /\ Cardinality(before(k + 1)) \in Nat
  BY <1>1
<1> HIDE DEF g
<1>10. SumFunction(f) = g[k + 1] - g[1]
  BY <1>6, <1>7, <1>8, SumTelescopes
<1>11. g[1] = 0
  BY <1>3, <1>9, FS_EmptySet
<1>12. SumFunction(f) = Cardinality(before(k + 1))
  BY <1>9, <1>10, <1>11
<1> QED BY <1>3, <1>12, Zenon

-----------------------------------------------------------------------------
(* The inductive invariant *)

\* What is deployed is in the overview, with the other releases.
DeployedInv ==
  \A a \in Apps, e \in Envs : deployed[a][e] \in releases[a] \cup {Nothing, NotDeployed}

IInv == TypeOK /\ DeployedInv

\* The versions of an app that run on some environment.
Running(a) == {deployed[a][e] : e \in Envs} \ {Nothing, NotDeployed}

LEMMA CardsOfApp ==
  ASSUME IInv, NEW a \in Known
  PROVE  /\ releases[a] \subseteq Versions /\ releases[a] \subseteq Int
         /\ Sorts(VersionsForApp(a), releases[a])
         /\ Len(VersionsForApp(a)) = Cardinality(releases[a])
         /\ Covers(Cards(a), VersionsForApp(a), releases[a], Running(a))
<1>1. a \in Apps /\ releases[a] # {} /\ releases[a] \subseteq Versions
  BY DEF Known, IInv, TypeOK
<1>2. releases[a] \subseteq Int /\ Versions \subseteq Int
  BY <1>1, PagesAssumption DEF Versions
<1>3. Running(a) \subseteq releases[a]
  BY <1>1 DEF Running, IInv, DeployedInv
<1>4. Sorts(VersionsForApp(a), releases[a]) /\ Len(VersionsForApp(a)) = Cardinality(releases[a])
  BY <1>1, DescendingSorts DEF VersionsForApp
<1>5. Sorts(DeployedReleases(a), Running(a))
  <2>1. Running(a) \subseteq Versions
    BY <1>1, <1>3
  <2>2. DeployedReleases(a) = Descending(Running(a))
    BY DEF DeployedReleases, Running
  <2> QED BY <2>1, <2>2, DescendingSorts
<1>6. Covers(Cards(a), VersionsForApp(a), releases[a], Running(a))
  BY <1>1, <1>2, <1>3, <1>4, <1>5, CardsCover DEF Cards
<1> QED BY <1>1, <1>2, <1>4, <1>6

LEMMA ShownFound ==
  ASSUME IInv, NEW r \in ShownReleases
  PROVE  r \in [app : Apps, version : Versions] /\ r.version \in releases[r.app]
<1>1. \A a \in Apps : releases[a] \subseteq Versions
  BY DEF IInv, TypeOK
<1>2. CASE \E a \in Lanes : \E v \in Range(Cards(a)) : r = [app |-> a, version |-> v]
  <2>0. PICK a \in Lanes : \E v \in Range(Cards(a)) : r = [app |-> a, version |-> v]
    BY <1>2
  <2>1. PICK v \in Range(Cards(a)) : r = [app |-> a, version |-> v]
    BY <2>0
  <2>2. a \in Known /\ a \in Apps
    BY DEF Lanes, SearchedApplications, FilteredApps, Known
  <2>3. Cards(a) \in Seq(releases[a])
    BY <2>2, CardsOfApp DEF Covers, Falls
  <2>4. v \in releases[a]
    BY <2>1, <2>3 DEF Range
  <2> QED BY <1>1, <2>1, <2>2, <2>4
<1>3. CASE \E v \in IF page \in Apps THEN releases[page] ELSE {} : page \in Apps /\ r = [app |-> page, version |-> v]
  BY <1>1, <1>3
<1> QED BY <1>2, <1>3 DEF ShownReleases

\* What a click leaves selected are entries of the parameter.
LEMMA ToggledEntries ==
  ASSUME teams \in Seq(Texts), NEW t \in Teams \cup {NoTeam}
  PROVE  Toggled(t) \in Seq(Texts)
<1>1. CASE ~Contains(teams, t)
  <2>1. Split(t) \in Seq(Texts)
    BY PagesAssumption
  <2> QED BY <1>1, <2>1 DEF Toggled
<1>2. CASE Contains(teams, t)
  <2> DEFINE I == {i \in 1 .. Len(teams) : teams[i] = t}
             k == Min(I)
  <2>1. I # {} /\ I \subseteq Nat
    BY <1>2 DEF Contains
  <2>2. k \in I
    BY <2>1, LeastElement DEF Min
  <2>3. k \in 1 .. Len(teams)
    BY <2>2
  <2>4. RemoveFirst(teams, t) = SubSeq(teams, 1, k - 1) \o SubSeq(teams, k + 1, Len(teams))
    BY <2>1 DEF RemoveFirst, RemoveAt, SelectInSeq
  <2> HIDE DEF k
  <2>5. SubSeq(teams, 1, k - 1) \in Seq(Texts) /\ SubSeq(teams, k + 1, Len(teams)) \in Seq(Texts)
    BY <2>3
  <2> QED BY <1>2, <2>4, <2>5 DEF Toggled
<1> QED BY <1>1, <1>2

LEMMA InitInv == Init => IInv
BY PagesAssumption DEF Init, IInv, TypeOK, DeployedInv

LEMMA UserInv == IInv /\ User => IInv'
<1> SUFFICES ASSUME IInv, User PROVE IInv'
  OBVIOUS
<1>1. UNCHANGED <<releases, deployed, team>>
  BY DEF User, Navigate, Search, SelectTeam, ClearTeams, OpenReleaseDialog, CloseReleaseDialog, overview
<1>2. /\ page' \in {"home", "environments", "locks"} \cup Apps
      /\ application' \in Searches \cup {Nothing}
      /\ teams' \in Seq(Texts) /\ Len(teams') <= MaxSelected
      /\ dialog' \in [app : Apps, version : Versions] \cup {Nothing}
  <2> USE DEF IInv, TypeOK
  <2>1. CASE \E p \in {"home", "environments", "locks"} \cup Apps : Navigate(p)
    BY <2>1 DEF Navigate
  <2>2. CASE \E text \in Searches \cup {Nothing} : Search(text)
    BY <2>2 DEF Search
  <2>3. CASE \E t \in TeamNames : SelectTeam(t)
    <3>1. TeamNames \subseteq Teams \cup {NoTeam}
      BY DEF TeamNames, TeamOf, Known
    <3> QED BY <2>3, <3>1, ToggledEntries DEF SelectTeam
  <2>4. CASE ClearTeams
    BY <2>4, PagesAssumption DEF ClearTeams
  <2>5. CASE \E r \in ShownReleases : OpenReleaseDialog(r)
    BY <2>5, ShownFound DEF OpenReleaseDialog
  <2>6. CASE CloseReleaseDialog
    BY <2>6 DEF CloseReleaseDialog
  <2> QED BY <2>1, <2>2, <2>3, <2>4, <2>5, <2>6 DEF User
<1> QED BY <1>1, <1>2 DEF IInv, TypeOK, DeployedInv

LEMMA OverviewInv == IInv /\ OverviewArrives => IInv'
<1> SUFFICES ASSUME IInv, OverviewArrives PROVE IInv'
  OBVIOUS
<1>1. UNCHANGED url
  BY DEF OverviewArrives, CreateRelease, Deploy, LockOrQueue, RemoveEnvironment, Cleanup, UndeployApplication
<1>2. ASSUME releases' \in [Apps -> SUBSET Versions],
             deployed' \in [Apps -> [Envs -> Versions \cup {NotDeployed, Nothing}]],
             team' \in [Apps -> Teams \cup {Nothing}],
             DeployedInv'
      PROVE  IInv'
  BY <1>1, <1>2 DEF IInv, TypeOK, url
<1> USE DEF IInv, TypeOK, DeployedInv
<1>3. CASE \E a \in Apps, v \in Versions, t \in Teams \cup {Nothing} : CreateRelease(a, v, t)
  BY <1>2, <1>3 DEF CreateRelease
<1>4. CASE \E a \in Apps, e \in Envs, v \in Versions : Deploy(a, e, v)
  BY <1>2, <1>4 DEF Deploy
<1>5. CASE \E a \in Apps, e \in Envs : LockOrQueue(a, e)
  BY <1>2, <1>5 DEF LockOrQueue
<1>6. CASE \E a \in Apps, e \in Envs : RemoveEnvironment(a, e)
  BY <1>2, <1>6 DEF RemoveEnvironment
<1>7. CASE \E a \in Apps, v \in Versions : Cleanup(a, v)
  <2>1. PICK a \in Apps, v \in Versions : Cleanup(a, v)
    BY <1>7
  <2>2. v \in Int
    BY PagesAssumption DEF Versions
  <2>3. \A e \in Envs : deployed[a][e] \in {Nothing, NotDeployed} \/ deployed[a][e] # v
    BY <2>1, <2>2 DEF Cleanup
  <2>4. /\ releases' = [releases EXCEPT ![a] = @ \ {v}]
        /\ deployed' = deployed /\ team' = team
    BY <2>1 DEF Cleanup
  <2>5. DeployedInv'
    BY <2>3, <2>4
  <2>6. releases' \in [Apps -> SUBSET Versions]
    BY <2>4
  <2> QED BY <1>2, <2>4, <2>5, <2>6
<1>8. CASE \E a \in Apps : UndeployApplication(a)
  BY <1>2, <1>8 DEF UndeployApplication
<1> QED BY <1>3, <1>4, <1>5, <1>6, <1>7, <1>8 DEF OverviewArrives

LEMMA Invariance == Spec => []IInv
<1>1. IInv /\ UNCHANGED vars => IInv'
  BY DEF IInv, TypeOK, DeployedInv, vars, overview, url
<1> QED BY <1>1, InitInv, UserInv, OverviewInv, PTL DEF Spec, Next

-----------------------------------------------------------------------------
(* The theorems *)

\* The pages and the URL keep their types.
THEOREM TypeCorrect == Spec => []TypeOK
<1> QED BY Invariance, PTL DEF IInv

\* Every release that a page shows is in the overview.
THEOREM ShownReleasesExist == Spec => []ReleasesAreFound
<1>1. ASSUME IInv PROVE ReleasesAreFound
  <2> SUFFICES ASSUME NEW r \in ShownReleases \cup ({ReleaseDialogParams} \ {Nothing})
               PROVE  /\ r.version \in releases[r.app]
                      /\ \A e \in Envs : deployed[r.app][e] \in {EnvironmentList(r.app)[e], NotDeployed, Nothing}
    BY DEF ReleasesAreFound
  <2>1. r.app \in Apps /\ r.version \in releases[r.app]
    <3>1. CASE r \in ShownReleases
      BY <1>1, <3>1, ShownFound
    <3>2. CASE r = ReleaseDialogParams /\ r # Nothing
      <4>1. r = dialog /\ dialog # Nothing /\ dialog.version \in releases[dialog.app]
        BY <3>2 DEF ReleaseDialogParams
      <4> QED BY <1>1, <4>1 DEF IInv, TypeOK
    <3> QED BY <3>1, <3>2
  <2>2. \A e \in Envs : deployed[r.app][e] \in releases[r.app] \cup {Nothing, NotDeployed}
    BY <1>1, <2>1 DEF IInv, DeployedInv
  <2> QED BY <2>1, <2>2 DEF EnvironmentList, DeployedVersion, ReleaseOptional
<1> QED BY <1>1, Invariance, PTL

\* The cards of a lane and the hidden releases add up to all releases.
THEOREM AllReleasesCounted == Spec => []HiddenAddUp
<1>1. ASSUME IInv PROVE HiddenAddUp
  <2> SUFFICES ASSUME NEW a \in Lanes
               PROVE  /\ \A i \in DOMAIN Cards(a) : Diff(a, i) >= 0
                      /\ Len(Cards(a)) + SumFunction([i \in DOMAIN Cards(a) |-> Diff(a, i)]) = Cardinality(releases[a])
    BY DEF HiddenAddUp
  <2> DEFINE c == Cards(a)
             all == VersionsForApp(a)
             f == [i \in DOMAIN c |-> Diff(a, i)]
  <2>1. a \in Known
    BY DEF Lanes, SearchedApplications, FilteredApps
  <2>2. /\ releases[a] \subseteq Int /\ Sorts(all, releases[a]) /\ Len(all) = Cardinality(releases[a])
        /\ Covers(c, all, releases[a], Running(a))
    BY <1>1, <2>1, CardsOfApp
  <2>3. DOMAIN c = 1 .. Len(c)
    BY <2>2 DEF Covers, Falls
  <2>4. Gaps(f, c, all)
    BY <2>3 DEF Diff, Gaps
  <2>5. \A i \in DOMAIN c : f[i] = Diff(a, i)
    OBVIOUS
  <2> HIDE DEF c, all, f
  <2>6. (\A i \in 1 .. Len(c) : f[i] >= 0) /\ Len(c) + SumFunction(f) = Len(all)
    <3> DEFINE S == releases[a]
               R == Running(a)
    <3>1. S \subseteq Int /\ Sorts(all, S) /\ Covers(c, all, S, R)
      BY <2>2
    <3> HIDE DEF S, R
    <3>2. AddUp(f, c, all)
      BY <2>4, <3>1, HiddenSum, Zenon
    <3> QED BY <3>2 DEF AddUp
  <2>7. \A i \in DOMAIN c : Diff(a, i) >= 0
    BY <2>3, <2>5, <2>6
  <2>8. Len(c) + SumFunction(f) = Cardinality(releases[a])
    BY <2>2, <2>6
  <2> QED BY <2>7, <2>8 DEF c, f
<1> QED BY <1>1, Invariance, PTL

\* Every deployment is on one card of its lane.
THEOREM AllDeploymentsShown == Spec => []DeploymentsAreShown
<1>1. ASSUME IInv PROVE DeploymentsAreShown
  <2> DEFINE number(a, i, v) == IF i \in DOMAIN Chips(a, v) THEN Chips(a, v)[i].deployed ELSE 0
  <2> SUFFICES ASSUME NEW a \in Lanes, NEW i \in DOMAIN Groups
               PROVE  SumFunction([n \in DOMAIN Cards(a) |-> number(a, i, Cards(a)[n])])
                        = Cardinality({e \in Groups[i] : deployed[a][e] \notin {Nothing, NotDeployed}})
    BY DEF DeploymentsAreShown
  <2> DEFINE c == Cards(a)
             G == Groups[i]
             runs == deployed[a]
             on(v) == {e \in G : runs[e] = v}
  <2>1. a \in Known /\ a \in Apps
    BY DEF Lanes, SearchedApplications, FilteredApps, Known
  <2>2. /\ releases[a] \subseteq Versions /\ Versions \subseteq Nat /\ NotDeployed \notin Versions
        /\ Covers(c, VersionsForApp(a), releases[a], Running(a))
    BY <1>1, <2>1, CardsOfApp, PagesAssumption DEF Versions, NotDeployed
  <2>3. /\ c \in Seq(releases[a]) /\ Len(c) \in Nat /\ DOMAIN c = 1 .. Len(c)
        /\ \A n \in 1 .. Len(c) : c[n] \in Nat \ {NotDeployed}
        /\ \A n, m \in 1 .. Len(c) : n < m => c[n] > c[m]
        /\ \A v \in Running(a) : \E n \in 1 .. Len(c) : c[n] = v
    <3>1. /\ c \in Seq(releases[a])
          /\ \A n, m \in 1 .. Len(c) : n < m => c[n] > c[m]
          /\ \A v \in Running(a) : \E n \in 1 .. Len(c) : c[n] = v
      BY <2>2 DEF Covers, Falls
    <3> HIDE DEF c
    <3>2. Len(c) \in Nat /\ DOMAIN c = 1 .. Len(c) /\ \A n \in 1 .. Len(c) : c[n] \in releases[a]
      BY <3>1
    <3>3. \A v \in releases[a] : v \in Nat \ {NotDeployed}
      BY <2>2
    <3> QED BY <3>1, <3>2, <3>3
  <2>4. G \subseteq Envs /\ IsFiniteSet(G)
    <3>1. G \subseteq Envs
      BY PagesAssumption
    <3> QED BY <3>1, PagesAssumption, FS_Subset
  <2>5. ASSUME NEW v  PROVE number(a, i, v) = Cardinality(on(v))
    <3>1. on(v) \subseteq G
      OBVIOUS
    <3>2. IsFiniteSet(on(v)) /\ Cardinality(on(v)) \in Nat
      BY <2>4, <3>1, FS_Subset, FS_CardinalityType
    <3>3. Cardinality(on(v)) = 0 <=> on(v) = {}
      BY <3>2, FS_EmptySet
    <3>4. i \in DOMAIN Chips(a, v) <=> on(v) # {}
      BY DEF Chips, DeployedAtGroups
    <3>5. CASE on(v) # {}
      <4>1. DeployedAtGroups(a, v)[i] = [environments |-> on(v), numberOfEnvsInGroup |-> Cardinality(G)]
        BY <3>5 DEF DeployedAtGroups
      <4>2. i \in DOMAIN DeployedAtGroups(a, v)
        BY <3>5 DEF DeployedAtGroups
      <4>3. Chips(a, v)[i] = EnvironmentGroupChip([environments |-> on(v), numberOfEnvsInGroup |-> Cardinality(G)])
        BY <4>1, <4>2 DEF Chips
      <4> DEFINE s == on(v)
      <4>4. Chips(a, v)[i].deployed = IF Cardinality(s) >= 2 THEN Cardinality(s) ELSE 1
        <5> HIDE DEF s
        <5>1. EnvironmentGroupChip([environments |-> s, numberOfEnvsInGroup |-> Cardinality(G)]).deployed
              = IF Cardinality(s) >= 2 THEN Cardinality(s) ELSE 1
          BY DEF EnvironmentGroupChip
        <5> QED BY <4>3, <5>1 DEF s
      <4>5. Cardinality(s) \in Nat /\ Cardinality(s) # 0
        BY <3>2, <3>3, <3>5
      <4>6. (IF Cardinality(s) >= 2 THEN Cardinality(s) ELSE 1) = Cardinality(s)
        <5> HIDE DEF s
        <5> QED BY <4>5
      <4> QED BY <3>4, <3>5, <4>4, <4>6
    <3>6. CASE on(v) = {}
      BY <3>3, <3>4, <3>6
    <3> QED BY <3>5, <3>6
  <2> DEFINE f == [n \in 1 .. Len(c) |-> Cardinality({e \in G : runs[e] = c[n]})]
  <2>6. [n \in DOMAIN Cards(a) |-> number(a, i, Cards(a)[n])] = f
    BY <2>3, <2>5
  <2>7. \A n, m \in 1 .. Len(c) : n # m => c[n] # c[m]
    <3>1. \A n, m \in 1 .. Len(c) : n # m => n < m \/ m < n
      BY <2>3
    <3> QED BY <2>3, <3>1
  <2>8. SumFunction(f) = Cardinality({e \in G : \E n \in 1 .. Len(c) : runs[e] = c[n]})
    <3>1. Distinct(c, Len(c)) /\ Counts(f, G, runs, c, Len(c)) /\ Len(c) \in Nat
      BY <2>3, <2>7 DEF Distinct, Counts
    <3> HIDE DEF c, G, runs, f
    <3> QED BY <2>4, <3>1, CountByVersion
  <2>9. \A e \in G : (\E n \in 1 .. Len(c) : runs[e] = c[n]) <=> runs[e] \notin {Nothing, NotDeployed}
    <3> SUFFICES ASSUME NEW e \in G
                 PROVE  (\E n \in 1 .. Len(c) : runs[e] = c[n]) <=> runs[e] \notin {Nothing, NotDeployed}
      OBVIOUS
    <3>1. runs[e] \notin {Nothing, NotDeployed} => runs[e] \in Running(a)
      BY <2>4 DEF Running
    <3> QED BY <2>3, <3>1, PagesAssumption
  <2>10. {e \in G : \E n \in 1 .. Len(c) : runs[e] = c[n]} = {e \in G : runs[e] \notin {Nothing, NotDeployed}}
    BY <2>9
  <2> QED BY <2>6, <2>8, <2>10, Zenon
<1> QED BY <1>1, Invariance, PTL
=============================================================================
