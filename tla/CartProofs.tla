----------------------------- MODULE CartProofs -----------------------------
(***************************************************************************)
(* Proofs about Cart, for all values of its constants.                      *)
(***************************************************************************)
EXTENDS Cart, SequenceTheorems, Induction

-----------------------------------------------------------------------------
(* Folds over a sequence: what every step keeps, the fold keeps *)

LEMMA AddToKeeps ==
  ASSUME NEW Good, NEW cart \in Good, NEW planned, NEW n \in Nat, DOMAIN planned = 1 .. n,
         \A c \in Good, i \in 1 .. n : AddTo(c, planned[i]) \in Good
  PROVE  FoldLeft(AddTo, cart, planned) \in Good
<1> DEFINE step == [x \in Good \X (1 .. n) |-> AddTo(x[1], planned[x[2]])]
           iter == CHOOSE f : f = [s \in SUBSET (1 .. n) |->
                     IF s = {} THEN cart ELSE AddTo(f[s \ {Max(s)}], planned[Max(s)])]
           W == {s \in SUBSET (1 .. n) : iter[s] \in Good}
<1>1. step \in [Good \X (1 .. n) -> Good]
  OBVIOUS
<1>2. \A c \in Good, i \in 1 .. n : step[<<c, i>>] = AddTo(c, planned[i])
  OBVIOUS
<1> HIDE DEF step
<1>3. \A s \in SUBSET (1 .. n) : s # {} => Max(s) \in 1 .. n /\ s \ {Max(s)} \in SUBSET (1 .. n)
  BY MaxOfIndices
<1>4. PICK f \in [SUBSET (1 .. n) -> Good] : IsFoldLeft(f, n, cart, step)
  BY <1>1, FoldLeftExists
<1>5. f = [s \in SUBSET (1 .. n) |->
             IF s = {} THEN cart ELSE AddTo(f[s \ {Max(s)}], planned[Max(s)])]
  BY <1>2, <1>3, <1>4 DEF IsFoldLeft
<1>6. iter = [s \in SUBSET (1 .. n) |->
                IF s = {} THEN cart ELSE AddTo(iter[s \ {Max(s)}], planned[Max(s)])]
  BY <1>5
<1> HIDE DEF iter
<1>7. {} \in W /\ \A s \in SUBSET (1 .. n) : s # {} /\ s \ {Max(s)} \in W => s \in W
  BY <1>3, <1>6
<1> HIDE DEF W
<1>8. 1 .. n \in W
  BY <1>7, FoldLeftInduction
<1>9. FoldLeft(AddTo, cart, planned) = iter[1 .. n]
  BY DEF FoldLeft, MapThenFoldSet, iter
<1> QED BY <1>8, <1>9 DEF W

LEMMA LockStepKeeps ==
  ASSUME NEW Good, NEW locked \in Good, NEW steps, NEW n \in Nat, DOMAIN steps = 1 .. n,
         \A c \in Good, i \in 1 .. n : LockStep(c, steps[i]) \in Good
  PROVE  FoldLeft(LockStep, locked, steps) \in Good
<1> DEFINE step == [x \in Good \X (1 .. n) |-> LockStep(x[1], steps[x[2]])]
           iter == CHOOSE f : f = [s \in SUBSET (1 .. n) |->
                     IF s = {} THEN locked ELSE LockStep(f[s \ {Max(s)}], steps[Max(s)])]
           W == {s \in SUBSET (1 .. n) : iter[s] \in Good}
<1>1. step \in [Good \X (1 .. n) -> Good]
  OBVIOUS
<1>2. \A c \in Good, i \in 1 .. n : step[<<c, i>>] = LockStep(c, steps[i])
  OBVIOUS
<1> HIDE DEF step
<1>3. \A s \in SUBSET (1 .. n) : s # {} => Max(s) \in 1 .. n /\ s \ {Max(s)} \in SUBSET (1 .. n)
  BY MaxOfIndices
<1>4. PICK f \in [SUBSET (1 .. n) -> Good] : IsFoldLeft(f, n, locked, step)
  BY <1>1, FoldLeftExists
<1>5. f = [s \in SUBSET (1 .. n) |->
             IF s = {} THEN locked ELSE LockStep(f[s \ {Max(s)}], steps[Max(s)])]
  BY <1>2, <1>3, <1>4 DEF IsFoldLeft
<1>6. iter = [s \in SUBSET (1 .. n) |->
                IF s = {} THEN locked ELSE LockStep(iter[s \ {Max(s)}], steps[Max(s)])]
  BY <1>5
<1> HIDE DEF iter
<1>7. {} \in W /\ \A s \in SUBSET (1 .. n) : s # {} /\ s \ {Max(s)} \in W => s \in W
  BY <1>3, <1>6
<1> HIDE DEF W
<1>8. 1 .. n \in W
  BY <1>7, FoldLeftInduction
<1>9. FoldLeft(LockStep, locked, steps) = iter[1 .. n]
  BY DEF FoldLeft, MapThenFoldSet, iter
<1> QED BY <1>8, <1>9 DEF W

\* The elements of w are elements of the list, at different indices of s.
TakenFrom(w, list, s) ==
  /\ Len(w) <= Cardinality(s)
  /\ \A k \in 1 .. Len(w) : \E i \in s : w[k] = list[i]
  /\ \A k, m \in 1 .. Len(w) : k # m => \E i, j \in s : i # j /\ w[k] = list[i] /\ w[m] = list[j]

LEMMA TakenFromMore ==
  ASSUME NEW S, NEW w \in Seq(S), NEW list, NEW s, NEW i \in s, IsFiniteSet(s), TakenFrom(w, list, s \ {i})
  PROVE  TakenFrom(w, list, s) /\ TakenFrom(Append(w, list[i]), list, s)
<1> DEFINE t == s \ {i}
           u == Append(w, list[i])
<1>1. Cardinality(s) \in Nat /\ Cardinality(t) = Cardinality(s) - 1 /\ t \subseteq s /\ i \notin t
  BY FS_CardinalityType, FS_RemoveElement
<1>2. TakenFrom(w, list, t)
  OBVIOUS
<1> HIDE DEF t
<1>3. Len(u) = Len(w) + 1 /\ Len(w) \in Nat /\ u[Len(w) + 1] = list[i] /\ \A k \in 1 .. Len(w) : u[k] = w[k]
  OBVIOUS
<1> HIDE DEF u
<1>4. TakenFrom(w, list, s)
  BY <1>1, <1>2, <1>3 DEF TakenFrom
<1>5. Len(u) <= Cardinality(s)
  BY <1>1, <1>2, <1>3 DEF TakenFrom
<1>6. \A k \in 1 .. Len(u) : k \in 1 .. Len(w) \/ k = Len(w) + 1
  BY <1>3
<1>7. ASSUME NEW k \in 1 .. Len(u)  PROVE \E j \in s : u[k] = list[j]
  BY <1>3, <1>4, <1>6 DEF TakenFrom
<1>8. ASSUME NEW k \in 1 .. Len(u), NEW m \in 1 .. Len(u), k # m
      PROVE  \E j, h \in s : j # h /\ u[k] = list[j] /\ u[m] = list[h]
  <2>1. CASE k \in 1 .. Len(w) /\ m \in 1 .. Len(w)
    <3>1. u[k] = w[k] /\ u[m] = w[m]
      BY <1>3, <2>1
    <3> QED BY <1>4, <1>8, <2>1, <3>1 DEF TakenFrom
  <2>2. CASE k \in 1 .. Len(w) /\ m = Len(w) + 1
    <3>1. PICK j \in t : w[k] = list[j]
      BY <1>2, <2>2 DEF TakenFrom
    <3> QED BY <1>1, <1>3, <2>2, <3>1
  <2>3. CASE k = Len(w) + 1 /\ m \in 1 .. Len(w)
    <3>1. PICK j \in t : w[m] = list[j]
      BY <1>2, <2>3 DEF TakenFrom
    <3> QED BY <1>1, <1>3, <2>3, <3>1
  <2> QED BY <1>6, <1>8, <2>1, <2>2, <2>3
<1>9. TakenFrom(u, list, s)
  BY <1>5, <1>7, <1>8 DEF TakenFrom
<1> QED BY <1>4, <1>9 DEF u

LEMMA WithoutKeeps ==
  ASSUME NEW S, NEW list \in Seq(S), NEW x
  PROVE  Without(list, x) \in Seq(S) /\ TakenFrom(Without(list, x), list, DOMAIN list)
<1> DEFINE n == Len(list)
           next(kept, y) == IF y = x THEN kept ELSE Append(kept, y)
           step == [z \in Seq(S) \X (1 .. n) |-> next(z[1], list[z[2]])]
           iter == CHOOSE f : f = [s \in SUBSET (1 .. n) |->
                     IF s = {} THEN <<>> ELSE next(f[s \ {Max(s)}], list[Max(s)])]
           W == {s \in SUBSET (1 .. n) : iter[s] \in Seq(S) /\ TakenFrom(iter[s], list, s)}
<1>0. n \in Nat /\ DOMAIN list = 1 .. n /\ \A i \in 1 .. n : list[i] \in S
  OBVIOUS
<1>1. step \in [Seq(S) \X (1 .. n) -> Seq(S)]
  BY <1>0
<1>2. \A c \in Seq(S), i \in 1 .. n : step[<<c, i>>] = next(c, list[i])
  OBVIOUS
<1> HIDE DEF step, n, next
<1>3. \A s \in SUBSET (1 .. n) : s # {} => Max(s) \in s /\ s \ {Max(s)} \in SUBSET (1 .. n)
  BY <1>0, MaxOfIndices
<1>4. PICK f \in [SUBSET (1 .. n) -> Seq(S)] : IsFoldLeft(f, n, <<>>, step)
  <2>1. <<>> \in Seq(S)
    OBVIOUS
  <2> QED BY <1>0, <1>1, <2>1, FoldLeftExists
<1>5. f = [s \in SUBSET (1 .. n) |->
             IF s = {} THEN <<>> ELSE next(f[s \ {Max(s)}], list[Max(s)])]
  BY <1>2, <1>3, <1>4 DEF IsFoldLeft
<1>6. iter = [s \in SUBSET (1 .. n) |->
                IF s = {} THEN <<>> ELSE next(iter[s \ {Max(s)}], list[Max(s)])]
  BY <1>5
<1> HIDE DEF iter
<1>7. \A s \in SUBSET (1 .. n) : IsFiniteSet(s)
  <2>1. IsFiniteSet(1 .. n)
    BY <1>0, FS_Interval
  <2> QED BY <2>1, FS_Subset
<1>8. {} \in W
  <2>1. iter[{}] = <<>> /\ Cardinality({}) = 0
    BY <1>6, FS_EmptySet
  <2>2. <<>> \in Seq(S) /\ TakenFrom(<<>>, list, {})
    BY <2>1 DEF TakenFrom
  <2> QED BY <2>1, <2>2
<1>9. ASSUME NEW s \in SUBSET (1 .. n), s # {}, s \ {Max(s)} \in W  PROVE s \in W
  <2> DEFINE w == iter[s \ {Max(s)}]
  <2>1. w \in Seq(S) /\ TakenFrom(w, list, s \ {Max(s)})
    BY <1>9
  <2>2. iter[s] = next(w, list[Max(s)]) /\ Max(s) \in s /\ list[Max(s)] \in S
    BY <1>0, <1>3, <1>6, <1>9
  <2> HIDE DEF w
  <2>3. TakenFrom(w, list, s) /\ TakenFrom(Append(w, list[Max(s)]), list, s)
    BY <1>7, <2>1, <2>2, TakenFromMore
  <2>4. iter[s] \in {w, Append(w, list[Max(s)])}
    BY <2>2 DEF next
  <2>5. w \in Seq(S) /\ Append(w, list[Max(s)]) \in Seq(S)
    BY <2>1, <2>2
  <2> QED BY <2>3, <2>4, <2>5
<1> HIDE DEF W
<1>10. 1 .. n \in W
  BY <1>0, <1>8, <1>9, FoldLeftInduction
<1>11. Without(list, x) = iter[1 .. n]
  BY <1>0 DEF Without, FoldLeft, MapThenFoldSet, iter, next
<1> QED BY <1>0, <1>10, <1>11 DEF W

-----------------------------------------------------------------------------
(* The plan *)

SameTarget(a, b) ==
  a.kind = b.kind /\ a.environment = b.environment /\ a.application = b.application

Repeatable == LockDeletions \cup {"deleteEnvFromApp"}

OneEach(plan) ==
  \A i, j \in DOMAIN plan : i # j /\ SameTarget(plan[i], plan[j]) => plan[i].kind \in Repeatable

\* A planned lock has an environment, and the kind of a deletion says whether it
\* names an app.
Fitting ==
  {a \in PlannedAction :
    /\ Creates(a) => a.environment \in Envs
    /\ Deletes(a) => (a.kind = "deleteEnvironmentLock" <=> a.application = Nothing)}

GoodPlans == {plan \in Seq(Fitting) : Len(plan) <= MaxActions /\ OneEach(plan)}

LEMMA GoodPlansArePlans ==
  ASSUME NEW plan \in GoodPlans
  PROVE  plan \in Plans /\ \A a \in ToSet(plan) : a \in Fitting
<1>1. plan \in Seq(PlannedAction)
  BY DEF GoodPlans, Fitting
<1>2. \A i \in DOMAIN plan : plan[i] \in Fitting
  BY DEF GoodPlans
<1> QED BY <1>1, <1>2 DEF GoodPlans, Plans, ToSet

LEMMA EmptyPlan == <<>> \in GoodPlans
BY CartAssumption DEF GoodPlans, OneEach

LEMMA SameTargetIsDuplicate ==
  ASSUME NEW a \in PlannedAction, NEW b \in PlannedAction, SameTarget(b, a), a.kind \notin Repeatable
  PROVE  Duplicates(b, a)
<1>1. a.kind \in {"createEnvironmentLock", "createEnvironmentApplicationLock", "deploy", "undeploy",
                 "prepareUndeploy"}
  BY DEF PlannedAction, Kinds, Repeatable, LockCreations, LockDeletions
<1>2. a.kind \in DOMAIN ComparedFields
      /\ \A f \in ComparedFields[a.kind] : f \in {"environment", "application"}
  BY <1>1 DEF ComparedFields
<1>3. b.kind = a.kind /\ b["environment"] = a["environment"] /\ b["application"] = a["application"]
  BY DEF SameTarget
<1> QED BY <1>2, <1>3 DEF Duplicates

LEMMA AddToGood ==
  ASSUME NEW cart \in GoodPlans, NEW a \in Fitting
  PROVE  AddTo(cart, a) \in GoodPlans
<1>1. CASE AddTo(cart, a) = cart
  BY <1>1
<1>2. CASE /\ AddTo(cart, a) = Append(cart, a) /\ Len(cart) + 1 <= MaxActions
           /\ \A b \in ToSet(cart) : ~Duplicates(b, a)
  <2> DEFINE plan == Append(cart, a)
  <2>1. cart \in Seq(Fitting) /\ OneEach(cart) /\ Len(cart) \in Nat /\ DOMAIN cart = 1 .. Len(cart)
    BY DEF GoodPlans
  <2>2. plan \in Seq(Fitting) /\ Len(plan) <= MaxActions /\ DOMAIN plan = 1 .. Len(cart) + 1
        /\ plan[Len(cart) + 1] = a /\ \A i \in 1 .. Len(cart) : plan[i] = cart[i]
    BY <1>2, <2>1
  <2>3. \A i \in 1 .. Len(cart) : SameTarget(cart[i], a) => a.kind \in Repeatable
    <3> SUFFICES ASSUME NEW i \in 1 .. Len(cart), SameTarget(cart[i], a), a.kind \notin Repeatable
                 PROVE  FALSE
      OBVIOUS
    <3>1. cart[i] \in PlannedAction /\ a \in PlannedAction /\ cart[i] \in ToSet(cart)
      BY <2>1 DEF Fitting, ToSet
    <3> QED BY <1>2, <3>1, SameTargetIsDuplicate
  <2>4. \A i \in 1 .. Len(cart) + 1 : i \in 1 .. Len(cart) \/ i = Len(cart) + 1
    BY <2>1
  <2> HIDE DEF plan
  <2>5. OneEach(plan)
    BY <2>1, <2>2, <2>3, <2>4 DEF OneEach, SameTarget
  <2> QED BY <1>2, <2>2, <2>5 DEF GoodPlans, plan
<1>3. MaxActions \in Nat /\ Len(cart) \in Nat
  BY CartAssumption DEF GoodPlans
<1> QED BY <1>1, <1>2, <1>3 DEF AddTo

LEMMA AddAllGood ==
  ASSUME NEW cart \in GoodPlans, NEW planned \in Seq(Fitting)
  PROVE  FoldLeft(AddTo, cart, planned) \in GoodPlans
<1>1. Len(planned) \in Nat /\ DOMAIN planned = 1 .. Len(planned)
      /\ \A i \in 1 .. Len(planned) : planned[i] \in Fitting
  OBVIOUS
<1>2. \A c \in GoodPlans, i \in 1 .. Len(planned) : AddTo(c, planned[i]) \in GoodPlans
  BY <1>1, AddToGood
<1> QED BY <1>1, <1>2, AddToKeeps

LEMMA WithoutGood ==
  ASSUME NEW plan \in GoodPlans, NEW x
  PROVE  Without(plan, x) \in GoodPlans
<1> DEFINE w == Without(plan, x)
<1>1. plan \in Seq(Fitting) /\ Len(plan) \in Nat /\ DOMAIN plan = 1 .. Len(plan)
      /\ Len(plan) <= MaxActions /\ OneEach(plan)
  BY DEF GoodPlans
<1>2. w \in Seq(Fitting) /\ TakenFrom(w, plan, DOMAIN plan)
  BY <1>1, WithoutKeeps
<1>3. Cardinality(DOMAIN plan) = Len(plan)
  BY <1>1, FS_Interval
<1> HIDE DEF w
<1>4. Len(w) \in Nat /\ DOMAIN w = 1 .. Len(w)
  BY <1>2
<1>5. Len(w) <= MaxActions
  BY <1>1, <1>2, <1>3, <1>4, CartAssumption DEF TakenFrom
<1>6. OneEach(w)
  <2> SUFFICES ASSUME NEW k \in 1 .. Len(w), NEW m \in 1 .. Len(w), k # m, SameTarget(w[k], w[m])
               PROVE  w[k].kind \in Repeatable
    BY <1>4 DEF OneEach
  <2>1. PICK i, j \in DOMAIN plan : i # j /\ w[k] = plan[i] /\ w[m] = plan[j]
    BY <1>2 DEF TakenFrom
  <2> QED BY <1>1, <2>1 DEF OneEach
<1> QED BY <1>2, <1>5, <1>6 DEF GoodPlans, w

LEMMA StampedFits ==
  ASSUME NEW a \in Fitting, message \in Reasons \cup {Nothing}, applies \in Nat, applies < MaxApplies
  PROVE  /\ Stamped(a) \in Fitting
         /\ Stamped(a).kind = a.kind /\ Stamped(a).environment = a.environment
         /\ Stamped(a).application = a.application
         /\ Creates(a) => Stamped(a).lockId = applies + 1 /\ (message # Nothing => Stamped(a).message = message)
         /\ ~Creates(a) => Stamped(a) = a
<1>1. applies + 1 \in 1 .. MaxApplies
  BY CartAssumption
<1>2. CASE Creates(a)
  <2> DEFINE b == [a EXCEPT !.lockId = applies + 1, !.message = IF message # Nothing THEN message ELSE @]
  <2>1. Stamped(a) = b
    BY <1>2 DEF Stamped
  <2>2. /\ b \in PlannedAction
        /\ b.kind = a.kind /\ b.environment = a.environment /\ b.application = a.application
        /\ b.lockId = applies + 1 /\ (message # Nothing => b.message = message)
    BY <1>1 DEF Fitting, PlannedAction
  <2> HIDE DEF b
  <2> QED BY <1>2, <2>1, <2>2 DEF Fitting, Creates, Deletes
<1>3. CASE ~Creates(a)
  BY <1>3 DEF Stamped
<1> QED BY <1>2, <1>3

-----------------------------------------------------------------------------
(* What the operations plan *)

LEMMA PlannedFits ==
  /\ \A e \in Envs : CreateEnvironmentLock(e) \in Fitting
  /\ \A a \in Apps, e \in Envs : CreateApplicationLock(a, e) \in Fitting
  /\ \A a \in Apps, e \in Envs, v \in Versions : Deploy(a, e, v) \in Fitting
<1>1. Blank \in [kind : {""}, environment : {Nothing}, application : {Nothing}, version : {Nothing},
                 lockId : {Nothing}, message : {Nothing}]
  BY DEF Blank
<1> USE DEF Fitting, PlannedAction, Kinds, LockCreations, LockDeletions, Creates, Deletes
<1>2. \A e \in Envs : CreateEnvironmentLock(e) \in Fitting
  BY <1>1 DEF CreateEnvironmentLock
<1>3. \A a \in Apps, e \in Envs : CreateApplicationLock(a, e) \in Fitting
  BY <1>1 DEF CreateApplicationLock
<1>4. \A a \in Apps, e \in Envs, v \in Versions : Deploy(a, e, v) \in Fitting
  BY <1>1 DEF Deploy
<1> QED BY <1>2, <1>3, <1>4

LEMMA OtherPlannedFits ==
  ASSUME NEW a \in Apps
  PROVE  /\ \A kind \in {"prepareUndeploy", "undeploy"} :
              [Blank EXCEPT !.kind = kind, !.application = a] \in Fitting
         /\ \A e \in Envs : [Blank EXCEPT !.kind = "deleteEnvFromApp", !.application = a, !.environment = e] \in Fitting
<1>1. Blank \in [kind : {""}, environment : {Nothing}, application : {Nothing}, version : {Nothing},
                 lockId : {Nothing}, message : {Nothing}]
  BY DEF Blank
<1> USE DEF Fitting, PlannedAction, Kinds, LockCreations, LockDeletions, Creates, Deletes
<1>2. \A kind \in {"prepareUndeploy", "undeploy"} : [Blank EXCEPT !.kind = kind, !.application = a] \in Fitting
  BY <1>1
<1>3. \A e \in Envs : [Blank EXCEPT !.kind = "deleteEnvFromApp", !.application = a, !.environment = e] \in Fitting
  BY <1>1
<1> QED BY <1>2, <1>3

LEMMA DeletionFits ==
  ASSUME NEW l \in Lock
  PROVE  DeleteLock(l) \in Fitting
<1>1. /\ l.environment \in Envs /\ l.application \in Apps \cup {Nothing}
      /\ l.lockId \in (1 .. MaxApplies) \cup {Nothing} \cup {k.lockId : k \in UNION ForeignApplies}
  <2>1. CASE l \in UNION ForeignApplies
    BY <2>1, CartAssumption
  <2>2. CASE l \in [environment : Envs, application : Apps \cup {Nothing}, lockId : 1 .. MaxApplies]
    BY <2>2
  <2> QED BY <2>1, <2>2 DEF Lock
<1>2. Blank \in [kind : {""}, environment : {Nothing}, application : {Nothing}, version : {Nothing},
                 lockId : {Nothing}, message : {Nothing}]
  BY DEF Blank
<1> DEFINE kind == IF l.application = Nothing THEN "deleteEnvironmentLock" ELSE "deleteEnvironmentApplicationLock"
<1>3. kind \in LockDeletions /\ kind \notin LockCreations /\ (kind = "deleteEnvironmentLock" <=> l.application = Nothing)
  BY DEF LockDeletions, LockCreations
<1> DEFINE a == [Blank EXCEPT !.kind = kind, !.environment = l.environment,
                              !.application = l.application, !.lockId = l.lockId]
<1>4. DeleteLock(l) = a
  BY DEF DeleteLock
<1> HIDE DEF kind
<1>5. /\ a \in [kind : {kind}, environment : Envs, application : {l.application}, version : {Nothing},
                lockId : {l.lockId}, message : {Nothing}]
  BY <1>1, <1>2
<1> HIDE DEF a
<1>6. a \in PlannedAction
  BY <1>1, <1>3, <1>5 DEF PlannedAction, Kinds
<1> QED BY <1>3, <1>4, <1>5, <1>6 DEF Fitting, Creates, Deletes

\* A list of the elements of a finite set.
LEMMA ListOfSet ==
  ASSUME NEW S, IsFiniteSet(S), NEW list \in SetToSeqs(S)
  PROVE  list \in Seq(S)
<1>1. Cardinality(S) \in Nat /\ list \in [1 .. Cardinality(S) -> S]
  BY FS_CardinalityType DEF SetToSeqs
<1> QED BY <1>1

LEMMA RemoveFirstKeeps ==
  ASSUME NEW S, NEW list \in Seq(S), NEW x
  PROVE  RemoveFirst(list, x) \in Seq(S)
<1>1. CASE \E i \in 1 .. Len(list) : list[i] = x
  <2> DEFINE I == {i \in 1 .. Len(list) : list[i] = x}
  <2>1. I \subseteq Nat /\ I # {}
    BY <1>1
  <2>2. Min(I) \in I
    <3>1. PICK i \in I : \A j \in I : i <= j
      BY <2>1, LeastElement
    <3> HIDE DEF I
    <3> QED BY <3>1 DEF Min
  <2>3. RemoveFirst(list, x) = SubSeq(list, 1, Min(I) - 1) \o SubSeq(list, Min(I) + 1, Len(list))
    BY <1>1, <2>1 DEF RemoveFirst, RemoveAt, SelectInSeq
  <2>4. Min(I) \in 1 .. Len(list)
    BY <2>2
  <2> HIDE DEF I
  <2>5. SubSeq(list, 1, Min(I) - 1) \in Seq(S)
    BY <2>4
  <2>6. SubSeq(list, Min(I) + 1, Len(list)) \in Seq(S)
    BY <2>4
  <2> QED BY <2>3, <2>5, <2>6
<1>2. CASE ~\E i \in 1 .. Len(list) : list[i] = x
  BY <1>2 DEF RemoveFirst
<1> QED BY <1>1, <1>2

-----------------------------------------------------------------------------
(* The inductive invariant *)

\* The cart is the plan and behind it removals of apps whose selection was open.
Extends(plan, cart) ==
  /\ Len(plan) <= Len(cart) /\ \A i \in 1 .. Len(plan) : cart[i] = plan[i]
  /\ \A i \in Len(plan) + 1 .. Len(cart) :
       cart[i].kind = "deleteEnvFromApp" /\ cart[i].application \in beside
UnderReview(cart) == \E plan \in {reviewed, <<>>} : Extends(plan, cart)

\* What can be in the cart while a confirmation is open.
DialogInv ==
  dialog => /\ \A a \in Apps : selection[a] # Closed => a \in beside
            /\ NewLockExists => message # Nothing
            /\ UnderReview(actions)

IInv ==
  /\ TypeOK
  /\ actions \in GoodPlans /\ \A r \in inFlight : r.actions \in GoodPlans
  /\ IsFiniteSet(serverLocks) /\ IsFiniteSet(locks)
  /\ DialogInv
  /\ LocksOfOneApply

LEMMA InitInv == Init => IInv
<1> SUFFICES ASSUME Init PROVE IInv
  OBVIOUS
<1>1. serverLocks \subseteq UNION ForeignApplies /\ locks = serverLocks
  BY DEF Init
<1>2. IsFiniteSet(serverLocks) /\ IsFiniteSet(locks)
  BY <1>1, CartAssumption, FS_Subset
<1>3. serverLocks \subseteq Lock /\ locks \subseteq Lock
  BY <1>1 DEF Lock
<1>4. actions \in GoodPlans /\ actions \in Plans /\ reviewed \in Plans
  BY EmptyPlan, GoodPlansArePlans DEF Init
<1>5. applies \in 0 .. MaxApplies /\ edits \in 0 .. MaxEdits
  BY CartAssumption DEF Init
<1>6. TypeOK
  BY <1>3, <1>4, <1>5 DEF TypeOK, Init
<1> QED BY <1>2, <1>4, <1>6 DEF IInv, DialogInv, LocksOfOneApply, Init

\* A click that leaves a plan within the rules.
LEMMA ClickInv ==
  ASSUME IInv, Click, actions' \in GoodPlans, UNCHANGED <<cartVars, selection>>
  PROVE  IInv'
<1>1. actions' \in Plans /\ edits' \in 0 .. MaxEdits
  BY GoodPlansArePlans, CartAssumption DEF IInv, TypeOK, Click
<1>2. TypeOK'
  BY <1>1 DEF IInv, TypeOK, cartVars
<1>3. ~dialog'
  BY DEF Click, Clickable, cartVars
<1> QED BY <1>2, <1>3 DEF IInv, DialogInv, LocksOfOneApply, cartVars

LEMMA AddActionsInv ==
  ASSUME IInv, NEW planned \in Seq(Fitting), AddActions(planned)
  PROVE  IInv'
<1>1. actions' \in GoodPlans
  BY AddAllGood DEF AddActions, IInv
<1> QED BY <1>1, ClickInv DEF AddActions

LEMMA AddingInv ==
  ASSUME IInv,
         \/ \E e \in Envs : AddEnvironmentLock(e)
         \/ \E g \in Groups : AddGroupLock(g)
         \/ \E l \in locks : DeleteEnvironmentLock(l) \/ DeleteAppLock(l)
         \/ \E a \in Apps, e \in Envs : AddApplicationLock(a, e)
         \/ \E a \in Apps, e \in Envs, v \in Versions : DeployAndLock(a, e, v)
         \/ \E a \in Apps : PrepareUndeployOrUndeploy(a)
  PROVE  IInv'
<1>0. SUFFICES \E planned \in Seq(Fitting) : AddActions(planned)
  BY AddActionsInv
<1>1. \A a, b \in Fitting : <<a>> \in Seq(Fitting) /\ <<a, b>> \in Seq(Fitting)
  OBVIOUS
<1>2. CASE \E e \in Envs : AddEnvironmentLock(e)
  BY <1>1, <1>2, PlannedFits DEF AddEnvironmentLock
<1>3. CASE \E g \in Groups : AddGroupLock(g)
  <2>1. PICK g \in Groups : AddGroupLock(g)
    BY <1>3
  <2>2. g \in Seq(Envs)
    BY CartAssumption
  <2>3. [i \in DOMAIN g |-> CreateEnvironmentLock(g[i])] \in Seq(Fitting)
    BY <2>2, PlannedFits
  <2> QED BY <2>1, <2>3 DEF AddGroupLock
<1>4. CASE \E l \in locks : DeleteEnvironmentLock(l) \/ DeleteAppLock(l)
  <2>1. \A l \in locks : DeleteLock(l) \in Fitting
    BY DeletionFits DEF IInv, TypeOK
  <2> QED BY <1>1, <1>4, <2>1 DEF DeleteEnvironmentLock, DeleteAppLock
<1>5. CASE \E a \in Apps, e \in Envs : AddApplicationLock(a, e)
  BY <1>1, <1>5, PlannedFits DEF AddApplicationLock
<1>6. CASE \E a \in Apps, e \in Envs, v \in Versions : DeployAndLock(a, e, v)
  BY <1>1, <1>6, PlannedFits DEF DeployAndLock
<1>7. CASE \E a \in Apps : PrepareUndeployOrUndeploy(a)
  BY <1>1, <1>7, OtherPlannedFits DEF PrepareUndeployOrUndeploy
<1> QED BY <1>2, <1>3, <1>4, <1>5, <1>6, <1>7

LEMMA DeleteItemInv ==
  ASSUME IInv, NEW i \in DOMAIN actions, DeleteItem(i)
  PROVE  IInv'
<1>1. actions' \in GoodPlans
  BY WithoutGood DEF DeleteItem, IInv
<1> QED BY <1>1, ClickInv DEF DeleteItem

LEMMA DeleteThemAllInv ==
  ASSUME IInv, NEW i \in DOMAIN actions, DeleteThemAll(i)
  PROVE  IInv'
<1> DEFINE similar == SimilarLocks(actions[i])
<1>1. similar \subseteq locks
  BY DEF SimilarLocks
<1>2. DeleteThemAll(i) <=>
        /\ similar # {}
        /\ \E apps \in SetToSeqs(ApplicationLocks(similar)), envs \in SetToSeqs(EnvironmentLocks(similar)) :
             AddActions([n \in DOMAIN (apps \o envs) |-> DeleteLock((apps \o envs)[n])])
  BY DEF DeleteThemAll
<1> HIDE DEF similar
<1>3. PICK apps \in SetToSeqs(ApplicationLocks(similar)), envs \in SetToSeqs(EnvironmentLocks(similar)) :
        AddActions([n \in DOMAIN (apps \o envs) |-> DeleteLock((apps \o envs)[n])])
  BY <1>2
<1>4. /\ IsFiniteSet(ApplicationLocks(similar)) /\ ApplicationLocks(similar) \subseteq Lock
      /\ IsFiniteSet(EnvironmentLocks(similar)) /\ EnvironmentLocks(similar) \subseteq Lock
  <2>1. ApplicationLocks(similar) \subseteq locks /\ EnvironmentLocks(similar) \subseteq locks
    BY <1>1 DEF ApplicationLocks, EnvironmentLocks
  <2> QED BY <2>1, FS_Subset DEF IInv, TypeOK
<1>5. apps \in Seq(Lock) /\ envs \in Seq(Lock)
  BY <1>3, <1>4, ListOfSet, SeqMonotonic
<1> DEFINE all == apps \o envs
<1>6. all \in Seq(Lock)
  BY <1>5
<1> HIDE DEF all
<1>7. [n \in DOMAIN all |-> DeleteLock(all[n])] \in Seq(Fitting)
  BY <1>6, DeletionFits
<1> QED BY <1>3, <1>7, AddActionsInv DEF all

LEMMA PrefixOfExtension ==
  ASSUME NEW S, NEW plan \in Seq(S), NEW cart \in Seq(S), Extends(plan, cart)
  PROVE  IsPrefix(plan, cart)
<1>1. Len(plan) <= Len(cart) /\ \A i \in 1 .. Len(plan) : cart[i] = plan[i]
  BY DEF Extends
<1>2. SubSeq(plan, 1, Len(plan)) = [i \in 1 .. Len(plan) |-> plan[i]]
  OBVIOUS
<1>3. SubSeq(cart, 1, Len(plan)) = [i \in 1 .. Len(plan) |-> cart[i]]
  BY <1>1
<1> QED BY <1>1, <1>2, <1>3 DEF IsPrefix

\* Carts that may come under an open confirmation.
Confirmable ==
  {cart \in GoodPlans :
    /\ (\E b \in ToSet(cart) : Creates(b)) => NewLockExists
    /\ UnderReview(cart)}

LEMMA RemovalConfirmable ==
  ASSUME reviewed \in Plans, NEW a \in beside, beside \subseteq Apps, NEW e \in Envs, NEW cart \in Confirmable
  PROVE  AddTo(cart, Removal(a, e)) \in Confirmable
<1> DEFINE removal == Removal(a, e)
           longer == Append(cart, removal)
<1>1. removal \in Fitting
  BY OtherPlannedFits DEF Removal
<1>2. removal.kind = "deleteEnvFromApp" /\ removal.application = a /\ ~Creates(removal)
  BY DEF Removal, Blank, Creates, LockCreations
<1>3. AddTo(cart, removal) \in GoodPlans /\ AddTo(cart, removal) \in {cart, longer}
  BY <1>1, AddToGood DEF Confirmable, AddTo
<1>4. cart \in Seq(Fitting)
  BY DEF Confirmable, GoodPlans
<1> HIDE DEF removal
<1>5. Len(longer) = Len(cart) + 1 /\ Len(cart) \in Nat /\ DOMAIN cart = 1 .. Len(cart)
      /\ DOMAIN longer = 1 .. Len(cart) + 1
      /\ longer[Len(cart) + 1] = removal /\ \A i \in 1 .. Len(cart) : longer[i] = cart[i]
  BY <1>1, <1>4
<1> HIDE DEF longer
<1>6. (\E b \in ToSet(longer) : Creates(b)) => NewLockExists
  <2>1. \A i \in 1 .. Len(cart) + 1 : i \in 1 .. Len(cart) \/ i = Len(cart) + 1
    BY <1>5
  <2>2. \A b \in ToSet(longer) : b \in ToSet(cart) \/ b = removal
    BY <1>5, <2>1 DEF ToSet
  <2> QED BY <1>2, <2>2 DEF Confirmable
<1>7. UnderReview(longer)
  <2>1. PICK plan \in {reviewed, <<>>} : Extends(plan, cart)
    BY DEF Confirmable, UnderReview
  <2>2. Len(plan) \in Nat
    BY DEF Plans
  <2>3. Extends(plan, longer)
    BY <1>2, <1>5, <2>1, <2>2 DEF Extends
  <2> QED BY <2>3 DEF UnderReview
<1>8. AddTo(cart, removal) \in Confirmable
  BY <1>3, <1>6, <1>7 DEF Confirmable
<1> QED BY <1>8 DEF removal

\* The dialog of the environments to remove an app from.
LEMMA SelectionInv ==
  ASSUME IInv,
         NEW a \in Apps,
         \/ OpenSelection(a)
         \/ \E e \in Envs : ToggleEnv(a, e)
         \/ CancelSelection(a)
         \/ \E existsAt \in SUBSET Envs : ConfirmSelection(a, existsAt)
  PROVE  IInv'
<1>1. UNCHANGED cartVars
  BY DEF OpenSelection, ToggleEnv, CancelSelection, ConfirmSelection
<1>2. ASSUME actions' \in GoodPlans, edits' \in 0 .. MaxEdits, DialogInv',
             NEW picked \in Seq(Envs) \cup {Closed}, selection' = [selection EXCEPT ![a] = picked]
      PROVE  IInv'
  <2>1. actions' \in Plans
    BY <1>2, GoodPlansArePlans
  <2>2. selection' \in [Apps -> Seq(Envs) \cup {Closed}]
    BY <1>2 DEF IInv, TypeOK
  <2>3. TypeOK'
    BY <1>1, <1>2, <2>1, <2>2 DEF IInv, TypeOK, cartVars
  <2> QED BY <1>1, <1>2, <2>3 DEF IInv, LocksOfOneApply, cartVars
<1>3. /\ actions \in GoodPlans /\ edits \in 0 .. MaxEdits /\ DialogInv
      /\ selection \in [Apps -> Seq(Envs) \cup {Closed}] /\ reviewed \in Plans /\ beside \subseteq Apps
  BY DEF IInv, TypeOK
<1>4. ASSUME UNCHANGED <<actions, edits>>, NEW picked \in Seq(Envs) \cup {Closed},
             selection' = [selection EXCEPT ![a] = picked],
             ~dialog \/ selection[a] # Closed \/ picked = Closed
      PROVE  IInv'
  <2>1. dialog => \A b \in Apps : selection'[b] # Closed => b \in beside
    BY <1>3, <1>4 DEF DialogInv
  <2>2. DialogInv'
    BY <1>1, <1>3, <1>4, <2>1 DEF DialogInv, NewLockExists, UnderReview, Extends, cartVars
  <2> QED BY <1>2, <1>3, <1>4, <2>2
<1>5. CASE OpenSelection(a)
  <2>1. <<>> \in Seq(Envs) \cup {Closed}
    OBVIOUS
  <2> QED BY <1>4, <1>5, <2>1 DEF OpenSelection, Clickable
<1>6. CASE \E e \in Envs : ToggleEnv(a, e)
  <2>1. PICK e \in Envs : ToggleEnv(a, e)
    BY <1>6
  <2>2. selection[a] \in Seq(Envs) /\ selection[a] # Closed /\ UNCHANGED <<actions, edits>>
    BY <1>3, <2>1 DEF ToggleEnv
  <2> DEFINE picked == IF Contains(selection[a], e) THEN RemoveFirst(selection[a], e) ELSE Append(selection[a], e)
  <2>3. picked \in Seq(Envs)
    BY <2>2, RemoveFirstKeeps
  <2>4. selection' = [selection EXCEPT ![a] = picked]
    BY <2>1 DEF ToggleEnv
  <2> HIDE DEF picked
  <2> QED BY <1>4, <2>2, <2>3, <2>4
<1>7. CASE CancelSelection(a)
  BY <1>4, <1>7 DEF CancelSelection
<1>8. CASE \E existsAt \in SUBSET Envs : ConfirmSelection(a, existsAt)
  <2>1. PICK existsAt \in SUBSET Envs : ConfirmSelection(a, existsAt)
    BY <1>8
  <2> DEFINE picked == selection[a]
             n == Len(picked)
             removals == [i \in DOMAIN picked |-> Removal(a, picked[i])]
  <2>2. picked \in Seq(Envs) /\ n \in Nat /\ DOMAIN picked = 1 .. n /\ \A i \in 1 .. n : picked[i] \in Envs
    BY <1>3, <2>1 DEF ConfirmSelection
  <2>3. actions' \in {actions, FoldLeft(AddTo, actions, removals)}
    BY <2>1 DEF ConfirmSelection
  <2>4. DOMAIN removals = 1 .. n /\ \A i \in 1 .. n : removals[i] = Removal(a, picked[i])
    BY <2>2
  <2>5. dialog => a \in beside
    BY <1>3, <2>1 DEF ConfirmSelection, DialogInv
  <2>6. edits' \in 0 .. MaxEdits /\ selection' = [selection EXCEPT ![a] = Closed]
    <3>1. edits < MaxEdits /\ edits' = edits + 1
      BY <2>1 DEF ConfirmSelection
    <3> QED BY <1>3, <2>1, <3>1, CartAssumption DEF ConfirmSelection
  <2> HIDE DEF picked, n, removals
  <2>7. actions' \in GoodPlans
    <3>1. ASSUME NEW cart \in GoodPlans, NEW i \in 1 .. n  PROVE AddTo(cart, removals[i]) \in GoodPlans
      <4>1. removals[i] \in Fitting
        BY <2>2, <2>4, OtherPlannedFits DEF Removal
      <4> QED BY <4>1, AddToGood
    <3>2. FoldLeft(AddTo, actions, removals) \in GoodPlans
      BY <1>3, <2>2, <2>4, <3>1, AddToKeeps
    <3> QED BY <1>3, <2>3, <3>2
  <2>8. DialogInv'
    <3> SUFFICES ASSUME dialog PROVE DialogInv'
      BY <1>1 DEF DialogInv, cartVars
    <3>1. actions \in Confirmable
      BY <1>3 DEF DialogInv, Confirmable, NewLockExists
    <3>2. \A cart \in Confirmable, i \in 1 .. n : AddTo(cart, removals[i]) \in Confirmable
      BY <1>3, <2>2, <2>4, <2>5, RemovalConfirmable
    <3>3. FoldLeft(AddTo, actions, removals) \in Confirmable
      BY <2>2, <2>4, <3>1, <3>2, AddToKeeps
    <3>4. actions' \in Confirmable
      BY <2>3, <3>1, <3>3
    <3>5. NewLockExists' => NewLockExists
      BY <3>4 DEF Confirmable, NewLockExists
    <3>6. UnderReview(actions)'
      BY <1>1, <3>4 DEF Confirmable, UnderReview, Extends, cartVars
    <3>7. \A b \in Apps : selection'[b] # Closed => b \in beside'
      BY <1>1, <1>3, <2>6 DEF DialogInv, cartVars
    <3> QED BY <1>1, <1>3, <3>5, <3>6, <3>7 DEF DialogInv, cartVars
  <2>9. Closed \in Seq(Envs) \cup {Closed}
    OBVIOUS
  <2> QED BY <1>2, <2>6, <2>7, <2>8, <2>9
<1> QED BY <1>5, <1>6, <1>7, <1>8

-----------------------------------------------------------------------------
(* The side bar *)

LEMMA SideBarInv ==
  ASSUME IInv,
         \/ \E m \in Reasons \cup {Nothing} : UpdateMessage(m)
         \/ ShowDialog
         \/ CancelConfirmation
  PROVE  IInv'
<1>1. CASE \E m \in Reasons \cup {Nothing} : UpdateMessage(m)
  <2>1. TypeOK'
    BY <1>1 DEF IInv, TypeOK, UpdateMessage
  <2>2. ~dialog'
    BY <1>1 DEF UpdateMessage, Clickable
  <2> QED BY <1>1, <2>1, <2>2 DEF IInv, DialogInv, LocksOfOneApply, UpdateMessage
<1>2. CASE ShowDialog
  <2>1. TypeOK'
    BY <1>2 DEF IInv, TypeOK, ShowDialog
  <2>2. DialogInv'
    <3>1. actions \in Seq(Fitting)
      BY DEF IInv, GoodPlans
    <3>2. UnderReview(actions)'
      BY <1>2, <3>1 DEF UnderReview, Extends, ShowDialog
    <3> QED BY <1>2, <3>2 DEF DialogInv, ShowDialog, CanApply, NewLockExists
  <2> QED BY <1>2, <2>1, <2>2 DEF IInv, LocksOfOneApply, ShowDialog
<1>3. CASE CancelConfirmation
  <2>1. <<>> \in Plans
    BY EmptyPlan, GoodPlansArePlans
  <2>2. TypeOK'
    BY <1>3, <2>1 DEF IInv, TypeOK, CancelConfirmation
  <2>3. ~dialog'
    BY <1>3 DEF CancelConfirmation
  <2> QED BY <1>3, <2>2, <2>3 DEF IInv, DialogInv, LocksOfOneApply, CancelConfirmation
<1> QED BY <1>1, <1>2, <1>3

\* What a submission writes into the cart.
LEMMA StampedPlan ==
  ASSUME IInv, ApplyActions
  PROVE  /\ actions' \in GoodPlans
         /\ DOMAIN actions' = DOMAIN actions
         /\ \A i \in DOMAIN actions :
              /\ SameTarget(actions'[i], actions[i])
              /\ Creates(actions'[i]) => actions'[i].lockId = applies + 1 /\ actions'[i].message = message
              /\ ~Creates(actions'[i]) => actions'[i] = actions[i]
         /\ message \in Reasons \/ \A i \in DOMAIN actions' : ~Creates(actions'[i])
<1>1. /\ message \in Reasons \cup {Nothing} /\ applies \in Nat /\ applies < MaxApplies
      /\ NewLockExists => message # Nothing
      /\ actions \in Seq(Fitting) /\ Len(actions) <= MaxActions /\ OneEach(actions)
  BY CartAssumption DEF IInv, TypeOK, DialogInv, GoodPlans, ApplyActions
<1>2. actions' = [i \in DOMAIN actions |-> Stamped(actions[i])]
  BY DEF ApplyActions
<1>3. \A i \in DOMAIN actions : actions[i] \in Fitting /\ (Creates(actions[i]) => NewLockExists)
  BY <1>1 DEF NewLockExists, ToSet
<1>4. ASSUME NEW i \in DOMAIN actions
      PROVE  /\ actions'[i] \in Fitting /\ SameTarget(actions'[i], actions[i])
             /\ Creates(actions'[i]) <=> Creates(actions[i])
             /\ Creates(actions'[i]) => actions'[i].lockId = applies + 1 /\ actions'[i].message = message
             /\ ~Creates(actions'[i]) => actions'[i] = actions[i]
  <2>1. actions'[i] = Stamped(actions[i]) /\ actions[i] \in Fitting
    BY <1>2, <1>3
  <2>2. Creates(Stamped(actions[i])) <=> Creates(actions[i])
    BY <1>1, <2>1, StampedFits DEF Creates
  <2> QED BY <1>1, <1>3, <2>1, <2>2, StampedFits DEF SameTarget
<1>5. DOMAIN actions' = DOMAIN actions /\ actions' \in Seq(Fitting) /\ Len(actions') = Len(actions)
  <2>1. DOMAIN actions' = DOMAIN actions /\ DOMAIN actions = 1 .. Len(actions) /\ Len(actions) \in Nat
    BY <1>1, <1>2
  <2>2. actions' \in [1 .. Len(actions) -> Fitting]
    BY <1>2, <1>4, <2>1
  <2> QED BY <2>1, <2>2, IsASeq, LenProperties
<1>6. OneEach(actions')
  BY <1>1, <1>4, <1>5 DEF OneEach, SameTarget
<1> QED BY <1>1, <1>3, <1>4, <1>5, <1>6 DEF GoodPlans

LEMMA ApplyActionsInv == IInv /\ ApplyActions => IInv'
<1> SUFFICES ASSUME IInv, ApplyActions PROVE IInv'
  OBVIOUS
<1> DEFINE sent == [id |-> applies + 1, actions |-> actions', applied |-> FALSE]
<1>1. inFlight' = inFlight \cup {sent} /\ applies' = applies + 1 /\ message' = Nothing /\ reviewed' = <<>>
      /\ spinner' = TRUE /\ dialog' = FALSE /\ applies < MaxApplies
      /\ UNCHANGED <<serverLocks, locks, selection, edits>> /\ beside' = {}
  BY DEF ApplyActions
<1>2. actions' \in GoodPlans /\ actions' \in Plans /\ <<>> \in Plans
  BY StampedPlan, EmptyPlan, GoodPlansArePlans
<1>3. applies \in Nat /\ applies + 1 \in 1 .. MaxApplies /\ applies' \in 0 .. MaxApplies
  BY <1>1, CartAssumption DEF IInv, TypeOK
<1>4. /\ sent \in Batch /\ sent.id = applies' /\ sent.actions \in GoodPlans
      /\ \A a \in ToSet(sent.actions) : Creates(a) => a.lockId = sent.id /\ a.message # Nothing
  <2>1. \A a \in ToSet(actions') : Creates(a) => a.lockId = applies + 1 /\ a.message = message /\ message \in Reasons
    BY StampedPlan DEF ToSet
  <2> QED BY <1>1, <1>2, <1>3, <2>1, CartAssumption DEF Batch
<1> HIDE DEF sent
<1>5. inFlight \subseteq Batch /\ \A r \in inFlight : r.id <= applies'
  <2>1. \A r \in inFlight : r.id \in Nat /\ r.id <= applies
    BY CartAssumption DEF IInv, TypeOK, Batch
  <2> QED BY <1>1, <1>3, <2>1 DEF IInv, TypeOK
<1>6. TypeOK'
  <2>1. sent.id <= applies'
    BY <1>3, <1>4
  <2>2. inFlight' \subseteq Batch /\ \A r \in inFlight' : r.id <= applies'
    BY <1>1, <1>4, <1>5, <2>1
  <2>3. message' \in Reasons \cup {Nothing} /\ reviewed' \in Plans /\ dialog' \in BOOLEAN /\ spinner' \in BOOLEAN
    BY <1>1, <1>2
  <2>4. edits' \in 0 .. MaxEdits /\ serverLocks' \subseteq Lock /\ locks' \subseteq Lock
        /\ selection' \in [Apps -> Seq(Envs) \cup {Closed}] /\ beside' \subseteq Apps
    BY <1>1 DEF IInv, TypeOK
  <2> QED BY <1>2, <1>3, <2>2, <2>3, <2>4 DEF TypeOK
<1>7. LocksOfOneApply'
  BY <1>1, <1>4 DEF IInv, LocksOfOneApply
<1> QED BY <1>1, <1>2, <1>4, <1>6, <1>7 DEF IInv, DialogInv

LEMMA AnswersInv == IInv /\ Answers => IInv'
<1> SUFFICES ASSUME IInv, NEW r \in inFlight, BatchSucceeded(r) \/ BatchFailed(r) PROVE IInv'
  BY DEF Answers
<1>1. /\ inFlight' \subseteq inFlight /\ actions' \in {actions, <<>>} /\ spinner' = FALSE
      /\ UNCHANGED <<message, dialog, applies, serverLocks, locks, selection, reviewed, beside, edits>>
  BY DEF BatchSucceeded, BatchFailed
<1>2. actions' \in GoodPlans /\ actions' \in Plans
  BY <1>1, EmptyPlan, GoodPlansArePlans DEF IInv
<1>3. TypeOK'
  BY <1>1, <1>2 DEF IInv, TypeOK
<1>4. NewLockExists' => NewLockExists
  BY <1>1 DEF NewLockExists, ToSet
<1>5. UnderReview(actions) => UnderReview(actions)'
  <2>1. Extends(<<>>, <<>>)'
    BY DEF Extends
  <2> QED BY <1>1, <2>1 DEF UnderReview, Extends
<1>6. DialogInv'
  BY <1>1, <1>4, <1>5 DEF IInv, DialogInv
<1> QED BY <1>1, <1>2, <1>3, <1>6 DEF IInv, LocksOfOneApply

-----------------------------------------------------------------------------
(* The server *)

\* What applying a batch leaves of the locks, and what it makes.
LEMMA AppliedLocks ==
  ASSUME IInv, NEW r \in inFlight
  PROVE  /\ FoldLeft(LockStep, serverLocks, r.actions)
              \subseteq serverLocks \cup
                {[environment |-> a.environment, application |-> a.application, lockId |-> a.lockId] : a \in {b \in ToSet(r.actions) : Creates(b)}}
         /\ IsFiniteSet(FoldLeft(LockStep, serverLocks, r.actions))
<1> DEFINE made(a) == [environment |-> a.environment, application |-> a.application, lockId |-> a.lockId]
           All == serverLocks \cup {made(a) : a \in {b \in ToSet(r.actions) : Creates(b)}}
           Good == {S \in SUBSET All : IsFiniteSet(S)}
           n == Len(r.actions)
<1>1. n \in Nat /\ DOMAIN r.actions = 1 .. n /\ \A i \in 1 .. n : r.actions[i] \in ToSet(r.actions)
  BY DEF IInv, GoodPlans, ToSet
<1>2. serverLocks \in Good
  BY DEF IInv
<1>3. ASSUME NEW S \in Good, NEW i \in 1 .. n
      PROVE  LockStep(S, r.actions[i]) \in Good
  <2> DEFINE a == r.actions[i]
  <2>1. CASE Deletes(a)
    <3>1. LockStep(S, a) = {l \in S : ~Names(a, l)}
      BY <2>1 DEF LockStep
    <3>2. {l \in S : ~Names(a, l)} \subseteq S
      OBVIOUS
    <3> QED BY <3>1, <3>2, FS_Subset
  <2>2. CASE ~Deletes(a) /\ Creates(a)
    <3>1. LockStep(S, a) = S \cup {made(a)}
      BY <2>2 DEF LockStep
    <3>2. made(a) \in All
      BY <1>1, <2>2
    <3>3. S \subseteq All /\ IsFiniteSet(S)
      OBVIOUS
    <3>4. \A m \in All : S \cup {m} \subseteq All /\ IsFiniteSet(S \cup {m})
      <4> HIDE DEF All
      <4> QED BY <3>3, FS_AddElement
    <3> QED BY <3>1, <3>2, <3>4, Zenon
  <2>3. CASE ~Deletes(a) /\ ~Creates(a)
    BY <2>3 DEF LockStep
  <2> QED BY <2>1, <2>2, <2>3
<1> HIDE DEF Good, n
<1>4. FoldLeft(LockStep, serverLocks, r.actions) \in Good
  BY <1>1, <1>2, <1>3, LockStepKeeps
<1> QED BY <1>4 DEF Good

LEMMA ServerAppliesInv ==
  ASSUME IInv, NEW r \in inFlight, ServerApplies(r)
  PROVE  IInv'
<1> DEFINE done == [r EXCEPT !.applied = TRUE]
<1>1. inFlight' = (inFlight \ {r}) \cup {done} /\ serverLocks' = FoldLeft(LockStep, serverLocks, r.actions)
      /\ UNCHANGED <<actions, message, dialog, spinner, applies, locks, selection, reviewed, beside, edits>>
  BY DEF ServerApplies
<1>2. r \in Batch /\ r.id <= applies /\ r.actions \in GoodPlans
  BY DEF IInv, TypeOK
<1>3. done \in Batch /\ done.id = r.id /\ done.actions = r.actions
  BY <1>2 DEF Batch
<1> HIDE DEF done
<1>4. inFlight' \subseteq Batch /\ \A q \in inFlight' : q.id <= applies' /\ q.actions \in GoodPlans
  BY <1>1, <1>2, <1>3 DEF IInv, TypeOK
<1>5. LocksOfOneApply'
  BY <1>1, <1>2, <1>3 DEF IInv, LocksOfOneApply
<1>6. serverLocks' \subseteq Lock
  <2>1. ASSUME NEW a \in ToSet(r.actions), Creates(a)
        PROVE  [environment |-> a.environment, application |-> a.application, lockId |-> a.lockId] \in Lock
    <3>1. a \in PlannedAction /\ a.environment \in Envs
      BY <1>2, <2>1, GoodPlansArePlans DEF Fitting
    <3>2. a.lockId \in 1 .. MaxApplies
      BY <1>2, <2>1 DEF IInv, LocksOfOneApply, Batch
    <3> QED BY <3>1, <3>2 DEF PlannedAction, Lock
  <2> QED BY <1>1, <2>1, AppliedLocks DEF IInv, TypeOK
<1>7. IsFiniteSet(serverLocks')
  BY <1>1, AppliedLocks
<1>8. TypeOK'
  BY <1>1, <1>4, <1>6 DEF IInv, TypeOK
<1>9. DialogInv'
  BY <1>1 DEF IInv, DialogInv, NewLockExists, UnderReview, Extends
<1> QED BY <1>1, <1>4, <1>5, <1>7, <1>8, <1>9 DEF IInv

LEMMA OverviewInv ==
  ASSUME IInv, (\E L \in ForeignApplies : OthersChange(L)) \/ OverviewArrives
  PROVE  IInv'
<1>1. /\ UNCHANGED <<actions, message, dialog, spinner, inFlight, applies, selection, reviewed, beside, edits>>
      /\ IsFiniteSet(serverLocks') /\ IsFiniteSet(locks')
      /\ serverLocks' \subseteq Lock /\ locks' \subseteq Lock
  <2>1. CASE \E L \in ForeignApplies : OthersChange(L)
    <3>1. PICK L \in ForeignApplies : OthersChange(L)
      BY <2>1
    <3>2. L \subseteq UNION ForeignApplies /\ L \subseteq Lock
      BY DEF Lock
    <3>3. IsFiniteSet(L)
      BY <3>2, CartAssumption, FS_Subset
    <3>4. IsFiniteSet(serverLocks \cup L) /\ IsFiniteSet(serverLocks \ L)
      BY <3>3, FS_Union, FS_Subset DEF IInv
    <3> QED BY <3>1, <3>2, <3>4 DEF OthersChange, IInv, TypeOK
  <2>2. CASE OverviewArrives
    BY <2>2 DEF OverviewArrives, IInv, TypeOK
  <2> QED BY <2>1, <2>2
<1>2. TypeOK'
  BY <1>1 DEF IInv, TypeOK
<1>3. DialogInv'
  BY <1>1 DEF IInv, DialogInv, NewLockExists, UnderReview, Extends
<1> QED BY <1>1, <1>2, <1>3 DEF IInv, LocksOfOneApply

LEMMA NextInv == IInv /\ [Next]_vars => IInv'
<1> SUFFICES ASSUME IInv, [Next]_vars PROVE IInv'
  OBVIOUS
<1>1. CASE Plan
  BY <1>1, AddingInv, SelectionInv, DeleteItemInv, DeleteThemAllInv DEF Plan
<1>2. CASE (\E m \in Reasons \cup {Nothing} : UpdateMessage(m)) \/ ShowDialog \/ CancelConfirmation
  BY <1>2, SideBarInv
<1>3. CASE ApplyActions
  BY <1>3, ApplyActionsInv
<1>4. CASE Answers
  BY <1>4, AnswersInv
<1>5. CASE \E r \in inFlight : ServerApplies(r)
  BY <1>5, ServerAppliesInv
<1>6. CASE (\E L \in ForeignApplies : OthersChange(L)) \/ OverviewArrives
  BY <1>6, OverviewInv
<1>7. CASE UNCHANGED vars
  <2>1. TypeOK' /\ DialogInv'
    BY <1>7 DEF IInv, TypeOK, DialogInv, NewLockExists, UnderReview, Extends, vars
  <2> QED BY <1>7, <2>1 DEF IInv, LocksOfOneApply, vars
<1> QED BY <1>1, <1>2, <1>3, <1>4, <1>5, <1>6, <1>7 DEF Next

-----------------------------------------------------------------------------
(* The theorems *)

LEMMA Invariance == Spec => []IInv
BY InitInv, NextInv, PTL DEF Spec

\* Every variable of the side bar keeps its type: no cart and no batch that is
\* sent exceeds the limit of the batch service.
THEOREM TypeCorrect == Spec => []TypeOK
<1>1. IInv => TypeOK
  BY DEF IInv
<1> QED BY <1>1, Invariance, PTL

\* No batch deploys an app twice to an environment, nor locks anything twice.
THEOREM OneForEachTarget == Spec => []OneActionPerTarget
<1>1. IInv => OneActionPerTarget
  BY DEF IInv, GoodPlans, OneEach, SameTarget, Repeatable, OneActionPerTarget
<1> QED BY <1>1, Invariance, PTL

\* A lock that is sent has a reason and the id of its own batch.
THEOREM OwnLockIds == Spec => []LocksOfOneApply
<1>1. IInv => LocksOfOneApply
  BY DEF IInv
<1> QED BY <1>1, Invariance, PTL

\* What is confirmed is what stood in the cart when the confirmation opened, or
\* nothing of it when the answer to an earlier batch has emptied it since, and
\* behind that removals from selections that lay open beside the confirmation.
THEOREM ReviewedThenConfirmed == Spec => []ConfirmedIsReviewed
<1>1. IInv => ConfirmedIsReviewed
  <2> SUFFICES ASSUME IInv, dialog PROVE ConfirmedIsReviewed
    BY DEF ConfirmedIsReviewed
  <2>1. actions \in Seq(PlannedAction) /\ reviewed \in Seq(PlannedAction) /\ <<>> \in Seq(PlannedAction)
    BY DEF IInv, TypeOK, Plans
  <2>2. PICK plan \in {reviewed, <<>>} : Extends(plan, actions)
    BY DEF IInv, DialogInv, UnderReview
  <2>3. IsPrefix(plan, actions)
    BY <2>1, <2>2, PrefixOfExtension
  <2> QED BY <2>2, <2>3 DEF ConfirmedIsReviewed, Extends
<1> QED BY <1>1, Invariance, PTL
=============================================================================
