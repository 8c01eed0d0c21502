--------------------------- MODULE PushQueueProofs ---------------------------
(***************************************************************************)
(* Proofs about the push queue, for any requests and bounds.  The theorems  *)
(* about successful answers are for a remote that reports a rejected ref    *)
(* only in the first round; the others are for any remote.                  *)
(***************************************************************************)
EXTENDS PushQueue, SequenceTheorems, FiniteSetTheorems, TLAPS

-----------------------------------------------------------------------------
(* Sequences *)

\* RemoveAt drops one element and moves the ones behind it.
LEMMA RemoveAtProperties ==
  ASSUME NEW S, NEW s \in Seq(S), NEW i \in 1 .. Len(s)
  PROVE  /\ RemoveAt(s, i) \in Seq(S)
         /\ Len(RemoveAt(s, i)) = Len(s) - 1
         /\ \A j \in 1 .. i - 1 : RemoveAt(s, i)[j] = s[j]
         /\ \A j \in i .. Len(s) - 1 : RemoveAt(s, i)[j] = s[j + 1]
<1> DEFINE front == SubSeq(s, 1, i - 1)
           back == SubSeq(s, i + 1, Len(s))
<1>1. front \in Seq(S) /\ Len(front) = i - 1 /\ \A j \in 1 .. i - 1 : front[j] = s[j]
  OBVIOUS
<1>2. /\ back \in Seq(S) /\ Len(back) = Len(s) - i
      /\ \A j \in 1 .. Len(s) - i : back[j] = s[j + i]
  OBVIOUS
<1>3. RemoveAt(s, i) = front \o back
  BY DEF RemoveAt
<1> HIDE DEF front, back
<1>4. /\ front \o back \in Seq(S) /\ Len(front \o back) = Len(front) + Len(back)
      /\ \A j \in 1 .. Len(front) + Len(back) :
           (front \o back)[j] = IF j <= Len(front) THEN front[j] ELSE back[j - Len(front)]
  BY <1>1, <1>2, ConcatProperties
<1>5. Len(s) \in Nat /\ i \in 1 .. Len(s)
  OBVIOUS
<1>6. ASSUME NEW j \in 1 .. i - 1  PROVE RemoveAt(s, i)[j] = s[j]
  BY <1>1, <1>2, <1>3, <1>4, <1>5
<1>7. ASSUME NEW j \in i .. Len(s) - 1  PROVE RemoveAt(s, i)[j] = s[j + 1]
  <2>1. j - (i - 1) \in 1 .. Len(s) - i /\ (j - (i - 1)) + i = j + 1 /\ j > i - 1
    BY <1>5
  <2>2. back[j - (i - 1)] = s[j + 1]
    BY <1>2, <2>1
  <2> QED BY <1>1, <1>2, <1>3, <1>4, <1>5, <2>1, <2>2
<1> QED BY <1>1, <1>2, <1>3, <1>4, <1>5, <1>6, <1>7

LEMMA RemoveAtSubset ==
  ASSUME NEW S, NEW s \in Seq(S), NEW i \in 1 .. Len(s)
  PROVE  ToSet(RemoveAt(s, i)) \subseteq ToSet(s)
<1>1. \A j \in 1 .. Len(s) - 1 : \E k \in 1 .. Len(s) : RemoveAt(s, i)[j] = s[k]
  <2> TAKE j \in 1 .. Len(s) - 1
  <2>1. CASE j < i
    <3>1. j \in 1 .. i - 1 /\ j \in 1 .. Len(s)
      BY <2>1
    <3>2. RemoveAt(s, i)[j] = s[j]
      BY <3>1, RemoveAtProperties
    <3> QED BY <3>1, <3>2
  <2>2. CASE j >= i
    <3>1. j \in i .. Len(s) - 1 /\ j + 1 \in 1 .. Len(s)
      BY <2>2
    <3>2. RemoveAt(s, i)[j] = s[j + 1]
      BY <3>1, RemoveAtProperties
    <3> QED BY <3>1, <3>2
  <2> QED BY <2>1, <2>2
<1>2. DOMAIN RemoveAt(s, i) = 1 .. Len(s) - 1
  BY RemoveAtProperties
<1> QED BY <1>1, <1>2 DEF ToSet

\* The authors of a branch's prefix are authors of the branch.
LEMMA PrefixAuthors ==
  ASSUME NEW S, NEW s \in Seq(S), NEW t \in Seq(S), IsPrefix(s, t)
  PROVE  Authors(s) \subseteq Authors(t)
<1>1. Len(s) <= Len(t) /\ SubSeq(s, 1, Len(s)) = SubSeq(t, 1, Len(s))
  BY DEF IsPrefix
<1>2. \A i \in 1 .. Len(s) : s[i] = t[i]
  <2> TAKE i \in 1 .. Len(s)
  <2>1. SubSeq(s, 1, Len(s))[i] = s[i]
    OBVIOUS
  <2>2. SubSeq(t, 1, Len(s))[i] = t[i]
    BY <1>1
  <2> QED BY <1>1, <2>1, <2>2
<1> QED BY <1>1, <1>2 DEF Authors

LEMMA AppendAuthors ==
  ASSUME NEW S, NEW s \in Seq(S), NEW c \in S
  PROVE  Authors(Append(s, c)) = Authors(s) \cup {c[1]}
<1>1. DOMAIN Append(s, c) = 1 .. Len(s) + 1 /\ DOMAIN s = 1 .. Len(s)
  OBVIOUS
<1>2. \A i \in 1 .. Len(s) : Append(s, c)[i] = s[i]
  OBVIOUS
<1>3. Append(s, c)[Len(s) + 1] = c
  OBVIOUS
<1>4. 1 .. Len(s) + 1 = (1 .. Len(s)) \cup {Len(s) + 1}
  OBVIOUS
<1> QED BY <1>1, <1>2, <1>3, <1>4 DEF Authors

LEMMA HeadTail ==
  ASSUME NEW S, NEW s \in Seq(S), s # <<>>
  PROVE  /\ Head(s) \in S /\ Head(s) = s[1] /\ Tail(s) \in Seq(S)
         /\ Len(Tail(s)) = Len(s) - 1
         /\ ToSet(s) = {Head(s)} \cup ToSet(Tail(s))
<1>1. /\ Head(s) \in S /\ Head(s) = s[1] /\ Tail(s) \in Seq(S) /\ Len(s) >= 1
      /\ Len(Tail(s)) = Len(s) - 1 /\ \A i \in 1 .. Len(s) - 1 : Tail(s)[i] = s[i + 1]
  BY EmptySeq
<1>2. ToSet(s) \subseteq {Head(s)} \cup ToSet(Tail(s))
  <2> SUFFICES ASSUME NEW i \in 1 .. Len(s), i # 1
               PROVE  s[i] \in ToSet(Tail(s))
    BY <1>1 DEF ToSet
  <2>1. i - 1 \in 1 .. Len(s) - 1 /\ Tail(s)[i - 1] = s[i]
    BY <1>1
  <2>2. i - 1 \in DOMAIN Tail(s)
    BY <1>1, <2>1
  <2> QED BY <2>1, <2>2 DEF ToSet
<1>3. {Head(s)} \cup ToSet(Tail(s)) \subseteq ToSet(s)
  <2>1. Head(s) \in ToSet(s)
    BY <1>1 DEF ToSet
  <2>2. \A i \in 1 .. Len(s) - 1 : i + 1 \in 1 .. Len(s)
    BY <1>1
  <2> QED BY <1>1, <2>1, <2>2 DEF ToSet
<1> QED BY <1>1, <1>2, <1>3

LEMMA AppendSet ==
  ASSUME NEW S, NEW s \in Seq(S), NEW e \in S
  PROVE  ToSet(Append(s, e)) = ToSet(s) \cup {e}
<1>1. DOMAIN Append(s, e) = (1 .. Len(s)) \cup {Len(s) + 1} /\ DOMAIN s = 1 .. Len(s)
  OBVIOUS
<1>2. \A i \in 1 .. Len(s) : Append(s, e)[i] = s[i]
  OBVIOUS
<1>3. Append(s, e)[Len(s) + 1] = e
  OBVIOUS
<1> QED BY <1>1, <1>2, <1>3 DEF ToSet

-----------------------------------------------------------------------------
(* Types *)

LEMMA ForeignersType == TypeOK => Foreigners \in Nat
<1> SUFFICES ASSUME TypeOK PROVE Foreigners \in Nat
  OBVIOUS
<1> DEFINE places == {i \in DOMAIN remote : remote[i][1] = Foreign}
<1>1. places \subseteq 1 .. Len(remote) /\ Len(remote) \in Nat
  BY DEF TypeOK, Branch
<1>2. IsFiniteSet(places)
  BY <1>1, FS_Interval, FS_Subset
<1> HIDE DEF places
<1>3. Cardinality(places) \in Nat
  BY <1>2, FS_CardinalityType
<1> QED BY <1>3 DEF Foreigners, places

LEMMA CallerType == ASSUME TypeOK, NEW r \in Requests, Caller(r) PROVE TypeOK'
<1> USE ConstantsAssumption DEF callerVars, batchVars, branchVars, outVars, TypeOK, Outcome, Answers,
                                NoAnswer
<1>1. CASE Enqueue(r)
  <2>1. queue' \in Seq(Requests) /\ Len(queue') = Len(queue) + 1 /\ accepted' \in Seq(Requests)
    BY <1>1, AppendProperties DEF Enqueue
  <2> QED BY <1>1, <2>1 DEF Enqueue
<1>2. CASE AddCancelled(r)
  BY <1>2 DEF AddCancelled
<1>3. CASE Cancel(r)
  BY <1>3 DEF Cancel
<1>4. CASE Return(r)
  BY <1>4 DEF Return
<1>5. CASE GiveUp(r)
  BY <1>5 DEF GiveUp
<1> QED BY <1>1, <1>2, <1>3, <1>4, <1>5 DEF Caller

LEMMA TakingType ==
  ASSUME TypeOK, Take \/ CheckFirst \/ Drain \/ Drained  PROVE TypeOK'
<1> USE ConstantsAssumption DEF callerVars, batchVars, branchVars, outVars, TypeOK, Outcome, Answers,
                                NoAnswer
<1>1. CASE Take
  <2>1. Head(queue) \in Requests /\ queue' \in Seq(Requests) /\ Len(queue') <= QueueCap
    BY <1>1, HeadTailProperties DEF Take
  <2>2. batch' \in Seq(Requests)
    BY <1>1, <2>1 DEF Take, Locals
  <2> QED BY <1>1, <2>1, <2>2 DEF Take, Locals
<1>2. CASE CheckFirst
  <2>1. result' = [result EXCEPT ![batch[1]] = "cancelled"] \/ UNCHANGED result
    BY <1>2 DEF CheckFirst
  <2>2. result' \in [Requests -> Outcome]
    BY <2>1
  <2> QED BY <1>2, <2>2 DEF CheckFirst
<1>3. CASE Drain
  <2>1. Head(queue) \in Requests /\ queue' \in Seq(Requests) /\ Len(queue') <= QueueCap
    BY <1>3, HeadTailProperties DEF Drain
  <2>2. Append(batch, Head(queue)) \in Seq(Requests)
    BY <2>1, AppendProperties
  <2>4. batch' \in Seq(Requests)
    BY <1>3, <2>2 DEF Drain
  <2>3. result' \in [Requests -> Outcome]
    BY <1>3, <2>1 DEF Drain
  <2> QED BY <1>3, <2>1, <2>4, <2>3 DEF Drain
<1>4. CASE Drained
  BY <1>4 DEF Drained
<1> QED BY <1>1, <1>2, <1>3, <1>4

LEMMA ApplyingType ==
  ASSUME TypeOK, ApplyOk \/ ApplyFailed \/ ApplyInvalidJson \/ Applied  PROVE TypeOK'
<1> USE ConstantsAssumption DEF callerVars, batchVars, branchVars, outVars, TypeOK, Outcome, Answers,
                                NoAnswer
<1>1. CASE ApplyOk
  <2>1. batch[next] \in Requests /\ commits[batch[next]] + 1 \in Nat \ {0}
    BY <1>1 DEF ApplyOk, Applying
  <2>2. <<batch[next], commits[batch[next]] + 1>> \in Commit
    BY <2>1 DEF Commit
  <2>3. local' \in Branch
    BY <1>1, <2>2 DEF ApplyOk, Branch
  <2>4. commits' \in [Requests -> Nat]
    BY <1>1, <2>1 DEF ApplyOk
  <2>5. changed' \subseteq Requests
    BY <1>1, <2>1 DEF ApplyOk
  <2> QED BY <1>1, <2>3, <2>4, <2>5 DEF ApplyOk
<1>2. CASE ApplyFailed
  <2>1. next \in 1 .. Len(batch)
    BY <1>2 DEF ApplyFailed, Applying
  <2>2. batch' \in Seq(Requests)
    BY <1>2, <2>1, RemoveAtProperties DEF ApplyFailed
  <2> QED BY <1>2, <2>2 DEF ApplyFailed
<1>3. CASE ApplyInvalidJson
  <2>1. /\ local' \in Branch
        /\ UNCHANGED <<remote, late, commits>>
    BY <1>3 DEF ApplyInvalidJson, FetchAndReset
  <2>2. /\ pc' \in {pc, "answer"} /\ err' \in {err, "failed"} /\ next' \in {next, 1}
        /\ redo' \in BOOLEAN /\ changed' \subseteq Requests
    BY <1>3 DEF ApplyInvalidJson
  <2>3. UNCHANGED <<callerVars, result, queue, accepted, batch, round, tries, outVars>>
    BY <1>3 DEF ApplyInvalidJson
  <2> QED BY <2>1, <2>2, <2>3
<1>4. CASE Applied
  <2>1. <<>> \in Seq(Requests)
    BY EmptySeq
  <2>2. UNCHANGED <<callerVars, result, queue, accepted, branchVars, outVars>>
    BY <1>4 DEF Applied
  <2>3. CASE batch = <<>> /\ pc' = "idle" /\ Locals(<<>>, NoAnswer)
    BY <2>1, <2>2, <2>3 DEF Locals
  <2>4. CASE pc' = "push" /\ err' = NoAnswer /\ UNCHANGED batchVars
    BY <2>2, <2>4
  <2> QED BY <1>4, <2>3, <2>4 DEF Applied
<1> QED BY <1>1, <1>2, <1>3, <1>4

LEMMA PushingType ==
  ASSUME TypeOK, PushAccepted \/ PushRefused \/ PushBroken \/ PushTimeout \/ PushDiverged
  PROVE  TypeOK'
<1> USE ConstantsAssumption DEF callerVars, batchVars, branchVars, outVars, TypeOK, Outcome, Answers,
                                NoAnswer
<1>1. CASE PushAccepted
  BY <1>1 DEF PushAccepted, Pushed
<1>2. CASE PushRefused
  <2>1. \A i \in DOMAIN batch : batch[i] \in Requests
    OBVIOUS
  <2>2. ToSet(batch) \subseteq Requests
    BY <2>1 DEF ToSet
  <2>3. refused' \subseteq Requests
    BY <1>2, <2>2 DEF PushRefused
  <2> QED BY <1>2, <2>3 DEF PushRefused, Pushed
<1>3. CASE PushBroken
  BY <1>3 DEF PushBroken, RetryOrFail
<1>4. CASE PushTimeout
  BY <1>4 DEF PushTimeout, RetryOrFail
<1>5. CASE PushDiverged
  BY <1>5 DEF PushDiverged
<1> QED BY <1>1, <1>2, <1>3, <1>4, <1>5

LEMMA AnsweringType ==
  ASSUME TypeOK, Reset \/ Post \/ Answer  PROVE TypeOK'
<1> USE ConstantsAssumption DEF callerVars, batchVars, branchVars, outVars, TypeOK, Outcome, Answers,
                                NoAnswer
<1>1. CASE Reset
  <2>1. /\ local' \in Branch
        /\ UNCHANGED <<remote, late, commits>>
    BY <1>1 DEF Reset, FetchAndReset
  <2>2. /\ pc' \in {"apply", "answer"} /\ err' \in {err, "failed"} /\ next' \in {next, 1}
        /\ redo' \in BOOLEAN /\ round' \in {1, 2} /\ tries' \in Nat
    <3>1. CASE /\ round' = 2 /\ next' = 1 /\ redo' = FALSE /\ tries' = 0
               /\ pc' = "apply" /\ UNCHANGED err
      BY <3>1
    <3>2. CASE /\ pc' = "answer" /\ err' = "failed"
               /\ UNCHANGED <<round, next, redo, tries>>
      BY <3>2
    <3> QED BY <1>1, <3>1, <3>2 DEF Reset
  <2>3. UNCHANGED <<callerVars, result, queue, accepted, batch, changed, outVars>>
    BY <1>1 DEF Reset
  <2> QED BY <2>1, <2>2, <2>3
<1>2. CASE Post
  <2>1. Authors(local) \subseteq Requests \cup {Foreign}
    BY DEF Authors, Branch, Commit
  <2> QED BY <1>2, <2>1 DEF Post
<1>3. CASE Answer
  <2>1. <<>> \in Seq(Requests)
    BY EmptySeq
  <2>2. batch[1] \in Requests /\ result' \in [Requests -> Outcome]
    <3>1. Len(batch) >= 1
      BY <1>3 DEF Answer
    <3>2. batch[1] \in Requests
      BY <3>1
    <3> QED BY <1>3, <3>2 DEF Answer
  <2>3. UNCHANGED <<callerVars, queue, accepted, branchVars, outVars>>
    BY <1>3 DEF Answer
  <2>4. CASE pc' = "idle" /\ Locals(<<>>, NoAnswer)
    BY <2>1, <2>2, <2>3, <2>4 DEF Locals
  <2>5. CASE /\ Len(batch) > 1 /\ batch' = Tail(batch)
             /\ UNCHANGED <<pc, next, redo, round, tries, changed, err>>
    <3>1. batch' \in Seq(Requests)
      BY <2>5, HeadTailProperties
    <3> QED BY <2>2, <2>3, <2>5, <3>1
  <2> QED BY <1>3, <2>4, <2>5 DEF Answer
<1> QED BY <1>1, <1>2, <1>3

LEMMA EnvironmentType == ASSUME TypeOK, Environment PROVE TypeOK'
<1> USE ConstantsAssumption DEF callerVars, batchVars, branchVars, outVars, TypeOK, Outcome, Answers,
                                NoAnswer
<1>1. CASE ForeignPush
  <2>1. <<Foreign, Foreigners + 1>> \in Commit
    BY ForeignersType DEF Commit
  <2>2. remote' \in Branch
    BY <1>1, <2>1 DEF ForeignPush, Branch
  <2> QED BY <1>1, <2>2 DEF ForeignPush
<1>2. ASSUME NEW b \in late, Land(b) PROVE TypeOK'
  BY <1>2 DEF Land
<1> QED BY <1>1, <1>2 DEF Environment

\* Every variable keeps its type, and the queue its capacity.
THEOREM TypeCorrect == Spec => []TypeOK
<1>1. Init => TypeOK
  BY ConstantsAssumption DEF Init, TypeOK, Outcome, Answers, NoAnswer, Branch
<1>2. TypeOK /\ [Next]_vars => TypeOK'
  <2> SUFFICES ASSUME TypeOK, [Next]_vars PROVE TypeOK'
    OBVIOUS
  <2>1. CASE UNCHANGED vars
    BY <2>1 DEF vars, callerVars, batchVars, branchVars, outVars, TypeOK
  <2> QED
    BY <2>1, CallerType, TakingType, ApplyingType, PushingType, AnsweringType, EnvironmentType
    DEF Next, Worker
<1> QED BY <1>1, <1>2, PTL DEF Spec

-----------------------------------------------------------------------------
(* What a success is worth *)

\* A step that leaves what was answered and the worker alone.
LEMMA CallerBacked ==
  ASSUME TypeOK, AnswersAreBacked, NEW r \in Requests, Caller(r)  PROVE AnswersAreBacked'
<1>1. UNCHANGED <<pc, batchVars, err, branchVars, outVars>>
  BY DEF Caller, Enqueue, AddCancelled, Cancel, Return, GiveUp
<1>2. \A q \in Requests : Ok(q)' => Ok(q)
  <2>1. CASE Enqueue(r)
    BY <2>1 DEF Enqueue, callerVars, Ok
  <2>2. CASE AddCancelled(r)
    BY <2>2 DEF AddCancelled, callerVars, Ok, TypeOK
  <2>3. CASE Cancel(r)
    BY <2>3 DEF Cancel, Ok
  <2>4. CASE Return(r)
    BY <2>4 DEF Return, Ok, TypeOK, NoAnswer
  <2>5. CASE GiveUp(r)
    BY <2>5 DEF GiveUp, Ok, TypeOK
  <2> QED BY <2>1, <2>2, <2>3, <2>4, <2>5 DEF Caller
<1>3. BatchIsApplied'
  BY <1>1 DEF AnswersAreBacked, BatchIsApplied, batchVars, branchVars, Authors, ToSet
<1>4. SuccessIsBacked'
  BY <1>1, <1>2 DEF AnswersAreBacked, SuccessIsBacked, batchVars, branchVars, outVars, Authors, ToSet
<1> QED BY <1>3, <1>4 DEF AnswersAreBacked

LEMMA TakingBacked ==
  ASSUME TypeOK, AnswersAreBacked, Take \/ CheckFirst \/ Drain \/ Drained
  PROVE  AnswersAreBacked'
<1> USE DEF callerVars, batchVars, branchVars, outVars, NoAnswer
<1>1. UNCHANGED <<answer, branchVars, outVars>>
  BY DEF Take, CheckFirst, Drain, Drained
<1>2. \A q \in Requests : Ok(q)' => Ok(q)
  BY HeadTailProperties DEF Take, CheckFirst, Drain, Drained, Ok, TypeOK
<1>3. BatchIsApplied'
  <2>1. CASE Take
    BY <2>1 DEF Take, Locals, BatchIsApplied
  <2>2. CASE CheckFirst
    BY <2>2 DEF CheckFirst, AnswersAreBacked, BatchIsApplied
  <2>3. CASE Drain
    <3>1. batch' # <<>>
      BY <2>3, HeadTail, AppendProperties DEF Drain, AnswersAreBacked, BatchIsApplied, TypeOK
    <3> QED BY <2>3, <3>1 DEF Drain, AnswersAreBacked, BatchIsApplied
  <2>4. CASE Drained
    BY <2>4 DEF Drained, AnswersAreBacked, BatchIsApplied, TypeOK
  <2> QED BY <2>1, <2>2, <2>3, <2>4
<1>4. pc' \in {"post", "answer"} => err' # NoAnswer
  BY DEF Take, CheckFirst, Drain, Drained, AnswersAreBacked, BatchIsApplied, Locals
<1>5. SuccessIsBacked'
  BY <1>1, <1>2, <1>4 DEF AnswersAreBacked, SuccessIsBacked, Authors
<1> QED BY <1>3, <1>5 DEF AnswersAreBacked

LEMMA ApplyingBacked ==
  ASSUME TypeOK, AnswersAreBacked, ApplyOk \/ ApplyFailed \/ ApplyInvalidJson \/ Applied
  PROVE  AnswersAreBacked'
<1> USE DEF callerVars, batchVars, branchVars, outVars, NoAnswer
<1>0. UNCHANGED <<answer, remote, outVars>> /\ pc = "apply"
  BY DEF ApplyOk, ApplyFailed, ApplyInvalidJson, Applied, Applying, FetchAndReset
<1>1. CASE ApplyOk
  <2> DEFINE r == batch[next]
  <2>1. next \in 1 .. Len(batch) /\ r \in Requests /\ r \in ToSet(batch)
    BY <1>1 DEF ApplyOk, Applying, TypeOK, ToSet
  <2>2. <<r, commits[r] + 1>> \in Commit
    BY <2>1 DEF Commit, TypeOK
  <2>3. Authors(local') = Authors(local) \cup {r}
    BY <1>1, <2>2, AppendAuthors DEF ApplyOk, TypeOK, Branch
  <2>4. changed \subseteq changed' /\ r \in changed'
    BY <1>0, <1>1, <2>1 DEF ApplyOk, AnswersAreBacked, BatchIsApplied, TypeOK
  <2>5. \A i \in 1 .. next' - 1 : batch[i] \in Authors(local') \cap changed'
    <3> TAKE i \in 1 .. next' - 1
    <3>1. CASE i = next
      BY <2>3, <2>4, <3>1
    <3>2. CASE i # next
      <4>1. i \in 1 .. next - 1
        BY <1>1, <2>1, <3>2 DEF ApplyOk
      <4> QED BY <1>0, <2>3, <2>4, <4>1 DEF AnswersAreBacked, BatchIsApplied
    <3> QED BY <3>1, <3>2
  <2>6. UNCHANGED <<result, pc, batch, redo, round, err>> /\ next' = next + 1
    BY <1>1 DEF ApplyOk
  <2> HIDE DEF r
  <2>7. BatchIsApplied'
    BY <1>0, <2>1, <2>4, <2>5, <2>6 DEF AnswersAreBacked, BatchIsApplied, Authors
  <2>8. Authors(local)' = Authors(local) \cup {r} /\ Authors(remote)' = Authors(remote)
    BY <1>0, <2>3 DEF Authors
  <2>9. SuccessIsBacked'
    BY <1>0, <2>6, <2>8 DEF AnswersAreBacked, SuccessIsBacked, Ok
  <2> QED BY <2>7, <2>9 DEF AnswersAreBacked
<1>2. CASE ApplyFailed
  <2>1. next \in 1 .. Len(batch) /\ batch[next] \in Requests
    BY <1>2 DEF ApplyFailed, Applying, TypeOK
  <2>2. UNCHANGED <<pc, next, redo, round, changed, err, local>>
    BY <1>2 DEF ApplyFailed
  <2>3. /\ Len(batch') = Len(batch) - 1 /\ ToSet(batch') \subseteq ToSet(batch)
        /\ \A i \in 1 .. next - 1 : batch'[i] = batch[i]
    BY <1>2, <2>1, RemoveAtProperties, RemoveAtSubset DEF ApplyFailed, TypeOK
  <2>4. BatchIsApplied'
    <3>1. next' <= Len(batch') + 1
      BY <2>1, <2>2, <2>3 DEF TypeOK
    <3>2. \A i \in 1 .. next - 1 : batch'[i] \in Authors(local) \cap changed
      BY <1>0, <2>3 DEF AnswersAreBacked, BatchIsApplied
    <3> QED BY <1>0, <2>2, <2>3, <3>1, <3>2 DEF AnswersAreBacked, BatchIsApplied, ToSet, Authors
  <2>5. \A q \in Requests : Ok(q)' => Ok(q)
    BY <1>0, <1>2, <2>1 DEF ApplyFailed, Ok, TypeOK
  <2>6. SuccessIsBacked'
    BY <1>0, <2>2, <2>5 DEF AnswersAreBacked, SuccessIsBacked, Authors
  <2> QED BY <2>4, <2>6 DEF AnswersAreBacked
<1>3. CASE ApplyInvalidJson
  <2>1. local' \in {local, remote} /\ UNCHANGED <<result, batch, round>>
    BY <1>3 DEF ApplyInvalidJson, FetchAndReset
  <2>2. round = 1 /\ batch # <<>>
    BY <1>3, <1>0 DEF ApplyInvalidJson, Applying, AnswersAreBacked, BatchIsApplied, TypeOK
  <2>3. \/ pc' = "apply" /\ next' = 1
        \/ pc' = "answer" /\ err' = "failed"
    BY <1>0, <1>3 DEF ApplyInvalidJson
  <2>4. BatchIsApplied'
    BY <2>1, <2>2, <2>3 DEF BatchIsApplied, TypeOK
  <2>5. Authors(remote)' = Authors(remote) /\ Authors(local)' \in {Authors(local), Authors(remote)}
    BY <1>0, <2>1 DEF Authors
  <2>6. SuccessIsBacked'
    BY <1>0, <2>1, <2>3, <2>5 DEF AnswersAreBacked, SuccessIsBacked, Ok
  <2> QED BY <2>4, <2>6 DEF AnswersAreBacked
<1>4. CASE Applied
  <2>1. UNCHANGED <<result, branchVars>>
    BY <1>4 DEF Applied
  <2>2. \/ pc' = "idle" /\ Locals(<<>>, NoAnswer)
        \/ pc' = "push" /\ batch # <<>> /\ UNCHANGED batchVars
    BY <1>4 DEF Applied
  <2>3. ToSet(batch) \subseteq Authors(local) \cap changed
    <3>1. next = Len(batch) + 1
      BY <1>0, <1>4 DEF Applied, AnswersAreBacked, BatchIsApplied, TypeOK
    <3>2. DOMAIN batch = 1 .. next - 1
      BY <3>1 DEF TypeOK
    <3> QED BY <1>0, <3>2 DEF AnswersAreBacked, BatchIsApplied, ToSet
  <2>4. CASE pc' = "idle" /\ Locals(<<>>, NoAnswer)
    BY <1>0, <2>1, <2>4 DEF AnswersAreBacked, BatchIsApplied, SuccessIsBacked, Locals, Authors, Ok
  <2>5. CASE pc' = "push" /\ batch # <<>> /\ UNCHANGED batchVars
    BY <1>0, <2>1, <2>3, <2>5 DEF AnswersAreBacked, BatchIsApplied, SuccessIsBacked, Authors, Ok, ToSet
  <2> QED BY <2>2, <2>4, <2>5
<1> QED BY <1>1, <1>2, <1>3, <1>4

LEMMA PushingBacked ==
  ASSUME TypeOK, AnswersAreBacked,
         PushAccepted \/ PushRefused \/ PushBroken \/ PushTimeout \/ PushDiverged
  PROVE  AnswersAreBacked'
<1> USE DEF callerVars, batchVars, branchVars, outVars, NoAnswer
<1>1. /\ UNCHANGED <<result, answer, batch, next, redo, round, changed, local, announced, seen>>
      /\ pc = "push" /\ pc' \in {"push", "post", "reset"}
  BY DEF PushAccepted, PushRefused, PushBroken, PushTimeout, PushDiverged, Pushed, RetryOrFail
<1>2. BatchIsApplied'
  BY <1>1 DEF AnswersAreBacked, BatchIsApplied, Authors, ToSet
<1>3. Authors(remote) \subseteq Authors(remote') /\ Authors(local)' = Authors(local)
  <2>1. remote' = remote \/ (FastForward /\ remote' = local)
    BY DEF PushAccepted, PushRefused, PushBroken, PushTimeout, PushDiverged
  <2>2. FastForward => Authors(remote) \subseteq Authors(local)
    BY PrefixAuthors DEF FastForward, TypeOK, Branch
  <2> QED BY <1>1, <2>1, <2>2 DEF Authors
<1>4. pc' = "post" /\ err' = NoAnswer => remote' = local \/ ToSet(batch) \subseteq refused'
  <2>1. CASE PushAccepted
    BY <2>1 DEF PushAccepted
  <2>2. CASE PushRefused
    BY <2>2 DEF PushRefused, Pushed, TypeOK
  <2>3. CASE PushBroken
    BY <2>3 DEF PushBroken, RetryOrFail
  <2>4. CASE PushTimeout
    BY <2>4 DEF PushTimeout, RetryOrFail
  <2>5. CASE PushDiverged
    BY <2>5 DEF PushDiverged
  <2> QED BY <2>1, <2>2, <2>3, <2>4, <2>5
<1>5. pc' = "post" /\ err' = NoAnswer =>
        Authors(remote)' = Authors(local) \/ ToSet(batch) \subseteq refused'
  BY <1>4 DEF Authors
<1>9. refused \subseteq refused'
  BY DEF PushAccepted, PushRefused, PushBroken, PushTimeout, PushDiverged
<1>6. ToSet(batch') \subseteq Authors(local)
  BY <1>1 DEF AnswersAreBacked, BatchIsApplied
<1>7. Authors(remote') = Authors(remote)'
  BY DEF Authors
<1>8. SuccessIsBacked'
  BY <1>1, <1>3, <1>5, <1>6, <1>7, <1>9 DEF AnswersAreBacked, SuccessIsBacked, Ok, ToSet
<1> QED BY <1>2, <1>8 DEF AnswersAreBacked

LEMMA AnsweringBacked ==
  ASSUME TypeOK, AnswersAreBacked, Reset \/ Post \/ Answer  PROVE AnswersAreBacked'
<1> USE DEF callerVars, batchVars, branchVars, outVars, NoAnswer
<1>1. CASE Reset
  <2>1. UNCHANGED <<result, answer, batch, changed, remote, outVars>> /\ local' \in {local, remote}
    BY <1>1 DEF Reset, FetchAndReset
  <2>2. \/ pc' = "apply" /\ next' = 1 /\ round' = 2 /\ redo' = FALSE
        \/ pc' = "answer" /\ err' = "failed" /\ UNCHANGED <<round, redo>>
    BY <1>1 DEF Reset
  <2>3. Authors(remote)' = Authors(remote) /\ Authors(local)' \in {Authors(local), Authors(remote)}
    BY <2>1 DEF Authors
  <2>4. batch # <<>> /\ ToSet(batch) \subseteq changed /\ (round = 2 => ~redo)
    BY <1>1 DEF Reset, AnswersAreBacked, BatchIsApplied
  <2>5. BatchIsApplied'
    BY <2>1, <2>2, <2>4 DEF BatchIsApplied, ToSet, TypeOK
  <2>6. SuccessIsBacked'
    BY <2>1, <2>2, <2>3 DEF AnswersAreBacked, SuccessIsBacked, Ok
  <2> QED BY <2>5, <2>6 DEF AnswersAreBacked
<1>2. CASE Post
  <2>1. /\ UNCHANGED <<result, answer, batchVars, err, branchVars>>
        /\ pc = "post" /\ pc' = "answer"
        /\ announced' = announced \cup changed /\ seen' = Authors(local)
        /\ refused' = refused
    BY <1>2 DEF Post
  <2>2. BatchIsApplied'
    BY <2>1 DEF AnswersAreBacked, BatchIsApplied
  <2>3. Authors(remote)' = Authors(remote) /\ Authors(local)' = Authors(local) /\ ToSet(batch)' = ToSet(batch)
    BY <2>1 DEF Authors, ToSet
  <2>4. ToSet(batch) \subseteq Authors(local) \cap changed
    BY <2>1 DEF AnswersAreBacked, BatchIsApplied
  <2>5. SuccessIsBacked'
    BY <2>1, <2>3, <2>4 DEF AnswersAreBacked, SuccessIsBacked, Ok
  <2> QED BY <2>2, <2>5 DEF AnswersAreBacked
<1>3. CASE Answer
  <2> DEFINE r == batch[1]
  <2>1. UNCHANGED <<answer, branchVars, outVars>> /\ pc = "answer" /\ batch # <<>>
    BY <1>3 DEF Answer, AnswersAreBacked, BatchIsApplied
  <2>2. /\ r \in Requests /\ r \in ToSet(batch)
        /\ Len(batch) = 1 \/ Len(batch) > 1
        /\ Len(batch) > 1 => Tail(batch) # <<>> /\ ToSet(Tail(batch)) \subseteq ToSet(batch)
    <3>1. batch \in Seq(Requests)
      BY DEF TypeOK
    <3>2. Head(batch) \in Requests /\ r = Head(batch) /\ ToSet(batch) = {Head(batch)} \cup ToSet(Tail(batch))
      BY <2>1, <3>1, HeadTail
    <3>3. Len(batch) \in Nat /\ Len(batch) # 0 /\ Len(Tail(batch)) = Len(batch) - 1
      BY <2>1, <3>1, HeadTail, EmptySeq
    <3> QED BY <3>2, <3>3, EmptySeq
  <2>3. \A q \in Requests : Ok(q)' => Ok(q) \/ (q = r /\ err = NoAnswer)
    BY <1>3, <2>2 DEF Answer, Ok, TypeOK
  <2>4. \/ pc' = "idle" /\ batch' = <<>> /\ round' = 1
        \/ /\ pc' = "answer" /\ batch' # <<>> /\ UNCHANGED <<round, redo, err>>
           /\ ToSet(batch') \subseteq ToSet(batch)
    BY <1>3, <2>1, <2>2 DEF Answer, Locals
  <2> HIDE DEF r
  <2>5. BatchIsApplied'
    BY <2>1, <2>4 DEF AnswersAreBacked, BatchIsApplied
  <2>6. Authors(remote)' = Authors(remote) /\ Authors(local)' = Authors(local) /\ ToSet(batch)' = ToSet(batch')
    BY <2>1 DEF Authors, ToSet
  <2>7. err = NoAnswer =>
          ToSet(batch) \subseteq Authors(local) \cap (Authors(remote) \cup refused)
                             \cap announced \cap seen
    BY <2>1 DEF AnswersAreBacked, SuccessIsBacked
  <2>8. SuccessIsBacked'
    BY <2>1, <2>2, <2>3, <2>4, <2>6, <2>7 DEF AnswersAreBacked, SuccessIsBacked
  <2> QED BY <2>5, <2>8 DEF AnswersAreBacked
<1> QED BY <1>1, <1>2, <1>3

LEMMA EnvironmentBacked ==
  ASSUME TypeOK, AnswersAreBacked, Environment  PROVE AnswersAreBacked'
<1> USE DEF callerVars, batchVars, branchVars, outVars, NoAnswer
<1>1. UNCHANGED <<callerVars, result, pc, batchVars, err, local, outVars>>
  BY DEF Environment, ForeignPush, Land
<1>2. Authors(remote) \subseteq Authors(remote')
  <2>1. CASE ForeignPush
    <3>1. <<Foreign, Foreigners + 1>> \in Commit
      BY ForeignersType DEF Commit
    <3> QED BY <2>1, <3>1, AppendAuthors DEF ForeignPush, TypeOK, Branch
  <2>2. ASSUME NEW b \in late, Land(b)  PROVE Authors(remote) \subseteq Authors(remote')
    BY <2>2, PrefixAuthors DEF Land, TypeOK, Branch
  <2> QED BY <2>1, <2>2 DEF Environment
<1>3. Authors(remote)' = Authors(remote') /\ Authors(local)' = Authors(local) /\ ToSet(batch)' = ToSet(batch)
  BY <1>1 DEF Authors, ToSet
<1>4. BatchIsApplied'
  BY <1>1, <1>3 DEF AnswersAreBacked, BatchIsApplied
<1>5. SuccessIsBacked'
  BY <1>1, <1>2, <1>3 DEF AnswersAreBacked, SuccessIsBacked, Ok
<1> QED BY <1>4, <1>5 DEF AnswersAreBacked

\* The invariant behind the two promises of an answer: a success that the
\* remote did not reject in a second push is in both branches and was told.
THEOREM BackedAnswers == Spec => []AnswersAreBacked
<1>1. Init => AnswersAreBacked
  BY DEF Init, AnswersAreBacked, BatchIsApplied, SuccessIsBacked, Ok, NoAnswer
<1>2. TypeOK /\ AnswersAreBacked /\ [Next]_vars => AnswersAreBacked'
  <2> SUFFICES ASSUME TypeOK, AnswersAreBacked, [Next]_vars PROVE AnswersAreBacked'
    OBVIOUS
  <2>1. CASE UNCHANGED vars
    <3> USE DEF vars, callerVars, batchVars, branchVars, outVars
    <3>1. Authors(local)' = Authors(local) /\ Authors(remote)' = Authors(remote)
      BY <2>1 DEF Authors
    <3>2. ToSet(batch)' = ToSet(batch) /\ \A r : Ok(r)' = Ok(r)
      BY <2>1 DEF ToSet, Ok
    <3>3. BatchIsApplied'
      BY <2>1, <3>1, <3>2 DEF AnswersAreBacked, BatchIsApplied
    <3>4. SuccessIsBacked'
      BY <2>1, <3>1, <3>2 DEF AnswersAreBacked, SuccessIsBacked
    <3> QED BY <3>3, <3>4 DEF AnswersAreBacked
  <2> QED
    BY <2>1, CallerBacked, TakingBacked, ApplyingBacked, PushingBacked, AnsweringBacked,
       EnvironmentBacked DEF Next, Worker
<1> QED BY <1>1, <1>2, TypeCorrect, PTL DEF Spec

\* A request answered with success is in the manifest repository and stays
\* there, whatever resets, retries, foreign and late pushes come; only a second
\* push that the remote rejects is answered with success all the same.
THEOREM PushedSuccess == Spec => []SuccessIsPushed
<1>1. AnswersAreBacked => SuccessIsPushed
  BY DEF AnswersAreBacked, SuccessIsBacked, SuccessIsPushed
<1> QED BY <1>1, BackedAnswers, PTL

\* Argo CD and the subscribers of the overview are told before that answer.
THEOREM VisibleAnswers == Spec => []AnsweredIsVisible
<1>1. AnswersAreBacked => AnsweredIsVisible
  BY DEF AnswersAreBacked, SuccessIsBacked, AnsweredIsVisible
<1> QED BY <1>1, BackedAnswers, PTL

-----------------------------------------------------------------------------
(* No request is lost *)

\* RemoveAt drops nothing but the element at its index.
LEMMA RemoveAtKeeps ==
  ASSUME NEW S, NEW s \in Seq(S), NEW i \in 1 .. Len(s)
  PROVE  ToSet(s) \subseteq ToSet(RemoveAt(s, i)) \cup {s[i]}
<1>1. DOMAIN RemoveAt(s, i) = 1 .. Len(s) - 1
  BY RemoveAtProperties
<1>2. \A j \in 1 .. Len(s) : j # i => \E k \in 1 .. Len(s) - 1 : RemoveAt(s, i)[k] = s[j]
  <2> SUFFICES ASSUME NEW j \in 1 .. Len(s), j # i
               PROVE  \E k \in 1 .. Len(s) - 1 : RemoveAt(s, i)[k] = s[j]
    OBVIOUS
  <2>1. CASE j < i
    <3>1. j \in 1 .. i - 1 /\ j \in 1 .. Len(s) - 1
      BY <2>1
    <3> QED BY <3>1, RemoveAtProperties
  <2>2. CASE j > i
    <3>1. j - 1 \in i .. Len(s) - 1 /\ j - 1 \in 1 .. Len(s) - 1 /\ (j - 1) + 1 = j
      BY <2>2
    <3>2. RemoveAt(s, i)[j - 1] = s[(j - 1) + 1]
      BY <3>1, RemoveAtProperties
    <3> QED BY <3>1, <3>2
  <2> QED BY <2>1, <2>2
<1>3. \A j \in 1 .. Len(s) : s[j] \in ToSet(RemoveAt(s, i)) \cup {s[i]}
  <2> TAKE j \in 1 .. Len(s)
  <2>1. CASE j = i
    BY <2>1
  <2>2. CASE j # i
    BY <1>1, <1>2, <2>2 DEF ToSet
  <2> QED BY <2>1, <2>2
<1>4. DOMAIN s = 1 .. Len(s)
  OBVIOUS
<1>5. ToSet(s) = {s[j] : j \in 1 .. Len(s)}
  BY <1>4 DEF ToSet
<1> QED BY <1>3, <1>5

\* An idle worker holds nothing that Take could overwrite.
NothingLost == NoRequestLost /\ (pc = "idle" => batch = <<>>)

LEMMA CallerLosesNothing ==
  ASSUME TypeOK, NothingLost, NEW r \in Requests, Caller(r)  PROVE NothingLost'
<1>1. UNCHANGED <<pc, batch>>
  BY DEF Caller, Enqueue, AddCancelled, Cancel, Return, GiveUp, batchVars
<1>2. NoRequestLost'
  <2> USE DEF NothingLost, NoRequestLost, TypeOK
  <2>1. CASE Enqueue(r)
    <3>1. ToSet(queue') = ToSet(queue) \cup {r}
      BY <2>1, AppendSet DEF Enqueue
    <3>2. ToSet(queue)' = ToSet(queue') /\ ToSet(batch)' = ToSet(batch)
      BY <1>1 DEF ToSet
    <3> QED BY <2>1, <3>1, <3>2 DEF Enqueue
  <2>2. CASE queue' = queue /\ \A q \in Requests :
               caller'[q] = "waiting" /\ result'[q] = NoAnswer
                 => caller[q] = "waiting" /\ result[q] = NoAnswer
    <3>1. ToSet(queue)' = ToSet(queue) /\ ToSet(batch)' = ToSet(batch)
      BY <1>1, <2>2 DEF ToSet
    <3> QED BY <2>2, <3>1
  <2>3. CASE AddCancelled(r)
    BY <2>2, <2>3 DEF AddCancelled, NoAnswer
  <2>4. CASE Cancel(r)
    BY <2>2, <2>4 DEF Cancel
  <2>5. CASE Return(r)
    BY <2>2, <2>5 DEF Return
  <2>6. CASE GiveUp(r)
    BY <2>2, <2>6 DEF GiveUp
  <2> QED BY <2>1, <2>3, <2>4, <2>5, <2>6 DEF Caller
<1> QED BY <1>1, <1>2 DEF NothingLost

\* What leaves the queue goes to the batch or is answered.
LEMMA TakingLosesNothing ==
  ASSUME TypeOK, NothingLost, Take \/ CheckFirst \/ Drain \/ Drained  PROVE NothingLost'
<1> USE DEF callerVars, batchVars
<1>1. UNCHANGED caller /\ pc' # "idle"
  BY DEF Take, CheckFirst, Drain, Drained
<1>2. NoRequestLost'
  <2>1. CASE Take
    <3>1. ToSet(queue) = {Head(queue)} \cup ToSet(queue') /\ Head(queue) \in Requests
      BY <2>1, HeadTail DEF Take, TypeOK
    <3>2. UNCHANGED <<caller, result>> /\ batch' = <<Head(queue)>> /\ batch = <<>>
      BY <2>1 DEF Take, Locals, NothingLost
    <3>3. ToSet(queue)' = ToSet(queue') /\ ToSet(batch)' = {Head(queue)} /\ ToSet(batch) = {}
      BY <3>2 DEF ToSet
    <3> QED BY <3>1, <3>2, <3>3 DEF NothingLost, NoRequestLost
  <2>2. CASE CheckFirst
    <3>1. UNCHANGED <<caller, queue, batch>> /\ \A q \in Requests : result'[q] = NoAnswer => result[q] = NoAnswer
      BY <2>2 DEF CheckFirst, TypeOK, NoAnswer
    <3> QED BY <3>1 DEF NothingLost, NoRequestLost, ToSet
  <2>3. CASE Drain
    <3> DEFINE h == Head(queue)
    <3>1. ToSet(queue) = {h} \cup ToSet(queue') /\ h \in Requests
      BY <2>3, HeadTail DEF Drain, TypeOK
    <3>2. ToSet(Append(batch, h)) = ToSet(batch) \cup {h}
      BY <3>1, AppendSet DEF TypeOK
    <3>3. ToSet(queue)' = ToSet(queue') /\ ToSet(batch)' = ToSet(batch')
      BY DEF ToSet
    <3>4. CASE batch' = Append(batch, h) /\ UNCHANGED result
      BY <1>1, <3>1, <3>2, <3>3, <3>4 DEF NothingLost, NoRequestLost
    <3>5. CASE result' = [result EXCEPT ![h] = "cancelled"] /\ UNCHANGED batch
      <4>1. \A q \in Requests : result'[q] = NoAnswer => result[q] = NoAnswer /\ q # h
        BY <3>1, <3>5 DEF TypeOK, NoAnswer
      <4> QED BY <1>1, <3>1, <3>3, <3>5, <4>1 DEF NothingLost, NoRequestLost
    <3> QED BY <2>3, <3>4, <3>5 DEF Drain
  <2>4. CASE Drained
    BY <2>4 DEF Drained, NothingLost, NoRequestLost, ToSet
  <2> QED BY <2>1, <2>2, <2>3, <2>4
<1> QED BY <1>1, <1>2 DEF NothingLost

\* What leaves the batch is answered.
LEMMA WorkingLosesNothing ==
  ASSUME TypeOK, NothingLost, ApplyFailed \/ Applied \/ Answer  PROVE NothingLost'
<1> USE DEF callerVars, batchVars
<1>1. UNCHANGED <<caller, queue>> /\ (pc' = "idle" => batch' = <<>>)
  BY DEF ApplyFailed, Applied, Answer, Applying, Locals, NothingLost
<1>2. ToSet(queue)' = ToSet(queue) /\ ToSet(batch)' = ToSet(batch')
  BY <1>1 DEF ToSet
<1>3. CASE ApplyFailed
  <2> DEFINE r == batch[next]
  <2>1. next \in 1 .. Len(batch) /\ r \in Requests
    BY <1>3 DEF ApplyFailed, Applying, TypeOK
  <2>2. ToSet(batch) \subseteq ToSet(batch') \cup {r}
    BY <1>3, <2>1, RemoveAtKeeps DEF ApplyFailed, TypeOK
  <2>3. \A q \in Requests : result'[q] = NoAnswer => result[q] = NoAnswer /\ q # r
    BY <1>3, <2>1 DEF ApplyFailed, TypeOK, NoAnswer
  <2> QED BY <1>1, <1>2, <2>2, <2>3 DEF NothingLost, NoRequestLost
<1>4. CASE Applied
  <2>1. UNCHANGED <<result, batch>>
    BY <1>4 DEF Applied, Locals
  <2> QED BY <1>1, <1>2, <2>1 DEF NothingLost, NoRequestLost
<1>5. CASE Answer
  <2> DEFINE r == batch[1]
  <2>1. batch \in Seq(Requests) /\ batch # <<>>
    BY <1>5, EmptySeq DEF Answer, TypeOK
  <2>2. r \in Requests /\ ToSet(batch) = {r} \cup ToSet(Tail(batch)) /\ Len(Tail(batch)) = Len(batch) - 1
    BY <2>1, HeadTail
  <2>3. ToSet(batch) \subseteq ToSet(batch') \cup {r}
    <3>1. CASE Len(batch) = 1
      BY <2>1, <3>1 DEF ToSet
    <3>2. CASE batch' = Tail(batch)
      BY <2>2, <3>2
    <3> QED BY <1>5, <3>1, <3>2 DEF Answer
  <2>4. (IF err = NoAnswer THEN "ok" ELSE err) # NoAnswer
    BY DEF NoAnswer
  <2>5. \A q \in Requests : result'[q] = NoAnswer => result[q] = NoAnswer /\ q # r
    BY <1>5, <2>2, <2>4 DEF Answer, TypeOK
  <2> QED BY <1>1, <1>2, <2>3, <2>5 DEF NothingLost, NoRequestLost
<1> QED BY <1>3, <1>4, <1>5

\* As long as a caller waits and has nothing to read, its request is in the queue
\* or among the elements that the worker will answer.
THEOREM RequestsAreKept == Spec => []NoRequestLost
<1>1. Init => NothingLost
  BY DEF Init, NothingLost, NoRequestLost
<1>2. TypeOK /\ NothingLost /\ [Next]_vars => NothingLost'
  <2> SUFFICES ASSUME TypeOK, NothingLost, [Next]_vars PROVE NothingLost'
    OBVIOUS
  <2> DEFINE Same == UNCHANGED <<caller, result, queue, batch>> /\ (pc' = "idle" => pc = "idle")
  <2>1. Same => NothingLost'
    BY DEF NothingLost, NoRequestLost, ToSet
  <2>2. CASE UNCHANGED vars
    BY <2>1, <2>2 DEF vars, callerVars, batchVars
  <2>3. ApplyOk \/ ApplyInvalidJson => Same
    BY DEF ApplyOk, ApplyInvalidJson, Applying, callerVars
  <2>4. PushAccepted \/ PushRefused \/ PushBroken \/ PushTimeout \/ PushDiverged => Same
    BY DEF PushAccepted, PushRefused, PushBroken, PushTimeout, PushDiverged, Pushed, RetryOrFail,
           callerVars, batchVars
  <2>5. Reset \/ Post => Same
    BY DEF Reset, Post, callerVars, batchVars
  <2>6. Environment => Same
    BY DEF Environment, ForeignPush, Land, callerVars, batchVars
  <2> HIDE DEF Same
  <2> QED
    BY <2>1, <2>2, <2>3, <2>4, <2>5, <2>6, CallerLosesNothing, TakingLosesNothing,
       WorkingLosesNothing DEF Next, Worker
<1>3. NothingLost => NoRequestLost
  BY DEF NothingLost
<1> QED BY <1>1, <1>2, <1>3, TypeCorrect, PTL DEF Spec

-----------------------------------------------------------------------------
(* No live request is answered twice *)

Distinct(s) == \A i, j \in DOMAIN s : s[i] = s[j] => i = j

LEMMA DistinctAppend ==
  ASSUME NEW S, NEW s \in Seq(S), NEW x \in S, Distinct(s), x \notin ToSet(s)
  PROVE  Distinct(Append(s, x))
<1>1. /\ DOMAIN Append(s, x) = 1 .. Len(s) + 1 /\ DOMAIN s = 1 .. Len(s) /\ Len(s) \in Nat
      /\ Append(s, x)[Len(s) + 1] = x /\ \A i \in 1 .. Len(s) : Append(s, x)[i] = s[i]
  OBVIOUS
<1>2. \A i \in 1 .. Len(s) : s[i] # x
  BY <1>1 DEF ToSet
<1>3. \A i \in 1 .. Len(s) + 1 : i \in 1 .. Len(s) \/ i = Len(s) + 1
  BY <1>1
<1> QED BY <1>1, <1>2, <1>3 DEF Distinct

LEMMA DistinctTail ==
  ASSUME NEW S, NEW s \in Seq(S), s # <<>>, Distinct(s)
  PROVE  Distinct(Tail(s)) /\ Head(s) \notin ToSet(Tail(s))
<1>1. /\ Len(s) \in Nat \ {0} /\ DOMAIN s = 1 .. Len(s) /\ DOMAIN Tail(s) = 1 .. Len(s) - 1
      /\ Head(s) = s[1] /\ \A i \in 1 .. Len(s) - 1 : Tail(s)[i] = s[i + 1]
  BY HeadTailProperties, LenProperties, EmptySeq
<1>2. \A i \in 1 .. Len(s) - 1 : i + 1 \in 1 .. Len(s) /\ i + 1 # 1
  BY <1>1
<1>3. \A i, j \in 1 .. Len(s) - 1 : i + 1 = j + 1 => i = j
  BY <1>1
<1>4. 1 \in 1 .. Len(s)
  BY <1>1
<1>5. Distinct(Tail(s))
  BY <1>1, <1>2, <1>3 DEF Distinct
<1>6. \A i \in 1 .. Len(s) - 1 : Tail(s)[i] # Head(s)
  BY <1>1, <1>2, <1>4 DEF Distinct
<1> QED BY <1>1, <1>5, <1>6 DEF ToSet

LEMMA DistinctRemoveAt ==
  ASSUME NEW S, NEW s \in Seq(S), NEW i \in 1 .. Len(s), Distinct(s)
  PROVE  Distinct(RemoveAt(s, i)) /\ s[i] \notin ToSet(RemoveAt(s, i))
<1> DEFINE t == RemoveAt(s, i)
           at(k) == IF k < i THEN k ELSE k + 1
<1>1. /\ t \in Seq(S) /\ Len(t) = Len(s) - 1 /\ Len(s) \in Nat
      /\ \A j \in 1 .. i - 1 : t[j] = s[j]
      /\ \A j \in i .. Len(s) - 1 : t[j] = s[j + 1]
  <2> HIDE DEF at
  <2>1. Len(s) \in Nat
    OBVIOUS
  <2> QED BY <2>1, RemoveAtProperties, Zenon
<1> HIDE DEF t
<1>2. DOMAIN t = 1 .. Len(s) - 1 /\ DOMAIN s = 1 .. Len(s)
  BY <1>1
<1>3. ASSUME NEW k \in 1 .. Len(s) - 1
      PROVE  at(k) \in 1 .. Len(s) /\ at(k) # i /\ t[k] = s[at(k)]
  <2>1. CASE k < i
    BY <1>1, <2>1
  <2>2. CASE ~(k < i)
    BY <1>1, <2>2
  <2> QED BY <2>1, <2>2
<1>4. \A k, m \in 1 .. Len(s) - 1 : at(k) = at(m) => k = m
  BY <1>1
<1> HIDE DEF at
<1>5. Distinct(t)
  BY <1>2, <1>3, <1>4 DEF Distinct
<1>6. s[i] \notin ToSet(t)
  BY <1>2, <1>3 DEF Distinct, ToSet
<1> QED BY <1>5, <1>6 DEF t

\* An element is in one place only, from Enqueue to its answer.
OnceInv ==
  /\ Distinct(queue) /\ Distinct(batch) /\ ToSet(queue) \cap ToSet(batch) = {}
  /\ \A r \in Requests : caller[r] = "new" =>
       r \notin ToSet(queue) \cup ToSet(batch) /\ result[r] = NoAnswer
  /\ (pc = "idle" => batch = <<>>) /\ (pc = "check" => batch # <<>>)
  /\ AnsweredOnce

LEMMA CallerOnce ==
  ASSUME TypeOK, OnceInv, NEW r \in Requests, Caller(r)  PROVE OnceInv'
<1>1. UNCHANGED <<pc, batch>> /\ ToSet(batch)' = ToSet(batch)
  BY DEF Caller, Enqueue, AddCancelled, Cancel, Return, GiveUp, batchVars, ToSet
<1>2. CASE Enqueue(r)
  <2>1. /\ caller[r] = "new" /\ queue' = Append(queue, r) /\ UNCHANGED <<live, result>>
        /\ caller' = [caller EXCEPT ![r] = "waiting"]
    BY <1>2 DEF Enqueue
  <2>2. r \notin ToSet(queue) \cup ToSet(batch) /\ result[r] = NoAnswer
    BY <2>1 DEF OnceInv
  <2>3. ToSet(queue') = ToSet(queue) \cup {r} /\ Distinct(queue')
    BY <2>1, <2>2, AppendSet, DistinctAppend DEF OnceInv, TypeOK
  <2>4. ToSet(queue)' = ToSet(queue')
    BY DEF ToSet
  <2> QED BY <1>1, <2>1, <2>2, <2>3, <2>4 DEF OnceInv, AnsweredOnce, TypeOK, Distinct
<1>3. CASE ~Enqueue(r)
  <2>1. queue' = queue /\ ToSet(queue)' = ToSet(queue)
    BY <1>3 DEF Caller, AddCancelled, Cancel, Return, GiveUp, ToSet
  <2>2. CASE AddCancelled(r)
    BY <1>1, <2>1, <2>2 DEF AddCancelled, OnceInv, AnsweredOnce, TypeOK, Distinct
  <2>3. CASE Cancel(r)
    BY <1>1, <2>1, <2>3 DEF Cancel, OnceInv, AnsweredOnce, TypeOK, Distinct
  <2>4. CASE Return(r)
    BY <1>1, <2>1, <2>4 DEF Return, OnceInv, AnsweredOnce, TypeOK, Distinct
  <2>5. CASE GiveUp(r)
    BY <1>1, <2>1, <2>5 DEF GiveUp, OnceInv, AnsweredOnce, TypeOK, Distinct
  <2> QED BY <1>3, <2>2, <2>3, <2>4, <2>5 DEF Caller
<1> QED BY <1>2, <1>3

LEMMA TakingOnce ==
  ASSUME TypeOK, OnceInv, Take \/ CheckFirst \/ Drain \/ Drained  PROVE OnceInv'
<1> USE DEF callerVars, batchVars
<1>1. UNCHANGED <<caller, live>> /\ pc' # "idle"
  BY DEF Take, CheckFirst, Drain, Drained
<1>2. ToSet(queue)' = ToSet(queue') /\ ToSet(batch)' = ToSet(batch')
  BY DEF ToSet
<1> DEFINE h == Head(queue)
<1>3. queue # <<>> => /\ ToSet(queue) = {h} \cup ToSet(Tail(queue)) /\ h \in Requests
                      /\ Distinct(Tail(queue)) /\ h \notin ToSet(Tail(queue))
  BY HeadTail, DistinctTail DEF TypeOK, OnceInv
<1>4. CASE Take
  <2>1. queue' = Tail(queue) /\ queue # <<>> /\ batch' = <<h>> /\ batch = <<>> /\ UNCHANGED result
    BY <1>4 DEF Take, Locals, OnceInv
  <2>2. ToSet(batch') = {h} /\ Distinct(batch')
    BY <2>1 DEF ToSet, Distinct
  <2> HIDE DEF h
  <2> QED BY <1>1, <1>2, <1>3, <2>1, <2>2 DEF OnceInv, AnsweredOnce, Distinct
<1>5. CASE CheckFirst \/ Drained
  <2>1. UNCHANGED <<queue, batch>> /\ \A r \in live : result'[r] = result[r]
    BY <1>5 DEF CheckFirst, Drained, TypeOK
  <2>2. \A r \in Requests : caller[r] = "new" => result'[r] = result[r]
    <3>1. pc = "check" => batch[1] \in ToSet(batch)
      <4>1. pc = "check" => 1 \in DOMAIN batch
        BY EmptySeq DEF OnceInv, TypeOK
      <4> QED BY <4>1 DEF ToSet
    <3>2. result' = result \/ (pc = "check" /\ result' = [result EXCEPT ![batch[1]] = "cancelled"])
      BY <1>5 DEF CheckFirst, Drained
    <3> QED BY <3>1, <3>2 DEF TypeOK, OnceInv
  <2>3. ToSet(queue') = ToSet(queue) /\ ToSet(batch') = ToSet(batch) /\ pc' # "check"
    BY <1>5, <2>1 DEF CheckFirst, Drained
  <2>4. OnceInv' <=> /\ Distinct(queue) /\ Distinct(batch) /\ ToSet(queue) \cap ToSet(batch) = {}
                     /\ \A r \in Requests : caller[r] = "new" =>
                          r \notin ToSet(queue) \cup ToSet(batch) /\ result'[r] = NoAnswer
                     /\ \A r \in ToSet(queue) \cup ToSet(batch) :
                          r \in live => caller[r] = "waiting" /\ result'[r] = NoAnswer
    BY <1>1, <1>2, <2>1, <2>3 DEF OnceInv, AnsweredOnce, Distinct
  <2> QED BY <2>1, <2>2, <2>4 DEF OnceInv, AnsweredOnce
<1>6. CASE Drain
  <2>1. queue' = Tail(queue) /\ queue # <<>>
    BY <1>6 DEF Drain
  <2>2. CASE batch' = Append(batch, h) /\ UNCHANGED result
    <3>1. h \notin ToSet(batch) /\ batch \in Seq(Requests) /\ Distinct(batch)
      BY <1>3, <2>1 DEF OnceInv, TypeOK
    <3>2. ToSet(batch') = ToSet(batch) \cup {h} /\ Distinct(batch')
      BY <1>3, <2>1, <2>2, <3>1, AppendSet, DistinctAppend
    <3> HIDE DEF h
    <3> QED BY <1>1, <1>2, <1>3, <2>1, <2>2, <3>2 DEF OnceInv, AnsweredOnce, Distinct
  <2>3. CASE /\ h \notin live /\ result' = [result EXCEPT ![h] = "cancelled"]
             /\ UNCHANGED batch
    <3> HIDE DEF h
    <3>1. h \in ToSet(queue) /\ caller[h] # "new" /\ ToSet(queue') \subseteq ToSet(queue)
          /\ Distinct(queue') /\ ToSet(batch') = ToSet(batch)
      BY <1>3, <2>1, <2>3 DEF OnceInv
    <3>2. \A r \in Requests \ {h} : result'[r] = result[r]
      BY <2>3 DEF TypeOK
    <3>3. /\ Distinct(queue)' /\ Distinct(batch)' /\ ToSet(queue)' \cap ToSet(batch)' = {}
          /\ pc' # "check"
      BY <1>2, <1>6, <2>3, <3>1 DEF OnceInv, Distinct, Drain
    <3>4. \A r \in Requests : caller'[r] = "new" =>
            r \notin ToSet(queue)' \cup ToSet(batch)' /\ result'[r] = NoAnswer
      BY <1>1, <1>2, <3>1, <3>2 DEF OnceInv
    <3>5. live \subseteq Requests
      BY DEF TypeOK
    <3>6. AnsweredOnce'
      BY <1>1, <1>2, <2>3, <3>1, <3>2, <3>5 DEF OnceInv, AnsweredOnce
    <3> QED BY <1>1, <3>3, <3>4, <3>6 DEF OnceInv
  <2> QED BY <1>6, <2>2, <2>3 DEF Drain
<1> QED BY <1>4, <1>5, <1>6

LEMMA WorkingOnce ==
  ASSUME TypeOK, OnceInv, ApplyFailed \/ Applied \/ Answer  PROVE OnceInv'
<1> USE DEF callerVars, batchVars
<1>1. UNCHANGED <<caller, live, queue>> /\ (pc' = "idle" => batch' = <<>>)
      /\ pc' # "check"
  BY DEF ApplyFailed, Applied, Answer, Applying, Locals, OnceInv
<1>2. ToSet(queue)' = ToSet(queue) /\ ToSet(batch)' = ToSet(batch')
  BY <1>1 DEF ToSet
<1>3. ASSUME NEW r \in ToSet(batch), Distinct(batch'), ToSet(batch') \subseteq ToSet(batch) \ {r},
             \A q \in Requests \ {r} : result'[q] = result[q]
      PROVE  OnceInv'
  <2>1. Distinct(queue)' /\ Distinct(batch)' /\ ToSet(queue)' \cap ToSet(batch)' = {}
    BY <1>1, <1>2, <1>3 DEF OnceInv, Distinct
  <2>2. \A q \in Requests : caller'[q] = "new" =>
          q \notin ToSet(queue)' \cup ToSet(batch)' /\ result'[q] = NoAnswer
    BY <1>1, <1>2, <1>3 DEF OnceInv
  <2>3. ToSet(queue) \subseteq Requests /\ ToSet(batch) \subseteq Requests
    BY DEF TypeOK, ToSet
  <2>4. AnsweredOnce'
    <3> SUFFICES ASSUME NEW q \in ToSet(queue)' \cup ToSet(batch)', q \in live'
                 PROVE  caller'[q] = "waiting" /\ result'[q] = NoAnswer
      BY DEF AnsweredOnce
    <3>1. q \in (ToSet(queue) \cup ToSet(batch)) \ {r} /\ q \in Requests /\ q \in live
      BY <1>1, <1>2, <1>3, <2>3 DEF OnceInv
    <3> QED BY <1>1, <1>3, <3>1 DEF OnceInv, AnsweredOnce
  <2> QED BY <1>1, <2>1, <2>2, <2>4 DEF OnceInv
<1>4. CASE ApplyFailed
  <2> DEFINE r == batch[next]
  <2>1. next \in 1 .. Len(batch) /\ batch \in Seq(Requests) /\ r \in ToSet(batch)
    BY <1>4 DEF ApplyFailed, Applying, TypeOK, ToSet
  <2>2. batch' = RemoveAt(batch, next) /\ \A q \in Requests \ {r} : result'[q] = result[q]
    BY <1>4 DEF ApplyFailed, TypeOK
  <2>3. Distinct(batch') /\ r \notin ToSet(batch') /\ ToSet(batch') \subseteq ToSet(batch)
    BY <2>1, <2>2, DistinctRemoveAt, RemoveAtSubset DEF OnceInv
  <2> HIDE DEF r
  <2> QED BY <1>3, <2>1, <2>2, <2>3
<1>5. CASE Applied
  <2>1. UNCHANGED <<result, batch>>
    BY <1>5 DEF Applied, Locals
  <2> QED BY <1>1, <1>2, <2>1 DEF OnceInv, AnsweredOnce, Distinct
<1>6. CASE Answer
  <2> DEFINE r == batch[1]
  <2>1. batch \in Seq(Requests) /\ batch # <<>> /\ Head(batch) = r
    BY <1>6, EmptySeq DEF Answer, TypeOK
  <2>2. ToSet(batch) = {r} \cup ToSet(Tail(batch)) /\ Distinct(Tail(batch)) /\ r \notin ToSet(Tail(batch))
    BY <2>1, HeadTail, DistinctTail DEF OnceInv
  <2>3. \A q \in Requests \ {r} : result'[q] = result[q]
    BY <1>6 DEF Answer, TypeOK
  <2>4. Distinct(batch') /\ ToSet(batch') \subseteq ToSet(batch) \ {r}
    <3>1. CASE batch' = <<>>
      BY <3>1 DEF Distinct, ToSet
    <3>2. CASE batch' = Tail(batch)
      BY <2>2, <3>2
    <3> QED BY <1>6, <3>1, <3>2 DEF Answer, Locals
  <2> HIDE DEF r
  <2> QED BY <1>3, <2>2, <2>3, <2>4
<1> QED BY <1>4, <1>5, <1>6

LEMMA OnceHolds == Spec => []OnceInv
<1>1. Init => OnceInv
  BY DEF Init, OnceInv, AnsweredOnce, Distinct, ToSet
<1>2. TypeOK /\ OnceInv /\ [Next]_vars => OnceInv'
  <2> SUFFICES ASSUME TypeOK, OnceInv, [Next]_vars PROVE OnceInv'
    OBVIOUS
  <2> DEFINE Same == /\ UNCHANGED <<caller, live, result, queue, batch>>
                     /\ (pc' = "idle" => pc = "idle") /\ (pc' = "check" => pc = "check")
  <2>1. Same => OnceInv'
    BY DEF OnceInv, AnsweredOnce, ToSet, Distinct
  <2>2. CASE UNCHANGED vars
    BY <2>1, <2>2 DEF vars, callerVars, batchVars
  <2>3. ApplyOk \/ ApplyInvalidJson => Same
    BY DEF ApplyOk, ApplyInvalidJson, Applying, callerVars
  <2>4. PushAccepted \/ PushRefused \/ PushBroken \/ PushTimeout \/ PushDiverged => Same
    BY DEF PushAccepted, PushRefused, PushBroken, PushTimeout, PushDiverged, Pushed, RetryOrFail,
           callerVars, batchVars
  <2>5. Reset \/ Post => Same
    BY DEF Reset, Post, callerVars, batchVars
  <2>6. Environment => Same
    BY DEF Environment, ForeignPush, Land, callerVars, batchVars
  <2> HIDE DEF Same
  <2> QED BY <2>1, <2>2, <2>3, <2>4, <2>5, <2>6, CallerOnce, TakingOnce, WorkingOnce DEF Next, Worker
<1> QED BY <1>1, <1>2, TypeCorrect, PTL DEF Spec

\* A request whose context is not cancelled has no answer while it is in the
\* queue or in the worker's hands, so its result channel, with room for one
\* value, never makes the worker wait for it.
THEOREM OneAnswer == Spec => []AnsweredOnce
<1>1. OnceInv => AnsweredOnce
  BY DEF OnceInv
<1> QED BY <1>1, OnceHolds, PTL

-----------------------------------------------------------------------------
(* The order of the branch *)

\* Precedes, and InOrder, for any sequence of accepted requests.
Before(acc, r, s) == \E i, j \in DOMAIN acc : i < j /\ acc[i] = r /\ acc[j] = s

InLine(b, acc) ==
  \A j \in DOMAIN b : \A i \in 1 .. j - 1 :
    Before(acc, b[j][1], b[i][1]) => \E h \in 1 .. i - 1 : b[h][1] = b[j][1]

\* The branch holds, in order, none but the first k requests that were
\* accepted; and of the batch also those that precede what it holds.
Fits(b, acc, k, elements) ==
  /\ InLine(b, acc)
  /\ \A s \in Authors(b) : s = Foreign \/ \E p \in 1 .. k : acc[p] = s
  /\ \A r \in elements, s \in Authors(b) : Before(acc, r, s) => r \in Authors(b)

LEMMA FitsEnqueue ==
  ASSUME NEW b \in Branch, NEW acc \in Seq(Requests), NEW r \in Requests, r \notin ToSet(acc),
         NEW k \in 0 .. Len(acc), NEW elements, Fits(b, acc, k, elements)
  PROVE  Fits(b, Append(acc, r), k, elements)
<1> DEFINE new == Append(acc, r)
<1>1. /\ DOMAIN new = 1 .. Len(acc) + 1 /\ DOMAIN acc = 1 .. Len(acc) /\ Len(acc) \in Nat
      /\ new[Len(acc) + 1] = r /\ \A i \in 1 .. Len(acc) : new[i] = acc[i] /\ acc[i] \in Requests
  OBVIOUS
<1>2. \A p \in 1 .. k : p \in 1 .. Len(acc)
  BY <1>1
<1>3. \A s \in Authors(b) : s = Foreign \/ \E p \in 1 .. k : acc[p] = s
  BY DEF Fits
<1>4. ASSUME NEW s \in Authors(b)  PROVE s # r
  BY <1>1, <1>2, <1>3, ConstantsAssumption DEF ToSet
<1> HIDE DEF new
<1>5. ASSUME NEW q, NEW s \in Authors(b), Before(new, q, s)  PROVE Before(acc, q, s)
  <2>1. PICK i, j \in 1 .. Len(acc) + 1 : i < j /\ new[i] = q /\ new[j] = s
    BY <1>1, <1>5 DEF Before
  <2>2. j # Len(acc) + 1
    BY <1>1, <1>4, <2>1
  <2>3. i \in 1 .. Len(acc) /\ j \in 1 .. Len(acc)
    BY <1>1, <2>1, <2>2
  <2> QED BY <1>1, <2>1, <2>3 DEF Before
<1>6. InLine(b, new)
  <2> SUFFICES ASSUME NEW j \in DOMAIN b, NEW i \in 1 .. j - 1, Before(new, b[j][1], b[i][1])
               PROVE  \E h \in 1 .. i - 1 : b[h][1] = b[j][1]
    BY DEF InLine
  <2>1. i \in DOMAIN b
    BY DEF Branch
  <2>2. b[i][1] \in Authors(b)
    BY <2>1 DEF Authors
  <2> QED BY <1>5, <2>2 DEF Fits, InLine
<1>7. \A s \in Authors(b) : s = Foreign \/ \E p \in 1 .. k : new[p] = s
  BY <1>1, <1>2, <1>3
<1>8. \A q \in elements, s \in Authors(b) : Before(new, q, s) => q \in Authors(b)
  BY <1>5 DEF Fits
<1> QED BY <1>6, <1>7, <1>8 DEF Fits, new

LEMMA FitsTake ==
  ASSUME NEW b, NEW acc \in Seq(Requests), Distinct(acc), NEW k \in Nat, k + 1 <= Len(acc),
         NEW elements, Fits(b, acc, k, elements)
  PROVE  Fits(b, acc, k + 1, elements \cup {acc[k + 1]})
<1>1. DOMAIN acc = 1 .. Len(acc) /\ k + 1 \in 1 .. Len(acc) /\ Len(acc) \in Nat /\ \A i \in 1 .. Len(acc) : acc[i] \in Requests
  OBVIOUS
<1>2. ASSUME NEW s \in Authors(b), Before(acc, acc[k + 1], s)  PROVE FALSE
  <2>1. PICK i, j \in 1 .. Len(acc) : i < j /\ acc[i] = acc[k + 1] /\ acc[j] = s
    BY <1>1, <1>2 DEF Before
  <2>2. i = k + 1
    BY <1>1, <2>1 DEF Distinct
  <2>3. PICK p \in 1 .. k : acc[p] = s
    BY <1>1, <2>1, ConstantsAssumption DEF Fits
  <2>4. p \in 1 .. Len(acc) /\ p # j
    BY <1>1, <2>1, <2>2
  <2> QED BY <1>1, <2>1, <2>3, <2>4 DEF Distinct
<1>3. \A p \in 1 .. k : p \in 1 .. k + 1
  OBVIOUS
<1> QED BY <1>2, <1>3 DEF Fits

LEMMA FitsForeign ==
  ASSUME NEW b \in Branch, NEW acc \in Seq(Requests), NEW k, NEW elements, Fits(b, acc, k, elements),
         NEW n \in Nat \ {0}
  PROVE  Fits(Append(b, <<Foreign, n>>), acc, k, elements)
<1> DEFINE c == <<Foreign, n>>
           new == Append(b, c)
<1>1. c \in Commit /\ c[1] = Foreign
  BY DEF Commit
<1> HIDE DEF c
<1>2. /\ DOMAIN new = 1 .. Len(b) + 1 /\ DOMAIN b = 1 .. Len(b) /\ Len(b) \in Nat
      /\ new[Len(b) + 1] = c /\ \A i \in 1 .. Len(b) : new[i] = b[i]
  BY <1>1 DEF Branch
<1>3. Authors(new) = Authors(b) \cup {Foreign}
  BY <1>1, AppendAuthors DEF Branch
<1> HIDE DEF new
<1>4. ASSUME NEW q, NEW s, Before(acc, q, s)  PROVE q # Foreign /\ s # Foreign
  <2>1. \A i \in DOMAIN acc : acc[i] \in Requests
    OBVIOUS
  <2> QED BY <1>4, <2>1, ConstantsAssumption DEF Before
<1>5. InLine(new, acc)
  <2> SUFFICES ASSUME NEW j \in 1 .. Len(b) + 1, NEW i \in 1 .. j - 1, Before(acc, new[j][1], new[i][1])
               PROVE  \E h \in 1 .. i - 1 : new[h][1] = new[j][1]
    BY <1>2 DEF InLine
  <2>1. j # Len(b) + 1
    BY <1>1, <1>2, <1>4
  <2>2. j \in DOMAIN b /\ i \in 1 .. Len(b) /\ j \in 1 .. Len(b) /\ \A h \in 1 .. i - 1 : h \in 1 .. Len(b)
    BY <1>2, <2>1
  <2>3. \E h \in 1 .. i - 1 : b[h][1] = b[j][1]
    BY <1>2, <2>2 DEF Fits, InLine
  <2> QED BY <1>2, <2>2, <2>3
<1> QED BY <1>3, <1>4, <1>5 DEF Fits, new, c

LEMMA FitsApply ==
  ASSUME NEW b \in Branch, NEW acc \in Seq(Requests), Distinct(acc), NEW k \in 0 .. Len(acc),
         NEW s \in Seq(Requests), Fits(b, acc, k, ToSet(s)),
         NEW n \in DOMAIN s, \E p \in 1 .. k : acc[p] = s[n],
         \A i, j \in DOMAIN s : i < j => Before(acc, s[i], s[j]),
         \A i \in DOMAIN s : i < n => s[i] \in Authors(b),
         NEW m \in Nat \ {0}
  PROVE  Fits(Append(b, <<s[n], m>>), acc, k, ToSet(s))
<1> DEFINE c == <<s[n], m>>
           new == Append(b, c)
<1>1. c \in Commit /\ c[1] = s[n] /\ s[n] \in ToSet(s)
  BY DEF Commit, ToSet
<1> HIDE DEF c
<1>2. /\ DOMAIN new = 1 .. Len(b) + 1 /\ DOMAIN b = 1 .. Len(b) /\ Len(b) \in Nat
      /\ new[Len(b) + 1] = c /\ \A i \in 1 .. Len(b) : new[i] = b[i]
  BY <1>1 DEF Branch
<1>3. Authors(new) = Authors(b) \cup {s[n]}
  BY <1>1, AppendAuthors DEF Branch
<1> HIDE DEF new
<1>4. ASSUME NEW r, NEW q, Before(acc, r, q)  PROVE ~Before(acc, q, r) /\ r # q
  <2>1. DOMAIN acc = 1 .. Len(acc) /\ Len(acc) \in Nat
    OBVIOUS
  <2>2. PICK i, j \in 1 .. Len(acc) : i < j /\ acc[i] = r /\ acc[j] = q
    BY <1>4, <2>1 DEF Before
  <2>3. r # q
    BY <2>1, <2>2 DEF Distinct
  <2>4. ASSUME NEW x \in 1 .. Len(acc), NEW y \in 1 .. Len(acc), x < y, acc[x] = q, acc[y] = r
        PROVE  FALSE
    <3>1. x = j /\ y = i
      BY <2>1, <2>2, <2>4 DEF Distinct
    <3> QED BY <2>2, <2>4, <3>1
  <2> QED BY <2>1, <2>3, <2>4 DEF Before
<1>5. InLine(new, acc)
  <2> SUFFICES ASSUME NEW j \in 1 .. Len(b) + 1, NEW i \in 1 .. j - 1, Before(acc, new[j][1], new[i][1])
               PROVE  \E h \in 1 .. i - 1 : new[h][1] = new[j][1]
    BY <1>2 DEF InLine
  <2>1. i \in 1 .. Len(b) /\ new[i] = b[i] /\ b[i][1] \in Authors(b) /\ \A h \in 1 .. i - 1 : h \in 1 .. Len(b)
    <3>1. i \in 1 .. Len(b) /\ \A h \in 1 .. i - 1 : h \in 1 .. Len(b)
      BY <1>2
    <3> QED BY <1>2, <3>1 DEF Authors
  <2>2. \A h \in DOMAIN b : \A g \in 1 .. h - 1 :
          Before(acc, b[h][1], b[g][1]) => \E f \in 1 .. g - 1 : b[f][1] = b[h][1]
    BY DEF Fits, InLine
  <2>3. CASE j \in 1 .. Len(b)
    <3>1. \E h \in 1 .. i - 1 : b[h][1] = b[j][1]
      BY <1>2, <2>1, <2>2, <2>3
    <3> QED BY <1>2, <2>1, <2>3, <3>1
  <2>4. CASE j = Len(b) + 1
    <3> DEFINE r == new[j][1]
    <3>1. r = s[n] /\ r \in Authors(b) /\ Before(acc, r, b[i][1])
      BY <1>1, <1>2, <2>1, <2>4 DEF Fits
    <3> HIDE DEF r
    <3>2. PICK h \in 1 .. Len(b) : b[h][1] = r
      BY <1>2, <3>1 DEF Authors
    <3>3. h # i
      BY <1>4, <3>1, <3>2
    <3>4. CASE h < i
      BY <1>2, <2>1, <3>2, <3>4 DEF r
    <3>5. CASE h > i
      <4>1. i \in 1 .. h - 1
        BY <3>5
      <4>2. \E g \in 1 .. i - 1 : b[g][1] = r
        <5>1. h \in DOMAIN b /\ Before(acc, b[h][1], b[i][1])
          BY <1>2, <3>1, <3>2
        <5>2. \E g \in 1 .. i - 1 : b[g][1] = b[h][1]
          BY <2>2, <4>1, <5>1, Zenon
        <5> QED BY <3>2, <5>2
      <4> QED BY <1>2, <2>1, <4>2 DEF r
    <3> QED BY <3>2, <3>3, <3>4, <3>5
  <2>5. j \in 1 .. Len(b) \/ j = Len(b) + 1
    <3> DEFINE l == Len(b)
    <3>1. l \in Nat /\ j \in 1 .. l + 1
      BY <1>2
    <3> HIDE DEF l
    <3>2. j \in 1 .. l \/ j = l + 1
      BY <3>1
    <3> QED BY <3>2 DEF l
  <2> QED BY <2>3, <2>4, <2>5, Zenon
<1>6. ASSUME NEW r \in ToSet(s), Before(acc, r, s[n])  PROVE r \in Authors(b)
  <2>1. PICK i \in DOMAIN s : s[i] = r
    BY DEF ToSet
  <2>2. i # n /\ ~(n < i)
    BY <1>4, <1>6, <2>1
  <2>3. i < n
    BY <2>2
  <2> QED BY <2>1, <2>3
<1>7. \A x \in Authors(new) : x = Foreign \/ \E p \in 1 .. k : acc[p] = x
  BY <1>3 DEF Fits
<1>8. \A r \in ToSet(s), x \in Authors(new) : Before(acc, r, x) => r \in Authors(new)
  BY <1>3, <1>6 DEF Fits
<1> QED BY <1>5, <1>7, <1>8 DEF Fits, new, c

LEMMA FitsFewer ==
  ASSUME NEW b, NEW acc, NEW k, NEW elements, Fits(b, acc, k, elements), NEW fewer \in SUBSET elements
  PROVE  Fits(b, acc, k, fewer)
BY DEF Fits

\* How many requests the worker has taken from the queue.
Taken == Len(accepted) - Len(queue)

Branches == {local, remote} \cup late

\* The queue is the end of what was accepted, the batch in the same order of
\* what comes before it.
QueueInLine ==
  /\ Distinct(accepted)
  /\ \A r \in ToSet(accepted) : caller[r] # "new"
  /\ Taken \in 0 .. Len(accepted) /\ \A i \in DOMAIN queue : queue[i] = accepted[Taken + i]
BatchInLine ==
  /\ \A i \in DOMAIN batch : \E p \in 1 .. Taken : accepted[p] = batch[i]
  /\ \A i, j \in DOMAIN batch : i < j => Before(accepted, batch[i], batch[j])
  /\ pc \in {"check", "drain"} => next = 1
  /\ pc = "apply" => \A i \in DOMAIN batch : i < next => batch[i] \in Authors(local)
BranchesInLine == \A b \in Branches : Fits(b, accepted, Taken, ToSet(batch))
OrderInv == QueueInLine /\ BatchInLine /\ BranchesInLine

\* A step that takes nothing from the queue: the batch may lose elements, a
\* branch may move to another one.
LEMMA OrderStays ==
  ASSUME OrderInv, UNCHANGED <<accepted, queue>>,
         \A r \in Requests : caller[r] # "new" => caller'[r] # "new",
         accepted \in Seq(Requests),
         BatchInLine', ToSet(batch)' \subseteq ToSet(batch), Branches' \subseteq Branches
  PROVE  OrderInv'
<1>1. Taken' = Taken
  BY DEF Taken
<1>2. QueueInLine'
  <2>1. \A r \in ToSet(accepted) : r \in Requests
    BY DEF ToSet
  <2> QED BY <1>1, <2>1 DEF OrderInv, QueueInLine
<1>3. ASSUME NEW b \in Branches'  PROVE Fits(b, accepted', Taken', ToSet(batch'))
  <2>1. Fits(b, accepted, Taken, ToSet(batch))
    BY DEF OrderInv, BranchesInLine
  <2> QED BY <1>1, <2>1, FitsFewer
<1> QED BY <1>2, <1>3 DEF OrderInv, BranchesInLine

LEMMA CallerOrder ==
  ASSUME TypeOK, OrderInv, NEW r \in Requests, Caller(r)  PROVE OrderInv'
<1>1. UNCHANGED <<pc, batch, next, local, remote, late>>
  BY DEF Caller, Enqueue, AddCancelled, Cancel, Return, GiveUp, batchVars, branchVars
<1>2. CASE Enqueue(r)
  <2>1. /\ accepted \in Seq(Requests) /\ r \notin ToSet(accepted) /\ queue \in Seq(Requests)
        /\ accepted' = Append(accepted, r) /\ queue' = Append(queue, r)
        /\ caller' = [caller EXCEPT ![r] = "waiting"] /\ caller \in [Requests -> {"new", "waiting", "done"}]
    BY <1>2 DEF Enqueue, OrderInv, QueueInLine, TypeOK
  <2>2. /\ Len(accepted') = Len(accepted) + 1 /\ Len(queue') = Len(queue) + 1
        /\ Len(accepted) \in Nat /\ Len(queue) \in Nat
        /\ accepted'[Len(accepted) + 1] = r /\ queue'[Len(queue) + 1] = r
        /\ \A i \in 1 .. Len(accepted) : accepted'[i] = accepted[i]
        /\ \A i \in 1 .. Len(queue) : queue'[i] = queue[i]
        /\ DOMAIN accepted = 1 .. Len(accepted) /\ DOMAIN queue = 1 .. Len(queue)
        /\ DOMAIN accepted' = 1 .. Len(accepted) + 1 /\ DOMAIN queue' = 1 .. Len(queue) + 1
    BY <2>1
  <2>3. Taken' = Taken /\ Taken \in 0 .. Len(accepted)
    BY <2>2 DEF Taken, OrderInv, QueueInLine
  <2>4. QueueInLine'
    <3>1. Distinct(accepted')
      BY <2>1, DistinctAppend DEF OrderInv, QueueInLine
    <3>2. ToSet(accepted') = ToSet(accepted) \cup {r}
      BY <2>1, AppendSet
    <3>3. \A q \in ToSet(accepted') : caller'[q] # "new"
      <4>1. \A q \in ToSet(accepted) : q \in Requests
        BY <2>1 DEF ToSet
      <4> QED BY <2>1, <3>2, <4>1 DEF OrderInv, QueueInLine
    <3>4. ASSUME NEW i \in 1 .. Len(queue) + 1  PROVE queue'[i] = accepted'[Taken + i]
      <4>1. CASE i \in 1 .. Len(queue)
        <5>1. Taken + i \in 1 .. Len(accepted)
          BY <2>2, <2>3, <4>1 DEF Taken
        <5> QED BY <2>2, <4>1, <5>1 DEF OrderInv, QueueInLine
      <4>2. CASE i = Len(queue) + 1
        <5>1. Taken + i = Len(accepted) + 1
          BY <2>2, <4>2 DEF Taken
        <5> QED BY <2>2, <4>2, <5>1
      <4> QED BY <2>2, <4>1, <4>2
    <3>5. Taken \in 0 .. Len(accepted')
      BY <2>2, <2>3
    <3> QED BY <2>2, <2>3, <3>1, <3>3, <3>4, <3>5 DEF QueueInLine
  <2>5. BatchInLine'
    <3>1. \A i \in DOMAIN batch : \E p \in 1 .. Taken : accepted'[p] = batch[i]
      <4>1. \A p \in 1 .. Taken : p \in 1 .. Len(accepted)
        BY <2>2, <2>3
      <4> QED BY <2>2, <4>1 DEF OrderInv, BatchInLine
    <3>2. \A x, y : Before(accepted, x, y) => Before(accepted', x, y)
      <4>1. \A i \in 1 .. Len(accepted) : i \in 1 .. Len(accepted) + 1
        BY <2>2
      <4> QED BY <2>2, <4>1 DEF Before
    <3> QED BY <1>1, <2>3, <3>1, <3>2 DEF OrderInv, BatchInLine
  <2>6. ASSUME NEW b \in Branches'  PROVE Fits(b, accepted', Taken', ToSet(batch'))
    <3>1. b \in Branch /\ Fits(b, accepted, Taken, ToSet(batch))
      BY <1>1 DEF OrderInv, BranchesInLine, Branches, TypeOK
    <3>2. Fits(b, Append(accepted, r), Taken, ToSet(batch))
      BY <2>1, <2>3, <3>1, FitsEnqueue
    <3> QED BY <1>1, <2>1, <2>3, <3>2
  <2> QED BY <2>4, <2>5, <2>6 DEF OrderInv, BranchesInLine
<1>3. CASE AddCancelled(r) \/ Cancel(r) \/ Return(r) \/ GiveUp(r)
  <2>1. UNCHANGED <<accepted, queue>>
    BY <1>3 DEF AddCancelled, Cancel, Return, GiveUp
  <2>2. \A q \in Requests : caller[q] # "new" => caller'[q] # "new"
    BY <1>3 DEF AddCancelled, Cancel, Return, GiveUp, callerVars, TypeOK
  <2>3. Branches' = Branches /\ ToSet(batch)' = ToSet(batch) /\ Taken' = Taken
    BY <1>1, <2>1 DEF Branches, Taken
  <2>4. BatchInLine'
    BY <1>1, <2>1, <2>3 DEF OrderInv, BatchInLine
  <2>5. accepted \in Seq(Requests)
    BY DEF TypeOK
  <2> QED BY <2>1, <2>2, <2>3, <2>4, <2>5, OrderStays
<1> QED BY <1>2, <1>3 DEF Caller

\* The worker takes the next request, which goes behind the batch or is
\* answered at once.
LEMMA TakingOrder ==
  ASSUME TypeOK, OrderInv, Take \/ Drain, Take => batch = <<>>  PROVE OrderInv'
<1> DEFINE r == Head(queue)
<1>1. /\ queue \in Seq(Requests) /\ accepted \in Seq(Requests) /\ batch \in Seq(Requests)
      /\ queue # <<>> /\ queue' = Tail(queue) /\ UNCHANGED <<accepted, caller, local, remote, late>>
      /\ batch' \in {batch, Append(batch, r)}
  <2>1. CASE Take
    <3>1. Append(<<>>, r) = <<r>>
      OBVIOUS
    <3> QED BY <2>1, <3>1 DEF Take, Locals, TypeOK, callerVars, branchVars
  <2>2. CASE Drain
    BY <2>2 DEF Drain, TypeOK, callerVars, branchVars
  <2> QED BY <2>1, <2>2
<1>2. /\ r = queue[1] /\ r \in Requests /\ Len(queue) \in Nat /\ Len(queue) >= 1
      /\ Len(queue') = Len(queue) - 1 /\ DOMAIN queue = 1 .. Len(queue) /\ DOMAIN queue' = 1 .. Len(queue) - 1
      /\ \A i \in 1 .. Len(queue) - 1 : queue'[i] = queue[i + 1]
      /\ Len(accepted) \in Nat /\ DOMAIN accepted = 1 .. Len(accepted)
  BY <1>1, EmptySeq
<1>3. Taken' = Taken + 1 /\ Taken \in Nat /\ Taken + 1 <= Len(accepted)
  BY <1>1, <1>2 DEF Taken, OrderInv, QueueInLine
<1>4. r = accepted[Taken + 1]
  <2>1. 1 \in 1 .. Len(queue)
    BY <1>2
  <2> QED BY <1>2, <2>1 DEF OrderInv, QueueInLine
<1>5. QueueInLine'
  <2>1. ASSUME NEW i \in 1 .. Len(queue) - 1  PROVE queue'[i] = accepted[(Taken + 1) + i]
    <3>1. i + 1 \in 1 .. Len(queue) /\ Taken + (i + 1) = (Taken + 1) + i
      BY <1>2, <1>3
    <3> QED BY <1>2, <3>1 DEF OrderInv, QueueInLine
  <2>2. Taken + 1 \in 0 .. Len(accepted)
    BY <1>2, <1>3
  <2> QED BY <1>1, <1>2, <1>3, <2>1, <2>2 DEF OrderInv, QueueInLine
<1> HIDE DEF r
<1>6. ToSet(batch') \subseteq ToSet(batch) \cup {r}
  <2>1. ToSet(Append(batch, r)) = ToSet(batch) \cup {r}
    BY <1>1, <1>2, AppendSet
  <2> QED BY <1>1, <2>1
<1>7. BatchInLine'
  <2>1. \A p \in 1 .. Taken : p \in 1 .. Taken + 1
    BY <1>3
  <2>2. \A i \in DOMAIN batch : \E p \in 1 .. Taken + 1 : accepted[p] = batch[i]
    BY <2>1 DEF OrderInv, BatchInLine
  <2>3. \A i, j \in DOMAIN batch : i < j => Before(accepted, batch[i], batch[j])
    BY DEF OrderInv, BatchInLine
  <2>4. pc' # "apply" /\ next' = 1
    BY DEF Take, Drain, Locals, OrderInv, BatchInLine
  <2>5. CASE batch' = batch
    BY <1>1, <1>3, <2>2, <2>3, <2>4, <2>5 DEF BatchInLine
  <2>6. CASE batch' = Append(batch, r)
    <3>1. /\ Len(batch) \in Nat /\ DOMAIN batch = 1 .. Len(batch) /\ DOMAIN batch' = 1 .. Len(batch) + 1
          /\ batch'[Len(batch) + 1] = r /\ \A i \in 1 .. Len(batch) : batch'[i] = batch[i]
      BY <1>1, <1>2, <2>6
    <3>2. Taken + 1 \in 1 .. Taken + 1 /\ Taken + 1 \in DOMAIN accepted
      BY <1>2, <1>3
    <3>3. ASSUME NEW i \in 1 .. Len(batch)  PROVE Before(accepted, batch[i], r)
      <4>1. PICK p \in 1 .. Taken : accepted[p] = batch[i]
        BY <3>1 DEF OrderInv, BatchInLine
      <4>2. p \in DOMAIN accepted /\ p < Taken + 1
        BY <1>2, <1>3
      <4> QED BY <1>4, <3>2, <4>1, <4>2 DEF Before
    <3>4. ASSUME NEW i \in 1 .. Len(batch) + 1, NEW j \in 1 .. Len(batch) + 1, i < j
          PROVE  Before(accepted, batch'[i], batch'[j])
      <4>1. i \in 1 .. Len(batch) /\ (j \in 1 .. Len(batch) \/ j = Len(batch) + 1)
        BY <3>1, <3>4
      <4> QED BY <2>3, <3>1, <3>3, <3>4, <4>1
    <3>5. ASSUME NEW i \in 1 .. Len(batch) + 1  PROVE \E p \in 1 .. Taken + 1 : accepted[p] = batch'[i]
      <4>1. i \in 1 .. Len(batch) \/ i = Len(batch) + 1
        BY <3>1
      <4> QED BY <1>4, <2>2, <3>1, <3>2, <4>1
    <3> QED BY <1>1, <1>3, <2>4, <3>1, <3>4, <3>5 DEF BatchInLine
  <2> QED BY <1>1, <2>5, <2>6
<1>8. ASSUME NEW b \in Branches'  PROVE Fits(b, accepted', Taken', ToSet(batch'))
  <2>1. Fits(b, accepted, Taken, ToSet(batch))
    BY <1>1 DEF OrderInv, BranchesInLine, Branches
  <2>2. Fits(b, accepted, Taken + 1, ToSet(batch) \cup {r})
    BY <1>1, <1>3, <1>4, <2>1, FitsTake DEF OrderInv, QueueInLine
  <2> QED BY <1>1, <1>3, <1>6, <2>2, FitsFewer
<1> QED BY <1>5, <1>7, <1>8 DEF OrderInv, BranchesInLine

\* Some of the elements of a sequence, in their order.
PartOf(t, s) ==
  \E at \in [DOMAIN t -> DOMAIN s] :
    /\ \A i, j \in DOMAIN t : i < j => at[i] < at[j]
    /\ \A i \in DOMAIN t : t[i] = s[at[i]]

LEMMA PartRemoveAt ==
  ASSUME NEW S, NEW s \in Seq(S), NEW n \in 1 .. Len(s)  PROVE PartOf(RemoveAt(s, n), s)
<1> DEFINE t == RemoveAt(s, n)
           at == [i \in 1 .. Len(s) - 1 |-> IF i < n THEN i ELSE i + 1]
<1>1. /\ t \in Seq(S) /\ Len(t) = Len(s) - 1 /\ Len(s) \in Nat
      /\ \A j \in 1 .. n - 1 : t[j] = s[j]
      /\ \A j \in n .. Len(s) - 1 : t[j] = s[j + 1]
  <2>1. Len(s) \in Nat
    OBVIOUS
  <2> QED BY <2>1, RemoveAtProperties, Zenon
<1> HIDE DEF t
<1>2. DOMAIN t = 1 .. Len(s) - 1 /\ DOMAIN s = 1 .. Len(s) /\ n \in 1 .. Len(s)
  BY <1>1
<1>3. at \in [DOMAIN t -> DOMAIN s]
  BY <1>1, <1>2
<1>4. \A i, j \in DOMAIN t : i < j => at[i] < at[j]
  BY <1>1, <1>2
<1>5. ASSUME NEW i \in DOMAIN t  PROVE t[i] = s[at[i]]
  <2>1. CASE i < n
    BY <1>1, <1>2, <2>1
  <2>2. CASE ~(i < n)
    BY <1>1, <1>2, <2>2
  <2> QED BY <2>1, <2>2
<1> HIDE DEF at
<1> QED BY <1>3, <1>4, <1>5 DEF PartOf, t

LEMMA PartTail ==
  ASSUME NEW S, NEW s \in Seq(S), s # <<>>  PROVE PartOf(Tail(s), s)
<1> DEFINE t == Tail(s)
           at == [i \in 1 .. Len(s) - 1 |-> i + 1]
<1>1. /\ Len(s) \in Nat \ {0} /\ DOMAIN s = 1 .. Len(s) /\ DOMAIN t = 1 .. Len(s) - 1
      /\ \A i \in 1 .. Len(s) - 1 : t[i] = s[i + 1]
  BY HeadTailProperties, LenProperties, EmptySeq
<1> HIDE DEF t
<1>2. at \in [DOMAIN t -> DOMAIN s]
  BY <1>1
<1>3. \A i, j \in DOMAIN t : i < j => at[i] < at[j]
  BY <1>1
<1>4. \A i \in DOMAIN t : t[i] = s[at[i]]
  BY <1>1
<1> HIDE DEF at
<1> QED BY <1>2, <1>3, <1>4 DEF PartOf, t

\* A part of the batch is in line as the batch is.
Line(s, acc, k) ==
  /\ \A i \in DOMAIN s : \E p \in 1 .. k : acc[p] = s[i]
  /\ \A i, j \in DOMAIN s : i < j => Before(acc, s[i], s[j])

LEMMA PartInLine ==
  ASSUME NEW acc, NEW k, NEW s, NEW t, PartOf(t, s), Line(s, acc, k)
  PROVE  Line(t, acc, k) /\ ToSet(t) \subseteq ToSet(s)
<1> USE DEF Line
<1> PICK at \in [DOMAIN t -> DOMAIN s] :
           /\ \A i, j \in DOMAIN t : i < j => at[i] < at[j]
           /\ \A i \in DOMAIN t : t[i] = s[at[i]]
  BY DEF PartOf
<1> QED BY DEF ToSet

LEMMA ApplyOkOrder == ASSUME TypeOK, OrderInv, ApplyOk  PROVE OrderInv'
<1> DEFINE r == batch[next]
           c == commits[r] + 1
<1>1. /\ pc = "apply" /\ next \in DOMAIN batch /\ r \in Requests /\ c \in Nat \ {0}
      /\ local' = Append(local, <<r, c>>) /\ next' = next + 1
      /\ UNCHANGED <<accepted, queue, caller, pc, batch, remote, late>>
  BY DEF ApplyOk, Applying, TypeOK, callerVars
<1>2. /\ local \in Branch /\ accepted \in Seq(Requests) /\ batch \in Seq(Requests)
      /\ next \in Nat /\ DOMAIN batch \subseteq Nat
  BY DEF TypeOK
<1>3. Taken' = Taken /\ Taken \in 0 .. Len(accepted) /\ Distinct(accepted)
  BY <1>1 DEF Taken, OrderInv, QueueInLine
<1>4. QueueInLine'
  BY <1>1, <1>3 DEF OrderInv, QueueInLine
<1>5. /\ \A i \in DOMAIN batch : \E p \in 1 .. Taken : accepted[p] = batch[i]
      /\ \A i, j \in DOMAIN batch : i < j => Before(accepted, batch[i], batch[j])
      /\ \A i \in DOMAIN batch : i < next => batch[i] \in Authors(local)
  BY <1>1 DEF OrderInv, BatchInLine
<1>6. Authors(local') = Authors(local) \cup {r}
  <2>1. <<r, c>> \in Commit /\ <<r, c>>[1] = r
    BY <1>1 DEF Commit
  <2> QED BY <1>1, <1>2, <2>1, AppendAuthors DEF Branch
<1>7. Fits(local', accepted, Taken, ToSet(batch))
  <2>1. Fits(local, accepted, Taken, ToSet(batch)) /\ \E p \in 1 .. Taken : accepted[p] = batch[next]
    BY <1>1, <1>5 DEF OrderInv, BranchesInLine, Branches
  <2>2. Fits(Append(local, <<batch[next], c>>), accepted, Taken, ToSet(batch))
    BY <1>1, <1>2, <1>3, <1>5, <2>1, FitsApply
  <2> QED BY <1>1, <2>2
<1> HIDE DEF c
<1>8. BatchInLine'
  <2>1. \A i \in DOMAIN batch : i < next + 1 => i < next \/ i = next
    BY <1>2
  <2>2. \A i \in DOMAIN batch : i < next + 1 => batch[i] \in Authors(local')
    BY <1>5, <1>6, <2>1
  <2> QED BY <1>1, <1>3, <1>5, <2>2 DEF BatchInLine
<1>9. \A b \in Branches' : Fits(b, accepted, Taken, ToSet(batch))
  BY <1>1, <1>7 DEF OrderInv, BranchesInLine, Branches
<1> QED BY <1>1, <1>3, <1>4, <1>8, <1>9 DEF OrderInv, BranchesInLine

LEMMA WorkingOrder ==
  ASSUME TypeOK, OrderInv, ApplyFailed \/ Answer  PROVE OrderInv'
<1>1. /\ UNCHANGED <<accepted, queue, caller, local, remote, late>>
      /\ accepted \in Seq(Requests) /\ batch \in Seq(Requests) /\ next \in Nat \ {0}
  BY DEF ApplyFailed, Answer, TypeOK, callerVars, branchVars
<1>2. Branches' = Branches /\ Taken' = Taken
  BY <1>1 DEF Branches, Taken
<1>3. ASSUME PartOf(batch', batch),
             pc' \in {"check", "drain"} => next' = 1,
             pc' = "apply" => \A i \in DOMAIN batch' : i < next' => batch'[i] \in Authors(local)
      PROVE  OrderInv'
  <2>1. /\ \A i \in DOMAIN batch' : \E p \in 1 .. Taken : accepted[p] = batch'[i]
        /\ \A i, j \in DOMAIN batch' : i < j => Before(accepted, batch'[i], batch'[j])
        /\ ToSet(batch') \subseteq ToSet(batch)
    <3>1. Line(batch, accepted, Taken)
      BY DEF OrderInv, BatchInLine, Line
    <3>2. Line(batch', accepted, Taken) /\ ToSet(batch') \subseteq ToSet(batch)
      BY <1>3, <3>1, PartInLine
    <3> QED BY <3>2 DEF Line
  <2>2. BatchInLine'
    BY <1>1, <1>2, <1>3, <2>1 DEF BatchInLine
  <2> QED BY <1>1, <1>2, <2>1, <2>2, OrderStays
<1>4. CASE ApplyFailed
  <2>1. next \in 1 .. Len(batch) /\ batch' = RemoveAt(batch, next) /\ pc = "apply" /\ UNCHANGED <<pc, next>>
    BY <1>1, <1>4 DEF ApplyFailed, Applying
  <2>2. PartOf(batch', batch)
    BY <1>1, <2>1, PartRemoveAt
  <2>3. ASSUME NEW i \in DOMAIN batch', i < next  PROVE batch'[i] \in Authors(local)
    <3>1. /\ DOMAIN batch' = 1 .. Len(batch) - 1 /\ DOMAIN batch = 1 .. Len(batch) /\ Len(batch) \in Nat
          /\ \A j \in 1 .. next - 1 : batch'[j] = batch[j]
      <4>1. batch' \in Seq(Requests) /\ Len(batch') = Len(batch) - 1 /\ \A j \in 1 .. next - 1 : batch'[j] = batch[j]
        BY <1>1, <2>1, RemoveAtProperties
      <4> QED BY <1>1, <4>1
    <3>2. i \in 1 .. next - 1 /\ i \in DOMAIN batch
      BY <2>1, <2>3, <3>1
    <3> QED BY <2>1, <2>3, <3>1, <3>2 DEF OrderInv, BatchInLine
  <2> QED BY <1>3, <2>1, <2>2, <2>3
<1>5. CASE Answer
  <2>1. /\ batch' \in {<<>>, Tail(batch)} /\ batch # <<>> /\ pc' \in {"idle", "answer"}
    BY <1>5, EmptySeq DEF Answer, Locals
  <2>2. PartOf(batch', batch)
    <3>1. PartOf(<<>>, batch)
      <4>1. DOMAIN <<>> = {}
        OBVIOUS
      <4>2. [i \in {} |-> i] \in [DOMAIN <<>> -> DOMAIN batch]
        BY <4>1
      <4> QED BY <4>1, <4>2 DEF PartOf
    <3>2. PartOf(Tail(batch), batch)
      BY <1>1, <2>1, PartTail
    <3> QED BY <2>1, <3>1, <3>2
  <2> QED BY <1>3, <2>1, <2>2
<1> QED BY <1>4, <1>5

\* A branch moves to another one, or the worker goes on.
LEMMA MovingOrder ==
  ASSUME TypeOK, OrderInv, UNCHANGED <<accepted, queue, caller, batch>>,
         Branches' \subseteq Branches,
         pc' \in {"check", "drain"} => pc \in {"check", "drain"} /\ next' = next,
         pc' = "apply" => next' = 1 \/ UNCHANGED <<pc, next, local>>
  PROVE  OrderInv'
<1>1. Taken' = Taken
  BY DEF Taken
<1>2. batch \in Seq(Requests) /\ \A i \in DOMAIN batch : ~(i < 1)
  BY DEF TypeOK
<1>3. pc' = "apply" => \A i \in DOMAIN batch' : i < next' => batch'[i] \in Authors(local')
  BY <1>2 DEF OrderInv, BatchInLine
<1>4. BatchInLine'
  BY <1>1, <1>3 DEF OrderInv, BatchInLine
<1>5. accepted \in Seq(Requests)
  BY DEF TypeOK
<1> QED BY <1>4, <1>5, OrderStays

LEMMA OtherOrder ==
  ASSUME TypeOK, OrderInv,
         \/ CheckFirst \/ Drained \/ ApplyInvalidJson \/ Applied
         \/ PushAccepted \/ PushRefused \/ PushBroken \/ PushTimeout \/ PushDiverged \/ Reset \/ Post
         \/ \E b \in late : Land(b)
  PROVE  OrderInv'
<1> USE DEF callerVars, batchVars, branchVars, Branches
<1>1. CASE CheckFirst
  BY <1>1, MovingOrder DEF CheckFirst
<1>2. CASE Drained
  <2>1. next' = 1
    BY <1>2 DEF Drained, OrderInv, BatchInLine
  <2> QED BY <1>2, <2>1, MovingOrder DEF Drained
<1>3. CASE ApplyInvalidJson
  BY <1>3, MovingOrder DEF ApplyInvalidJson, Applying, FetchAndReset
<1>4. CASE Applied
  BY <1>4, MovingOrder DEF Applied, Locals
<1>5. CASE PushAccepted
  BY <1>5, MovingOrder DEF PushAccepted, Pushed
<1>6. CASE PushRefused
  BY <1>6, MovingOrder DEF PushRefused, Pushed
<1>7. CASE PushBroken
  BY <1>7, MovingOrder DEF PushBroken, RetryOrFail
<1>8. CASE PushTimeout
  BY <1>8, MovingOrder DEF PushTimeout, RetryOrFail
<1>9. CASE PushDiverged
  BY <1>9, MovingOrder DEF PushDiverged
<1>10. CASE Reset
  BY <1>10, MovingOrder DEF Reset, FetchAndReset
<1>11. CASE Post
  BY <1>11, MovingOrder DEF Post
<1>12. CASE \E b \in late : Land(b)
  BY <1>12, MovingOrder DEF Land
<1> QED BY <1>1, <1>2, <1>3, <1>4, <1>5, <1>6, <1>7, <1>8, <1>9, <1>10, <1>11, <1>12

LEMMA ForeignOrder == ASSUME TypeOK, OrderInv, ForeignPush  PROVE OrderInv'
<1>1. UNCHANGED <<accepted, queue, caller, batch, next, pc, local, late>>
  BY DEF ForeignPush, callerVars, batchVars
<1>2. Taken' = Taken
  BY <1>1 DEF Taken
<1>3. QueueInLine' /\ BatchInLine'
  BY <1>1, <1>2 DEF OrderInv, QueueInLine, BatchInLine
<1>4. Fits(remote', accepted, Taken, ToSet(batch))
  <2>1. /\ remote' = Append(remote, <<Foreign, Foreigners + 1>>) /\ Foreigners + 1 \in Nat \ {0}
        /\ remote \in Branch /\ accepted \in Seq(Requests)
    BY ForeignersType DEF ForeignPush, TypeOK
  <2>2. Fits(remote, accepted, Taken, ToSet(batch))
    BY DEF OrderInv, BranchesInLine, Branches
  <2> QED BY <2>1, <2>2, FitsForeign
<1> QED BY <1>1, <1>2, <1>3, <1>4 DEF OrderInv, BranchesInLine, Branches

\* Requests get into the branch in the order in which the queue took them.
THEOREM OrderIsKept == Spec => []AppliedInOrder
<1>1. Init => OrderInv
  <2> SUFFICES ASSUME Init PROVE OrderInv
    OBVIOUS
  <2>1. accepted = <<>> /\ queue = <<>> /\ batch = <<>> /\ Branches = {<<>>} /\ pc = "idle"
    BY DEF Init, Branches
  <2>2. Authors(<<>>) = {} /\ ToSet(<<>>) = {}
    BY DEF Authors, ToSet
  <2>3. \A acc, k : Fits(<<>>, acc, k, {})
    BY <2>2 DEF Fits, InLine
  <2>4. Taken \in 0 .. Len(accepted)
    BY <2>1 DEF Taken
  <2>5. QueueInLine /\ BatchInLine
    <3>1. DOMAIN <<>> = {}
      OBVIOUS
    <3> QED BY <2>1, <2>2, <2>4, <3>1 DEF QueueInLine, BatchInLine, Distinct
  <2>6. BranchesInLine
    <3>1. ToSet(batch) = {}
      BY <2>1, <2>2
    <3> QED BY <2>1, <2>3, <3>1 DEF BranchesInLine
  <2> QED BY <2>5, <2>6 DEF OrderInv
<1>2. TypeOK /\ OnceInv /\ OrderInv /\ [Next]_vars => OrderInv'
  <2> SUFFICES ASSUME TypeOK, OnceInv, OrderInv, [Next]_vars PROVE OrderInv'
    OBVIOUS
  <2>1. CASE UNCHANGED vars
    BY <2>1, MovingOrder DEF vars, callerVars, batchVars, branchVars, Branches
  <2>2. Take => batch = <<>>
    BY DEF Take, OnceInv
  <2> QED
    BY <2>1, <2>2, CallerOrder, TakingOrder, ApplyOkOrder, WorkingOrder, OtherOrder, ForeignOrder
    DEF Next, Worker, Environment
<1>3. OrderInv => AppliedInOrder
  <2> SUFFICES ASSUME OrderInv PROVE AppliedInOrder
    OBVIOUS
  <2>1. InLine(local, accepted) /\ InLine(remote, accepted)
    BY DEF OrderInv, BranchesInLine, Branches, Fits
  <2> QED BY <2>1 DEF AppliedInOrder, InOrder, InLine, Precedes, Before
<1> QED BY <1>1, <1>2, <1>3, TypeCorrect, OnceHolds, PTL DEF Spec
==============================================================================
