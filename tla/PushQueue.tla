------------------------------ MODULE PushQueue ------------------------------
(***************************************************************************)
(* How a request reaches the manifest repository (queue.go, repository.go): *)
(* callers put their transformers into a bounded channel and wait on a      *)
(* channel of their own; one worker takes what is there, applies and        *)
(* commits each element to the local branch, pushes once for all of them,   *)
(* and answers.  When the remote branch has moved, the worker resets to it, *)
(* applies the elements again and pushes a second time.                     *)
(*                                                                          *)
(* Transformers succeed or fail at will here; what they do to the tree is   *)
(* module ManifestRepo.  A branch is the sequence of the commits made since *)
(* the start, each with the request it is made for.                         *)
(***************************************************************************)
EXTENDS Integers, FiniteSets, Sequences, SequencesExt

CONSTANTS
  Requests,     \* requests, each made once by a caller of its own
  Cancellable,  \* the ones whose context may be cancelled
  QueueCap,     \* capacity of queue.elements
  MaxTries,     \* pushes in one call of Push: the first and its retries
  MaxForeign,   \* bound on the commits others push to the branch
  MaxLate,      \* bound on the pushes that outlive their timeout
  Foreign       \* the author of the commits that others push

ASSUME ConstantsAssumption ==
  /\ Cancellable \subseteq Requests
  /\ QueueCap \in Nat \ {0} /\ MaxTries \in Nat \ {0}
  /\ MaxForeign \in Nat /\ MaxLate \in Nat
  /\ Foreign \notin Requests

VARIABLES
  caller,      \* where each request's caller is
  live,        \* requests whose context is not cancelled
  answer,      \* what Apply returned
  result,      \* the result channel of a request, with room for one value
  queue,       \* queue.elements
  accepted,    \* every request that entered the queue, in order (history)
  pc,          \* what the worker does next
  batch,       \* the elements it works on
  next,        \* the index of the element to apply
  redo,        \* allowFetchAndReset
  round,       \* 1, or 2 once the elements are applied again
  tries,       \* pushes made in this round
  err,         \* the error that ProcessQueueOnce answers with
  changed,     \* requests in the changes of the first applyElements
  local,       \* the local branch
  remote,      \* the branch of the manifest repository
  late,        \* pushes whose caller gave up on them: the branches they push
  commits,     \* how often each request has been committed
  announced,   \* requests whose changes went to Argo CD's webhook
  seen,        \* requests in the branch that subscribers were last told of
  refused      \* requests in a second push that the remote rejected (history)

callerVars == <<caller, live, answer>>
batchVars == <<batch, next, redo, round, tries, changed>>
branchVars == <<local, remote, late, commits>>
outVars == <<announced, seen, refused>>
vars == <<callerVars, result, queue, accepted, pc, batchVars, err,
          branchVars, outVars>>

NoAnswer == "none"
Answers == {"ok", "failed", "cancelled"}
Authors(branch) == {branch[i][1] : i \in DOMAIN branch}
Foreigners == Cardinality({i \in DOMAIN remote : remote[i][1] = Foreign})

Init ==
  /\ caller = [r \in Requests |-> "new"]
  /\ live = Requests
  /\ answer = [r \in Requests |-> NoAnswer]
  /\ result = [r \in Requests |-> NoAnswer]
  /\ queue = <<>> /\ accepted = <<>>
  /\ pc = "idle"
  /\ batch = <<>> /\ next = 1 /\ redo = TRUE /\ round = 1 /\ tries = 0 /\ changed = {}
  /\ err = NoAnswer
  /\ local = <<>> /\ remote = <<>> /\ late = {}
  /\ commits = [r \in Requests |-> 0]
  /\ announced = {} /\ seen = {} /\ refused = {}

-----------------------------------------------------------------------------
(* Callers: Apply, queue.add *)

\* Mutant: the channel takes one element too many.
EnqueueOneMore(r) ==
  /\ caller[r] = "new" /\ Len(queue) <= QueueCap
  /\ queue' = Append(queue, r)
  /\ accepted' = Append(accepted, r)
  /\ caller' = [caller EXCEPT ![r] = "waiting"]
  /\ UNCHANGED <<live, answer, result, pc, batchVars, err, branchVars, outVars>>

\* The channel has room.
Enqueue(r) ==
  /\ caller[r] = "new" /\ Len(queue) < QueueCap
  /\ queue' = Append(queue, r)
  /\ accepted' = Append(accepted, r)
  /\ caller' = [caller EXCEPT ![r] = "waiting"]
  /\ UNCHANGED <<live, answer, result, pc, batchVars, err, branchVars, outVars>>

\* The context ends first; with room in the channel, select takes either case.
AddCancelled(r) ==
  /\ caller[r] = "new" /\ r \notin live
  /\ result' = [result EXCEPT ![r] = "cancelled"]
  /\ caller' = [caller EXCEPT ![r] = "waiting"]
  /\ UNCHANGED <<live, answer, queue, accepted, pc, batchVars, err, branchVars, outVars>>

\* The caller's connection breaks or its deadline passes.
Cancel(r) ==
  /\ r \in live \cap Cancellable /\ caller[r] # "done"
  /\ live' = live \ {r}
  /\ UNCHANGED <<caller, answer, result, queue, accepted, pc, batchVars, err, branchVars, outVars>>

Return(r) ==
  /\ caller[r] = "waiting" /\ result[r] # NoAnswer
  /\ answer' = [answer EXCEPT ![r] = result[r]]
  /\ result' = [result EXCEPT ![r] = NoAnswer]
  /\ caller' = [caller EXCEPT ![r] = "done"]
  /\ UNCHANGED <<live, queue, accepted, pc, batchVars, err, branchVars, outVars>>

\* Apply returns the context's error; nobody reads the result any more.
GiveUp(r) ==
  /\ caller[r] = "waiting" /\ r \notin live
  /\ answer' = [answer EXCEPT ![r] = "cancelled"]
  /\ caller' = [caller EXCEPT ![r] = "done"]
  /\ UNCHANGED <<live, result, queue, accepted, pc, batchVars, err, branchVars, outVars>>

-----------------------------------------------------------------------------
(* The worker takes a batch: ProcessQueue, ProcessQueueOnce, drainQueue *)

\* The local variables of ProcessQueueOnce when it starts.
Locals(elements, e) ==
  /\ batch' = elements /\ err' = e
  /\ next' = 1 /\ redo' = TRUE /\ round' = 1 /\ tries' = 0 /\ changed' = {}

\* The deferred answers carry panicError until the batch has been applied.
Take ==
  /\ pc = "idle" /\ queue # <<>>
  /\ queue' = Tail(queue)
  /\ Locals(<<Head(queue)>>, "failed")
  /\ pc' = "check"
  /\ UNCHANGED <<callerVars, result, accepted, branchVars, outVars>>

\* A first element that is cancelled is answered here, and again by the
\* deferred loop.
CheckFirst ==
  /\ pc = "check"
  /\ \/ /\ batch[1] \notin live
        /\ result' = [result EXCEPT ![batch[1]] = "cancelled"]
        /\ pc' = "answer"
     \/ /\ batch[1] \in live
        /\ pc' = "drain"
        /\ UNCHANGED result
  /\ UNCHANGED <<callerVars, queue, accepted, batchVars, err, branchVars, outVars>>

\* Mutant: what is taken from the queue goes before the rest.
DrainInFront ==
  /\ pc = "drain" /\ queue # <<>>
  /\ queue' = Tail(queue)
  /\ \/ /\ Head(queue) \in live
        /\ batch' = <<Head(queue)>> \o batch
        /\ UNCHANGED result
     \/ /\ Head(queue) \notin live
        /\ result' = [result EXCEPT ![Head(queue)] = "cancelled"]
        /\ UNCHANGED batch
  /\ UNCHANGED <<callerVars, accepted, pc, next, redo, round, tries, changed, err, branchVars, outVars>>

\* Mutant: a cancelled element is dropped without an answer.
DrainForgetting ==
  /\ pc = "drain" /\ queue # <<>>
  /\ queue' = Tail(queue)
  /\ batch' = IF Head(queue) \in live THEN Append(batch, Head(queue)) ELSE batch
  /\ UNCHANGED <<callerVars, result, accepted, pc, next, redo, round, tries, changed, err,
                 branchVars, outVars>>

Drain ==
  /\ pc = "drain" /\ queue # <<>>
  /\ queue' = Tail(queue)
  /\ \/ /\ Head(queue) \in live
        /\ batch' = Append(batch, Head(queue))
        /\ UNCHANGED result
     \/ /\ Head(queue) \notin live
        /\ result' = [result EXCEPT ![Head(queue)] = "cancelled"]
        /\ UNCHANGED batch
  /\ UNCHANGED <<callerVars, accepted, pc, next, redo, round, tries, changed, err,
                 branchVars, outVars>>

Drained ==
  /\ pc = "drain" /\ queue = <<>>
  /\ pc' = "apply"
  /\ UNCHANGED <<callerVars, result, queue, accepted, batchVars, err, branchVars, outVars>>

-----------------------------------------------------------------------------
(* applyElements *)

Applying == pc = "apply" /\ next <= Len(batch)

ApplyOk ==
  LET r == batch[next]
  IN /\ Applying
     /\ commits' = [commits EXCEPT ![r] = @ + 1]
     /\ local' = Append(local, <<r, commits[r] + 1>>)
     /\ next' = next + 1
     /\ changed' = IF round = 1 THEN changed \cup {r} ELSE changed
     /\ UNCHANGED <<callerVars, result, queue, accepted, pc, batch, redo, round, tries, err,
                    remote, late, outVars>>

\* Mutant: the element that was answered stays in the batch.
ApplyFailedKept ==
  /\ Applying
  /\ result' = [result EXCEPT ![batch[next]] = "failed"]
  /\ next' = next + 1
  /\ UNCHANGED <<callerVars, queue, accepted, pc, batch, redo, round, tries, changed, err,
                 branchVars, outVars>>

\* Mutant: the failed element leaves the batch without an answer.
ApplyFailedSilently ==
  /\ Applying
  /\ batch' = RemoveAt(batch, next)
  /\ UNCHANGED <<callerVars, result, queue, accepted, pc, next, redo, round, tries, changed, err,
                 branchVars, outVars>>

\* A transformer failed: its caller is answered, the others go on.
ApplyFailed ==
  /\ Applying
  /\ result' = [result EXCEPT ![batch[next]] = "failed"]
  /\ batch' = RemoveAt(batch, next)
  /\ UNCHANGED <<callerVars, queue, accepted, pc, next, redo, round, tries, changed, err,
                 branchVars, outVars>>

\* FetchAndReset moves the local branch to the remote one.  It may fail before
\* or after that.
FetchAndReset ==
  /\ local' = remote
  /\ UNCHANGED <<remote, late, commits>>

\* Mutant: after the reset the batch goes on where it was.
ApplyInvalidJsonResuming ==
  /\ Applying /\ redo
  /\ FetchAndReset
  /\ redo' = FALSE
  /\ UNCHANGED <<callerVars, result, queue, accepted, pc, batch, next, round, tries, changed, err,
                 outVars>>

\* The repository holds a broken config.json: once per batch, the worker
\* fetches it again and starts the batch over.
ApplyInvalidJson ==
  /\ Applying /\ redo
  /\ \/ /\ FetchAndReset
        /\ next' = 1 /\ redo' = FALSE /\ changed' = {}
        /\ UNCHANGED <<pc, err>>
     \/ /\ FetchAndReset \/ UNCHANGED branchVars
        /\ pc' = "answer" /\ err' = "failed"
        /\ UNCHANGED <<next, redo, changed>>
  /\ UNCHANGED <<callerVars, result, queue, accepted, batch, round, tries, outVars>>

\* With no element left there is nothing to push, and nobody is notified.
Applied ==
  /\ pc = "apply" /\ next > Len(batch)
  /\ \/ /\ batch = <<>>
        /\ pc' = "idle" /\ Locals(<<>>, NoAnswer)
     \/ /\ batch # <<>>
        /\ pc' = "push" /\ err' = NoAnswer
        /\ UNCHANGED batchVars
  /\ UNCHANGED <<callerVars, result, queue, accepted, branchVars, outVars>>

-----------------------------------------------------------------------------
(* Push, the reset after a push that was no fast-forward, and the answers *)

FastForward == IsPrefix(remote, local)

\* Mutant: the worker answers before it tells anybody.
PushedQuietly(success) ==
  /\ err' = IF round = 1 /\ ~success THEN "failed" ELSE NoAnswer
  /\ pc' = "answer"

\* Mutant: pushSuccess is not looked at.
PushedUnchecked(success) ==
  /\ err' = NoAnswer
  /\ pc' = "post"

\* What the worker does after a push without an error: only the first round
\* looks at pushSuccess.
Pushed(success) ==
  /\ err' = IF round = 1 /\ ~success THEN "failed" ELSE NoAnswer
  /\ pc' = "post"

\* An earlier push of this round that timed out still runs, and its callback
\* writes the same pushSuccess.
PushAccepted ==
  /\ pc = "push" /\ FastForward
  /\ remote' = local
  /\ Pushed(TRUE) \/ (local \in late /\ Pushed(FALSE))
  /\ UNCHANGED <<callerVars, result, queue, accepted, batchVars, local, late, commits, outVars>>

\* The remote answers with a status for the ref: a protected branch, or one
\* that another push moved after the references were compared.
PushRefused ==
  /\ pc = "push"
  /\ Pushed(FALSE)
  /\ refused' = IF round = 2 THEN refused \cup ToSet(batch) ELSE refused
  /\ UNCHANGED <<callerVars, result, queue, accepted, batchVars, branchVars, announced, seen>>

\* A failed push is retried until the backoff gives up: after so many tries,
\* or earlier when the time is over.
RetryOrFail(e) ==
  /\ tries' = tries + 1
  /\ \/ tries' < MaxTries /\ UNCHANGED <<pc, err>>
     \/ pc' = "post" /\ err' = IF round = 1 THEN e ELSE "failed"

\* The connection breaks, before or after the remote has moved its branch.
PushBroken ==
  /\ pc = "push"
  /\ \/ FastForward /\ remote' = local
     \/ UNCHANGED remote
  /\ RetryOrFail("failed")
  /\ UNCHANGED <<callerVars, result, queue, accepted, batch, next, redo, round, changed,
                 local, late, commits, outVars>>

\* useRemote returns after NetworkTimeout; the push goes on by itself.
PushTimeout ==
  /\ pc = "push" /\ Cardinality(late) < MaxLate
  /\ late' = late \cup {local}
  /\ RetryOrFail("cancelled")
  /\ UNCHANGED <<callerVars, result, queue, accepted, batch, next, redo, round, changed,
                 local, remote, commits, outVars>>

\* Not a fast-forward.  The first time the worker resets and applies again.
PushDiverged ==
  /\ pc = "push" /\ ~FastForward
  /\ \/ /\ round = 1
        /\ pc' = "reset" /\ UNCHANGED err
     \/ /\ round = 2
        /\ pc' = "post" /\ err' = "failed"
  /\ UNCHANGED <<callerVars, result, queue, accepted, batchVars, branchVars, outVars>>

Reset ==
  /\ pc = "reset"
  /\ \/ /\ FetchAndReset
        /\ round' = 2 /\ next' = 1 /\ redo' = FALSE /\ tries' = 0
        /\ pc' = "apply"
        /\ UNCHANGED err
     \/ /\ FetchAndReset \/ UNCHANGED branchVars
        /\ pc' = "answer" /\ err' = "failed"
        /\ UNCHANGED <<round, next, redo, tries>>
  /\ UNCHANGED <<callerVars, result, queue, accepted, batch, changed, outVars>>

\* The webhook, whose failure is only logged, and Notify.
Post ==
  /\ pc = "post"
  /\ announced' = announced \cup changed
  /\ seen' = Authors(local)
  /\ pc' = "answer"
  /\ UNCHANGED <<callerVars, result, queue, accepted, batchVars, err, branchVars, refused>>

\* The deferred loop: one answer after the other.  A send to a channel that
\* is full waits for its reader.
Answer ==
  /\ pc = "answer"
  /\ result[batch[1]] = NoAnswer
  /\ result' = [result EXCEPT ![batch[1]] = IF err = NoAnswer THEN "ok" ELSE err]
  /\ \/ /\ Len(batch) = 1
        /\ pc' = "idle" /\ Locals(<<>>, NoAnswer)
     \/ /\ Len(batch) > 1
        /\ batch' = Tail(batch)
        /\ UNCHANGED <<pc, next, redo, round, tries, changed, err>>
  /\ UNCHANGED <<callerVars, queue, accepted, branchVars, outVars>>

-----------------------------------------------------------------------------
(* The remote repository *)

\* Somebody else pushes to the branch.
ForeignPush ==
  /\ Foreigners < MaxForeign
  /\ remote' = Append(remote, <<Foreign, Foreigners + 1>>)
  /\ UNCHANGED <<callerVars, result, queue, accepted, pc, batchVars, err, local, late,
                 commits, outVars>>

\* A push that was given up on reaches the remote, or is lost.
Land(branch) ==
  /\ branch \in late
  /\ late' = late \ {branch}
  /\ \/ IsPrefix(remote, branch) /\ remote' = branch
     \/ UNCHANGED remote
  /\ UNCHANGED <<callerVars, result, queue, accepted, pc, batchVars, err, local,
                 commits, outVars>>

-----------------------------------------------------------------------------
Caller(r) == Enqueue(r) \/ AddCancelled(r) \/ Cancel(r) \/ Return(r) \/ GiveUp(r)

Worker ==
  \/ Take \/ CheckFirst \/ Drain \/ Drained
  \/ ApplyOk \/ ApplyFailed \/ ApplyInvalidJson \/ Applied
  \/ PushAccepted \/ PushRefused \/ PushBroken \/ PushTimeout \/ PushDiverged
  \/ Reset \/ Post \/ Answer

Environment == ForeignPush \/ \E branch \in late : Land(branch)

Next == (\E r \in Requests : Caller(r)) \/ Worker \/ Environment

Spec == Init /\ [][Next]_vars

\* The worker is a goroutine that never stops while the service runs, and a
\* caller whose result is there returns.
FairSpec ==
  /\ Spec
  /\ WF_vars(Worker)
  /\ \A r \in Requests : WF_vars(Return(r) \/ GiveUp(r))

-----------------------------------------------------------------------------
(* Properties *)

Outcome == Answers \cup {NoAnswer}
Commit == (Requests \X (Nat \ {0})) \cup ({Foreign} \X (Nat \ {0}))
Branch == Seq(Commit)

\* Types; the queue holds no more than its channel has room for.
TypeOK ==
  /\ caller \in [Requests -> {"new", "waiting", "done"}]
  /\ live \subseteq Requests
  /\ answer \in [Requests -> Outcome] /\ result \in [Requests -> Outcome]
  /\ queue \in Seq(Requests) /\ Len(queue) <= QueueCap
  /\ accepted \in Seq(Requests)
  /\ pc \in {"idle", "check", "drain", "apply", "push", "reset", "post", "answer"}
  /\ batch \in Seq(Requests)
  /\ next \in Nat \ {0} /\ redo \in BOOLEAN /\ round \in {1, 2} /\ tries \in Nat
  /\ changed \subseteq Requests
  /\ err \in Outcome \ {"ok"}
  /\ local \in Branch /\ remote \in Branch /\ late \subseteq Branch
  /\ commits \in [Requests -> Nat]
  /\ announced \subseteq Requests /\ seen \subseteq Requests \cup {Foreign}
  /\ refused \subseteq Requests

Ok(r) == result[r] = "ok" \/ answer[r] = "ok"

\* A request that is answered with success is in the manifest repository and
\* stays there, whatever resets, retries, foreign and late pushes come.  The one
\* way to a success that is nowhere is the second push: when the remote rejects
\* it, ProcessQueueOnce does not look at pushSuccess.
SuccessIsPushed == \A r \in Requests : Ok(r) => r \in Authors(remote) \cup refused

\* Before that answer Argo CD was told of the request, and the subscribers of
\* the overview of a branch that has it: who reads after the answer sees it,
\* until a rejected one is reset away.
AnsweredIsVisible == \A r \in Requests : Ok(r) => r \in announced /\ r \in seen \cup refused

\* What makes the two inductive.  Up to the push every element that stays in
\* the batch is in the local branch and among the changes; behind a push
\* without an error it is in the remote one or rejected, behind Post it is
\* announced; and what was answered with success is never reset away unless it
\* was rejected.
BatchIsApplied ==
  /\ pc = "idle" => batch = <<>>
  /\ pc = "check" => err # NoAnswer
  /\ pc \in {"check", "drain"} => next = 1 /\ round = 1 /\ batch # <<>>
  /\ round = 2 => ~redo
  /\ pc = "apply" =>
       /\ next <= Len(batch) + 1
       /\ \A i \in 1 .. next - 1 : batch[i] \in Authors(local) \cap changed
       /\ round = 2 => ToSet(batch) \subseteq changed
  /\ pc \in {"push", "reset", "post"} =>
       batch # <<>> /\ ToSet(batch) \subseteq Authors(local) \cap changed
  /\ pc = "answer" => batch # <<>>
SuccessIsBacked ==
  /\ pc \in {"post", "answer"} /\ err = NoAnswer =>
       ToSet(batch) \subseteq Authors(local) \cap (Authors(remote) \cup refused)
  /\ pc = "answer" /\ err = NoAnswer => ToSet(batch) \subseteq announced \cap seen
  /\ \A r \in Requests : Ok(r) =>
       /\ r \in announced
       /\ r \in refused \/ (r \in Authors(local) /\ r \in Authors(remote) /\ r \in seen)
AnswersAreBacked == BatchIsApplied /\ SuccessIsBacked

\* Requests first get into the branch in the order in which the queue took
\* them, so a build that was accepted later is never released under an earlier
\* one.  (A request whose push got through without the worker knowing may be
\* applied a second time, behind later ones.)
Precedes(r, s) == \E i, j \in DOMAIN accepted : i < j /\ accepted[i] = r /\ accepted[j] = s
InOrder(branch) ==
  \A j \in DOMAIN branch : \A i \in 1 .. j - 1 :
    Precedes(branch[j][1], branch[i][1]) => \E h \in 1 .. i - 1 : branch[h][1] = branch[j][1]
AppliedInOrder == InOrder(local) /\ InOrder(remote)

\* No request gets lost: as long as its caller waits and has nothing to read,
\* it is in the queue or among the elements the worker will answer.
NoRequestLost ==
  \A r \in Requests :
    caller[r] = "waiting" /\ result[r] = NoAnswer => r \in ToSet(queue) \cup ToSet(batch)

\* A request that is still to be answered has not been, unless it is cancelled.
AnsweredOnce ==
  \A r \in ToSet(queue) \cup ToSet(batch) :
    r \in live => caller[r] = "waiting" /\ result[r] = NoAnswer

\* The worker waits to send a second answer to a caller that is gone.
Stuck ==
  pc = "answer" /\ result[batch[1]] # NoAnswer /\ caller[batch[1]] = "done"

\* Every caller returns, unless the worker is stuck.
EveryRequestAnswered ==
  \A r \in Requests : caller[r] = "waiting" ~> (caller[r] = "done" \/ Stuck)

-----------------------------------------------------------------------------
(* A statement of the tests that the code does not keep. *)

\* repository_test.go: requests behind a cancelled one are still answered.
EveryCallerReturns == \A r \in Requests : caller[r] = "waiting" ~> caller[r] = "done"
=============================================================================
