-------------------------- MODULE DurableDispatch --------------------------
(***************************************************************************)
(* Durable RLM dispatch: the operation registry composed with the claiming *)
(* workers of the dispatcher (runtime/dispatcher.py), the claimed handler  *)
(* and the recovery pass of the reference host (runtime/reference_host.py) *)
(* and the RLM engine with its job store (runtime/rlm.py) and the broker   *)
(* journal it calls through (runtime/brokers.py).                          *)
(*                                                                         *)
(* The registry, the job store and the journal are three stores with their *)
(* own transactions; only registry writes are fenced.  One action is one   *)
(* transaction, so any two workers, a caller, the clock and a crash        *)
(* interleave between two of them.  A worker whose lease expired is not    *)
(* stopped: it stays where it was, typically in a broker call longer than  *)
(* the lease, and goes on when the call returns.                           *)
(***************************************************************************)
EXTENDS OperationRegistry

CONSTANTS
  Worker,       \* dispatcher threads
  StepCount,    \* actions of the strategy (max_steps is at least as large)
  Reads,        \* the steps that are evidence queries; the others call a model
  Responses,    \* what a provider may answer
  Lookup,       \* whether the model broker can look a receipt up
  Withdrawable   \* operations a caller may cancel, or whose dispatch prerequisite may fail

ASSUME StepAssumption ==
  /\ StepCount \in Nat /\ Reads \subseteq 1..StepCount /\ Lookup \in BOOLEAN
  /\ Withdrawable \subseteq Op
  /\ 0 \notin Responses  \* 0 stands for no answer

VARIABLES
  inner,     \* rlm_jobs.state and the receipts in rlm_steps
  journal,   \* broker_calls of each operation, by step key
  answered,  \* external: what the provider did for a step: its first answer, and how often
  worker,    \* where each worker thread is, and its local variables
  holder,    \* the workers holding the host's recovery lock
  canceller  \* where a cancelling caller is

dvars == <<inner, journal, answered, worker, holder, canceller>>
allvars == <<vars, dvars>>

Steps == 1..StepCount
InnerStates == OpStates
CallStates == {"none", "started", "succeeded", "failed"}
Answers == Responses \cup {0}

Points ==
  {"idle", "effects", "lock", "fence", "list", "decide", "resume", "requeue", "claim",
   "start", "begin", "open", "step", "call", "calling", "returning", "check", "record", "beat",
   "finish", "complete", "fenced", "settle", "commit", "abandon", "park"}

NoWorker == [pc |-> "idle", op |-> 0, claim |-> 0, at |-> 0, got |-> 0, outcome |-> "none",
             listed |-> {}]
\* a worker that has just claimed attempt n of operation o
Starting(o, n) == [pc |-> "start", op |-> o, claim |-> n, at |-> 0, got |-> 0,
                   outcome |-> "none", listed |-> {}]

DispatchTypeOK ==
  /\ inner \in [Op -> [state : InnerStates, steps : [Steps -> Answers]]]
  /\ journal \in [Op -> [Steps -> [state : CallStates, response : Answers]]]
  /\ answered \in [Op -> [Steps -> [first : Answers, count : Nat]]]
  /\ worker \in [Worker -> [pc : Points, op : Op \cup {0}, claim : AttemptRef,
                            at : 0..StepCount, got : Answers,
                            outcome : Terminal \cup {"none", "indeterminate"},
                            listed : SUBSET Op]]
  /\ holder \subseteq Worker
  /\ canceller \in [Op -> {"idle", "direct", "intent", "dequeue", "mark"}]

DispatchInit ==
  /\ Init
  /\ inner = [o \in Op |-> [state |-> "absent", steps |-> [i \in Steps |-> 0]]]
  /\ journal = [o \in Op |-> [i \in Steps |-> [state |-> "none", response |-> 0]]]
  /\ answered = [o \in Op |-> [i \in Steps |-> [first |-> 0, count |-> 0]]]
  /\ worker = [w \in Worker |-> NoWorker]
  /\ holder = {}
  /\ canceller = [o \in Op |-> "idle"]

-----------------------------------------------------------------------------
(* The job store.                                                          *)

\* Bug: a settled job is marked again.
MarkAgain(state, marker) == marker

\* Bug: the job takes the name of the dispatch state.
MarkAsDispatch(state, marker) == IF state \in Terminal THEN state ELSE "parked"

Mark(state, marker) == IF state \in Terminal THEN state ELSE marker

\* RlmStore.mark of a job that exists
MarkInner(o, marker) ==
  inner' = IF inner[o].state = "absent" THEN inner
           ELSE [inner EXCEPT ![o].state = Mark(@, marker)]

Resumable(state) == state \in {"accepted", "running", "indeterminate"}

Recorded(o) == {i \in Steps : inner[o].steps[i] # 0}

-----------------------------------------------------------------------------
(* Submission: accept, ensure, bind the policy, enqueue.  Four             *)
(* transactions of one caller, who may die after any of them and submit    *)
(* again: what is done already is then a no-op.                            *)

SubmitAccept(o, deadline) == Accept(o, deadline) /\ UNCHANGED dvars

SubmitEnsure(o) ==
  /\ op[o].state # "absent"
  /\ inner[o].state = "absent"
  /\ inner' = [inner EXCEPT ![o].state = "accepted"]
  /\ UNCHANGED <<vars, journal, answered, worker, holder, canceller>>

SubmitBindPolicy(o) ==
  inner[o].state # "absent" /\ BindRecoveryPolicy(o) /\ UNCHANGED dvars

SubmitDispatch(o) == policy[o] /\ RequestDispatch(o) /\ UNCHANGED dvars

\* before_dispatch raised, after the caller had read an accepted record: the
\* operation fails, even if another caller had it dispatched and claimed.
SubmitRefused(o) ==
  /\ o \in Withdrawable
  /\ policy[o]
  /\ Transition(o, {"accepted", "running"}, "failed", op[o].result, FALSE)
  /\ UNCHANGED dvars

Submit(o) ==
  \/ \E deadline \in Deadlines : SubmitAccept(o, deadline)
  \/ SubmitEnsure(o)
  \/ SubmitBindPolicy(o)
  \/ SubmitDispatch(o)
  \/ SubmitRefused(o)

\* ReferenceHost.cancel: what it reads first decides which way it goes.
CancelBegin(o) ==
  /\ o \in Withdrawable
  /\ canceller[o] = "idle"
  /\ op[o].state \in {"accepted", "running"}
  /\ canceller' = [canceller EXCEPT ![o] =
       IF dispatch[o].state = "absent" THEN "direct" ELSE "intent"]
  /\ UNCHANGED <<vars, inner, journal, answered, worker, holder>>

CancelDirect(o) ==
  /\ canceller[o] = "direct"
  /\ IF Movable(o, {"accepted", "running"}, FALSE)
     THEN Cancel(o) /\ canceller' = [canceller EXCEPT ![o] = "mark"]
     ELSE UNCHANGED vars /\ canceller' = [canceller EXCEPT ![o] = "idle"]
  /\ UNCHANGED <<inner, journal, answered, worker, holder>>

CancelIntent(o) ==
  /\ canceller[o] = "intent"
  /\ IF cancelled[o] THEN UNCHANGED vars ELSE RequestCancel(o)
  /\ canceller' = [canceller EXCEPT ![o] = "dequeue"]
  /\ UNCHANGED <<inner, journal, answered, worker, holder>>

CancelDequeue(o) ==
  /\ canceller[o] = "dequeue"
  /\ IF Dequeuable(o)
     THEN CancelQueuedDispatch(o) /\ canceller' = [canceller EXCEPT ![o] = "mark"]
     ELSE UNCHANGED vars /\ canceller' = [canceller EXCEPT ![o] = "idle"]
  /\ UNCHANGED <<inner, journal, answered, worker, holder>>

CancelMark(o) ==
  /\ canceller[o] = "mark"
  /\ MarkInner(o, "cancelled")
  /\ canceller' = [canceller EXCEPT ![o] = "idle"]
  /\ UNCHANGED <<vars, journal, answered, worker, holder>>

CancelOperation(o) ==
  \/ CancelBegin(o)
  \/ CancelDirect(o)
  \/ CancelIntent(o)
  \/ CancelDequeue(o)
  \/ CancelMark(o)

-----------------------------------------------------------------------------
(* Worker steps.  Reading cancellation_requested, or the clock, and then   *)
(* writing a heartbeat are one action: the read and the write commute with *)
(* everything that could come between them.                                *)

At(w, pc) == worker[w].pc = pc
Goto(w, pc) == worker' = [worker EXCEPT ![w].pc = pc]
Settle(w, outcome) == worker' = [worker EXCEPT ![w].pc = "settle", ![w].outcome = outcome]
Rest(w) == worker' = [worker EXCEPT ![w] = NoWorker]

Mine(w) == worker[w].op
Owner(w) == FenceValid(Mine(w), worker[w].claim)
NextStep(w) == worker[w].at + 1
Expired(o) == now >= op[o].deadline

RegistryOnly == UNCHANGED <<inner, journal, answered, holder, canceller>>

\* What the engine does between two pieces of work: stop when a cancellation
\* is requested, otherwise extend the lease, which fails for a stale claim.
CancelOrBeat(w, carryOn) ==
  /\ RegistryOnly
  /\ IF cancelled[Mine(w)] THEN Settle(w, "cancelled") /\ UNCHANGED vars
     ELSE IF ~Owner(w) THEN Goto(w, "fenced") /\ UNCHANGED vars
     ELSE carryOn /\ Heartbeat(Mine(w), worker[w].claim)

\* run_claimed_rlm
StartHandler(w) ==
  /\ At(w, "start")
  /\ IF op[Mine(w)].state # "running"
     THEN /\ IF Owner(w) THEN FinishAttempt(Mine(w), worker[w].claim) ELSE UNCHANGED vars
          /\ Rest(w)
          /\ UNCHANGED inner
     ELSE /\ inner' = [inner EXCEPT ![Mine(w)].state = IF @ = "absent" THEN "accepted" ELSE @]
          /\ IF Expired(Mine(w)) THEN Settle(w, "timed_out") ELSE Goto(w, "begin")
          /\ UNCHANGED vars
  /\ UNCHANGED <<journal, answered, holder, canceller>>

BeginEngine(w) == At(w, "begin") /\ CancelOrBeat(w, Goto(w, "open"))

\* RlmStore.begin, then the steps recorded so far are read
OpenJob(w) ==
  /\ At(w, "open")
  /\ IF inner[Mine(w)].state = "accepted"
     THEN /\ inner' = [inner EXCEPT ![Mine(w)].state = "running"]
          /\ worker' = [worker EXCEPT ![w].pc = "step",
                                      ![w].at = Cardinality(Recorded(Mine(w)))]
     ELSE Settle(w, "failed") /\ UNCHANGED inner
  /\ UNCHANGED <<vars, journal, answered, holder, canceller>>

StepBoundary(w) ==
  /\ At(w, "step")
  /\ CancelOrBeat(w,
       IF Expired(Mine(w)) THEN Settle(w, "timed_out")
       ELSE Goto(w, IF worker[w].at = StepCount THEN "finish" ELSE "call"))

\* the loop ends at max_steps without another check
LastStep(w) ==
  /\ At(w, "step")
  /\ worker[w].at = StepCount
  /\ Goto(w, "finish")
  /\ RegistryOnly /\ UNCHANGED vars

\* Bug: a call that only started is sent again.
MaySendAgain(row) == row.state \in {"none", "started"}

MaySend(row) == row.state = "none"

\* BrokerJournal.invoke, first transaction: a key that has its receipt is
\* answered from it, one without an authoritative receipt is never sent again.
\* The deadline is read before it.  A denied grant or an exceeded budget fails.
AdmitCall(w) ==
  LET o == Mine(w)
      i == NextStep(w)
      row == journal[o][i]
  IN /\ At(w, "call")
     /\ \/ Expired(o) /\ Settle(w, "timed_out") /\ UNCHANGED journal
        \/ Settle(w, "failed") /\ UNCHANGED journal
        \/ /\ ~Expired(o)
           /\ MaySend(row)
           /\ journal' = [journal EXCEPT ![o][i].state = "started"]
           /\ Goto(w, "calling")
        \/ /\ ~Expired(o)
           /\ row.state = "succeeded"
           /\ worker' = [worker EXCEPT ![w].pc = "record", ![w].got = row.response]
           /\ UNCHANGED journal
        \/ /\ ~Expired(o)
           /\ ~MaySend(row)
           /\ row.state # "succeeded"
           /\ Settle(w, "indeterminate")
           /\ UNCHANGED journal
     /\ UNCHANGED <<vars, inner, answered, holder, canceller>>

Executed(o, i, r) ==
  answered' = [answered EXCEPT ![o][i] =
    [first |-> IF @.count = 0 THEN r ELSE @.first, count |-> @.count + 1]]

\* The call itself, outside any transaction: the provider answers; the answer
\* is lost or the provider refuses, and the call raises; or it raises
\* BrokerCallIndeterminate, which leaves the row as it is.
PhysicalCall(w) ==
  LET o == Mine(w)
      i == NextStep(w)
  IN /\ At(w, "calling")
     /\ \/ \E r \in Responses :
             /\ Executed(o, i, r)
             /\ \/ worker' = [worker EXCEPT ![w].pc = "returning", ![w].got = r]
                \/ Goto(w, "returning")
                \/ Settle(w, "indeterminate")
        \/ /\ UNCHANGED answered
           /\ \/ Goto(w, "returning")
              \/ Settle(w, "indeterminate")
     /\ UNCHANGED <<vars, inner, journal, holder, canceller>>

\* BrokerJournal.invoke after the call: the row takes the outcome of this call,
\* whatever the row says by then.
CallReturns(w) ==
  LET o == Mine(w)
      i == NextStep(w)
  IN /\ At(w, "returning")
     /\ IF worker[w].got # 0
        THEN /\ journal' = [journal EXCEPT ![o][i] =
                  [state |-> "succeeded", response |-> worker[w].got]]
             /\ Goto(w, "check")
        ELSE /\ journal' = [journal EXCEPT ![o][i].state = "failed"]
             /\ Settle(w, "failed")
     /\ UNCHANGED <<vars, inner, answered, holder, canceller>>

\* The tokens a model really used may exceed the budget: in a transaction of
\* its own the receipt then loses its authority.
CheckUsage(w) ==
  LET o == Mine(w)
      i == NextStep(w)
  IN /\ At(w, "check")
     /\ \/ Goto(w, "record") /\ UNCHANGED journal
        \/ /\ i \notin Reads
           /\ journal' = [journal EXCEPT ![o][i].state =
                IF @ = "succeeded" THEN "failed" ELSE @]
           /\ Settle(w, "failed")
     /\ UNCHANGED <<vars, inner, answered, holder, canceller>>

\* RlmStore.record_step: the same receipt again is a no-op, another one raises
RecordStep(w) ==
  LET o == Mine(w)
      i == NextStep(w)
  IN /\ At(w, "record")
     /\ IF inner[o].steps[i] \in {0, worker[w].got}
        THEN /\ inner' = [inner EXCEPT ![o].steps[i] = worker[w].got]
             /\ worker' = [worker EXCEPT ![w].pc = "beat", ![w].at = i, ![w].got = 0]
        ELSE Settle(w, "failed") /\ UNCHANGED inner
     /\ UNCHANGED <<vars, journal, answered, holder, canceller>>

BeatAfterStep(w) ==
  /\ At(w, "beat")
  /\ RegistryOnly
  /\ IF Owner(w) THEN Goto(w, "step") /\ Heartbeat(Mine(w), worker[w].claim)
     ELSE Goto(w, "fenced") /\ UNCHANGED vars

FinishLoop(w) == At(w, "finish") /\ CancelOrBeat(w, Goto(w, "complete"))

\* RlmStore.complete
CompleteJob(w) ==
  /\ At(w, "complete")
  /\ IF inner[Mine(w)].state \in {"running", "succeeded"}
     THEN /\ inner' = [inner EXCEPT ![Mine(w)].state = "succeeded"]
          /\ worker' = [worker EXCEPT ![w].pc = "commit", ![w].outcome = "succeeded"]
     ELSE Settle(w, "failed") /\ UNCHANGED inner
  /\ UNCHANGED <<vars, journal, answered, holder, canceller>>

\* StaleAttemptFence is a RuntimeError: run_claimed_rlm fails the job
FailFenced(w) ==
  /\ At(w, "fenced")
  /\ MarkInner(Mine(w), "failed")
  /\ worker' = [worker EXCEPT ![w].pc = "commit", ![w].outcome = "failed"]
  /\ UNCHANGED <<vars, journal, answered, holder, canceller>>

MarkOutcome(w) ==
  /\ At(w, "settle")
  /\ MarkInner(Mine(w), worker[w].outcome)
  /\ Goto(w, "commit")
  /\ UNCHANGED <<vars, journal, answered, holder, canceller>>

\* transition_claimed.  When it raises, the dispatcher marks the job
\* indeterminate and tries to park the attempt; what raises then is suppressed.
Commits(w, outcome) ==
  TransitionClaimed(Mine(w), worker[w].claim, outcome,
    IF outcome = "indeterminate" THEN NoResult ELSE AttemptResult(worker[w].claim))

MayCommit(w) == Owner(w) /\ op[Mine(w)].state = "running"

CommitOutcome(w) ==
  /\ At(w, "commit")
  /\ RegistryOnly
  /\ IF MayCommit(w) THEN Commits(w, worker[w].outcome) /\ Rest(w)
                     ELSE Goto(w, "abandon") /\ UNCHANGED vars

AbandonJob(w) ==
  /\ At(w, "abandon")
  /\ MarkInner(Mine(w), "indeterminate")
  /\ Goto(w, "park")
  /\ UNCHANGED <<vars, journal, answered, holder, canceller>>

ParkAttempt(w) ==
  /\ At(w, "park")
  /\ RegistryOnly
  /\ Rest(w)
  /\ IF MayCommit(w) THEN Commits(w, "indeterminate") ELSE UNCHANGED vars

Handler(w) ==
  \/ StartHandler(w)
  \/ BeginEngine(w)
  \/ OpenJob(w)
  \/ StepBoundary(w)
  \/ LastStep(w)
  \/ AdmitCall(w)
  \/ PhysicalCall(w)
  \/ CallReturns(w)
  \/ CheckUsage(w)
  \/ RecordStep(w)
  \/ BeatAfterStep(w)
  \/ FinishLoop(w)
  \/ CompleteJob(w)
  \/ FailFenced(w)
  \/ MarkOutcome(w)
  \/ CommitOutcome(w)
  \/ AbandonJob(w)
  \/ ParkAttempt(w)

-----------------------------------------------------------------------------
(* Before it claims, a worker runs recover_durable.                        *)

Unresolved(calls) == \E i \in Steps : calls[i].state \in {"started", "failed"}

\* Bug: a call whose receipt is not found is taken to have succeeded.
ReconciledByGuess(o, i) ==
  IF journal[o][i].state # "started" THEN {journal[o][i]}
  ELSE [state : {"succeeded"}, response : Responses]

\* reconcile_unresolved of one row: a started call of a cancelled or expired
\* operation is given up; a read is made again; the receipt of a model call is
\* looked up, and may be found, be unavailable for now, or be refused.
ReconciledCall(o, i) ==
  LET row == journal[o][i]
      given == {[row EXCEPT !.state = "failed"]}
      found == {[state |-> "succeeded", response |-> answered[o][i].first]}
  IN IF row.state # "started" THEN {row}
     ELSE IF cancelled[o] \/ Expired(o) THEN given
     ELSE IF i \in Reads THEN given \cup [state : {"succeeded"}, response : Responses]
     ELSE IF ~Lookup THEN {row}
     ELSE IF answered[o][i].count = 0 THEN given \cup {row}
     ELSE given \cup {row} \cup found

\* the rows the journal may have after reconciling an operation
ReconciledCalls(o) ==
  {calls \in [Steps -> UNION {ReconciledCall(o, i) : i \in Steps}] :
     \A i \in Steps : calls[i] \in ReconciledCall(o, i)}

\* recover_durable_effects lists candidates without the recovery lock and
\* reconciles each when it gets to it.
ListEffects(w) ==
  /\ At(w, "idle")
  /\ worker' = [worker EXCEPT ![w].pc = "effects",
       ![w].listed = {o \in Op : IsCandidate(o) /\ Unresolved(journal[o])}]
  /\ UNCHANGED <<vars, inner, journal, answered, holder, canceller>>

ReconcileEffects(w) ==
  /\ At(w, "effects")
  /\ \E o \in worker[w].listed :
       /\ \E calls \in ReconciledCalls(o) : journal' = [journal EXCEPT ![o] = calls]
       /\ worker' = [worker EXCEPT ![w].listed = @ \ {o}]
  /\ UNCHANGED <<vars, inner, answered, holder, canceller>>

\* recover_durable_rlm takes the recovery lock and fences
FenceUnderLock(w) ==
  /\ At(w, "effects")
  /\ worker[w].listed = {}
  /\ holder = {}
  /\ holder' = {w}
  /\ IF \E o \in Op : LeaseLost(o) THEN FenceExpiredAttempts ELSE UNCHANGED vars
  /\ Goto(w, "list")
  /\ UNCHANGED <<inner, journal, answered, canceller>>

ListCandidates(w) ==
  /\ At(w, "list")
  /\ IF \E o \in Op : IsCandidate(o) THEN ListRecoveryCandidates ELSE UNCHANGED vars
  /\ Goto(w, "decide")
  /\ RegistryOnly

EndPass(w) ==
  /\ At(w, "decide")
  /\ scan = {}
  /\ holder' = {}
  /\ Goto(w, "claim")
  /\ UNCHANGED <<vars, inner, journal, answered, canceller>>

\* Bug: the lock is not released when the pass raises.
AbortKeepsLock(w) ==
  /\ Rest(w)
  /\ scan' = {}
  /\ UNCHANGED <<generation, now, op, dispatch, attempt, lease, cancelled, policy,
                 decisions, inner, answered, holder, canceller>>

\* an exception ends the pass, and with it this turn of the worker
AbortPass(w) ==
  /\ Rest(w)
  /\ scan' = {}
  /\ holder' = {}
  /\ UNCHANGED <<generation, now, op, dispatch, attempt, lease, cancelled, policy,
                 decisions, inner, answered, canceller>>

Decides == UNCHANGED <<inner, answered, holder, canceller>>

DecideFromMarker(w, o) ==
  /\ inner[o].state \in {"succeeded", "cancelled", "timed_out"}
  /\ IF op[o].state = "indeterminate"
     THEN RecoverTerminalFromReceipt(o, inner[o].state) /\ UNCHANGED worker /\ Decides
     ELSE AbortPass(w)
  /\ UNCHANGED journal

Parks(w, o, bound) ==
  IF op[o].state = "indeterminate"
  THEN RequeueIndeterminate(o, "park", bound) /\ UNCHANGED worker /\ Decides
  ELSE AbortPass(w)

\* Every recorded step has its receipt, nothing is unresolved, and at most one
\* receipt is not recorded yet.
CertainBoundary(o, calls) ==
  /\ ~Unresolved(calls)
  /\ \A i \in Recorded(o) :
       calls[i].state = "succeeded" /\ calls[i].response = inner[o].steps[i]
  /\ Recorded(o) = 1..Cardinality(Recorded(o))
  /\ \A i, j \in Steps \ Recorded(o) :
       calls[i].state = "succeeded" /\ calls[j].state = "succeeded" => i = j

\* A job that may continue: reconcile its calls, plan a successor.  Any drift
\* of capabilities, environment, digests or budget parks instead.
DecideContinuation(w, o) ==
  /\ Resumable(inner[o].state)
  /\ policy[o]
  /\ dispatch[o].attempt # 0
  /\ \E calls \in ReconciledCalls(o) :
       /\ journal' = [journal EXCEPT ![o] = calls]
       /\ \/ Parks(w, o, TRUE)
          \/ /\ CertainBoundary(o, calls)
             /\ ~cancelled[o] /\ ~Expired(o)
             /\ worker' = [worker EXCEPT ![w].pc = "resume", ![w].op = o]
             /\ UNCHANGED vars /\ Decides

\* drift seen before the calls are reconciled
DecideToPark(w, o) ==
  /\ inner[o].state \in {"failed", "accepted", "running", "indeterminate"}
  /\ Parks(w, o, policy[o])
  /\ UNCHANGED journal

DecideCandidate(w) ==
  /\ At(w, "decide")
  /\ \E o \in scan :
       \/ /\ inner[o].state = "absent"
          /\ LeaveCandidates(scan \ {o})
          /\ UNCHANGED <<worker, journal>> /\ Decides
       \/ DecideFromMarker(w, o)
       \/ DecideToPark(w, o)
       \/ DecideContinuation(w, o)

\* RlmStore.resume, outside any try block
ResumeJob(w) ==
  LET o == Mine(w) IN
    /\ At(w, "resume")
    /\ IF Resumable(inner[o].state)
       THEN /\ inner' = [inner EXCEPT ![o].state = "accepted"]
            /\ Goto(w, "requeue")
            /\ UNCHANGED <<vars, answered, holder, canceller>>
       ELSE AbortPass(w)
    /\ UNCHANGED journal

\* requeue_indeterminate, which verifies cancellation, deadline and the
\* successor bound itself and raises when one of them forbids
RequeueSuccessor(w) ==
  LET o == Mine(w) IN
    /\ At(w, "requeue")
    /\ IF op[o].state = "indeterminate" /\ SuccessorAllowed(o)
       THEN /\ RequeueIndeterminate(o, "successor", TRUE)
            /\ worker' = [worker EXCEPT ![w].pc = "decide", ![w].op = 0]
            /\ Decides
       ELSE AbortPass(w)
    /\ UNCHANGED journal

ClaimWork(w) ==
  /\ At(w, "claim")
  /\ \/ \E o \in Op, n \in AttemptNo :
          /\ ClaimNext(o, n)
          /\ worker' = [worker EXCEPT ![w] = Starting(o, n)]
     \/ ClaimNothing /\ Rest(w)
     \/ Queued = {} /\ Rest(w) /\ UNCHANGED vars
  /\ RegistryOnly

RecoverAndClaim(w) ==
  \/ ListEffects(w)
  \/ ReconcileEffects(w)
  \/ FenceUnderLock(w)
  \/ ListCandidates(w)
  \/ EndPass(w)
  \/ DecideCandidate(w)
  \/ ResumeJob(w)
  \/ RequeueSuccessor(w)
  \/ ClaimWork(w)

-----------------------------------------------------------------------------
WorkerStep(w) == RecoverAndClaim(w) \/ Handler(w)

PassTime == Tick /\ UNCHANGED dvars

\* The process dies and the next one opens the same stores.
Restart ==
  /\ StartRuntime
  /\ worker' = [w \in Worker |-> NoWorker]
  /\ holder' = {}
  /\ canceller' = [o \in Op |-> "idle"]
  /\ UNCHANGED <<inner, journal, answered>>

DispatchNext ==
  \/ \E w \in Worker : WorkerStep(w)
  \/ \E o \in Op : Submit(o) \/ CancelOperation(o)
  \/ PassTime
  \/ Restart

\* Worker threads are never stopped while the process lives, and the clock
\* runs; callers and crashes owe nothing.
DispatchFairness ==
  /\ \A w \in Worker : WF_allvars(WorkerStep(w))
  /\ WF_allvars(PassTime)

DispatchSpec == DispatchInit /\ [][DispatchNext]_allvars
FairDispatchSpec == DispatchSpec /\ DispatchFairness

-----------------------------------------------------------------------------
(* Properties.                                                             *)

\* A model call is sent to its provider at most once in the life of the
\* operation, over crashes, lost answers, successors and stale workers.
EffectOnce ==
  \A o \in Op, i \in Steps \ Reads : answered[o][i].count <= 1

\* An operation reported as succeeded has the job receipt that proves it, and
\* that job ran every step.
SuccessHasReceipt ==
  \A o \in Op :
    op[o].state = "succeeded" => inner[o].state = "succeeded" /\ Recorded(o) = Steps

\* What a job recorded for a model step is what the provider answered: nothing
\* invents a receipt and no recovery records another one.
StepsAreAnswers ==
  \A o \in Op : \A i \in Recorded(o) \ Reads :
    inner[o].steps[i] = answered[o][i].first

\* A worker whose heartbeat was refused writes no terminal marker any more.
FencedWorkerIsSilent ==
  [][\A w \in Worker :
       At(w, "fenced") /\ ~At(w, "fenced")' =>
         inner'[Mine(w)] = inner[Mine(w)] \/ inner'[Mine(w)].state \notin Terminal]_allvars

\* A dispatched operation is settled or handed to a human in the end: no crash,
\* lost lease, failed call or lost race leaves it running or undecided.
DispatchedSettles ==
  \A o \in Op :
    dispatch[o].state # "absent" ~>
      \/ op[o].state \in Terminal
      \/ op[o].state = "indeterminate" /\ dispatch[o].state = "parked" /\ ~IsCandidate(o)

\* Queued work is taken from the queue.
QueuedIsTaken == \A o \in Op : dispatch[o].state = "queued" ~> dispatch[o].state # "queued"

=============================================================================
