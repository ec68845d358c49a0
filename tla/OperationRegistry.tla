------------------------- MODULE OperationRegistry -------------------------
(***************************************************************************)
(* The durable operation registry (aar/runtime/registry.py): logical       *)
(* operations, their fenced attempts and leases, the dispatch queue, the   *)
(* cancellation control, the recovery policy and the recovery decisions.   *)
(*                                                                         *)
(* Every public method of OperationRegistry runs in one SQLite transaction *)
(* under one lock, so every method is one action.  A call whose guard      *)
(* fails raises and rolls back: it leaves no trace, and the action is not  *)
(* enabled.                                                                *)
(*                                                                         *)
(* What a claimant carries (OperationDispatchClaim) is the attempt number  *)
(* together with values the claim stored and nothing updates: attempt id,  *)
(* runtime and dispatcher generation, lease epoch, owner digest.  A call   *)
(* presenting claim n of operation o is therefore the pair <<o, n>>, and   *)
(* it may be made at any time after the claim: by the worker, by a worker  *)
(* that was fenced long ago, twice, or never.                              *)
(***************************************************************************)
EXTENDS Integers, FiniteSets, Sequences

CONSTANTS
  Op,              \* operation ids; ordered, because the queue breaks ties by id
  Inline,          \* operations a caller may also run on the inline path (begin)
  Deadlines,       \* deadlines an accepted request may carry
  LeaseDuration,   \* lease_duration_ms of the dispatcher
  MaxSuccessors,   \* max_successor_attempts of the bound recovery policy
  MaxTime,         \* bound on the clock
  MaxGeneration,   \* bound on the number of runtime starts
  MaxAttempts,     \* bound on the attempts of one operation
  MaxDecisions     \* bound on the recovery decisions of one operation

ASSUME OpAssumption == Op \subseteq Nat /\ Inline \subseteq Op
ASSUME DurationAssumption == LeaseDuration \in Nat \ {0}
ASSUME BoundsAssumption ==
  /\ Deadlines \subseteq Nat
  /\ MaxSuccessors \in Nat
  /\ MaxTime \in Nat
  /\ MaxGeneration \in Nat \ {0}
  /\ MaxAttempts \in Nat
  /\ MaxDecisions \in Nat

VARIABLES
  generation,  \* runtime_meta.generation
  now,         \* the wall clock the registry reads
  op,          \* operations
  dispatch,    \* operation_dispatch
  attempt,     \* operation_attempts
  lease,       \* operation_leases: the claim inserts one for each attempt
  cancelled,   \* operation_controls.cancellation_requested
  policy,      \* operation_recovery_policies: whether one is bound
  decisions,   \* operation_recovery_decisions, in decision_no order
  scan         \* operations the running recovery pass has listed and not decided

vars == <<generation, now, op, dispatch, attempt, lease, cancelled, policy,
          decisions, scan>>

-----------------------------------------------------------------------------
(* Values.                                                                 *)

Terminal == {"succeeded", "failed", "cancelled", "timed_out"}
OpStates == Terminal \cup {"absent", "accepted", "running", "indeterminate"}
AttemptStates == Terminal \cup {"none", "running", "indeterminate"}
DispatchStates == {"absent", "queued", "running", "parked", "completed"}

AttemptNo == 1..MaxAttempts
\* 0 stands for a NULL attempt number
AttemptRef == 0..MaxAttempts

\* Who wrote result_json: nobody, a claimed commit of one attempt, a
\* transition outside a claim, or the recovery of an authoritative receipt.
Results == [writer : {"none", "attempt", "inline", "receipt"}, by : AttemptRef]
NoResult == [writer |-> "none", by |-> 0]
InlineResult == [writer |-> "inline", by |-> 0]
ReceiptResult == [writer |-> "receipt", by |-> 0]
AttemptResult(n) == [writer |-> "attempt", by |-> n]

\* certainty and reconciliation_required are functions of the state: every
\* statement that writes one of the three writes all of them, and both hold
\* exactly when the state is indeterminate.
Operations ==
  [state : OpStates, generation : Nat, revision : Nat, deadline : Nat,
   result : Results]
Attempts == [state : AttemptStates, generation : Nat]
\* Only claim_next inserts leases, one with each attempt, so the epoch
\* MAX(lease_epoch) + 1 is the attempt number and needs no field.
Leases == [expires : Nat, released : BOOLEAN]
Dispatches ==
  [state : DispatchStates, queuedAt : Nat, attempt : AttemptRef]

\* needs_user, quarantine and reconcile_effect park alike: one value, "park".
\* start_successor and restore_checkpoint queue a successor alike.
Decisions ==
  [kind : {"successor", "park", "receipt"}, prior : AttemptRef]

NoOperation ==
  [state |-> "absent", generation |-> 0, revision |-> 0, deadline |-> 0,
   result |-> NoResult]
NoAttempt == [state |-> "none", generation |-> 0]
NoLease == [expires |-> 0, released |-> TRUE]
NoDispatch == [state |-> "absent", queuedAt |-> 0, attempt |-> 0]

TypeOK ==
  /\ generation \in Nat
  /\ now \in Nat
  /\ op \in [Op -> Operations]
  /\ dispatch \in [Op -> Dispatches]
  /\ attempt \in [Op -> [AttemptNo -> Attempts]]
  /\ lease \in [Op -> [AttemptNo -> Leases]]
  /\ cancelled \in [Op -> BOOLEAN]
  /\ policy \in [Op -> BOOLEAN]
  /\ decisions \in [Op -> Seq(Decisions)]
  /\ scan \subseteq Op

-----------------------------------------------------------------------------
(* Reading the tables.                                                     *)

Started(o) == {n \in AttemptNo : attempt[o][n].state # "none"}

\* the operation's highest attempt number, 0 when it has none
IsLatest(o, n) ==
  \/ n = 0 /\ Started(o) = {}
  \/ n \in Started(o) /\ \A m \in Started(o) : m <= n

LiveLease(o, n) == ~lease[o][n].released

SuccessorDecisions(o) == {i \in DOMAIN decisions[o] : decisions[o][i].kind = "successor"}

\* Bug: the fence trusts the generations and ignores attempt, lease and dispatch.
FenceByGenerationOnly(o, n) ==
  /\ n \in Started(o)
  /\ attempt[o][n].generation = generation
  /\ op[o].generation = generation
  /\ op[o].state # "accepted"

\* The generation, attempt, lease, dispatch and outer-state fences of a call
\* that presents claim n of operation o.
FenceValid(o, n) ==
  /\ n \in Started(o)
  /\ attempt[o][n].generation = generation
  /\ attempt[o][n].state = "running"
  /\ LiveLease(o, n)
  /\ now < lease[o][n].expires
  /\ dispatch[o].state = "running"
  /\ dispatch[o].attempt = n
  /\ op[o].generation = generation
  /\ op[o].state # "accepted"

\* Bug: decided attempts are listed again.
CandidateAgain(o) ==
  /\ op[o].state = "indeterminate"
  /\ dispatch[o].state \in {"running", "parked"}

\* Bug: a dispatch somebody parked is forgotten.
CandidateUnlessParked(o) ==
  /\ op[o].state = "indeterminate"
  /\ dispatch[o].state = "running"
  /\ \A i \in DOMAIN decisions[o] : decisions[o][i].prior # dispatch[o].attempt

\* Undecided indeterminate dispatches.  In SQL a NULL current_attempt_no
\* equals no prior_attempt_no, so such a row stays a candidate for ever.
IsCandidate(o) ==
  /\ op[o].state = "indeterminate"
  /\ dispatch[o].state \in {"running", "parked"}
  /\ \/ dispatch[o].attempt = 0
     \/ \A i \in DOMAIN decisions[o] : decisions[o][i].prior # dispatch[o].attempt

-----------------------------------------------------------------------------
Init ==
  /\ generation = 1
  /\ now = 0
  /\ op = [o \in Op |-> NoOperation]
  /\ dispatch = [o \in Op |-> NoDispatch]
  /\ attempt = [o \in Op |-> [n \in AttemptNo |-> NoAttempt]]
  /\ lease = [o \in Op |-> [n \in AttemptNo |-> NoLease]]
  /\ cancelled = [o \in Op |-> FALSE]
  /\ policy = [o \in Op |-> FALSE]
  /\ decisions = [o \in Op |-> <<>>]
  /\ scan = {}

Tick ==
  /\ now < MaxTime
  /\ now' = now + 1
  /\ UNCHANGED <<generation, op, dispatch, attempt, lease, cancelled, policy,
                 decisions, scan>>

\* The common part of a transition of the operation row.
Moved(row, state, g, result) ==
  [state |-> state, generation |-> g, revision |-> row.revision + 1,
   deadline |-> row.deadline, result |-> result]

-----------------------------------------------------------------------------
(* Process start.                                                          *)

\* Bug: accepted rows keep the generation of the dead process.
RestartForgetsAccepted(row) ==
  IF row.state = "running"
  THEN Moved(row, "indeterminate", row.generation, row.result) ELSE row

\* Bug: only unclaimed work is looked at.
RestartForgetsRunning(row) ==
  IF row.state = "accepted"
  THEN Moved(row, "accepted", generation + 1, row.result) ELSE row

\* Bug: what was running is accepted again without a decision.
RestartRetriesRunning(row) ==
  IF row.state \in {"accepted", "running"}
  THEN Moved(row, "accepted", generation + 1, row.result) ELSE row

AfterRestart(row) ==
  CASE row.state = "accepted" -> Moved(row, "accepted", generation + 1, row.result)
    [] row.state = "running" -> Moved(row, "indeterminate", row.generation, row.result)
    [] OTHER -> row

\* start_runtime: the process owning the database died, and with it every
\* thread, and the next one opens a new generation.  Accepted work is rebound;
\* running work becomes indeterminate and its running attempt is closed.  The
\* dispatch row stays "running": recovery must decide.
Interrupted(o, n) ==
  /\ op[o].state = "running"
  /\ attempt[o][n].state = "running"
  /\ \A m \in Started(o) : attempt[o][m].state = "running" => m <= n

StartRuntime ==
  /\ generation < MaxGeneration
  /\ generation' = generation + 1
  /\ op' = [o \in Op |-> AfterRestart(op[o])]
  /\ attempt' = [o \in Op |-> [n \in AttemptNo |->
       IF Interrupted(o, n) THEN [attempt[o][n] EXCEPT !.state = "indeterminate"]
                            ELSE attempt[o][n]]]
  /\ lease' = [o \in Op |-> [n \in AttemptNo |->
       IF Interrupted(o, n) THEN [lease[o][n] EXCEPT !.released = TRUE]
                            ELSE lease[o][n]]]
  /\ scan' = {}
  /\ UNCHANGED <<now, dispatch, cancelled, policy, decisions>>

-----------------------------------------------------------------------------
(* Admission.                                                              *)

\* accept: a new idempotency key inserts the operation.  A repeated call with
\* the same bytes returns the stored row and one with other bytes raises;
\* neither changes anything.
Accept(o, deadline) ==
  /\ op[o].state = "absent"
  /\ op' = [op EXCEPT ![o] =
       [state |-> "accepted", generation |-> generation, revision |-> 0,
        deadline |-> deadline, result |-> NoResult]]
  /\ UNCHANGED <<generation, now, dispatch, attempt, lease, cancelled, policy,
                 decisions, scan>>

\* bind_recovery_policy: before any dispatch or attempt.
BindRecoveryPolicy(o) ==
  /\ op[o].state = "accepted"
  /\ dispatch[o].state = "absent"
  /\ Started(o) = {}
  /\ ~policy[o]
  /\ policy' = [policy EXCEPT ![o] = TRUE]
  /\ UNCHANGED <<generation, now, op, dispatch, attempt, lease, cancelled,
                 decisions, scan>>

\* request_dispatch: enqueue an accepted operation.  A row that is already
\* queued is left alone; one parked or finished is queued again and keeps
\* its current_attempt_no.
RequestDispatch(o) ==
  /\ op[o].state = "accepted"
  /\ dispatch[o].state # "queued"
  /\ dispatch' = [dispatch EXCEPT ![o].state = "queued", ![o].queuedAt = now]
  /\ UNCHANGED <<generation, now, op, attempt, lease, cancelled, policy,
                 decisions, scan>>

-----------------------------------------------------------------------------
(* Transitions made outside a claim: begin, succeed, fail, cancel,         *)
(* time_out and mark_indeterminate are calls of _transition.  They touch   *)
(* the operation row only, never its attempt, lease or dispatch.           *)

\* The caller passes the generation it started under; a thread of an older
\* generation is refused.  A reconciled transition may change the generation
\* the row stores.
Movable(o, expected, reconciled) ==
  /\ op[o].state \in expected
  /\ reconciled \/ op[o].generation = generation

Transition(o, expected, state, result, reconciled) ==
  /\ Movable(o, expected, reconciled)
  /\ op' = [op EXCEPT ![o] = Moved(op[o], state, generation, result)]
  /\ UNCHANGED <<generation, now, dispatch, attempt, lease, cancelled, policy,
                 decisions, scan>>

Begin(o) ==
  o \in Inline /\ Transition(o, {"accepted"}, "running", op[o].result, FALSE)

Succeed(o) ==
  \/ Transition(o, {"running"}, "succeeded", InlineResult, FALSE)
  \/ Transition(o, {"indeterminate"}, "succeeded", InlineResult, TRUE)

Fail(o) ==
  \/ Transition(o, {"accepted", "running"}, "failed", op[o].result, FALSE)
  \/ Transition(o, {"indeterminate"}, "failed", op[o].result, TRUE)

Cancel(o) ==
  Transition(o, {"accepted", "running"}, "cancelled", op[o].result, FALSE)

TimeOut(o) ==
  Transition(o, {"accepted", "running"}, "timed_out", op[o].result, FALSE)

MarkIndeterminate(o) ==
  Transition(o, {"running"}, "indeterminate", op[o].result, FALSE)

-----------------------------------------------------------------------------
(* The queue.                                                              *)

Queued == {o \in Op : dispatch[o].state = "queued"}

Before(p, o) ==
  \/ dispatch[p].queuedAt < dispatch[o].queuedAt
  \/ dispatch[p].queuedAt = dispatch[o].queuedAt /\ p < o

Claimable(o) ==
  /\ o \in Queued
  /\ op[o].state = "accepted"
  /\ now < op[o].deadline

\* The queued rows the claiming loop passes over before it reaches the first
\* claimable one, or all of them when there is none.
Passed(o) == o \in Queued /\ \A c \in Op : Claimable(c) => Before(o, c)

\* A passed row that is no longer accepted is parked, without an event.  One
\* that is accepted is past its deadline and becomes timed_out.
PassedOp(o) ==
  IF Passed(o) /\ op[o].state = "accepted"
  THEN Moved(op[o], "timed_out", generation, op[o].result)
  ELSE op[o]

\* Bug: the passed row is settled but not taken from the queue.
PassedStaysQueued(o) == dispatch[o]

PassedDispatch(o) ==
  IF Passed(o)
  THEN [dispatch[o] EXCEPT !.state =
          IF op[o].state = "accepted" THEN "completed" ELSE "parked"]
  ELSE dispatch[o]

\* claim_next found no claimable row.
ClaimNothing ==
  /\ Queued # {}
  /\ \A c \in Op : ~Claimable(c)
  /\ op' = [o \in Op |-> PassedOp(o)]
  /\ dispatch' = [o \in Op |-> PassedDispatch(o)]
  /\ UNCHANGED <<generation, now, attempt, lease, cancelled, policy, decisions,
                 scan>>

\* claim_next claims o, the first claimable row, as attempt n: the rows passed
\* on the way, the attempt, its lease, the operation and the dispatch are
\* written in the one transaction.
ClaimNext(o, n) ==
  /\ Claimable(o)
  /\ \A c \in Op \ {o} : Claimable(c) => Before(o, c)
  /\ IsLatest(o, n - 1)
  /\ op' = [p \in Op |->
       IF p = o THEN Moved(op[o], "running", generation, op[o].result)
                ELSE PassedOp(p)]
  /\ dispatch' = [p \in Op |->
       IF p = o THEN [dispatch[o] EXCEPT !.state = "running", !.attempt = n]
                ELSE PassedDispatch(p)]
  /\ attempt' = [attempt EXCEPT ![o][n] =
       [state |-> "running", generation |-> generation]]
  /\ lease' = [lease EXCEPT ![o][n] =
       [expires |-> now + LeaseDuration, released |-> FALSE]]
  /\ UNCHANGED <<generation, now, cancelled, policy, decisions, scan>>

-----------------------------------------------------------------------------
(* Calls that present a claim.                                             *)

\* heartbeat
Heartbeat(o, n) ==
  /\ FenceValid(o, n)
  /\ lease' = [lease EXCEPT ![o][n].expires = now + LeaseDuration]
  /\ UNCHANGED <<generation, now, op, dispatch, attempt, cancelled, policy,
                 decisions, scan>>

\* Bug: the dispatch row copies the outer state.
CloseDispatchAsOuter(outer) == outer

CloseDispatch(outer) == IF outer = "indeterminate" THEN "parked" ELSE "completed"

\* transition_claimed, and park_attempt for "indeterminate": commit the
\* outcome of attempt n and release its ownership.  A parking may or may not
\* carry a result; any other outcome overwrites the row's result, so a failure
\* after a recorded partial result erases it.
TransitionClaimed(o, n, state, result) ==
  /\ FenceValid(o, n)
  /\ op[o].state = "running"
  /\ op' = [op EXCEPT ![o] = Moved(op[o], state, op[o].generation, result)]
  /\ attempt' = [attempt EXCEPT ![o][n].state = state]
  /\ lease' = [lease EXCEPT ![o][n].released = TRUE]
  /\ dispatch' = [dispatch EXCEPT ![o].state = CloseDispatch(state)]
  /\ UNCHANGED <<generation, now, cancelled, policy, decisions, scan>>

CommitClaimed(o, n) ==
  \/ \E state \in Terminal \cup {"indeterminate"} :
       TransitionClaimed(o, n, state, AttemptResult(n))
  \/ \E state \in (Terminal \ {"succeeded"}) \cup {"indeterminate"} :
       TransitionClaimed(o, n, state, NoResult)

\* finish_attempt on an attempt that still runs under an operation somebody
\* else closed.  On a closed attempt it only validates.
FinishAttempt(o, n) ==
  /\ FenceValid(o, n)
  /\ op[o].state \in Terminal \cup {"indeterminate"}
  /\ attempt' = [attempt EXCEPT ![o][n].state = op[o].state]
  /\ lease' = [lease EXCEPT ![o][n].released = TRUE]
  /\ dispatch' = [dispatch EXCEPT ![o].state = CloseDispatch(op[o].state)]
  /\ UNCHANGED <<generation, now, op, cancelled, policy, decisions, scan>>

-----------------------------------------------------------------------------
(* Cancellation of dispatched work: two transactions, the intent and then  *)
(* the attempt to take the operation from the queue.                       *)

RequestCancel(o) ==
  /\ op[o].state # "absent"
  /\ ~cancelled[o]
  /\ cancelled' = [cancelled EXCEPT ![o] = TRUE]
  /\ UNCHANGED <<generation, now, op, dispatch, attempt, lease, policy,
                 decisions, scan>>

Quiescent(o) ==
  LET n == dispatch[o].attempt IN
    n # 0 => /\ attempt[o][n].state \notin {"none", "running"}
             /\ ~(LiveLease(o, n) /\ now < lease[o][n].expires)

Dequeuable(o) ==
  /\ op[o].state = "accepted"
  /\ dispatch[o].state \in {"queued", "parked"}
  /\ Quiescent(o)

\* cancel_queued_dispatch when it takes effect; otherwise it returns the row
CancelQueuedDispatch(o) ==
  /\ Dequeuable(o)
  /\ op' = [op EXCEPT ![o] =
       Moved(op[o], "cancelled", op[o].generation, NoResult)]
  /\ dispatch' = [dispatch EXCEPT ![o].state = "completed"]
  /\ UNCHANGED <<generation, now, attempt, lease, cancelled, policy, decisions,
                 scan>>

-----------------------------------------------------------------------------
(* Recovery.  A pass holds the host's recovery lock: it fences, lists the  *)
(* candidates once, and then decides each in a transaction of its own, on  *)
(* a list that may have gone stale.                                        *)

\* Bug: the outer state is not looked at.
LeaseLostWhatever(o) ==
  /\ dispatch[o].state = "running"
  /\ dispatch[o].attempt # 0
  /\ attempt[o][dispatch[o].attempt].state = "running"
  /\ LiveLease(o, dispatch[o].attempt)
  /\ lease[o][dispatch[o].attempt].expires <= now

LeaseLost(o) ==
  /\ op[o].state = "running"
  /\ dispatch[o].state = "running"
  /\ dispatch[o].attempt # 0
  /\ attempt[o][dispatch[o].attempt].state = "running"
  /\ LiveLease(o, dispatch[o].attempt)
  /\ lease[o][dispatch[o].attempt].expires <= now

FencedAttempt(o, n) == LeaseLost(o) /\ n = dispatch[o].attempt

\* fence_expired_attempts
FenceExpiredAttempts ==
  /\ \E o \in Op : LeaseLost(o)
  /\ op' = [o \in Op |->
       IF LeaseLost(o)
       THEN Moved(op[o], "indeterminate", op[o].generation, op[o].result)
       ELSE op[o]]
  /\ attempt' = [o \in Op |-> [n \in AttemptNo |->
       IF FencedAttempt(o, n) THEN [attempt[o][n] EXCEPT !.state = "indeterminate"]
                              ELSE attempt[o][n]]]
  /\ lease' = [o \in Op |-> [n \in AttemptNo |->
       IF FencedAttempt(o, n) THEN [lease[o][n] EXCEPT !.released = TRUE]
                              ELSE lease[o][n]]]
  /\ UNCHANGED <<generation, now, dispatch, cancelled, policy, decisions, scan>>

\* list_recovery_candidates
ListRecoveryCandidates ==
  /\ scan = {}
  /\ scan' = {o \in Op : IsCandidate(o)}
  /\ scan' # {}
  /\ UNCHANGED <<generation, now, op, dispatch, attempt, lease, cancelled,
                 policy, decisions>>

\* A row the pass leaves alone, or an exception that ends the pass.
LeaveCandidates(rest) ==
  /\ scan # {}
  /\ scan' = rest
  /\ UNCHANGED <<generation, now, op, dispatch, attempt, lease, cancelled,
                 policy, decisions>>

\* Bug: off by one in the policy's bound.
SuccessorAllowedOnceMore(o) ==
  /\ dispatch[o].attempt # 0
  /\ ~cancelled[o]
  /\ now < op[o].deadline
  /\ Cardinality(SuccessorDecisions(o)) <= MaxSuccessors

\* The successor a policy-bound decision may admit: the boundary the caller
\* presents names the current attempt, whose number, generations and lease
\* epoch never change, so an existing attempt is all it has to match.
SuccessorAllowed(o) ==
  /\ dispatch[o].attempt # 0
  /\ ~cancelled[o]
  /\ now < op[o].deadline
  /\ Cardinality(SuccessorDecisions(o)) < MaxSuccessors

Decided(o, kind) ==
  /\ Len(decisions[o]) < MaxDecisions
  /\ decisions' = [decisions EXCEPT ![o] = Append(@,
       [kind |-> kind, prior |-> dispatch[o].attempt])]

\* Bug: the attempt about to start is closed instead of its predecessor.
PredecessorOffByOne(o, n) == n = dispatch[o].attempt + 1

Predecessor(o, n) == n = dispatch[o].attempt

\* requeue_indeterminate.  Whatever the decision, the predecessor attempt is
\* closed and its lease released.
RequeueIndeterminate(o, kind, bound) ==
  /\ o \in scan
  /\ op[o].state = "indeterminate"
  /\ bound => policy[o]
  /\ kind = "successor" /\ bound => SuccessorAllowed(o)
  /\ Decided(o, kind)
  /\ attempt' = [attempt EXCEPT ![o] = [n \in AttemptNo |->
       IF Predecessor(o, n) /\ @[n].state = "running"
       THEN [@[n] EXCEPT !.state = "indeterminate"] ELSE @[n]]]
  /\ lease' = [lease EXCEPT ![o] = [n \in AttemptNo |->
       IF Predecessor(o, n) THEN [@[n] EXCEPT !.released = TRUE] ELSE @[n]]]
  /\ IF kind = "successor"
     THEN /\ op' = [op EXCEPT ![o] =
               Moved(op[o], "accepted", generation, op[o].result)]
          /\ dispatch' = [dispatch EXCEPT ![o].state = "queued",
                                          ![o].queuedAt = now]
     ELSE /\ dispatch' = [dispatch EXCEPT ![o].state = "parked"]
          /\ UNCHANGED op
  /\ scan' = scan \ {o}
  /\ UNCHANGED <<generation, now, cancelled, policy>>

\* The callers: RLM and workspace recovery pass the bound policy; a missing
\* policy lets them only quarantine.  Workbench recovery, whose operations
\* bind no policy, requeues without one.
Requeue(o) ==
  \/ RequeueIndeterminate(o, "successor", TRUE)
  \/ RequeueIndeterminate(o, "park", TRUE)
  \/ ~policy[o] /\ RequeueIndeterminate(o, "successor", FALSE)
  \/ ~policy[o] /\ RequeueIndeterminate(o, "park", FALSE)

\* recover_terminal_from_receipt.  The lease of an attempt that still runs
\* under the indeterminate operation stays unreleased.
RecoverTerminalFromReceipt(o, state) ==
  /\ o \in scan
  /\ op[o].state = "indeterminate"
  /\ dispatch[o].state \in {"running", "parked"}
  /\ Decided(o, "receipt")
  /\ op' = [op EXCEPT ![o] = Moved(op[o], state, generation, ReceiptResult)]
  /\ attempt' = [attempt EXCEPT ![o] = [n \in AttemptNo |->
       IF Predecessor(o, n) THEN [@[n] EXCEPT !.state = state] ELSE @[n]]]
  /\ dispatch' = [dispatch EXCEPT ![o].state = "completed"]
  /\ scan' = scan \ {o}
  /\ UNCHANGED <<generation, now, lease, cancelled, policy>>

-----------------------------------------------------------------------------
Claim == ClaimNothing \/ \E o \in Op, n \in AttemptNo : ClaimNext(o, n)

Claimant(o) ==
  \E n \in AttemptNo : Heartbeat(o, n) \/ CommitClaimed(o, n) \/ FinishAttempt(o, n)

Caller(o) ==
  \/ \E deadline \in Deadlines : Accept(o, deadline)
  \/ BindRecoveryPolicy(o)
  \/ RequestDispatch(o)
  \/ Begin(o)
  \/ Succeed(o)
  \/ Fail(o)
  \/ Cancel(o)
  \/ TimeOut(o)
  \/ MarkIndeterminate(o)
  \/ RequestCancel(o)
  \/ CancelQueuedDispatch(o)

Recovery ==
  \/ FenceExpiredAttempts
  \/ ListRecoveryCandidates
  \/ \E rest \in SUBSET scan : rest # scan /\ LeaveCandidates(rest)
  \/ \E o \in Op :
       \/ Requeue(o)
       \/ \E state \in {"succeeded", "cancelled", "timed_out"} :
            RecoverTerminalFromReceipt(o, state)

Next ==
  \/ Tick
  \/ StartRuntime
  \/ Claim
  \/ \E o \in Op : Claimant(o) \/ Caller(o)
  \/ Recovery

Spec == Init /\ [][Next]_vars

-----------------------------------------------------------------------------
(* Properties.                                                             *)

\* At most one attempt of an operation is running, and only its latest one:
\* mutual exclusion of owners across expiry, recovery and restart.
SingleRunningAttempt ==
  \A o \in Op, n \in AttemptNo :
    attempt[o][n].state = "running" => IsLatest(o, n)

\* When an operation may be claimed, no earlier attempt of it runs or holds an
\* unreleased lease.  The design asks claim_next to verify this; the code does
\* not look, so every path that queues an operation must have closed its owner.
QueuedHasNoLiveOwner ==
  \A o \in Op, n \in AttemptNo :
    op[o].state = "accepted" =>
      attempt[o][n].state # "running" /\ ~LiveLease(o, n)

\* A running operation whose dispatch is running has a live owner of the
\* current generation: expiry or restart can always find and fence it, so no
\* operation is left running with nobody responsible for it.
RunningIsOwned ==
  \A o \in Op :
    op[o].state = "running" /\ dispatch[o].state = "running" =>
      LET n == dispatch[o].attempt IN
        /\ n \in Started(o)
        /\ attempt[o][n].state = "running"
        /\ LiveLease(o, n)
        /\ attempt[o][n].generation = generation
        /\ op[o].generation = generation

\* Accepted work always belongs to the current generation, whatever restart
\* or recovery put it back: otherwise no caller could ever begin or cancel it.
AcceptedIsCurrent ==
  \A o \in Op : op[o].state = "accepted" => op[o].generation = generation

\* An indeterminate operation that was dispatched is never lost: recovery will
\* list it, a pass holds it, or a decision on its current attempt is recorded.
\* (A queued row is on its way: the next claim parks it.)
UncertaintyIsTracked ==
  \A o \in Op :
    op[o].state = "indeterminate" /\ dispatch[o].state # "absent" =>
      \/ dispatch[o].state = "queued"
      \/ IsCandidate(o)
      \/ /\ dispatch[o].state \in {"running", "parked"}
         /\ \E i \in DOMAIN decisions[o] :
              /\ decisions[o][i].prior = dispatch[o].attempt
              /\ decisions[o][i].kind = "park"

\* Recovery decides each attempt at most once.
OneDecisionPerAttempt ==
  \A o \in Op : \A i, j \in DOMAIN decisions[o] :
    decisions[o][i].prior = decisions[o][j].prior /\ decisions[o][i].prior # 0
      => i = j

\* Lineage: every attempt after the first was admitted by a recovery decision
\* on its predecessor.  A crash, a replayed submission or a repeated dispatch
\* request never starts a second execution by itself.
AttemptsAreAdmitted ==
  \A o \in Op, n \in AttemptNo :
    n \in Started(o) /\ n > 1 =>
      \E i \in DOMAIN decisions[o] :
        decisions[o][i].kind = "successor" /\ decisions[o][i].prior = n - 1

\* A policy-bound operation never has more executions than its policy admits.
ExecutionsWithinPolicy ==
  \A o \in Op : policy[o] => Cardinality(Started(o)) <= MaxSuccessors + 1

\* A terminal operation never changes again: neither its state nor its result
\* nor its revision, whoever calls whatever afterwards.
TerminalIsFinal ==
  [][\A o \in Op : op[o].state \in Terminal => op'[o] = op[o]]_vars

\* The registry implements the abstract lifecycle.
Phase(state) ==
  CASE state = "accepted" -> "waiting"
    [] state = "running" -> "executing"
    [] state = "indeterminate" -> "uncertain"
    [] OTHER -> state

Lifecycle == INSTANCE OperationLifecycle WITH
  phase <- [o \in Op |-> Phase(op[o].state)],
  owners <- [o \in Op |-> Cardinality(Started(o))],
  settler <- [o \in Op |-> IF op[o].state = "succeeded" THEN op[o].result.by ELSE 0]

ImplementsLifecycle == Lifecycle!Spec

=============================================================================
