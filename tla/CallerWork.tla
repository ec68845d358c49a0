----------------------------- MODULE CallerWork -----------------------------
(***************************************************************************)
(* Caller-delegated work: an operation of the RLM workbench suspends on a  *)
(* ticket, a caller outside the process claims it, performs the one        *)
(* physical send, and settles it; the settlement queues the successor      *)
(* attempt (runtime/caller_work.py, integrations/caller_driver.py, the     *)
(* planner half of runtime/registry.py and runtime/rlm_workbench.py).      *)
(*                                                                         *)
(* One operation in planner mode "caller_delegated".  Its suspensions and  *)
(* its tickets are numbered together.  Every action is one transaction, or *)
(* one step of a driver outside it.  Commands carry a revision and the     *)
(* control revision of the suspension they were read under, so a caller    *)
(* may act on a ticket it read long ago.  A command replayed by its key    *)
(* returns the stored ticket: it is the same as a late reply.              *)
(***************************************************************************)
EXTENDS Integers, Sequences, FiniteSets

CONSTANTS
  Driver,          \* caller processes that claim tickets
  MaxSuspensions,  \* model calls the budget allows
  MaxCells,        \* cells the budget allows
  MaxClaims,       \* bound: claims of all tickets
  MaxAttempts,     \* bound: attempts of the operation
  MaxTime,         \* bound: the clock
  Deadline,        \* cumulative_deadline_unix_ms
  ClaimLease,      \* claim_lease_ms
  Outcomes,        \* what a provider may be seen to answer
  Withdrawn,       \* whether a user may cancel the operation
  Resubmitted,     \* whether the submission may be repeated while it waits
  HostMayDie,      \* whether the host process may be lost
  WorkerMayDie     \* whether an attempt may be lost alone

ASSUME CallerAssumption ==
  /\ MaxSuspensions \in Nat \ {0} /\ MaxCells \in Nat /\ MaxClaims \in Nat /\ MaxAttempts \in Nat
  /\ Deadline \in Nat /\ MaxTime \in Nat /\ ClaimLease \in Nat \ {0}
  /\ Outcomes \subseteq {"succeeded", "failed", "cancelled"}
  /\ {Withdrawn, Resubmitted, HostMayDie, WorkerMayDie} \subseteq BOOLEAN

VARIABLES
  now,       \* the clock
  op,        \* operations.state, the dispatch state, and the number of attempts
  job,       \* rlm_workbench_jobs: phase, control_revision, cancellation mirror
  control,   \* operation_controls: control_revision, cancellation_requested
  susp,      \* rlm_workbench_suspensions
  ticket,    \* caller_work_tickets
  receipts,  \* caller_work_candidate_receipts
  journal,   \* the model response journalled for a ticket
  outbox,    \* rlm_workbench_successor_outbox: state and the attempt it is prepared for
  cell,      \* the latest of rlm_workbench_cells: state, attempt, index, and how often it ran
  claims,    \* claim identities handed out
  up,        \* the host process lives
  worker,    \* where the running attempt's handler is
  notify,    \* settled tickets whose notification the committing thread still owes
  sweep,     \* the deadline sweep of a dispatcher turn
  canceller, \* a user's cancel call
  driver,    \* the caller processes and their send guards
  sends      \* external: the claims under which a ticket was physically sent

inner == <<job, control, susp, cell>>
paper == <<receipts, journal>>
threads == <<up, worker, notify, sweep, canceller>>
caller == <<claims, driver, sends>>
vars == <<now, op, inner, ticket, paper, outbox, threads, caller>>

Suspension == 1..MaxSuspensions
Claim == 1..MaxClaims
Settled == {"settled_success", "settled_failure", "cancelled_certain"}
MayHaveSent == {"send_started", "outcome_unknown", "cancel_requested"}
Unsent == {"pending", "send_reserved"}
TicketStates == Unsent \cup MayHaveSent \cup Settled
                  \cup {"absent", "cancelled_before_send", "quarantined"}
OpTerminal == {"succeeded", "failed", "cancelled", "timed_out"}
Phases == OpTerminal \cup {"accepted", "preparing_workspace", "running",
                           "waiting_external", "finalizing", "parked"}
Receipts == [claim : Claim, outcome : Outcomes, via : {"commit", "callback"}]
NoReceipt == [claim |-> 0, outcome |-> "none", via |-> "none"]
Answers == Outcomes \cup {"none"}

NoTicket == [state |-> "absent", revision |-> 0, claim |-> 0, expires |-> 0,
             started |-> FALSE, settlement |-> NoReceipt]

\* Bug: a ticket starts in a state the repository does not know.
NewTicketCreated == [NoTicket EXCEPT !.state = "created"]

NewTicket == [NoTicket EXCEPT !.state = "pending"]
NoDriver == [phase |-> "idle", on |-> 0, claim |-> 0, revision |-> 0, saw |-> "none"]
NoSweep == [pc |-> "idle", state |-> "absent", revision |-> 0]
NoCancel == [pc |-> "idle", on |-> 0, revision |-> 0]
NoCell == [state |-> "none", attempt |-> 0, index |-> 0, runs |-> 0]

CallerTypeOK ==
  /\ now \in 0..MaxTime
  /\ op \in [state : OpTerminal \cup {"accepted", "running", "indeterminate"},
             dispatch : {"queued", "running", "parked", "completed"}, attempt : 0..MaxAttempts]
  /\ job \in [phase : Phases, control : Nat, mirror : BOOLEAN]
  /\ control \in [revision : Nat, cancelled : BOOLEAN]
  /\ susp \in [Suspension -> [state : {"absent", "pending", "settled", "cancelled", "parked"},
                              control : Nat]]
  /\ ticket \in [Suspension -> [state : TicketStates, revision : Nat, claim : 0..MaxClaims,
                                expires : Nat, started : BOOLEAN,
                                settlement : Receipts \cup {NoReceipt}]]
  /\ receipts \in [Suspension -> SUBSET Receipts]
  /\ journal \in [Suspension -> BOOLEAN]
  /\ outbox \in [Suspension -> [state : {"none", "pending", "prepared", "consumed"},
                                owner : 0..MaxAttempts]]
  /\ cell \in [state : {"none", "prepared", "running", "committed", "lost_before_commit"},
               attempt : 0..MaxAttempts, index : 0..MaxCells, runs : Nat]
  /\ claims \in 0..MaxClaims
  /\ up \in BOOLEAN
  /\ worker \in {"none", "begin", "ask", "consume", "cell", "run", "finalize", "close", "done",
                "abstain", "timeout", "fail"}
  /\ notify \subseteq Suspension
  /\ sweep \in [pc : {"idle", "act", "terminal", "expire", "raised"}, state : TicketStates,
                revision : Nat]
  /\ canceller \in [pc : {"idle", "ticket", "intent", "dequeue"}, on : 0..MaxSuspensions,
                    revision : Nat]
  /\ driver \in [Driver -> [phase : {"idle", "prepared", "mark_in_progress", "mark_unconfirmed",
                                     "send_started", "outcome_unknown", "send_observed"},
                            on : 0..MaxSuspensions, claim : 0..MaxClaims, revision : Nat,
                            saw : Answers]]
  /\ sends \in [Suspension -> Seq(Claim)]

\* RlmWorkbenchCoordinator.admit has run: the job waits for its first attempt.
Init ==
  /\ now = 0
  /\ op = [state |-> "accepted", dispatch |-> "queued", attempt |-> 0]
  /\ job = [phase |-> "preparing_workspace", control |-> 0, mirror |-> FALSE]
  /\ control = [revision |-> 0, cancelled |-> FALSE]
  /\ susp = [s \in Suspension |-> [state |-> "absent", control |-> 0]]
  /\ ticket = [s \in Suspension |-> NoTicket]
  /\ receipts = [s \in Suspension |-> {}]
  /\ journal = [s \in Suspension |-> FALSE]
  /\ outbox = [s \in Suspension |-> [state |-> "none", owner |-> 0]]
  /\ cell = NoCell
  /\ claims = 0
  /\ up = TRUE
  /\ worker = "none"
  /\ notify = {}
  /\ sweep = NoSweep
  /\ canceller = NoCancel
  /\ driver = [d \in Driver |-> NoDriver]
  /\ sends = [s \in Suspension |-> <<>>]

Tick == now < MaxTime /\ now' = now + 1 /\ UNCHANGED <<op, inner, ticket, paper, outbox, threads, caller>>

Late == now >= Deadline
Asked == {s \in Suspension : susp[s].state # "absent"}
Latest == Cardinality(Asked)

-----------------------------------------------------------------------------
(* The ticket store.                                                       *)

\* _checked_row, once the revision agrees: the control revisions of the
\* operation, of the job and of the suspension are one, nobody has asked to
\* cancel, and the suspension still waits.
Current(s) ==
  /\ control.revision = susp[s].control
  /\ job.control = susp[s].control
  /\ ~control.cancelled
  /\ ~job.mirror
  /\ susp[s].state = "pending"

Bump(s, changed) == ticket' = [ticket EXCEPT ![s] = [changed EXCEPT !.revision = ticket[s].revision + 1]]

\* retry_if_certain_no_send: only a reservation that never started
Unstarted(t) == t.state = "send_reserved" /\ ~t.started

Unclaimed(t) == [t EXCEPT !.state = "pending", !.claim = 0, !.expires = 0, !.started = FALSE,
                          !.settlement = NoReceipt]

ClaimTicket(d, s) ==
  /\ driver[d].phase = "idle"
  /\ ticket[s].state = "pending"
  /\ Current(s)
  /\ ~Late
  /\ claims < MaxClaims
  /\ claims' = claims + 1
  /\ Bump(s, [ticket[s] EXCEPT !.state = "send_reserved", !.claim = claims + 1,
                               !.expires = now + ClaimLease])
  /\ driver' = [driver EXCEPT ![d] = [phase |-> "prepared", on |-> s, claim |-> claims + 1,
                                      revision |-> ticket[s].revision + 1, saw |-> "none"]]
  /\ UNCHANGED <<now, op, inner, paper, outbox, threads, sends>>

ClaimExpired(s) == now >= ticket[s].expires

ReclaimExpired(s) ==
  /\ ticket[s].state = "send_reserved"
  /\ ClaimExpired(s)
  /\ Bump(s, Unclaimed(ticket[s]))
  /\ UNCHANGED <<now, op, inner, paper, outbox, threads, caller>>

\* Bug: any reservation will do.
MarkableByAnyone(t, g) == t.state = "send_reserved"

Markable(t, g) ==
  /\ t.state = "send_reserved"
  /\ t.revision = g.revision
  /\ t.claim = g.claim
  /\ now < t.expires /\ ~Late

\* CallerDriverSendGuard.send_once: the durable mark, as the server does it.
\* The guard is spent by entering it, whatever comes back.
MarkSendStarted(d) ==
  LET s == driver[d].on IN
  /\ driver[d].phase = "prepared"
  /\ IF Current(s) /\ Markable(ticket[s], driver[d])
     THEN /\ Bump(s, [ticket[s] EXCEPT !.state = "send_started", !.started = TRUE])
          /\ driver' = [driver EXCEPT ![d].phase = "mark_in_progress"]
     ELSE /\ driver' = [driver EXCEPT ![d].phase = "mark_unconfirmed"]
          /\ UNCHANGED ticket
  /\ UNCHANGED <<now, op, inner, paper, outbox, threads, claims, sends>>

Confirmed == {"send_started", "mark_unconfirmed"}

\* the committed ticket comes back, or its reply is lost
MarkReturns(d) ==
  /\ driver[d].phase = "mark_in_progress"
  /\ \E phase \in Confirmed : driver' = [driver EXCEPT ![d].phase = phase]
  /\ UNCHANGED <<now, op, inner, ticket, paper, outbox, threads, claims, sends>>

\* the physical send, which may fail before or after the provider got it
PhysicalSend(d) ==
  LET s == driver[d].on IN
  /\ driver[d].phase = "send_started"
  /\ \/ /\ sends' = [sends EXCEPT ![s] = Append(@, driver[d].claim)]
        /\ \/ \E seen \in Outcomes :
                driver' = [driver EXCEPT ![d].phase = "send_observed", ![d].saw = seen]
           \/ driver' = [driver EXCEPT ![d].phase = "outcome_unknown"]
     \/ /\ driver' = [driver EXCEPT ![d].phase = "outcome_unknown"]
        /\ UNCHANGED sends
  /\ UNCHANGED <<now, op, inner, ticket, paper, outbox, threads, claims>>

\* a caller forgets, or dies: nothing of the guard survives
DriverLeaves(d) ==
  /\ driver[d].phase # "idle"
  /\ driver' = [driver EXCEPT ![d] = NoDriver]
  /\ UNCHANGED <<now, op, inner, ticket, paper, outbox, threads, claims, sends>>

-----------------------------------------------------------------------------
(* Settlement.                                                             *)

Projected(state) ==
  CASE state \in {"settled_success", "settled_failure"} -> "settled"
    [] state \in {"cancelled_before_send", "cancelled_certain"} -> "cancelled"
    [] state = "quarantined" -> "parked"

\* the sweep had already classified the send as reconcile-only
ReconcileOnly(s) == ticket[s].state = "outcome_unknown" /\ Late

\* _project_terminal: the suspension ends with its ticket; a settlement also
\* leaves one outbox row and gives the job back to the dispatcher.
ProjectTerminal(s, state) ==
  /\ susp[s].state = "pending"
  /\ susp' = [susp EXCEPT ![s].state = Projected(state)]
  /\ UNCHANGED cell
  /\ IF state \in Settled /\ op.state = "accepted" /\ ~ReconcileOnly(s)
     THEN /\ job.phase = "waiting_external"
          /\ job.control = control.revision
          /\ ~control.cancelled
          /\ outbox' = [outbox EXCEPT ![s].state = "pending"]
          /\ job' = [job EXCEPT !.phase = "accepted", !.control = @ + 1]
          /\ control' = [control EXCEPT !.revision = @ + 1]
     ELSE UNCHANGED <<outbox, job, control>>

\* Bug: the first receipt wins.
ConflictIgnored(s, known) == FALSE

\* more than one receipt of the attempt: nothing is believed
Conflicting(s, known) == Cardinality({r \in known : r.claim = ticket[s].claim}) > 1

Settlement(outcome) ==
  CASE outcome = "succeeded" -> "settled_success"
    [] outcome = "cancelled" -> "cancelled_certain"
    [] OTHER -> "settled_failure"

\* Bug: a success is believed without the journalled response.
AuthorityAssumed(s, receipt, recorded) == TRUE

\* _require_model_settlement_authority: the model journal holds the response of
\* this ticket, request and attempt
Authority(s, receipt, recorded) == receipt.outcome = "succeeded" => recorded

\* _apply_candidate_settlement; recorded says whether the response is journalled
ApplySettlement(s, receipt, known, recorded) ==
  IF Conflicting(s, known)
  THEN /\ Bump(s, [ticket[s] EXCEPT !.state = "quarantined"])
       /\ ProjectTerminal(s, "quarantined")
  ELSE /\ Authority(s, receipt, recorded)
       /\ Bump(s, [ticket[s] EXCEPT !.state = Settlement(receipt.outcome), !.settlement = receipt])
       /\ ProjectTerminal(s, Settlement(receipt.outcome))

Owes(s) == notify' = IF ticket'[s].state \in Settled THEN notify \cup {s} ELSE notify

\* The response of a success goes into the model journal, in the transaction that
\* believes it; the answer to one request is taken to be one response, so a row
\* that is there already agrees.
Journalled(s, sealed) == journal[s] \/ sealed

\* A success journals its response in the same transaction.
Commit(d) ==
  LET s == driver[d].on
      receipt == [claim |-> driver[d].claim, outcome |-> driver[d].saw, via |-> "commit"]
      known == receipts[s] \cup {receipt}
      recorded == Journalled(s, driver[d].saw = "succeeded") IN
  /\ up
  /\ driver[d].phase = "send_observed"
  /\ ticket[s].state \in MayHaveSent
  /\ ticket[s].claim = driver[d].claim
  /\ Current(s)
  /\ receipts' = [receipts EXCEPT ![s] = known]
  /\ journal' = [journal EXCEPT ![s] = recorded]
  /\ ApplySettlement(s, receipt, known, recorded)
  /\ Owes(s)
  /\ driver' = [driver EXCEPT ![d] = NoDriver]
  /\ UNCHANGED <<now, op, up, worker, sweep, canceller, claims, sends>>

\* append_candidate_receipt, and append_model_candidate_receipt, which seals a
\* success with its response: accepted whatever has become of the ticket
AppendCandidate(s, outcome, sealed) ==
  /\ ticket[s].started
  /\ sealed => outcome = "succeeded"
  /\ receipts' = [receipts EXCEPT ![s] = @ \cup
       {[claim |-> ticket[s].claim, outcome |-> outcome, via |-> "callback"]}]
  /\ journal' = [journal EXCEPT ![s] = Journalled(s, sealed)]
  /\ UNCHANGED <<now, op, inner, ticket, outbox, threads, caller>>

\* settle_candidate, by which CallerWorkDispatcher.resume settles what a lookup
\* found; it checks the revision and not the control revisions
SettleCandidate(s, receipt) ==
  /\ up
  /\ ticket[s].state \in MayHaveSent
  /\ receipt \in receipts[s] /\ receipt.claim = ticket[s].claim
  /\ ApplySettlement(s, receipt, receipts[s], journal[s])
  /\ Owes(s)
  /\ UNCHANGED <<now, op, paper, up, worker, sweep, canceller, caller>>

MarkOutcomeUnknown(s) ==
  /\ ticket[s].state = "send_started"
  /\ Bump(s, [ticket[s] EXCEPT !.state = "outcome_unknown"])
  /\ UNCHANGED <<now, op, inner, paper, outbox, threads, caller>>

RequestTicketCancel(s) ==
  /\ ticket[s].state \in {"send_started", "outcome_unknown"}
  /\ Bump(s, [ticket[s] EXCEPT !.state = "cancel_requested"])
  /\ UNCHANGED <<now, op, inner, paper, outbox, threads, caller>>

\* reconcile, by the claimant; unlike the other two ways to settle it tells
\* nobody
ReconcileRetry(s) ==
  /\ Current(s)
  /\ ticket[s].claim # 0
  /\ Unstarted(ticket[s])
  /\ Bump(s, Unclaimed(ticket[s]))
  /\ UNCHANGED <<now, op, inner, paper, outbox, threads, caller>>

ReconcileSettle(s, receipt) ==
  /\ Current(s)
  /\ ticket[s].state \in MayHaveSent
  /\ receipt \in receipts[s] /\ receipt.claim = ticket[s].claim
  /\ ApplySettlement(s, receipt, receipts[s], journal[s])
  /\ UNCHANGED <<now, op, paper, threads, caller>>

ReconcileQuarantine(s) ==
  /\ Current(s)
  /\ ticket[s].state \in MayHaveSent
  /\ \E r \in receipts[s] : r.claim = ticket[s].claim
  /\ Bump(s, [ticket[s] EXCEPT !.state = "quarantined"])
  /\ ProjectTerminal(s, "quarantined")
  /\ UNCHANGED <<now, op, paper, threads, caller>>

Reconcile(s) ==
  \/ ReconcileRetry(s)
  \/ \E r \in receipts[s] : ReconcileSettle(s, r)
  \/ ReconcileQuarantine(s)

\* Bug: cancelling looks at the revision alone, which a sender shares.
CancellableSent(s, revision) == ticket[s].revision = revision /\ ticket[s].state # "absent"

Cancellable(s, revision) ==
  /\ ticket[s].state \in Unsent
  /\ ticket[s].revision = revision
  /\ Current(s)

\* cancel_before_send, by a caller or by the two coordinator paths below
CancelUnsent(s) ==
  /\ Bump(s, [ticket[s] EXCEPT !.state = "cancelled_before_send"])
  /\ ProjectTerminal(s, "cancelled_before_send")

CancelBeforeSend(s) ==
  /\ Cancellable(s, ticket[s].revision)
  /\ CancelUnsent(s)
  /\ UNCHANGED <<now, op, paper, threads, caller>>

-----------------------------------------------------------------------------
(* The successor: queue, claim, prepare, consume.                          *)

\* request_dispatch of an accepted operation
Queue(o) == IF o.state = "accepted" THEN [o EXCEPT !.dispatch = "queued"] ELSE o

TimeOut(o) ==
  IF o.state = "accepted" THEN [o EXCEPT !.state = "timed_out", !.dispatch = "completed"] ELSE o

\* submit_rlm_workbench again: admission is idempotent, the dispatch request is not
Resubmit ==
  /\ Resubmitted
  /\ up
  /\ job.phase \notin OpTerminal
  /\ op.dispatch # "queued"
  /\ op' = Queue(op)
  /\ UNCHANGED <<now, inner, ticket, paper, outbox, threads, caller>>

\* notify_caller_settlement; evidence that came too late wakes nobody
NotifySettlement(s) ==
  /\ up
  /\ s \in notify
  /\ notify' = notify \ {s}
  /\ op' = IF outbox[s].state = "pending" THEN Queue(op)
           ELSE IF outbox[s].state = "none" /\ job.phase = "timed_out" THEN TimeOut(op) ELSE op
  /\ UNCHANGED <<now, inner, ticket, paper, outbox, up, worker, sweep, canceller, caller>>

Awaiting == {s \in Suspension : outbox[s].state \in {"pending", "prepared"}}

\* Bug: at the deadline a settled wait expires like any other.
NeverSettledInTime == FALSE

\* a settlement that must be consumed even after the deadline
SettledInTime == \E s \in Suspension :
  outbox[s].state = "pending" /\ ticket[s].state \in Settled /\ job.phase = "accepted"

Claimable == up /\ op.dispatch = "queued" /\ op.state = "accepted" /\ worker = "none"

ExpireQueued ==
  /\ Claimable
  /\ Late
  /\ ~SettledInTime
  /\ op' = TimeOut(op)
  /\ UNCHANGED <<now, inner, ticket, paper, outbox, threads, caller>>

SuccessorAuthority(s) ==
  /\ job.phase = "accepted"
  /\ susp[s].state \in {"settled", "cancelled"}
  /\ job.control = control.revision
  /\ ~control.cancelled
  /\ susp[s].control + 1 = job.control
  /\ ticket[s].state \in Settled

\* _prepare_planner_successor_unlocked: exactly one row, prepared for this attempt
Preparable == \E s \in Suspension : Awaiting = {s} /\ SuccessorAuthority(s)

\* Bug: a cell that was already running is taken for a prepared one.
CellReadyAgain == cell.state \in {"prepared", "running"}

CellReady == cell.state = "prepared"

ClaimFirst ==
  /\ Claimable
  /\ op.attempt = 0
  /\ op.attempt < MaxAttempts
  /\ ~Late
  /\ op' = [op EXCEPT !.state = "running", !.dispatch = "running", !.attempt = 1]
  /\ worker' = "begin"
  /\ UNCHANGED <<now, inner, ticket, paper, outbox, up, notify, sweep, canceller, caller>>

Successive == Claimable /\ op.attempt # 0 /\ (Late => SettledInTime)

\* _takeover_prepared_planner_cell_unlocked: a prepared cell goes with the claim
TakeOverCell ==
  /\ Successive
  /\ op.attempt < MaxAttempts
  /\ CellReady
  /\ cell.attempt = op.attempt
  /\ cell' = [cell EXCEPT !.attempt = op.attempt + 1]
  /\ op' = [op EXCEPT !.state = "running", !.dispatch = "running", !.attempt = @ + 1]
  /\ worker' = "cell"
  /\ UNCHANGED <<now, job, control, susp, ticket, paper, outbox, up, notify, sweep, canceller, caller>>

ClaimSuccessor ==
  /\ Successive
  /\ op.attempt < MaxAttempts
  /\ ~CellReady
  /\ Preparable
  /\ outbox' = [s \in Suspension |-> IF s \in Awaiting
       THEN [state |-> "prepared", owner |-> op.attempt + 1] ELSE outbox[s]]
  /\ op' = [op EXCEPT !.state = "running", !.dispatch = "running", !.attempt = @ + 1]
  /\ worker' = "consume"
  /\ UNCHANGED <<now, inner, ticket, paper, up, notify, sweep, canceller, caller>>

\* _begin_running.  The control revision is overwritten, not compared.
BeginRunning ==
  /\ up
  /\ worker = "begin"
  /\ ~job.mirror /\ ~Late
  /\ job' = [job EXCEPT !.phase = "running", !.control = @ + 1]
  /\ control' = [control EXCEPT !.revision = job.control + 1]
  /\ worker' = "ask"
  /\ UNCHANGED <<now, op, susp, cell, ticket, paper, outbox, up, notify, sweep, canceller, caller>>

\* the new suspension and its ticket, in the transaction that parks the attempt
Suspend ==
  LET s == Latest + 1 IN
  /\ susp' = [susp EXCEPT ![s] = [state |-> "pending", control |-> job.control + 1]]
  /\ ticket' = [ticket EXCEPT ![s] = NewTicket]
  /\ job' = [job EXCEPT !.phase = "waiting_external", !.control = @ + 1]
  /\ control' = [control EXCEPT !.revision = @ + 1]
  /\ op' = [op EXCEPT !.state = "accepted", !.dispatch = "parked"]
  /\ worker' = "none"
  /\ UNCHANGED cell

Undisturbed == ~control.cancelled /\ job.control = control.revision /\ ~Late

\* _suspend_root_planner and suspend_planner_attempt
SuspendPlanner ==
  /\ up
  /\ worker = "ask"
  /\ Latest < MaxSuspensions
  /\ Undisturbed
  /\ Suspend
  /\ UNCHANGED <<now, paper, outbox, up, notify, sweep, canceller, caller>>

\* _require_deadline and the budget of model calls; a finalizer looks at the
\* clock only in its last transaction
HandlerGivesUp ==
  /\ up
  /\ \/ worker \in {"ask", "cell", "run", "close"} /\ Late /\ worker' = "timeout"
     \/ worker = "ask" /\ ~Late /\ Latest = MaxSuspensions /\ worker' = "fail"
  /\ UNCHANGED <<now, op, inner, ticket, paper, outbox, up, notify, sweep, canceller, caller>>

\* the job and the operation control move together; the control revision is
\* overwritten, whatever a cancellation made of it
Advance(phase) ==
  /\ job' = [job EXCEPT !.phase = phase, !.control = @ + 1]
  /\ control' = [control EXCEPT !.revision = job.control + 1]

\* _execute_cell of a prepared cell
StartCell ==
  /\ up
  /\ worker = "cell"
  /\ ~Late
  /\ CellReady
  /\ cell.attempt = op.attempt
  /\ cell' = [cell EXCEPT !.state = "running", !.runs = @ + 1]
  /\ worker' = "run"
  /\ UNCHANGED <<now, op, job, control, susp, ticket, paper, outbox, up, notify, sweep, canceller, caller>>

CommitCell ==
  /\ up
  /\ worker = "run"
  /\ ~Late
  /\ job.phase = "running"
  /\ Advance("running")
  /\ cell' = [cell EXCEPT !.state = "committed"]
  /\ worker' = "ask"
  /\ UNCHANGED <<now, op, susp, ticket, paper, outbox, up, notify, sweep, canceller, caller>>

\* _finalize: the proposal, the workspace closed, the manifest and the result
FinalizeStart ==
  /\ up
  /\ worker = "finalize"
  /\ \A s \in Suspension : susp[s].state # "pending"
  /\ job.phase = "running"
  /\ Advance("finalizing")
  /\ worker' = "close"
  /\ UNCHANGED <<now, op, susp, cell, ticket, paper, outbox, up, notify, sweep, canceller, caller>>

FinalizeCommit ==
  /\ up
  /\ worker = "close"
  /\ ~Late
  /\ job.phase = "finalizing"
  /\ Advance("succeeded")
  /\ worker' = "done"
  /\ UNCHANGED <<now, op, susp, cell, ticket, paper, outbox, up, notify, sweep, canceller, caller>>

\* the outer operation follows in a transaction of its own
OuterSuccess ==
  /\ up
  /\ worker = "done"
  /\ op' = [op EXCEPT !.state = "succeeded", !.dispatch = "completed"]
  /\ worker' = "none"
  /\ UNCHANGED <<now, inner, ticket, paper, outbox, up, notify, sweep, canceller, caller>>

MayExpire ==
  /\ job.phase \notin OpTerminal \cup {"parked"}
  /\ ~job.mirror
  /\ job.control = control.revision /\ ~control.cancelled

\* mark_deadline_terminal
DeadlineTerminal ==
  /\ job' = [job EXCEPT !.phase = "timed_out", !.control = @ + 1]
  /\ control' = [control EXCEPT !.revision = @ + 1]
  /\ susp' = [s \in Suspension |->
       IF susp[s].state = "pending" THEN [susp[s] EXCEPT !.state = "parked"] ELSE susp[s]]
  /\ cell' = IF cell.state = "running" THEN [cell EXCEPT !.state = "lost_before_commit"] ELSE cell

MayFail ==
  /\ job.phase = "running"
  /\ ~job.mirror
  /\ job.control = control.revision /\ ~control.cancelled

\* mark_model_call_budget_terminal
BudgetTerminal ==
  /\ job' = [job EXCEPT !.phase = "failed", !.control = @ + 1]
  /\ control' = [control EXCEPT !.revision = @ + 1]
  /\ UNCHANGED <<susp, cell>>

\* mark_dispatch_failure_for_kind: the inner job first, the operation next
InnerTerminal ==
  /\ up
  /\ \/ worker = "timeout" /\ MayExpire /\ DeadlineTerminal
     \/ worker = "fail" /\ MayFail /\ BudgetTerminal
  /\ UNCHANGED <<now, op, ticket, paper, outbox, threads, caller>>

\* what the exception asks for is done: the inner phase agrees with it
InnerDone == job.phase = IF worker = "timeout" THEN "timed_out" ELSE "failed"

OuterTerminal ==
  /\ up
  /\ worker \in {"timeout", "fail"}
  /\ InnerDone
  /\ op' = [op EXCEPT !.state = job.phase, !.dispatch = "completed"]
  /\ worker' = "none"
  /\ UNCHANGED <<now, inner, ticket, paper, outbox, up, notify, sweep, canceller, caller>>

\* Marking the failure fails itself: the attempt is left to its lease.
FailureUnmarked ==
  /\ up
  /\ worker \in {"timeout", "fail"}
  /\ ~InnerDone
  /\ IF worker = "timeout" THEN ~MayExpire ELSE ~MayFail
  /\ op' = [op EXCEPT !.state = "indeterminate", !.dispatch = "parked"]
  /\ worker' = "none"
  /\ UNCHANGED <<now, inner, ticket, paper, outbox, up, notify, sweep, canceller, caller>>

Prepared == CHOOSE s \in Suspension : outbox[s].state = "prepared" /\ outbox[s].owner = op.attempt

\* consume_planner_successor tolerates the one bump of a cancellation
ConsumeAuthority ==
  /\ job.phase = "accepted"
  /\ \/ job.control = control.revision
     \/ control.cancelled /\ control.revision = job.control + 1

\* Bug: the row stays prepared.
ConsumeNothing == UNCHANGED outbox

ConsumeOutbox == outbox' = [outbox EXCEPT ![Prepared].state = "consumed"]

\* Bug: the deadline is looked at before the cancellation.
SelectedDeadlineFirst(s) ==
  IF Late THEN "timed_out"
  ELSE IF control.cancelled THEN "cancelled"
  ELSE IF ticket[s].state = "settled_failure" THEN "failed"
  ELSE IF ticket[s].state = "cancelled_certain" THEN "cancelled"
  ELSE "none"

\* what the consumption projects: cancellation, then the deadline, then the settlement
Selected(s) ==
  IF control.cancelled THEN "cancelled"
  ELSE IF Late THEN "timed_out"
  ELSE IF ticket[s].state = "settled_failure" THEN "failed"
  ELSE IF ticket[s].state = "cancelled_certain" THEN "cancelled"
  ELSE "none"

\* an answer that is no directive fails the job once the corrections are used up
ConsumeTerminal ==
  LET selected == Selected(Prepared) IN
  /\ up
  /\ worker = "consume"
  /\ ConsumeAuthority
  /\ selected # "none" \/ Latest = MaxSuspensions
  /\ ConsumeOutbox
  /\ job' = [job EXCEPT !.phase = IF selected = "none" THEN "failed" ELSE selected,
                        !.control = control.revision + 1]
  /\ control' = [control EXCEPT !.revision = @ + 1]
  /\ op' = [op EXCEPT !.state = job'.phase, !.dispatch = "completed"]
  /\ worker' = "none"
  /\ UNCHANGED <<now, susp, cell, ticket, paper, up, notify, sweep, canceller, caller>>

\* A directive was read: the job runs again, and a cell is prepared with the
\* checkpoint that was taken before the transaction.
ConsumeDirective ==
  /\ up
  /\ worker = "consume"
  /\ ConsumeAuthority
  /\ Selected(Prepared) = "none"
  /\ ConsumeOutbox
  /\ job' = [job EXCEPT !.phase = "running"]
  /\ \/ /\ cell.index < MaxCells
        /\ cell.state \in {"none", "committed"}
        /\ cell' = [state |-> "prepared", attempt |-> op.attempt, index |-> cell.index + 1, runs |-> 0]
        /\ worker' = "cell"
     \/ worker' \in {"finalize", "abstain"} /\ UNCHANGED cell
  /\ UNCHANGED <<now, op, control, susp, ticket, paper, up, notify, sweep, canceller, caller>>

\* the answer was no directive: the correction is asked for at once
ConsumeCorrection ==
  /\ up
  /\ worker = "consume"
  /\ ConsumeAuthority
  /\ Selected(Prepared) = "none"
  /\ Latest < MaxSuspensions
  /\ ConsumeOutbox
  /\ Suspend
  /\ UNCHANGED <<now, paper, up, notify, sweep, canceller, caller>>

\* What ends an attempt with another exception: a cancellation or the deadline
\* seen at a wrong moment, a cell that fails, an output outside its contract,
\* an abstention, a directive for one cell too many.
MayPark ==
  \/ worker = "begin" /\ (job.mirror \/ Late)
  \/ worker = "ask" /\ ~Undisturbed
  \/ worker \in {"run", "finalize", "abstain"}
  \/ worker = "cell" /\ job.phase # "running"
  \/ worker = "consume" /\ Selected(Prepared) = "none" /\ cell.index = MaxCells

\* park_claimed and park_attempt
HandlerParks ==
  /\ up
  /\ MayPark
  /\ Advance("parked")
  /\ op' = [op EXCEPT !.state = "indeterminate", !.dispatch = "parked"]
  /\ worker' = "none"
  /\ UNCHANGED <<now, susp, cell, ticket, paper, outbox, up, notify, sweep, canceller, caller>>

-----------------------------------------------------------------------------
(* Loss of an attempt and of the host, and recovery.                       *)

\* the lease runs out and the attempt is fenced
WorkerLost ==
  /\ WorkerMayDie
  /\ up
  /\ worker # "none"
  /\ op' = [op EXCEPT !.state = "indeterminate", !.dispatch = "parked"]
  /\ worker' = "none"
  /\ UNCHANGED <<now, inner, ticket, paper, outbox, up, notify, sweep, canceller, caller>>

HostLost ==
  /\ HostMayDie
  /\ up
  /\ up' = FALSE
  /\ worker' = "none"
  /\ notify' = {}
  /\ sweep' = NoSweep
  /\ canceller' = NoCancel
  /\ UNCHANGED <<now, op, inner, ticket, paper, outbox, caller>>

\* start_runtime and, as the coordinator is built, schedule_pending_successors
HostRestarts ==
  /\ ~up
  /\ up' = TRUE
  /\ op' = IF op.state = "running" THEN [op EXCEPT !.state = "indeterminate", !.dispatch = "parked"]
           ELSE IF SettledInTime THEN Queue(op) ELSE op
  /\ UNCHANGED <<now, inner, ticket, paper, outbox, worker, notify, sweep, canceller, caller>>

\* recover_indeterminate, of a prepared cell: its checkpoint is restored
RecoverCell ==
  /\ up
  /\ op.state = "indeterminate"
  /\ CellReady
  /\ op' = [op EXCEPT !.state = "accepted", !.dispatch = "queued"]
  /\ UNCHANGED <<now, inner, ticket, paper, outbox, threads, caller>>

\* of a prepared planner row: it moves to another attempt
RecoverPlanner ==
  /\ up
  /\ op.state = "indeterminate"
  /\ ~CellReady
  /\ \E s \in Suspension : outbox[s].state = "prepared"
  /\ job.phase = "accepted"
  /\ op' = [op EXCEPT !.state = "accepted", !.dispatch = "queued"]
  /\ UNCHANGED <<now, inner, ticket, paper, outbox, threads, caller>>

-----------------------------------------------------------------------------
(* sweep_expired_caller_work, at the start of every dispatcher turn.       *)

SweepRead ==
  /\ up
  /\ sweep.pc = "idle"
  /\ Late
  /\ op.state = "accepted"
  /\ Latest > 0
  /\ ~job.mirror
  /\ sweep' = [pc |-> "act", state |-> ticket[Latest].state, revision |-> ticket[Latest].revision]
  /\ UNCHANGED <<now, op, inner, ticket, paper, outbox, up, worker, notify, canceller, caller>>

SweepWithdraws(state) == state \in Unsent

\* Bug: a withdrawn ticket is left at that.
SweepForgets(state) == "idle"

SweepNext(state) ==
  CASE state = "cancelled_before_send" -> "terminal"
    [] state \in MayHaveSent \cup Settled \cup {"quarantined"} -> "idle"
    [] OTHER -> "raised"

\* The ticket is withdrawn if nothing was sent, called unknown if it was, and
\* re-read if somebody was faster.
SweepAct ==
  LET s == Latest
      withdraw == SweepWithdraws(sweep.state)
      unknown == sweep.state = "send_started"
      wins == \/ withdraw /\ Cancellable(s, sweep.revision)
              \/ unknown /\ ticket[s].revision = sweep.revision
      state == IF ~wins THEN ticket[s].state
               ELSE IF withdraw THEN "cancelled_before_send" ELSE "outcome_unknown" IN
  /\ up
  /\ sweep.pc = "act"
  /\ IF wins /\ withdraw THEN CancelUnsent(s)
     ELSE /\ IF wins THEN Bump(s, [ticket[s] EXCEPT !.state = "outcome_unknown"])
             ELSE UNCHANGED ticket
          /\ UNCHANGED <<inner, outbox>>
  /\ op' = IF state \in Settled THEN Queue(op) ELSE op
  /\ sweep' = [sweep EXCEPT !.pc = SweepNext(state)]
  /\ UNCHANGED <<now, paper, up, worker, notify, canceller, caller>>

SweepTerminal ==
  /\ up
  /\ sweep.pc = "terminal"
  /\ IF job.phase = "timed_out" THEN sweep' = [sweep EXCEPT !.pc = "expire"] /\ UNCHANGED inner
     ELSE IF MayExpire
          THEN DeadlineTerminal /\ sweep' = [sweep EXCEPT !.pc = "expire"]
          ELSE sweep' = [sweep EXCEPT !.pc = "raised"] /\ UNCHANGED inner
  /\ UNCHANGED <<now, op, ticket, paper, outbox, up, worker, notify, canceller, caller>>

\* registry.time_out, of an operation that is still accepted
SweepExpire ==
  /\ up
  /\ sweep.pc = "expire"
  /\ op' = TimeOut(op)
  /\ sweep' = NoSweep
  /\ UNCHANGED <<now, inner, ticket, paper, outbox, up, worker, notify, canceller, caller>>

\* the turn ended with an exception; the thread waits and begins another
SweepRetry ==
  /\ up
  /\ sweep.pc = "raised"
  /\ sweep' = NoSweep
  /\ UNCHANGED <<now, op, inner, ticket, paper, outbox, up, worker, notify, canceller, caller>>

-----------------------------------------------------------------------------
(* ReferenceHost.cancel.                                                   *)

CancelStart ==
  /\ up
  /\ Withdrawn
  /\ canceller.pc = "idle"
  /\ op.state \in {"accepted", "running"}
  /\ canceller' = IF \E s \in Suspension : susp[s].state = "pending" /\ ticket[s].state \in Unsent
                  THEN [pc |-> "ticket", on |-> Latest, revision |-> ticket[Latest].revision]
                  ELSE [NoCancel EXCEPT !.pc = "intent"]
  /\ UNCHANGED <<now, op, inner, ticket, paper, outbox, up, worker, notify, sweep, caller>>

\* cancel_pending_caller_work: losing the race is not an error
CancelTicket ==
  /\ up
  /\ canceller.pc = "ticket"
  /\ IF Cancellable(canceller.on, canceller.revision) THEN CancelUnsent(canceller.on)
     ELSE UNCHANGED <<ticket, inner, outbox>>
  /\ canceller' = [NoCancel EXCEPT !.pc = "intent"]
  /\ UNCHANGED <<now, op, paper, up, worker, notify, sweep, caller>>

\* request_cancel: the intent is durable, its mirror in the job is not written
CancelIntent ==
  /\ up
  /\ canceller.pc = "intent"
  /\ control' = IF control.cancelled THEN control
                ELSE [revision |-> control.revision + 1, cancelled |-> TRUE]
  /\ canceller' = [NoCancel EXCEPT !.pc = "dequeue"]
  /\ UNCHANGED <<now, op, job, susp, cell, ticket, paper, outbox, up, worker, notify, sweep, caller>>

Dequeuable ==
  /\ op.state = "accepted"
  /\ op.dispatch \in {"queued", "parked"}
  /\ control.cancelled
  /\ job.phase \notin OpTerminal

\* cancel_queued_dispatch: the operation, its job and what waits for it end together
CancelDequeue ==
  /\ up
  /\ canceller.pc = "dequeue"
  /\ IF Dequeuable
     THEN /\ op' = [op EXCEPT !.state = "cancelled", !.dispatch = "completed"]
          /\ job' = [phase |-> "cancelled", control |-> control.revision, mirror |-> TRUE]
          /\ susp' = [s \in Suspension |->
               IF susp[s].state = "pending" THEN [susp[s] EXCEPT !.state = "cancelled"] ELSE susp[s]]
          /\ outbox' = [s \in Suspension |-> IF outbox[s].state = "prepared"
               THEN [outbox[s] EXCEPT !.state = "consumed"] ELSE outbox[s]]
     ELSE UNCHANGED <<op, job, susp, outbox>>
  /\ canceller' = NoCancel
  /\ UNCHANGED <<now, control, cell, ticket, paper, up, worker, notify, sweep, caller>>

-----------------------------------------------------------------------------
TicketStore ==
  \E s \in Suspension :
    \/ ReclaimExpired(s) \/ CancelBeforeSend(s)
    \/ MarkOutcomeUnknown(s) \/ RequestTicketCancel(s) \/ Reconcile(s)
    \/ \E outcome \in Outcomes, sealed \in BOOLEAN : AppendCandidate(s, outcome, sealed)
    \/ \E r \in receipts[s] : SettleCandidate(s, r)

Drivers ==
  \E d \in Driver :
    \/ \E s \in Suspension : ClaimTicket(d, s)
    \/ MarkSendStarted(d) \/ MarkReturns(d) \/ PhysicalSend(d) \/ Commit(d) \/ DriverLeaves(d)

HandlerSteps ==
  \/ BeginRunning \/ SuspendPlanner \/ HandlerGivesUp
  \/ StartCell \/ CommitCell \/ FinalizeStart \/ FinalizeCommit \/ OuterSuccess
  \/ InnerTerminal \/ OuterTerminal \/ FailureUnmarked \/ HandlerParks
  \/ ConsumeTerminal \/ ConsumeDirective \/ ConsumeCorrection

Successor ==
  \/ \E s \in Suspension : NotifySettlement(s)
  \/ ExpireQueued \/ ClaimFirst \/ TakeOverCell \/ ClaimSuccessor
  \/ HandlerSteps
  \/ RecoverCell \/ RecoverPlanner \/ Resubmit

Sweeper == SweepRead \/ SweepAct \/ SweepTerminal \/ SweepExpire \/ SweepRetry
Cancelling == CancelStart \/ CancelTicket \/ CancelIntent \/ CancelDequeue
Losses == WorkerLost \/ HostLost \/ HostRestarts

Next == Tick \/ TicketStore \/ Drivers \/ Successor \/ Sweeper \/ Cancelling \/ Losses

Spec == Init /\ [][Next]_vars

\* The host's threads run while it lives: a settling thread notifies, a
\* dispatcher thread sweeps, recovers and claims at every turn, a handler goes
\* on.  A lost host is started again.  The clock advances.  Nothing is assumed
\* of callers, providers or users.
Fairness ==
  /\ WF_vars(Tick)
  /\ WF_vars(HandlerSteps)
  /\ WF_vars(ExpireQueued \/ ClaimFirst \/ TakeOverCell \/ ClaimSuccessor)
  /\ WF_vars(HostRestarts) /\ WF_vars(RecoverCell \/ RecoverPlanner)
  /\ WF_vars(SweepRead) /\ WF_vars(SweepAct \/ SweepTerminal \/ SweepExpire \/ SweepRetry)
  /\ \A s \in Suspension : WF_vars(NotifySettlement(s))

FairSpec == Spec /\ Fairness

-----------------------------------------------------------------------------
(* Properties.                                                             *)

\* However claims expire, are handed back and are taken again, and whichever
\* replies are lost, a ticket is physically sent at most once, and under the
\* claim its row names as having started.
OneAuthorisedSend ==
  \A s \in Suspension :
    sends[s] # <<>> => sends[s] = <<ticket[s].claim>> /\ ticket[s].started

\* A ticket withdrawn as "certain no send" was not sent, and no driver holds a
\* confirmed mark with which it could still send: cancel_before_send and
\* mark_send_started exclude each other.
WithdrawnIsUnsent ==
  \A s \in Suspension :
    ticket[s].state = "cancelled_before_send" =>
      /\ sends[s] = <<>>
      /\ \A d \in Driver : driver[d].on = s => driver[d].phase \notin {"mark_in_progress", "send_started"}

\* A settlement is what one receipt of the marked attempt says; a success has
\* its model response in the journal.
SettlementIsEvidence ==
  \A s \in Suspension :
    ticket[s].state \in Settled =>
      /\ ticket[s].settlement \in receipts[s]
      /\ ticket[s].settlement.claim = ticket[s].claim
      /\ ticket[s].state = "settled_success" => journal[s]

\* Nothing settles while two receipts of the attempt disagree, and what is
\* settled, withdrawn or quarantined stays so whatever evidence follows.
SettlementIsFinal ==
  [][\A s \in Suspension :
       /\ ticket[s].state \in Settled \cup {"cancelled_before_send", "quarantined"} =>
            ticket'[s] = ticket[s]
       /\ ticket[s].state \notin Settled /\ ticket'[s].state \in Settled =>
            Cardinality({r \in receipts'[s] : r.claim = ticket[s].claim}) = 1]_vars

\* One continuation at a time: a settlement that waits for its successor is
\* the latest suspension's, its ticket is settled, and no attempt runs beside it
\* but the one it is prepared for.
OneContinuation ==
  \A s \in Awaiting :
    /\ s = Latest
    /\ ticket[s].state \in Settled
    /\ susp[s].state \in {"settled", "cancelled"}
    /\ worker # "none" => outbox[s] = [state |-> "prepared", owner |-> op.attempt]

\* A cancellation that was asked for before the successor consumes its
\* settlement decides what the settlement comes to, whatever it says and
\* whatever the clock says.
CancelledSettlement ==
  [][\A s \in Suspension :
       control.cancelled /\ outbox[s].state = "prepared" /\ outbox'[s].state = "consumed" =>
         op'.state = "cancelled"]_vars

\* A cell that has been started is never started again, whichever attempts,
\* hosts and recoveries it passes through: only a prepared cell is taken over.
CellRunsOnce == cell.runs <= 1

\* Liveness: a settlement gets its successor, which consumes it, also when the
\* deadline passed in between.
SettlementContinues ==
  \A s \in Suspension : outbox[s].state = "pending" ~> outbox[s].state = "consumed"

\* Liveness: a wait that ends at the deadline with nothing sent ends the
\* operation, whoever races the sweep for the ticket.
UnsentWaitIsDecided ==
  \A s \in Suspension :
    (susp[s].state = "pending" /\ ticket[s].state \in Unsent /\ Late) ~> op.state \in OpTerminal

=============================================================================
