--------------------------- MODULE WorkbenchRebind ---------------------------
(***************************************************************************)
(* A cell of the RLM workbench suspends in the middle of its code, its     *)
(* attempt ends, and a successor attempt takes the live Python stack over: *)
(* the transfer is prepared with the claim, committed, delivered to the    *)
(* worker process, acknowledged, and the cell is committed.  When the      *)
(* worker, the lease or the host is lost on the way the cell is abandoned  *)
(* and its checkpoint restored into a new generation of the workspace.     *)
(* (runtime/rlm_workbench.py, runtime/registry.py, the rebind half of      *)
(* runtime/ipython_backend.py, runtime/artifact_publication.py.)           *)
(*                                                                         *)
(* One host-planned operation.  What happens to the ticket it waits for is *)
(* module CallerWork.  Database steps of an attempt are fenced by its      *)
(* lease; calls of the backend are not, so a handler that lost its lease   *)
(* still reaches the worker process.                                       *)
(***************************************************************************)
EXTENDS Integers, FiniteSets

CONSTANTS
  MaxCells,     \* budgets.max_cells
  CallBudgets,  \* values of budgets.max_model_calls
  MaxAttempts,  \* bound: attempts of the operation
  MaxCrashes    \* bound: deaths of the host process and of workers

ASSUME RebindAssumption ==
  MaxCells \in Nat \ {0} /\ CallBudgets \subseteq Nat /\ MaxAttempts \in Nat /\ MaxCrashes \in Nat

VARIABLES
  budget,     \* budgets.max_model_calls of this job
  late,       \* the cumulative deadline has passed
  cancelled,  \* operation_controls.cancellation_requested
  op,         \* operations.state, the dispatch state, the number of attempts
  att,        \* operation_attempts.state; a running attempt holds its lease
  job,        \* rlm_workbench_jobs: phase and workspace boundary
  susp,       \* rlm_workbench_suspensions
  outbox,     \* rlm_workbench_successor_outbox
  call,       \* the broker_calls row of the suspended request
  transfer,   \* rlm_workbench_rebind_transfers
  cells,      \* rlm_workbench_cells and the artifact each one stages
  auth,       \* rlm_workbench_attempt_authority
  up, crashes,
  ws,         \* the backend's worker state of this workspace and its process
  handler,    \* where the handler thread of each attempt is
  recovery,   \* the recovery pass of a dispatcher turn
  resumed     \* how often the suspended stack was run on

store == <<op, att, job, susp, outbox, call, transfer, cells, auth>>
weather == <<budget, late, cancelled, up, crashes>>
vars == <<weather, store, ws, handler, recovery, resumed>>

Attempt == 1..MaxAttempts
Cell == 1..MaxCells
Terminal == {"succeeded", "failed", "timed_out"}

NoCell == [state |-> "none", attempt |-> 0, gen |-> 0, rev |-> 0, pre |-> {}, stage |-> "none"]
NoTransfer == [state |-> "none", prior |-> 0, successor |-> 0, generation |-> 0, worker |-> 0,
               cell |-> 0, gen |-> 0, rev |-> 0]
NoAuth == [attempt |-> 0, generation |-> 0, worker |-> 0, cell |-> 0, token |-> FALSE]
NoWorker == [id |-> 0, alive |-> FALSE, lost |-> FALSE, gen |-> 0, rev |-> 0,
             stack |-> 0, prepared |-> 0, running |-> 0, names |-> {}, receipt |-> 0]
NoHandler == [pc |-> "none", cell |-> 0, gen |-> 0, rev |-> 0]
NoRecovery == [pc |-> "idle", gen |-> 0]

RebindTypeOK ==
  /\ budget \in CallBudgets /\ {late, cancelled, up} \subseteq BOOLEAN /\ crashes \in 0..MaxCrashes
  /\ op \in [state : Terminal \cup {"accepted", "running", "indeterminate"},
             dispatch : {"queued", "running", "parked", "completed"}, attempt : 0..MaxAttempts]
  /\ att \in [Attempt -> Terminal \cup {"none", "running", "suspended_external", "indeterminate"}]
  /\ job \in [phase : Terminal \cup {"preparing_workspace", "accepted", "running",
                                     "waiting_external", "finalizing", "parked"},
              gen : Nat, rev : Nat]
  /\ susp \in {"none", "pending", "settled", "parked"}
  /\ outbox \in {"none", "pending", "prepared", "consumed"}
  /\ call \in {"none", "started", "succeeded"}
  /\ transfer \in [state : {"none", "prepared", "committed", "worker_ack", "fenced_loss", "aborted"},
                   prior : 0..MaxAttempts, successor : 0..MaxAttempts, generation : Nat,
                   worker : Nat, cell : 0..MaxCells, gen : Nat, rev : Nat]
  /\ cells \in [Cell -> [state : {"none", "running", "suspended", "committed", "lost_before_commit"},
                         attempt : 0..MaxAttempts, gen : Nat, rev : Nat, pre : SUBSET Cell,
                         stage : {"none", "staged", "committed", "published"}]]
  /\ auth \in [attempt : 0..MaxAttempts, generation : Nat, worker : Nat, cell : 0..MaxCells,
               token : BOOLEAN]
  /\ ws \in [id : Nat, alive : BOOLEAN, lost : BOOLEAN, gen : Nat, rev : Nat, stack : 0..MaxCells,
             prepared : 0..MaxAttempts, running : 0..MaxAttempts, names : SUBSET Cell, receipt : 0..MaxCells]
  /\ handler \in [Attempt -> [pc : {"none", "begin", "reconcile", "prepare", "commit", "resume",
                                    "rerun", "ack", "settle", "recover", "plan", "start", "exec",
                                    "run", "close", "finalize", "publish", "conflict", "vanished",
                                    "park", "expire", "expired", "exhausted", "spent", "failed",
                                    "done"},
                              cell : 0..MaxCells, gen : Nat, rev : Nat]]
  /\ recovery \in [pc : {"idle", "restored", "marked"}, gen : Nat]
  /\ resumed \in Nat

\* RlmWorkbenchCoordinator.admit has run: the workspace exists, the job waits for attempt 1.
Init ==
  /\ budget \in CallBudgets
  /\ late = FALSE /\ cancelled = FALSE /\ up = TRUE /\ crashes = 0
  /\ op = [state |-> "accepted", dispatch |-> "queued", attempt |-> 0]
  /\ att = [a \in Attempt |-> "none"]
  /\ job = [phase |-> "preparing_workspace", gen |-> 1, rev |-> 0]
  /\ susp = "none" /\ outbox = "none" /\ call = "none"
  /\ transfer = NoTransfer
  /\ cells = [c \in Cell |-> NoCell]
  /\ auth = NoAuth
  /\ ws = [NoWorker EXCEPT !.id = MaxCrashes + 1, !.alive = TRUE, !.gen = 1]
  /\ handler = [a \in Attempt |-> NoHandler]
  /\ recovery = NoRecovery
  /\ resumed = 0

\* The lease of attempt a is held (_assert_attempt_fence, _validate_fence_unlocked)
Fenced(a) == att[a] = "running" /\ op.attempt = a /\ op.dispatch = "running"

At(a, pc) == up /\ handler[a].pc = pc
Go(a, pc) == handler' = [handler EXCEPT ![a].pc = pc]

CellCount == Cardinality({c \in Cell : cells[c].state # "none"})

\* A lost cell whose planner continuation has not started
AwaitsContinuation ==
  /\ transfer.state \in {"aborted", "fenced_loss"}
  /\ cells[transfer.cell].state = "lost_before_commit"
  /\ CellCount = transfer.cell

-----------------------------------------------------------------------------
(* The backend: one worker process per workspace.  Its lock is held while  *)
(* a cell runs.                                                            *)

Unlocked == ws.running = 0
Available == ws.id # 0 /\ ws.alive /\ ~ws.lost
CheckHandle(gen, rev) == ws.gen = gen /\ ws.rev = rev

\* How a backend call ends when it refuses: a vanished workspace keeps the job resumable
Refusal == IF ws.id = 0 THEN "vanished" ELSE "conflict"

\* Bug: the checkpoint's values are not loaded into the process.
SpawnEmpty(gen, names) ==
  [NoWorker EXCEPT !.id = gen * (MaxCrashes + 1) + crashes, !.alive = TRUE, !.gen = gen]

\* The identity of the process: within a generation only a death leads to another one
Spawn(gen, names) ==
  [NoWorker EXCEPT !.id = gen * (MaxCrashes + 1) + crashes, !.alive = TRUE, !.gen = gen,
                   !.names = names]

\* _mark_lost: the process is terminated and its stack with it
MarkLost(w) == [w EXCEPT !.alive = FALSE, !.lost = TRUE, !.running = 0]

WorkerDies ==
  /\ ws.alive
  /\ crashes < MaxCrashes
  /\ crashes' = crashes + 1
  /\ ws' = [ws EXCEPT !.alive = FALSE]
  /\ UNCHANGED <<budget, late, cancelled, up, store, handler, recovery, resumed>>

-----------------------------------------------------------------------------
(* The dispatcher and the registry around an attempt.                      *)

\* prepare: exactly one pending outbox row, its settlement and its suspended predecessor
Preparable ==
  /\ outbox = "pending"
  /\ job.phase = "accepted"
  /\ susp = "settled"
  /\ ~cancelled
  /\ ~late
  /\ att[auth.attempt] = "suspended_external"

\* claim_next, with _prepare_workbench_successor_unlocked in its transaction
Claim(a) ==
  /\ up
  /\ op.state = "accepted" /\ op.dispatch = "queued"
  /\ a = op.attempt + 1
  /\ a = 1 \/ AwaitsContinuation \/ Preparable
  /\ op' = [state |-> "running", dispatch |-> "running", attempt |-> a]
  /\ att' = [att EXCEPT ![a] = "running"]
  /\ IF a = 1 \/ AwaitsContinuation THEN UNCHANGED <<transfer, outbox>>
     ELSE /\ transfer' = [state |-> "prepared", prior |-> auth.attempt, successor |-> a,
                          generation |-> auth.generation, worker |-> auth.worker,
                          cell |-> auth.cell, gen |-> job.gen, rev |-> job.rev]
          /\ outbox' = "prepared"
  /\ Go(a, "begin")
  /\ UNCHANGED <<weather, job, susp, call, cells, auth, ws, recovery, resumed>>

\* Bug: a lapsed attempt is given a state the registry does not know.
LapseUnknown(a) ==
  /\ op' = [op EXCEPT !.state = "indeterminate"]
  /\ att' = [att EXCEPT ![a] = "lost"]

\* The dispatch row stays as it is: recovery must decide.
Lapse(a) ==
  /\ op' = [op EXCEPT !.state = "indeterminate"]
  /\ att' = [att EXCEPT ![a] = "indeterminate"]

\* The lease expires and the attempt is reaped; its handler thread runs on.
LoseLease(a) ==
  /\ up
  /\ Fenced(a)
  /\ Lapse(a)
  /\ UNCHANGED <<weather, job, susp, outbox, call, transfer, cells, auth, ws, handler, recovery,
                 resumed>>

HostDies ==
  /\ up
  /\ crashes < MaxCrashes
  /\ up' = FALSE
  /\ crashes' = crashes + 1
  /\ ws' = NoWorker
  /\ handler' = [a \in Attempt |-> NoHandler]
  /\ recovery' = NoRecovery
  /\ UNCHANGED <<budget, late, cancelled, store, resumed>>

HostStarts ==
  /\ ~up
  /\ up' = TRUE
  /\ IF op.state = "running" THEN Lapse(op.attempt) ELSE UNCHANGED <<op, att>>
  /\ UNCHANGED <<budget, late, cancelled, crashes, job, susp, outbox, call, transfer, cells, auth,
                 ws, handler, recovery, resumed>>

\* schedule_pending_successors and the settlement's own notification
Schedule ==
  /\ up
  /\ outbox = "pending"
  /\ op.state = "accepted" /\ op.dispatch = "parked"
  /\ op' = [op EXCEPT !.dispatch = "queued"]
  /\ UNCHANGED <<weather, att, job, susp, outbox, call, transfer, cells, auth, ws, handler,
                 recovery, resumed>>

\* The caller's settlement (module CallerWork)
Settle ==
  /\ up
  /\ susp = "pending" /\ job.phase = "waiting_external" /\ ~late
  /\ susp' = "settled"
  /\ outbox' = "pending"
  /\ job' = [job EXCEPT !.phase = "accepted"]
  /\ UNCHANGED <<weather, op, att, call, transfer, cells, auth, ws, handler, recovery, resumed>>

\* The deadline sweep of a suspension nobody settled
Expire ==
  /\ up
  /\ susp = "pending" /\ late
  /\ susp' = "parked"
  /\ job' = [job EXCEPT !.phase = "timed_out"]
  /\ op' = [op EXCEPT !.state = "timed_out", !.dispatch = "completed"]
  /\ UNCHANGED <<weather, att, outbox, call, transfer, cells, auth, ws, handler, recovery, resumed>>

Passes ==
  /\ late = FALSE
  /\ late' = TRUE
  /\ UNCHANGED <<budget, cancelled, up, crashes, store, ws, handler, recovery, resumed>>

\* request_cancel of a running operation leaves only the intent
Cancel ==
  /\ up
  /\ ~cancelled
  /\ op.state = "running"
  /\ cancelled' = TRUE
  /\ UNCHANGED <<budget, late, up, crashes, store, ws, handler, recovery, resumed>>

-----------------------------------------------------------------------------
(* The handler of an attempt, up to the planner loop.                      *)

\* prepared_workbench_rebind: the transfer this attempt is the successor of
Token(a) ==
  /\ transfer.successor = a
  /\ \/ transfer.state = "prepared" /\ cells[transfer.cell].state = "suspended"
     \/ transfer.state \in {"committed", "worker_ack"} /\ cells[transfer.cell].state = "running"

\* _begin_running, when there is no token: a passed deadline is a conflict here, and the
\* cancellation it reads is the job's mirror, which the cancel request does not write
Begin(a) ==
  /\ At(a, "begin")
  /\ IF ~Fenced(a) THEN Go(a, "conflict") /\ UNCHANGED job
     ELSE IF Token(a)
     THEN /\ handler' = [handler EXCEPT ![a] = [pc |-> "reconcile", cell |-> transfer.cell,
                                               gen |-> job.gen, rev |-> job.rev]]
          /\ UNCHANGED job
     ELSE IF late \/ job.phase \notin {"preparing_workspace", "running"}
     THEN Go(a, "conflict") /\ UNCHANGED job
     ELSE /\ job' = [job EXCEPT !.phase = "running"]
          /\ Go(a, "recover")
  /\ UNCHANGED <<weather, op, att, susp, outbox, call, transfer, cells, auth, ws, recovery, resumed>>

\* _settled_broker_receipt_payload: what the settled ticket says to the journalled call
SettledReceipt == susp = "settled" /\ call = "started"

\* reconcile_rebind_commit: an applied commit is not delivered again.  The time that is left
\* is read before the worker's lock is waited for: who waited may go on after the deadline.
Reconcile(a) ==
  /\ At(a, "reconcile")
  /\ \/ late /\ Go(a, "expire")
     \/ /\ Unlocked
        /\ LET h == handler[a] IN
           Go(a, IF ~SettledReceipt THEN "conflict"
                 ELSE IF ~Available \/ ws.gen # h.gen THEN Refusal
                 ELSE IF ws.id # transfer.worker THEN "conflict"
                 ELSE IF ws.receipt = h.cell
                      THEN IF ws.rev = h.rev + 1 THEN "commit" ELSE "conflict"
                 ELSE IF ws.rev = h.rev THEN "prepare" ELSE "conflict")
  /\ UNCHANGED <<weather, store, ws, recovery, resumed>>

\* Bug: the commit is delivered to the worker before the transfer is committed.
PrepareDelivers(a) ==
  /\ At(a, "prepare")
  /\ Unlocked
  /\ LET h == handler[a] IN
     IF Available /\ CheckHandle(h.gen, h.rev) /\ ws.stack = h.cell
     THEN ws' = [ws EXCEPT !.prepared = a] /\ Go(a, "resume")
     ELSE Go(a, Refusal) /\ UNCHANGED ws
  /\ UNCHANGED <<weather, store, recovery, resumed>>

\* send_rebind_prepare: the blocked broker call of the worker keeps the token
Prepare(a) ==
  /\ At(a, "prepare")
  /\ Unlocked
  /\ LET h == handler[a] IN
     IF Available /\ CheckHandle(h.gen, h.rev) /\ ws.stack = h.cell
     THEN ws' = [ws EXCEPT !.prepared = a] /\ Go(a, "commit")
     ELSE Go(a, Refusal) /\ UNCHANGED ws
  /\ UNCHANGED <<weather, store, recovery, resumed>>

\* The transfer as it was prepared: what commit_workbench_rebind compares before it writes
Committable(a) ==
  /\ Fenced(a)
  /\ transfer.state = "prepared" /\ transfer.successor = a
  /\ outbox = "prepared" /\ susp = "settled"
  /\ job.phase = "accepted" /\ ~cancelled /\ ~late
  /\ cells[transfer.cell].state = "suspended"
  /\ auth.attempt = transfer.prior /\ auth.generation = transfer.generation
  /\ auth.cell = transfer.cell

\* A replay of a commit whose answer was lost
Replayed(a) ==
  /\ Fenced(a)
  /\ transfer.state \in {"committed", "worker_ack"} /\ transfer.successor = a
  /\ job.phase = "running" /\ ~cancelled
  /\ auth.attempt = a

\* commit_workbench_rebind
CommitRebind(a) ==
  /\ At(a, "commit")
  /\ IF Committable(a)
     THEN /\ auth' = [auth EXCEPT !.attempt = a, !.generation = @ + 1, !.token = TRUE]
          /\ cells' = [cells EXCEPT ![transfer.cell].state = "running",
                                   ![transfer.cell].attempt = a]
          /\ job' = [job EXCEPT !.phase = "running"]
          /\ transfer' = [transfer EXCEPT !.state = "committed"]
          /\ outbox' = "consumed"
     ELSE UNCHANGED <<auth, cells, job, transfer, outbox>>
  /\ Go(a, IF ~Committable(a) /\ ~Replayed(a) THEN "conflict"
           ELSE IF ws.receipt = handler[a].cell THEN "ack" ELSE "resume")
  /\ UNCHANGED <<weather, op, att, susp, call, ws, recovery, resumed>>

\* The worker's broker call returns only to the successor whose token it was given
WorkerAccepts(a) == ws.prepared = a

\* resume_rebind_commit takes the worker's lock; the stack runs on
Resume(a) ==
  /\ At(a, "resume")
  /\ Unlocked
  /\ LET h == handler[a] IN
     IF Available /\ CheckHandle(h.gen, h.rev) /\ ws.stack = h.cell
     THEN /\ ws' = [ws EXCEPT !.running = a]
          /\ resumed' = IF WorkerAccepts(a) THEN resumed + 1 ELSE resumed
          /\ Go(a, "rerun")
     ELSE Go(a, Refusal) /\ UNCHANGED <<ws, resumed>>
  /\ UNCHANGED <<weather, store, recovery>>

\* The acknowledgement and the result are read: revision, receipt and lock in one step
ResumeReturns(a) ==
  /\ At(a, "rerun")
  /\ ws.alive
  /\ WorkerAccepts(a)
  /\ \E ok \in BOOLEAN : Go(a, IF ok THEN "ack" ELSE "failed")
  /\ ws' = [ws EXCEPT !.running = 0, !.stack = 0, !.rev = @ + 1, !.receipt = handler[a].cell]
  /\ UNCHANGED <<weather, store, recovery, resumed>>

\* A timeout, a lost worker or a protocol error: the revision does not move
ResumeLost(a) ==
  /\ At(a, "rerun")
  /\ ws' = MarkLost(ws)
  /\ Go(a, "conflict")
  /\ UNCHANGED <<weather, store, recovery, resumed>>

\* acknowledge_workbench_rebind; a cell that failed is acknowledged all the same
Acknowledge(a) ==
  /\ handler[a].pc \in {"ack", "failed"}
  /\ up
  /\ LET ok == Fenced(a) /\ transfer.successor = a /\ auth.attempt = a
               /\ transfer.state \in {"committed", "worker_ack"}
     IN /\ transfer' = IF ok THEN [transfer EXCEPT !.state = "worker_ack"] ELSE transfer
        /\ Go(a, IF ok /\ handler[a].pc = "ack" THEN "settle" ELSE "conflict")
  /\ UNCHANGED <<weather, op, att, job, susp, outbox, call, cells, auth, ws, recovery, resumed>>

\* The post-cell checkpoint is read from the worker, then the cell is committed with its
\* broker call, its artifact stage and the workspace revision.
Checkpointable(h) == Available /\ CheckHandle(h.gen, h.rev + 1)

CommitCell(c) ==
  /\ cells' = [cells EXCEPT ![c].state = "committed",
                           ![c].stage = IF @ = "staged" THEN "committed" ELSE @]
  /\ job' = [job EXCEPT !.rev = handler[cells[c].attempt].rev + 1]

SettleCell(a) ==
  /\ At(a, "settle")
  /\ Unlocked
  /\ LET h == handler[a]
         ok == Checkpointable(h) /\ Fenced(a) /\ job.phase = "running" /\ call = "started"
               /\ cells[h.cell].state = "running" /\ cells[h.cell].attempt = a
               /\ auth.attempt = a /\ auth.token
     IN IF ok THEN CommitCell(h.cell) /\ call' = "succeeded" /\ Go(a, "recover")
        ELSE Go(a, IF Checkpointable(h) THEN "conflict" ELSE Refusal) /\ UNCHANGED <<cells, job, call>>
  /\ UNCHANGED <<weather, op, att, susp, outbox, transfer, auth, ws, recovery, resumed>>

\* Bug: the recovery authority is bound without the attempt's fence.
BindableUnfenced(a) ==
  /\ auth.attempt # a
  /\ auth.generation = transfer.generation + (IF transfer.state = "fenced_loss" THEN 1 ELSE 0)

\* _prepare_recovery_continuation, with bind_workbench_recovery_authority
Bindable(a) ==
  /\ Fenced(a)
  /\ auth.attempt # a
  /\ auth.generation = transfer.generation + (IF transfer.state = "fenced_loss" THEN 1 ELSE 0)

Continue(a) ==
  /\ At(a, "recover")
  /\ Unlocked
  /\ LET bound == Available /\ CheckHandle(job.gen, job.rev) IN
     IF late THEN Go(a, "expire") /\ UNCHANGED auth
     ELSE IF ~AwaitsContinuation THEN Go(a, "plan") /\ UNCHANGED auth
     ELSE IF ~bound \/ ~Bindable(a)
     THEN Go(a, IF bound THEN "conflict" ELSE Refusal) /\ UNCHANGED auth
     ELSE /\ auth' = [auth EXCEPT !.attempt = a, !.generation = @ + 1, !.worker = ws.id,
                                 !.token = FALSE]
          /\ Go(a, IF CellCount >= budget THEN "exhausted" ELSE "start")
  /\ UNCHANGED <<weather, op, att, job, susp, outbox, call, transfer, cells, ws, recovery, resumed>>

-----------------------------------------------------------------------------
(* The planner loop: a cell, an end, or nothing.                           *)

\* The planner (or the recovery planner) must still have a call and time to make it.
Plan(a) ==
  /\ At(a, "plan")
  /\ IF late THEN Go(a, "expire")
     ELSE IF CellCount >= budget THEN Go(a, "exhausted")
     ELSE \E next \in {"start", "finalize", "conflict"} : Go(a, next)
  /\ UNCHANGED <<weather, store, ws, recovery, resumed>>

\* _execute_cell: the pre-cell checkpoint, then the cell and its authority in one transaction
Start(a) ==
  /\ At(a, "start")
  /\ Unlocked
  /\ LET c == CellCount + 1
         bound == Available /\ CheckHandle(job.gen, job.rev) /\ ws.stack = 0
         own == Fenced(a) /\ (auth.attempt \in {0, a})
     IN IF late THEN Go(a, "expire") /\ UNCHANGED <<cells, auth>>
        ELSE IF c > MaxCells \/ ~bound \/ ~own
        THEN /\ Go(a, IF c > MaxCells \/ bound THEN "conflict" ELSE Refusal)
             /\ UNCHANGED <<cells, auth>>
        ELSE /\ cells' = [cells EXCEPT ![c] = [NoCell EXCEPT !.state = "running", !.attempt = a,
                                              !.gen = job.gen, !.rev = job.rev, !.pre = ws.names]]
             /\ auth' = [auth EXCEPT !.attempt = a, !.generation = IF @ = 0 THEN 1 ELSE @,
                                    !.worker = ws.id, !.cell = c]
             /\ handler' = [handler EXCEPT ![a] = [pc |-> "exec", cell |-> c, gen |-> job.gen,
                                                  rev |-> job.rev]]
  /\ UNCHANGED <<weather, op, att, job, susp, outbox, call, transfer, ws, recovery, resumed>>

\* backend.execute: the code has begun to change the namespace.  Here too the time that is
\* left is read before the lock is waited for.
Execute(a) ==
  /\ At(a, "exec")
  /\ \/ late /\ Go(a, "expire") /\ UNCHANGED ws
     \/ /\ Unlocked
        /\ LET h == handler[a] IN
           IF Available /\ CheckHandle(h.gen, h.rev) /\ ws.stack = 0
           THEN ws' = [ws EXCEPT !.running = a, !.names = @ \cup {h.cell}] /\ Go(a, "run")
           ELSE Go(a, Refusal) /\ UNCHANGED ws
  /\ UNCHANGED <<weather, store, recovery, resumed>>

\* The code ends, well or with an exception
ExecuteReturns(a) ==
  /\ At(a, "run")
  /\ ws.alive
  /\ \E ok \in BOOLEAN : Go(a, IF late THEN "expire" ELSE IF ok THEN "close" ELSE "conflict")
  /\ ws' = [ws EXCEPT !.running = 0, !.rev = @ + 1]
  /\ UNCHANGED <<weather, store, recovery, resumed>>

\* A timeout or a lost worker is a result as well: the revision moves
ExecuteLost(a) ==
  /\ At(a, "run")
  /\ ws' = [MarkLost(ws) EXCEPT !.rev = @ + 1]
  /\ Go(a, IF late THEN "expire" ELSE "conflict")
  /\ UNCHANGED <<weather, store, recovery, resumed>>

\* The active cell of a handler hands an artifact over, within its budget
Stageable(a) ==
  /\ up
  /\ handler[a].pc \in {"run", "rerun"}
  /\ ws.alive
  /\ cells[handler[a].cell].stage = "none"

\* stage_content asks for no lease, only for the job's generation
StageArtifact(a) ==
  /\ Stageable(a)
  /\ job.gen = handler[a].gen
  /\ cells' = [cells EXCEPT ![handler[a].cell].stage = "staged"]
  /\ UNCHANGED <<weather, op, att, job, susp, outbox, call, transfer, auth, ws, handler, recovery,
                 resumed>>

\* suspend_workbench_attempt
Suspendable(a) ==
  /\ Fenced(a)
  /\ op.state = "running" /\ job.phase = "running"
  /\ ~cancelled /\ ~late
  /\ cells[handler[a].cell].state = "running" /\ cells[handler[a].cell].attempt = a
  /\ auth.attempt = a /\ auth.cell = handler[a].cell

SuspendAttempt(a) ==
  /\ susp' = "pending"
  /\ cells' = [cells EXCEPT ![handler[a].cell].state = "suspended"]
  /\ job' = [job EXCEPT !.phase = "waiting_external"]
  /\ att' = [att EXCEPT ![a] = "suspended_external"]
  /\ op' = [op EXCEPT !.state = "accepted", !.dispatch = "parked"]

\* WorkspaceBrokerSession.handle_frame: the intent is journalled before it is dispatched, and
\* a later request of the operation conflicts with the row of the first one
JournalCall == call = "none" /\ call' = "started"

\* handle_broker_request.  A request that is refused is an error in the cell, which goes on.
Suspend(a) ==
  /\ At(a, "run")
  /\ ws.alive
  /\ JournalCall
  /\ IF Suspendable(a)
     THEN /\ SuspendAttempt(a)
          /\ ws' = [ws EXCEPT !.running = 0, !.stack = handler[a].cell]
          /\ Go(a, "none")
     ELSE UNCHANGED <<susp, cells, job, att, op, ws, handler>>
  /\ UNCHANGED <<weather, outbox, transfer, auth, recovery, resumed>>

\* The commit of a cell that ran through
Close(a) ==
  /\ At(a, "close")
  /\ Unlocked
  /\ LET h == handler[a]
         ok == Checkpointable(h) /\ ~late /\ Fenced(a) /\ job.phase = "running"
               /\ cells[h.cell].state = "running"
     IN IF ok THEN CommitCell(h.cell) /\ Go(a, "plan")
        ELSE /\ Go(a, IF ~Checkpointable(h) THEN Refusal ELSE IF late THEN "expire" ELSE "conflict")
             /\ UNCHANGED <<cells, job>>
  /\ UNCHANGED <<weather, op, att, susp, outbox, call, transfer, auth, ws, recovery, resumed>>

\* _finalize enters its phase, then publishes the named stages with the result.  The planner
\* names the stages of committed cells.
Finalize(a) ==
  /\ At(a, "finalize")
  /\ IF Fenced(a) /\ susp # "pending" /\ job.phase = "running"
     THEN job' = [job EXCEPT !.phase = "finalizing"] /\ Go(a, "publish")
     ELSE Go(a, "conflict") /\ UNCHANGED job
  /\ UNCHANGED <<weather, op, att, susp, outbox, call, transfer, cells, auth, ws, recovery, resumed>>

Publish(a) ==
  /\ At(a, "publish")
  /\ IF Fenced(a) /\ ~late /\ job.phase = "finalizing"
     THEN /\ job' = [job EXCEPT !.phase = "succeeded"]
          /\ cells' = [c \in Cell |-> IF cells[c].stage = "committed"
                                     THEN [cells[c] EXCEPT !.stage = "published"] ELSE cells[c]]
          /\ Go(a, "done")
     ELSE Go(a, IF late THEN "expire" ELSE "conflict") /\ UNCHANGED <<job, cells>>
  /\ UNCHANGED <<weather, op, att, susp, outbox, call, transfer, auth, ws, recovery, resumed>>

-----------------------------------------------------------------------------
(* How a handler fails (ReferenceHost.mark_dispatch_failure_for_kind).     *)

\* park_claimed: not for a workspace that vanished, so that its job stays resumable
ParkJob(a) ==
  /\ At(a, "conflict")
  /\ job' = IF Fenced(a) /\ job.phase \notin Terminal \cup {"parked"}
            THEN [job EXCEPT !.phase = "parked"] ELSE job
  /\ Go(a, "park")
  /\ UNCHANGED <<weather, op, att, susp, outbox, call, transfer, cells, auth, ws, recovery, resumed>>

\* park_attempt
ParkAttempt(a) ==
  /\ handler[a].pc \in {"park", "vanished"}
  /\ up
  /\ IF Fenced(a)
     THEN /\ op' = [op EXCEPT !.state = "indeterminate", !.dispatch = "parked"]
          /\ att' = [att EXCEPT ![a] = "indeterminate"]
     ELSE UNCHANGED <<op, att>>
  /\ Go(a, "none")
  /\ UNCHANGED <<weather, job, susp, outbox, call, transfer, cells, auth, ws, recovery, resumed>>

\* What the deadline leaves of an open cell and of an open suspension
Dropped(cell) == IF cell.state = "running" THEN [cell EXCEPT !.state = "lost_before_commit"] ELSE cell
ParkSuspension == susp' = IF susp = "pending" THEN "parked" ELSE susp

\* mark_deadline_terminal, which asks for no lease: a cell of another attempt is lost as well
MarkDeadline(a) ==
  /\ At(a, "expire")
  /\ LET open == job.phase \notin Terminal \cup {"parked"} /\ ~cancelled IN
     /\ IF open
        THEN /\ job' = [job EXCEPT !.phase = "timed_out"]
             /\ cells' = [c \in Cell |-> Dropped(cells[c])]
             /\ ParkSuspension
        ELSE UNCHANGED <<job, cells, susp>>
     /\ Go(a, IF open \/ job.phase = "timed_out" THEN "expired" ELSE "park")
  /\ UNCHANGED <<weather, op, att, outbox, call, transfer, auth, ws, recovery, resumed>>

\* mark_model_call_budget_terminal
MarkExhausted(a) ==
  /\ At(a, "exhausted")
  /\ LET ok == Fenced(a) /\ job.phase = "running" /\ ~cancelled
     IN /\ job' = IF ok THEN [job EXCEPT !.phase = "failed"] ELSE job
        /\ Go(a, IF ok THEN "spent" ELSE "park")
  /\ UNCHANGED <<weather, op, att, susp, outbox, call, transfer, cells, auth, ws, recovery, resumed>>

Outcome(pc) == CASE pc = "done" -> "succeeded" [] pc = "spent" -> "failed" [] OTHER -> "timed_out"

\* transition_claimed with the outcome of the inner job
Finish(a) ==
  /\ handler[a].pc \in {"done", "spent", "expired"}
  /\ up
  /\ IF Fenced(a)
     THEN /\ op' = [op EXCEPT !.state = Outcome(handler[a].pc), !.dispatch = "completed"]
          /\ att' = [att EXCEPT ![a] = Outcome(handler[a].pc)]
     ELSE UNCHANGED <<op, att>>
  /\ Go(a, "none")
  /\ UNCHANGED <<weather, job, susp, outbox, call, transfer, cells, auth, ws, recovery, resumed>>

-----------------------------------------------------------------------------
(* Recovery: recover_indeterminate restores the pre-cell checkpoint, marks *)
(* the cell lost and queues a successor, each in its own step.             *)

\* The transfer recover_indeterminate selects
Recoverable ==
  /\ op.state = "indeterminate"
  /\ \/ transfer.state \in {"prepared", "committed"}
          /\ cells[transfer.cell].state \in {"running", "suspended"}
     \/ transfer.state \in {"fenced_loss", "aborted"}
          /\ cells[transfer.cell].state = "lost_before_commit"

\* Where restore may put the checkpoint of a cell of generation gen and revision rev: nowhere,
\* over a worker of the next generation nothing ran in, or over the cell's own worker
Replaces(gen, rev) ==
  \/ ws.id = 0
  \/ ws.gen = gen + 1 /\ ws.rev = 0 /\ ~Available
  \/ ws.gen = gen /\ ws.rev = rev + (IF ws.lost THEN 1 ELSE 0)

Reusable(gen, names) == ws.gen = gen + 1 /\ ws.rev = 0 /\ Available /\ ws.names = names

Restore ==
  /\ up
  /\ recovery.pc = "idle"
  /\ Recoverable
  /\ Unlocked
  /\ LET c == cells[transfer.cell] IN
     /\ Replaces(c.gen, c.rev) \/ Reusable(c.gen, c.pre)
     /\ ws' = IF Reusable(c.gen, c.pre) THEN ws ELSE Spawn(c.gen + 1, c.pre)
     /\ recovery' = [pc |-> "restored", gen |-> c.gen + 1]
  /\ UNCHANGED <<weather, store, handler, resumed>>

\* mark_workbench_rebind_worker_lost
Markable ==
  /\ op.state = "indeterminate"
  /\ job.phase \in {"accepted", "running"}
  /\ \/ /\ transfer.state \in {"prepared", "committed"}
        /\ att[transfer.successor] = "indeterminate"
        /\ auth.attempt = (IF transfer.state = "committed" THEN transfer.successor ELSE transfer.prior)
        /\ auth.cell = transfer.cell
        /\ recovery.gen = job.gen + 1
     \/ /\ transfer.state \in {"aborted", "fenced_loss"}
        /\ job.gen = recovery.gen /\ job.rev = 0

MarkWorkerLost ==
  /\ up
  /\ recovery.pc = "restored"
  /\ IF Markable
     THEN /\ transfer' = [transfer EXCEPT !.state = IF @ = "committed" THEN "fenced_loss"
                                                   ELSE IF @ = "prepared" THEN "aborted" ELSE @]
          /\ outbox' = "consumed"
          /\ cells' = [cells EXCEPT ![transfer.cell].state = "lost_before_commit"]
          /\ job' = [phase |-> "running", gen |-> recovery.gen, rev |-> 0]
          /\ recovery' = [recovery EXCEPT !.pc = "marked"]
     ELSE recovery' = NoRecovery /\ UNCHANGED <<transfer, outbox, cells, job>>
  /\ UNCHANGED <<weather, op, att, susp, call, auth, ws, handler, resumed>>

\* requeue_indeterminate
Requeue ==
  /\ up
  /\ recovery.pc = "marked"
  /\ op' = IF op.state = "indeterminate" THEN [op EXCEPT !.state = "accepted", !.dispatch = "queued"]
           ELSE op
  /\ recovery' = NoRecovery
  /\ UNCHANGED <<weather, att, job, susp, outbox, call, transfer, cells, auth, ws, handler, resumed>>

-----------------------------------------------------------------------------
Environment == WorkerDies \/ HostDies \/ HostStarts \/ Settle \/ Expire \/ Passes \/ Cancel
Rebinding(a) ==
  \/ Begin(a) \/ Reconcile(a) \/ Prepare(a) \/ CommitRebind(a) \/ Resume(a) \/ ResumeReturns(a)
  \/ ResumeLost(a) \/ Acknowledge(a) \/ SettleCell(a) \/ Continue(a)
Planning(a) ==
  \/ Plan(a) \/ Start(a) \/ Execute(a) \/ ExecuteReturns(a) \/ ExecuteLost(a) \/ StageArtifact(a)
  \/ Suspend(a) \/ Close(a) \/ Finalize(a) \/ Publish(a)
Failing(a) ==
  \/ ParkJob(a) \/ ParkAttempt(a) \/ MarkDeadline(a) \/ MarkExhausted(a) \/ Finish(a)
Recovery == Restore \/ MarkWorkerLost \/ Requeue \/ Schedule

Next ==
  \/ Environment \/ Recovery
  \/ \E a \in Attempt : Claim(a) \/ LoseLease(a) \/ Rebinding(a) \/ Planning(a) \/ Failing(a)

Spec == Init /\ [][Next]_vars

-----------------------------------------------------------------------------
(* Properties.                                                             *)

Committed == {c \in Cell : cells[c].state = "committed"}

\* The receipt of a settled call is delivered to the suspended stack at most once, never under
\* a transfer that was withdrawn, and never again by a live process once the cell was given up:
\* the caller's answer is not consumed twice when a lease, a worker or the host is lost.
OneResumption ==
  /\ resumed <= 1
  /\ resumed = 1 => transfer.state \notin {"none", "prepared", "aborted"}
  /\ transfer.state \in {"aborted", "fenced_loss"} =>
       ~(ws.alive /\ (ws.stack = transfer.cell \/ ws.receipt = transfer.cell))

\* When the job's recorded workspace boundary is a live worker's own and no cell is open, the
\* worker's namespace holds the effects of the committed cells and of no other, and only their
\* artifacts are visible: a cell given up leaves nothing behind, even when a handler without a
\* lease ran it on, and a committed cell is not undone by a restore.
WorkspaceMatchesJournal ==
  /\ (/\ Available /\ Unlocked /\ recovery.pc = "idle"
      /\ CheckHandle(job.gen, job.rev)
      /\ \A c \in Cell : cells[c].state \notin {"running", "suspended"})
     => ws.names = Committed
  /\ \A c \in Cell : cells[c].stage \in {"committed", "published"} => c \in Committed

\* The right to change the workspace passes to another attempt only when its holder no longer
\* runs, with a higher generation, and to the attempt that holds the lease.
AuthorityMovesOn ==
  [][auth'.attempt # auth.attempt =>
       /\ auth'.generation = auth.generation + 1
       /\ auth.attempt # 0 => att[auth.attempt] \in {"suspended_external", "indeterminate"}
       /\ att[auth'.attempt] = "running"]_vars
=============================================================================
