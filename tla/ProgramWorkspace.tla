-------------------------- MODULE ProgramWorkspace --------------------------
(***************************************************************************)
(* Workspaces: Python namespaces that live in a worker process (ipython) or *)
(* in the host (plain), addressed by a handle <<generation, revision>>.    *)
(* A session client works on one directly through the MCP tools while a    *)
(* durable program, submitted for one exact handle, is claimed and run by  *)
(* the dispatcher.  A program declared replay-safe whose attempt is lost   *)
(* is run again, once, from the checkpoint of its handle restored into the *)
(* next generation.  (runtime/reference_host.py, runtime/registry.py,      *)
(* runtime/continuity.py, runtime/ipython_backend.py, runtime/programming  *)
(* .py, the aar_program_workspace_* tools of mcp/server.py.)               *)
(*                                                                         *)
(* The mutation workspace of runtime/workspace.py, which commits a change  *)
(* and its receipt in one database transaction, is the last section.       *)
(***************************************************************************)
EXTENDS Integers, Sequences, FiniteSets

CONSTANTS
  MaxSuccessors,   \* workspace_checkpoint_boundary_policy.max_successor_attempts
  MaxTools,        \* bound: executions, restores and creations by the client
  MaxCheckpoints,  \* bound: checkpoints the client takes
  MaxCrashes       \* bound: deaths of the host process and of workers

ASSUME WorkspaceAssumption ==
  {MaxSuccessors, MaxTools, MaxCheckpoints, MaxCrashes} \subseteq Nat

VARIABLES
  backend,    \* the kind of workspace in use
  safe,       \* spec.checkpoint_replay_safe
  late, cancelled, up, crashes, tools,
  ws,         \* the backend's state of this workspace, and its process
  catalog,    \* workspace_checkpoint_catalog, in order of creation
  capture,    \* a checkpoint taken by the client and not published yet
  op,         \* the program: operation and dispatch rows, attempts, payload
  att,        \* operation_attempts.state; a running attempt holds its lease
  policy,     \* a row of operation_recovery_policies
  binding,    \* the submitter is between accept and bind_recovery_policy
  selection,  \* operation_workspace_checkpoint_selections, by prior attempt
  boundary,   \* operation_workspace_boundaries, by prior attempt
  decisions,  \* operation_recovery_decisions, by prior attempt
  receipt,    \* the backend's receipt of the program (_receipts)
  handler,    \* the handler thread of each attempt
  recovery,   \* the pass of recover_durable_workspaces
  runs,       \* the namespace each attempt started from
  renewed,    \* a workspace of that name was built anew after a restart
  mutation    \* the mutation workspace, its operation and its receipt

registry == <<catalog, op, att, policy, selection, boundary, decisions>>
weather == <<backend, safe, late, cancelled, up, crashes, tools, renewed>>
vars == <<weather, ws, capture, registry, binding, receipt, handler, recovery, runs, mutation>>

Attempt == 1..(MaxSuccessors + 1)
Terminal == {"succeeded", "failed", "timed_out", "cancelled"}

\* Namespaces are told apart by how many executions of whom they hold, and by whether values
\* were left out on the way through a checkpoint
Empty == [self |-> 0, other |-> 0, cut |-> FALSE]

NoWorker == [present |-> FALSE, alive |-> FALSE, lost |-> FALSE, closed |-> FALSE,
             gen |-> 0, rev |-> 0, ns |-> Empty, running |-> "none", stop |-> FALSE]
NoManifest == [id |-> 0, gen |-> 0, rev |-> 0, ns |-> Empty, partial |-> FALSE]
NoHandler == [pc |-> "none", gen |-> 0, rev |-> 0, status |-> "none"]
NoReceipt == [status |-> "none", lost |-> FALSE, gen |-> 0, rev |-> 0]

\* _spawn: a process of that generation with the values of a manifest
Worker(gen, ns) == [NoWorker EXCEPT !.present = TRUE, !.alive = TRUE, !.gen = gen, !.ns = ns]

Init ==
  /\ backend \in {"ipython", "plain", "deterministic"} /\ safe \in BOOLEAN
  /\ late = FALSE /\ cancelled = FALSE /\ up = TRUE /\ crashes = 0 /\ tools = 0 /\ renewed = FALSE
  /\ ws = IF backend = "deterministic" THEN NoWorker ELSE Worker(1, Empty)
  /\ catalog = <<>> /\ capture = NoManifest
  /\ op = [state |-> "none", dispatch |-> "none", attempt |-> 0, gen |-> 0, rev |-> 0, ns |-> Empty]
  /\ att = [a \in Attempt |-> "none"]
  /\ policy = FALSE /\ binding = FALSE
  /\ selection = [a \in Attempt |-> [state |-> "none", id |-> 0, gen |-> 0]]
  /\ boundary = [a \in Attempt |-> 0]
  /\ decisions = [a \in Attempt |-> "none"]
  /\ receipt = NoReceipt
  /\ handler = [a \in Attempt |-> NoHandler]
  /\ recovery = [pc |-> "idle", gen |-> 0]
  /\ runs = [a \in Attempt |-> {}]
  /\ mutation = [state |-> "none", applied |-> 0, receipt |-> FALSE]

-----------------------------------------------------------------------------
(* The backends.  The lock of a workspace is held while a program runs.    *)

Unlocked == ws.running = "none"
CheckHandle(gen, rev) == ws.present /\ ws.gen = gen /\ ws.rev = rev
Available == ws.present /\ ws.alive /\ ~ws.lost /\ ~ws.closed
Attachable(gen, rev) == CheckHandle(gen, rev) /\ Available

Grown(ns, o) == IF o = "self" THEN [ns EXCEPT !.self = @ + 1] ELSE [ns EXCEPT !.other = @ + 1]

\* The namespace and the revision after a program of owner o has ended in the live process
Ran(o) ==
  [ws EXCEPT !.rev = @ + 1, !.running = "none", !.stop = FALSE, !.ns = Grown(ws.ns, o)]

\* _mark_lost, _lost_result: the process is terminated, the revision counts the lost execution
Lost == [ws EXCEPT !.alive = FALSE, !.lost = TRUE, !.rev = @ + 1, !.running = "none", !.stop = FALSE]

\* The statuses of an execution whose answer is read (its process may have died since), or that
\* is lost with its process
LiveStatuses ==
  IF backend = "plain"
  THEN IF ws.stop THEN {"interrupted", "succeeded", "failed"} ELSE {"succeeded", "failed", "timed_out"}
  ELSE {"succeeded", "failed"}
LostStatuses ==
  IF backend = "plain" THEN {}
  ELSE IF ws.stop THEN {"interrupted"}
  ELSE IF ws.alive THEN {"timed_out", "failed"} ELSE {"failed"}

\* A checkpoint of the live namespace; values that are not portable or beyond the limits are left out
Manifest(partial) ==
  [id |-> Len(catalog) + 1, gen |-> ws.gen, rev |-> ws.rev,
   ns |-> [ws.ns EXCEPT !.cut = @ \/ partial], partial |-> partial]

\* interrupt: the worker process is terminated, the plain backend's thread is asked to stop
Stopped == [ws EXCEPT !.stop = TRUE, !.alive = backend = "plain"]

\* close: the process is asked to end, then terminated
Closed == [ws EXCEPT !.closed = TRUE, !.alive = FALSE]

\* A process dies on its own; only a worker process can
WorkerDies ==
  /\ up /\ backend = "ipython" /\ ws.alive /\ crashes < MaxCrashes
  /\ crashes' = crashes + 1
  /\ ws' = [ws EXCEPT !.alive = FALSE]
  /\ UNCHANGED <<backend, safe, late, cancelled, up, tools, renewed, capture, registry, binding,
                 receipt, handler, recovery, runs, mutation>>

\* health notes an exited process
Health ==
  /\ up /\ ws.present /\ ~ws.alive /\ ~ws.closed /\ ~ws.lost
  /\ ws' = [ws EXCEPT !.lost = TRUE]
  /\ UNCHANGED <<weather, capture, registry, binding, receipt, handler, recovery, runs, mutation>>

-----------------------------------------------------------------------------
(* The session client's tools                                              *)

Uses ==
  /\ up /\ tools < MaxTools
  /\ tools' = tools + 1
  /\ UNCHANGED <<backend, safe, late, cancelled, up, crashes>>

\* create finds no state after a restart and starts again at generation 1
Create ==
  /\ Uses /\ ~ws.present /\ backend # "deterministic"
  /\ ws' = Worker(1, Empty)
  /\ renewed' = TRUE
  /\ UNCHANGED <<capture, registry, binding, receipt, handler, recovery, runs, mutation>>

ExecuteTool ==
  /\ Uses /\ Available /\ Unlocked
  /\ ws' = [ws EXCEPT !.running = "other"]
  /\ UNCHANGED <<renewed, capture, registry, binding, receipt, handler, recovery, runs, mutation>>

ExecuteToolEnds ==
  /\ up /\ ws.running = "other"
  /\ \/ ws' = Ran("other")
     \/ LostStatuses # {} /\ ws' = Lost
  /\ UNCHANGED <<weather, capture, registry, binding, receipt, handler, recovery, runs, mutation>>

Interrupt ==
  /\ up /\ ws.running # "none" /\ ws.alive /\ ~ws.stop
  /\ ws' = Stopped
  /\ UNCHANGED <<weather, capture, registry, binding, receipt, handler, recovery, runs, mutation>>

TakeCheckpoint ==
  /\ up /\ Available /\ Unlocked /\ capture = NoManifest /\ Len(catalog) < MaxCheckpoints
  /\ \E partial \in BOOLEAN : capture' = Manifest(partial)
  /\ UNCHANGED <<weather, ws, registry, binding, receipt, handler, recovery, runs, mutation>>

PublishCheckpoint ==
  /\ up /\ capture # NoManifest
  /\ catalog' = Append(catalog, capture)
  /\ capture' = NoManifest
  /\ UNCHANGED <<weather, ws, op, att, policy, selection, boundary, decisions, binding, receipt,
                 handler, recovery, runs, mutation>>

\* restore by the client: into the next generation of an exact handle that no program uses, or
\* into generation 1 of a workspace the backend does not know
RestoreTool ==
  /\ Uses /\ (ws.present => Unlocked)
  /\ \E k \in 1..Len(catalog) :
       ws' = Worker(IF ws.present THEN ws.gen + 1 ELSE 1, catalog[k].ns)
  /\ renewed' = (renewed \/ ~ws.present)
  /\ UNCHANGED <<capture, registry, binding, receipt, handler, recovery, runs, mutation>>

CloseTool ==
  /\ Uses /\ Available /\ Unlocked
  /\ ws' = Closed
  /\ UNCHANGED <<renewed, capture, registry, binding, receipt, handler, recovery, runs, mutation>>

-----------------------------------------------------------------------------
(* The durable program: submission, claim, handler                         *)

\* submit_program_workspace_durable: validated against the live handle, then accepted ...
Submit ==
  /\ up /\ op.state = "none" /\ ~late /\ Available
  /\ op' = [state |-> "accepted", dispatch |-> "queued", attempt |-> 0,
            gen |-> ws.gen, rev |-> ws.rev, ns |-> ws.ns]
  /\ binding' = safe
  /\ UNCHANGED <<weather, ws, catalog, capture, att, policy, selection, boundary, decisions, receipt,
                 handler, recovery, runs, mutation>>

\* ... and bound to its recovery policy in a second transaction
BindPolicy ==
  /\ up /\ binding
  /\ binding' = FALSE /\ policy' = TRUE
  /\ UNCHANGED <<weather, ws, catalog, capture, op, att, selection, boundary, decisions, receipt,
                 handler, recovery, runs, mutation>>

Passes ==
  /\ ~late /\ late' = TRUE
  /\ UNCHANGED <<backend, safe, cancelled, up, crashes, tools, renewed, ws, capture, registry, binding,
                 receipt, handler, recovery, runs, mutation>>

\* cancel: noted for a running program, settled at once for a queued one
Cancel ==
  /\ up /\ op.state \in {"accepted", "running"} /\ ~cancelled
  /\ cancelled' = TRUE
  /\ op' = IF op.dispatch = "queued" THEN [op EXCEPT !.state = "cancelled", !.dispatch = "completed"]
           ELSE op
  /\ UNCHANGED <<backend, safe, late, up, crashes, tools, renewed, ws, catalog, capture, att, policy,
                 selection, boundary, decisions, binding, receipt, handler, recovery, runs, mutation>>

\* claim_next: a successor is claimed only over the boundary of its predecessor
Claimable(a) ==
  /\ op.state = "accepted" /\ op.dispatch = "queued" /\ a = op.attempt + 1
  /\ a > 1 => boundary[a - 1] # 0

Claim(a) ==
  /\ up /\ recovery.pc = "idle" /\ Claimable(a)
  /\ op' = [op EXCEPT !.state = "running", !.dispatch = "running", !.attempt = a]
  /\ att' = [att EXCEPT ![a] = "running"]
  /\ handler' = [handler EXCEPT ![a].pc = "begin"]
  /\ UNCHANGED <<weather, ws, catalog, capture, policy, selection, boundary, decisions, binding,
                 receipt, recovery, runs, mutation>>

Fenced(a) == att[a] = "running" /\ op.attempt = a /\ op.dispatch = "running"

\* transition_claimed and park_attempt, by the holder of the lease
Settle(a, state) ==
  /\ op' = [op EXCEPT !.state = state,
                      !.dispatch = IF state = "indeterminate" THEN "parked" ELSE "completed"]
  /\ att' = [att EXCEPT ![a] = state]

\* The handle the handler works on: the payload's, or the restored one of the last boundary
HandleOf(a) ==
  IF a = 1 THEN [gen |-> op.gen, rev |-> op.rev] ELSE [gen |-> boundary[a - 1], rev |-> 0]

At(a, pc) == up /\ handler[a].pc = pc

Go(a, pc, status) ==
  handler' = [handler EXCEPT ![a] = [pc |-> pc, gen |-> HandleOf(a).gen, rev |-> HandleOf(a).rev,
                                     status |-> status]]

Begin(a) ==
  /\ At(a, "begin")
  /\ \/ op.state # "running" /\ Go(a, "done", "none")
     \/ op.state = "running" /\ late /\ Go(a, "commit", "timed_out")
     \/ op.state = "running" /\ ~late /\ cancelled /\ Go(a, "commit", "interrupted")
     \/ /\ op.state = "running" /\ ~late /\ ~cancelled
        /\ IF Attachable(HandleOf(a).gen, HandleOf(a).rev) THEN Go(a, "execute", "none")
           ELSE Go(a, "park", "none")
  /\ UNCHANGED <<weather, ws, capture, registry, binding, receipt, recovery, runs, mutation>>

\* Bug: the handle is checked when the handler attaches and not again under the lock.
ExecuteUnchecked(a) ==
  /\ At(a, "execute")
  /\ receipt = NoReceipt /\ Unlocked /\ Available
  /\ ws' = [ws EXCEPT !.running = "self"]
  /\ runs' = [runs EXCEPT ![a] = @ \cup {ws.ns}]
  /\ handler' = [handler EXCEPT ![a].pc = "run"]
  /\ UNCHANGED <<weather, capture, registry, binding, receipt, recovery, mutation>>

\* execute: a receipt answers its own handle and conflicts with any other; without one the
\* program starts under the lock, on the exact handle
Execute(a) ==
  /\ At(a, "execute")
  /\ \/ /\ receipt # NoReceipt
        /\ IF receipt.gen = handler[a].gen /\ receipt.rev = handler[a].rev
           THEN handler' = [handler EXCEPT ![a].pc = "commit", ![a].status =
                              IF receipt.lost /\ receipt.status = "failed" THEN "lost" ELSE receipt.status]
           ELSE handler' = [handler EXCEPT ![a].pc = "park"]
        /\ UNCHANGED <<ws, runs>>
     \/ /\ receipt = NoReceipt /\ Unlocked
        /\ Attachable(handler[a].gen, handler[a].rev)
        /\ ws' = [ws EXCEPT !.running = "self"]
        /\ runs' = [runs EXCEPT ![a] = @ \cup {ws.ns}]
        /\ handler' = [handler EXCEPT ![a].pc = "run"]
     \/ /\ receipt = NoReceipt /\ (ws.present => Unlocked)
        /\ ~Attachable(handler[a].gen, handler[a].rev)
        /\ handler' = [handler EXCEPT ![a].pc = "park"]
        /\ UNCHANGED <<ws, runs>>
  /\ UNCHANGED <<weather, capture, registry, binding, receipt, recovery, mutation>>

Issue(a, status, lost) ==
  receipt' = [status |-> status, lost |-> lost, gen |-> handler[a].gen, rev |-> handler[a].rev]

RunEnds(a) ==
  /\ At(a, "run") /\ ws.running = "self"
  /\ \/ \E status \in LiveStatuses :
          /\ ws' = Ran("self") /\ Issue(a, status, FALSE)
          /\ handler' = [handler EXCEPT ![a].pc = "commit", ![a].status = status]
     \/ \E status \in LostStatuses :
          /\ ws' = Lost /\ Issue(a, status, TRUE)
          /\ handler' = [handler EXCEPT ![a].pc = "commit",
                                        ![a].status = IF status = "failed" THEN "lost" ELSE status]
  /\ UNCHANGED <<weather, capture, registry, binding, recovery, runs, mutation>>

\* How the result of an execution settles the operation
OutcomeOf(status) ==
  CASE status = "interrupted"    -> "cancelled"
    [] status = "lost" /\ safe  -> "indeterminate"
    [] status = "lost" /\ ~safe -> "failed"
    [] OTHER                     -> status

Commit(a) ==
  /\ At(a, "commit")
  /\ IF Fenced(a) THEN Settle(a, OutcomeOf(handler[a].status)) ELSE UNCHANGED <<op, att>>
  /\ handler' = [handler EXCEPT ![a] = [NoHandler EXCEPT !.pc = "done"]]
  /\ UNCHANGED <<weather, ws, catalog, capture, policy, selection, boundary, decisions, binding,
                 receipt, recovery, runs, mutation>>

\* mark_dispatch_failure_for_kind
Park(a) ==
  /\ At(a, "park")
  /\ IF Fenced(a) THEN Settle(a, "indeterminate") ELSE UNCHANGED <<op, att>>
  /\ handler' = [handler EXCEPT ![a] = [NoHandler EXCEPT !.pc = "done"]]
  /\ UNCHANGED <<weather, ws, catalog, capture, policy, selection, boundary, decisions, binding,
                 receipt, recovery, runs, mutation>>

-----------------------------------------------------------------------------
(* The host process, the leases                                            *)

\* fence_expired_attempts, at the head of a recovery pass: the heartbeats stopped
Lapse(a) ==
  /\ up /\ recovery.pc = "idle" /\ Fenced(a)
  /\ op' = [op EXCEPT !.state = "indeterminate"]
  /\ att' = [att EXCEPT ![a] = "indeterminate"]
  /\ UNCHANGED <<weather, ws, catalog, capture, policy, selection, boundary, decisions, binding,
                 receipt, handler, recovery, runs, mutation>>

\* Workers exit with the host; the backend's states and receipts were in its memory
HostDies ==
  /\ up /\ crashes < MaxCrashes
  /\ up' = FALSE /\ crashes' = crashes + 1
  /\ ws' = NoWorker /\ capture' = NoManifest /\ binding' = FALSE /\ receipt' = NoReceipt
  /\ handler' = [a \in Attempt |-> NoHandler]
  /\ recovery' = [pc |-> "idle", gen |-> 0]
  /\ UNCHANGED <<backend, safe, late, cancelled, tools, renewed, registry, runs, mutation>>

HostStarts ==
  /\ ~up /\ up' = TRUE
  /\ op' = IF op.state = "running" THEN [op EXCEPT !.state = "indeterminate"] ELSE op
  /\ att' = [a \in Attempt |-> IF att[a] = "running" THEN "indeterminate" ELSE att[a]]
  /\ mutation' = IF mutation.state = "running" THEN [mutation EXCEPT !.state = "indeterminate"]
                 ELSE mutation
  /\ UNCHANGED <<backend, safe, late, cancelled, crashes, tools, renewed, ws, catalog, capture, policy,
                 selection, boundary, decisions, binding, receipt, handler, recovery, runs>>

-----------------------------------------------------------------------------
(* recover_durable_workspaces                                              *)

Candidate ==
  /\ up /\ op.state = "indeterminate" /\ op.dispatch \in {"running", "parked"}
  /\ decisions[op.attempt] = "none" /\ policy

\* latest_workspace_checkpoint: of the exact generation and revision in the payload
Latest ==
  LET of == {k \in 1..Len(catalog) : catalog[k].gen = op.gen /\ catalog[k].rev = op.rev}
  IN IF of = {} THEN NoManifest ELSE catalog[CHOOSE k \in of : \A j \in of : j <= k]

\* plan_workspace_checkpoint_successor
Restorable == ~cancelled /\ ~late /\ Latest # NoManifest /\ ~Latest.partial

\* requeue_indeterminate without a successor
Refuse(decision) ==
  /\ decisions' = [decisions EXCEPT ![op.attempt] = decision]
  /\ op' = [op EXCEPT !.dispatch = "parked"]

GiveUp ==
  /\ Candidate /\ recovery.pc = "idle" /\ ~Restorable
  /\ Refuse("needs_user")
  /\ UNCHANGED <<weather, ws, catalog, capture, att, policy, selection, boundary, binding, receipt,
                 handler, recovery, runs, mutation>>

\* select_workspace_checkpoint: one choice for each predecessor, repeated by a later pass
Select ==
  /\ Candidate /\ recovery.pc = "idle" /\ Restorable
  /\ LET was == selection[op.attempt] IN
     \/ /\ was.state = "none"
        /\ selection' = [selection EXCEPT ![op.attempt].state = "selected",
                                          ![op.attempt].id = Latest.id]
        /\ recovery' = [pc |-> "restore", gen |-> 0]
     \/ /\ was.state # "none"
        /\ recovery' = [pc |-> IF was.id = Latest.id THEN "restore" ELSE "failed", gen |-> 0]
        /\ UNCHANGED selection
  /\ UNCHANGED <<weather, ws, catalog, capture, op, att, policy, boundary, decisions, binding, receipt,
                 handler, runs, mutation>>

Chosen == catalog[selection[op.attempt].id]

\* What restore asks of a workspace that already is at the recovery generation
Reusable == ~ws.closed /\ ws.rev = 0 /\ (ws.alive /\ ~ws.lost => ws.ns = Chosen.ns)

\* What it asks of one it replaces
Replaceable ==
  IF ws.lost THEN ws.gen = op.gen /\ ws.rev = op.rev + 1 ELSE ws.gen = op.gen /\ ws.rev = op.rev

Install(gen) == ws' = Worker(gen, Chosen.ns) /\ recovery' = [pc |-> "verify", gen |-> gen]

\* restore, with recover_lost_generation: the next generation of the payload's handle
Restore ==
  /\ up /\ recovery.pc = "restore"
  /\ \/ ~ws.present /\ Install(op.gen + 1)
     \/ /\ ws.present /\ ws.gen = op.gen + 1 /\ Unlocked /\ Reusable
        /\ IF ws.alive /\ ~ws.lost THEN UNCHANGED ws /\ recovery' = [pc |-> "verify", gen |-> ws.gen]
           ELSE Install(ws.gen)
     \/ ws.present /\ ws.gen # op.gen + 1 /\ Unlocked /\ Replaceable /\ Install(ws.gen + 1)
     \* an operation conflict is decided, another refusal ends the pass without a decision
     \/ /\ ws.present
        /\ \/ ws.gen = op.gen + 1 /\ Unlocked /\ ~Reusable
           \/ backend = "plain" /\ ~Unlocked
        /\ recovery' = [recovery EXCEPT !.pc = "failed"] /\ UNCHANGED ws
     \/ /\ ws.present /\ ws.gen # op.gen + 1 /\ Unlocked /\ ~Replaceable
        /\ recovery' = [recovery EXCEPT !.pc = "idle"] /\ UNCHANGED ws
  /\ UNCHANGED <<weather, capture, registry, binding, receipt, handler, runs, mutation>>

\* The verification checkpoint of the restored handle must hold the manifest's values
Verify ==
  /\ up /\ recovery.pc = "verify" /\ (ws.present => Unlocked)
  /\ recovery' = [recovery EXCEPT !.pc = IF ~Attachable(recovery.gen, 0) THEN "idle"
                                         ELSE IF ws.ns = Chosen.ns THEN "mark" ELSE "failed"]
  /\ UNCHANGED <<weather, ws, capture, registry, binding, receipt, handler, runs, mutation>>

\* mark_workspace_checkpoint_restored
Mark ==
  /\ up /\ recovery.pc = "mark"
  /\ IF \/ selection[op.attempt].state = "selected"
        \/ selection[op.attempt].gen = recovery.gen
     THEN /\ selection' = [selection EXCEPT ![op.attempt].state = "restored",
                                            ![op.attempt].gen = recovery.gen]
          /\ recovery' = [recovery EXCEPT !.pc = "retire"]
     ELSE recovery' = [recovery EXCEPT !.pc = "failed"] /\ UNCHANGED selection
  /\ UNCHANGED <<weather, ws, catalog, capture, op, att, policy, boundary, decisions, binding, receipt,
                 handler, runs, mutation>>

\* retire_lost_receipt: only the lost receipt of the payload's handle makes room for a successor
Retirable == receipt = NoReceipt \/ (receipt.lost /\ receipt.gen = op.gen /\ receipt.rev = op.rev)

Retire ==
  /\ up /\ recovery.pc = "retire"
  /\ IF Retirable
     THEN receipt' = NoReceipt /\ recovery' = [recovery EXCEPT !.pc = "admit"]
     ELSE recovery' = [recovery EXCEPT !.pc = "failed"] /\ UNCHANGED receipt
  /\ UNCHANGED <<weather, ws, capture, registry, binding, handler, runs, mutation>>

Successors == Cardinality({a \in Attempt : decisions[a] = "restore_checkpoint"})

\* Bug: the successor is queued without the row of its boundary.
AdmitUnbound ==
  /\ up /\ recovery.pc = "admit"
  /\ decisions' = [decisions EXCEPT ![op.attempt] = "restore_checkpoint"]
  /\ op' = [op EXCEPT !.state = "accepted", !.dispatch = "queued"]
  /\ recovery' = [pc |-> "idle", gen |-> 0]
  /\ UNCHANGED <<weather, ws, catalog, capture, att, policy, selection, boundary, binding, receipt,
                 handler, runs, mutation>>

\* requeue_indeterminate with the boundary: the decision, the boundary and the queued
\* operation are one transaction
Admit ==
  /\ up /\ recovery.pc = "admit"
  /\ IF ~cancelled /\ ~late /\ Successors < MaxSuccessors
     THEN /\ boundary' = [boundary EXCEPT ![op.attempt] = recovery.gen]
          /\ decisions' = [decisions EXCEPT ![op.attempt] = "restore_checkpoint"]
          /\ op' = [op EXCEPT !.state = "accepted", !.dispatch = "queued"]
          /\ recovery' = [pc |-> "idle", gen |-> 0]
     ELSE recovery' = [recovery EXCEPT !.pc = "failed"] /\ UNCHANGED <<boundary, decisions, op>>
  /\ UNCHANGED <<weather, ws, catalog, capture, att, policy, selection, binding, receipt, handler,
                 runs, mutation>>

\* A restore that failed is closed and the user asked; a workspace that moved on in the
\* meantime makes close raise, and the pass ends without a decision
Abandon ==
  /\ up /\ recovery.pc = "failed" /\ (recovery.gen # 0 /\ ws.present => Unlocked)
  /\ IF recovery.gen # 0 /\ ~CheckHandle(recovery.gen, 0)
     THEN UNCHANGED <<ws, decisions, op>>
     ELSE /\ ws' = IF recovery.gen # 0 THEN Closed ELSE ws
          /\ Refuse("needs_user")
  /\ recovery' = [pc |-> "idle", gen |-> 0]
  /\ UNCHANGED <<weather, catalog, capture, att, policy, selection, boundary, binding, receipt,
                 handler, runs, mutation>>

-----------------------------------------------------------------------------
(* The mutation workspace: run_execute and reconcile                       *)

SubmitMutation ==
  /\ up /\ ~late /\ backend = "deterministic" /\ mutation.state = "none"
  /\ mutation' = [mutation EXCEPT !.state = "accepted"]
  /\ UNCHANGED <<weather, ws, capture, registry, binding, receipt, handler, recovery, runs>>

BeginMutation ==
  /\ up /\ mutation.state = "accepted"
  /\ mutation' = [mutation EXCEPT !.state = IF late THEN "timed_out" ELSE "running"]
  /\ UNCHANGED <<weather, ws, capture, registry, binding, receipt, handler, recovery, runs>>

\* Bug: the change is committed before its receipt.
ApplyWithoutReceipt ==
  /\ up /\ mutation.state = "running" /\ ~mutation.receipt
  /\ mutation' = [mutation EXCEPT !.applied = 1]
  /\ UNCHANGED <<weather, ws, capture, registry, binding, receipt, handler, recovery, runs>>

\* DeterministicWorkspace.execute: state and receipt in one transaction
Apply ==
  /\ up /\ mutation.state = "running" /\ ~mutation.receipt
  /\ mutation' = [mutation EXCEPT !.applied = @ + 1, !.receipt = TRUE]
  /\ UNCHANGED <<weather, ws, capture, registry, binding, receipt, handler, recovery, runs>>

\* A stale generation or revision, or an invalid mutation
Reject ==
  /\ up /\ mutation.state = "running" /\ ~mutation.receipt
  /\ mutation' = [mutation EXCEPT !.state = "failed"]
  /\ UNCHANGED <<weather, ws, capture, registry, binding, receipt, handler, recovery, runs>>

FinishMutation ==
  /\ up /\ mutation.state = "running" /\ mutation.receipt
  /\ mutation' = [mutation EXCEPT !.state = "succeeded"]
  /\ UNCHANGED <<weather, ws, capture, registry, binding, receipt, handler, recovery, runs>>

ReconcileMutation ==
  /\ up /\ mutation.state = "indeterminate"
  /\ mutation' = [mutation EXCEPT !.state = IF mutation.receipt THEN "succeeded" ELSE "failed"]
  /\ UNCHANGED <<weather, ws, capture, registry, binding, receipt, handler, recovery, runs>>

-----------------------------------------------------------------------------
Tools ==
  \/ Create \/ ExecuteTool \/ ExecuteToolEnds \/ Interrupt \/ TakeCheckpoint \/ PublishCheckpoint
  \/ RestoreTool \/ CloseTool \/ Health

Handler(a) == Claim(a) \/ Begin(a) \/ Execute(a) \/ RunEnds(a) \/ Commit(a) \/ Park(a) \/ Lapse(a)

Recovery ==
  GiveUp \/ Select \/ Restore \/ Verify \/ Mark \/ Retire \/ Admit \/ Abandon

Mutation ==
  SubmitMutation \/ BeginMutation \/ Apply \/ Reject \/ FinishMutation \/ ReconcileMutation

Next ==
  \/ Tools \/ Recovery \/ Mutation
  \/ \E a \in Attempt : Handler(a)
  \/ Submit \/ BindPolicy \/ Passes \/ Cancel
  \/ WorkerDies \/ HostDies \/ HostStarts

Spec == Init /\ [][Next]_vars

-----------------------------------------------------------------------------
\* Every attempt of the program starts from the very namespace the program was submitted for,
\* whatever the client, a lost worker, a fenced handler that still runs or a restore did in
\* between (execute's check under the lock, the checkpoint of the exact handle, the comparison
\* in restore).  It holds until the workspace is built anew after a restart of the host:
\* generations then start again at 1, and a handle no longer names one namespace.
RunsFromBoundary == renewed \/ \A a \in Attempt : runs[a] \subseteq {op.ns}

\* A queued successor always has the boundary claim_next demands; without it every claim of the
\* dispatcher would be rolled back, turn after turn.
ClaimNeverBlocked ==
  op.dispatch = "queued" /\ op.attempt > 0 => boundary[op.attempt] # 0

\* A mutation is settled as its receipt says, over crashes between the commit of the workspace
\* and that of the registry: succeeded exactly when it was applied, and never applied twice.
SettledByReceipt ==
  /\ mutation.applied <= 1
  /\ mutation.state = "succeeded" => mutation.applied = 1
  /\ mutation.state \in {"failed", "timed_out"} => mutation.applied = 0
=============================================================================
