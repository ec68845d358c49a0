# Adaptive Agent Runtime: a TLA+ verification of its durable core

This directory specifies, model-checks and proves the part of the runtime
(`src/src/aar`, called AAR below) that must not go wrong when processes die,
leases expire and answers are lost: who may execute a piece of work, what is
known about its outcome, which physical calls may be made again, whose Python
namespace a program runs in, and which process owns a runtime home.

Contents: [the system](#the-system), [hard behaviour](#what-is-hard),
[modules](#modules), [runs](#runs), [properties](#properties),
[fairness](#fairness), [proofs](#proofs), [abstractions](#abstractions),
[findings](#findings), [known behaviour](#behaviour-worth-knowing),
[not modelled](#not-modelled), [plan](#plan).

## The system

A caller submits an *operation* to a host. Durable operations are queued, claimed
by a dispatcher thread under a *lease*, executed by a handler whose effects
go through a broker, and settled through a *fence*. What the process cannot
know is recorded as *indeterminate* and decided by recovery. All of it
lives in SQLite, with one owning process per database.

| Component | State it keeps | Operations | Correct when | Module |
|---|---|---|---|---|
| Operation registry `runtime/registry.py` | operations, dispatch queue, attempts, leases, controls, policies, decisions, generation, events | accept, bind policy, request dispatch, claim, heartbeat, fenced commit, cancel, fence expired, decide, recover from receipt, restart | one owner at a time, terminal is final, uncertainty is never lost, each execution is admitted | `OperationRegistry` |
| Dispatcher `runtime/dispatcher.py` | worker threads, closing flag | recover, claim, run, finish, park, drain | a worker survives every exception; a lost race never becomes an outcome | `DurableDispatch`, `Supervision` |
| Reference host `runtime/reference_host.py` | recovery lock, lifecycle lock | submit, cancel, handlers of claims, recovery passes, reconcile | recovery never guesses; stores agree | `DurableDispatch` and the others |
| RLM engine and job store `runtime/rlm.py` | job state, step receipts, result | ensure, begin, record step, complete, mark, resume | receipts are write-once and true | `DurableDispatch` |
| Broker journal `runtime/brokers.py` | one row per call key | invoke, reconcile, usage | a call without an authoritative receipt is not made again | `DurableDispatch`, `ModelExecution` |
| Model broker `runtime/model_broker.py` | route bindings, model executions | request, reconcile, quarantine, close | a success is the provider's answer; a certain sampling failure loses none | `ModelExecution` |
| Continuity planner `runtime/continuity.py` | none | plan a successor | only certain boundaries continue | `DurableDispatch`, `ProgramWorkspace` |
| Workbench coordinator `runtime/rlm_workbench.py` | jobs, cells, suspensions, outbox, rebinds | admit, suspend, resume, finalize, recover | one successor per settlement; a stack is resumed once | `CallerWork`, `WorkbenchRebind` |
| Caller work `runtime/caller_work.py` | tickets, candidate receipts | claim, send, commit, cancel, settle | a send is fenced, a settlement is unique | `CallerWork` |
| IPython backend and worker `runtime/ipython_*.py` | worker processes, request ids | execute, interrupt, checkpoint, restore, rebind | a handle names one namespace | `ProgramWorkspace`, `WorkbenchRebind` |
| Worker manager, process identity | worker bindings | register, heartbeat, finish, recover orphans | only the exact orphan is killed; one worker per workspace | `Supervision` |
| Program workspaces `runtime/programming.py`, `workspace.py` | revisions, checkpoints, mutation receipts | execute, checkpoint, restore, close | exact revision, restored before resumed | `ProgramWorkspace` |
| Supervisor `runtime/supervisor*.py`, ownership lock | run record, discovery, attachments, lock | start, publish, attach, relay, drain | a client is served by the owner | `Supervision` |
| Public tenant pool | open runtimes, leases | lease, release, evict, close | no leased runtime is evicted | `Supervision` |
| Activation store, session grants | grant set per generation, grants in memory | publish, activate, issue, revoke, admit | generations never go back; a revoked grant is dead | `Activation` |
| Installer | staging directory, target | stage, build, prove, publish, clean up | the home is whole or absent | `Installation` |
| Artifact publication | stages, manifests | stage, commit cell, finalize | all or nothing | `WorkbenchRebind` |
| MCP servers, providers, integrations | sampling sessions | dispatch tools, transport | a lost session is not a certain failure | `ModelExecution`, `ProgramWorkspace`, `Supervision` |
| Compat assets, contracts, benchmarks, administration | none of their own | configuration, validation, generation | not state machines | none |

How they interact. The host calls the registry synchronously. A dispatcher
worker runs `recover_durable` (effects, workbench, RLM, workspaces, under the
recovery lock for all but effects) and then `claim_next`; a claimed handler calls the
engine or the workbench coordinator, which call back `heartbeat` and
`cancellation_requested` between pieces of work and the broker for each action. The
stores are separate, with transactions of their own: only registry writes are fenced.
Callers outside the process reach the ticket store through commands that carry a
revision; Python runs in worker processes reached over pipes; clients reach the process
over a socket they find in a discovery file.

## What is hard

`PROJECT.json` lists every hazard at its line. The ones that shaped the models:

- a worker whose lease expired is not stopped: it comes back from a long call and
  goes on, beside its successor, and its calls into the Python backend are not fenced;
- several stores, no common transaction: every pair of consecutive writes can be
  separated by a crash, a cancellation or another worker;
- recovery decides on a list it read earlier;
- the queue re-admits work from several paths, and `claim_next` looks for no
  live owner;
- a caller's claim on a ticket may expire between its durable mark and its physical
  send, and its evidence may come late, twice, or contradicting;
- a suspended Python stack is handed from one attempt to the next by four writes in
  two processes;
- a supervisor may die at any step and its worker processes outlive it;
- a directory is published with a rename while other installers, hosts and a power
  loss are possible.

## Modules

Every public method of a store is one transaction under one lock, so it is one action; a
refused call is a disabled action unless its refusal changes state. A thread's program counter
names its next transaction.

`OperationRegistry.tla`: the registry tables that decide ownership and outcome. A
claimant is the pair of operation and attempt number, because everything else the fence
compares is stored by the claim and never updated; claims are presented at any time, by
anybody, any number of times, so stale workers need no state here.

| Variable | Table |
|---|---|
| `generation` | `runtime_meta.generation` |
| `op` | `operations`: state, generation, revision, deadline, and who wrote `result_json` |
| `dispatch` | `operation_dispatch`: state, queue time, `current_attempt_no` (0 for NULL) |
| `attempt`, `lease` | `operation_attempts`, `operation_leases` (one per attempt, so the epoch is the attempt number) |
| `cancelled`, `policy`, `decisions` | `operation_controls`, `operation_recovery_policies`, `operation_recovery_decisions` |
| `scan` | the local candidate list of a recovery pass |

`OperationLifecycle.tla`: what the registry promises, without leases, generations,
queue or clock: work waits, is executed by one owner at a time, may become
uncertain, returns to waiting only from uncertainty, settles once, and is settled by
its last owner. `ImplementsLifecycle` is the refinement.

The `*Proofs.tla` modules hold the theorems about the module they are named for; `ActivationProofs` covers
`Installation` as well, and `DurableDispatchProofs` extends `OperationRegistryProofs`.

`DurableDispatch.tla`: extends the registry with the dispatcher's worker loop, the
claimed RLM handler, the engine, the job store (`inner`), the broker journal
(`journal`), the recovery passes with their lock (`holder`), submission in four
transactions and cancellation in up to four (`canceller`). `answered` is external: what
the provider has really done for a step.

`CallerWork.tla`: one workbench operation in planner mode `caller_delegated`. Its model calls
are tickets (`caller_work_tickets`, with `receipts` and the journalled response): drivers
outside the process claim them, mark a send as started, send, commit an outcome or leave it
unknown; claims expire and are taken again. A settlement is written with the suspension and its
row in the successor outbox; the notification that queues the successor is a later step of the
committing thread, and the dispatcher's deadline sweep (`sweep`), a user's cancellation in up to
four transactions (`canceller`) and a repeated submission race with it. The successor prepares
and consumes the outbox row and goes on: another question, a cell, or the end. `sends` is
external, the physical sends.

`WorkbenchRebind.tla`: one host-planned operation whose cell suspends in the middle of its
code. `transfer` is the rebind row the claim of the successor prepares; the handler commits it,
delivers the receipt to the worker process, acknowledges it and commits the cell with
its staged artifact. `ws` is the backend's worker: its generation and revision, the names its
namespace holds (`names`), the frozen stack. `recovery` is the pass that abandons a lost cell and restores
its checkpoint into a new generation. `auth` is the row that says which attempt may change the workspace.
The deadline is read where the code reads it: before a handler waits for the worker's lock in `Reconcile` and
`Execute`, so that it may still go on when it passes meanwhile; `MarkDeadline`, which asks for no lease, loses every
running cell of the operation and parks its pending suspension.

`ProgramWorkspace.tla`: a workspace under a session client's tools (execute, checkpoint,
restore, close, interrupt) and a durable program submitted for one exact handle. Namespaces are told apart
by how many executions of whom they hold. Recovery selects a checkpoint, restores it, records
the boundary and admits the successor in separate transactions. The last section is the mutation
workspace of `runtime/workspace.py`.

`Supervision.tla`: the processes that compete to supervise one home, from the ownership lock over
the advance of the generation, the fencing of orphans and the discovery record to drain and
death; their worker processes; clients that discover and attach; and, as the other value of
`mode`, the tenant pool of the public deployment.

`Installation.tla`: the clean installer, phase by phase. A directory is what a reader sees now and what is certainly on
the disk, so that a power loss may lose what was not synced. `Activation.tla` extends it with hosts that start at
the published home, write the grant set of their generation file by file, keep
session grants in memory and serve grant requests over a socket that may break.

`ModelExecution.tla`: a routed model call down through the broker journal, the model execution journal
and the gateway or sampling driver, and up again, against reconcilers, withdrawal of the operation,
shutdown, a lost session and restarts with another catalog. `provider` is external.

The `MC*` modules are what TLC checks; where one defines symmetry, only runs without temporal
properties use it.

Definitions whose comment begins with `Bug:` are wrong variants of the definition that
follows them. Nothing uses them; substituting one for its original makes TLC violate the
property that `PROJECT.json` pairs with it, which shows the property is sensitive to that
code.

The modules share the code but not their variables. They meet at these points, and each assumes of the
other only what its own run shows: `DurableDispatch` sees a broker call as `ModelExecution` leaves
it (started, succeeded or failed); `WorkbenchRebind` takes the settlement of its ticket from `CallerWork`
as an event; `ProgramWorkspace` and `WorkbenchRebind` see one live process per workspace, which
`Supervision` shows; all of them see one process per database at a time, which
`UsersHaveTheOwner` shows.

## Runs

| Run | Asks | Bounds and states |
|---|---|---|
| `RegistryMixed` | every registry property and the refinement, one operation that may be run inline and dispatched at once | clock 0..3, lease 1, deadlines 2 and 3, 2 generations, 3 attempts, 2 decisions, 1 successor: 313 thousand |
| `DispatchSafety` | effects, receipts and tracking of uncertainty | 2 workers, 2 steps (a read, a model call), 2 generations, 2 attempts, clock 0..1, cancellation and refused submission: 1.5 million |
| `DispatchProgress` | queued work is taken, dispatched work settles | 2 workers, 1 step, 2 generations, clock 0..2: 230 thousand |
| `DispatchFenced` | violated: a fenced worker writes no terminal marker | as above |
| `DispatchHotOperation` | violated: queued work is taken although another operation is hot | 2 operations, 1 worker, 3 generations, the clock stands before the deadlines |
| `CallerSafety` | one send, one settlement, one continuation, under every fault | 2 drivers, 1 suspension, 1 cell, 2 claims, 3 attempts, clock 0..1, cancellation, resubmission, lost hosts and lost attempts: 746 thousand |
| `CallerProgress` | settlements continue, unsent waits end | 1 driver, 2 suspensions (so that a correction may be asked for), 2 cells, 1 claim, success and failure, no faults but an absent caller and late replies: 16 thousand |
| `Rebind` | one resumption, the restored workspace, authority | 2 cells, 2 or 3 model calls, 3 attempts, 2 crashes: 816 thousand |
| `Workspace` | every attempt runs from its boundary | the three backends, 1 successor, 2 client tools, 1 checkpoint, 1 crash: 1.39 million |
| `Supervised` | one worker per workspace, users have the owner | 2 processes, 1 client, 2 workers; 3 tenants, 2 active, 2 leases: 404 thousand |
| `Activated` | the home is whole, grants are current | 2 installers, 2 epochs, 2 hosts, 2 clients, 1 grant, 1 intrusion, 1 power loss, 2 generations: 191 thousand |
| `Routed` | success is the provider's answer, a certain sampling failure loses nothing | 1 call, 2 reconcilers, 2 catalogs, 2 crashes: 252 thousand |

Why these bounds are enough to see the interesting cases. Every registry statement touches one
operation, except the claim (which passes over others), restart and expiry (which treat
each operation alike); so one operation exposes all ownership races, and the
theorems below cover any number. Two generations give one crash at any point;
two workers give a stale worker beside its successor; three attempts in
`RegistryMixed` leave room for the execution that one successor too many would be. A
lease of one tick and a clock of three let a lease expire before, at and after the
deadline. In `CallerSafety` two claims are an expired claim and its replacement, and three attempts the
first, a lost successor and its replacement. In `Rebind` three attempts are the suspended one, a
successor that is lost, and the one that recovers; two crashes are a worker and a host. In
`Workspace` one crash of the host or a worker suffices for the one successor the policy admits in the
code. In `Supervised` two processes are an owner and its successor or rival; three processes were explored
to 3.2 million states without a violation and not to the end. In `Activated` two of everything is a
race, and the bound is cut further by two named guards: hosts start while no installer has a stage open
(`AtRest`), and grants are controlled at undisturbed homes (`Undisturbed`): an installer's steps
touch nothing a host reads before the rename. In `Routed` calls share nothing but the service, so one call
is enough; two reconcilers race each other and the sender.

`MaxTime`, `MaxGeneration`, `MaxAttempts`, `MaxDecisions`, `MaxClaims`, `MaxCrashes`, `MaxTools`,
`MaxCheckpoints`, `MaxWorkers`, `MaxLeases`, `MaxIntrusions`, `MaxPowerLosses` and `MaxGenerations` bound
counters; `MaxSuspensions`, `MaxCells`, `CallBudgets`, `MaxSuccessors` and `MaxTenants` are limits of the code
itself, and what happens at them is modelled. `CallerSafety` allows one suspension, so a correction,
which needs a second, is seen in `CallerProgress` only.
Deadlock is not checked: callers owe nothing and the bounded clock stops, so a
settled system rests.

## Properties

Registry and dispatch:

- `SingleRunningAttempt`, `QueuedHasNoLiveOwner`, `RunningIsOwned`,
  `AcceptedIsCurrent`: ownership. The second is the check the design
  (`docs/AR-LT1-DURABLE-ASYNC-DISPATCH-PLAN.md:91`) asks of `claim_next` and the code omits;
  it holds nevertheless.
- `OneDecisionPerAttempt`, `AttemptsAreAdmitted`, `ExecutionsWithinPolicy`: lineage.
- `TerminalIsFinal`, `ImplementsLifecycle`: outcome.
- `UncertaintyIsTracked`: an indeterminate dispatched operation is a candidate, queued, or
  parked by a recorded decision. It is checked for durable operations only: mixing inline and
  durable execution, which the design forbids, can lose a candidate.
- `EffectOnce`, `StepsAreAnswers`, `SuccessHasReceipt`: a model call reaches its provider at
  most once in the operation's life; recorded receipts are what the provider answered;
  success has every receipt.
- `DispatchedSettles`, `QueuedIsTaken`: progress.

Caller work:

- `OneAuthorisedSend`, `WithdrawnIsUnsent`: whatever claims expire and replies are lost, a ticket is sent
  at most once, and never after it was withdrawn as certainly unsent.
- `SettlementIsEvidence`, `SettlementIsFinal`: a settlement is what unanimous receipts of the marked
  attempt say, and nothing that follows changes it.
- `OneContinuation`, `CellRunsOnce`, `CancelledSettlement`: no attempt runs beside a settlement that waits;
  a cell that was started is not started again; a cancellation decides what a settlement comes to.
- `SettlementContinues`, `UnsentWaitIsDecided`: progress.

Workbench, workspaces, processes, model calls:

- `OneResumption`: a frozen stack is run on at most once and only under a committed transfer.
- `WorkspaceMatchesJournal`: a restored or continued namespace holds the committed cells and no other.
- `AuthorityMovesOn`: the right to change a workspace leaves only an attempt that has stopped.
- `RunsFromBoundary`: every attempt of a program starts from the namespace it was submitted for.
- `ClaimNeverBlocked`: a queued successor has the boundary without which `claim_next` would raise every turn.
- `SettledByReceipt`: a mutation is settled as its receipt says, over a crash between the two commits.
- `OneWorkerPerWorkspace`, `UsersHaveTheOwner`: no two generations have a registered live worker of one
  workspace; whoever is attached is served by the lock's holder in the current generation.
- `PublishedIsWhole`, `GrantsAreCurrent`: the home is one installer's whole installation; a grant is
  honoured only in its generation and until its revocation was reported.
- `SuccessIsProvidersAnswer`, `SamplingFailureLosesNothing`: both journals agree with the provider on a
  success; a failure that the sampling route calls certain (`docs/MODEL-ROUTING-AND-EVALUATION.md:82`)
  discards no usable answer. The gateway route promises less (see the divergences).

## Fairness

`FairDispatchSpec` assumes weak fairness of each worker's next step and of the clock.
`_worker_main` loops until the dispatcher closes and turns every exception into another turn,
and a provider call is assumed to return in the end (the transports have timeouts). Nothing
is assumed of callers, cancellation, crashes (bounded by `MaxGeneration`) or of what recovery chooses when
it may choose. A worker turn that finds nothing to claim is a step, so fairness lets the workers
alternate; none of them needs strong fairness because the recovery lock is
released in the pass that took it.

`FairSpec` of `CallerWork` assumes weak fairness of the clock, of the host's own threads while it lives (the
handler, the claims of the dispatcher, recovery, the two halves of the deadline sweep, the notification a
committing thread owes) and of a lost host's restart. It assumes nothing of
drivers, providers or users: a caller may never claim, never send and never answer. That is why
`UnsentWaitIsDecided` speaks of the deadline and `SettlementContinues` starts from a settlement.
The run has no crashes because several crash points leave a wait that nothing decides
([below](#behaviour-worth-knowing)).

In `DispatchHotOperation` the clock stands (`MaxTime = 0`): the question is what happens
before the hot operation's deadline, which is hours of turns in practice. Past it
the planner refuses the successor and the queue moves again; `DispatchProgress` includes that.

## Proofs

`tlapm` proves the theorems below for every value of the constants that satisfies the named
assumptions: any number of operations, workers, drivers, tickets, cells, calls, processes, installers, hosts,
clients, and any bounds. The assumptions say that bounds are numbers and that a lease lasts (`OpAssumption`,
`DurationAssumption`, `BoundsAssumption`, `CallerAssumption`, `RebindAssumption`, `WorkspaceAssumption`,
`InstallationAssumption`, `ActivationAssumption`, `ModelExecutionAssumption`), that the value for "no answer" is no answer
(`StepAssumption`) and that "no process" is no process (`SupervisionAssumption`). TLC evaluates them in
every run.

Operation registry (`OperationRegistryProofs`):

| Theorem | Says |
|---|---|
| `TypeCorrect` | `Spec => []TypeOK` |
| `OwnershipInvariant` | `Spec => []Ownership` |
| `SingleRunner` | `Spec => []SingleRunningAttempt` |
| `ClaimFindsNoOwner` | `Spec => []QueuedHasNoLiveOwner` |
| `Finality` | `Spec => TerminalIsFinal` |
| `LineageInvariant` | `Spec => []Lineage` |
| `DecidedOnce` | `Spec => []OneDecisionPerAttempt` |
| `ExecutionsAreAdmitted` | `Spec => []AttemptsAreAdmitted` |
| `AcceptedWorkIsCurrent` | `Spec => []AcceptedIsCurrent` |
| `RunningWorkIsOwned` | `Spec => []RunningIsOwned` |
| `PolicyLimitsExecutions` | `Spec => []ExecutionsWithinPolicy` |
| `Refinement` | `Spec => ImplementsLifecycle` |

`SingleRunningAttempt` is not inductive: nothing in it prevents an older attempt
from holding a lease and being revived, or a queued operation from having a running
attempt when it is claimed. `Ownership` adds that the dispatch row names
the latest attempt (`CurrentIsLatest`), that only this attempt may run or hold an unreleased
lease (`OnlyCurrentOwns`) and that an operation that waits has no such attempt
(`WaitingIsUnowned`). The claim is the only action that starts an attempt or moves
`current_attempt_no`; every other action satisfies the step predicate
`Undisturbed`, so the proof is one lemma for the claim, one for steps that are
undisturbed, and one that shows that each other action is.

`OneDecisionPerAttempt` and `AttemptsAreAdmitted` are about the past, so `Lineage` carries what the
present remembers of it: no decision concerns an attempt later than the current one
(`DecisionsArePast`), an operation a pass has listed is undecided on its current attempt even
though the list was read earlier (`ListedIsUndecided`), and accepted work that already had an
attempt was admitted by a decision on it (`AcceptedIsAdmitted`). The claim uses `Ownership` to
know that the attempt before its own is the current one.

`AcceptedIsCurrent` and `RunningIsOwned` are inductive relative to `Ownership`: an inline `begin`
cannot make a dispatched operation run, because accepted work has no running dispatch. The proof
separates restart, the claim, and every other step (`KeepsOwners`).

For `ExecutionsWithinPolicy`, `Budget` says that attempts are numbered without gaps, that each but the first has
spent a successor decision and waiting work has one unspent, and that a policy keeps the number of those
decisions below its bound. The refinement maps a
registry step to the lifecycle step of one operation or to a stutter, from `Ownership` (the owner named by the row
is the one that runs) and `Lineage` (work goes back to waiting from uncertainty only).

The registry theorems are about operations that do not suspend. The registry methods that park an attempt
on external work or rebind it (`suspend_*_attempt`, the workbench rebind, and their successor and
outbox tables) are actions of `CallerWork` and `WorkbenchRebind`: they put
an operation back to accepted without a recovery decision, so `AttemptsAreAdmitted` is not claimed
of such operations.

Durable dispatch (`DurableDispatchProofs`, which extends the registry's proofs):

| Theorem | Says |
|---|---|
| `DispatchTypes` | `DispatchSpec => []DispatchTypeOK` |
| `DispatchUsesRegistry` | `DispatchSpec => Spec`: every registry theorem holds of the composition |
| `ModelCallsOnce` | `DispatchSpec => []EffectOnce` |
| `RecordsAreAnswers` | `DispatchSpec => []StepsAreAnswers` |
| `SuccessIsProved` | `DispatchSpec => []SuccessHasReceipt` |
| `UncertaintyIsKept` | `DispatchSpec => []UncertaintyIsTracked` |

A worker is stale as soon as its lease is, and goes on; so nothing can be said of what it
holds but what the stores said when it looked, and that stays true because they only grow (`Grows`).
`Sent` says that a step without a journal row was never sent, that whoever is about to enter the provider opened
the row itself, and that no two workers do so for one step. `Receipts` follows an answer from the
provider over the worker's variable (`Beliefs`) and the journal to the job, and says that a success,
even one a worker is only about to commit, has its completed job. `Tracked` says that an engaged operation whose
answer is unknown is a candidate of recovery or parked by a decision on its current attempt.

Caller work (`CallerWorkProofs`):

| Theorem | Says |
|---|---|
| `CallerTypes` | `Spec => []CallerTypeOK` |
| `SentOnce` | `Spec => []OneAuthorisedSend` |
| `WithdrawalIsCertain` | `Spec => []WithdrawnIsUnsent` |
| `SettlementIsReceipted` | `Spec => []SettlementIsEvidence` |
| `SettledOnce` | `Spec => SettlementIsFinal` |
| `ContinuesOnce` | `Spec => []OneContinuation` |
| `CellsRunOnce` | `Spec => []CellRunsOnce` |
| `CancellationDecides` | `Spec => CancelledSettlement` |

`Authorised` is about the drivers: a ticket that was not started has nobody past its mark, the one who
marked it keeps the claim of its row although the claim may expire, and is the only one. `Continuity` is
about the host: a pending suspension is the latest and nothing runs beside it or waits before it (`WaitsAlone`), a settlement that
waits is the latest's and meets at most the attempt that is about to consume it (`ContinuesAlone`), that
attempt is the one the outbox row was prepared for (`ConsumesOne`), and a prepared cell has not run and is
passed by every worker but its own (`CellsWait`, `CellIsFresh`).

Rebinding (`WorkbenchRebindProofs`):

| Theorem | Says |
|---|---|
| `HandoverInvariant` | `Spec => [](Typed /\ Sound)` |
| `RebindTypes` | `Spec => []RebindTypeOK` |
| `ResumedOnce` | `Spec => []OneResumption` |
| `WorkspaceIsJournal` | `Spec => []WorkspaceMatchesJournal` |
| `AuthorityPasses` | `Spec => AuthorityMovesOn` |

Four stores have to agree while any of them may be left behind: the database, the handler threads, the
worker process and the recovery pass. `Sound` says how. `Books` is the database's part: only the latest attempt
runs (`Owned`), the job suspends once and rests until the successor is claimed (`Suspensions`), a transfer
and its cell move together (`Transfers`), and at most the latest cell is open and began at the job's boundary
with the committed cells in its checkpoint (`Journal`). `Processes` ties the others to it: a handler that works on
the open cell or delivers to it carries that cell's boundary (`Handlers`), the worker runs for one handler and
knows cells of its own generation only (`Worker`), the namespace at the boundary, and one revision on, is what the
journal says (`Namespace`), and between the two steps of a recovery the restored worker is untouched
(`Recoveries`). `Handlers` is what makes the missing fence harmless: a handler that lost its lease still calls the
backend, but its handle names a boundary that recovery has left. `OneResumption` then needs that a successor which
delivered is past the point of delivery (`Resumed`), and that nothing older than a restored generation is alive.
Steps that only move a handler on are one lemma (`QuietIsSound`); so are the steps that end a lease, and the calls of the
worker, which leave the store alone. So is the deadline, which takes an argument: it drops running cells of
any attempt and restores nothing, so `Open` counts a cell it dropped as open still, and the cell being handed over
must not be dropped. `Alone` says why it is not: the job suspends in its first attempt, and from then until the
suspended cell is settled only the successor has a handler, which between the commit of the transfer and that of
the cell is nowhere it could expire.

Workspaces (`ProgramWorkspaceProofs`), supervision (`SupervisionProofs`), activation (`ActivationProofs`, which covers
`Installation` too) and routed calls (`ModelExecutionProofs`):

| Theorem | Says |
|---|---|
| `MutationIsSettledOnce` | `Spec => []SettledByReceipt` |
| `SuccessorIsClaimable` | `Spec => []ClaimNeverBlocked` |
| `EveryAttemptStartsAlike` | `Spec => []RunsFromBoundary` |
| `SupervisedInvariant` | `Spec => []Supervised` |
| `UsersAreCurrent` | `Spec => []UsersHaveTheOwner` |
| `OneWorkerInUse` | `Spec => []OneWorkerPerWorkspace` |
| `HomeIsWhole` | `Spec => []PublishedIsWhole` |
| `GrantsStayCurrent` | `Spec => []GrantsAreCurrent` |
| `SafetyInvariant` | `Spec => []Safety` |
| `SuccessIsAnswered` | `Spec => []SuccessIsProvidersAnswer` |
| `SamplingFailureIsSafe` | `Spec => []SamplingFailureLosesNothing` |

`RunsFromBoundary` needs that a handle names one namespace. It does while no workspace is built anew, because
every change of a namespace moves its handle on (`MovesOn`); `Handles` says that of the handle of
the operation, of the manifests and of a verified restore, and `Books` says in which state
the four separate recovery transactions leave selection, boundary and receipt, which is also why a
queued successor has a boundary.

`Supervised` says that a process past the lock is its holder, that it then has the current
generation, and (`Tended`) that a live owner knows every worker of its generation, so that only bindings
of dead owners are left for the fencing of orphans; two registered workers of one owner are alive together only on either side of
a replacement.

`PublishedIsWhole` needs what a stage holds at each phase (`Built`), that no two installers work in one
(`Apart`), and what may still happen at the home once it was renamed (`Home`). `GrantsAreCurrent` is about a message on a socket that may
break, so `Granted` relates four things: the directories and the one host each generation belongs to
(`Hosting`), what a request has done at the host it was bound to (`Requests`), that grants exist only when the
home is at rest (`AtHome`), and what was true at each admission (`Accepted`).

`Safety` of a routed call says where the sender can be while the provider was not asked, that a failure
the sampling route calls certain is of a sender that never came to the send or holds a refusal, and that
every copy of an answer, in the sender, a reconciler or either journal, is the provider's (`OneAnswer`).

What stays with TLC: the liveness properties `QueuedIsTaken`, `DispatchedSettles`, `SettlementContinues` and
`UnsentWaitIsDecided`, since the proof system's backends treat neither liveness under fairness nor ENABLED. Every
other property of a passing run is a theorem above. What a recursive definition computes cannot be proved either,
since the library's induction theorems take an operator as a parameter; no module proved about has one.

## Abstractions

- Ids, digests and payloads are absent; a claim is its attempt number. Digest, capability,
  environment, budget and usage checks are choices: whatever could drift may park a
  candidate or fail a call.
- `certainty` and `reconciliation_required` are functions of the state and not stored.
- The parking decisions (needs_user, quarantine, reconcile_effect) are one value, as are the two
  kinds of successor.
- The policy of the code admits 3 successors; the runs use 1.
- Reading the cancellation flag or clock and the heartbeat that follows are one
  action, as is the reconciliation of all calls of one operation: nothing between them can
  tell.
- A provider's answer to a model step is fixed by its first execution; a receipt lookup returns
  that answer, nothing yet, or a refusal.
- Parallel candidate lists of the recovery pass are one `scan` variable because the
  recovery lock admits one pass at a time.
- Failpoints of the code (`SimulatedRlmProcessLoss` and the like) are the `Restart` action, which may
  happen between any two transactions.
- In `CallerWork` a command replayed under its key is a late reply; in `Supervision` a process stands for its
  start identity, so a reused pid is another process; in `Activation` a grant set is a function of generation
  and installation.
- A provider's receipts are taken to be consistent in `ModelExecution` (a lookup returns the answer that was
  made), so the conflict of two different answers to one request is not reached.

## Findings

Two divergences have a run of their own, and `PROJECT.json` quotes the lines: (1) a refused heartbeat makes the
handler write a terminal FAILED marker into the unfenced job store, against "a failed
heartbeat stops ... terminal writes"; (2) an operation whose successor bound is exhausted
raises out of the recovery pass in every turn and starves the queue until its
deadline, against "one hot operation cannot starve another".

## Behaviour worth knowing

Met while modelling; the models contain it, and the properties are stated so that they hold beside it.
"Raises every turn" means that the dispatcher's turn is lost before `claim_next`, as in finding 2.
`SDD` is `src/docs/sdd/aar-rlm-native-workbench-v2`.

Registry and dispatch. A stale worker's last `UPDATE` of a broker row ignores the row's state;
`recover_terminal_from_receipt` leaves a lease unreleased; a direct cancellation or a refused
resubmission can settle an operation whose attempt runs on with a valid lease; a parked
candidate with a NULL attempt number is decided again on every pass.

Caller work.
- `cancel_queued_dispatch` ends an operation as cancelled and certain while its ticket is
  `send_started` or `outcome_unknown`; `SDD/LIFECYCLE.md:269` allows it "only after known no-send or
  acknowledged external termination".
- A host lost between `request_cancel` and `cancel_queued_dispatch` leaves an accepted operation that asks
  for cancellation; past the deadline the sweep cannot withdraw its ticket and raises every turn
  (`SDD/LIFECYCLE.md:267`).
- `submit_rlm_workbench` repeated while the operation waits requests dispatch again; `claim_next` then raises
  instead of returning `None` (its docstring, `registry.py:3704`).
- `reconcile` settles without notifying: the successor waits for the deadline sweep or a restart (`SDD/README.md:487`).
- `_finalize` compares a cancellation revision nobody writes, so a cancellation just before it does not win, and a host
  lost between `_finalize` and the operation's own transition leaves the operation indeterminate although the job succeeded
  (`SDD/LIFECYCLE.md:180` says otherwise of both).
- A directive for one cell more than the budget parks the job with its outbox row prepared; recovery raises every turn.

Rebinding.
- A workbench parked by its handler is never recovered: `mark_workbench_rebind_worker_lost` raises every turn.
- A host lost during the cell that follows the resumed one leaves a claim that demands a pending outbox row and raises every turn.
- An attempt lost after `bind_workbench_recovery_authority` and before its cell makes the next bind refuse and park.
- A deadline that passed before `_begin_running` parks the operation instead of timing it out.
- The job's mirror of the cancellation is never written in this mode.
- Artifacts staged by a lost cell keep their logical name and their share of the budget.
- Losing the worker while it resumes does not advance the revision, so the restore raises.

Workspaces.
- A handle is a generation and a revision and nothing else. After a restart generations begin again at 1, so an old handle may
  name another namespace: hence "until renewed" in `RunsFromBoundary`.
- The recovery pass aborts every turn when a fenced handler's execution completed after all, when a
  health check marked an idle dead worker lost, or when the restored workspace moved on before it could be closed.
- Submission accepts and binds the policy in two transactions; after a crash in between the program is never recovered.

Processes.
- `register` checks for a conflict and inserts in two transactions (the exception in `OneWorkerPerWorkspace`).
- A worker spawned but not yet registered when its supervisor dies is unknown to orphan recovery; an orphan that cannot
  be observed or killed keeps its workspace blocked.
- A drain that times out, or a child that cannot be resolved, keeps the lock until exit while discovery still names a live process.
- A tenant whose eviction fails to close stays "closing"; closing the pool closes leased runtimes.

Installation and activation.
- A crash between making a generation directory and linking its file, or between link and unlink of the temporary
  name, makes every later scan refuse until an operator removes it: it fails closed.
- A superseded host may still issue grants and may even become active, if it scanned before its successor published; admission
  fences both, which is what `GrantsAreCurrent` says.
- A host that starts between the rename and the installer's readback makes the installer report an indeterminate outcome.
- Partial evidence or a stranger's file makes the cleanup refuse and leave the stage; `_verify_staged_evidence` checks the
  database by name only.

Model calls.
- `OwnerGatewayModelBroker.request` takes only `GatewayCallOutcomeUnknown` for an unknown outcome: whatever else an owner's transport
  raises once the request is out, a timeout or a lost connection too, becomes `GatewayProviderFailure` (`gateway.py:239-244`) and is
  recorded `provider_failed_certain` (`model_broker.py:724-744`), also over a row that a reconciler committed. `ARCHITECTURE.md:242` says
  "A post-send timeout, cancellation race, disconnect, or ownership loss remains indeterminate"; on the gateway route that holds only if
  the owner's transport classifies its own errors. `TransportRaises` is this step, and `SamplingFailureLosesNothing` speaks of the
  sampling route alone, whose transport does classify.
- The exception branches of `ModelExecutionJournal.invoke` update without looking at the state: a late sender moves a row that a
  reconciler committed back to `provider_call_indeterminate`, and its usage is lost from the sums, although the broker call stays
  succeeded. `SDD/README.md:582` says a late writer cannot; `SDD/README.md:72` lists the defect as known. `SuccessIsProvidersAnswer`
  therefore compares with the stored response and not with the state.
- `BrokerJournal.invoke` turns a call that reconciliation quarantined back to succeeded when its answer comes after all.
- A crash between the success update and the usage check leaves a call over its budget succeeded.
- `_quarantine` overwrites a stored terminal receipt; quarantined and failed calls count as no usage.
- An answer too large for the sampling transport is a certain failure although the provider did the work.

## Not modelled

- The event log and its pages: events are written in the transactions of the actions and never read by them.
- `reconcile_rlm` and the inline RLM and asset-import paths of the host, seen only through the registry calls they make; the start of
  dispatcher threads.
- Artifact, effect and subagent methods of the broker facade, compensation proposals, the sums of usage.
- The reader thread an inspect or checkpoint timeout leaves behind in the IPython backend; the interrupt of a cell is the MCP tool's only.
- `ArtifactPublicationRepository.commit_cell` and `finalize`, which the runtime does not call, and the close fence of its connections.
- The contents of MCP frames, request parsing, authorization lookups and response shaping; the public RLM coordinator.
- Migrations and operator inspection, which run alone or only read.
- Host compatibility assets, contracts, schemas and their generators, benchmarks and administration: sequential tools and data definitions.

## Plan

The modules above are the system's state machines; every safety and action property the runs check is proved. What
could still be added:

- the artifact, effect and subagent methods of the broker facade (`brokers.py`), of which `DurableDispatch` and
  `ModelExecution` model the journal and the model call;
- a proof that `WorkbenchRebind` refines an abstract handover (one holder, one delivery, one boundary), for which
  the named parts of `Sound` are the mapping's lemmas.
