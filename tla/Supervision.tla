----------------------------- MODULE Supervision -----------------------------
(* Who owns a runtime.  One deployment is supervised: processes that want to be the          *)
(* supervisor of a runtime home start, take the ownership lock of its database, advance the   *)
(* runtime generation, fence the workers a predecessor left behind, publish a discovery       *)
(* record, serve the clients that find it, drain and release the lock; any of them may die    *)
(* at any step, its workers outliving it.  The other is public: one process leases a bounded  *)
(* number of tenant runtimes and evicts the idle ones.                                        *)
(*                                                                                            *)
(* A process stands for its start identity (pid, start time, boot), so a reused pid is just   *)
(* another process; the file names and credential of a publication are unique to it and are   *)
(* represented by the process too.  One programmable workspace is modelled.                   *)
EXTENDS Integers, Sequences, FiniteSets, SequencesExt

CONSTANTS
  Process,        \* the processes that try to be the supervisor
  Client,         \* aar-mcp front ends
  Tenant,         \* tenants of the public deployment
  None,           \* no process
  MaxWorkers,     \* worker processes spawned in a behaviour
  MaxTenants,     \* max_active_tenants
  MaxLeases       \* concurrent leases of one tenant

ASSUME SupervisionAssumption ==
  /\ None \notin Process
  /\ MaxWorkers \in Nat /\ MaxTenants \in Nat /\ MaxLeases \in Nat

Worker == 1..MaxWorkers
Generation == 1..Cardinality(Process)

VARIABLES
  mode,           \* "supervised" | "public"
  generation,     \* the registry's current runtime generation
  lock,           \* the holder of the ownership lock
  proc,           \* per process: how far it is, its generation, its workspace table, its thread
  runs,           \* supervisor_runs, by generation
  discovery,      \* the process the discovery file names
  worker,         \* the worker processes and their bindings
  session,        \* per client: the process its discovery named and the one it is attached to
  pool            \* the tenant pool: entries in order of last use, and whether it is closed

supervised == <<generation, lock, proc, runs, discovery, worker, session>>
vars == <<mode, supervised, pool>>

-----------------------------------------------------------------------------
NewProcess ==
  [stage |-> "new", gen |-> 0, todo |-> {}, slot |-> 0, usable |-> FALSE,
   published |-> FALSE, failed |-> FALSE, handler |-> FALSE]

NoWorker == [owner |-> None, gen |-> 0, via |-> "none", phase |-> "none", alive |-> FALSE,
             child |-> "active", binding |-> "none"]

\* A spawned worker that its thread has neither put into the table nor given up.
InFlight == {"spawned", "handed", "cleared", "registered"}

NoSession == [named |-> None, peer |-> None]

Init ==
  /\ mode \in {"supervised", "public"}
  /\ generation = 0 /\ lock = None
  /\ proc = [p \in Process |-> NewProcess]
  /\ runs = [g \in Generation |-> "none"]
  /\ discovery = None
  /\ worker = [w \in Worker |-> NoWorker]
  /\ session = [c \in Client |-> NoSession]
  /\ pool = [order |-> <<>>, leases |-> [t \in Tenant |-> 0], open |-> {}, closing |-> {},
             closed |-> FALSE]

Alive(p) == p # None /\ proc[p].stage \notin {"new", "dead"}

At(p, stages) == mode = "supervised" /\ proc[p].stage \in stages

Step(p, stage) == proc' = [proc EXCEPT ![p].stage = stage]

\* What a process leaves: its memory is gone, its worker processes are not.
Gone == [NewProcess EXCEPT !.stage = "dead"]

Exit(p) == proc' = [proc EXCEPT ![p] = Gone]

Orphaned(p) ==
  [w \in Worker |->
     IF worker[w].owner # p THEN worker[w]
     ELSE [worker[w] EXCEPT !.owner = None, !.via = "none", !.child = "active",
             !.phase = IF @ = "installed" THEN "installed" ELSE "gone"]]

\* The connections of a process end with it, or with its listener's task group.
Disconnect(p) ==
  session' = [c \in Client |-> IF session[c].peer = p THEN NoSession ELSE session[c]]

-----------------------------------------------------------------------------
(* Starting.                                                                                 *)

\* A process is launched; _start: the private directory, its own identity.
Launch(p) ==
  /\ At(p, {"new"}) /\ Step(p, "preparing")
  /\ UNCHANGED <<mode, generation, lock, runs, discovery, worker, session, pool>>

\* The discovery file must be absent or name a process that is gone.  The observation of a
\* process may be unavailable, which refuses too.
CheckDiscovery(p) ==
  /\ At(p, {"preparing"})
  /\ \/ ~Alive(discovery) /\ Step(p, "checked")
     \/ discovery # None /\ Exit(p)
  /\ UNCHANGED <<mode, generation, lock, runs, discovery, worker, session, pool>>

\* flock, non-blocking, on the database file.
TakeOwnership(p) ==
  /\ At(p, {"checked"})
  /\ IF lock = None
     THEN lock' = p /\ Step(p, "owner")
     ELSE Exit(p) /\ UNCHANGED lock
  /\ UNCHANGED <<mode, generation, runs, discovery, worker, session, pool>>

Active(w) == worker[w].binding = "active"

\* ReferenceHost.__init__: a new generation, then the bindings of older ones to look at.
StartRuntime(p) ==
  /\ At(p, {"owner"})
  /\ generation' = generation + 1
  /\ proc' = [proc EXCEPT ![p].stage = "started", ![p].gen = generation + 1,
                          ![p].todo = {w \in Worker : Active(w)}]
  /\ UNCHANGED <<mode, lock, runs, discovery, worker, session, pool>>

\* Bug: a binding whose process cannot be observed is quarantined.
RecoverOrphanUnseen(p, w) ==
  /\ At(p, {"started"}) /\ w \in proc[p].todo
  /\ \E alive \in {FALSE, worker[w].alive} :
       worker' = [worker EXCEPT ![w].alive = alive, ![w].binding = "finished"]
  /\ proc' = [proc EXCEPT ![p].todo = @ \ {w}]
  /\ UNCHANGED <<mode, generation, lock, runs, discovery, session, pool>>

\* The exact process is signalled, awaited and its binding closed with a receipt.
FinishPrior(w) == [worker EXCEPT ![w].alive = FALSE, ![w].binding = "finished"]

\* One binding of a predecessor: unobservable, or not terminated in time - it stays active;
\* gone or replaced - quarantined; the exact process - signalled and awaited, then finished.
RecoverOrphan(p, w) ==
  /\ At(p, {"started"}) /\ w \in proc[p].todo
  /\ \/ UNCHANGED worker
     \/ worker' = FinishPrior(w)
  /\ proc' = [proc EXCEPT ![p].todo = @ \ {w}]
  /\ UNCHANGED <<mode, generation, lock, runs, discovery, session, pool>>

\* An exception in the constructor: build_server gives the lock back.
BuildFails(p) ==
  /\ At(p, {"owner", "started"})
  /\ lock' = None /\ Exit(p)
  /\ UNCHANGED <<mode, generation, runs, discovery, worker, session, pool>>

Built(p) ==
  /\ At(p, {"started"}) /\ proc[p].todo = {}
  /\ Step(p, "built")
  /\ UNCHANGED <<mode, generation, lock, runs, discovery, worker, session, pool>>

ReconcilePredecessors(p) ==
  /\ At(p, {"built"}) /\ proc[p].gen = generation
  /\ runs' = [g \in Generation |->
                IF g < proc[p].gen /\ runs[g] \in {"ready", "degraded", "draining"}
                THEN "reconcile-required" ELSE runs[g]]
  /\ Step(p, "reconciled")
  /\ UNCHANGED <<mode, generation, lock, discovery, worker, session, pool>>

\* Credential, listener, then the ready receipt, refused to a stale generation.
RecordReady(p) ==
  /\ At(p, {"reconciled"}) /\ proc[p].gen = generation
  /\ runs' = [runs EXCEPT ![proc[p].gen] = "ready"]
  /\ Step(p, "recorded")
  /\ UNCHANGED <<mode, generation, lock, discovery, worker, session, pool>>

\* The discovery pointer is replaced atomically; nothing is ever deleted.
Publish(p) ==
  /\ At(p, {"recorded"})
  /\ discovery' = p
  /\ proc' = [proc EXCEPT ![p].stage = "ready", ![p].published = TRUE]
  /\ UNCHANGED <<mode, generation, lock, runs, worker, session, pool>>

Spawning(p) == \E w \in Worker : worker[w].owner = p /\ worker[w].phase \in InFlight

\* Recovery has run, the dispatcher's threads claim, and the listener starts to serve.
StartDispatch(p) ==
  /\ At(p, {"ready"}) /\ ~Spawning(p)
  /\ Step(p, "serving")
  /\ UNCHANGED <<mode, generation, lock, runs, discovery, worker, session, pool>>

-----------------------------------------------------------------------------
(* Serving.                                                                                  *)

\* A dispatcher thread runs a handler; nothing new starts once the dispatcher is closing.
HandlerStarts(p) ==
  /\ At(p, {"serving", "stopping", "draining"}) /\ ~proc[p].handler
  /\ proc' = [proc EXCEPT ![p].handler = TRUE]
  /\ UNCHANGED <<mode, generation, lock, runs, discovery, worker, session, pool>>

HandlerEnds(p) ==
  /\ mode = "supervised" /\ Alive(p) /\ proc[p].handler /\ ~Spawning(p)
  /\ proc' = [proc EXCEPT ![p].handler = FALSE]
  /\ UNCHANGED <<mode, generation, lock, runs, discovery, worker, session, pool>>

\* A client reads the discovery file; it must name a process that is alive.
LoadDiscovery(c) ==
  /\ mode = "supervised" /\ session[c] = NoSession
  /\ Alive(discovery)
  /\ session' = [session EXCEPT ![c].named = discovery]
  /\ UNCHANGED <<mode, generation, lock, proc, runs, discovery, worker, pool>>

\* Bug: the credential and the payload of the attach frame are not compared.
AuthenticatedUnchecked(c, p) == TRUE

\* The credential is that of the publication the client read, and the frame repeats its
\* generation, identity, capability and runtime-home digests.
Authenticated(c, p) == session[c].named = p

\* The peer's user, the credential and the attach frame: accepted, or answered with an error.
Accept(c, p) == IF Authenticated(c, p) THEN [session[c] EXCEPT !.peer = p] ELSE NoSession

\* The endpoint leads to its own publisher, or, for a reused TCP port, to a successor, which
\* rejects the credential; if nobody listens the connection fails.
Attach(c) ==
  /\ mode = "supervised" /\ session[c].named # None /\ session[c].peer = None
  /\ \/ \E p \in Process :
          /\ At(p, {"serving"})
          /\ session' = [session EXCEPT ![c] = Accept(c, p)]
     \/ ~At(session[c].named, {"serving"}) /\ session' = [session EXCEPT ![c] = NoSession]
  /\ UNCHANGED <<mode, generation, lock, proc, runs, discovery, worker, pool>>

\* A frame of the session is refused: generation, attachment, authority or deadline.
EndSession(c) ==
  /\ mode = "supervised" /\ session[c].peer # None
  /\ session' = [session EXCEPT ![c] = NoSession]
  /\ UNCHANGED <<mode, generation, lock, proc, runs, discovery, worker, pool>>

\* The client is done and has its answers, or waited for them in vain.
Detach(c) ==
  /\ mode = "supervised" /\ session[c].peer # None
  /\ session' = [session EXCEPT ![c] = NoSession]
  /\ UNCHANGED <<mode, generation, lock, proc, runs, discovery, worker, pool>>

-----------------------------------------------------------------------------
(* Worker processes.                                                                         *)

Working(p) == At(p, {"ready", "serving"}) \/ (mode = "supervised" /\ Alive(p) /\ proc[p].handler)

\* A thread of this process is spawning a worker in this way.
Busy(p, via) == \E w \in Worker :
  worker[w].owner = p /\ worker[w].via = via /\ worker[w].phase \in InFlight

\* The child is bound to a native handle before it is admitted.
ExactChild(p, via) ==
  [owner |-> p, gen |-> proc[p].gen, via |-> via, phase |-> "spawned", alive |-> TRUE,
   child |-> "active", binding |-> "none"]

\* create holds the table's lock while it spawns; restore does not; a restore over an existing
\* entry holds that entry's lock and registers only once the old worker is finished.
Spawn(p, w, via) ==
  /\ Working(p) /\ worker[w].phase = "none"
  /\ \A v \in 1..(w - 1) : worker[v].phase # "none"
  /\ IF via = "replace" THEN proc[p].slot # 0 /\ ~Busy(p, "replace")
     ELSE proc[p].slot = 0 /\ ~Busy(p, "create")
  /\ worker' = [worker EXCEPT ![w] = ExactChild(p, via)]
  /\ UNCHANGED <<mode, generation, lock, proc, runs, discovery, session, pool>>

Mine(p, w) == mode = "supervised" /\ Alive(p) /\ worker[w].owner = p

\* What terminalize may leave of a child: dead and reaped, or unresolved, and then it stays
\* so however often it is tried (it may still exit later).
Terminalized(w) ==
  IF worker[w].child # "active" THEN {[alive |-> worker[w].alive, child |-> worker[w].child]}
  ELSE {[alive |-> FALSE, child |-> "terminal"], [alive |-> worker[w].alive, child |-> "unresolved"]}

After(w, k) == [worker[w] EXCEPT !.alive = k.alive, !.child = k.child]

\* The binding of a worker is finished only once its child is terminal.
Finish(w, k) ==
  [After(w, k) EXCEPT !.phase = "gone", !.via = "none",
     !.binding = IF k.child = "terminal" /\ @ = "active" THEN "finished" ELSE @]

\* A worker that was spawned but is not used after all is terminated, then finished.
Discard(p, w) ==
  /\ Mine(p, w) /\ worker[w].phase \in InFlight
  /\ worker[w].phase = "registered" => worker[w].via # "create"
  /\ \E k \in Terminalized(w) : worker' = [worker EXCEPT ![w] = Finish(w, k)]
  /\ UNCHANGED <<mode, generation, lock, proc, runs, discovery, session, pool>>

\* WorkerManager.register looks for an active binding of the workspace ...
ClearRegistration(p, w) ==
  /\ Mine(p, w) /\ worker[w].phase = IF worker[w].via = "replace" THEN "handed" ELSE "spawned"
  /\ ~\E v \in Worker : Active(v)
  /\ worker' = [worker EXCEPT ![w].phase = "cleared"]
  /\ UNCHANGED <<mode, generation, lock, proc, runs, discovery, session, pool>>

\* ... and the insertion, a transaction of its own, only checks the generation.
Register(p, w) ==
  /\ Mine(p, w) /\ worker[w].phase = "cleared" /\ worker[w].gen = generation
  /\ worker' = [worker EXCEPT ![w].phase = "registered", ![w].binding = "active"]
  /\ UNCHANGED <<mode, generation, lock, proc, runs, discovery, session, pool>>

\* The worker enters the table, unless another one has meanwhile (Discard).
Install(p, w) ==
  /\ Mine(p, w) /\ worker[w].phase = "registered"
  /\ worker[w].via # "replace" => proc[p].slot = 0
  /\ worker[w].via = "restore" => ~Busy(p, "create")
  /\ worker' = [worker EXCEPT ![w].phase = "installed"]
  /\ proc' = [proc EXCEPT ![p].slot = w, ![p].usable = TRUE]
  /\ UNCHANGED <<mode, generation, lock, runs, discovery, session, pool>>

\* install_replacement: the old worker is terminated and finished before the new one is
\* registered; the entry is taken over under the old entry's lock.  If the old one cannot be
\* terminated the new one is discarded.
HandOver(p, w) ==
  /\ Mine(p, w) /\ worker[w].phase = "spawned" /\ worker[w].via = "replace"
  /\ proc[p].slot # 0
  /\ LET old == proc[p].slot
     IN \E k \in Terminalized(old) :
          IF k.child = "terminal"
          THEN /\ worker' = [worker EXCEPT ![old] = Finish(old, k), ![w].phase = "handed"]
               /\ proc' = [proc EXCEPT ![p].usable = FALSE]
          ELSE /\ \E j \in Terminalized(w) :
                    worker' = [worker EXCEPT ![old] = After(old, k), ![w] = Finish(w, j)]
               /\ UNCHANGED proc
  /\ UNCHANGED <<mode, generation, lock, runs, discovery, session, pool>>

\* The worker exits: its standard input ended, it crashed, or the machine took it.
WorkerExits(w) ==
  /\ worker[w].alive
  /\ worker' = [worker EXCEPT ![w].alive = FALSE]
  /\ UNCHANGED <<mode, generation, lock, proc, runs, discovery, session, pool>>

\* A heartbeat that finds another identity, or none, finishes the binding.
Heartbeat(p) ==
  /\ Working(p) /\ proc[p].slot # 0 /\ proc[p].usable
  /\ LET w == proc[p].slot
     IN /\ ~worker[w].alive /\ Active(w)
        /\ worker' = [worker EXCEPT ![w].binding = "finished"]
  /\ proc' = [proc EXCEPT ![p].usable = FALSE]
  /\ UNCHANGED <<mode, generation, lock, runs, discovery, session, pool>>

\* _mark_lost (a timeout, a protocol error, a dead pipe) and close: terminate, then finish; if
\* the child cannot be resolved the binding stays active and the entry as it is.
Retire(p) ==
  /\ Working(p) /\ proc[p].slot # 0 /\ proc[p].usable
  /\ LET w == proc[p].slot
     IN \E k \in Terminalized(w) :
          /\ worker' = [worker EXCEPT ![w] = IF k.child = "terminal" THEN Finish(w, k)
                                             ELSE After(w, k)]
          /\ proc' = [proc EXCEPT ![p].usable = (k.child # "terminal")]
  /\ UNCHANGED <<mode, generation, lock, runs, discovery, session, pool>>

-----------------------------------------------------------------------------
(* Stopping.                                                                                 *)

\* The stop event, or the request file of this very publication; the tasks of the listener
\* are cancelled before anything is torn down.
Stop(p) ==
  /\ At(p, {"serving"})
  /\ Step(p, "stopping") /\ Disconnect(p)
  /\ UNCHANGED <<mode, generation, lock, runs, discovery, worker, pool>>

\* A failure once the application exists: the same way out, with another receipt.
StartFails(p) ==
  /\ At(p, {"built", "reconciled", "recorded", "ready"}) /\ ~Spawning(p)
  /\ proc' = [proc EXCEPT ![p].stage = "stopping", ![p].failed = TRUE]
  /\ UNCHANGED <<mode, generation, lock, runs, discovery, worker, session, pool>>

ServeFails(p) ==
  /\ At(p, {"serving"})
  /\ proc' = [proc EXCEPT ![p].stage = "stopping", ![p].failed = TRUE]
  /\ Disconnect(p)
  /\ UNCHANGED <<mode, generation, lock, runs, discovery, worker, pool>>

\* transition_supervisor_run's table.
Follows(state) ==
  CASE state = "ready" -> {"degraded", "draining", "reconcile-required"}
    [] state = "degraded" -> {"draining", "reconcile-required"}
    [] state = "draining" -> {"stopped", "reconcile-required"}
    [] state = "reconcile-required" -> {"stopped"}
    [] OTHER -> {}

Transition(p, state) ==
  runs' = IF proc[p].published /\ state \in Follows(runs[proc[p].gen])
          THEN [runs EXCEPT ![proc[p].gen] = state] ELSE runs

BeginDrain(p) ==
  /\ At(p, {"stopping"})
  /\ Transition(p, "draining") /\ Step(p, "draining")
  /\ UNCHANGED <<mode, generation, lock, discovery, worker, session, pool>>

\* Bug: a thread that outlives the join is ignored.
CloseDispatcherAnyway(p) ==
  /\ At(p, {"draining"})
  /\ Step(p, "closed")
  /\ UNCHANGED <<mode, generation, lock, runs, discovery, worker, session, pool>>

\* dispatcher.close joins its threads; one still alive after the timeout raises, and with it
\* the whole shutdown: the stores stay open and the lock stays held until the process ends.
CloseDispatcher(p) ==
  /\ At(p, {"draining"})
  /\ IF proc[p].handler THEN Step(p, "stuck")
     ELSE ~Spawning(p) /\ Step(p, "closed")
  /\ UNCHANGED <<mode, generation, lock, runs, discovery, worker, session, pool>>

\* program_workspace.shutdown; a worker that cannot be resolved raises as well.
ShutdownWorkers(p) ==
  /\ At(p, {"closed"})
  /\ IF proc[p].slot = 0
     THEN Step(p, "drained") /\ UNCHANGED worker
     ELSE LET w == proc[p].slot
          IN \E k \in Terminalized(w) :
               IF k.child = "terminal"
               THEN /\ worker' = [worker EXCEPT ![w] = Finish(w, k)]
                    /\ proc' = [proc EXCEPT ![p].stage = "drained", ![p].slot = 0,
                                            ![p].usable = FALSE]
               ELSE worker' = [worker EXCEPT ![w] = After(w, k)] /\ Step(p, "stuck")
  /\ UNCHANGED <<mode, generation, lock, runs, discovery, session, pool>>

RecordEnd(p) ==
  /\ At(p, {"drained"})
  /\ Transition(p, IF proc[p].failed THEN "reconcile-required" ELSE "stopped")
  /\ Step(p, "ended")
  /\ UNCHANGED <<mode, generation, lock, discovery, worker, session, pool>>

\* application.close: the registry is closed, then the lock is released.
Release(p) ==
  /\ At(p, {"ended"})
  /\ lock' = None /\ worker' = Orphaned(p)
  /\ proc' = [proc EXCEPT ![p] = [Gone EXCEPT !.stage = "released", !.handler = proc[p].handler]]
  /\ UNCHANGED <<mode, generation, runs, discovery, session, pool>>

\* The process dies, or exits once it has shut down, or on the exception of its shutdown; the
\* kernel drops its lock.
Die(p) ==
  /\ mode = "supervised" /\ Alive(p)
  /\ lock' = IF lock = p THEN None ELSE lock
  /\ Exit(p) /\ worker' = Orphaned(p) /\ Disconnect(p)
  /\ UNCHANGED <<mode, generation, runs, discovery, pool>>

-----------------------------------------------------------------------------
(* The tenant pool.                                                                          *)

Public == mode = "public" /\ ~pool.closed

Used(t) == Append(SelectSeq(pool.order, LAMBDA u : u # t), t)

\* A runtime that is there is leased again, unless it is closing.
Lease(t) ==
  /\ Public /\ t \in pool.open \ pool.closing /\ pool.leases[t] < MaxLeases
  /\ pool' = [pool EXCEPT !.leases[t] = @ + 1, !.order = Used(t)]
  /\ UNCHANGED <<mode, supervised>>

\* The least recently used runtime that nobody leases.
Idle(u) ==
  \E i \in DOMAIN pool.order :
    /\ pool.order[i] = u /\ pool.leases[u] = 0
    /\ \A j \in 1..(i - 1) : pool.leases[pool.order[j]] > 0

\* The host of a new tenant is built under the tenant's own ownership lock.
OpenTenant(t) ==
  /\ Public /\ t \notin Range(pool.order) /\ Len(pool.order) < MaxTenants
  /\ pool' = [pool EXCEPT !.order = Used(t), !.leases[t] = 1, !.open = @ \union {t}]
  /\ UNCHANGED <<mode, supervised>>

\* At capacity the least recently used idle runtime is closed to make room; if that fails it
\* stays in the pool, closing, and is tried again by the next acquire.
Evict(t) ==
  /\ Public /\ t \notin Range(pool.order) /\ Len(pool.order) >= MaxTenants
  /\ \E u \in Tenant :
       /\ Idle(u)
       /\ \/ pool' = [pool EXCEPT !.order = Append(SelectSeq(@, LAMBDA v : v # u), t),
                                  !.leases[t] = 1, !.open = (@ \ {u}) \union {t},
                                  !.closing = @ \ {u}]
          \/ pool' = [pool EXCEPT !.closing = @ \union {u}]
  /\ UNCHANGED <<mode, supervised>>

\* A lease ends; if the pool has dropped the entry there is nothing left to count.
ReleaseLease(t) ==
  /\ mode = "public" /\ pool.leases[t] > 0
  /\ pool' = [pool EXCEPT !.leases[t] = @ - 1,
                          !.order = IF t \in Range(@) THEN Used(t) ELSE @]
  /\ UNCHANGED <<mode, supervised>>

\* The pool is closed, leased runtimes included; one that fails to close stays, and close may
\* be called again.
ClosePool ==
  /\ mode = "public" /\ (~pool.closed \/ pool.order # <<>>)
  /\ \E kept \in SUBSET Range(pool.order) :
       pool' = [pool EXCEPT !.closed = TRUE, !.closing = kept, !.open = kept,
                            !.order = SelectSeq(@, LAMBDA u : u \in kept)]
  /\ UNCHANGED <<mode, supervised>>

-----------------------------------------------------------------------------
Starting(p) ==
  \/ Launch(p) \/ CheckDiscovery(p) \/ TakeOwnership(p) \/ StartRuntime(p) \/ BuildFails(p)
  \/ \E w \in Worker : RecoverOrphan(p, w)
  \/ Built(p) \/ ReconcilePredecessors(p) \/ RecordReady(p) \/ Publish(p) \/ StartDispatch(p)

Workers(p) ==
  \/ \E w \in Worker : \/ \E via \in {"create", "restore", "replace"} : Spawn(p, w, via)
                       \/ ClearRegistration(p, w) \/ Register(p, w) \/ Install(p, w)
                       \/ HandOver(p, w) \/ Discard(p, w)
  \/ Heartbeat(p) \/ Retire(p)

Stopping(p) ==
  \/ Stop(p) \/ StartFails(p) \/ ServeFails(p) \/ BeginDrain(p) \/ CloseDispatcher(p)
  \/ ShutdownWorkers(p) \/ RecordEnd(p) \/ Release(p) \/ Die(p)

Next ==
  \/ \E p \in Process : Starting(p) \/ Workers(p) \/ Stopping(p)
                        \/ HandlerStarts(p) \/ HandlerEnds(p)
  \/ \E c \in Client : LoadDiscovery(c) \/ Attach(c) \/ EndSession(c) \/ Detach(c)
  \/ \E w \in Worker : WorkerExits(w)
  \/ \E t \in Tenant : Lease(t) \/ OpenTenant(t) \/ Evict(t) \/ ReleaseLease(t)
  \/ ClosePool

Spec == Init /\ [][Next]_vars

-----------------------------------------------------------------------------
\* Over any number of crashes, orphans that cannot be observed or killed and children that
\* cannot be resolved, two registered worker processes of a workspace are never alive together,
\* except while a create and a restore of one process race (register's check and insertion are
\* two transactions), and then at most one of them is in use.
OneWorkerPerWorkspace ==
  \A v, w \in Worker :
    v # w /\ worker[v].alive /\ worker[w].alive
          /\ worker[v].binding # "none" /\ worker[w].binding # "none" =>
      /\ worker[v].gen = worker[w].gen
      /\ ~(worker[v].phase = "installed" /\ worker[w].phase = "installed")

\* Whoever uses a runtime uses the one that owns it: the process behind an attached client or a
\* running handler holds the ownership lock in the registry's current generation and is the one
\* the client discovered, and a leased tenant runtime is open until the pool itself is closed.
UsersHaveTheOwner ==
  /\ \A c \in Client : session[c].peer # None =>
       /\ session[c].peer = session[c].named /\ lock = session[c].peer
       /\ proc[session[c].peer].gen = generation
  /\ \A p \in Process : proc[p].handler => lock = p /\ proc[p].gen = generation
  /\ \A t \in Tenant : pool.leases[t] > 0 /\ ~pool.closed => t \in pool.open
=============================================================================
