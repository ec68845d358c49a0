-------------------------- MODULE SupervisionProofs --------------------------
(***************************************************************************)
(* Who owns a runtime, for any number of competing processes, clients,     *)
(* workers and tenants.                                                    *)
(*                                                                         *)
(* The argument.  The ownership lock has one holder, every process between *)
(* taking and releasing it is that holder, and once it has started its     *)
(* runtime its generation is the registry's: so whoever serves a client or *)
(* runs a handler is current.  A generation therefore names one process,   *)
(* a live process knows all workers of its generation, and it keeps one of *)
(* them at a time in its table; a binding of another generation blocks the *)
(* registration of new ones for as long as it is active.                   *)
(***************************************************************************)
EXTENDS Supervision, TLAPS

-----------------------------------------------------------------------------
(* Types.                                                                  *)

\* Stages that hold the ownership lock, and those that also have a generation.
Running == {"started", "built", "reconciled", "recorded", "ready", "serving", "stopping",
            "draining", "closed", "stuck", "drained", "ended"}
Owning == Running \cup {"owner"}
Handling == {"serving", "stopping", "draining", "stuck"}
WorkStages == {"ready", "serving", "stopping", "draining", "closed", "stuck", "drained", "ended"}
QuietStages == {"closed", "drained", "ended"}
Stages == Owning \cup {"new", "preparing", "checked", "released", "dead"}
Phases == InFlight \cup {"none", "installed", "gone"}

Procs ==
  [stage : Stages, gen : Nat, todo : SUBSET Worker, slot : Worker \cup {0}, usable : BOOLEAN,
   published : BOOLEAN, failed : BOOLEAN, handler : BOOLEAN]
WorkerRows ==
  [owner : Process \cup {None}, gen : Nat, via : {"none", "create", "restore", "replace"},
   phase : Phases, alive : BOOLEAN, child : {"active", "terminal", "unresolved"},
   binding : {"none", "active", "finished"}]
Sessions == [named : Process \cup {None}, peer : Process \cup {None}]

SupervisionTypeOK ==
  /\ generation \in Nat
  /\ lock \in Process \cup {None}
  /\ discovery \in Process \cup {None}
  /\ proc \in [Process -> Procs]
  /\ worker \in [Worker -> WorkerRows]
  /\ session \in [Client -> Sessions]

-----------------------------------------------------------------------------
(* Processes and their clients.                                            *)

OwnersHold == \A p \in Process : proc[p].stage \in Owning => lock = p

GenerationIsCurrent ==
  \A p \in Process :
    /\ proc[p].stage \in Running => proc[p].gen = generation /\ proc[p].gen # 0
    /\ proc[p].stage \notin Running => proc[p].gen = 0 /\ proc[p].slot = 0

HandlersAreDrained ==
  \A p \in Process : proc[p].handler => proc[p].stage \in Handling

PeersServe ==
  \A c \in Client : session[c].peer # None =>
    session[c].peer = session[c].named /\ proc[session[c].peer].stage = "serving"

Owned == OwnersHold /\ GenerationIsCurrent /\ HandlersAreDrained /\ PeersServe

\* The pool: whatever is leased is open.
PoolFields == {"order", "leases", "open", "closing", "closed"}

LeasedIsOpen ==
  /\ pool = [f \in PoolFields |-> pool[f]]
  /\ pool.leases \in [Tenant -> Nat]
  /\ \A t \in Tenant : pool.leases[t] > 0 /\ ~pool.closed => t \in pool.open

-----------------------------------------------------------------------------
(* Workers.                                                                *)

\* A worker's owner is a process that has got as far as to spawn one.
OwnersWork ==
  \A w \in Worker, p \in Process : worker[w].owner = p =>
    /\ proc[p].stage \in WorkStages
    /\ worker[w].gen = proc[p].gen

\* Workers in flight have an owner; a process past its dispatcher has none in flight.
InFlightIsOwned ==
  \A w \in Worker : worker[w].phase \in InFlight => worker[w].owner # None

ClosedIsQuiet == \A p \in Process : proc[p].stage \in QuietStages => ~Spawning(p)

\* Generations are given out once, and a live process owns the workers of its own.
GenerationsArePast == \A w \in Worker : worker[w].gen <= generation

GenerationIsMine ==
  \A w \in Worker, p \in Process :
    worker[w].phase # "none" /\ proc[p].stage \in Running /\ worker[w].gen = proc[p].gen =>
      worker[w].owner = p

\* A terminal child and a finished binding mean a dead process; a worker that was
\* never spawned has no binding.
FinishedIsDead ==
  \A w \in Worker :
    /\ worker[w].child = "terminal" \/ worker[w].binding = "finished" => ~worker[w].alive
    /\ worker[w].phase \in {"none", "spawned", "handed", "cleared"} => worker[w].binding = "none"

\* The check of register still holds, but for workers of the same generation.
ClearedIsClear ==
  \A v, w \in Worker :
    worker[w].phase = "cleared" /\ worker[v].binding = "active" => worker[v].gen = worker[w].gen

ActiveShareGeneration ==
  \A v, w \in Worker :
    worker[v].binding = "active" /\ worker[w].binding = "active" => worker[v].gen = worker[w].gen

\* What a new process has to look at was bound.
TodoIsBound ==
  \A p \in Process : \A w \in proc[p].todo : worker[w].binding # "none"

\* The table's entry is a worker that was installed.
SlotWasInstalled ==
  \A p \in Process : proc[p].slot # 0 => worker[proc[p].slot].phase \in {"installed", "gone"}

InstalledIsSlot ==
  \A w \in Worker, p \in Process :
    worker[w].phase = "installed" /\ worker[w].owner = p => proc[p].slot = w

\* One replacement at a time, and once it has been handed the entry the old
\* worker is no longer in use.
Replacing(p, w) ==
  worker[w].owner = p /\ worker[w].via = "replace" /\ worker[w].phase \in InFlight

OneReplacement ==
  \A p \in Process, v, w \in Worker : Replacing(p, v) /\ Replacing(p, w) => v = w

HandedIsFree ==
  \A p \in Process, w \in Worker :
    Replacing(p, w) /\ worker[w].phase # "spawned" =>
      proc[p].slot # 0 /\ worker[proc[p].slot].phase = "gone"

OneInstalled ==
  \A v, w \in Worker :
    v # w /\ worker[v].phase = "installed" /\ worker[w].phase = "installed" =>
      worker[v].gen # worker[w].gen

Tended ==
  /\ OwnersWork /\ InFlightIsOwned /\ ClosedIsQuiet
  /\ GenerationsArePast /\ GenerationIsMine
  /\ FinishedIsDead /\ TodoIsBound /\ ClearedIsClear /\ ActiveShareGeneration
  /\ SlotWasInstalled /\ InstalledIsSlot /\ OneReplacement /\ HandedIsFree /\ OneInstalled

Safety == SupervisionTypeOK /\ Owned /\ Tended

-----------------------------------------------------------------------------
(* Ownership: what a step does to the processes.                           *)

\* One process moves, and stays on its side of the ownership lock.
Keeps(p) ==
  /\ proc' \in [Process -> Procs]
  /\ \A q \in Process : q # p => proc'[q] = proc[q]
  /\ UNCHANGED <<generation, lock>>
  /\ proc'[p].stage \in Owning <=> proc[p].stage \in Owning
  /\ proc'[p].stage \in Running <=> proc[p].stage \in Running
  /\ proc'[p].gen = proc[p].gen
  /\ proc'[p].stage \notin Running => proc'[p].slot = 0
  /\ proc'[p].handler => proc'[p].stage \in Handling

\* One process ends: its memory and its lock are gone.
Leaves(p) ==
  /\ proc' \in [Process -> Procs]
  /\ \A q \in Process : q # p => proc'[q] = proc[q]
  /\ UNCHANGED generation
  /\ lock' = IF lock = p THEN None ELSE lock
  /\ proc'[p].stage \in {"dead", "released"}
  /\ proc'[p].gen = 0 /\ proc'[p].slot = 0 /\ ~proc'[p].handler
  /\ proc'[p].todo = {}

\* Its clients are disconnected, or it had none.
Released(p) ==
  \/ Disconnect(p)
  \/ UNCHANGED session /\ (proc[p].stage = "serving" => proc'[p].stage = "serving")

LEMMA DisconnectPeers ==
  ASSUME SupervisionTypeOK, PeersServe, NEW p \in Process, Released(p),
         \A q \in Process : q # p => proc'[q] = proc[q]
  PROVE  session' \in [Client -> Sessions] /\ PeersServe'
<1>1. CASE Disconnect(p)
  <2>1. \A c \in Client : /\ session'[c] \in Sessions
                          /\ session'[c].peer # None => session'[c] = session[c] /\ session[c].peer # p
    BY <1>1 DEF SupervisionTypeOK, Disconnect, NoSession, Sessions
  <2>2. session' \in [Client -> Sessions]
    BY <1>1, <2>1 DEF Disconnect
  <2>3. \A c \in Client : session[c].peer # None => session[c].peer \in Process
    BY DEF SupervisionTypeOK, Sessions
  <2>4. PeersServe'
    BY <2>1, <2>3 DEF PeersServe
  <2> QED BY <2>2, <2>4
<1>2. CASE UNCHANGED session /\ (proc[p].stage = "serving" => proc'[p].stage = "serving")
  <2>1. \A c \in Client : session[c].peer # None => session[c].peer \in Process
    BY DEF SupervisionTypeOK, Sessions
  <2> QED BY <1>2, <2>1 DEF PeersServe, SupervisionTypeOK
<1> QED BY <1>1, <1>2 DEF Released

LEMMA KeepsOwned ==
  ASSUME SupervisionTypeOK, Owned, NEW p \in Process, Keeps(p), Released(p)
  PROVE  Owned'
<1>1. PeersServe'
  BY DisconnectPeers DEF Owned, Keeps
<1>2. OwnersHold'
  BY DEF Owned, Keeps, OwnersHold
<1>3. GenerationIsCurrent'
  BY DEF Owned, Keeps, GenerationIsCurrent
<1>4. HandlersAreDrained'
  BY DEF Owned, Keeps, HandlersAreDrained
<1> QED BY <1>1, <1>2, <1>3, <1>4 DEF Owned

LEMMA LeavesOwned ==
  ASSUME SupervisionTypeOK, Owned, NEW p \in Process, Leaves(p), Released(p)
  PROVE  Owned'
<1>1. PeersServe'
  BY DisconnectPeers DEF Owned, Leaves
<1>2. OwnersHold'
  BY SupervisionAssumption DEF Owned, Leaves, OwnersHold, Owning, Running
<1>3. GenerationIsCurrent'
  BY DEF Owned, Leaves, GenerationIsCurrent, Running
<1>4. HandlersAreDrained'
  BY DEF Owned, Leaves, HandlersAreDrained
<1> QED BY <1>1, <1>2, <1>3, <1>4 DEF Owned

-----------------------------------------------------------------------------
(* Rows.                                                                   *)

LEMMA StepRow ==
  ASSUME SupervisionTypeOK, NEW p \in Process, NEW stage \in Stages, Step(p, stage)
  PROVE  /\ proc' \in [Process -> Procs]
         /\ \A q \in Process : q # p => proc'[q] = proc[q]
         /\ proc'[p].stage = stage /\ proc'[p].gen = proc[p].gen /\ proc'[p].slot = proc[p].slot
         /\ proc'[p].todo = proc[p].todo /\ proc'[p].handler = proc[p].handler
BY DEF SupervisionTypeOK, Step, Procs

LEMMA ExitRow ==
  ASSUME SupervisionTypeOK, NEW p \in Process, Exit(p)
  PROVE  /\ proc' \in [Process -> Procs]
         /\ \A q \in Process : q # p => proc'[q] = proc[q]
         /\ proc'[p].stage = "dead" /\ proc'[p].gen = 0 /\ proc'[p].slot = 0
         /\ proc'[p].todo = {} /\ ~proc'[p].handler
<1>1. Gone \in Procs /\ Gone.stage = "dead" /\ Gone.gen = 0 /\ Gone.slot = 0 /\ Gone.todo = {}
      /\ ~Gone.handler
  BY DEF Gone, NewProcess, Procs, Stages
<1> QED BY <1>1 DEF SupervisionTypeOK, Exit

-----------------------------------------------------------------------------
(* Workers: what most steps do to them, and what they do to the tables.    *)

\* A worker dies, its binding is finished, it leaves the way to the table or the table.
Declining(w) ==
  /\ worker'[w].owner = worker[w].owner /\ worker'[w].gen = worker[w].gen
  /\ worker'[w].alive => worker[w].alive
  /\ \/ worker'[w].phase = worker[w].phase /\ worker'[w].via = worker[w].via
     \/ worker'[w].phase = "gone" /\ worker[w].phase # "none"
  /\ \/ worker'[w].binding = worker[w].binding
     \/ worker'[w].binding = "finished" /\ worker[w].binding # "none" /\ ~worker'[w].alive
  /\ worker'[w].child = "terminal" => ~worker'[w].alive

Declines == worker' \in [Worker -> WorkerRows] /\ \A w \in Worker : Declining(w)

\* A process that moves keeps its workers and its table, or empties it.
Tends(p) ==
  /\ proc[p].stage \in WorkStages => proc'[p].stage \in WorkStages
  /\ proc'[p].stage \in QuietStages => proc[p].stage \in QuietStages \/ ~Spawning(p)
  /\ proc'[p].todo \subseteq proc[p].todo
  /\ \/ proc'[p].slot = proc[p].slot
     \/ /\ proc'[p].slot = 0 /\ proc[p].slot # 0 /\ ~Spawning(p)
        /\ worker'[proc[p].slot].phase = "gone"

LEMMA DeclinesTended ==
  ASSUME Safety, NEW p \in Process, Keeps(p), Tends(p), Declines
  PROVE  Tended'
<1> USE DEF Safety, Tended, Declines, Declining
<1>0. /\ generation' = generation
      /\ \A q \in Process :
           /\ proc'[q].gen = proc[q].gen
           /\ proc'[q].stage \in Running <=> proc[q].stage \in Running
           /\ proc[q].stage \in WorkStages => proc'[q].stage \in WorkStages
           /\ proc'[q].todo \subseteq proc[q].todo
           /\ proc'[q].slot # 0 => proc'[q].slot = proc[q].slot
  BY DEF Keeps, Tends
<1>w. \A w \in Worker : worker[w] \in WorkerRows
  BY DEF SupervisionTypeOK
<1>f. \A w \in Worker : worker'[w].phase \in InFlight =>
        worker[w].phase \in InFlight /\ worker[w].via = worker'[w].via
  BY DEF InFlight
<1>1. OwnersWork'
  BY <1>0 DEF OwnersWork
<1>2. InFlightIsOwned'
  BY <1>f DEF InFlightIsOwned
<1>3. ClosedIsQuiet'
  BY <1>f DEF ClosedIsQuiet, Spawning, Keeps, Tends
<1>4. GenerationsArePast'
  BY <1>0 DEF GenerationsArePast
<1>5. GenerationIsMine'
  BY <1>0 DEF GenerationIsMine
<1>6. FinishedIsDead'
  BY <1>w DEF FinishedIsDead
<1>7. TodoIsBound'
  BY <1>0 DEF TodoIsBound, SupervisionTypeOK, Procs
<1>8. ClearedIsClear'
  BY DEF ClearedIsClear
<1>9. ActiveShareGeneration'
  BY DEF ActiveShareGeneration
<1>10. SlotWasInstalled'
  BY <1>0 DEF SlotWasInstalled, SupervisionTypeOK, Procs
<1>11. InstalledIsSlot'
  <2>1. SUFFICES ASSUME NEW w \in Worker, NEW q \in Process, worker'[w].phase = "installed",
                        worker'[w].owner = q
                 PROVE  proc'[q].slot = w
    BY DEF InstalledIsSlot
  <2>2. worker[w].phase = "installed" /\ proc[q].slot = w
    BY <2>1 DEF InstalledIsSlot
  <2> QED BY <2>1, <2>2 DEF Keeps, Tends
<1>12. OneReplacement'
  BY <1>f DEF OneReplacement, Replacing
<1>13. HandedIsFree'
  <2>1. SUFFICES ASSUME NEW q \in Process, NEW w \in Worker, Replacing(q, w)',
                        worker'[w].phase # "spawned"
                 PROVE  proc'[q].slot # 0 /\ worker'[proc'[q].slot].phase = "gone"
    BY DEF HandedIsFree
  <2>2. Replacing(q, w) /\ worker'[w].phase = worker[w].phase /\ Spawning(q)
    BY <2>1, <1>f DEF Replacing, InFlight, Spawning
  <2>3. proc[q].slot # 0 /\ worker[proc[q].slot].phase = "gone" /\ proc'[q].slot = proc[q].slot
    BY <2>1, <2>2 DEF HandedIsFree, Keeps, Tends
  <2> QED BY <2>3 DEF SupervisionTypeOK, Procs
<1>14. OneInstalled'
  BY DEF OneInstalled
<1> QED BY <1>1, <1>2, <1>3, <1>4, <1>5, <1>6, <1>7, <1>8, <1>9, <1>10, <1>11, <1>12, <1>13, <1>14

\* Such a step preserves the invariant.
LEMMA SteadySafe ==
  ASSUME Safety, NEW p \in Process, Keeps(p), Released(p), Tends(p), Declines,
         discovery' \in Process \cup {None}
  PROVE  Safety'
<1>1. Owned'
  BY KeepsOwned DEF Safety
<1>2. session' \in [Client -> Sessions]
  BY DisconnectPeers DEF Safety, Owned, Keeps
<1>3. SupervisionTypeOK'
  BY <1>2 DEF Safety, SupervisionTypeOK, Keeps, Declines
<1> QED BY <1>1, <1>3, DeclinesTended DEF Safety

\* What a process leaves behind.
Abandoned(p) ==
  /\ worker' \in [Worker -> WorkerRows]
  /\ \A w \in Worker :
       IF worker[w].owner # p THEN worker'[w] = worker[w]
       ELSE /\ worker'[w].owner = None /\ worker'[w].gen = worker[w].gen
            /\ worker'[w].phase \in {worker[w].phase, "gone"} \cap {"installed", "gone"}
            /\ worker[w].phase = "installed" => worker'[w].phase = "installed"
            /\ worker'[w].alive = worker[w].alive /\ worker'[w].child = "active"
            /\ worker'[w].binding = worker[w].binding

LEMMA LeavesTended ==
  ASSUME Safety, NEW p \in Process, Leaves(p), Abandoned(p)
  PROVE  Tended'
<1> USE DEF Safety, Tended
<1>0. /\ generation' = generation
      /\ proc'[p].slot = 0 /\ proc'[p].gen = 0 /\ proc'[p].todo = {}
      /\ proc'[p].stage \notin Running /\ proc'[p].stage \notin QuietStages
      /\ \A q \in Process : q # p => proc'[q] = proc[q]
  BY DEF Leaves, Running, QuietStages
<1>p. \A q \in Process : q # None
  BY SupervisionAssumption
<1>w. \A w \in Worker : worker[w].owner # p => worker'[w] = worker[w]
  BY DEF Abandoned
<1>o. \A w \in Worker : worker[w].owner = p =>
        /\ worker'[w].owner = None /\ worker'[w].phase \in {"installed", "gone"}
        /\ worker[w].phase # "installed" => worker'[w].phase = "gone"
        /\ worker[w].phase = "installed" => worker'[w].phase = "installed"
        /\ worker'[w].child = "active"
  BY DEF Abandoned
<1>s. \A w \in Worker : /\ worker'[w].gen = worker[w].gen /\ worker'[w].alive = worker[w].alive
                        /\ worker'[w].binding = worker[w].binding
  BY DEF Abandoned
<1>1. OwnersWork'
  BY <1>0, <1>p, <1>w, <1>o DEF OwnersWork
<1>2. InFlightIsOwned'
  BY <1>w, <1>o DEF InFlightIsOwned, InFlight
<1>3. ClosedIsQuiet'
  BY <1>0, <1>w, <1>o DEF ClosedIsQuiet, Spawning, InFlight
<1>4. GenerationsArePast'
  BY <1>0, <1>s DEF GenerationsArePast
<1>5. GenerationIsMine'
  <2>1. SUFFICES ASSUME NEW w \in Worker, NEW q \in Process, worker'[w].phase # "none",
                        proc'[q].stage \in Running, worker'[w].gen = proc'[q].gen
                 PROVE  worker'[w].owner = q
    BY DEF GenerationIsMine
  <2>2. q # p /\ proc'[q] = proc[q]
    BY <2>1, <1>0
  <2>3. CASE worker[w].owner = p
    <3>1. proc[p].stage \in Running /\ proc[p].gen = worker[w].gen
      BY <2>3 DEF OwnersWork, WorkStages, Running
    <3>2. lock = p /\ lock = q
      BY <3>1, <2>1, <2>2 DEF Owned, OwnersHold, Owning
    <3> QED BY <3>2, <2>2
  <2>4. CASE worker[w].owner # p
    BY <2>1, <2>2, <2>4, <1>w DEF GenerationIsMine
  <2> QED BY <2>3, <2>4
<1>6. FinishedIsDead'
  BY <1>w, <1>o, <1>s DEF FinishedIsDead
<1>7. TodoIsBound'
  BY <1>0, <1>s DEF TodoIsBound, SupervisionTypeOK, Procs
<1>8. ClearedIsClear'
  BY <1>w, <1>o, <1>s DEF ClearedIsClear
<1>9. ActiveShareGeneration'
  BY <1>s DEF ActiveShareGeneration
<1>10. SlotWasInstalled'
  BY <1>0, <1>w, <1>o DEF SlotWasInstalled, SupervisionTypeOK, Procs
<1>11. InstalledIsSlot'
  BY <1>0, <1>p, <1>w, <1>o DEF InstalledIsSlot
<1>12. OneReplacement'
  BY <1>0, <1>w, <1>o DEF OneReplacement, Replacing, InFlight
<1>13. HandedIsFree'
  <2>1. SUFFICES ASSUME NEW q \in Process, NEW w \in Worker, Replacing(q, w)',
                        worker'[w].phase # "spawned"
                 PROVE  proc'[q].slot # 0 /\ worker'[proc'[q].slot].phase = "gone"
    BY DEF HandedIsFree
  <2>2. worker[w].owner = q /\ worker'[w] = worker[w] /\ q # p
    BY <2>1, <1>w, <1>o DEF Replacing, InFlight
  <2>3. proc[q].slot # 0 /\ worker[proc[q].slot].phase = "gone" /\ proc'[q].slot = proc[q].slot
    BY <2>1, <2>2, <1>0 DEF HandedIsFree, Replacing
  <2> QED BY <2>3, <1>w, <1>o DEF SupervisionTypeOK, Procs
<1>14. OneInstalled'
  BY <1>w, <1>o, <1>s DEF OneInstalled
<1> QED BY <1>1, <1>2, <1>3, <1>4, <1>5, <1>6, <1>7, <1>8, <1>9, <1>10, <1>11, <1>12, <1>13, <1>14

LEMMA LeavesSafe ==
  ASSUME Safety, NEW p \in Process, Leaves(p), Released(p), Abandoned(p), UNCHANGED discovery
  PROVE  Safety'
<1>1. Owned'
  BY LeavesOwned DEF Safety
<1>2. session' \in [Client -> Sessions]
  BY DisconnectPeers DEF Safety, Owned, Leaves
<1>3. SupervisionTypeOK'
  BY <1>2 DEF Safety, SupervisionTypeOK, Leaves, Abandoned
<1> QED BY <1>1, <1>3, LeavesTended DEF Safety

LEMMA StillDeclines ==
  ASSUME Safety, UNCHANGED worker
  PROVE  Declines
BY DEF Safety, SupervisionTypeOK, Tended, FinishedIsDead, Declines, Declining

\* Starting: every step but the one that starts the runtime.
LEMMA StartingSafe ==
  ASSUME Safety, NEW p \in Process, Starting(p), ~StartRuntime(p)
  PROVE  Safety'
<1> USE DEF At, Alive
<1>t. SupervisionTypeOK /\ proc[p] \in Procs
  BY DEF Safety, SupervisionTypeOK
<1>o. /\ proc[p].stage \in Owning => lock = p
      /\ proc[p].stage \notin Running => proc[p].gen = 0 /\ proc[p].slot = 0
      /\ proc[p].handler => proc[p].stage \in Handling
  BY DEF Safety, Owned, OwnersHold, GenerationIsCurrent, HandlersAreDrained
<1>l. \A q \in Process : proc[q].stage \in Owning => lock = q
  BY DEF Safety, Owned, OwnersHold
<1>i. proc[p].stage \notin WorkStages => \A w \in Worker : worker[w].owner # p
  BY DEF Safety, Tended, OwnersWork
<1>a. UNCHANGED worker /\ proc[p].stage \notin WorkStages => Abandoned(p)
  BY <1>i, <1>t DEF Abandoned, SupervisionTypeOK
<1>1. CASE Launch(p)
  <2>1. Keeps(p) /\ Released(p) /\ Tends(p)
    BY <1>1, <1>t, <1>o, StepRow
    DEF Launch, Keeps, Released, Tends, Stages, Owning, Running, WorkStages, QuietStages, Handling
  <2> QED BY <1>1, <1>t, <2>1, StillDeclines, SteadySafe DEF Launch, SupervisionTypeOK
<1>2. CASE CheckDiscovery(p)
  <2>1. CASE Step(p, "checked")
    <3>1. Keeps(p) /\ Released(p) /\ Tends(p)
      BY <1>2, <2>1, <1>t, <1>o, StepRow
      DEF CheckDiscovery, Keeps, Released, Tends, Stages, Owning, Running, WorkStages,
          QuietStages,
          Handling
    <3> QED BY <1>2, <1>t, <3>1, StillDeclines, SteadySafe DEF CheckDiscovery, SupervisionTypeOK
  <2>2. CASE Exit(p)
    <3>1. Keeps(p) /\ Released(p) /\ Tends(p)
      BY <1>2, <2>2, <1>t, <1>o, ExitRow
      DEF CheckDiscovery, Keeps, Released, Tends, Stages, Owning, Running, WorkStages,
          QuietStages,
          Handling
    <3> QED BY <1>2, <1>t, <3>1, StillDeclines, SteadySafe DEF CheckDiscovery, SupervisionTypeOK
  <2> QED BY <1>2, <2>1, <2>2 DEF CheckDiscovery
<1>3. CASE TakeOwnership(p)
  <2>1. CASE lock = None
    <3>0. /\ proc' \in [Process -> Procs] /\ lock' = p
          /\ \A q \in Process : q # p => proc'[q] = proc[q]
          /\ proc'[p].stage = "owner" /\ proc'[p].gen = 0 /\ proc'[p].slot = 0
          /\ ~proc'[p].handler /\ proc'[p].todo = proc[p].todo
      BY <1>3, <2>1, <1>t, <1>o, StepRow DEF TakeOwnership, Stages, Running, Owning, Handling
    <3>1. \A q \in Process : proc[q].stage \notin Owning
      BY <1>l, <2>1, SupervisionAssumption
    <3>2. Owned'
      <4>1. PeersServe'
        BY <1>3, <1>t, <3>0, DisconnectPeers DEF TakeOwnership, Released, Safety, Owned
      <4>2. OwnersHold' /\ GenerationIsCurrent' /\ HandlersAreDrained'
        BY <1>3, <3>0, <3>1
        DEF TakeOwnership, Safety, Owned, OwnersHold, GenerationIsCurrent, HandlersAreDrained,
            Running, Owning
      <4> QED BY <4>1, <4>2 DEF Owned
    <3>3. Tended'
      <4>0. \A q \in Process : /\ proc'[q].gen = proc[q].gen /\ proc'[q].todo = proc[q].todo
                               /\ proc'[q].slot = proc[q].slot
                               /\ proc'[q].stage \in Running <=> proc[q].stage \in Running
                               /\ proc'[q].stage \in WorkStages <=> proc[q].stage \in WorkStages
                               /\ proc'[q].stage \in QuietStages <=> proc[q].stage \in QuietStages
        BY <1>3, <3>0, <1>o DEF TakeOwnership, Running, WorkStages, QuietStages
      <4>1. UNCHANGED <<worker, generation>>
        BY <1>3 DEF TakeOwnership
      <4> QED BY <4>0, <4>1
      DEF Safety, Tended, OwnersWork, InFlightIsOwned, ClosedIsQuiet, Spawning,
          GenerationsArePast,
          GenerationIsMine, FinishedIsDead, TodoIsBound, ClearedIsClear, ActiveShareGeneration,
          SlotWasInstalled, InstalledIsSlot, OneReplacement, Replacing, HandedIsFree, OneInstalled
    <3> QED BY <1>3, <1>t, <3>0, <3>2, <3>3 DEF Safety, SupervisionTypeOK, TakeOwnership
  <2>2. CASE lock # None
    <3>1. Keeps(p) /\ Released(p) /\ Tends(p)
      BY <1>3, <2>2, <1>t, <1>o, ExitRow
      DEF TakeOwnership, Keeps, Released, Tends, Stages, Owning, Running, WorkStages, QuietStages,
          Handling
    <3> QED BY <1>3, <1>t, <3>1, StillDeclines, SteadySafe DEF TakeOwnership, SupervisionTypeOK
  <2> QED BY <2>1, <2>2
<1>4. CASE BuildFails(p)
  <2>1. Leaves(p) /\ Released(p)
    BY <1>4, <1>t, <1>o, ExitRow DEF BuildFails, Leaves, Released, Owning, Running
  <2>2. Abandoned(p)
    BY <1>4, <1>a DEF BuildFails, WorkStages
  <2> QED BY <1>4, <2>1, <2>2, LeavesSafe DEF BuildFails
<1>5. CASE \E w \in Worker : RecoverOrphan(p, w)
  <2> PICK w \in Worker : RecoverOrphan(p, w)
    BY <1>5
  <2>1. Keeps(p) /\ Released(p) /\ Tends(p)
    BY <1>t, <1>o
    DEF RecoverOrphan, SupervisionTypeOK, Procs, Keeps, Released, Tends, Owning, Running,
        WorkStages, QuietStages, Handling
  <2>2. Declines
    <3>1. CASE UNCHANGED worker
      BY <3>1, StillDeclines
    <3>2. CASE worker' = FinishPrior(w)
      <4>1. worker[w].binding # "none"
        BY DEF Safety, Tended, TodoIsBound, RecoverOrphan
      <4>2. /\ worker' \in [Worker -> WorkerRows]
            /\ \A v \in Worker : v # w => worker'[v] = worker[v]
            /\ worker'[w].owner = worker[w].owner /\ worker'[w].gen = worker[w].gen
            /\ worker'[w].phase = worker[w].phase /\ worker'[w].via = worker[w].via
            /\ ~worker'[w].alive /\ worker'[w].binding = "finished"
        BY <1>t, <3>2 DEF SupervisionTypeOK, FinishPrior, WorkerRows
      <4> QED BY <4>1, <4>2 DEF Safety, Tended, FinishedIsDead, Declines, Declining
    <3> QED BY <3>1, <3>2 DEF RecoverOrphan
  <2> QED BY <1>t, <2>1, <2>2, SteadySafe DEF RecoverOrphan, SupervisionTypeOK
<1>6. CASE Built(p)
  <2>1. Keeps(p) /\ Released(p) /\ Tends(p)
    BY <1>6, <1>t, <1>o, StepRow
    DEF Built, Keeps, Released, Tends, Stages, Owning, Running, WorkStages, QuietStages, Handling
  <2> QED BY <1>6, <1>t, <2>1, StillDeclines, SteadySafe DEF Built, SupervisionTypeOK
<1>7. CASE ReconcilePredecessors(p)
  <2>1. Keeps(p) /\ Released(p) /\ Tends(p)
    BY <1>7, <1>t, <1>o, StepRow
    DEF ReconcilePredecessors, Keeps, Released, Tends, Stages, Owning, Running, WorkStages,
        QuietStages, Handling
  <2> QED BY <1>7, <1>t, <2>1, StillDeclines, SteadySafe
          DEF ReconcilePredecessors, SupervisionTypeOK
<1>8. CASE RecordReady(p)
  <2>1. Keeps(p) /\ Released(p) /\ Tends(p)
    BY <1>8, <1>t, <1>o, StepRow
    DEF RecordReady, Keeps, Released, Tends, Stages, Owning, Running, WorkStages, QuietStages,
        Handling
  <2> QED BY <1>8, <1>t, <2>1, StillDeclines, SteadySafe DEF RecordReady, SupervisionTypeOK
<1>9. CASE Publish(p)
  <2>1. Keeps(p) /\ Released(p) /\ Tends(p)
    BY <1>9, <1>t, <1>o
    DEF Publish, SupervisionTypeOK, Procs, Stages, Keeps, Released, Tends, Owning, Running,
        WorkStages, QuietStages, Handling
  <2> QED BY <1>9, <1>t, <2>1, StillDeclines, SteadySafe DEF Publish
<1>10. CASE StartDispatch(p)
  <2>1. Keeps(p) /\ Released(p) /\ Tends(p)
    BY <1>10, <1>t, <1>o, StepRow
    DEF StartDispatch, Keeps, Released, Tends, Stages, Owning, Running, WorkStages, QuietStages,
        Handling
  <2> QED BY <1>10, <1>t, <2>1, StillDeclines, SteadySafe DEF StartDispatch, SupervisionTypeOK
<1> QED BY <1>1, <1>2, <1>3, <1>4, <1>5, <1>6, <1>7, <1>8, <1>9, <1>10 DEF Starting

\* A new generation: no worker has it yet, and its holder alone is current.
LEMMA StartRuntimeSafe ==
  ASSUME Safety, NEW p \in Process, StartRuntime(p)
  PROVE  Safety'
<1> USE DEF At
<1>t. SupervisionTypeOK /\ proc[p] \in Procs
  BY DEF Safety, SupervisionTypeOK
<1> DEFINE bound == {w \in Worker : Active(w)}
<1>0. /\ proc' \in [Process -> Procs]
      /\ \A q \in Process : q # p => proc'[q] = proc[q]
      /\ proc'[p].stage = "started" /\ proc'[p].gen = generation + 1
      /\ proc'[p].slot = proc[p].slot /\ proc'[p].handler = proc[p].handler
      /\ proc'[p].todo = bound
  <2>1. bound \in SUBSET Worker /\ generation + 1 \in Nat /\ "started" \in Stages
    BY <1>t DEF SupervisionTypeOK, Stages, Owning, Running
  <2>2. proc' = [proc EXCEPT ![p].stage = "started", ![p].gen = generation + 1, ![p].todo = bound]
    BY DEF StartRuntime
  <2> HIDE DEF bound
  <2> QED BY <1>t, <2>1, <2>2 DEF SupervisionTypeOK, Procs
<1>1. lock = p /\ \A q \in Process : q # p => proc[q].stage \notin Owning
  BY DEF StartRuntime, Safety, Owned, OwnersHold, Owning
<1>2. generation \in Nat /\ generation' = generation + 1 /\ UNCHANGED <<lock, worker, session>>
  BY <1>t DEF StartRuntime, SupervisionTypeOK
<1>3. proc[p].stage = "owner" /\ proc[p].slot = 0 /\ ~proc[p].handler
  BY DEF StartRuntime, Safety, Owned, GenerationIsCurrent, HandlersAreDrained, Running, Handling
<1>4. Owned'
  <2>1. PeersServe'
    BY <1>0, <1>2, <1>3, <1>t, DisconnectPeers DEF Released, Safety, Owned
  <2>2. OwnersHold' /\ HandlersAreDrained'
    BY <1>0, <1>1, <1>2, <1>3 DEF Safety, Owned, OwnersHold, HandlersAreDrained
  <2>3. GenerationIsCurrent'
    <3>1. \A q \in Process : q # p => proc'[q].stage \notin Running /\ proc'[q].gen = 0
                                      /\ proc'[q].slot = 0
      BY <1>0, <1>1 DEF Safety, Owned, GenerationIsCurrent, Owning
    <3>2. proc'[p].gen = generation' /\ proc'[p].gen # 0 /\ proc'[p].stage \in Running
      BY <1>0, <1>2 DEF Running
    <3> QED BY <3>1, <3>2 DEF GenerationIsCurrent
  <2> QED BY <2>1, <2>2, <2>3 DEF Owned
<1>5. Tended'
  <2>1. \A w \in Worker : worker[w].owner # p /\ worker[w].gen \in Nat /\ worker[w].gen <= generation
    BY <1>3, <1>t
    DEF Safety, Tended, OwnersWork, WorkStages, GenerationsArePast, SupervisionTypeOK,
                      WorkerRows
  <2>2. \A q \in Process : /\ proc'[q].stage \in QuietStages => proc'[q] = proc[q]
                           /\ proc'[q].slot = proc[q].slot
    BY <1>0 DEF QuietStages
  <2>3. OwnersWork' /\ GenerationsArePast' /\ GenerationIsMine'
    BY <1>0, <1>1, <1>2, <2>1
    DEF Safety, Tended, OwnersWork, GenerationsArePast, GenerationIsMine, Owning
  <2>4. TodoIsBound'
    BY <1>0, <1>2 DEF Safety, Tended, TodoIsBound, Active
  <2> QED BY <1>2, <2>2, <2>3, <2>4
      DEF Safety, Tended, InFlightIsOwned, ClosedIsQuiet, Spawning, FinishedIsDead,
          ClearedIsClear,
          ActiveShareGeneration, SlotWasInstalled, InstalledIsSlot, OneReplacement, Replacing,
          HandedIsFree, OneInstalled
<1> QED BY <1>0, <1>2, <1>4, <1>5, <1>t DEF Safety, SupervisionTypeOK, StartRuntime

-----------------------------------------------------------------------------
(* The steps of the worker manager.                                        *)

\* Who may spawn, or tend a worker, holds the lock and is not past its dispatcher.
LEMMA WorkingStage ==
  ASSUME Safety, NEW p \in Process, Working(p)
  PROVE  proc[p].stage \in {"ready"} \cup Handling
BY DEF Safety, Owned, HandlersAreDrained, Working, At, Handling

\* Whatever is in flight belongs to the one process that runs.
LEMMA RunningIsOne ==
  ASSUME Safety, NEW p \in Process, NEW q \in Process, proc[p].stage \in Owning,
         proc[q].stage \in Owning
  PROVE  p = q
BY DEF Safety, Owned, OwnersHold

LEMMA InFlightIsMine ==
  ASSUME Safety, NEW p \in Process, proc[p].stage \in Owning, NEW w \in Worker,
         worker[w].phase \in InFlight
  PROVE  worker[w].owner = p /\ worker[w].gen = proc[p].gen
<1>1. worker[w].owner \in Process
  BY DEF Safety, Tended, InFlightIsOwned, SupervisionTypeOK, WorkerRows
<1>2. /\ proc[worker[w].owner].stage \in Owning
      /\ worker[w].gen = proc[worker[w].owner].gen
  BY <1>1 DEF Safety, Tended, OwnersWork, WorkStages, Owning, Running
<1> QED BY <1>1, <1>2, RunningIsOne

\* What terminalize leaves of a child.
LEMMA TerminalizedRow ==
  ASSUME Safety, NEW w \in Worker, NEW k \in Terminalized(w)
  PROVE  /\ k.alive \in BOOLEAN /\ k.child \in {"active", "terminal", "unresolved"}
         /\ k.alive => worker[w].alive
         /\ k.child = "terminal" => ~k.alive
<1>1. worker[w] \in WorkerRows /\ (worker[w].child = "terminal" => ~worker[w].alive)
  BY DEF Safety, SupervisionTypeOK, Tended, FinishedIsDead
<1>2. \/ k = [alive |-> worker[w].alive, child |-> worker[w].child]
      \/ k = [alive |-> FALSE, child |-> "terminal"]
      \/ k = [alive |-> worker[w].alive, child |-> "unresolved"]
  BY DEF Terminalized
<1>3. CASE k = [alive |-> worker[w].alive, child |-> worker[w].child]
  BY <1>1, <1>3 DEF WorkerRows
<1>4. CASE k = [alive |-> FALSE, child |-> "terminal"]
  BY <1>4
<1>5. CASE k = [alive |-> worker[w].alive, child |-> "unresolved"]
  BY <1>1, <1>5 DEF WorkerRows
<1> QED BY <1>2, <1>3, <1>4, <1>5

LEMMA AfterRow ==
  ASSUME Safety, NEW w \in Worker, NEW k \in Terminalized(w)
  PROVE  /\ After(w, k) \in WorkerRows
         /\ After(w, k).owner = worker[w].owner /\ After(w, k).gen = worker[w].gen
         /\ After(w, k).via = worker[w].via /\ After(w, k).phase = worker[w].phase
         /\ After(w, k).alive = k.alive /\ After(w, k).child = k.child
         /\ After(w, k).binding = worker[w].binding
<1>1. worker[w] \in WorkerRows
  BY DEF Safety, SupervisionTypeOK
<1> QED BY <1>1, TerminalizedRow DEF After, WorkerRows

LEMMA FinishRow ==
  ASSUME Safety, NEW w \in Worker, NEW k \in Terminalized(w)
  PROVE  /\ Finish(w, k) \in WorkerRows
         /\ Finish(w, k).owner = worker[w].owner /\ Finish(w, k).gen = worker[w].gen
         /\ Finish(w, k).phase = "gone"
         /\ Finish(w, k).alive = k.alive /\ Finish(w, k).child = k.child
         /\ \/ Finish(w, k).binding = worker[w].binding
            \/ /\ worker[w].binding = "active" /\ Finish(w, k).binding = "finished"
               /\ k.child = "terminal"
<1>1. After(w, k) \in WorkerRows /\ After(w, k).binding = worker[w].binding
      /\ After(w, k).owner = worker[w].owner /\ After(w, k).gen = worker[w].gen
      /\ After(w, k).alive = k.alive /\ After(w, k).child = k.child
  BY AfterRow
<1> HIDE DEF After
<1> QED BY <1>1 DEF Finish, WorkerRows, Phases

\* The worker processes of the table: one row is replaced by such a row.
LEMMA TerminatedDeclines ==
  ASSUME Safety, NEW w \in Worker, worker[w].phase # "none", NEW k \in Terminalized(w),
         \/ worker' = [worker EXCEPT ![w] = Finish(w, k)]
         \/ worker' = [worker EXCEPT ![w] = After(w, k)]
  PROVE  Declines
<1>1. worker \in [Worker -> WorkerRows]
  BY DEF Safety, SupervisionTypeOK
<1>2. \A v \in Worker : worker[v].child = "terminal" => ~worker[v].alive
  BY DEF Safety, Tended, FinishedIsDead
<1>3. /\ worker' \in [Worker -> WorkerRows]
      /\ \A v \in Worker : v # w => worker'[v] = worker[v]
      /\ worker'[w] \in {Finish(w, k), After(w, k)}
  BY <1>1, FinishRow, AfterRow
<1>4. Declining(w)
  BY <1>3, FinishRow, AfterRow, TerminalizedRow DEF Declining
<1> QED BY <1>2, <1>3, <1>4 DEF Declines, Declining

\* Only the workers change.
LEMMA WorkersSafe ==
  ASSUME Safety, worker' \in [Worker -> WorkerRows], Tended',
         UNCHANGED <<generation, lock, proc, discovery, session>>
  PROVE  Safety'
<1>1. SupervisionTypeOK'
  BY DEF Safety, SupervisionTypeOK
<1>2. Owned'
  BY DEF Safety, Owned, OwnersHold, GenerationIsCurrent, HandlersAreDrained, PeersServe
<1> QED BY <1>1, <1>2 DEF Safety

LEMMA UnmovedKeeps ==
  ASSUME Safety, NEW p \in Process, UNCHANGED <<generation, lock, proc, discovery, session>>
  PROVE  Keeps(p) /\ Released(p) /\ Tends(p) /\ discovery' \in Process \cup {None}
<1>1. proc[p] \in Procs /\ SupervisionTypeOK
  BY DEF Safety, SupervisionTypeOK
<1>2. /\ proc[p].stage \notin Running => proc[p].slot = 0
      /\ proc[p].handler => proc[p].stage \in Handling
  BY DEF Safety, Owned, GenerationIsCurrent, HandlersAreDrained
<1> QED BY <1>1, <1>2 DEF SupervisionTypeOK, Keeps, Released, Tends

\* A worker is spawned.
LEMMA SpawnSafe ==
  ASSUME Safety, NEW p \in Process, NEW w \in Worker,
         NEW via \in {"create", "restore", "replace"}, Spawn(p, w, via)
  PROVE  Safety'
<1> USE DEF Safety, Tended
<1>t. worker \in [Worker -> WorkerRows] /\ proc[p] \in Procs
  BY DEF SupervisionTypeOK
<1>s. proc[p].stage \in {"ready"} \cup Handling
  BY WorkingStage DEF Spawn
<1>r. proc[p].stage \in Running /\ proc[p].stage \in WorkStages /\ proc[p].stage \notin QuietStages
      /\ proc[p].stage \in Owning
  BY <1>s DEF Running, WorkStages, QuietStages, Handling, Owning
<1>0. /\ worker' \in [Worker -> WorkerRows]
      /\ \A v \in Worker : v # w => worker'[v] = worker[v]
      /\ worker'[w].owner = p /\ worker'[w].gen = proc[p].gen /\ worker'[w].via = via
      /\ worker'[w].phase = "spawned" /\ worker'[w].child = "active"
      /\ worker'[w].binding = "none"
  <2>1. /\ ExactChild(p, via) \in WorkerRows
        /\ ExactChild(p, via).owner = p /\ ExactChild(p, via).gen = proc[p].gen
        /\ ExactChild(p, via).via = via /\ ExactChild(p, via).phase = "spawned"
        /\ ExactChild(p, via).child = "active" /\ ExactChild(p, via).binding = "none"
    BY <1>t DEF ExactChild, WorkerRows, Procs, Phases, InFlight
  <2> QED BY <1>t, <2>1 DEF Spawn
<1>n. worker[w].phase = "none" /\ worker[w].binding = "none"
  BY DEF Spawn, FinishedIsDead
<1>u. UNCHANGED <<generation, lock, proc, discovery, session>>
  BY DEF Spawn
<1>p. p # None
  BY SupervisionAssumption
<1>1. OwnersWork'
  BY <1>0, <1>u, <1>r DEF OwnersWork
<1>2. InFlightIsOwned'
  BY <1>0, <1>p DEF InFlightIsOwned
<1>3. ClosedIsQuiet'
  BY <1>0, <1>u, <1>r DEF ClosedIsQuiet, Spawning
<1>4. GenerationsArePast'
  BY <1>0, <1>u, <1>r DEF GenerationsArePast, Owned, GenerationIsCurrent, SupervisionTypeOK
<1>5. GenerationIsMine'
  <2>1. \A q \in Process : proc[q].stage \in Running => q = p
    BY <1>r, RunningIsOne DEF Owning
  <2> QED BY <1>0, <1>u, <2>1 DEF GenerationIsMine
<1>6. FinishedIsDead'
  BY <1>0 DEF FinishedIsDead
<1>7. TodoIsBound'
  BY <1>0, <1>n, <1>u DEF TodoIsBound, SupervisionTypeOK, Procs
<1>8. ClearedIsClear'
  BY <1>0 DEF ClearedIsClear
<1>9. ActiveShareGeneration'
  BY <1>0 DEF ActiveShareGeneration
<1>10. SlotWasInstalled'
  BY <1>0, <1>n, <1>u DEF SlotWasInstalled, SupervisionTypeOK, Procs
<1>11. InstalledIsSlot'
  BY <1>0, <1>u DEF InstalledIsSlot
<1>12. OneReplacement'
  <2>1. via = "replace" => \A v \in Worker : ~Replacing(p, v)
    BY DEF Spawn, Busy, Replacing
  <2>2. \A q \in Process, v \in Worker :
          Replacing(q, v)' => \/ v # w /\ Replacing(q, v)
                              \/ v = w /\ q = p /\ via = "replace"
    BY <1>0 DEF Replacing
  <2> QED BY <2>1, <2>2 DEF OneReplacement
<1>13. HandedIsFree'
  <2>1. \A q \in Process : proc[q].slot # 0 => proc[q].slot \in Worker /\ proc[q].slot # w
    BY <1>n DEF SlotWasInstalled, SupervisionTypeOK, Procs
  <2> QED BY <1>0, <1>u, <2>1 DEF HandedIsFree, Replacing
<1>14. OneInstalled'
  BY <1>0 DEF OneInstalled
<1> QED BY <1>0, <1>u, <1>1, <1>2, <1>3, <1>4, <1>5, <1>6, <1>7, <1>8, <1>9, <1>10, <1>11, <1>12,
           <1>13, <1>14, WorkersSafe

\* register finds no active binding of the workspace.
LEMMA ClearSafe ==
  ASSUME Safety, NEW p \in Process, NEW w \in Worker, ClearRegistration(p, w)
  PROVE  Safety'
<1> USE DEF Safety, Tended
<1>t. worker \in [Worker -> WorkerRows]
  BY DEF SupervisionTypeOK
<1>0. /\ worker' \in [Worker -> WorkerRows]
      /\ \A v \in Worker : v # w => worker'[v] = worker[v]
      /\ worker'[w].owner = worker[w].owner /\ worker'[w].gen = worker[w].gen
      /\ worker'[w].via = worker[w].via /\ worker'[w].phase = "cleared"
      /\ worker'[w].alive = worker[w].alive /\ worker'[w].child = worker[w].child
      /\ worker'[w].binding = worker[w].binding
  BY <1>t DEF ClearRegistration, WorkerRows, Phases, InFlight
<1>n. /\ worker[w].phase \in {"spawned", "handed"} /\ worker[w].phase \in InFlight
      /\ worker[w].binding = "none"
      /\ worker[w].via = "replace" => worker[w].phase = "handed"
      /\ \A v \in Worker : worker[v].binding # "active"
  BY DEF ClearRegistration, FinishedIsDead, InFlight, Active
<1>u. UNCHANGED <<generation, lock, proc, discovery, session>>
  BY DEF ClearRegistration
<1>1. OwnersWork'
  BY <1>0, <1>u DEF OwnersWork
<1>2. InFlightIsOwned'
  BY <1>0, <1>n DEF InFlightIsOwned
<1>3. ClosedIsQuiet'
  BY <1>0, <1>n, <1>u DEF ClosedIsQuiet, Spawning
<1>4. GenerationsArePast'
  BY <1>0, <1>u DEF GenerationsArePast
<1>5. GenerationIsMine'
  BY <1>0, <1>n, <1>u DEF GenerationIsMine
<1>6. FinishedIsDead'
  BY <1>0, <1>n DEF FinishedIsDead
<1>7. TodoIsBound'
  BY <1>0, <1>u DEF TodoIsBound, SupervisionTypeOK, Procs
<1>8. ClearedIsClear'
  BY <1>0, <1>n DEF ClearedIsClear
<1>9. ActiveShareGeneration'
  BY <1>0, <1>n DEF ActiveShareGeneration
<1>10. SlotWasInstalled'
  BY <1>0, <1>n, <1>u DEF SlotWasInstalled, SupervisionTypeOK, Procs
<1>11. InstalledIsSlot'
  BY <1>0, <1>u DEF InstalledIsSlot
<1>12. OneReplacement'
  BY <1>0, <1>n DEF OneReplacement, Replacing
<1>13. HandedIsFree'
  <2>1. \A q \in Process : proc[q].slot # 0 => proc[q].slot \in Worker /\ proc[q].slot # w
    BY <1>n DEF SlotWasInstalled, SupervisionTypeOK, Procs
  <2> QED BY <1>0, <1>n, <1>u, <2>1 DEF HandedIsFree, Replacing
<1>14. OneInstalled'
  BY <1>0 DEF OneInstalled
<1> QED BY <1>0, <1>u, <1>1, <1>2, <1>3, <1>4, <1>5, <1>6, <1>7, <1>8, <1>9, <1>10, <1>11, <1>12,
           <1>13, <1>14, WorkersSafe

\* The binding is inserted: another worker that passed the check is of this generation.
LEMMA RegisterSafe ==
  ASSUME Safety, NEW p \in Process, NEW w \in Worker, Register(p, w)
  PROVE  Safety'
<1> USE DEF Safety, Tended
<1>t. worker \in [Worker -> WorkerRows]
  BY DEF SupervisionTypeOK
<1>0. /\ worker' \in [Worker -> WorkerRows]
      /\ \A v \in Worker : v # w => worker'[v] = worker[v]
      /\ worker'[w].owner = worker[w].owner /\ worker'[w].gen = worker[w].gen
      /\ worker'[w].via = worker[w].via /\ worker'[w].phase = "registered"
      /\ worker'[w].alive = worker[w].alive /\ worker'[w].child = worker[w].child
      /\ worker'[w].binding = "active"
  BY <1>t DEF Register, WorkerRows, Phases, InFlight
<1>n. worker[w].phase = "cleared" /\ worker[w].phase \in InFlight /\ worker[w].owner = p
  BY DEF Register, InFlight, Mine
<1>o. proc[p].stage \in Owning
  BY <1>n DEF OwnersWork, WorkStages, Owning, Running
<1>g. \A v \in Worker : worker[v].phase \in InFlight => worker[v].gen = worker[w].gen
  BY <1>n, <1>o, InFlightIsMine
<1>u. UNCHANGED <<generation, lock, proc, discovery, session>>
  BY DEF Register
<1>1. OwnersWork'
  BY <1>0, <1>u DEF OwnersWork
<1>2. InFlightIsOwned'
  BY <1>0, <1>n DEF InFlightIsOwned
<1>3. ClosedIsQuiet'
  BY <1>0, <1>n, <1>u DEF ClosedIsQuiet, Spawning
<1>4. GenerationsArePast'
  BY <1>0, <1>u DEF GenerationsArePast
<1>5. GenerationIsMine'
  BY <1>0, <1>n, <1>u DEF GenerationIsMine
<1>6. FinishedIsDead'
  BY <1>0, <1>n DEF FinishedIsDead
<1>7. TodoIsBound'
  BY <1>0, <1>u DEF TodoIsBound, SupervisionTypeOK, Procs
<1>8. ClearedIsClear'
  BY <1>0, <1>g DEF ClearedIsClear, InFlight
<1>9. ActiveShareGeneration'
  BY <1>0, <1>n DEF ActiveShareGeneration, ClearedIsClear
<1>10. SlotWasInstalled'
  BY <1>0, <1>n, <1>u DEF SlotWasInstalled, SupervisionTypeOK, Procs
<1>11. InstalledIsSlot'
  BY <1>0, <1>u DEF InstalledIsSlot
<1>12. OneReplacement'
  BY <1>0, <1>n DEF OneReplacement, Replacing
<1>13. HandedIsFree'
  <2>1. \A q \in Process : proc[q].slot # 0 => proc[q].slot \in Worker /\ proc[q].slot # w
    BY <1>n DEF SlotWasInstalled, SupervisionTypeOK, Procs
  <2> QED BY <1>0, <1>n, <1>u, <2>1 DEF HandedIsFree, Replacing
<1>14. OneInstalled'
  BY <1>0 DEF OneInstalled
<1> QED BY <1>0, <1>u, <1>1, <1>2, <1>3, <1>4, <1>5, <1>6, <1>7, <1>8, <1>9, <1>10, <1>11, <1>12,
           <1>13, <1>14, WorkersSafe

\* The worker enters the table: it was empty, or its worker has been finished.
LEMMA InstallSafe ==
  ASSUME Safety, NEW p \in Process, NEW w \in Worker, Install(p, w)
  PROVE  Safety'
<1> USE DEF Safety, Tended
<1>t. worker \in [Worker -> WorkerRows] /\ proc \in [Process -> Procs]
  BY DEF SupervisionTypeOK
<1>0. /\ worker' \in [Worker -> WorkerRows]
      /\ \A v \in Worker : v # w => worker'[v] = worker[v]
      /\ worker'[w].owner = worker[w].owner /\ worker'[w].gen = worker[w].gen
      /\ worker'[w].via = worker[w].via /\ worker'[w].phase = "installed"
      /\ worker'[w].alive = worker[w].alive /\ worker'[w].child = worker[w].child
      /\ worker'[w].binding = worker[w].binding
  BY <1>t DEF Install, WorkerRows, Phases
<1>q. /\ proc' \in [Process -> Procs]
      /\ \A q \in Process : q # p => proc'[q] = proc[q]
      /\ proc'[p].slot = w /\ proc'[p].stage = proc[p].stage /\ proc'[p].gen = proc[p].gen
      /\ proc'[p].todo = proc[p].todo /\ proc'[p].handler = proc[p].handler
  BY <1>t DEF Install, Procs
<1>n. worker[w].phase = "registered" /\ worker[w].phase \in InFlight /\ worker[w].owner = p
  BY DEF Install, InFlight, Mine
<1>o. proc[p].stage \in Owning /\ proc[p].stage \in Running /\ proc[p].gen = worker[w].gen
  BY <1>n DEF OwnersWork, WorkStages, Owning, Running
<1>i. \A v \in Worker : worker[v].phase = "installed" => worker[v].gen # worker[w].gen
  <2>1. SUFFICES ASSUME NEW v \in Worker, worker[v].phase = "installed",
                        worker[v].gen = worker[w].gen
                 PROVE  FALSE
    OBVIOUS
  <2>2. worker[v].owner = p
    BY <2>1, <1>o DEF GenerationIsMine
  <2>3. proc[p].slot = v /\ proc[p].slot # 0
    BY <2>1, <2>2 DEF InstalledIsSlot, Worker
  <2>4. Replacing(p, w)
    BY <2>3, <1>n DEF Install, Replacing
  <2> QED BY <2>1, <2>3, <2>4, <1>n DEF HandedIsFree
<1>u. UNCHANGED <<generation, lock, discovery, session>>
  BY DEF Install
<1>a. Owned'
  <2>1. Keeps(p) /\ Released(p)
    BY <1>q, <1>u, <1>o DEF Keeps, Released, Owned, HandlersAreDrained
  <2> QED BY <2>1, KeepsOwned
<1>b. SupervisionTypeOK'
  BY <1>0, <1>q, <1>u DEF SupervisionTypeOK
<1>1. OwnersWork'
  BY <1>0, <1>q, <1>u DEF OwnersWork
<1>2. InFlightIsOwned'
  BY <1>0, <1>n DEF InFlightIsOwned
<1>3. ClosedIsQuiet'
  BY <1>0, <1>n, <1>q DEF ClosedIsQuiet, Spawning
<1>4. GenerationsArePast'
  BY <1>0, <1>u DEF GenerationsArePast
<1>5. GenerationIsMine'
  BY <1>0, <1>n, <1>q DEF GenerationIsMine
<1>6. FinishedIsDead'
  BY <1>0, <1>n DEF FinishedIsDead
<1>7. TodoIsBound'
  BY <1>0, <1>q DEF TodoIsBound, SupervisionTypeOK, Procs
<1>8. ClearedIsClear'
  BY <1>0, <1>n DEF ClearedIsClear
<1>9. ActiveShareGeneration'
  BY <1>0, <1>n DEF ActiveShareGeneration
<1>10. SlotWasInstalled'
  BY <1>0, <1>n, <1>q DEF SlotWasInstalled, SupervisionTypeOK, Procs
<1>11. InstalledIsSlot'
  <2>1. \A v \in Worker : v # w /\ worker[v].phase = "installed" => worker[v].owner # p
    BY <1>i, <1>o DEF OwnersWork
  <2> QED BY <1>0, <1>n, <1>q, <2>1 DEF InstalledIsSlot
<1>12. OneReplacement'
  BY <1>0, <1>n DEF OneReplacement, Replacing
<1>13. HandedIsFree'
  <2>1. SUFFICES ASSUME NEW q \in Process, NEW v \in Worker, Replacing(q, v)',
                        worker'[v].phase # "spawned"
                 PROVE  proc'[q].slot # 0 /\ worker'[proc'[q].slot].phase = "gone"
    BY DEF HandedIsFree
  <2>2. v # w /\ worker'[v] = worker[v] /\ Replacing(q, v)
    BY <2>1, <1>0 DEF Replacing, InFlight
  <2>3. proc[q].slot # 0 /\ worker[proc[q].slot].phase = "gone"
    BY <2>1, <2>2 DEF HandedIsFree
  <2>4. q = p
    BY <2>2, <1>o, InFlightIsMine DEF Replacing
  <2>5. worker[w].via = "replace"
    BY <2>3, <2>4 DEF Install
  <2>6. Replacing(p, w)
    BY <2>5, <1>n DEF Replacing
  <2> QED BY <2>2, <2>4, <2>6 DEF OneReplacement
<1>14. OneInstalled'
  BY <1>0, <1>i DEF OneInstalled
<1> QED BY <1>a, <1>b, <1>1, <1>2, <1>3, <1>4, <1>5, <1>6, <1>7, <1>8, <1>9, <1>10, <1>11, <1>12,
           <1>13, <1>14

\* A replacement is handed the entry, or discarded when the old worker cannot be resolved.
LEMMA HandOverSafe ==
  ASSUME Safety, NEW p \in Process, NEW w \in Worker, HandOver(p, w)
  PROVE  Safety'
<1> USE DEF Safety, Tended
<1> DEFINE old == proc[p].slot
<1>t. worker \in [Worker -> WorkerRows] /\ proc \in [Process -> Procs]
  BY DEF SupervisionTypeOK
<1>n. worker[w].phase = "spawned" /\ worker[w].phase \in InFlight /\ worker[w].owner = p
      /\ worker[w].via = "replace" /\ worker[w].binding = "none" /\ Replacing(p, w)
  BY DEF HandOver, InFlight, Mine, FinishedIsDead, Replacing
<1>o. /\ proc[p].stage \in Owning /\ proc[p].stage \in Running
      /\ proc[p].handler => proc[p].stage \in Handling
  BY <1>n DEF OwnersWork, WorkStages, Owning, Running, Owned, HandlersAreDrained
<1>s. old # 0 /\ old \in Worker /\ worker[old].phase \in {"installed", "gone"} /\ old # w
  BY <1>t, <1>n DEF HandOver, SlotWasInstalled, Procs
<1>u. UNCHANGED <<generation, lock, discovery, session>>
  BY DEF HandOver
<1>k. PICK k \in Terminalized(old) :
        IF k.child = "terminal"
        THEN /\ worker' = [worker EXCEPT ![old] = Finish(old, k), ![w].phase = "handed"]
             /\ proc' = [proc EXCEPT ![p].usable = FALSE]
        ELSE /\ \E j \in Terminalized(w) :
                  worker' = [worker EXCEPT ![old] = After(old, k), ![w] = Finish(w, j)]
             /\ UNCHANGED proc
  BY DEF HandOver
<1> HIDE DEF old
<1>1. CASE k.child # "terminal"
  <2>1. PICK j \in Terminalized(w) :
          worker' = [worker EXCEPT ![old] = After(old, k), ![w] = Finish(w, j)]
    BY <1>1, <1>k
  <2>2. After(old, k) \in WorkerRows /\ Finish(w, j) \in WorkerRows
    BY <1>s, AfterRow, FinishRow
  <2>3. /\ worker' \in [Worker -> WorkerRows]
        /\ \A v \in Worker : v # w /\ v # old => worker'[v] = worker[v]
        /\ worker'[w] = Finish(w, j) /\ worker'[old] = After(old, k)
    BY <1>t, <1>s, <2>1, <2>2
  <2>4. Declining(w) /\ Declining(old)
    BY <1>s, <1>n, <2>3, FinishRow, AfterRow, TerminalizedRow DEF Declining
  <2>5. Declines
    BY <2>3, <2>4 DEF Declines, Declining, FinishedIsDead
  <2>6. UNCHANGED proc
    BY <1>1, <1>k
  <2> QED BY <2>5, <2>6, <1>u, UnmovedKeeps, SteadySafe
<1>2. CASE k.child = "terminal"
  <2>1. worker' = [worker EXCEPT ![old] = Finish(old, k), ![w].phase = "handed"]
    BY <1>2, <1>k
  <2>2. /\ Finish(old, k) \in WorkerRows /\ Finish(old, k).phase = "gone"
        /\ Finish(old, k).owner = worker[old].owner /\ Finish(old, k).gen = worker[old].gen
        /\ ~Finish(old, k).alive
        /\ \/ Finish(old, k).binding = worker[old].binding
           \/ worker[old].binding = "active" /\ Finish(old, k).binding = "finished"
    BY <1>2, <1>s, FinishRow, TerminalizedRow
  <2>0. /\ worker' \in [Worker -> WorkerRows]
        /\ \A v \in Worker : v # w /\ v # old => worker'[v] = worker[v]
        /\ worker'[old] = Finish(old, k)
        /\ worker'[w].owner = worker[w].owner /\ worker'[w].gen = worker[w].gen
        /\ worker'[w].via = worker[w].via /\ worker'[w].phase = "handed"
        /\ worker'[w].alive = worker[w].alive /\ worker'[w].child = worker[w].child
        /\ worker'[w].binding = worker[w].binding
    <3> HIDE DEF Finish
    <3> QED BY <1>t, <1>s, <2>1, <2>2 DEF WorkerRows, Phases, InFlight
  <2>q. /\ proc' \in [Process -> Procs]
        /\ \A q \in Process : q # p => proc'[q] = proc[q]
        /\ proc'[p].slot = old /\ proc'[p].stage = proc[p].stage /\ proc'[p].gen = proc[p].gen
        /\ proc'[p].todo = proc[p].todo /\ proc'[p].handler = proc[p].handler
    <3>1. proc' = [proc EXCEPT ![p].usable = FALSE]
      BY <1>2, <1>k
    <3> QED BY <3>1, <1>t DEF Procs, old
  <2>a. Owned'
    <3>1. Keeps(p) /\ Released(p)
      BY <2>q, <1>u, <1>o DEF Keeps, Released
    <3> QED BY <3>1, KeepsOwned
  <2>b. SupervisionTypeOK'
    BY <2>0, <2>q, <1>u DEF SupervisionTypeOK
  <2>p. \A q \in Process : proc'[q].slot = proc[q].slot /\ proc'[q].stage = proc[q].stage
                           /\ proc'[q].gen = proc[q].gen /\ proc'[q].todo = proc[q].todo
    BY <2>q DEF old
  <2>f. \A v \in Worker : /\ worker'[v].owner = worker[v].owner /\ worker'[v].gen = worker[v].gen
                          /\ worker'[v].phase = "installed" => worker[v].phase = "installed"
                          /\ worker'[v].phase \in InFlight =>
                               worker[v].phase \in InFlight /\ worker'[v].via = worker[v].via
                          /\ worker'[v].binding = "active" => worker[v].binding = "active"
                          /\ worker[v].binding # "none" => worker'[v].binding # "none"
                          /\ worker[v].phase \in {"installed", "gone"} =>
                               worker'[v].phase \in {"installed", "gone"}
                          /\ worker'[v].phase # "none" => worker[v].phase # "none"
    BY <2>0, <2>2, <1>n, <1>s DEF InFlight
  <2>3. OwnersWork' /\ InFlightIsOwned' /\ ClosedIsQuiet'
    BY <2>f, <2>p DEF OwnersWork, InFlightIsOwned, ClosedIsQuiet, Spawning
  <2>4. GenerationsArePast' /\ GenerationIsMine'
    BY <2>f, <2>p, <1>u DEF GenerationsArePast, GenerationIsMine
  <2>5. FinishedIsDead'
    BY <2>0, <2>2, <1>n DEF FinishedIsDead
  <2>6. TodoIsBound'
    BY <2>f, <2>p DEF TodoIsBound, SupervisionTypeOK, Procs
  <2>7. ClearedIsClear' /\ ActiveShareGeneration'
    <3>1. \A v \in Worker : worker'[v].phase = "cleared" => worker[v].phase = "cleared"
      BY <2>0, <2>2, <1>n
    <3> QED BY <3>1, <2>f DEF ClearedIsClear, ActiveShareGeneration
  <2>8. SlotWasInstalled' /\ InstalledIsSlot'
    BY <2>f, <2>p DEF SlotWasInstalled, InstalledIsSlot, SupervisionTypeOK, Procs
  <2>9. OneReplacement'
    BY <2>f DEF OneReplacement, Replacing
  <2>10. HandedIsFree'
    <3>1. SUFFICES ASSUME NEW q \in Process, NEW v \in Worker, Replacing(q, v)',
                          worker'[v].phase # "spawned"
                   PROVE  proc'[q].slot # 0 /\ worker'[proc'[q].slot].phase = "gone"
      BY DEF HandedIsFree
    <3>2. Replacing(q, v)
      BY <3>1, <2>f DEF Replacing
    <3>3. q = p
      BY <3>2, <1>o, InFlightIsMine DEF Replacing
    <3> QED BY <3>3, <2>q, <2>0, <2>2, <1>s
  <2>11. OneInstalled'
    BY <2>f DEF OneInstalled
  <2> QED BY <2>a, <2>b, <2>3, <2>4, <2>5, <2>6, <2>7, <2>8, <2>9, <2>10, <2>11
<1> QED BY <1>1, <1>2

\* A worker exits by itself, is discarded, found dead or terminated.
LEMMA WorkerExitsSafe ==
  ASSUME Safety, NEW w \in Worker, WorkerExits(w)
  PROVE  Safety'
<1>t. worker \in [Worker -> WorkerRows]
  BY DEF Safety, SupervisionTypeOK
<1>0. /\ worker' \in [Worker -> WorkerRows]
      /\ \A v \in Worker :
           /\ worker'[v].owner = worker[v].owner /\ worker'[v].gen = worker[v].gen
           /\ worker'[v].phase = worker[v].phase /\ worker'[v].via = worker[v].via
           /\ worker'[v].binding = worker[v].binding /\ worker'[v].child = worker[v].child
           /\ worker'[v].alive => worker[v].alive
  BY <1>t DEF WorkerExits, WorkerRows
<1>u. UNCHANGED <<generation, lock, proc, discovery, session>>
  BY DEF WorkerExits
<1>1. OwnersWork' /\ InFlightIsOwned' /\ ClosedIsQuiet' /\ GenerationsArePast'
      /\ GenerationIsMine' /\ FinishedIsDead'
  BY <1>0, <1>u
  DEF Safety, Tended, OwnersWork, InFlightIsOwned, ClosedIsQuiet, Spawning, GenerationsArePast,
      GenerationIsMine, FinishedIsDead
<1>2. TodoIsBound' /\ SlotWasInstalled' /\ HandedIsFree'
  BY <1>0, <1>u
  DEF Safety, Tended, TodoIsBound, SlotWasInstalled, HandedIsFree, Replacing, SupervisionTypeOK,
      Procs
<1>3. ClearedIsClear' /\ ActiveShareGeneration' /\ InstalledIsSlot' /\ OneReplacement'
      /\ OneInstalled'
  BY <1>0, <1>u
  DEF Safety, Tended, ClearedIsClear, ActiveShareGeneration, InstalledIsSlot, OneReplacement,
      Replacing, OneInstalled
<1> QED BY <1>0, <1>u, <1>1, <1>2, <1>3, WorkersSafe DEF Tended

LEMMA WorkersDeclineSafe ==
  ASSUME Safety, NEW p \in Process,
         (\E w \in Worker : Discard(p, w)) \/ Heartbeat(p) \/ Retire(p)
  PROVE  Safety'
<1>t. worker \in [Worker -> WorkerRows] /\ proc \in [Process -> Procs] /\ SupervisionTypeOK
  BY DEF Safety, SupervisionTypeOK
<1>f. \A w \in Worker : worker[w].child = "terminal" => ~worker[w].alive
  BY DEF Safety, Tended, FinishedIsDead
<1>o. /\ proc[p].stage \notin Running => proc[p].slot = 0
      /\ proc[p].handler => proc[p].stage \in Handling
  BY DEF Safety, Owned, GenerationIsCurrent, HandlersAreDrained
<1>s. proc[p].slot # 0 => proc[p].slot \in Worker /\ worker[proc[p].slot].phase # "none"
  BY <1>t DEF Safety, Tended, SlotWasInstalled, Procs
<1>1. CASE \E w \in Worker : Discard(p, w)
  <2> PICK w \in Worker : Discard(p, w)
    BY <1>1
  <2>1. Declines
    BY TerminatedDeclines DEF Discard, InFlight
  <2> QED BY <2>1, UnmovedKeeps, SteadySafe DEF Discard
<1>2. CASE Heartbeat(p)
  <2> DEFINE w == proc[p].slot
  <2>1. Keeps(p) /\ Released(p) /\ Tends(p)
    BY <1>2, <1>t, <1>o DEF Heartbeat, Procs, Keeps, Released, Tends
  <2>0. /\ w \in Worker /\ ~worker[w].alive /\ worker[w].binding = "active"
        /\ worker' = [worker EXCEPT ![w].binding = "finished"]
    BY <1>2, <1>s DEF Heartbeat, Active
  <2> HIDE DEF w
  <2>2. /\ worker' \in [Worker -> WorkerRows]
        /\ \A v \in Worker : v # w => worker'[v] = worker[v]
        /\ worker'[w].owner = worker[w].owner /\ worker'[w].gen = worker[w].gen
        /\ worker'[w].phase = worker[w].phase /\ worker'[w].via = worker[w].via
        /\ worker'[w].binding = "finished" /\ worker'[w].alive = worker[w].alive
    BY <1>t, <2>0 DEF WorkerRows
  <2>3. Declines
    BY <1>f, <2>0, <2>2 DEF Declines, Declining
  <2> QED BY <1>2, <1>t, <2>1, <2>3, SteadySafe DEF Heartbeat, SupervisionTypeOK
<1>3. CASE Retire(p)
  <2> DEFINE w == proc[p].slot
  <2>k. PICK k \in Terminalized(w) :
          /\ worker' = [worker EXCEPT ![w] = IF k.child = "terminal" THEN Finish(w, k)
                                             ELSE After(w, k)]
          /\ proc' = [proc EXCEPT ![p].usable = (k.child # "terminal")]
    BY <1>3 DEF Retire
  <2>0. w \in Worker /\ worker[w].phase # "none"
    BY <1>3, <1>s DEF Retire
  <2>1. Keeps(p) /\ Released(p) /\ Tends(p)
    <3>1. (k.child # "terminal") \in BOOLEAN
      OBVIOUS
    <3>2. /\ proc' \in [Process -> Procs]
          /\ \A q \in Process : q # p => proc'[q] = proc[q]
          /\ proc'[p].slot = proc[p].slot /\ proc'[p].stage = proc[p].stage
          /\ proc'[p].gen = proc[p].gen
          /\ proc'[p].todo = proc[p].todo /\ proc'[p].handler = proc[p].handler
      BY <1>t, <2>k, <3>1 DEF Procs
    <3> QED BY <1>3, <1>o, <3>2 DEF Retire, Keeps, Released, Tends
  <2> HIDE DEF w
  <2>2. Declines
    BY <2>0, <2>k, TerminatedDeclines
  <2> QED BY <1>3, <1>t, <2>1, <2>2, SteadySafe DEF Retire, SupervisionTypeOK
<1> QED BY <1>1, <1>2, <1>3

LEMMA WorkersStepSafe ==
  ASSUME Safety, NEW p \in Process, Workers(p)
  PROVE  Safety'
BY SpawnSafe, ClearSafe, RegisterSafe, InstallSafe, HandOverSafe, WorkersDeclineSafe DEF Workers

-----------------------------------------------------------------------------
(* Stopping, handlers and clients.                                         *)

LEMMA OrphanedAbandoned ==
  ASSUME Safety, NEW p \in Process, worker' = Orphaned(p)
  PROVE  Abandoned(p)
<1>1. worker \in [Worker -> WorkerRows]
  BY DEF Safety, SupervisionTypeOK
<1>2. \A w \in Worker : worker'[w] = IF worker[w].owner # p THEN worker[w]
           ELSE [worker[w] EXCEPT !.owner = None, !.via = "none", !.child = "active",
                   !.phase = IF @ = "installed" THEN "installed" ELSE "gone"]
  BY DEF Orphaned
<1>3. ASSUME NEW w \in Worker, worker[w].owner = p
      PROVE  /\ worker'[w] \in WorkerRows
             /\ worker'[w].owner = None /\ worker'[w].gen = worker[w].gen
             /\ worker'[w].phase = IF worker[w].phase = "installed" THEN "installed" ELSE "gone"
             /\ worker'[w].alive = worker[w].alive /\ worker'[w].child = "active"
             /\ worker'[w].binding = worker[w].binding
  <2> DEFINE phase == IF worker[w].phase = "installed" THEN "installed" ELSE "gone"
  <2>1. worker'[w] = [worker[w] EXCEPT !.owner = None, !.via = "none", !.child = "active",
                                       !.phase = phase]
    BY <1>2, <1>3
  <2>2. phase \in Phases
    BY DEF Phases
  <2> HIDE DEF phase
  <2>3. /\ worker'[w] \in WorkerRows /\ worker'[w].phase = phase
        /\ worker'[w].owner = None /\ worker'[w].gen = worker[w].gen
        /\ worker'[w].alive = worker[w].alive /\ worker'[w].child = "active"
        /\ worker'[w].binding = worker[w].binding
    <3> DEFINE row == worker[w]
    <3>1. row \in WorkerRows /\ worker'[w] =
            [row EXCEPT !.owner = None, !.via = "none", !.child = "active", !.phase = phase]
      BY <1>1, <2>1
    <3> HIDE DEF row
    <3>2. /\ worker'[w] \in WorkerRows /\ worker'[w].phase = phase
          /\ worker'[w].owner = None /\ worker'[w].gen = row.gen
          /\ worker'[w].alive = row.alive /\ worker'[w].child = "active"
          /\ worker'[w].binding = row.binding
      BY <2>2, <3>1 DEF WorkerRows
    <3> QED BY <3>2 DEF row
  <2> QED BY <2>3 DEF phase
<1>4. \A w \in Worker : worker'[w] \in WorkerRows
  BY <1>1, <1>2, <1>3
<1>5. worker' \in [Worker -> WorkerRows]
  BY <1>4 DEF Orphaned
<1> QED BY <1>2, <1>3, <1>5 DEF Abandoned

LEMMA StoppingSafe ==
  ASSUME Safety, NEW p \in Process, Stopping(p)
  PROVE  Safety'
<1> USE DEF At, Alive
<1>t. SupervisionTypeOK /\ proc[p] \in Procs /\ proc \in [Process -> Procs]
  BY DEF Safety, SupervisionTypeOK
<1>o. /\ proc[p].stage \in Owning => lock = p
      /\ proc[p].stage \notin Running => proc[p].gen = 0 /\ proc[p].slot = 0
      /\ proc[p].handler => proc[p].stage \in Handling
  BY DEF Safety, Owned, OwnersHold, GenerationIsCurrent, HandlersAreDrained
<1>1. CASE Stop(p)
  <2>1. Keeps(p) /\ Released(p) /\ Tends(p)
    BY <1>1, <1>t, <1>o, StepRow
    DEF Stop, Keeps, Released, Tends, Stages, Owning, Running, WorkStages, QuietStages, Handling
  <2> QED BY <1>1, <1>t, <2>1, StillDeclines, SteadySafe DEF Stop, SupervisionTypeOK
<1>2. CASE StartFails(p) \/ ServeFails(p)
  <2>0. /\ proc' \in [Process -> Procs]
        /\ \A q \in Process : q # p => proc'[q] = proc[q]
        /\ proc'[p].stage = "stopping" /\ proc'[p].gen = proc[p].gen
        /\ proc'[p].slot = proc[p].slot /\ proc'[p].todo = proc[p].todo
        /\ proc'[p].handler = proc[p].handler
    BY <1>2, <1>t DEF StartFails, ServeFails, Procs, Stages, Owning, Running
  <2>1. Keeps(p) /\ Released(p) /\ Tends(p)
    BY <1>2, <1>o, <2>0
    DEF StartFails, ServeFails, Keeps, Released, Tends, Owning, Running, WorkStages, QuietStages,
        Handling
  <2> QED BY <1>2, <1>t, <2>1, StillDeclines, SteadySafe
          DEF StartFails, ServeFails, SupervisionTypeOK
<1>3. CASE BeginDrain(p)
  <2>1. Keeps(p) /\ Released(p) /\ Tends(p)
    BY <1>3, <1>t, <1>o, StepRow
    DEF BeginDrain, Keeps, Released, Tends, Stages, Owning, Running, WorkStages, QuietStages,
        Handling
  <2> QED BY <1>3, <1>t, <2>1, StillDeclines, SteadySafe DEF BeginDrain, SupervisionTypeOK
<1>4. CASE CloseDispatcher(p)
  <2>1. \/ proc[p].handler /\ Step(p, "stuck")
        \/ ~proc[p].handler /\ ~Spawning(p) /\ Step(p, "closed")
    BY <1>4 DEF CloseDispatcher
  <2>2. Keeps(p) /\ Released(p) /\ Tends(p)
    BY <1>4, <2>1, <1>t, <1>o, StepRow
    DEF CloseDispatcher, Keeps, Released, Tends, Stages, Owning, Running, WorkStages, QuietStages,
        Handling
  <2> QED BY <1>4, <1>t, <2>2, StillDeclines, SteadySafe DEF CloseDispatcher, SupervisionTypeOK
<1>5. CASE ShutdownWorkers(p)
  <2>q. ~Spawning(p)
    BY <1>5 DEF ShutdownWorkers, Safety, Tended, ClosedIsQuiet, QuietStages
  <2>1. CASE proc[p].slot = 0
    <3>1. Keeps(p) /\ Released(p) /\ Tends(p)
      BY <1>5, <2>1, <2>q, <1>t, <1>o, StepRow
      DEF ShutdownWorkers, Keeps, Released, Tends, Stages, Owning, Running, WorkStages,
          QuietStages, Handling
    <3> QED BY <1>5, <2>1, <1>t, <3>1, StillDeclines, SteadySafe
            DEF ShutdownWorkers, SupervisionTypeOK
  <2>2. CASE proc[p].slot # 0
    <3> DEFINE w == proc[p].slot
    <3>w. w \in Worker /\ worker[w].phase # "none"
      BY <2>2, <1>t DEF Safety, Tended, SlotWasInstalled, Procs
    <3>k. PICK k \in Terminalized(w) :
            IF k.child = "terminal"
            THEN /\ worker' = [worker EXCEPT ![w] = Finish(w, k)]
                 /\ proc' = [proc EXCEPT ![p].stage = "drained", ![p].slot = 0, ![p].usable = FALSE]
            ELSE worker' = [worker EXCEPT ![w] = After(w, k)] /\ Step(p, "stuck")
      BY <1>5, <2>2 DEF ShutdownWorkers
    <3> HIDE DEF w
    <3>1. Declines
      BY <3>k, <3>w, TerminatedDeclines
    <3>2. Keeps(p) /\ Released(p) /\ Tends(p)
      <4>1. CASE k.child = "terminal"
        <5>1. /\ proc' = [proc EXCEPT ![p].stage = "drained", ![p].slot = 0, ![p].usable = FALSE]
              /\ worker' = [worker EXCEPT ![w] = Finish(w, k)]
          BY <4>1, <3>k
        <5>2. /\ proc' \in [Process -> Procs]
              /\ \A q \in Process : q # p => proc'[q] = proc[q]
              /\ proc'[p].stage = "drained" /\ proc'[p].gen = proc[p].gen
              /\ proc'[p].slot = 0 /\ proc'[p].todo = proc[p].todo
              /\ proc'[p].handler = proc[p].handler
          BY <5>1, <1>t DEF Procs, Stages, Owning, Running
        <5>3. worker'[w].phase = "gone"
          BY <5>1, <3>w, FinishRow DEF Safety, SupervisionTypeOK
        <5> QED BY <1>5, <1>o, <2>q, <5>2, <5>3
            DEF ShutdownWorkers, Keeps, Released, Tends, Owning, Running, WorkStages, QuietStages,
                Handling, w
      <4>2. CASE k.child # "terminal"
        <5>1. Step(p, "stuck")
          BY <4>2, <3>k
        <5> QED BY <1>5, <1>o, <1>t, <2>q, <5>1, StepRow
            DEF ShutdownWorkers, Keeps, Released, Tends, Stages, Owning, Running, WorkStages,
                QuietStages, Handling
      <4> QED BY <4>1, <4>2
    <3> QED BY <1>5, <1>t, <3>1, <3>2, SteadySafe DEF ShutdownWorkers, SupervisionTypeOK
  <2> QED BY <2>1, <2>2
<1>6. CASE RecordEnd(p)
  <2>1. Keeps(p) /\ Released(p) /\ Tends(p)
    BY <1>6, <1>t, <1>o, StepRow
    DEF RecordEnd, Keeps, Released, Tends, Stages, Owning, Running, WorkStages, QuietStages,
        Handling
  <2> QED BY <1>6, <1>t, <2>1, StillDeclines, SteadySafe DEF RecordEnd, SupervisionTypeOK
<1>7. CASE Release(p)
  <2>1. Abandoned(p)
    BY <1>7, OrphanedAbandoned DEF Release
  <2>2. proc[p].stage = "ended" /\ ~proc[p].handler
    BY <1>7, <1>o DEF Release, Handling
  <2>3. /\ proc' \in [Process -> Procs]
        /\ \A q \in Process : q # p => proc'[q] = proc[q]
        /\ proc'[p].stage = "released" /\ proc'[p].gen = 0 /\ proc'[p].slot = 0
        /\ proc'[p].todo = {} /\ ~proc'[p].handler
    <3> DEFINE left == [Gone EXCEPT !.stage = "released", !.handler = proc[p].handler]
    <3>1. left \in Procs /\ left.stage = "released" /\ left.gen = 0 /\ left.slot = 0
          /\ left.todo = {} /\ ~left.handler
      BY <2>2, <1>t DEF Gone, NewProcess, Procs, Stages
    <3>2. proc' = [proc EXCEPT ![p] = left]
      BY <1>7 DEF Release
    <3> HIDE DEF left
    <3> QED BY <1>t, <3>1, <3>2
  <2>4. Leaves(p) /\ Released(p)
    BY <1>7, <1>o, <2>2, <2>3 DEF Release, Leaves, Released, Owning, Running
  <2> QED BY <1>7, <2>1, <2>4, LeavesSafe DEF Release
<1>8. CASE Die(p)
  <2>1. Abandoned(p)
    BY <1>8, OrphanedAbandoned DEF Die
  <2>2. Leaves(p) /\ Released(p)
    BY <1>8, <1>t, ExitRow DEF Die, Leaves, Released
  <2> QED BY <1>8, <2>1, <2>2, LeavesSafe DEF Die
<1> QED BY <1>1, <1>2, <1>3, <1>4, <1>5, <1>6, <1>7, <1>8 DEF Stopping

LEMMA HandlerSafe ==
  ASSUME Safety, NEW p \in Process, HandlerStarts(p) \/ HandlerEnds(p)
  PROVE  Safety'
<1>t. SupervisionTypeOK /\ proc[p] \in Procs /\ proc \in [Process -> Procs]
  BY DEF Safety, SupervisionTypeOK
<1>o. /\ proc[p].stage \notin Running => proc[p].slot = 0
      /\ proc[p].handler => proc[p].stage \in Handling
  BY DEF Safety, Owned, GenerationIsCurrent, HandlersAreDrained
<1>1. /\ proc' \in [Process -> Procs]
      /\ \A q \in Process : q # p => proc'[q] = proc[q]
      /\ proc'[p].stage = proc[p].stage /\ proc'[p].gen = proc[p].gen
      /\ proc'[p].slot = proc[p].slot /\ proc'[p].todo = proc[p].todo
      /\ proc'[p].handler => proc[p].stage \in Handling
  <2>1. PICK handler \in BOOLEAN : /\ proc' = [proc EXCEPT ![p].handler = handler]
                                   /\ handler => proc[p].stage \in Handling
    BY DEF HandlerStarts, HandlerEnds, At, Handling
  <2> QED BY <1>t, <2>1 DEF Procs
<1>2. Keeps(p) /\ Released(p) /\ Tends(p)
  BY <1>o, <1>1 DEF HandlerStarts, HandlerEnds, Keeps, Released, Tends
<1> QED BY <1>t, <1>2, StillDeclines, SteadySafe
        DEF HandlerStarts, HandlerEnds, SupervisionTypeOK

\* A client attaches to the process its discovery named, while that process serves.
LEMMA ClientSafe ==
  ASSUME Safety, NEW c \in Client, LoadDiscovery(c) \/ Attach(c) \/ EndSession(c) \/ Detach(c)
  PROVE  Safety'
<1>t. SupervisionTypeOK /\ session \in [Client -> Sessions]
  BY DEF Safety, SupervisionTypeOK
<1>n. NoSession \in Sessions /\ NoSession.peer = None
  BY DEF NoSession, Sessions
<1>1. /\ session' \in [Client -> Sessions]
      /\ \A d \in Client : d # c => session'[d] = session[d]
      /\ session'[c].peer # None => /\ session'[c].peer = session'[c].named
                                    /\ proc[session'[c].peer].stage = "serving"
  <2>1. CASE LoadDiscovery(c)
    <3>1. session[c].peer = None /\ discovery \in Process \cup {None}
      BY <2>1, <1>t, <1>n DEF LoadDiscovery, SupervisionTypeOK
    <3> QED BY <2>1, <3>1, <1>t DEF LoadDiscovery, Sessions
  <2>2. CASE Attach(c)
    <3>1. CASE session' = [session EXCEPT ![c] = NoSession]
      BY <3>1, <1>t, <1>n
    <3>2. CASE \E p \in Process : At(p, {"serving"}) /\ session' = [session EXCEPT ![c] = Accept(c, p)]
      <4> PICK p \in Process : At(p, {"serving"}) /\ session' = [session EXCEPT ![c] = Accept(c, p)]
        BY <3>2
      <4>1. CASE session[c].named = p
        <5>1. session' = [session EXCEPT ![c] = [session[c] EXCEPT !.peer = p]]
          BY <4>1 DEF Accept, Authenticated
        <5> QED BY <4>1, <5>1, <1>t DEF At, Sessions
      <4>2. CASE session[c].named # p
        BY <4>2, <1>t, <1>n DEF Accept, Authenticated
      <4> QED BY <4>1, <4>2
    <3> QED BY <2>2, <3>1, <3>2 DEF Attach
  <2>3. CASE EndSession(c) \/ Detach(c)
    BY <2>3, <1>t, <1>n DEF EndSession, Detach
  <2> QED BY <2>1, <2>2, <2>3
<1>2. UNCHANGED <<generation, lock, proc, discovery, worker>>
  BY DEF LoadDiscovery, Attach, EndSession, Detach
<1>3. SupervisionTypeOK'
  BY <1>t, <1>1, <1>2 DEF SupervisionTypeOK
<1>4. Owned'
  BY <1>1, <1>2 DEF Safety, Owned, OwnersHold, GenerationIsCurrent, HandlersAreDrained, PeersServe
<1>5. Tended'
  BY <1>2
  DEF Safety, Tended, OwnersWork, InFlightIsOwned, ClosedIsQuiet, Spawning, GenerationsArePast,
      GenerationIsMine, FinishedIsDead, TodoIsBound, ClearedIsClear, ActiveShareGeneration,
      SlotWasInstalled, InstalledIsSlot, OneReplacement, Replacing, HandedIsFree, OneInstalled
<1> QED BY <1>3, <1>4, <1>5 DEF Safety

-----------------------------------------------------------------------------
(* The tenant pool.                                                        *)

\* The leases of one tenant and what is open change; the order does not matter here.
PoolMoves(t, n, open) ==
  /\ pool' = [f \in PoolFields |-> pool'[f]]
  /\ pool'.leases \in [Tenant -> Nat] /\ pool'.leases[t] = n
  /\ \A u \in Tenant : u # t => pool'.leases[u] = pool.leases[u]
  /\ pool'.open = open /\ pool'.closed = pool.closed

LEMMA LeaseRow ==
  ASSUME LeasedIsOpen, NEW t \in Tenant, NEW n \in Nat, NEW order,
         pool' = [pool EXCEPT !.leases[t] = n, !.order = order]
  PROVE  PoolMoves(t, n, pool.open)
BY DEF LeasedIsOpen, PoolFields, PoolMoves

LEMMA OpenRow ==
  ASSUME LeasedIsOpen, NEW t \in Tenant, NEW order, NEW open,
         pool' = [pool EXCEPT !.order = order, !.leases[t] = 1, !.open = open]
  PROVE  PoolMoves(t, 1, open)
BY DEF LeasedIsOpen, PoolFields, PoolMoves

LEMMA EvictRow ==
  ASSUME LeasedIsOpen, NEW t \in Tenant, NEW order, NEW open, NEW closing,
         pool' = [pool EXCEPT !.order = order, !.leases[t] = 1, !.open = open, !.closing = closing]
  PROVE  PoolMoves(t, 1, open)
BY DEF LeasedIsOpen, PoolFields, PoolMoves

LEMMA PoolSafe ==
  ASSUME LeasedIsOpen,
         \/ \E t \in Tenant : Lease(t) \/ OpenTenant(t) \/ Evict(t) \/ ReleaseLease(t)
         \/ ClosePool
  PROVE  LeasedIsOpen'
<1>0. /\ pool.leases \in [Tenant -> Nat]
      /\ \A t \in Tenant : pool.leases[t] > 0 /\ ~pool.closed => t \in pool.open
  BY DEF LeasedIsOpen
<1>1. ASSUME NEW t \in Tenant, Lease(t) PROVE LeasedIsOpen'
  <2>1. pool' = [pool EXCEPT !.leases[t] = pool.leases[t] + 1, !.order = Used(t)]
    BY <1>1 DEF Lease
  <2>2. pool.leases[t] + 1 \in Nat
    BY <1>0
  <2>3. PoolMoves(t, pool.leases[t] + 1, pool.open)
    BY <2>1, <2>2, LeaseRow
  <2> QED BY <1>0, <1>1, <2>3 DEF LeasedIsOpen, PoolMoves, Lease
<1>2. ASSUME NEW t \in Tenant, OpenTenant(t) PROVE LeasedIsOpen'
  <2>1. PoolMoves(t, 1, pool.open \union {t})
    BY <1>2, OpenRow DEF OpenTenant
  <2> QED BY <1>0, <1>2, <2>1 DEF LeasedIsOpen, PoolMoves
<1>3. ASSUME NEW t \in Tenant, Evict(t) PROVE LeasedIsOpen'
  <2>1. PICK u \in Tenant :
          /\ Idle(u)
          /\ \/ \E order, closing :
                  pool' = [pool EXCEPT !.order = order, !.leases[t] = 1,
                                       !.open = (pool.open \ {u}) \union {t}, !.closing = closing]
             \/ \E closing : pool' = [pool EXCEPT !.closing = closing]
    BY <1>3 DEF Evict
  <2>2. CASE \E order, closing :
               pool' = [pool EXCEPT !.order = order, !.leases[t] = 1,
                                    !.open = (pool.open \ {u}) \union {t}, !.closing = closing]
    <3>1. PoolMoves(t, 1, (pool.open \ {u}) \union {t})
      BY <2>2, EvictRow
    <3>2. pool.leases[u] = 0
      BY <2>1 DEF Idle
    <3> QED BY <1>0, <3>1, <3>2 DEF LeasedIsOpen, PoolMoves
  <2>3. CASE \E closing : pool' = [pool EXCEPT !.closing = closing]
    BY <2>3 DEF LeasedIsOpen, PoolFields
  <2> QED BY <2>1, <2>2, <2>3
<1>4. ASSUME NEW t \in Tenant, ReleaseLease(t) PROVE LeasedIsOpen'
  <2>1. PICK order : pool' = [pool EXCEPT !.leases[t] = pool.leases[t] - 1, !.order = order]
    BY <1>4 DEF ReleaseLease
  <2>2. pool.leases[t] - 1 \in Nat
    <3>1. pool.leases[t] \in Nat /\ pool.leases[t] > 0
      BY <1>0, <1>4 DEF ReleaseLease
    <3> QED BY <3>1
  <2>3. PoolMoves(t, pool.leases[t] - 1, pool.open)
    BY <2>1, <2>2, LeaseRow
  <2> QED BY <1>0, <1>4, <2>3 DEF LeasedIsOpen, PoolMoves, ReleaseLease
<1>5. CASE ClosePool
  BY <1>5 DEF LeasedIsOpen, PoolFields, ClosePool
<1> QED BY <1>1, <1>2, <1>3, <1>4, <1>5

-----------------------------------------------------------------------------
(* The theorems.                                                           *)

Supervised == Safety /\ LeasedIsOpen

LEMMA SupervisedInit == Init => Supervised
<1> SUFFICES ASSUME Init PROVE Supervised
  OBVIOUS
<1>1. NewProcess \in Procs /\ NewProcess.stage = "new" /\ NewProcess.gen = 0
      /\ NewProcess.slot = 0 /\ NewProcess.todo = {} /\ ~NewProcess.handler
  BY DEF NewProcess, Procs, Stages
<1>2. NoWorker \in WorkerRows /\ NoWorker.owner = None /\ NoWorker.gen = 0
      /\ NoWorker.phase = "none" /\ NoWorker.binding = "none" /\ ~NoWorker.alive
      /\ NoWorker.child = "active"
  BY DEF NoWorker, WorkerRows, Phases
<1>3. NoSession \in Sessions /\ NoSession.peer = None
  BY DEF NoSession, Sessions
<1>4. SupervisionTypeOK
  BY <1>1, <1>2, <1>3 DEF Init, SupervisionTypeOK
<1>5. /\ \A p \in Process : proc[p] = NewProcess
      /\ \A w \in Worker : worker[w] = NoWorker
      /\ \A c \in Client : session[c] = NoSession
      /\ generation = 0
  BY DEF Init
<1>6. Owned
  BY <1>1, <1>3, <1>5
  DEF Owned, OwnersHold, GenerationIsCurrent, HandlersAreDrained, PeersServe, Owning, Running
<1>7. Tended
  BY <1>1, <1>2, <1>5, SupervisionAssumption
  DEF Tended, OwnersWork, InFlightIsOwned, ClosedIsQuiet, Spawning, GenerationsArePast,
      GenerationIsMine, FinishedIsDead, TodoIsBound, ClearedIsClear, ActiveShareGeneration,
      SlotWasInstalled, InstalledIsSlot, OneReplacement, Replacing, HandedIsFree, OneInstalled,
      InFlight, QuietStages
<1>8. LeasedIsOpen
  <2>1. pool = [order |-> <<>>, leases |-> [t \in Tenant |-> 0], open |-> {}, closing |-> {},
                closed |-> FALSE]
    BY DEF Init
  <2>2. pool = [f \in PoolFields |-> pool[f]]
    BY <2>1 DEF PoolFields
  <2>3. pool.leases \in [Tenant -> Nat] /\ \A t \in Tenant : pool.leases[t] = 0
    BY <2>1
  <2> QED BY <2>2, <2>3 DEF LeasedIsOpen
<1> QED BY <1>4, <1>6, <1>7, <1>8 DEF Supervised, Safety

LEMMA StutterSafe == Safety /\ UNCHANGED supervised => Safety'
BY DEF supervised, Safety, SupervisionTypeOK, Owned, OwnersHold, GenerationIsCurrent,
       HandlersAreDrained, PeersServe, Tended, OwnersWork, InFlightIsOwned, ClosedIsQuiet, Spawning,
       GenerationsArePast, GenerationIsMine, FinishedIsDead, TodoIsBound, ClearedIsClear,
       ActiveShareGeneration, SlotWasInstalled, InstalledIsSlot, OneReplacement, Replacing,
       HandedIsFree, OneInstalled

LEMMA SupervisedStep == Supervised /\ [Next]_vars => Supervised'
<1> SUFFICES ASSUME Supervised, [Next]_vars PROVE Supervised'
  OBVIOUS
<1> USE DEF Supervised
<1>1. CASE \E t \in Tenant : Lease(t) \/ OpenTenant(t) \/ Evict(t) \/ ReleaseLease(t)
  <2>1. UNCHANGED supervised
    BY <1>1 DEF Lease, OpenTenant, Evict, ReleaseLease
  <2> QED BY <1>1, <2>1, PoolSafe, StutterSafe
<1>2. CASE ClosePool
  <2>1. UNCHANGED supervised
    BY <1>2 DEF ClosePool
  <2> QED BY <1>2, <2>1, PoolSafe, StutterSafe
<1>3. CASE UNCHANGED vars
  <2>1. UNCHANGED supervised /\ UNCHANGED pool
    BY <1>3 DEF vars
  <2> QED BY <2>1, StutterSafe DEF LeasedIsOpen
<1>4. ASSUME NEW p \in Process, Starting(p) \/ Workers(p) \/ Stopping(p)
             \/ HandlerStarts(p) \/ HandlerEnds(p)
      PROVE  Supervised'
  <2>1. Safety'
    BY <1>4, StartingSafe, StartRuntimeSafe, WorkersStepSafe, StoppingSafe, HandlerSafe
  <2>2. UNCHANGED pool
    <3>1. CASE Starting(p)
      BY <3>1
      DEF Starting, Launch, CheckDiscovery, TakeOwnership, StartRuntime, BuildFails,
          RecoverOrphan,
          Built, ReconcilePredecessors, RecordReady, Publish, StartDispatch
    <3>2. CASE Workers(p)
      BY <3>2
      DEF Workers, Spawn, ClearRegistration, Register, Install, HandOver, Discard, Heartbeat,
          Retire
    <3>3. CASE Stopping(p)
      BY <3>3
      DEF Stopping, Stop, StartFails, ServeFails, BeginDrain, CloseDispatcher, ShutdownWorkers,
          RecordEnd, Release, Die
    <3> QED BY <1>4, <3>1, <3>2, <3>3 DEF HandlerStarts, HandlerEnds
  <2> QED BY <2>1, <2>2 DEF LeasedIsOpen
<1>5. ASSUME NEW c \in Client, LoadDiscovery(c) \/ Attach(c) \/ EndSession(c) \/ Detach(c)
      PROVE  Supervised'
  <2>1. UNCHANGED pool
    BY <1>5 DEF LoadDiscovery, Attach, EndSession, Detach
  <2> QED BY <1>5, <2>1, ClientSafe DEF LeasedIsOpen
<1>6. CASE \E w \in Worker : WorkerExits(w)
  <2>1. UNCHANGED pool
    BY <1>6 DEF WorkerExits
  <2>2. Safety'
    BY <1>6, WorkerExitsSafe
  <2> QED BY <2>1, <2>2 DEF LeasedIsOpen
<1> QED BY <1>1, <1>2, <1>3, <1>4, <1>5, <1>6 DEF Next

\* The inductive invariant: who holds the lock is current, and whose every worker is.
THEOREM SupervisedInvariant == Spec => []Supervised
<1> QED BY SupervisedInit, SupervisedStep, PTL DEF Spec

\* Whoever serves a client or runs a handler owns the runtime in its current
\* generation, and what is leased is open: lock, generation, attach and pool.
THEOREM UsersAreCurrent == Spec => []UsersHaveTheOwner
<1>1. Supervised => UsersHaveTheOwner
  <2> SUFFICES ASSUME Supervised PROVE UsersHaveTheOwner
    OBVIOUS
  <2>1. \A c \in Client : session[c].peer # None => session[c].peer \in Process
    BY DEF Supervised, Safety, SupervisionTypeOK, Sessions
  <2> QED BY <2>1
      DEF Supervised, Safety, Owned, OwnersHold, GenerationIsCurrent, HandlersAreDrained,
          PeersServe, Owning, Running, Handling, LeasedIsOpen, UsersHaveTheOwner
<1> QED BY <1>1, SupervisedInvariant, PTL

\* Two registered workers of a workspace are alive together only while a
\* create and a restore of one process race, and one of them is in use.
THEOREM OneWorkerInUse == Spec => []OneWorkerPerWorkspace
<1>1. Supervised => OneWorkerPerWorkspace
  <2> SUFFICES ASSUME Supervised, NEW v \in Worker, NEW w \in Worker, v # w,
                      worker[v].alive, worker[w].alive,
                      worker[v].binding # "none", worker[w].binding # "none"
               PROVE  /\ worker[v].gen = worker[w].gen
                      /\ ~(worker[v].phase = "installed" /\ worker[w].phase = "installed")
    BY DEF OneWorkerPerWorkspace
  <2>1. worker[v].binding = "active" /\ worker[w].binding = "active"
    BY DEF Supervised, Safety, SupervisionTypeOK, WorkerRows, Tended, FinishedIsDead
  <2> QED BY <2>1 DEF Supervised, Safety, Tended, ActiveShareGeneration, OneInstalled
<1> QED BY <1>1, SupervisedInvariant, PTL
=============================================================================
