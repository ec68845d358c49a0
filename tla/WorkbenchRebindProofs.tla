----------------------- MODULE WorkbenchRebindProofs -----------------------
(***************************************************************************)
(* The handover of a suspended Python stack, for any number of attempts,   *)
(* cells and crashes.                                                      *)
(*                                                                         *)
(* The argument.  A job suspends once, so there is one transfer, and only  *)
(* its successor delivers: it goes from claim to resumption once and never *)
(* back.  The journal has at most one open cell, the latest, which starts  *)
(* at the job's boundary with the committed cells in the namespace; a      *)
(* handler that works on it or delivers to it carries that boundary, so    *)
(* that it can touch the worker of no other boundary.  A lost cell is      *)
(* restored into the next generation, where no process knows its stack.    *)
(* The deadline drops a running cell of any attempt without a lease and    *)
(* restores nothing: such a cell counts as open still.  It never drops the *)
(* cell that is handed over, because the job suspends in its first attempt *)
(* and until the cell is settled nobody but the successor has a handler.   *)
(***************************************************************************)
EXTENDS WorkbenchRebind, FiniteSetTheorems, TLAPS

-----------------------------------------------------------------------------
(* Types.                                                                  *)

OpRow == [state : Terminal \cup {"accepted", "running", "indeterminate"},
          dispatch : {"queued", "running", "parked", "completed"}, attempt : 0..MaxAttempts]
AttemptStates == Terminal \cup {"none", "running", "suspended_external", "indeterminate"}
JobRow == [phase : Terminal \cup {"preparing_workspace", "accepted", "running",
                                  "waiting_external", "finalizing", "parked"},
           gen : Nat, rev : Nat]
TransferRow == [state : {"none", "prepared", "committed", "worker_ack", "fenced_loss", "aborted"},
                prior : 0..MaxAttempts, successor : 0..MaxAttempts, generation : Nat,
                worker : Nat, cell : 0..MaxCells, gen : Nat, rev : Nat]
CellRow == [state : {"none", "running", "suspended", "committed", "lost_before_commit"},
            attempt : 0..MaxAttempts, gen : Nat, rev : Nat, pre : SUBSET Cell,
            stage : {"none", "staged", "committed", "published"}]
AuthRow == [attempt : 0..MaxAttempts, generation : Nat, worker : Nat, cell : 0..MaxCells,
            token : BOOLEAN]
WorkerRow == [id : Nat, alive : BOOLEAN, lost : BOOLEAN, gen : Nat, rev : Nat,
              stack : 0..MaxCells, prepared : 0..MaxAttempts, running : 0..MaxAttempts,
              names : SUBSET Cell, receipt : 0..MaxCells]
Points == {"none", "begin", "reconcile", "prepare", "commit", "resume", "rerun", "ack", "settle",
           "recover", "plan", "start", "exec", "run", "close", "finalize", "publish", "conflict",
           "vanished", "park", "expire", "expired", "exhausted", "spent", "failed", "done"}
HandlerRow == [pc : Points, cell : 0..MaxCells, gen : Nat, rev : Nat]
RecoveryRow == [pc : {"idle", "restored", "marked"}, gen : Nat]

StoreTypes ==
  /\ op \in OpRow /\ att \in [Attempt -> AttemptStates] /\ job \in JobRow
  /\ susp \in {"none", "pending", "settled", "parked"}
  /\ outbox \in {"none", "pending", "prepared", "consumed"}
  /\ call \in {"none", "started", "succeeded"}
  /\ transfer \in TransferRow /\ cells \in [Cell -> CellRow] /\ auth \in AuthRow

ProcessTypes ==
  /\ budget \in CallBudgets /\ {late, cancelled, up} \subseteq BOOLEAN /\ crashes \in 0..MaxCrashes
  /\ ws \in WorkerRow /\ handler \in [Attempt -> HandlerRow] /\ recovery \in RecoveryRow
  /\ resumed \in Nat

Typed == StoreTypes /\ ProcessTypes

LEMMA Rows ==
  /\ NoCell \in CellRow /\ NoTransfer \in TransferRow /\ NoAuth \in AuthRow
  /\ NoWorker \in WorkerRow /\ NoHandler \in HandlerRow /\ NoRecovery \in RecoveryRow
BY RebindAssumption
DEF NoCell, CellRow, NoTransfer, TransferRow, NoAuth, AuthRow, NoWorker, WorkerRow,
    NoHandler, HandlerRow, Points, NoRecovery, RecoveryRow

LEMMA Products == \A m, n \in Nat : m * n \in Nat /\ (m > 0 /\ n > 0 => m * n > 0)
OBVIOUS

\* The identity of a process is a number, and not the one that stands for none.
LEMMA Identity ==
  ASSUME NEW gen \in Nat, gen > 0, crashes \in 0..MaxCrashes
  PROVE  /\ gen * (MaxCrashes + 1) + crashes \in Nat
         /\ gen * (MaxCrashes + 1) + crashes # 0
<1> DEFINE n == MaxCrashes + 1
<1>1. n \in Nat /\ n > 0 /\ crashes \in Nat
  BY RebindAssumption
<1> HIDE DEF n
<1>2. gen * n \in Nat /\ gen * n > 0
  BY <1>1, Products
<1>3. gen * n + crashes \in Nat /\ gen * n + crashes # 0
  <2> DEFINE k == gen * n
  <2> HIDE DEF k
  <2>1. k \in Nat /\ k > 0
    BY <1>2 DEF k
  <2>2. k + crashes \in Nat /\ k + crashes # 0
    BY <2>1, <1>1
  <2> QED BY <2>2 DEF k
<1> QED BY <1>3 DEF n

LEMMA SpawnIs ==
  ASSUME NEW gen \in Nat, gen > 0, NEW names \in SUBSET Cell, crashes \in 0..MaxCrashes
  PROVE  /\ Spawn(gen, names) \in WorkerRow
         /\ Spawn(gen, names).id # 0
         /\ Spawn(gen, names).gen = gen /\ Spawn(gen, names).rev = 0
         /\ Spawn(gen, names).names = names /\ Spawn(gen, names).running = 0
         /\ Spawn(gen, names).stack = 0 /\ Spawn(gen, names).receipt = 0
<1> DEFINE id == gen * (MaxCrashes + 1) + crashes
<1>1. id \in Nat /\ id # 0
  BY Identity
<1>2. \A row \in WorkerRow, i \in Nat :
        LET new == [row EXCEPT !.id = i, !.alive = TRUE, !.gen = gen, !.names = names]
        IN  /\ new \in WorkerRow
            /\ new.id = i /\ new.gen = gen /\ new.names = names /\ new.rev = row.rev
            /\ new.running = row.running /\ new.stack = row.stack /\ new.receipt = row.receipt
  BY DEF WorkerRow
<1>3. Spawn(gen, names) = [NoWorker EXCEPT !.id = id, !.alive = TRUE, !.gen = gen, !.names = names]
  BY Zenon DEF Spawn
<1>4. NoWorker.rev = 0 /\ NoWorker.running = 0 /\ NoWorker.stack = 0 /\ NoWorker.receipt = 0
  BY DEF NoWorker
<1> DEFINE new == [NoWorker EXCEPT !.id = id, !.alive = TRUE, !.gen = gen, !.names = names]
<1> HIDE DEF id
<1>5. /\ new \in WorkerRow
      /\ new.id = id /\ new.gen = gen /\ new.names = names /\ new.rev = NoWorker.rev
      /\ new.running = NoWorker.running /\ new.stack = NoWorker.stack
      /\ new.receipt = NoWorker.receipt
  BY Zenon, <1>1, <1>2, Rows
<1>6. Spawn(gen, names) = new
  BY <1>3
<1> HIDE DEF new
<1> QED BY <1>1, <1>4, <1>5, <1>6

-----------------------------------------------------------------------------
(* The invariant.                                                          *)

Lost == transfer.state \in {"aborted", "fenced_loss"}

\* The cells that may still run.  A cell the deadline dropped is one of them: nothing was restored.
Open == {c \in Cell :
  \/ cells[c].state \in {"running", "suspended"}
  \/ cells[c].state = "lost_before_commit" /\ ~(Lost /\ c = transfer.cell)}

\* where a handler delivers to the transfer's cell, and where it runs a cell of its own
Delivering == {"reconcile", "prepare", "commit", "resume", "rerun", "ack", "failed", "settle"}
Working == {"exec", "run", "close"}
Running == {"run", "rerun"}
Planned == {"recover", "plan", "start"}
Early == {"begin", "reconcile", "prepare", "commit", "resume"}
Straying == Planned \cup Working \cup {"finalize", "publish"}

\* Only the latest attempt runs, and only while the operation does.
Owned ==
  /\ op.state = "running" =>
       op.attempt \in Attempt /\ op.dispatch = "running" /\ att[op.attempt] = "running"
  /\ \A b \in Attempt :
       /\ att[b] = "running" => b = op.attempt /\ op.state = "running"
       /\ att[b] = "none" <=> b > op.attempt
       /\ att[b] \in Terminal => op.state \in Terminal
       /\ handler[b].pc # "none" => b <= op.attempt

Authorised ==
  /\ auth.attempt = 0 => auth.generation = 0
  /\ auth.attempt # 0 => auth.cell \in Cell
  /\ auth.attempt <= op.attempt
  /\ transfer.state # "none" => auth.attempt # 0

\* The job suspends once, and rests until the successor of the suspended attempt is claimed.
Suspensions ==
  /\ call = "none" => susp = "none"
  /\ susp = "none" => outbox = "none"
  /\ outbox \in {"none", "pending"} <=> transfer.state = "none"
  /\ susp = "pending" => op.dispatch = "parked" /\ outbox = "none"
  /\ susp \in {"pending", "settled"} /\ transfer.state = "none" =>
       op.state = "accepted" /\ auth.attempt # 0 /\ cells[auth.cell].state = "suspended"

\* The cell of the transfer, and what a loss leaves of it.
Transfers ==
  /\ transfer.state = "none" => transfer.successor = 0
  /\ transfer.state # "none" => transfer.cell \in Cell /\ transfer.successor \in 1..op.attempt
  /\ transfer.state = "prepared" => cells[transfer.cell].state = "suspended"
  /\ transfer.state = "committed" => cells[transfer.cell].state = "running"
  /\ transfer.state = "worker_ack" => cells[transfer.cell].state \in {"running", "committed"}
  /\ Lost => /\ cells[transfer.cell].state = "lost_before_commit"
             /\ job.gen = cells[transfer.cell].gen + 1
             /\ job.rev = 0 => Committed = cells[transfer.cell].pre
             /\ ws.id = 0 \/ ws.gen > cells[transfer.cell].gen

\* At most the latest cell is open, and it began at the job's boundary.
Numbered ==
  CellCount \in 0..MaxCells /\ \A c \in Cell : cells[c].state # "none" <=> c <= CellCount
Begun(c) ==
  cells[c].state # "none" => cells[c].attempt \in 1..op.attempt /\ cells[c].gen <= job.gen
AtBoundary(c) ==
  c \in Open =>
    c = CellCount /\ cells[c].gen = job.gen /\ cells[c].rev = job.rev /\ cells[c].pre = Committed
Staged(c) == cells[c].stage \in {"committed", "published"} => cells[c].state = "committed"
Journal == Numbered /\ \A c \in Cell : Begun(c) /\ AtBoundary(c) /\ Staged(c)

\* What a handler carries.
Works(a) ==
  LET h == handler[a] IN
  h.pc \in Working =>
    /\ h.cell \in Open /\ cells[h.cell].state # "suspended" /\ cells[h.cell].attempt = a
    /\ h.gen = cells[h.cell].gen /\ h.rev = cells[h.cell].rev
    /\ transfer.state # "none" => h.cell # transfer.cell
Delivers(a) ==
  LET h == handler[a] IN
  /\ h.pc \in Delivering =>
       /\ transfer.state # "none" /\ transfer.successor = a /\ h.cell = transfer.cell
       /\ h.gen = cells[h.cell].gen /\ h.rev = cells[h.cell].rev
       /\ cells[h.cell].state # "committed"
  /\ h.pc = "settle" => transfer.state = "worker_ack"
  /\ h.pc \in {"resume", "rerun"} => transfer.state \notin {"prepared", "aborted"}
StartsClean(a) ==
  Fenced(a) =>
    /\ handler[a].pc \in Planned => Open = {}
    /\ handler[a].pc = "begin" => Token(a) \/ Open = {}
Handlers == \A a \in Attempt : Works(a) /\ Delivers(a) /\ StartsClean(a)

\* The worker runs for one handler at a time, and knows only cells of its own generation.
Runs(a) ==
  /\ handler[a].pc \in Running <=> ws.running = a
  /\ ws.running = a =>
       /\ ws.gen = handler[a].gen /\ ws.rev = handler[a].rev
       /\ ws.stack = IF handler[a].pc = "rerun" THEN handler[a].cell ELSE 0
Worker ==
  /\ \A a \in Attempt : Runs(a)
  /\ \A c \in Cell : c \in {ws.stack, ws.receipt} => cells[c].state # "none" /\ cells[c].gen = ws.gen
  /\ ws.id = 0 => ~ws.alive /\ ws.running = 0 /\ ws.stack = 0 /\ ws.receipt = 0

\* What the namespace holds at the job's boundary, and at the one the open cell leads to.
Namespace ==
  /\ Available /\ CheckHandle(job.gen, job.rev) =>
       /\ ws.running = 0 /\ ws.stack = 0 => ws.names = Committed
       /\ ws.stack # 0 =>
            /\ ws.stack \in Open /\ ws.names = Committed \cup {ws.stack}
            /\ \/ cells[ws.stack].state = "suspended"
               \/ transfer.state # "none" /\ ws.stack = transfer.cell
       /\ ws.running # 0 /\ ws.stack = 0 => ws.names = Committed \cup {handler[ws.running].cell}
  /\ Available /\ CheckHandle(job.gen, job.rev + 1) =>
       ws.stack = 0 /\ \A c \in Open : ws.names = Committed \cup {c}

\* Between the steps of a recovery nothing moves, and the restored worker is untouched.
Recoveries ==
  recovery.pc # "idle" =>
    /\ transfer.state # "none" /\ op.state = "indeterminate"
    /\ recovery.gen = cells[transfer.cell].gen + 1 /\ ws.gen = recovery.gen
    /\ recovery.pc = "restored" /\ recovery.gen # job.gen =>
         ws.rev = 0 /\ ws.names = cells[transfer.cell].pre /\ ws.running = 0 /\ ws.stack = 0

Resumed ==
  /\ resumed \in {0, 1}
  /\ resumed = 1 =>
       /\ transfer.state \notin {"none", "prepared", "aborted"}
       /\ handler[transfer.successor].pc \notin Early

\* While the suspended cell is handed over nobody but the successor has a handler, and the
\* successor does what it is there for: nobody is where the deadline drops a running cell.
Handing ==
  \/ transfer.state \in {"prepared", "committed"}
  \/ transfer.state = "worker_ack" /\ cells[transfer.cell].state = "running"
Barred ==
  Straying \cup (IF transfer.state = "prepared" THEN {} ELSE {"begin", "reconcile", "prepare", "expire"})
Alone ==
  /\ transfer.state = "none" => op.attempt <= 1
  /\ transfer.state = "none" /\ susp \in {"pending", "settled"} =>
       \A b \in Attempt : handler[b].pc = "none"
  /\ Handing =>
       \A b \in Attempt : IF b = transfer.successor THEN handler[b].pc \notin Barred
                          ELSE handler[b].pc = "none"

Books == Owned /\ Authorised /\ Suspensions /\ Transfers /\ Journal
Processes == Handlers /\ Worker /\ Namespace /\ Recoveries /\ Resumed /\ Alone
Sound == Books /\ Processes

-----------------------------------------------------------------------------
(* Steps that change none of this but the place of a handler.              *)

\* the deadline drops a running cell, but not one that is handed over
Drops(c) ==
  /\ cells[c].state = "running" /\ cells'[c].state = "lost_before_commit"
  /\ transfer.state = "none" \/ c # transfer.cell

SameCell(c) ==
  /\ cells'[c].state = cells[c].state \/ Drops(c)
  /\ cells'[c].attempt = cells[c].attempt
  /\ cells'[c].gen = cells[c].gen /\ cells'[c].rev = cells[c].rev /\ cells'[c].pre = cells[c].pre
  /\ cells'[c].stage \in {"committed", "published"} => cells[c].stage \in {"committed", "published"}
SameCells == \A c \in Cell : SameCell(c)

SameWorker ==
  /\ ws'.id = ws.id /\ ws'.gen = ws.gen /\ ws'.rev = ws.rev /\ ws'.lost = ws.lost
  /\ ws'.stack = ws.stack /\ ws'.running = ws.running /\ ws'.names = ws.names
  /\ ws'.receipt = ws.receipt /\ (ws'.alive => ws.alive)

SameBoundary == job'.gen = job.gen /\ job'.rev = job.rev

\* a handler goes on, or leaves
Proceeds(a, now, next) ==
  /\ next # "none" => now # "none"
  /\ next \in Working => now \in Working
  /\ next \in Delivering => now \in Delivering
  /\ next = "settle" => now = "settle"
  /\ next \in {"resume", "rerun"} =>
       now \in {"resume", "rerun"} \/ transfer.state \notin {"prepared", "aborted"}
  /\ next \in Planned /\ Fenced(a) => now \in Planned \/ Open = {}
  /\ next \in Early => now \in Early
  /\ next = "begin" => now = "begin"
  /\ Handing /\ next \in Barred => now \in Barred

\* and neither enters nor leaves the worker
Harmless(a, now, next) ==
  /\ Proceeds(a, now, next)
  /\ (next \in Running <=> now \in Running) /\ (next = "rerun" <=> now = "rerun")

Drifts(a) ==
  /\ handler'[a].cell = handler[a].cell
  /\ handler'[a].gen = handler[a].gen /\ handler'[a].rev = handler[a].rev
  /\ Harmless(a, handler[a].pc, handler'[a].pc)

\* nothing but the registry's row of the operation and its suspension may change, which does not
\* open again, and nobody gains the lease
Calm ==
  /\ UNCHANGED <<transfer, auth, resumed>>
  /\ susp' \in {"pending", "settled"} => susp \in {"pending", "settled"}
  /\ op'.attempt = op.attempt /\ \A a \in Attempt : Fenced(a)' => Fenced(a)
  /\ SameBoundary /\ SameCells /\ SameWorker
  /\ \A a \in Attempt : Drifts(a)

Quiet ==
  /\ UNCHANGED <<op, att, susp, outbox, transfer, auth, recovery, resumed>>
  /\ call' = "none" => call = "none"
  /\ SameBoundary /\ SameCells /\ SameWorker
  /\ \A a \in Attempt : Drifts(a)

LEMMA SameCount ==
  ASSUME \A c \in Cell : cells'[c].state = "none" <=> cells[c].state = "none"
  PROVE  CellCount' = CellCount
<1>1. {c \in Cell : cells'[c].state # "none"} = {c \in Cell : cells[c].state # "none"}
  OBVIOUS
<1> QED BY <1>1 DEF CellCount

LEMMA SameSets ==
  ASSUME SameCells, UNCHANGED transfer
  PROVE  CellCount' = CellCount /\ Open' = Open /\ Committed' = Committed
<1>1. CellCount' = CellCount
  BY SameCount DEF SameCells, SameCell, Drops
<1>2. Open' = Open
  BY DEF Open, Lost, SameCells, SameCell, Drops
<1>3. Committed' = Committed
  BY DEF Committed, SameCells, SameCell, Drops
<1> QED BY <1>1, <1>2, <1>3

LEMMA HandingIsOpen ==
  ASSUME Sound, Handing
  PROVE  transfer.state # "none" /\ transfer.cell \in Open /\ transfer.successor \in 1..op.attempt
BY DEF Sound, Books, Transfers, Handing, Open

LEMMA CalmIsSound ==
  ASSUME Typed, Typed', Sound, Calm, Owned', Suspensions', Recoveries'
  PROVE  Sound'
<1>s. CellCount' = CellCount /\ Open' = Open /\ Committed' = Committed
  BY SameSets DEF Calm
<1>0. /\ transfer' = transfer /\ auth' = auth /\ resumed' = resumed
      /\ op'.attempt = op.attempt
  BY DEF Calm
<1>t. \A a \in Attempt : Transfers => Token(a)' = Token(a)
  BY <1>0 DEF Token, Transfers, Calm, SameCells, SameCell, Drops
<1>1. Authorised'
  BY <1>0 DEF Sound, Books, Authorised
<1>2. Transfers'
  BY <1>0, <1>s
  DEF Sound, Books, Transfers, Lost, Calm, SameCells, SameCell, Drops, SameBoundary, SameWorker
<1>3. Journal'
  BY <1>0, <1>s
 
  DEF Sound, Books, Journal, Numbered, Begun, AtBoundary, Staged, Calm, SameCells, SameCell,
      Drops,
      SameBoundary
<1>4. Handlers'
  <2> SUFFICES ASSUME NEW a \in Attempt PROVE Works(a)' /\ Delivers(a)' /\ StartsClean(a)'
    BY DEF Handlers
  <2>1. Works(a) /\ Delivers(a) /\ StartsClean(a) /\ Transfers /\ Drifts(a)
    BY DEF Sound, Books, Processes, Handlers, Calm
  <2>2. Works(a)'
    <3>1. handler[a].cell \in Open => handler[a].cell \in Cell
      BY DEF Open
    <3> QED BY <1>0, <1>s, <2>1, <3>1
       DEF Works, Drifts, Harmless, Proceeds, Calm, SameCells, SameCell, Drops
  <2>3. Delivers(a)'
    BY <1>0, <2>1
    DEF Delivers, Transfers, Drifts, Harmless, Proceeds, Calm, SameCells, SameCell, Drops
  <2>4. StartsClean(a)'
    <3>1. Fenced(a)' => Fenced(a)
      BY DEF Calm
    <3> QED BY <1>0, <1>s, <1>t, <2>1, <3>1 DEF StartsClean, Drifts, Harmless, Proceeds
  <2> QED BY <2>2, <2>3, <2>4
<1>5. Worker'
  BY
  DEF Sound, Processes, Worker, Runs, Calm, Drifts, Harmless, Proceeds, SameWorker, SameCells,
      SameCell, Drops
<1>6. Namespace'
  <2>1. ws.running # 0 => ws.running \in Attempt
    <3>1. ws.running \in 0..MaxAttempts /\ MaxAttempts \in Nat
      BY RebindAssumption DEF Typed, ProcessTypes, WorkerRow
    <3> QED BY <3>1 DEF Attempt
  <2>2. ws.stack \in Open /\ cells[ws.stack].state = "suspended" => cells'[ws.stack].state = "suspended"
    BY DEF Open, Calm, SameCells, SameCell, Drops
  <2> QED BY <1>0, <1>s, <2>1, <2>2
     DEF Sound, Processes, Namespace, Available, CheckHandle, Calm, Drifts, SameWorker,
         SameBoundary
<1>7. Resumed'
  BY <1>0, RebindAssumption
  DEF Sound, Books, Processes, Resumed, Transfers, Typed, StoreTypes, OpRow, Calm, Drifts,
      Harmless, Proceeds, Attempt
<1>8. Alone'
  <2>1. Handing' => Handing
    BY <1>0 DEF Handing, Sound, Books, Transfers, Calm, SameCells, SameCell, Drops
  <2>2. Barred' = Barred
    BY <1>0 DEF Barred
  <2>3. \A b \in Attempt : /\ handler[b].pc = "none" => handler'[b].pc = "none"
                           /\ Handing /\ handler'[b].pc \in Barred => handler[b].pc \in Barred
    BY DEF Calm, Drifts, Harmless, Proceeds
  <2>4. Alone
    BY DEF Sound, Processes
  <2>5. susp' \in {"pending", "settled"} => susp \in {"pending", "settled"}
    BY DEF Calm
  <2> QED BY <1>0, <2>1, <2>2, <2>3, <2>4, <2>5 DEF Alone
<1> QED BY <1>1, <1>2, <1>3, <1>4, <1>5, <1>6, <1>7, <1>8 DEF Sound, Books, Processes

LEMMA QuietIsSound ==
  ASSUME Typed, Typed', Sound, Quiet
  PROVE  Sound'
<1>0. /\ op' = op /\ att' = att /\ susp' = susp /\ outbox' = outbox /\ transfer' = transfer
      /\ auth' = auth /\ recovery' = recovery
  BY DEF Quiet
<1>1. Calm
  BY <1>0 DEF Calm, Quiet, Fenced
<1>2. Owned'
  BY <1>0 DEF Sound, Books, Owned, Quiet, Drifts, Harmless, Proceeds
<1>3. Suspensions'
  BY <1>0 DEF Sound, Books, Suspensions, Authorised, Quiet, SameCells, SameCell, Drops
<1>4. Recoveries'
  BY <1>0 DEF Sound, Books, Processes, Recoveries, Transfers, Quiet, SameWorker, SameCells,
              SameCell, Drops, SameBoundary
<1> QED BY <1>1, <1>2, <1>3, <1>4, CalmIsSound

-----------------------------------------------------------------------------
(* The quiet steps.                                                        *)

PcTo(a, p) ==
  /\ handler' \in [Attempt -> HandlerRow]
  /\ handler'[a].pc = p
  /\ handler'[a].cell = handler[a].cell
  /\ handler'[a].gen = handler[a].gen /\ handler'[a].rev = handler[a].rev
  /\ \A b \in Attempt : b # a => handler'[b] = handler[b]

LEMMA GoIs ==
  ASSUME Typed, NEW a \in Attempt, NEW p \in Points, Go(a, p)
  PROVE  PcTo(a, p)
<1>1. handler \in [Attempt -> HandlerRow]
  BY DEF Typed, ProcessTypes
<1> QED BY <1>1 DEF Go, PcTo, HandlerRow

\* where a handler is on its way out, or publishes
Exits == {"none", "conflict", "vanished", "park", "expire", "expired", "exhausted", "spent",
          "finalize", "publish", "done"}

LEMMA Drifting ==
  ASSUME NEW a \in Attempt, NEW p \in Points, PcTo(a, p), Harmless(a, handler[a].pc, p)
  PROVE  \A b \in Attempt : Drifts(b)
BY DEF PcTo, Drifts, Harmless, Proceeds

LEMMA Leaving ==
  ASSUME Typed, NEW a \in Attempt, NEW p \in Exits, Go(a, p),
         handler[a].pc \notin Running \cup {"none"},
         handler[a].pc \in Straying \/ p \notin {"expire", "finalize", "publish"}
  PROVE  handler' \in [Attempt -> HandlerRow] /\ \A b \in Attempt : Drifts(b)
<1>1. p \in Points
  BY DEF Exits, Points
<1>2. PcTo(a, p)
  BY <1>1, GoIs
<1>3. Harmless(a, handler[a].pc, p)
  BY DEF Harmless, Proceeds, Exits, Running, Planned, Early, Working, Delivering, Barred, Straying
<1> QED BY <1>1, <1>2, <1>3, Drifting DEF PcTo

LEMMA Resting ==
  ASSUME handler' = handler
  PROVE  \A b \in Attempt : Drifts(b)
BY DEF Drifts, Harmless, Proceeds

LEMMA SameRows == cells' = cells => SameCells
BY DEF SameCells, SameCell
LEMMA SameWs == ws' = ws => SameWorker
BY DEF SameWorker
LEMMA SameJob == job' = job => SameBoundary
BY DEF SameBoundary

LEMMA WeatherQuiet ==
  ASSUME Typed, WorkerDies \/ Passes \/ Cancel
  PROVE  Typed' /\ Quiet
<1>1. UNCHANGED <<store, handler, recovery, resumed>>
  BY DEF WorkerDies, Passes, Cancel
<1>2. ws' \in WorkerRow /\ SameWorker
  <2>1. CASE ws' = ws
    BY <2>1 DEF Typed, ProcessTypes, SameWorker
  <2>2. CASE ws' = [ws EXCEPT !.alive = FALSE]
    BY <2>2 DEF Typed, ProcessTypes, SameWorker, WorkerRow
  <2> QED BY <2>1, <2>2 DEF WorkerDies, Passes, Cancel
<1>3. /\ budget' \in CallBudgets /\ {late', cancelled', up'} \subseteq BOOLEAN
      /\ crashes' \in 0..MaxCrashes
  <2>1. budget' = budget /\ late' \in {late, TRUE} /\ cancelled' \in {cancelled, TRUE} /\ up' = up
    BY DEF WorkerDies, Passes, Cancel
  <2>2. crashes' = crashes \/ (crashes' = crashes + 1 /\ crashes < MaxCrashes)
    BY DEF WorkerDies, Passes, Cancel
  <2>3. budget \in CallBudgets /\ {late, cancelled, up} \subseteq BOOLEAN /\ crashes \in 0..MaxCrashes
    BY DEF Typed, ProcessTypes
  <2>4. crashes' \in 0..MaxCrashes
    BY <2>2, <2>3, RebindAssumption
  <2> QED BY <2>1, <2>3, <2>4
<1>4. Typed'
  BY <1>1, <1>2, <1>3 DEF Typed, StoreTypes, ProcessTypes, store
<1> QED BY <1>1, <1>2, <1>4, SameRows, SameJob, Resting DEF Quiet, store

\* a handler moves on or leaves, and at most the phase of the job changes
LEMMA PhaseQuiet ==
  ASSUME Typed, UNCHANGED <<weather, op, att, susp, outbox, transfer, auth, recovery, resumed>>,
         cells' \in [Cell -> CellRow], SameCells, ws' \in WorkerRow, SameWorker,
         job' \in JobRow, SameBoundary,
         call' \in {"none", "started", "succeeded"}, call' = "none" => call = "none",
         handler' \in [Attempt -> HandlerRow], \A b \in Attempt : Drifts(b)
  PROVE  Typed' /\ Quiet
<1>1. Typed'
  BY DEF Typed, StoreTypes, ProcessTypes, weather
<1> QED BY <1>1 DEF Quiet

LEMMA PhaseIs ==
  ASSUME job \in JobRow,
         NEW phase \in Terminal \cup {"preparing_workspace", "accepted", "running",
                                      "waiting_external", "finalizing", "parked"},
         job' = job \/ job' = [job EXCEPT !.phase = phase]
  PROVE  job' \in JobRow /\ SameBoundary
BY DEF JobRow, SameBoundary

LEMMA FailingQuiet ==
  ASSUME Typed, NEW a \in Attempt, ParkJob(a) \/ MarkExhausted(a) \/ Finalize(a)
  PROVE  Typed' /\ Quiet
<1>1. job \in JobRow /\ cells \in [Cell -> CellRow] /\ ws \in WorkerRow
      /\ call \in {"none", "started", "succeeded"}
  BY DEF Typed, StoreTypes, ProcessTypes
<1>2. \E p \in Exits : Go(a, p)
  BY DEF ParkJob, MarkExhausted, Finalize, Exits
<1>3. handler[a].pc \notin Running \cup {"none"}
  BY DEF ParkJob, MarkExhausted, Finalize, At, Running
<1>4. handler' \in [Attempt -> HandlerRow] /\ \A b \in Attempt : Drifts(b)
  <2>1. Finalize(a) => handler[a].pc \in Straying
    BY DEF Finalize, At, Straying
  <2>2. ~Finalize(a) => Go(a, "park") \/ Go(a, "spent")
    BY DEF ParkJob, MarkExhausted
  <2> QED BY <1>2, <1>3, <2>1, <2>2, Leaving DEF Exits
<1>5. job' \in JobRow /\ SameBoundary
  <2>1. job' = job \/ job' = [job EXCEPT !.phase = "parked"]
        \/ job' = [job EXCEPT !.phase = "failed"] \/ job' = [job EXCEPT !.phase = "finalizing"]
    BY DEF ParkJob, MarkExhausted, Finalize
  <2> QED BY <1>1, <2>1, PhaseIs DEF Terminal
<1>6. UNCHANGED <<weather, op, att, susp, outbox, call, transfer, cells, auth, ws, recovery, resumed>>
  BY DEF ParkJob, MarkExhausted, Finalize
<1> QED BY <1>1, <1>4, <1>5, <1>6, SameRows, SameWs, PhaseQuiet

\* The deadline drops no cell that is handed over, and parks no settled suspension.
LEMMA DeadlineQuiet ==
  ASSUME Typed, Sound, NEW a \in Attempt, MarkDeadline(a)
  PROVE  Typed' /\ Quiet
<1>1. job \in JobRow /\ cells \in [Cell -> CellRow] /\ ws \in WorkerRow
      /\ call \in {"none", "started", "succeeded"}
  BY DEF Typed, StoreTypes, ProcessTypes
<1>2. handler[a].pc = "expire" /\ (Go(a, "expired") \/ Go(a, "park"))
  BY DEF MarkDeadline, At
<1>3. handler' \in [Attempt -> HandlerRow] /\ \A b \in Attempt : Drifts(b)
  BY <1>2, Leaving DEF Exits, Running
<1>4. job' \in JobRow /\ SameBoundary
  BY <1>1, PhaseIs DEF MarkDeadline, Terminal
<1>5. /\ UNCHANGED <<weather, op, att, outbox, call, transfer, auth, ws, recovery, resumed>>
      /\ \/ UNCHANGED <<cells, susp>>
         \/ cells' = [c \in Cell |-> Dropped(cells[c])] /\ ParkSuspension
  BY DEF MarkDeadline
<1>6. susp' = susp
  <2>1. susp = "pending" => transfer.state = "none"
    BY DEF Sound, Books, Suspensions
  <2>2. susp # "pending"
    BY <1>2, <2>1 DEF Sound, Processes, Alone
  <2> QED BY <1>5, <2>2 DEF ParkSuspension
<1>7. transfer.state # "none" => cells[transfer.cell].state # "running"
  <2>1. transfer.state = "prepared" \/ ~Handing
    BY <1>2 DEF Sound, Processes, Alone, Barred
  <2>2. transfer.state \in {"none", "prepared", "committed", "worker_ack", "fenced_loss", "aborted"}
    BY DEF Typed, StoreTypes, TransferRow
  <2>3. Transfers
    BY DEF Sound, Books
  <2> QED BY <2>1, <2>2, <2>3 DEF Handing, Transfers, Lost
<1>8. cells' \in [Cell -> CellRow] /\ SameCells
  <2>1. CASE cells' = cells
    BY <1>1, <2>1, SameRows
  <2>2. CASE cells' = [c \in Cell |-> Dropped(cells[c])]
    <3>1. \A c \in Cell :
            \/ cells[c].state = "running" /\ cells'[c] = [cells[c] EXCEPT !.state = "lost_before_commit"]
            \/ cells'[c] = cells[c]
      BY <2>2 DEF Dropped
    <3>2. ASSUME NEW c \in Cell PROVE cells'[c] \in CellRow /\ SameCell(c)
      <4>1. CASE cells'[c] = cells[c]
        BY <1>1, <4>1 DEF SameCell
      <4>2. CASE /\ cells[c].state = "running"
                 /\ cells'[c] = [cells[c] EXCEPT !.state = "lost_before_commit"]
        <5>1. /\ cells'[c] \in CellRow /\ cells'[c].state = "lost_before_commit"
              /\ cells'[c].attempt = cells[c].attempt /\ cells'[c].gen = cells[c].gen
              /\ cells'[c].rev = cells[c].rev /\ cells'[c].pre = cells[c].pre
              /\ cells'[c].stage = cells[c].stage
          BY <1>1, <4>2 DEF CellRow
        <5> QED BY <1>7, <4>2, <5>1 DEF SameCell, Drops
      <4> QED BY <3>1, <4>1, <4>2
    <3>3. cells' = [c \in Cell |-> cells'[c]]
      BY <2>2
    <3> QED BY <3>2, <3>3 DEF SameCells
  <2> QED BY <1>5, <2>1, <2>2
<1> QED BY <1>1, <1>3, <1>4, <1>5, <1>6, <1>8, SameWs, PhaseQuiet

LEMMA PublishQuiet ==
  ASSUME Typed, NEW a \in Attempt, Publish(a)
  PROVE  Typed' /\ Quiet
<1>1. job \in JobRow /\ cells \in [Cell -> CellRow] /\ ws \in WorkerRow
      /\ call \in {"none", "started", "succeeded"}
  BY DEF Typed, StoreTypes, ProcessTypes
<1>2. \E p \in Exits : Go(a, p)
  BY DEF Publish, Exits
<1>3. handler' \in [Attempt -> HandlerRow] /\ \A b \in Attempt : Drifts(b)
  BY <1>2, Leaving DEF Publish, At, Running, Straying
<1>4. job' \in JobRow /\ SameBoundary
  BY <1>1, PhaseIs DEF Publish, Terminal
<1>5. cells' \in [Cell -> CellRow] /\ SameCells
  <2>1. CASE cells' = [c \in Cell |-> IF cells[c].stage = "committed"
                                     THEN [cells[c] EXCEPT !.stage = "published"] ELSE cells[c]]
    <3>1. \A c \in Cell :
            \/ cells'[c] = [cells[c] EXCEPT !.stage = "published"] /\ cells[c].stage = "committed"
            \/ cells'[c] = cells[c]
      BY <2>1
    <3>2. \A c \in Cell : cells'[c] \in CellRow /\ SameCell(c)
      BY <1>1, <3>1 DEF CellRow, SameCell
    <3>3. cells' = [c \in Cell |-> cells'[c]]
      BY <2>1
    <3> QED BY <3>2, <3>3 DEF SameCells
  <2>2. CASE cells' = cells
    BY <1>1, <2>2, SameRows
  <2> QED BY <2>1, <2>2 DEF Publish
<1>6. UNCHANGED <<weather, op, att, susp, outbox, call, transfer, auth, ws, recovery, resumed>>
  BY DEF Publish
<1> QED BY <1>1, <1>3, <1>4, <1>5, <1>6, SameWs, PhaseQuiet

LEMMA StageQuiet ==
  ASSUME Typed, NEW a \in Attempt, StageArtifact(a)
  PROVE  Typed' /\ Quiet
<1>1. job \in JobRow /\ cells \in [Cell -> CellRow] /\ ws \in WorkerRow
      /\ call \in {"none", "started", "succeeded"} /\ handler \in [Attempt -> HandlerRow]
  BY DEF Typed, StoreTypes, ProcessTypes
<1>2. cells' \in [Cell -> CellRow] /\ SameCells
  <2> DEFINE k == handler[a].cell
  <2>1. cells' = [cells EXCEPT ![k].stage = "staged"]
    BY DEF StageArtifact
  <2> HIDE DEF k
  <2>2. \A c \in Cell : cells'[c] = cells[c] \/ cells'[c] = [cells[c] EXCEPT !.stage = "staged"]
    BY <1>1, <2>1
  <2>3. ASSUME NEW c \in Cell PROVE cells'[c] \in CellRow /\ SameCell(c)
    <3>1. CASE cells'[c] = cells[c]
      BY <1>1, <3>1 DEF SameCell
    <3>2. CASE cells'[c] = [cells[c] EXCEPT !.stage = "staged"]
      BY <1>1, <3>2 DEF CellRow, SameCell
    <3> QED BY <2>2, <3>1, <3>2
  <2>4. cells' = [c \in Cell |-> cells'[c]]
    BY <1>1, <2>1
  <2> QED BY <2>3, <2>4 DEF SameCells
<1>3. UNCHANGED <<weather, op, att, job, susp, outbox, call, transfer, auth, ws, handler, recovery,
                  resumed>>
  BY DEF StageArtifact
<1> QED BY <1>1, <1>2, <1>3, SameWs, SameJob, Resting, PhaseQuiet

\* a handler moves on and touches nothing
LEMMA MoveQuiet ==
  ASSUME Typed, UNCHANGED <<weather, store, ws, recovery, resumed>>,
         NEW a \in Attempt, NEW p \in Points, Go(a, p), Harmless(a, handler[a].pc, p)
  PROVE  Typed' /\ Quiet
<1>1. PcTo(a, p)
  BY GoIs
<1>2. handler' \in [Attempt -> HandlerRow] /\ \A b \in Attempt : Drifts(b)
  BY <1>1, Drifting DEF PcTo
<1>3. /\ UNCHANGED <<weather, op, att, susp, outbox, transfer, auth, recovery, resumed>>
      /\ cells' = cells /\ job' = job /\ ws' = ws /\ call' = call
  BY DEF store
<1>4. job \in JobRow /\ cells \in [Cell -> CellRow] /\ ws \in WorkerRow
      /\ call \in {"none", "started", "succeeded"}
  BY DEF Typed, StoreTypes, ProcessTypes
<1> QED BY <1>2, <1>3, <1>4, SameRows, SameWs, SameJob, PhaseQuiet

\* what leads out, and steps between points of one kind, are harmless
LEMMA ExitIsHarmless ==
  ASSUME NEW a, NEW now, NEW p \in Exits, now \notin Running \cup {"none"},
         now \in Straying \/ p \notin {"expire", "finalize", "publish"}
  PROVE  Harmless(a, now, p) /\ p \in Points
BY
DEF Harmless, Proceeds, Exits, Running, Planned, Early, Working, Delivering, Barred, Straying,
    Points

LEMMA LeaveQuiet ==
  ASSUME Typed, UNCHANGED <<weather, store, ws, recovery, resumed>>,
         NEW a \in Attempt, NEW p \in Exits, Go(a, p), handler[a].pc \notin Running \cup {"none"},
         handler[a].pc \in Straying \/ p \notin {"expire", "finalize", "publish"}
  PROVE  Typed' /\ Quiet
BY ExitIsHarmless, MoveQuiet

LEMMA RefusalIsExit == Refusal \in Exits /\ Refusal \notin {"expire", "finalize", "publish"}
BY DEF Refusal, Exits

LEMMA ReconcileQuiet ==
  ASSUME Typed, NEW a \in Attempt, Reconcile(a)
  PROVE  Typed' /\ Quiet
<1>1. PICK p \in {"expire", "conflict", "commit", "prepare", Refusal} : Go(a, p)
  BY DEF Reconcile
<1>2. handler[a].pc = "reconcile" /\ UNCHANGED <<weather, store, ws, recovery, resumed>>
  BY DEF Reconcile, At
<1>3. CASE p \in {"conflict", Refusal}
  BY <1>1, <1>2, <1>3, RefusalIsExit, LeaveQuiet DEF Running, Exits
<1>4. CASE p \in {"expire", "commit", "prepare"}
  <2>1. Harmless(a, "reconcile", p) /\ p \in Points
    BY <1>4
    DEF Harmless, Proceeds, Running, Planned, Early, Working, Delivering, Barred, Straying,
                Points
  <2> QED BY <1>1, <1>2, <2>1, MoveQuiet
<1> QED BY <1>1, <1>3, <1>4

LEMMA PlanQuiet ==
  ASSUME Typed, NEW a \in Attempt, Plan(a)
  PROVE  Typed' /\ Quiet
<1>1. PICK p \in {"expire", "exhausted", "start", "finalize", "conflict"} : Go(a, p)
  BY DEF Plan
<1>2. handler[a].pc = "plan" /\ UNCHANGED <<weather, store, ws, recovery, resumed>>
  BY DEF Plan, At
<1>3. Harmless(a, "plan", p) /\ p \in Points
  BY
  DEF Harmless, Proceeds, Running, Planned, Early, Working, Delivering, Barred, Straying, Points
<1> QED BY <1>1, <1>2, <1>3, MoveQuiet

LEMMA PrepareQuiet ==
  ASSUME Typed, NEW a \in Attempt, Prepare(a)
  PROVE  Typed' /\ Quiet
<1>1. PICK p \in {"commit", Refusal} : Go(a, p)
  BY DEF Prepare
<1>2. handler[a].pc = "prepare" /\ UNCHANGED <<weather, store, recovery, resumed>>
  BY DEF Prepare, At
<1>3. Harmless(a, "prepare", p) /\ p \in Points
  <2>1. CASE p = Refusal
    BY <2>1, RefusalIsExit, ExitIsHarmless DEF Running
  <2>2. CASE p = "commit"
    BY <2>2
    DEF Harmless, Proceeds, Running, Planned, Early, Working, Delivering, Barred, Straying,
                Points
  <2> QED BY <2>1, <2>2
<1>4. handler' \in [Attempt -> HandlerRow] /\ \A b \in Attempt : Drifts(b)
  BY <1>1, <1>2, <1>3, GoIs, Drifting DEF PcTo
<1>5. job \in JobRow /\ cells \in [Cell -> CellRow] /\ ws \in WorkerRow
      /\ call \in {"none", "started", "succeeded"}
  BY DEF Typed, StoreTypes, ProcessTypes
<1>6. ws' \in WorkerRow /\ SameWorker
  <2>1. CASE ws' = ws
    BY <1>5, <2>1, SameWs
  <2>2. CASE ws' = [ws EXCEPT !.prepared = a]
    <3>1. a \in 0..MaxAttempts
      BY RebindAssumption DEF Attempt
    <3> QED BY <1>5, <2>2, <3>1 DEF WorkerRow, SameWorker
  <2> QED BY <2>1, <2>2 DEF Prepare
<1>7. /\ UNCHANGED <<weather, op, att, susp, outbox, transfer, auth, recovery, resumed>>
      /\ cells' = cells /\ job' = job /\ call' = call
  BY <1>2 DEF store
<1> QED BY <1>4, <1>5, <1>6, <1>7, SameRows, SameJob, PhaseQuiet

\* the transfer was committed before
LEMMA ReplayQuiet ==
  ASSUME Typed, NEW a \in Attempt, CommitRebind(a), ~Committable(a)
  PROVE  Typed' /\ Quiet
<1>1. PICK p \in {"conflict", "ack", "resume"} : Go(a, p) /\ (p # "conflict" => Replayed(a))
  BY DEF CommitRebind
<1>2. handler[a].pc = "commit" /\ UNCHANGED <<weather, store, ws, recovery, resumed>>
  BY DEF CommitRebind, At, store
<1>3. Harmless(a, "commit", p) /\ p \in Points
  BY <1>1 DEF Harmless, Proceeds, Replayed, Running, Planned, Early, Working, Delivering, Barred,
              Straying, Points
<1> QED BY <1>1, <1>2, <1>3, MoveQuiet

-----------------------------------------------------------------------------
(* Steps of the registry alone.                                            *)

\* The latest attempt stops and the operation with it.
LEMMA StopIsSound ==
  ASSUME Typed, Typed', Sound, op.state = "running",
         op'.attempt = op.attempt, op'.state # "running",
         NEW x \in AttemptStates \ {"none", "running"}, x \in Terminal => op'.state \in Terminal,
         att' = [att EXCEPT ![op.attempt] = x],
         UNCHANGED <<susp, outbox, call, transfer, cells, auth, recovery, resumed>>,
         SameBoundary, SameWorker, \A b \in Attempt : Drifts(b)
  PROVE  Sound'
<1>1. /\ op.attempt \in Attempt /\ op.dispatch = "running" /\ att[op.attempt] = "running"
      /\ \A b \in Attempt : att[b] = "running" => b = op.attempt
  BY DEF Sound, Books, Owned
<1>2. att \in [Attempt -> AttemptStates]
  BY DEF Typed, StoreTypes
<1>3. att'[op.attempt] = x /\ \A b \in Attempt : b # op.attempt => att'[b] = att[b]
  BY <1>1, <1>2
<1>4. \A b \in Attempt : att'[b] # "running"
  BY <1>1, <1>3
<1>5. Calm
  BY <1>4, SameRows DEF Calm, Fenced
<1>6. Owned'
  BY <1>1, <1>3, <1>4 DEF Sound, Books, Owned, Drifts, Harmless, Proceeds, Terminal
<1>7. Suspensions'
  BY <1>1 DEF Sound, Books, Suspensions
<1>8. Recoveries'
  BY DEF Sound, Processes, Recoveries
<1> QED BY <1>5, <1>6, <1>7, <1>8, CalmIsSound

LEMMA FencedIsLatest ==
  ASSUME Sound, NEW a \in Attempt, Fenced(a)
  PROVE  op.state = "running" /\ op.attempt = a /\ att[a] = "running" /\ op.dispatch = "running"
BY DEF Sound, Books, Owned, Fenced

LEMMA LapseTypes ==
  ASSUME Typed, NEW a \in Attempt, Lapse(a)
  PROVE  /\ op' \in OpRow /\ op'.attempt = op.attempt /\ op'.state = "indeterminate"
         /\ att' = [att EXCEPT ![a] = "indeterminate"] /\ att' \in [Attempt -> AttemptStates]
BY DEF Lapse, Typed, StoreTypes, OpRow, AttemptStates

LEMMA LoseLeaseStep ==
  ASSUME Typed, Sound, NEW a \in Attempt, LoseLease(a)
  PROVE  Typed' /\ Sound'
<1>1. Lapse(a) /\ op.state = "running" /\ op.attempt = a
  BY FencedIsLatest DEF LoseLease
<1>2. /\ UNCHANGED <<job, susp, outbox, call, transfer, cells, auth, ws, handler, recovery, resumed>>
      /\ UNCHANGED weather
  BY DEF LoseLease
<1>3. Typed'
  BY <1>1, <1>2, LapseTypes DEF Typed, StoreTypes, ProcessTypes, weather
<1>4. SameBoundary /\ SameWorker /\ \A b \in Attempt : Drifts(b)
  BY <1>2, SameJob, SameWs, Resting
<1> QED BY <1>1, <1>2, <1>3, <1>4, LapseTypes, StopIsSound DEF AttemptStates, Terminal

LEMMA HostStartsStep ==
  ASSUME Typed, Sound, HostStarts
  PROVE  Typed' /\ Sound'
<1>1. /\ UNCHANGED <<job, susp, outbox, call, transfer, cells, auth, ws, handler, recovery, resumed>>
      /\ UNCHANGED <<budget, late, cancelled, crashes>> /\ up' = TRUE
  BY DEF HostStarts
<1>2. SameBoundary /\ SameWorker /\ SameCells /\ \A b \in Attempt : Drifts(b)
  BY <1>1, SameJob, SameWs, SameRows, Resting
<1>3. CASE op.state = "running"
  <2>1. op.attempt \in Attempt /\ Lapse(op.attempt)
    BY <1>3 DEF HostStarts, Sound, Books, Owned
  <2>2. Typed'
    BY <1>1, <2>1, LapseTypes DEF Typed, StoreTypes, ProcessTypes
  <2> QED BY <1>1, <1>2, <1>3, <2>1, <2>2, LapseTypes, StopIsSound DEF AttemptStates, Terminal
<1>4. CASE op.state # "running"
  <2>1. op' = op /\ att' = att
    BY <1>4 DEF HostStarts
  <2>2. Typed'
    BY <1>1, <2>1 DEF Typed, StoreTypes, ProcessTypes
  <2> QED BY <1>1, <1>2, <2>1, <2>2, QuietIsSound DEF Quiet
<1> QED BY <1>3, <1>4

\* park_attempt and transition_claimed
LEMMA EndStep ==
  ASSUME Typed, Sound, NEW a \in Attempt, ParkAttempt(a) \/ Finish(a)
  PROVE  Typed' /\ Sound'
<1>1. /\ UNCHANGED <<weather, job, susp, outbox, call, transfer, cells, auth, ws, recovery, resumed>>
      /\ Go(a, "none") /\ handler[a].pc \notin Running \cup {"none"}
  BY DEF ParkAttempt, Finish, Running
<1>2. SameBoundary /\ SameWorker
  BY <1>1, SameJob, SameWs
<1>3. handler' \in [Attempt -> HandlerRow] /\ \A b \in Attempt : Drifts(b)
  BY <1>1, Leaving DEF Exits
<1>4. CASE Fenced(a)
  <2>1. op.state = "running" /\ op.attempt = a
    BY <1>4, FencedIsLatest
  <2>2. PICK x \in {"indeterminate", "succeeded", "failed", "timed_out"}, d \in {"parked", "completed"} :
          op' = [op EXCEPT !.state = x, !.dispatch = d] /\ att' = [att EXCEPT ![a] = x]
    BY <1>4 DEF ParkAttempt, Finish, Outcome
  <2>3. /\ op' \in OpRow /\ op'.attempt = op.attempt /\ op'.state = x
        /\ att' \in [Attempt -> AttemptStates]
    BY <2>2 DEF Typed, StoreTypes, OpRow, AttemptStates, Terminal
  <2>4. Typed'
    BY <1>1, <1>3, <2>3 DEF Typed, StoreTypes, ProcessTypes, weather
  <2> QED BY <1>1, <1>2, <1>3, <2>1, <2>2, <2>3, <2>4, StopIsSound DEF AttemptStates, Terminal
<1>5. CASE ~Fenced(a)
  <2>1. UNCHANGED <<weather, store, ws, recovery, resumed>>
    BY <1>1, <1>5 DEF ParkAttempt, Finish, store
  <2> QED BY <1>1, <2>1, LeaveQuiet, QuietIsSound DEF Exits
<1> QED BY <1>4, <1>5

\* steps of an operation that nobody runs: scheduling, expiry, the end of a recovery
LEMMA RestStep ==
  ASSUME Typed, Sound, Schedule \/ Expire \/ Requeue
  PROVE  Typed' /\ Sound'
<1>1. /\ UNCHANGED <<weather, att, outbox, call, transfer, cells, auth, ws, handler, resumed>>
      /\ job' = job \/ job' = [job EXCEPT !.phase = "timed_out"]
      /\ recovery' = recovery \/ recovery' = NoRecovery
  BY DEF Schedule, Expire, Requeue
<1>2. /\ op' \in OpRow /\ op'.attempt = op.attempt
      /\ op' = op \/ (op.state # "running" /\ op'.state # "running")
      /\ op.state \in Terminal => op'.state \in Terminal
  <2>1. op \in OpRow
    BY DEF Typed, StoreTypes
  <2>2. CASE Schedule
    BY <2>1, <2>2 DEF Schedule, OpRow, Terminal
  <2>3. CASE Expire
    <3>1. op.state # "running"
      BY <2>3 DEF Expire, Sound, Books, Owned, Suspensions
    <3> QED BY <2>1, <2>3, <3>1 DEF Expire, OpRow, Terminal
  <2>4. CASE Requeue
    BY <2>1, <2>4 DEF Requeue, OpRow, Terminal
  <2> QED BY <2>2, <2>3, <2>4
<1>3. job' \in JobRow /\ SameBoundary
  BY <1>1, PhaseIs DEF Typed, StoreTypes, Terminal
<1>4. susp' \in {"none", "pending", "settled", "parked"} /\ recovery' \in RecoveryRow
  BY Rows DEF Schedule, Expire, Requeue, Typed, StoreTypes, ProcessTypes
<1>5. Typed'
  BY <1>1, <1>2, <1>3, <1>4 DEF Typed, StoreTypes, ProcessTypes, weather
<1>6. SameWorker /\ SameCells /\ \A b \in Attempt : Drifts(b)
  BY <1>1, SameWs, SameRows, Resting
<1>7. \A b \in Attempt : Fenced(b)' => Fenced(b)
  BY <1>1, <1>2 DEF Fenced, Sound, Books, Owned
<1>8. Calm
  <2>1. susp' \in {"pending", "settled"} => susp \in {"pending", "settled"}
    BY DEF Schedule, Expire, Requeue
  <2> QED BY <1>1, <1>2, <1>3, <1>6, <1>7, <2>1 DEF Calm
<1>9. Owned'
  BY <1>1, <1>2 DEF Sound, Books, Owned
<1>10. Suspensions' /\ Recoveries'
  <2>1. CASE Schedule
    BY <1>1, <2>1 DEF Schedule, OpRow, Typed, StoreTypes, Sound, Books, Processes, Suspensions,
                      Recoveries
  <2>2. CASE Expire
    <3>1. recovery.pc = "idle" /\ recovery' = recovery
      BY <2>2 DEF Expire, Sound, Books, Processes, Suspensions, Recoveries
    <3> QED BY <1>1, <2>2, <3>1 DEF Expire, Sound, Books, Suspensions, Recoveries
  <2>3. CASE Requeue
    <3>1. recovery'.pc = "idle"
      BY <2>3 DEF Requeue, NoRecovery
    <3>2. Suspensions'
      BY <1>1, <2>3 DEF Requeue, OpRow, Typed, StoreTypes, Sound, Books, Processes, Suspensions,
                        Recoveries
    <3> QED BY <3>1, <3>2 DEF Recoveries
  <2> QED BY <2>1, <2>2, <2>3
<1> QED BY <1>5, <1>8, <1>9, <1>10, CalmIsSound

LEMMA SettleStep ==
  ASSUME Typed, Sound, Settle
  PROVE  Typed' /\ Sound'
<1>1. /\ UNCHANGED <<weather, op, att, call, transfer, cells, auth, ws, handler, recovery, resumed>>
      /\ susp = "pending" /\ susp' = "settled" /\ outbox' = "pending"
      /\ job' = [job EXCEPT !.phase = "accepted"]
  BY DEF Settle
<1>2. job' \in JobRow /\ SameBoundary
  BY <1>1, PhaseIs DEF Typed, StoreTypes, Terminal
<1>3. Typed'
  BY <1>1, <1>2 DEF Typed, StoreTypes, ProcessTypes, weather
<1>4. SameWorker /\ SameCells /\ \A b \in Attempt : Drifts(b)
  BY <1>1, SameWs, SameRows, Resting
<1>5. Calm
  BY <1>1, <1>2, <1>4 DEF Calm, Fenced
<1>6. Owned' /\ Suspensions' /\ Recoveries'
  BY <1>1, <1>2 DEF Sound, Books, Processes, Owned, Suspensions, Recoveries, SameBoundary
<1> QED BY <1>3, <1>5, <1>6, CalmIsSound

LEMMA HostDiesStep ==
  ASSUME Typed, Sound, HostDies
  PROVE  Typed' /\ Sound'
<1>1. UNCHANGED <<op, att, job, susp, outbox, call, transfer, cells, auth, resumed>>
  BY DEF HostDies, store
<1>2. ws' = NoWorker /\ recovery' = NoRecovery /\ handler' = [b \in Attempt |-> NoHandler]
  BY DEF HostDies
<1>3. Typed'
  <2>1. crashes' \in 0..MaxCrashes
    BY RebindAssumption DEF HostDies, Typed, ProcessTypes
  <2>2. budget' = budget /\ late' = late /\ cancelled' = cancelled /\ up' = FALSE
    BY DEF HostDies
  <2> QED BY <1>1, <1>2, <2>1, <2>2, Rows DEF Typed, StoreTypes, ProcessTypes
<1>4. /\ \A b \in Attempt : handler'[b].pc = "none"
      /\ ws'.id = 0 /\ ~ws'.alive /\ ws'.running = 0 /\ ws'.stack = 0 /\ ws'.receipt = 0
      /\ recovery'.pc = "idle"
  BY <1>2 DEF NoHandler, NoWorker, NoRecovery
<1>5. CellCount' = CellCount /\ Open' = Open /\ Committed' = Committed
  BY <1>1 DEF CellCount, Open, Lost, Committed
<1>6. Owned'
  BY <1>1, <1>4 DEF Sound, Books, Owned
<1>7. Authorised' /\ Suspensions'
  BY <1>1 DEF Sound, Books, Authorised, Suspensions
<1>8. Transfers'
  BY <1>1, <1>4, <1>5 DEF Sound, Books, Transfers, Lost
<1>9. Journal'
  BY <1>1, <1>5 DEF Sound, Books, Journal, Numbered, Begun, AtBoundary, Staged
<1>10. Handlers'
  BY <1>4 DEF Handlers, Works, Delivers, StartsClean, Working, Delivering, Planned
<1>11. Worker'
  BY <1>4 DEF Worker, Runs, Running, Attempt, Cell
<1>12. Namespace' /\ Recoveries'
  BY <1>4 DEF Namespace, Available, Recoveries
<1>13. Resumed'
  <2>1. resumed = 1 => transfer.successor \in Attempt
    BY RebindAssumption
    DEF Sound, Books, Processes, Resumed, Transfers, Typed, StoreTypes, OpRow, Attempt
  <2> QED BY <1>1, <1>4, <2>1 DEF Sound, Processes, Resumed, Early
<1>14. Alone'
  BY <1>1, <1>4 DEF Sound, Processes, Alone, Barred, Straying, Planned, Working
<1> QED BY <1>3, <1>6, <1>7, <1>8, <1>9, <1>10, <1>11, <1>12, <1>13, <1>14
        DEF Sound, Books, Processes

-----------------------------------------------------------------------------
(* The claim.                                                              *)

LEMMA ClaimTypes ==
  ASSUME Typed, Sound, NEW a \in Attempt, Claim(a)
  PROVE  /\ Typed' /\ PcTo(a, "begin")
         /\ op'.state = "running" /\ op'.attempt = a /\ op'.dispatch = "running"
         /\ att'[a] = "running" /\ \A b \in Attempt : b # a => att'[b] = att[b]
         /\ handler[a].pc = "none" /\ op.attempt = a - 1 /\ op.attempt \in Nat
         /\ op.state = "accepted" /\ op.dispatch = "queued"
<1>1. /\ UNCHANGED <<weather, job, susp, call, cells, auth, ws, recovery, resumed>>
      /\ op' = [state |-> "running", dispatch |-> "running", attempt |-> a]
      /\ att' = [att EXCEPT ![a] = "running"]
      /\ op.state = "accepted" /\ op.dispatch = "queued" /\ a = op.attempt + 1
      /\ Go(a, "begin")
  BY DEF Claim
<1>2. op \in OpRow /\ op.attempt \in Nat /\ a \in 0..MaxAttempts /\ a \in Nat
  BY RebindAssumption DEF Typed, StoreTypes, OpRow, Attempt
<1>3. op' \in OpRow /\ att' \in [Attempt -> AttemptStates]
  BY <1>1, <1>2 DEF Typed, StoreTypes, OpRow, AttemptStates
<1>4. PcTo(a, "begin")
  BY <1>1, GoIs DEF Points
<1>5. transfer' \in TransferRow /\ outbox' \in {"none", "pending", "prepared", "consumed"}
  <2>1. CASE UNCHANGED <<transfer, outbox>>
    BY <2>1 DEF Typed, StoreTypes
  <2>2. CASE /\ transfer' = [state |-> "prepared", prior |-> auth.attempt, successor |-> a,
                             generation |-> auth.generation, worker |-> auth.worker,
                             cell |-> auth.cell, gen |-> job.gen, rev |-> job.rev]
             /\ outbox' = "prepared"
    BY <1>2, <2>2 DEF Typed, StoreTypes, TransferRow, AuthRow, JobRow
  <2> QED BY <2>1, <2>2 DEF Claim
<1>6. Typed'
  BY <1>1, <1>3, <1>4, <1>5 DEF Typed, StoreTypes, ProcessTypes, PcTo, weather
<1>7. handler[a].pc = "none"
  BY <1>1, <1>2 DEF Sound, Books, Owned
<1>8. att'[a] = "running" /\ \A b \in Attempt : b # a => att'[b] = att[b]
  BY <1>1 DEF Typed, StoreTypes
<1> QED BY <1>1, <1>2, <1>4, <1>6, <1>7, <1>8

LEMMA ClaimStep ==
  ASSUME Typed, Sound, NEW a \in Attempt, Claim(a)
  PROVE  Typed' /\ Sound'
<1>1. /\ Typed' /\ PcTo(a, "begin")
      /\ op'.state = "running" /\ op'.attempt = a /\ op'.dispatch = "running"
      /\ att'[a] = "running" /\ \A b \in Attempt : b # a => att'[b] = att[b]
      /\ handler[a].pc = "none" /\ op.attempt = a - 1 /\ op.attempt \in Nat
      /\ op.state = "accepted" /\ op.dispatch = "queued"
  BY ClaimTypes
<1>2. UNCHANGED <<job, susp, call, cells, auth, ws, recovery, resumed>>
  BY DEF Claim
<1>3. CellCount' = CellCount /\ Committed' = Committed
  BY <1>2 DEF CellCount, Committed
<1>n. a \in Nat /\ a > 0
  BY RebindAssumption DEF Attempt
<1>4. Owned'
  <2>1. \A b \in Attempt : b \in Nat
    BY RebindAssumption DEF Attempt
  <2>2. \A b \in Attempt : att[b] # "running" /\ att[b] \notin Terminal
    BY <1>1 DEF Sound, Books, Owned, Terminal
  <2>3. \A b \in Attempt : b # a => handler'[b] = handler[b]
    BY <1>1 DEF PcTo
  <2> SUFFICES ASSUME NEW b \in Attempt
               PROVE  /\ att'[b] = "running" => b = a
                      /\ att'[b] = "none" <=> b > a
                      /\ att'[b] \notin Terminal
                      /\ handler'[b].pc # "none" => b <= a
    BY <1>1 DEF Owned
  <2>4. CASE b = a
    BY <1>1, <1>n, <2>4 DEF Terminal
  <2>5. CASE b # a
    <3>1. att'[b] = att[b] /\ (att[b] = "none" <=> b > op.attempt)
          /\ (handler'[b].pc # "none" => b <= op.attempt)
      BY <1>1, <2>3, <2>5 DEF Sound, Books, Owned
    <3> QED BY <1>1, <1>n, <2>1, <2>2, <2>5, <3>1
  <2> QED BY <2>4, <2>5
<1>5. \/ UNCHANGED <<transfer, outbox>> /\ Open = {} /\ (transfer.state = "none" => a = 1)
      \/ /\ transfer.state = "none" /\ transfer'.state = "prepared" /\ transfer'.successor = a
         /\ transfer'.cell = auth.cell /\ outbox' = "prepared" /\ susp = "settled"
         /\ auth.attempt # 0 /\ auth.cell \in Cell /\ cells[auth.cell].state = "suspended"
  <2>1. CASE a = 1
    <3>1. \A c \in Cell : cells[c].state = "none"
      BY <1>1, <2>1 DEF Sound, Books, Journal, Begun
    <3> QED BY <2>1, <3>1 DEF Claim, Open
  <2>2. CASE a # 1 /\ AwaitsContinuation
    <3>1. Open = {}
      BY <2>2 DEF AwaitsContinuation, Lost, Sound, Books, Journal, AtBoundary, Open
    <3> QED BY <2>2, <3>1 DEF Claim, AwaitsContinuation
  <2>3. CASE a # 1 /\ ~AwaitsContinuation
    <3>1. Preparable
      BY <2>3 DEF Claim
    <3>2. transfer.state = "none" /\ susp = "settled"
      BY <3>1 DEF Preparable, Sound, Books, Suspensions
    <3>3. auth.attempt # 0 /\ auth.cell \in Cell /\ cells[auth.cell].state = "suspended"
      BY <3>2 DEF Sound, Books, Suspensions, Authorised
    <3> QED BY <2>3, <3>2, <3>3 DEF Claim
  <2> QED BY <2>1, <2>2, <2>3
<1>o. Open' = Open
  BY <1>2, <1>5 DEF Open, Lost
<1>6. Authorised' /\ Suspensions'
  <2>1. auth.attempt \in Nat
    BY RebindAssumption DEF Typed, StoreTypes, AuthRow
  <2>2. Authorised'
    BY <1>1, <1>2, <1>5, <1>n, <2>1 DEF Sound, Books, Authorised
  <2>3. Suspensions'
    <3>1. CASE UNCHANGED <<transfer, outbox>>
      <4>1. ~(susp \in {"pending", "settled"} /\ transfer.state = "none" /\ a = 1)
        BY <1>1, <2>1 DEF Sound, Books, Authorised, Suspensions
      <4>2. ~(susp \in {"pending", "settled"} /\ transfer.state = "none")
        <5>1. Suspensions
          BY DEF Sound, Books
        <5> QED BY <1>1, <3>1, <4>1 DEF Claim, Preparable, AwaitsContinuation
      <4>3. susp # "pending"
        BY <1>1 DEF Sound, Books, Suspensions
      <4> QED BY <1>2, <3>1, <4>2, <4>3 DEF Sound, Books, Suspensions
    <3>2. CASE outbox' = "prepared" /\ susp = "settled" /\ transfer'.state = "prepared"
      BY <1>2, <3>2 DEF Sound, Books, Suspensions
    <3> QED BY <1>5, <3>1, <3>2
  <2> QED BY <2>2, <2>3
<1>7. Transfers'
  <2>1. CASE UNCHANGED <<transfer, outbox>>
    <3>1. transfer.successor \in Nat
      BY RebindAssumption DEF Typed, StoreTypes, TransferRow
    <3> QED BY <1>1, <1>2, <1>3, <1>n, <2>1, <3>1
       DEF Sound, Books, Transfers, Lost
  <2>2. CASE transfer' # transfer
    BY <1>1, <1>2, <1>5, <1>n, <2>2 DEF Transfers, Lost
  <2> QED BY <1>5, <2>1, <2>2
<1>8. Journal'
  <2>1. \A c \in Cell : cells[c].attempt \in Nat
    BY RebindAssumption DEF Typed, StoreTypes, CellRow
  <2> QED BY <1>1, <1>2, <1>3, <1>o, <1>n, <2>1
          DEF Sound, Books, Journal, Numbered, Begun, AtBoundary, Staged
<1>9. Handlers'
  <2> SUFFICES ASSUME NEW b \in Attempt PROVE Works(b)' /\ Delivers(b)' /\ StartsClean(b)'
    BY DEF Handlers
  <2>1. Works(b) /\ Delivers(b)
    BY DEF Sound, Processes, Handlers
  <2>2. CASE b = a
    <3>1. handler'[b].pc = "begin"
      BY <1>1, <2>2 DEF PcTo
    <3>2. Token(b)' \/ Open' = {}
      BY <1>2, <1>o, <1>5, <2>2 DEF Token
    <3> QED BY <3>1, <3>2 DEF Works, Delivers, StartsClean, Working, Delivering, Planned
  <2>3. CASE b # a
    <3>1. handler'[b] = handler[b]
      BY <1>1, <2>3 DEF PcTo
    <3>2. ~Fenced(b)'
      BY <1>1, <2>3 DEF Fenced
    <3>3. CASE transfer' = transfer
      BY <1>2, <1>o, <2>1, <3>1, <3>2, <3>3 DEF Works, Delivers, StartsClean
    <3>4. CASE transfer' # transfer
      <4>1. Works(b)'
        BY <1>2, <1>5, <1>o, <2>1, <3>1, <3>4 DEF Works
      <4>2. handler[b].pc \notin Delivering
        BY <1>5, <2>1, <3>4 DEF Delivers
      <4>3. Delivers(b)'
        BY <3>1, <4>2 DEF Delivers, Delivering
      <4> QED BY <3>2, <4>1, <4>3 DEF StartsClean
    <3> QED BY <3>3, <3>4
  <2> QED BY <2>2, <2>3
<1>10. Worker'
  <2>1. \A b \in Attempt : b # a => handler'[b] = handler[b]
    BY <1>1 DEF PcTo
  <2>2. handler'[a].pc = "begin"
    BY <1>1 DEF PcTo
  <2> QED BY <1>1, <1>2, <2>1, <2>2 DEF Sound, Processes, Worker, Runs, Running
<1>11. Namespace'
  <2>1. ws.running # a
    BY <1>1 DEF Sound, Processes, Worker, Runs, Running
  <2>2. ws.running # 0 => handler'[ws.running] = handler[ws.running]
    <3>1. ws.running \in 0..MaxAttempts /\ MaxAttempts \in Nat
      BY RebindAssumption DEF Typed, ProcessTypes, WorkerRow
    <3> QED BY <1>1, <2>1, <3>1 DEF PcTo, Attempt
  <2> QED BY <1>2, <1>3, <1>5, <1>o, <2>2 DEF Sound, Processes, Namespace, Available, CheckHandle
<1>12. Recoveries'
  BY <1>1, <1>2 DEF Sound, Processes, Recoveries
<1>13. Resumed'
  <2>1. CASE transfer.state = "none"
    BY <1>2, <2>1 DEF Sound, Processes, Resumed
  <2>2. CASE transfer.state # "none"
    <3>1. transfer' = transfer /\ transfer.successor \in 1..op.attempt
      BY <1>5, <2>2 DEF Sound, Books, Transfers
    <3>2. transfer.successor \in Attempt /\ transfer.successor # a
      BY <1>1, <1>n, <3>1, RebindAssumption DEF Attempt
    <3>3. handler'[transfer.successor] = handler[transfer.successor]
      BY <1>1, <3>2 DEF PcTo
    <3> QED BY <1>2, <3>1, <3>3 DEF Sound, Processes, Resumed
  <2> QED BY <2>1, <2>2
<1>14. Alone'
  <2>1. ~(transfer'.state = "none" /\ susp \in {"pending", "settled"})
    <3>1. auth.attempt \in Nat
      BY RebindAssumption DEF Typed, StoreTypes, AuthRow
    <3> QED BY <1>1, <1>5, <3>1 DEF Sound, Books, Authorised, Suspensions
  <2>2. transfer'.state = "none" => a = 1
    BY <1>5
  <2>3. ASSUME Handing', NEW b \in Attempt
        PROVE  IF b = transfer'.successor THEN handler'[b].pc \notin Barred'
               ELSE handler'[b].pc = "none"
    <3>1. CASE UNCHANGED <<transfer, outbox>> /\ Open = {}
      <4>1. Handing
        BY <1>2, <2>3, <3>1 DEF Handing
      <4> QED BY <3>1, <4>1, HandingIsOpen
    <3>2. CASE transfer.state = "none" /\ transfer'.state = "prepared" /\ transfer'.successor = a
               /\ susp = "settled"
      <4>1. handler[b].pc = "none"
        BY <3>2 DEF Sound, Processes, Alone
      <4>2. handler'[a].pc = "begin" /\ (b # a => handler'[b] = handler[b])
        BY <1>1 DEF PcTo
      <4> QED BY <3>2, <4>1, <4>2 DEF Barred, Straying, Planned, Working
    <3> QED BY <1>5, <3>1, <3>2
  <2> QED BY <1>1, <1>2, <2>1, <2>2, <2>3 DEF Alone
<1> QED BY <1>1, <1>4, <1>6, <1>7, <1>8, <1>9, <1>10, <1>11, <1>12, <1>13, <1>14
        DEF Sound, Books, Processes

-----------------------------------------------------------------------------
(* The successor takes over.                                               *)

LEMMA BeginStep ==
  ASSUME Typed, Sound, NEW a \in Attempt, Begin(a)
  PROVE  Typed' /\ Sound'
<1>0. /\ UNCHANGED <<weather, op, att, susp, outbox, call, transfer, cells, auth, ws, recovery,
                     resumed>>
      /\ handler[a].pc = "begin" /\ job \in JobRow /\ handler \in [Attempt -> HandlerRow]
      /\ cells \in [Cell -> CellRow] /\ transfer \in TransferRow
  BY DEF Begin, At, Typed, StoreTypes, ProcessTypes
<1>1. CASE Go(a, "conflict") /\ UNCHANGED job
  <2>1. UNCHANGED <<weather, store, ws, recovery, resumed>>
    BY <1>0, <1>1 DEF store
  <2> QED BY <1>0, <1>1, <2>1, LeaveQuiet, QuietIsSound DEF Exits, Running
<1>2. CASE Go(a, "recover") /\ Fenced(a) /\ ~Token(a) /\ job' = [job EXCEPT !.phase = "running"]
  <2>1. Harmless(a, "begin", "recover")
    <3>1. Open = {}
      BY <1>0, <1>2 DEF Sound, Processes, Handlers, StartsClean
    <3>2. ~Handing
      BY <3>1, HandingIsOpen
    <3> QED BY <3>1, <3>2 DEF Harmless, Proceeds, Running, Planned, Early, Working, Delivering
  <2>2. handler' \in [Attempt -> HandlerRow] /\ \A b \in Attempt : Drifts(b)
    BY <1>0, <1>2, <2>1, GoIs, Drifting DEF PcTo, Points
  <2>3. job' \in JobRow /\ SameBoundary
    BY <1>0, <1>2, PhaseIs
  <2>4. Typed' /\ Quiet
    BY <1>0, <2>2, <2>3, SameRows, SameWs, PhaseQuiet DEF Typed, StoreTypes, ProcessTypes
  <2> QED BY <2>4, QuietIsSound
<1>3. CASE /\ Fenced(a) /\ Token(a) /\ UNCHANGED job
           /\ handler' = [handler EXCEPT ![a] = [pc |-> "reconcile", cell |-> transfer.cell,
                                                gen |-> job.gen, rev |-> job.rev]]
  <2>1. op.attempt = a
    BY <1>3, FencedIsLatest
  <2>2. /\ handler'[a].pc = "reconcile" /\ handler'[a].cell = transfer.cell
        /\ handler'[a].gen = job.gen /\ handler'[a].rev = job.rev
        /\ \A b \in Attempt : b # a => handler'[b] = handler[b]
    BY <1>0, <1>3
  <2>3. handler' \in [Attempt -> HandlerRow]
    BY <1>0, <1>3 DEF HandlerRow, Points, TransferRow, JobRow
  <2>4. Typed'
    BY <1>0, <1>3, <2>3 DEF Typed, StoreTypes, ProcessTypes, weather
  <2>5. CellCount' = CellCount /\ Open' = Open /\ Committed' = Committed
    BY <1>0 DEF CellCount, Open, Lost, Committed
  <2>6. transfer.state # "none" /\ transfer.cell \in Open /\ transfer.successor = a
    BY <1>3, RebindAssumption DEF Token, Attempt, Sound, Books, Transfers, Open
  <2>7. cells[transfer.cell].gen = job.gen /\ cells[transfer.cell].rev = job.rev
        /\ cells[transfer.cell].state # "committed"
    BY <1>3, <2>6 DEF Token, Sound, Books, Journal, AtBoundary, Open
  <2>8. Owned'
    BY <1>0, <2>1, <2>2 DEF Sound, Books, Owned
  <2>9. Authorised' /\ Suspensions'
    BY <1>0 DEF Sound, Books, Authorised, Suspensions
  <2>10. Transfers'
    BY <1>0, <1>3, <2>5 DEF Sound, Books, Transfers, Lost
  <2>11. Journal'
    BY <1>0, <1>3, <2>5 DEF Sound, Books, Journal, Numbered, Begun, AtBoundary, Staged
  <2>12. Handlers'
    <3> SUFFICES ASSUME NEW b \in Attempt PROVE Works(b)' /\ Delivers(b)' /\ StartsClean(b)'
      BY DEF Handlers
    <3>1. CASE b = a
      BY <1>0, <1>3, <2>2, <2>6, <2>7, <3>1 DEF Works, Delivers, StartsClean, Working, Planned
    <3>2. CASE b # a
      <4>1. handler'[b] = handler[b] /\ Token(b)' = Token(b) /\ Fenced(b)' = Fenced(b)
        BY <1>0, <2>2, <3>2 DEF Token, Fenced
      <4>2. Works(b) /\ Delivers(b) /\ StartsClean(b)
        BY DEF Sound, Processes, Handlers
      <4> QED BY <1>0, <2>5, <4>1, <4>2 DEF Works, Delivers, StartsClean
    <3> QED BY <3>1, <3>2
  <2>13. Worker'
    BY <1>0, <2>2 DEF Sound, Processes, Worker, Runs, Running
  <2>14. Namespace'
    <3>1. ws.running # a
      BY <1>0 DEF Sound, Processes, Worker, Runs, Running
    <3>2. ws.running # 0 => handler'[ws.running] = handler[ws.running]
      <4>1. ws.running \in 0..MaxAttempts /\ MaxAttempts \in Nat
        BY RebindAssumption DEF Typed, ProcessTypes, WorkerRow
      <4> QED BY <2>2, <3>1, <4>1 DEF Attempt
    <3> QED BY <1>0, <1>3, <2>5, <3>2 DEF Sound, Processes, Namespace, Available, CheckHandle
  <2>15. Recoveries'
    BY <1>0, <1>3 DEF Sound, Processes, Recoveries
  <2>16. Resumed'
    BY <1>0, <2>6 DEF Sound, Processes, Resumed, Early
  <2>17. Alone'
    <3>1. Alone
      BY DEF Sound, Processes
    <3>2. Handing' = Handing /\ Barred' = Barred
      BY <1>0 DEF Handing, Barred
    <3>3. Handing => transfer.state = "prepared"
      BY <1>0, <2>6, <3>1 DEF Alone, Barred
    <3>4. transfer.state = "prepared" => "reconcile" \notin Barred
      BY DEF Barred, Straying, Planned, Working
    <3> QED BY <1>0, <2>2, <2>6, <3>1, <3>2, <3>3, <3>4 DEF Alone
  <2> QED BY <2>4, <2>8, <2>9, <2>10, <2>11, <2>12, <2>13, <2>14, <2>15, <2>16, <2>17
          DEF Sound, Books, Processes
<1> QED BY <1>1, <1>2, <1>3 DEF Begin

LEMMA CommitRebindStep ==
  ASSUME Typed, Sound, NEW a \in Attempt, CommitRebind(a), Committable(a)
  PROVE  Typed' /\ Sound'
<1> DEFINE k == transfer.cell
<1>0. /\ UNCHANGED <<weather, op, att, susp, call, ws, recovery, resumed>>
      /\ auth' = [auth EXCEPT !.attempt = a, !.generation = @ + 1, !.token = TRUE]
      /\ cells' = [cells EXCEPT ![k].state = "running", ![k].attempt = a]
      /\ job' = [job EXCEPT !.phase = "running"]
      /\ transfer' = [transfer EXCEPT !.state = "committed"]
      /\ outbox' = "consumed"
      /\ handler[a].pc = "commit"
  BY DEF CommitRebind, At
<1>1. /\ Fenced(a) /\ transfer.state = "prepared" /\ transfer.successor = a
      /\ susp = "settled" /\ cells[k].state = "suspended"
  BY DEF Committable
<1>2. op.state = "running" /\ op.attempt = a /\ a \in Nat /\ a # 0 /\ a \in 0..MaxAttempts
  BY <1>1, FencedIsLatest, RebindAssumption DEF Attempt
<1>3. PICK p \in {"ack", "resume"} : Go(a, p)
  BY DEF CommitRebind
<1>4. PcTo(a, p)
  BY <1>3, GoIs DEF Points
<1>5. k \in Cell
  BY <1>1 DEF Sound, Books, Transfers
<1> HIDE DEF k
<1>6. /\ cells \in [Cell -> CellRow] /\ auth \in AuthRow /\ job \in JobRow /\ transfer \in TransferRow
  BY DEF Typed, StoreTypes
<1>7. /\ cells' \in [Cell -> CellRow]
      /\ cells'[k].state = "running" /\ cells'[k].attempt = a /\ cells'[k].gen = cells[k].gen
      /\ cells'[k].rev = cells[k].rev /\ cells'[k].pre = cells[k].pre
      /\ cells'[k].stage = cells[k].stage
      /\ \A c \in Cell : c # k => cells'[c] = cells[c]
  <2>1. cells' = [cells EXCEPT ![k].state = "running", ![k].attempt = a]
    BY <1>0
  <2>2. cells'[k] = [cells[k] EXCEPT !.state = "running", !.attempt = a]
        /\ \A c \in Cell : c # k => cells'[c] = cells[c]
    BY <1>5, <1>6, <2>1
  <2>3. cells' = [c \in Cell |-> cells'[c]]
    BY <1>6, <2>1
  <2>4. cells[k] \in CellRow
    BY <1>5, <1>6
  <2>5. /\ cells'[k] \in CellRow
        /\ cells'[k].state = "running" /\ cells'[k].attempt = a /\ cells'[k].gen = cells[k].gen
        /\ cells'[k].rev = cells[k].rev /\ cells'[k].pre = cells[k].pre
        /\ cells'[k].stage = cells[k].stage
    BY <1>2, <2>2, <2>4 DEF CellRow
  <2> QED BY <1>6, <2>2, <2>3, <2>5
<1>8. /\ auth' \in AuthRow /\ auth'.attempt = a /\ auth'.cell = auth.cell
      /\ auth'.generation = auth.generation + 1
  <2>1. auth' = [auth EXCEPT !.attempt = a, !.generation = @ + 1, !.token = TRUE]
    BY <1>0
  <2>2. auth.generation \in Nat /\ auth = [f \in DOMAIN auth |-> auth[f]]
        /\ DOMAIN auth = {"attempt", "generation", "worker", "cell", "token"}
    BY <1>6 DEF AuthRow
  <2>3. auth'.attempt = a /\ auth'.cell = auth.cell /\ auth'.generation = auth.generation + 1
        /\ auth'.worker = auth.worker /\ auth'.token
    BY <2>1, <2>2
  <2>4. \A row \in AuthRow, n \in Nat :
          [row EXCEPT !.attempt = a, !.generation = n, !.token = TRUE] \in AuthRow
    BY <1>2 DEF AuthRow
  <2>5. auth' = [auth EXCEPT !.attempt = a, !.generation = auth.generation + 1, !.token = TRUE]
    BY <2>1, <2>2
  <2>6. auth.generation + 1 \in Nat
    BY <2>2
  <2>7. auth' \in AuthRow
    BY Zenon, <1>6, <2>4, <2>5, <2>6
  <2> QED BY <2>3, <2>7
<1>9. job' \in JobRow /\ job'.gen = job.gen /\ job'.rev = job.rev
  BY <1>0, <1>6, PhaseIs DEF SameBoundary
<1>10. /\ transfer' \in TransferRow /\ transfer'.state = "committed" /\ transfer'.successor = a
       /\ transfer'.cell = k
  BY <1>0, <1>1, <1>6 DEF TransferRow, k
<1>11. Typed'
  BY <1>0, <1>4, <1>7, <1>8, <1>9, <1>10 DEF Typed, StoreTypes, ProcessTypes, PcTo, weather
<1>12. CellCount' = CellCount
  BY <1>1, <1>7, SameCount DEF k
<1>13. Open' = Open /\ Committed' = Committed /\ k \in Open
  BY <1>1, <1>5, <1>7, <1>10 DEF Open, Lost, Committed, k
<1>14. Owned'
  BY <1>0, <1>2, <1>4 DEF Sound, Books, Owned, PcTo
<1>15. Authorised'
  BY <1>0, <1>1, <1>2, <1>8 DEF Sound, Books, Authorised
<1>16. Suspensions'
  BY <1>0, <1>1, <1>10 DEF Sound, Books, Suspensions
<1>17. Transfers'
  BY <1>0, <1>2, <1>5, <1>7, <1>10 DEF Transfers, Lost
<1>18. Journal'
  BY <1>0, <1>1, <1>2, <1>7, <1>9, <1>12, <1>13
  DEF Sound, Books, Journal, Numbered, Begun, AtBoundary, Staged, k
<1>19. Handlers'
  <2> SUFFICES ASSUME NEW b \in Attempt PROVE Works(b)' /\ Delivers(b)' /\ StartsClean(b)'
    BY DEF Handlers
  <2>1. CASE b = a
    <3>1. /\ handler'[a].pc = p /\ handler'[a].cell = k
          /\ handler'[a].gen = cells[k].gen /\ handler'[a].rev = cells[k].rev
      BY <1>0, <1>4 DEF PcTo, Sound, Processes, Handlers, Delivers, Delivering, k
    <3> QED BY <1>5, <1>7, <1>10, <2>1, <3>1
            DEF Works, Delivers, StartsClean, Working, Delivering, Planned
  <2>2. CASE b # a
    <3>1. handler'[b] = handler[b] /\ ~Fenced(b)'
      BY <1>0, <1>2, <1>4, <2>2 DEF PcTo, Fenced
    <3>2. Works(b) /\ Delivers(b)
      BY DEF Sound, Processes, Handlers
    <3>3. handler[b].pc \notin Delivering
      BY <1>1, <2>2, <3>2 DEF Delivers
    <3>4. Works(b)'
      <4>1. handler[b].pc = "none"
        BY <1>1, <2>2 DEF Sound, Processes, Alone, Handing
      <4> QED BY <3>1, <4>1 DEF Works, Working
    <3> QED BY <3>1, <3>3, <3>4 DEF Delivers, StartsClean, Delivering
  <2> QED BY <2>1, <2>2
<1>20. Worker'
  BY <1>0, <1>1, <1>4, <1>7 DEF Sound, Processes, Worker, Runs, Running, PcTo, k
<1>21. Namespace'
  <2>1. ws.running # 0 => handler'[ws.running].cell = handler[ws.running].cell
    <3>1. ws.running \in 0..MaxAttempts /\ MaxAttempts \in Nat
      BY RebindAssumption DEF Typed, ProcessTypes, WorkerRow
    <3> QED BY <1>4, <3>1 DEF PcTo, Attempt
  <2>2. /\ ws.stack \in Open /\ cells[ws.stack].state = "suspended" =>
             cells'[ws.stack].state = "suspended" \/ ws.stack = k
        /\ transfer.state # "none" /\ transfer'.state # "none" /\ transfer.cell = k
    BY <1>1, <1>7, <1>10 DEF Open, k
  <2> QED BY <1>0, <1>9, <1>10, <1>13, <2>1, <2>2
     DEF Sound, Processes, Namespace, Available, CheckHandle
<1>22. Recoveries'
  BY <1>0, <1>2 DEF Sound, Processes, Recoveries
<1>23. Resumed'
  BY <1>0, <1>1 DEF Sound, Processes, Resumed
<1>24. Alone'
  <2>1. \A b \in Attempt : b # a => handler'[b].pc = "none"
    <3>1. Handing
      BY <1>1 DEF Handing
    <3> QED BY <1>1, <1>4, <3>1 DEF PcTo, Sound, Processes, Alone
  <2>2. handler'[a].pc \notin Barred'
    BY <1>4, <1>10 DEF PcTo, Barred, Straying, Planned, Working
  <2> QED BY <1>10, <2>1, <2>2 DEF Alone
<1> QED BY <1>11, <1>14, <1>15, <1>16, <1>17, <1>18, <1>19, <1>20, <1>21, <1>22, <1>23,
           <1>24
        DEF Sound, Books, Processes

-----------------------------------------------------------------------------
(* Calls of the worker: the store stays as it is.                          *)

LEMMA BackendKept ==
  ASSUME Typed, Sound,
         UNCHANGED <<op, att, job, susp, outbox, call, transfer, cells, auth>>,
         NEW a \in Attempt, NEW p \in Points, PcTo(a, p), Proceeds(a, handler[a].pc, p),
         ws'.id = ws.id, ws'.gen = ws.gen
  PROVE  /\ Books' /\ Handlers' /\ Alone'
         /\ Open' = Open /\ Committed' = Committed
         /\ resumed' = resumed => Resumed'
<1>1. CellCount' = CellCount /\ Open' = Open /\ Committed' = Committed
  BY DEF CellCount, Open, Lost, Committed
<1>2. Owned'
  BY DEF Sound, Books, Owned, PcTo, Proceeds
<1>3. Authorised' /\ Suspensions'
  BY DEF Sound, Books, Authorised, Suspensions
<1>4. Transfers'
  BY <1>1 DEF Sound, Books, Transfers, Lost
<1>5. Journal'
  BY <1>1 DEF Sound, Books, Journal, Numbered, Begun, AtBoundary, Staged
<1>6. Handlers'
  <2> SUFFICES ASSUME NEW b \in Attempt PROVE Works(b)' /\ Delivers(b)' /\ StartsClean(b)'
    BY DEF Handlers
  <2>1. Works(b) /\ Delivers(b) /\ StartsClean(b)
    BY DEF Sound, Processes, Handlers
  <2>2. Fenced(b)' = Fenced(b) /\ Token(b)' = Token(b)
    BY DEF Fenced, Token
  <2>3. CASE b = a
    BY <1>1, <2>1, <2>2, <2>3 DEF Works, Delivers, StartsClean, PcTo, Proceeds
  <2>4. CASE b # a
    <3>1. handler'[b] = handler[b]
      BY <2>4 DEF PcTo
    <3> QED BY <1>1, <2>1, <2>2, <3>1 DEF Works, Delivers, StartsClean
  <2> QED BY <2>3, <2>4
<1>7. ASSUME resumed' = resumed PROVE Resumed'
  <2>1. CASE resumed = 0
    BY <1>7, <2>1 DEF Sound, Processes, Resumed
  <2>2. CASE resumed # 0
    <3>1. transfer.state \notin {"none", "prepared", "aborted"} /\ resumed = 1
          /\ handler[transfer.successor].pc \notin Early
      BY <2>2 DEF Sound, Processes, Resumed
    <3>2. transfer.successor \in Attempt
      BY <3>1, RebindAssumption DEF Sound, Books, Transfers, Typed, StoreTypes, OpRow, Attempt
    <3>3. handler'[transfer.successor].pc \notin Early
      BY <3>1, <3>2 DEF PcTo, Proceeds
    <3> QED BY <1>7, <3>1, <3>3 DEF Resumed
  <2> QED BY <2>1, <2>2
<1>8. Alone'
  <2>1. Alone
    BY DEF Sound, Processes
  <2>2. Handing' = Handing /\ Barred' = Barred
    BY DEF Handing, Barred
  <2>3. \A b \in Attempt : /\ handler[b].pc = "none" => handler'[b].pc = "none"
                           /\ Handing /\ handler'[b].pc \in Barred => handler[b].pc \in Barred
    BY DEF PcTo, Proceeds
  <2> QED BY <2>1, <2>2, <2>3 DEF Alone
<1> QED BY <1>1, <1>2, <1>3, <1>4, <1>5, <1>6, <1>7, <1>8 DEF Books

\* Whoever runs a cell of its own is at the job's boundary.
LEMMA WorkingIsOpen ==
  ASSUME Sound, NEW a \in Attempt, handler[a].pc \in Working
  PROVE  /\ handler[a].cell \in Open /\ handler[a].cell = CellCount
         /\ handler[a].gen = job.gen /\ handler[a].rev = job.rev
         /\ \A c \in Open : c = handler[a].cell
<1>1. Works(a)
  BY DEF Sound, Processes, Handlers
<1>2. handler[a].cell \in Open
  BY <1>1 DEF Works, Open
<1> QED BY <1>1, <1>2 DEF Works, Sound, Books, Journal, AtBoundary, Open

\* So is whoever runs the suspended stack on: a stack given up has no process.
LEMMA RerunIsOpen ==
  ASSUME Typed, Sound, NEW a \in Attempt, handler[a].pc = "rerun"
  PROVE  /\ handler[a].cell \in Open /\ handler[a].cell = transfer.cell
         /\ handler[a].gen = job.gen /\ handler[a].rev = job.rev
         /\ \A c \in Open : c = handler[a].cell
         /\ ws.running = a /\ ws.stack = handler[a].cell
         /\ ws.gen = job.gen /\ ws.rev = job.rev
<1>1. /\ ws.running = a /\ ws.stack = handler[a].cell
      /\ ws.gen = handler[a].gen /\ ws.rev = handler[a].rev
  BY DEF Sound, Processes, Worker, Runs, Running
<1>2. /\ transfer.state # "none" /\ handler[a].cell = transfer.cell
      /\ handler[a].gen = cells[transfer.cell].gen /\ handler[a].rev = cells[transfer.cell].rev
      /\ cells[transfer.cell].state # "committed" /\ transfer.state # "prepared"
  BY DEF Sound, Processes, Handlers, Delivers, Delivering
<1>3. ws.id # 0
  BY <1>1, RebindAssumption DEF Sound, Processes, Worker, Attempt
<1>4. ws.gen \in Nat /\ ~(ws.gen > ws.gen)
  BY DEF Typed, ProcessTypes, WorkerRow
<1>5. ~Lost
  BY <1>1, <1>2, <1>3, <1>4 DEF Sound, Books, Transfers
<1>6. transfer.cell \in Open
  BY <1>2, <1>5 DEF Sound, Books, Transfers, Lost, Open, Typed, StoreTypes, TransferRow
<1> QED BY <1>1, <1>2, <1>6 DEF Sound, Books, Journal, AtBoundary, Open

LEMMA BackendTypes ==
  ASSUME Typed, UNCHANGED <<weather, store, recovery>>, ws' \in WorkerRow, resumed' \in Nat,
         handler' \in [Attempt -> HandlerRow]
  PROVE  Typed'
BY DEF Typed, StoreTypes, ProcessTypes, weather, store

LEMMA ResumeStep ==
  ASSUME Typed, Sound, NEW a \in Attempt, Resume(a)
  PROVE  Typed' /\ Sound'
<1>0. UNCHANGED <<weather, store, recovery>> /\ handler[a].pc = "resume" /\ ws.running = 0
  BY DEF Resume, At, Unlocked
<1>1. CASE Go(a, Refusal) /\ UNCHANGED <<ws, resumed>>
  BY <1>0, <1>1, RefusalIsExit, LeaveQuiet, QuietIsSound DEF Running
<1>2. CASE /\ Available /\ CheckHandle(handler[a].gen, handler[a].rev) /\ ws.stack = handler[a].cell
           /\ ws' = [ws EXCEPT !.running = a]
           /\ resumed' = (IF WorkerAccepts(a) THEN resumed + 1 ELSE resumed)
           /\ Go(a, "rerun")
  <2>0. UNCHANGED <<op, att, job, susp, outbox, call, transfer, cells, auth>>
    BY <1>0 DEF store
  <2>1. ws \in WorkerRow /\ a \in 0..MaxAttempts /\ a # 0
    BY RebindAssumption DEF Typed, ProcessTypes, Attempt
  <2>2. /\ ws' \in WorkerRow /\ ws'.running = a /\ ws'.id = ws.id /\ ws'.gen = ws.gen
        /\ ws'.rev = ws.rev /\ ws'.stack = ws.stack /\ ws'.names = ws.names
        /\ ws'.receipt = ws.receipt /\ ws'.alive = ws.alive /\ ws'.lost = ws.lost
    BY <1>2, <2>1 DEF WorkerRow
  <2>3. PcTo(a, "rerun")
    BY <1>2, GoIs DEF Points
  <2>4. Proceeds(a, "resume", "rerun")
    BY DEF Proceeds, Working, Delivering, Planned, Early, Barred, Straying
  <2>5. /\ Books' /\ Handlers' /\ Alone'
        /\ Open' = Open /\ Committed' = Committed
        /\ resumed' = resumed => Resumed'
    BY <1>0, <2>0, <2>2, <2>3, <2>4, BackendKept DEF Points
  <2>6. /\ transfer.state \notin {"none", "prepared", "aborted"} /\ transfer.successor = a
        /\ handler[a].cell \in Cell /\ handler[a].cell = transfer.cell
    BY <1>0 DEF Sound, Books, Processes, Handlers, Delivers, Delivering, Transfers
  <2>7. resumed' \in Nat /\ Resumed'
    <3>1. CASE resumed' = resumed
      BY <2>5, <3>1 DEF Typed, ProcessTypes
    <3>2. CASE resumed' = resumed + 1
      <4>1. resumed = 0
        BY <1>0, <2>6 DEF Sound, Processes, Resumed, Early
      <4> QED BY <2>0, <2>3, <2>6, <3>2, <4>1 DEF Resumed, PcTo, Early
    <3> QED BY <1>2, <3>1, <3>2
  <2>8. Typed'
    BY <1>0, <2>2, <2>3, <2>7, BackendTypes DEF PcTo
  <2>9. handler[a].cell # 0
    BY <2>6 DEF Cell
  <2>10. Worker'
    <3>1. \A b \in Attempt : handler[b].pc \notin Running
      BY <1>0, RebindAssumption DEF Sound, Processes, Worker, Runs, Attempt
    <3>2. ASSUME NEW b \in Attempt PROVE Runs(b)'
      <4>1. CASE b = a
        BY <1>2, <2>2, <2>3, <4>1 DEF Runs, Running, PcTo, CheckHandle
      <4>2. CASE b # a
        BY <2>2, <2>3, <3>1, <4>2 DEF Runs, PcTo
      <4> QED BY <4>1, <4>2
    <3>3. ws'.id # 0
      BY <1>2, <2>2 DEF Available
    <3> QED BY <2>0, <2>2, <3>2, <3>3 DEF Sound, Processes, Worker
  <2>11. Namespace'
    BY <1>2, <2>0, <2>2, <2>5, <2>9 DEF Sound, Processes, Namespace, Available, CheckHandle
  <2>12. Recoveries'
    BY <1>0, <1>2, <2>0, <2>2, <2>9 DEF Sound, Processes, Recoveries
  <2> QED BY <2>5, <2>7, <2>8, <2>10, <2>11, <2>12 DEF Sound, Processes
<1> QED BY <1>1, <1>2 DEF Resume

LEMMA Zeros == 0 \in Nat /\ 0 \in 0..MaxCells /\ 0 \in 0..MaxAttempts
BY RebindAssumption

\* What the end of a call leaves of the worker.
LEMMA Returned ==
  ASSUME NEW row \in WorkerRow, NEW n \in Nat, NEW k \in 0..MaxCells
  PROVE  /\ [row EXCEPT !.running = 0, !.rev = n] \in WorkerRow
         /\ [row EXCEPT !.running = 0, !.stack = 0, !.rev = n, !.receipt = k] \in WorkerRow
BY Zeros DEF WorkerRow

\* A call of the worker ends: nothing runs there any more.
LEMMA CallEnds ==
  ASSUME Typed, Sound, NEW a \in Attempt, handler[a].pc \in Running,
         UNCHANGED <<weather, store, recovery, resumed>>,
         NEW p \in Points, p \notin Running, Go(a, p), Proceeds(a, handler[a].pc, p),
         ws' \in WorkerRow, ws'.id = ws.id, ws'.gen = ws.gen, ws'.running = 0,
         ws'.alive => ws.alive,
         {ws'.stack, ws'.receipt} \subseteq {0, ws.stack, ws.receipt, handler[a].cell},
         Namespace'
  PROVE  Typed' /\ Sound'
<1>0. UNCHANGED <<op, att, job, susp, outbox, call, transfer, cells, auth>>
  BY DEF store
<1>1. PcTo(a, p)
  BY GoIs
<1>2. Typed'
  BY <1>1, BackendTypes DEF PcTo, Typed, ProcessTypes
<1>3. Books' /\ Handlers' /\ Resumed' /\ Alone'
  BY <1>0, <1>1, BackendKept
<1>4. ws.running = a /\ a # 0 /\ ws.gen = handler[a].gen
  BY RebindAssumption DEF Sound, Processes, Worker, Runs, Attempt
<1>5. Worker'
  <2>1. \A b \in Attempt : b # a => handler[b].pc \notin Running
    BY <1>4 DEF Sound, Processes, Worker, Runs
  <2>2. \A b \in Attempt : handler'[b].pc \notin Running /\ b # 0
    BY <1>1, <2>1, RebindAssumption DEF PcTo, Attempt
  <2>3. ws.id # 0
    BY <1>4 DEF Sound, Processes, Worker
  <2>4. handler[a].cell \in Cell => /\ cells[handler[a].cell].state # "none"
                                   /\ cells[handler[a].cell].gen = ws.gen
    <3>1. CASE handler[a].pc = "run"
      BY <1>4, <3>1 DEF Sound, Processes, Handlers, Works, Working, Open
    <3>2. CASE handler[a].pc = "rerun"
      <4>1. handler[a].cell = transfer.cell /\ handler[a].gen = cells[transfer.cell].gen
            /\ transfer.state # "none"
        BY <3>2 DEF Sound, Processes, Handlers, Delivers, Delivering
      <4>2. cells[transfer.cell].state # "none"
        BY <4>1 DEF Sound, Books, Transfers, Lost, Typed, StoreTypes, TransferRow
      <4> QED BY <1>4, <4>1, <4>2
    <3> QED BY <3>1, <3>2 DEF Running
  <2>5. 0 \notin Cell
    BY DEF Cell
  <2> QED BY <1>0, <2>2, <2>3, <2>4, <2>5 DEF Sound, Processes, Worker, Runs
<1>6. Recoveries'
  BY <1>0, <1>4 DEF Sound, Processes, Recoveries
<1> QED BY <1>2, <1>3, <1>5, <1>6 DEF Sound, Processes

LEMMA ResumeReturnsStep ==
  ASSUME Typed, Sound, NEW a \in Attempt, ResumeReturns(a)
  PROVE  Typed' /\ Sound'
<1>0. /\ UNCHANGED <<weather, store, recovery, resumed>> /\ handler[a].pc = "rerun"
      /\ ws' = [ws EXCEPT !.running = 0, !.stack = 0, !.rev = @ + 1, !.receipt = handler[a].cell]
  BY DEF ResumeReturns, At
<1>1. PICK p \in {"ack", "failed"} : Go(a, p)
  BY DEF ResumeReturns
<1>2. Proceeds(a, "rerun", p) /\ p \in Points /\ p \notin Running
  BY DEF Proceeds, Working, Delivering, Planned, Early, Barred, Straying, Points, Running
<1>3. /\ handler[a].cell \in Open
      /\ \A c \in Open : c = handler[a].cell
      /\ ws.stack = handler[a].cell /\ ws.gen = job.gen /\ ws.rev = job.rev
  BY <1>0, RerunIsOpen
<1>4. ws \in WorkerRow /\ handler[a].cell \in 0..MaxCells /\ ws.rev + 1 \in Nat
      /\ ws.rev \in Nat /\ handler[a].cell # 0
  BY <1>3 DEF Typed, ProcessTypes, HandlerRow, WorkerRow, Open, Cell
<1>5. /\ ws' \in WorkerRow /\ ws'.running = 0 /\ ws'.id = ws.id /\ ws'.gen = ws.gen
      /\ ws'.rev = ws.rev + 1 /\ ws'.stack = 0 /\ ws'.names = ws.names
      /\ ws'.receipt = handler[a].cell /\ ws'.alive = ws.alive /\ ws'.lost = ws.lost
  <2>1. ws' \in WorkerRow
    <3>1. ws' = [ws EXCEPT !.running = 0, !.stack = 0, !.rev = ws.rev + 1, !.receipt = handler[a].cell]
      BY Zenon, <1>0
    <3> QED BY Zenon, <1>4, <3>1, Returned
  <2>2. ws = [f \in DOMAIN ws |-> ws[f]]
        /\ DOMAIN ws = {"id", "alive", "lost", "gen", "rev", "stack", "prepared", "running", "names",
                        "receipt"}
    BY <1>4 DEF WorkerRow
  <2>3. /\ ws'.running = 0 /\ ws'.id = ws.id /\ ws'.gen = ws.gen
        /\ ws'.rev = ws.rev + 1 /\ ws'.stack = 0 /\ ws'.names = ws.names
        /\ ws'.receipt = handler[a].cell /\ ws'.alive = ws.alive /\ ws'.lost = ws.lost
    BY <1>0, <2>2
  <2> QED BY <2>1, <2>3
<1>6. Namespace'
  <2>1. job' = job /\ cells' = cells /\ transfer' = transfer
    BY <1>0 DEF store
  <2>2. Open' = Open /\ Committed' = Committed
    BY <2>1 DEF Open, Lost, Committed
  <2>3. ws'.rev # job'.rev
    BY <1>3, <1>4, <1>5, <2>1
  <2>4. Available' => ws.names = Committed \cup {handler[a].cell}
    BY <1>3, <1>4, <1>5 DEF Sound, Processes, Namespace, Available, CheckHandle
  <2> QED BY <1>3, <1>5, <2>2, <2>3, <2>4 DEF Namespace, CheckHandle
<1> QED BY <1>0, <1>1, <1>2, <1>5, <1>6, CallEnds DEF Running

LEMMA MarkLostIs ==
  ASSUME NEW row \in WorkerRow
  PROVE  /\ MarkLost(row) \in WorkerRow /\ MarkLost(row).running = 0 /\ MarkLost(row).id = row.id
         /\ MarkLost(row).gen = row.gen /\ ~MarkLost(row).alive /\ MarkLost(row).lost
         /\ MarkLost(row).rev = row.rev
         /\ MarkLost(row).stack = row.stack /\ MarkLost(row).receipt = row.receipt
<1>1. MarkLost(row) \in WorkerRow
  BY Zeros DEF MarkLost, WorkerRow
<1>2. row = [f \in DOMAIN row |-> row[f]]
      /\ DOMAIN row = {"id", "alive", "lost", "gen", "rev", "stack", "prepared", "running", "names",
                       "receipt"}
  BY DEF WorkerRow
<1>3. /\ MarkLost(row).running = 0 /\ MarkLost(row).id = row.id
      /\ MarkLost(row).gen = row.gen /\ ~MarkLost(row).alive /\ MarkLost(row).lost
      /\ MarkLost(row).rev = row.rev
      /\ MarkLost(row).stack = row.stack /\ MarkLost(row).receipt = row.receipt
  BY <1>2 DEF MarkLost
<1> QED BY <1>1, <1>3

LEMMA ResumeLostStep ==
  ASSUME Typed, Sound, NEW a \in Attempt, ResumeLost(a)
  PROVE  Typed' /\ Sound'
<1>0. /\ UNCHANGED <<weather, store, recovery, resumed>> /\ handler[a].pc = "rerun"
      /\ ws' = MarkLost(ws) /\ Go(a, "conflict")
  BY DEF ResumeLost, At
<1>1. ws \in WorkerRow
  BY DEF Typed, ProcessTypes
<1>2. /\ ws' \in WorkerRow /\ ws'.running = 0 /\ ws'.id = ws.id /\ ws'.gen = ws.gen
      /\ ~ws'.alive /\ ws'.stack = ws.stack /\ ws'.receipt = ws.receipt
  BY <1>0, <1>1, MarkLostIs
<1>3. Namespace'
  BY <1>2 DEF Namespace, Available
<1>4. Proceeds(a, "rerun", "conflict") /\ "conflict" \in Points /\ "conflict" \notin Running
  BY DEF Proceeds, Working, Delivering, Planned, Early, Barred, Straying, Points, Running
<1> QED BY <1>0, <1>2, <1>3, <1>4, CallEnds DEF Running

LEMMA ExecuteStep ==
  ASSUME Typed, Sound, NEW a \in Attempt, Execute(a)
  PROVE  Typed' /\ Sound'
<1>0. UNCHANGED <<weather, store, recovery, resumed>> /\ handler[a].pc = "exec"
  BY DEF Execute, At
<1>1. CASE (Go(a, Refusal) \/ Go(a, "expire")) /\ UNCHANGED ws
  BY <1>0, <1>1, RefusalIsExit, LeaveQuiet, QuietIsSound DEF Running, Exits, Straying, Working
<1>2. CASE /\ ws.running = 0
           /\ Available /\ CheckHandle(handler[a].gen, handler[a].rev) /\ ws.stack = 0
           /\ ws' = [ws EXCEPT !.running = a, !.names = @ \cup {handler[a].cell}]
           /\ Go(a, "run")
  <2>0. UNCHANGED <<op, att, job, susp, outbox, call, transfer, cells, auth>>
    BY <1>0 DEF store
  <2>1. /\ handler[a].cell \in Open /\ handler[a].gen = job.gen /\ handler[a].rev = job.rev
        /\ \A c \in Open : c = handler[a].cell
    BY <1>0, WorkingIsOpen DEF Working
  <2>2. ws \in WorkerRow /\ a \in 0..MaxAttempts /\ a # 0 /\ handler[a].cell \in Cell
    BY <2>1, RebindAssumption DEF Typed, ProcessTypes, Attempt, Open
  <2>3. /\ ws' \in WorkerRow /\ ws'.running = a /\ ws'.id = ws.id /\ ws'.gen = ws.gen
        /\ ws'.rev = ws.rev /\ ws'.stack = ws.stack /\ ws'.names = ws.names \cup {handler[a].cell}
        /\ ws'.receipt = ws.receipt /\ ws'.alive = ws.alive /\ ws'.lost = ws.lost
    BY <1>2, <2>2 DEF WorkerRow
  <2>4. PcTo(a, "run")
    BY <1>2, GoIs DEF Points
  <2>5. Proceeds(a, "exec", "run")
    BY DEF Proceeds, Working, Delivering, Planned, Early, Barred, Straying
  <2>6. /\ Books' /\ Handlers' /\ Alone' /\ Open' = Open /\ Committed' = Committed /\ Resumed'
    BY <1>0, <2>0, <2>3, <2>4, <2>5, BackendKept DEF Points
  <2>7. Typed'
    BY <1>0, <2>3, <2>4, BackendTypes DEF PcTo, Typed, ProcessTypes
  <2>8. Worker'
    <3>1. \A b \in Attempt : handler[b].pc \notin Running
      BY <1>2, RebindAssumption DEF Sound, Processes, Worker, Runs, Attempt
    <3>2. ASSUME NEW b \in Attempt PROVE Runs(b)'
      <4>1. CASE b = a
        BY <1>2, <2>3, <2>4, <4>1 DEF Runs, Running, PcTo, CheckHandle
      <4>2. CASE b # a
        BY <2>3, <2>4, <3>1, <4>2 DEF Runs, PcTo
      <4> QED BY <4>1, <4>2
    <3>3. ws'.id # 0
      BY <1>2, <2>3 DEF Available
    <3> QED BY <2>0, <2>3, <3>2, <3>3 DEF Sound, Processes, Worker
  <2>9. Namespace'
    <3>1. ws.names = Committed
      BY <1>0, <1>2, <2>1 DEF Sound, Processes, Namespace
    <3>2. handler'[a].cell = handler[a].cell
      BY <2>4 DEF PcTo
    <3>3. ws'.rev # job'.rev + 1
      <4>1. job.rev \in Nat
        BY DEF Typed, StoreTypes, JobRow
      <4> QED BY <1>2, <2>0, <2>1, <2>3, <4>1 DEF CheckHandle
    <3>4. ws'.running # 0 /\ ws'.stack = 0 /\ handler'[ws'.running].cell = handler[a].cell
      BY <1>2, <2>2, <2>3, <3>2
    <3>5. ws'.names = Committed \cup {handler[a].cell}
      BY <2>3, <3>1
    <3> QED BY <2>6, <3>3, <3>4, <3>5 DEF Namespace, CheckHandle
  <2>10. Recoveries'
    <3>1. ~(recovery.pc = "restored" /\ recovery.gen # job.gen)
      BY <1>2, <2>1 DEF Sound, Processes, Recoveries, CheckHandle
    <3> QED BY <1>0, <2>0, <2>3, <3>1 DEF Sound, Processes, Recoveries
  <2> QED BY <2>6, <2>7, <2>8, <2>9, <2>10 DEF Sound, Processes
<1> QED BY <1>1, <1>2 DEF Execute, Unlocked

LEMMA ExecuteReturnsStep ==
  ASSUME Typed, Sound, NEW a \in Attempt, ExecuteReturns(a)
  PROVE  Typed' /\ Sound'
<1>0. /\ UNCHANGED <<weather, store, recovery, resumed>> /\ handler[a].pc = "run"
      /\ ws' = [ws EXCEPT !.running = 0, !.rev = @ + 1]
  BY DEF ExecuteReturns, At
<1>1. PICK p \in {"expire", "close", "conflict"} : Go(a, p)
  BY DEF ExecuteReturns
<1>2. Proceeds(a, "run", p) /\ p \in Points /\ p \notin Running
  BY DEF Proceeds, Working, Delivering, Planned, Early, Barred, Straying, Points, Running
<1>3. /\ handler[a].cell \in Open /\ handler[a].gen = job.gen /\ handler[a].rev = job.rev
      /\ \A c \in Open : c = handler[a].cell
  BY <1>0, WorkingIsOpen DEF Working
<1>4. /\ ws.running = a /\ a # 0 /\ ws.stack = 0 /\ ws.gen = job.gen /\ ws.rev = job.rev
  BY <1>0, <1>3, RebindAssumption DEF Sound, Processes, Worker, Runs, Running, Attempt
<1>5. ws \in WorkerRow /\ ws.rev \in Nat
  BY DEF Typed, ProcessTypes, WorkerRow
<1>6. /\ ws' \in WorkerRow /\ ws'.running = 0 /\ ws'.id = ws.id /\ ws'.gen = ws.gen
      /\ ws'.rev = ws.rev + 1 /\ ws'.stack = ws.stack /\ ws'.names = ws.names
      /\ ws'.receipt = ws.receipt /\ ws'.alive = ws.alive /\ ws'.lost = ws.lost
  <2>1. ws' \in WorkerRow
    <3>1. ws' = [ws EXCEPT !.running = 0, !.rev = ws.rev + 1]
      BY Zenon, <1>0
    <3>2. ws.rev + 1 \in Nat
      BY <1>5
    <3> QED BY Zenon, <1>5, <3>1, <3>2, Returned, Zeros
  <2>2. ws = [f \in DOMAIN ws |-> ws[f]]
        /\ DOMAIN ws = {"id", "alive", "lost", "gen", "rev", "stack", "prepared", "running", "names",
                        "receipt"}
    BY <1>5 DEF WorkerRow
  <2>3. /\ ws'.running = 0 /\ ws'.id = ws.id /\ ws'.gen = ws.gen
        /\ ws'.rev = ws.rev + 1 /\ ws'.stack = ws.stack /\ ws'.names = ws.names
        /\ ws'.receipt = ws.receipt /\ ws'.alive = ws.alive /\ ws'.lost = ws.lost
    BY <1>0, <2>2
  <2> QED BY <2>1, <2>3
<1>7. Namespace'
  <2>1. job' = job /\ cells' = cells /\ transfer' = transfer
    BY <1>0 DEF store
  <2>2. Open' = Open /\ Committed' = Committed
    BY <2>1 DEF Open, Lost, Committed
  <2>3. ws'.rev # job'.rev
    BY <1>4, <1>5, <1>6, <2>1
  <2>4. Available' => ws.names = Committed \cup {handler[a].cell}
    BY <1>4, <1>6 DEF Sound, Processes, Namespace, Available, CheckHandle
  <2> QED BY <1>3, <1>4, <1>6, <2>2, <2>3, <2>4 DEF Namespace, CheckHandle
<1> QED BY <1>0, <1>1, <1>2, <1>6, <1>7, CallEnds DEF Running

LEMMA ExecuteLostStep ==
  ASSUME Typed, Sound, NEW a \in Attempt, ExecuteLost(a)
  PROVE  Typed' /\ Sound'
<1>0. /\ UNCHANGED <<weather, store, recovery, resumed>> /\ handler[a].pc = "run"
      /\ ws' = [MarkLost(ws) EXCEPT !.rev = @ + 1]
  BY DEF ExecuteLost, At
<1>1. PICK p \in {"expire", "conflict"} : Go(a, p)
  BY DEF ExecuteLost
<1>2. Proceeds(a, "run", p) /\ p \in Points /\ p \notin Running
  BY DEF Proceeds, Working, Delivering, Planned, Early, Barred, Straying, Points, Running
<1>3. ws \in WorkerRow /\ ws.rev \in Nat
  BY DEF Typed, ProcessTypes, WorkerRow
<1>4. /\ ws' \in WorkerRow /\ ws'.running = 0 /\ ws'.id = ws.id /\ ws'.gen = ws.gen
      /\ ~ws'.alive /\ ws'.stack = ws.stack /\ ws'.receipt = ws.receipt
  <2>1. \A row \in WorkerRow : row.rev \in Nat =>
          LET new == [row EXCEPT !.rev = @ + 1]
          IN  /\ new \in WorkerRow /\ new.running = row.running /\ new.id = row.id
              /\ new.gen = row.gen /\ new.alive = row.alive /\ new.stack = row.stack
              /\ new.receipt = row.receipt
    BY DEF WorkerRow
  <2>2. /\ MarkLost(ws) \in WorkerRow /\ MarkLost(ws).running = 0 /\ MarkLost(ws).id = ws.id
        /\ MarkLost(ws).gen = ws.gen /\ ~MarkLost(ws).alive /\ MarkLost(ws).rev = ws.rev
        /\ MarkLost(ws).stack = ws.stack /\ MarkLost(ws).receipt = ws.receipt
    BY <1>3, MarkLostIs
  <2> QED BY <1>0, <1>3, <2>1, <2>2
<1>5. Namespace'
  BY <1>4 DEF Namespace, Available
<1> QED BY <1>0, <1>1, <1>2, <1>4, <1>5, CallEnds DEF Running

-----------------------------------------------------------------------------
(* Acknowledgement and commits of a cell.                                  *)

LEMMA WorkerKept ==
  ASSUME Typed, Sound, ws' = ws, NEW a \in Attempt,
         handler[a].pc \notin Running, handler'[a].pc \notin Running,
         \A b \in Attempt : b # a => handler'[b] = handler[b],
         \A c \in Cell : cells[c].state # "none" =>
           cells'[c].state # "none" /\ cells'[c].gen = cells[c].gen
  PROVE  /\ Worker'
         /\ ws.running # 0 => handler'[ws.running] = handler[ws.running]
<1>1. ws.running # a
  BY DEF Sound, Processes, Worker, Runs
<1>2. ws.running # 0 => handler'[ws.running] = handler[ws.running]
  <2>1. ws.running \in 0..MaxAttempts /\ MaxAttempts \in Nat
    BY RebindAssumption DEF Typed, ProcessTypes, WorkerRow
  <2> QED BY <1>1, <2>1 DEF Attempt
<1>3. ASSUME NEW b \in Attempt PROVE Runs(b)'
  <2>1. CASE b = a
    BY <1>1, <2>1 DEF Runs
  <2>2. CASE b # a
    BY <2>2 DEF Sound, Processes, Worker, Runs
  <2> QED BY <2>1, <2>2
<1> QED BY <1>2, <1>3 DEF Sound, Processes, Worker

LEMMA AcknowledgeStep ==
  ASSUME Typed, Sound, NEW a \in Attempt, Acknowledge(a)
  PROVE  Typed' /\ Sound'
<1>0. /\ UNCHANGED <<weather, op, att, job, susp, outbox, call, cells, auth, ws, recovery, resumed>>
      /\ handler[a].pc \in {"ack", "failed"}
  BY DEF Acknowledge
<1>1. CASE transfer' = transfer /\ Go(a, "conflict")
  <2>1. UNCHANGED <<weather, store, ws, recovery, resumed>>
    BY <1>0, <1>1 DEF store
  <2>2. "conflict" \in Exits /\ handler[a].pc \notin Running \cup {"none"}
    BY <1>0 DEF Exits, Running
  <2> QED BY <1>1, <2>1, <2>2, LeaveQuiet, QuietIsSound
<1>2. CASE /\ Fenced(a) /\ transfer.successor = a /\ auth.attempt = a
           /\ transfer.state \in {"committed", "worker_ack"}
           /\ transfer' = [transfer EXCEPT !.state = "worker_ack"]
           /\ \E p \in {"settle", "conflict"} : Go(a, p)
  <2>1. PICK p \in {"settle", "conflict"} : Go(a, p)
    BY <1>2
  <2>2. PcTo(a, p)
    BY <2>1, GoIs DEF Points
  <2>3. transfer \in TransferRow
    BY DEF Typed, StoreTypes
  <2>4. /\ transfer' \in TransferRow /\ transfer'.state = "worker_ack"
        /\ transfer'.cell = transfer.cell /\ transfer'.successor = a
    BY <1>2, <2>3 DEF TransferRow
  <2>5. Typed'
    BY <1>0, <2>2, <2>4 DEF Typed, StoreTypes, ProcessTypes, PcTo, weather
  <2>6. CellCount' = CellCount /\ Open' = Open /\ Committed' = Committed
    BY <1>0, <1>2, <2>4 DEF CellCount, Open, Lost, Committed
  <2>7. op.state = "running" /\ op.attempt = a /\ att[a] = "running"
    BY <1>2, FencedIsLatest
  <2>8. Owned'
    BY <1>0, <2>2 DEF Sound, Books, Owned, PcTo
  <2>9. Authorised'
    BY <1>0, <1>2 DEF Sound, Books, Authorised
  <2>10. Suspensions'
    BY <1>0, <1>2, <2>4 DEF Sound, Books, Suspensions
  <2>11. Transfers'
    BY <1>0, <1>2, <2>4 DEF Sound, Books, Transfers, Lost
  <2>12. Journal'
    BY <1>0, <2>6 DEF Sound, Books, Journal, Numbered, Begun, AtBoundary, Staged
  <2>13. Handlers'
    <3> SUFFICES ASSUME NEW b \in Attempt PROVE Works(b)' /\ Delivers(b)' /\ StartsClean(b)'
      BY DEF Handlers
    <3>1. Works(b) /\ Delivers(b)
      BY DEF Sound, Processes, Handlers
    <3>2. CASE b = a
      BY <1>0, <1>2, <2>2, <2>4, <3>1, <3>2
      DEF Works, Delivers, StartsClean, Working, Delivering, Planned, PcTo
    <3>3. CASE b # a
      <4>1. handler'[b] = handler[b] /\ ~Fenced(b)'
        BY <1>0, <2>2, <2>7, <3>3 DEF PcTo, Fenced
      <4> QED BY <1>0, <1>2, <2>4, <2>6, <3>1, <4>1 DEF Works, Delivers, StartsClean
    <3> QED BY <3>2, <3>3
  <2>14. /\ Worker'
         /\ ws.running # 0 => handler'[ws.running] = handler[ws.running]
    BY <1>0, <2>2, WorkerKept DEF PcTo, Running
  <2>15. Namespace'
    BY <1>0, <1>2, <2>4, <2>6, <2>14 DEF Sound, Processes, Namespace, Available, CheckHandle
  <2>16. Recoveries'
    BY <1>0, <2>7 DEF Sound, Processes, Recoveries
  <2>17. Resumed'
    BY <1>0, <2>2, <2>4 DEF Sound, Processes, Resumed, PcTo, Early
  <2>18. Alone'
    <3>1. Handing' => Handing
      BY <1>0, <1>2, <2>4 DEF Handing
    <3>2. Handing => \A b \in Attempt : b # a => handler[b].pc = "none"
      BY <1>2 DEF Sound, Processes, Alone
    <3>3. handler'[a].pc \notin Barred' /\ \A b \in Attempt : b # a => handler'[b] = handler[b]
      BY <2>2 DEF PcTo, Barred, Straying, Planned, Working
    <3> QED BY <2>4, <3>1, <3>2, <3>3 DEF Alone
  <2> QED BY <2>5, <2>8, <2>9, <2>10, <2>11, <2>12, <2>13, <2>14, <2>15, <2>16, <2>17, <2>18
          DEF Sound, Books, Processes
<1> QED BY <1>1, <1>2 DEF Acknowledge

\* The open cell is the handler's: its commit leaves none open, and the boundary it led to.
LEMMA CommitCellIs ==
  ASSUME Typed, Sound, NEW a \in Attempt, NEW k \in Cell, k = handler[a].cell,
         cells[k].state = "running", cells[k].attempt = a,
         handler[a].gen = cells[k].gen, handler[a].rev = cells[k].rev, CommitCell(k),
         UNCHANGED transfer
  PROVE  /\ cells' \in [Cell -> CellRow] /\ job' \in JobRow
         /\ job'.gen = job.gen /\ job'.rev = job.rev + 1
         /\ cells'[k].state = "committed" /\ cells'[k].attempt = a /\ cells'[k].gen = cells[k].gen
         /\ \A c \in Cell : c # k => cells'[c] = cells[c]
         /\ CellCount' = CellCount /\ Open = {k} /\ Open' = {} /\ Committed' = Committed \cup {k}
         /\ cells[k].gen = job.gen /\ cells[k].rev = job.rev
<1>1. cells \in [Cell -> CellRow] /\ job \in JobRow
  BY DEF Typed, StoreTypes
<1>2. k \in Open
  BY DEF Open
<1>3. /\ k = CellCount /\ cells[k].gen = job.gen /\ cells[k].rev = job.rev
      /\ \A c \in Open : c = CellCount
  BY <1>2 DEF Sound, Books, Journal, AtBoundary, Open
<1>4. /\ job' \in JobRow /\ job'.gen = job.gen /\ job'.rev = job.rev + 1
  <2>1. job' = [job EXCEPT !.rev = handler[a].rev + 1]
    BY DEF CommitCell
  <2>2. handler[a].rev + 1 = job.rev + 1 /\ job.rev + 1 \in Nat
    BY <1>1, <1>3 DEF JobRow
  <2>3. job' = [job EXCEPT !.rev = job.rev + 1]
    BY <2>1, <2>2
  <2>4. \A row \in JobRow, n \in Nat :
          LET new == [row EXCEPT !.rev = n] IN new \in JobRow /\ new.gen = row.gen /\ new.rev = n
    BY DEF JobRow
  <2> QED BY Zenon, <1>1, <2>2, <2>3, <2>4
<1>5. /\ cells' \in [Cell -> CellRow]
      /\ cells'[k].state = "committed" /\ cells'[k].attempt = a /\ cells'[k].gen = cells[k].gen
      /\ \A c \in Cell : c # k => cells'[c] = cells[c]
  <2>1. cells' = [cells EXCEPT ![k].state = "committed",
                              ![k].stage = IF @ = "staged" THEN "committed" ELSE @]
    BY DEF CommitCell
  <2>2. \E s \in {"none", "staged", "committed", "published"} :
          cells' = [cells EXCEPT ![k].state = "committed", ![k].stage = s]
    <3>1. cells[k].stage \in {"none", "staged", "committed", "published"}
      BY <1>1 DEF CellRow
    <3> DEFINE s == IF cells[k].stage = "staged" THEN "committed" ELSE cells[k].stage
    <3>2. s \in {"none", "staged", "committed", "published"}
      BY <3>1
    <3>3. cells' = [cells EXCEPT ![k].state = "committed", ![k].stage = s]
      BY <1>1, <2>1
    <3> HIDE DEF s
    <3> QED BY <3>2, <3>3
  <2>3. PICK s \in {"none", "staged", "committed", "published"} :
          cells' = [cells EXCEPT ![k].state = "committed", ![k].stage = s]
    BY <2>2
  <2>4. cells'[k] = [cells[k] EXCEPT !.state = "committed", !.stage = s]
        /\ \A c \in Cell : c # k => cells'[c] = cells[c]
    BY <1>1, <2>3
  <2>5. cells[k] \in CellRow /\ cells' = [c \in Cell |-> cells'[c]]
    BY <1>1, <2>3
  <2>6. /\ cells'[k] \in CellRow
        /\ cells'[k].state = "committed" /\ cells'[k].attempt = a /\ cells'[k].gen = cells[k].gen
    BY <2>4, <2>5 DEF CellRow
  <2> QED BY <1>1, <2>4, <2>5, <2>6
<1>6. CellCount' = CellCount
  BY <1>5, SameCount
<1>7. Open = {k}
  BY <1>2, <1>3
<1>8. Open' = {}
  BY <1>5, <1>7 DEF Open, Lost
<1>9. Committed' = Committed \cup {k}
  BY <1>5 DEF Committed
<1> QED BY <1>3, <1>4, <1>5, <1>6, <1>7, <1>8, <1>9

\* The commit of the open cell, by the handler that holds the lease.
LEMMA CommitIsSound ==
  ASSUME Typed, Sound, NEW a \in Attempt, NEW k \in Cell, k = handler[a].cell,
         cells[k].state = "running", cells[k].attempt = a,
         handler[a].gen = cells[k].gen, handler[a].rev = cells[k].rev,
         CommitCell(k), Checkpointable(handler[a]), ws.running = 0, Fenced(a),
         transfer.state # "none" /\ transfer.cell = k =>
           transfer.state = "worker_ack" /\ transfer.successor = a,
         UNCHANGED <<weather, op, att, susp, outbox, transfer, auth, ws, recovery, resumed>>,
         call' \in {"none", "started", "succeeded"}, call' = "none" => call = "none",
         handler[a].pc \in {"settle", "close"}, NEW p \in {"recover", "plan"}, Go(a, p)
  PROVE  Typed' /\ Sound'
<1>1. PcTo(a, p)
  BY GoIs DEF Points
<1>2. /\ cells' \in [Cell -> CellRow] /\ job' \in JobRow
      /\ job'.gen = job.gen /\ job'.rev = job.rev + 1
      /\ cells'[k].state = "committed" /\ cells'[k].attempt = a /\ cells'[k].gen = cells[k].gen
      /\ \A c \in Cell : c # k => cells'[c] = cells[c]
      /\ CellCount' = CellCount /\ Open = {k} /\ Open' = {} /\ Committed' = Committed \cup {k}
      /\ cells[k].gen = job.gen /\ cells[k].rev = job.rev
  BY CommitCellIs
<1>3. op.state = "running" /\ op.attempt = a /\ att[a] = "running" /\ job.rev \in Nat
  BY FencedIsLatest DEF Typed, StoreTypes, JobRow
<1>4. Typed'
  BY <1>1, <1>2 DEF Typed, StoreTypes, ProcessTypes, PcTo, weather
<1>5. Owned'
  BY <1>1 DEF Sound, Books, Owned, PcTo
<1>6. Authorised'
  BY DEF Sound, Books, Authorised
<1>7. Suspensions'
  BY <1>3 DEF Sound, Books, Suspensions
<1>8. transfer.state \notin {"prepared", "committed"}
  <2>1. SUFFICES ASSUME transfer.state \in {"prepared", "committed"} PROVE FALSE
    OBVIOUS
  <2>2. transfer.cell \in Open
    BY <2>1 DEF Sound, Books, Transfers, Open
  <2> QED BY <1>2, <2>1, <2>2
<1>9. Transfers'
  <2>1. Transfers
    BY DEF Sound, Books
  <2>2. transfer.state = "worker_ack" => cells'[transfer.cell].state \in {"running", "committed"}
    BY <1>2, <2>1 DEF Transfers
  <2>3. Lost => /\ transfer.cell # k /\ transfer.cell \in Cell
                /\ cells'[transfer.cell] = cells[transfer.cell] /\ job'.rev # 0
    BY <1>2, <1>3, <2>1 DEF Transfers, Lost
  <2> QED BY <1>2, <1>8, <2>1, <2>2, <2>3 DEF Transfers, Lost
<1>10. Journal'
  <2>1. Numbered'
    BY <1>2 DEF Sound, Books, Journal, Numbered
  <2>2. ASSUME NEW c \in Cell PROVE Begun(c)' /\ AtBoundary(c)' /\ Staged(c)'
    <3>1. Begun(c) /\ Staged(c)
      BY DEF Sound, Books, Journal
    <3>2. Begun(c)' /\ Staged(c)'
      <4>1. CASE c = k
        BY <1>2, <3>1, <4>1 DEF Begun, Staged
      <4>2. CASE c # k
        BY <1>2, <3>1, <4>2 DEF Begun, Staged
      <4> QED BY <4>1, <4>2
    <3> QED BY <1>2, <3>2 DEF AtBoundary
  <2> QED BY <2>1, <2>2 DEF Journal
<1>11. Handlers'
  <2> SUFFICES ASSUME NEW b \in Attempt PROVE Works(b)' /\ Delivers(b)' /\ StartsClean(b)'
    BY DEF Handlers
  <2>1. Works(b) /\ Delivers(b)
    BY DEF Sound, Processes, Handlers
  <2>2. CASE b = a
    BY <1>1, <1>2, <2>2 DEF Works, Delivers, StartsClean, Working, Delivering, PcTo
  <2>3. CASE b # a
    <3>1. handler'[b] = handler[b] /\ ~Fenced(b)'
      BY <1>1, <1>3, <2>3 DEF PcTo, Fenced
    <3>2. Works(b)'
      BY <1>2, <2>1, <2>3, <3>1 DEF Works
    <3>3. Delivers(b)'
      <4>1. handler[b].pc \in Delivering => transfer.cell # k /\ transfer.cell \in Cell
        BY <2>1, <2>3 DEF Delivers, Sound, Books, Transfers
      <4>2. handler[b].pc \in Delivering => cells'[transfer.cell] = cells[transfer.cell]
        BY <1>2, <4>1
      <4> QED BY <2>1, <3>1, <4>2 DEF Delivers, Delivering
    <3> QED BY <3>1, <3>2, <3>3 DEF StartsClean
  <2> QED BY <2>2, <2>3
<1>12. Worker'
  <2>1. \A c \in Cell : cells[c].state # "none" =>
          cells'[c].state # "none" /\ cells'[c].gen = cells[c].gen
    BY <1>2
  <2> QED BY <1>1, <2>1, WorkerKept DEF PcTo, Running
<1>13. Namespace'
  <2>1. ws.stack = 0 /\ ws.names = Committed \cup {k} /\ ws.rev = job.rev + 1
    BY <1>2 DEF Sound, Processes, Namespace, Checkpointable, CheckHandle
  <2>2. ws.rev # job'.rev + 1
    BY <1>2, <1>3, <2>1
  <2> QED BY <1>2, <2>1, <2>2 DEF Namespace, CheckHandle
<1>14. Recoveries'
  BY <1>3 DEF Sound, Processes, Recoveries
<1>15. Resumed'
  <2>1. transfer.state # "none" => transfer.successor \in Attempt
    BY <1>3, RebindAssumption DEF Sound, Books, Transfers, Attempt
  <2> QED BY <1>1, <2>1 DEF Sound, Processes, Resumed, PcTo, Early
<1>16. Alone'
  <2>1. ~Handing'
    <3>1. SUFFICES ASSUME Handing' PROVE FALSE
      OBVIOUS
    <3>2. transfer.state = "worker_ack" /\ cells'[transfer.cell].state = "running"
      BY <1>8, <3>1 DEF Handing
    <3>3. transfer.cell \in Cell
      BY <3>2 DEF Sound, Books, Transfers
    <3>4. transfer.cell # k /\ cells'[transfer.cell] = cells[transfer.cell]
      BY <1>2, <3>2, <3>3
    <3>5. transfer.cell \in Open
      BY <3>2, <3>3, <3>4 DEF Open
    <3> QED BY <1>2, <3>4, <3>5
  <2>2. handler[a].pc # "none"
    OBVIOUS
  <2> QED BY <2>1, <2>2 DEF Sound, Processes, Alone
<1> QED BY <1>4, <1>5, <1>6, <1>7, <1>9, <1>10, <1>11, <1>12, <1>13, <1>14, <1>15, <1>16
        DEF Sound, Books, Processes

LEMMA SettleCellStep ==
  ASSUME Typed, Sound, NEW a \in Attempt, SettleCell(a)
  PROVE  Typed' /\ Sound'
<1> DEFINE k == handler[a].cell
<1>0. /\ UNCHANGED <<weather, op, att, susp, outbox, transfer, auth, ws, recovery, resumed>>
      /\ handler[a].pc = "settle" /\ ws.running = 0
  BY DEF SettleCell, At, Unlocked
<1>1. CASE UNCHANGED <<cells, job, call>> /\ \E p \in {"conflict", Refusal} : Go(a, p)
  <2>1. UNCHANGED <<weather, store, ws, recovery, resumed>>
    BY <1>0, <1>1 DEF store
  <2>2. {"conflict", Refusal} \subseteq Exits \ {"expire", "finalize", "publish"} /\ handler[a].pc \notin Running \cup {"none"}
    BY <1>0, RefusalIsExit DEF Exits, Running
  <2> QED BY <1>1, <2>1, <2>2, LeaveQuiet, QuietIsSound
<1>2. CASE /\ Checkpointable(handler[a]) /\ Fenced(a) /\ cells[k].state = "running"
           /\ cells[k].attempt = a
           /\ CommitCell(k) /\ call' = "succeeded" /\ Go(a, "recover")
  <2>1. /\ k = transfer.cell /\ transfer.state = "worker_ack" /\ transfer.successor = a
        /\ handler[a].gen = cells[k].gen /\ handler[a].rev = cells[k].rev
    BY <1>0 DEF Sound, Processes, Handlers, Delivers, Delivering
  <2>2. k \in Cell
    BY <2>1 DEF Sound, Books, Transfers
  <2> HIDE DEF k
  <2>3. k = handler[a].cell
    BY DEF k
  <2> QED BY <1>0, <1>2, <2>1, <2>2, <2>3, CommitIsSound
<1> QED BY <1>1, <1>2 DEF SettleCell

LEMMA CloseStep ==
  ASSUME Typed, Sound, NEW a \in Attempt, Close(a)
  PROVE  Typed' /\ Sound'
<1> DEFINE k == handler[a].cell
<1>0. /\ UNCHANGED <<weather, op, att, susp, outbox, call, transfer, auth, ws, recovery, resumed>>
      /\ handler[a].pc = "close" /\ ws.running = 0
  BY DEF Close, At, Unlocked
<1>1. CASE UNCHANGED <<cells, job>> /\ \E p \in {"conflict", "expire", Refusal} : Go(a, p)
  <2>1. UNCHANGED <<weather, store, ws, recovery, resumed>>
    BY <1>0, <1>1 DEF store
  <2>2. {"conflict", "expire", Refusal} \subseteq Exits /\ handler[a].pc \notin Running \cup {"none"}
    BY <1>0, RefusalIsExit DEF Exits, Running
  <2>3. handler[a].pc \in Straying
    BY <1>0 DEF Straying, Working
  <2> QED BY <1>1, <2>1, <2>2, <2>3, LeaveQuiet, QuietIsSound
<1>2. CASE /\ Checkpointable(handler[a]) /\ Fenced(a) /\ cells[k].state = "running"
           /\ CommitCell(k) /\ Go(a, "plan")
  <2>1. /\ k \in Cell /\ cells[k].attempt = a
        /\ handler[a].gen = cells[k].gen /\ handler[a].rev = cells[k].rev
        /\ transfer.state # "none" => k # transfer.cell
    BY <1>0 DEF Sound, Processes, Handlers, Works, Working, Open
  <2> HIDE DEF k
  <2>2. k = handler[a].cell
    BY DEF k
  <2>3. call \in {"none", "started", "succeeded"}
    BY DEF Typed, StoreTypes
  <2> QED BY <1>0, <1>2, <2>1, <2>2, <2>3, CommitIsSound
<1> QED BY <1>1, <1>2 DEF Close

-----------------------------------------------------------------------------
(* A cell begins: after a loss the authority is bound first.               *)

LEMMA ContinueStep ==
  ASSUME Typed, Sound, NEW a \in Attempt, Continue(a)
  PROVE  Typed' /\ Sound'
<1>0. /\ UNCHANGED <<weather, op, att, job, susp, outbox, call, transfer, cells, ws, recovery,
                    resumed>>
      /\ handler[a].pc = "recover" /\ handler[a].pc \notin Running \cup {"none"}
  BY DEF Continue, At, Running
<1>1. CASE auth' = auth /\ \E p \in {"expire", "conflict", Refusal, "plan"} : Go(a, p)
  <2>1. UNCHANGED <<weather, store, ws, recovery, resumed>>
    BY <1>0, <1>1 DEF store
  <2>2. PICK p \in {"expire", "conflict", Refusal, "plan"} : Go(a, p)
    BY <1>1
  <2>3. CASE p \in Exits
    BY <1>0, <2>1, <2>2, <2>3, LeaveQuiet, QuietIsSound DEF Straying, Planned
  <2>4. CASE p = "plan"
    <3>1. Harmless(a, "recover", p) /\ p \in Points
      BY <2>4 DEF Harmless, Proceeds, Running, Planned, Early, Working, Delivering, Barred,
                  Straying, Points
    <3> QED BY <1>0, <2>1, <2>2, <3>1, MoveQuiet, QuietIsSound
  <2> QED BY <2>3, <2>4, RefusalIsExit DEF Exits
<1>2. CASE /\ AwaitsContinuation /\ Bindable(a)
           /\ auth' = [auth EXCEPT !.attempt = a, !.generation = @ + 1, !.worker = ws.id,
                                  !.token = FALSE]
           /\ \E p \in {"exhausted", "start"} : Go(a, p)
  <2>1. PICK p \in {"exhausted", "start"} : Go(a, p)
    BY <1>2
  <2>2. PcTo(a, p)
    BY <2>1, GoIs DEF Points
  <2>3. op.state = "running" /\ op.attempt = a /\ att[a] = "running"
    BY <1>2, FencedIsLatest DEF Bindable
  <2>4. auth \in AuthRow /\ auth.generation + 1 \in Nat /\ a \in 0..MaxAttempts /\ a # 0
        /\ ws.id \in Nat
    BY RebindAssumption DEF Typed, StoreTypes, ProcessTypes, AuthRow, WorkerRow, Attempt
  <2>5. auth' \in AuthRow /\ auth'.attempt = a /\ auth'.cell = auth.cell
    <3> DEFINE n == auth.generation + 1
    <3>1. n \in Nat /\ auth \in AuthRow /\ ws.id \in Nat
      BY <2>4
    <3>2. auth' = [auth EXCEPT !.attempt = a, !.generation = n, !.worker = ws.id, !.token = FALSE]
      BY Zenon, <1>2
    <3> HIDE DEF n
    <3> QED BY <2>4, <3>1, <3>2 DEF AuthRow
  <2>6. Typed'
    BY <1>0, <2>2, <2>5 DEF Typed, StoreTypes, ProcessTypes, PcTo, weather
  <2>7. transfer.state \in {"aborted", "fenced_loss"} /\ auth.attempt # 0
    BY <1>2 DEF AwaitsContinuation, Sound, Books, Authorised
  <2>8. CellCount' = CellCount /\ Open' = Open /\ Committed' = Committed
    BY <1>0 DEF CellCount, Open, Lost, Committed
  <2>9. Owned'
    BY <1>0, <2>2 DEF Sound, Books, Owned, PcTo
  <2>10. Authorised'
    BY <1>0, <2>3, <2>4, <2>5, <2>7 DEF Sound, Books, Authorised
  <2>11. Suspensions'
    BY <1>0, <2>7 DEF Sound, Books, Suspensions
  <2>12. Transfers' /\ Journal'
    BY <1>0, <2>8
    DEF Sound, Books, Transfers, Lost, Journal, Numbered, Begun, AtBoundary, Staged
  <2>13. Handlers'
    <3> SUFFICES ASSUME NEW b \in Attempt PROVE Works(b)' /\ Delivers(b)' /\ StartsClean(b)'
      BY DEF Handlers
    <3>1. Works(b) /\ Delivers(b) /\ StartsClean(b)
      BY DEF Sound, Processes, Handlers
    <3>2. CASE b = a
      BY <1>0, <2>2, <2>8, <3>1, <3>2
      DEF Works, Delivers, StartsClean, Working, Delivering, Planned, PcTo, Fenced
    <3>3. CASE b # a
      <4>1. handler'[b] = handler[b] /\ ~Fenced(b)'
        BY <1>0, <2>2, <2>3, <3>3 DEF PcTo, Fenced
      <4> QED BY <1>0, <2>8, <3>1, <4>1 DEF Works, Delivers, StartsClean
    <3> QED BY <3>2, <3>3
  <2>14. /\ Worker'
         /\ ws.running # 0 => handler'[ws.running] = handler[ws.running]
    BY <1>0, <2>2, WorkerKept DEF PcTo, Running
  <2>15. Namespace'
    BY <1>0, <2>8, <2>14 DEF Sound, Processes, Namespace, Available, CheckHandle
  <2>16. Recoveries'
    BY <1>0, <2>3 DEF Sound, Processes, Recoveries
  <2>17. Resumed'
    <3>1. transfer.successor \in Attempt
      BY <2>3, <2>7, RebindAssumption DEF Sound, Books, Transfers, Attempt
    <3> QED BY <1>0, <2>2, <3>1 DEF Sound, Processes, Resumed, PcTo, Early
  <2>18. Alone'
    BY <1>0, <2>7 DEF Alone, Handing
  <2> QED BY <2>6, <2>9, <2>10, <2>11, <2>12, <2>13, <2>14, <2>15, <2>16, <2>17, <2>18
          DEF Sound, Books, Processes
<1> QED BY <1>1, <1>2 DEF Continue

\* A cell is recorded under the next number.
LEMMA NextCell ==
  ASSUME Sound, NEW k \in Cell, k = CellCount + 1,
         \A c \in Cell : c # k => cells'[c] = cells[c], cells'[k].state # "none"
  PROVE  CellCount' = k /\ cells[k].state = "none"
<1> DEFINE Known == {c \in Cell : cells[c].state # "none"}
<1>1. CellCount \in Nat /\ ~(CellCount + 1 <= CellCount)
      /\ \A c \in Cell : cells[c].state # "none" <=> c <= CellCount
  BY RebindAssumption DEF Sound, Books, Journal, Numbered
<1>2. cells[k].state = "none" /\ k \notin Known
  BY <1>1
<1>3. {c \in Cell : cells'[c].state # "none"} = Known \cup {k}
  OBVIOUS
<1>4. IsFiniteSet(Known)
  <2>1. IsFiniteSet(Cell)
    BY RebindAssumption, FS_Interval DEF Cell
  <2> QED BY <2>1, FS_Subset
<1>5. Cardinality(Known \cup {k}) = Cardinality(Known) + 1
  BY <1>2, <1>4, FS_AddElement
<1> QED BY <1>2, <1>3, <1>5 DEF CellCount

LEMMA StartStep ==
  ASSUME Typed, Sound, NEW a \in Attempt, Start(a)
  PROVE  Typed' /\ Sound'
<1> DEFINE k == CellCount + 1
<1>0. /\ UNCHANGED <<weather, op, att, job, susp, outbox, call, transfer, ws, recovery, resumed>>
      /\ handler[a].pc = "start" /\ handler[a].pc \notin Running \cup {"none"} /\ ws.running = 0
  BY DEF Start, At, Running, Unlocked
<1>1. CASE UNCHANGED <<cells, auth>> /\ \E p \in {"expire", "conflict", Refusal} : Go(a, p)
  <2>1. UNCHANGED <<weather, store, ws, recovery, resumed>>
    BY <1>0, <1>1 DEF store
  <2>2. {"conflict", "expire", Refusal} \subseteq Exits
    BY RefusalIsExit DEF Exits
  <2>3. handler[a].pc \in Straying
    BY <1>0 DEF Straying, Planned
  <2> QED BY <1>0, <1>1, <2>1, <2>2, <2>3, LeaveQuiet, QuietIsSound
<1>2. CASE /\ k <= MaxCells /\ Available /\ CheckHandle(job.gen, job.rev) /\ ws.stack = 0
           /\ Fenced(a) /\ auth.attempt \in {0, a}
           /\ cells' = [cells EXCEPT ![k] = [NoCell EXCEPT !.state = "running", !.attempt = a,
                                            !.gen = job.gen, !.rev = job.rev, !.pre = ws.names]]
           /\ auth' = [auth EXCEPT !.attempt = a, !.generation = IF @ = 0 THEN 1 ELSE @,
                                  !.worker = ws.id, !.cell = k]
           /\ handler' = [handler EXCEPT ![a] = [pc |-> "exec", cell |-> k, gen |-> job.gen,
                                                rev |-> job.rev]]
  <2>1. k \in Cell
    BY <1>2, RebindAssumption DEF Sound, Books, Journal, Numbered, Cell
  <2> HIDE DEF k
  <2>2. op.state = "running" /\ op.attempt = a /\ att[a] = "running"
    BY <1>2, FencedIsLatest
  <2>3. /\ a \in 0..MaxAttempts /\ a # 0 /\ k \in 0..MaxCells /\ k # 0
        /\ job.gen \in Nat /\ job.rev \in Nat /\ ws.names \in SUBSET Cell /\ ws.id \in Nat
    BY <2>1, RebindAssumption
    DEF Typed, StoreTypes, ProcessTypes, JobRow, WorkerRow, Attempt, Cell
  <2>4. /\ cells' \in [Cell -> CellRow]
        /\ cells'[k].state = "running" /\ cells'[k].attempt = a /\ cells'[k].gen = job.gen
        /\ cells'[k].rev = job.rev /\ cells'[k].pre = ws.names /\ cells'[k].stage = "none"
        /\ \A c \in Cell : c # k => cells'[c] = cells[c]
    <3> DEFINE new == [NoCell EXCEPT !.state = "running", !.attempt = a, !.gen = job.gen,
                                     !.rev = job.rev, !.pre = ws.names]
    <3>1. new \in CellRow
      BY <2>3, Rows DEF CellRow
    <3>2. /\ new.state = "running" /\ new.attempt = a /\ new.gen = job.gen
          /\ new.rev = job.rev /\ new.pre = ws.names /\ new.stage = "none"
      BY DEF NoCell
    <3>3. cells' = [cells EXCEPT ![k] = new] /\ cells \in [Cell -> CellRow]
      BY <1>2 DEF Typed, StoreTypes
    <3> HIDE DEF new
    <3>4. cells' \in [Cell -> CellRow] /\ cells'[k] = new
          /\ \A c \in Cell : c # k => cells'[c] = cells[c]
      BY <2>1, <3>1, <3>3
    <3> QED BY <3>2, <3>4
  <2>5. auth' \in AuthRow /\ auth'.attempt = a /\ auth'.cell = k
    <3> DEFINE n == IF auth.generation = 0 THEN 1 ELSE auth.generation
    <3>1. auth \in AuthRow /\ n \in Nat
      BY DEF Typed, StoreTypes, AuthRow
    <3>2. auth' = [auth EXCEPT !.attempt = a, !.generation = n, !.worker = ws.id, !.cell = k]
      BY Zenon, <1>2
    <3> HIDE DEF n
    <3> QED BY <2>3, <3>1, <3>2 DEF AuthRow
  <2>6. /\ handler' \in [Attempt -> HandlerRow]
        /\ handler'[a].pc = "exec" /\ handler'[a].cell = k
        /\ handler'[a].gen = job.gen /\ handler'[a].rev = job.rev
        /\ \A b \in Attempt : b # a => handler'[b] = handler[b]
    <3>1. handler \in [Attempt -> HandlerRow]
      BY DEF Typed, ProcessTypes
    <3> DEFINE new == [pc |-> "exec", cell |-> k, gen |-> job.gen, rev |-> job.rev]
    <3>2. new \in HandlerRow /\ new.pc = "exec" /\ new.cell = k /\ new.gen = job.gen
          /\ new.rev = job.rev
      BY <2>3 DEF HandlerRow, Points
    <3>3. handler' = [handler EXCEPT ![a] = new]
      BY <1>2
    <3> HIDE DEF new
    <3> QED BY <3>1, <3>2, <3>3
  <2>7. Typed'
    BY <1>0, <2>4, <2>5, <2>6 DEF Typed, StoreTypes, ProcessTypes, weather
  <2>8. Open = {}
    BY <1>0, <1>2 DEF Sound, Processes, Handlers, StartsClean, Planned
  <2>9. CellCount' = k /\ cells[k].state = "none"
    BY <2>1, <2>4, NextCell DEF k
  <2>10. Open' = {k} /\ Committed' = Committed
    BY <1>0, <2>1, <2>4, <2>8, <2>9 DEF Open, Lost, Committed
  <2>11. ws.names = Committed
    BY <1>0, <1>2 DEF Sound, Processes, Namespace
  <2>12. Owned'
    BY <1>0, <2>2, <2>6 DEF Sound, Books, Owned
  <2>13. Authorised'
    BY <1>0, <2>1, <2>2, <2>3, <2>5 DEF Sound, Books, Authorised
  <2>14. Suspensions'
    BY <1>0, <2>2 DEF Sound, Books, Suspensions
  <2>15. transfer.state # "none" => /\ transfer.cell # k /\ transfer.cell \in Cell
                                    /\ cells'[transfer.cell] = cells[transfer.cell]
    <3>1. transfer.state # "none" => transfer.cell \in Cell /\ cells[transfer.cell].state # "none"
      BY DEF Sound, Books, Transfers, Lost, Typed, StoreTypes, TransferRow
    <3> QED BY <2>4, <2>9, <3>1
  <2>16. Transfers'
    BY <1>0, <2>10, <2>15 DEF Sound, Books, Transfers, Lost
  <2>17. Journal'
    <3>1. Numbered'
      <4>1. CellCount \in Nat /\ k = CellCount + 1
            /\ \A c \in Cell : cells[c].state # "none" <=> c <= CellCount
        BY RebindAssumption DEF Sound, Books, Journal, Numbered, k
      <4>2. \A c \in Cell : c \in Nat /\ (c <= k <=> c <= CellCount \/ c = k)
        BY <4>1 DEF Cell
      <4> QED BY <2>3, <2>4, <2>9, <4>1, <4>2 DEF Numbered
    <3>2. ASSUME NEW c \in Cell PROVE Begun(c)' /\ AtBoundary(c)' /\ Staged(c)'
      <4>1. CASE c = k
        BY <1>0, <2>2, <2>3, <2>4, <2>9, <2>10, <2>11, <4>1, RebindAssumption
        DEF Begun, AtBoundary, Staged, Attempt
      <4>2. CASE c # k
        <5>1. cells'[c] = cells[c] /\ c \notin Open' /\ Begun(c) /\ Staged(c)
          BY <2>4, <2>10, <4>2 DEF Sound, Books, Journal
        <5> QED BY <1>0, <5>1 DEF Begun, AtBoundary, Staged
      <4> QED BY <4>1, <4>2
    <3> QED BY <3>1, <3>2 DEF Journal
  <2>18. Handlers'
    <3> SUFFICES ASSUME NEW b \in Attempt PROVE Works(b)' /\ Delivers(b)' /\ StartsClean(b)'
      BY DEF Handlers
    <3>1. Works(b) /\ Delivers(b)
      BY DEF Sound, Processes, Handlers
    <3>2. CASE b = a
      BY <1>0, <2>1, <2>4, <2>6, <2>10, <2>15, <3>2
      DEF Works, Delivers, StartsClean, Working, Delivering, Planned
    <3>3. CASE b # a
      <4>1. handler'[b] = handler[b] /\ ~Fenced(b)'
        BY <1>0, <2>2, <2>6, <3>3 DEF Fenced
      <4>2. Works(b)'
        BY <2>8, <3>1, <4>1 DEF Works
      <4>3. Delivers(b)'
        BY <1>0, <2>15, <3>1, <4>1 DEF Delivers, Delivering
      <4> QED BY <4>1, <4>2, <4>3 DEF StartsClean
    <3> QED BY <3>2, <3>3
  <2>19. Worker'
    <3>1. \A c \in Cell : cells[c].state # "none" =>
            cells'[c].state # "none" /\ cells'[c].gen = cells[c].gen
      BY <2>4, <2>9
    <3>2. handler'[a].pc \notin Running
      BY <2>6 DEF Running
    <3> QED BY <1>0, <2>6, <3>1, <3>2, WorkerKept
  <2>20. Namespace'
    <3>1. ws.rev # job.rev + 1
      BY <1>2, <2>3 DEF CheckHandle
    <3> QED BY <1>0, <1>2, <2>10, <2>11, <3>1 DEF Namespace, CheckHandle
  <2>21. Recoveries'
    BY <1>0, <2>2 DEF Sound, Processes, Recoveries
  <2>22. Resumed'
    <3>1. transfer.state # "none" => transfer.successor \in Attempt
      BY <2>2, RebindAssumption DEF Sound, Books, Transfers, Attempt
    <3> QED BY <1>0, <2>6, <3>1 DEF Sound, Processes, Resumed, Early
  <2>23. Alone'
    <3>1. Handing' => Handing
      BY <1>0, <2>15 DEF Handing
    <3>2. ~Handing /\ ~(transfer.state = "none" /\ susp \in {"pending", "settled"})
      BY <1>0, <2>8, HandingIsOpen DEF Sound, Processes, Alone
    <3> QED BY <1>0, <3>1, <3>2 DEF Sound, Processes, Alone
  <2> QED BY <2>7, <2>12, <2>13, <2>14, <2>16, <2>17, <2>18, <2>19, <2>20, <2>21, <2>22,
             <2>23
          DEF Sound, Books, Processes
<1> QED BY <1>1, <1>2, RebindAssumption DEF Start, Sound, Books, Journal, Numbered

-----------------------------------------------------------------------------
(* The stack suspends.                                                     *)

LEMMA RequestRefused ==
  ASSUME Typed, NEW a \in Attempt, JournalCall,
         UNCHANGED <<weather, outbox, transfer, auth, recovery, resumed>>,
         UNCHANGED <<susp, cells, job, att, op, ws, handler>>
  PROVE  Typed' /\ Quiet
<1>1. /\ cells' \in [Cell -> CellRow] /\ ws' \in WorkerRow /\ job' \in JobRow
      /\ handler' \in [Attempt -> HandlerRow]
      /\ call' \in {"none", "started", "succeeded"} /\ (call' = "none" => call = "none")
  BY DEF Typed, StoreTypes, ProcessTypes, JournalCall
<1>2. SameCells /\ SameWorker /\ SameBoundary /\ \A b \in Attempt : Drifts(b)
  BY SameRows, SameWs, SameJob, Resting
<1> QED BY <1>1, <1>2, PhaseQuiet

LEMMA SuspendStep ==
  ASSUME Typed, Sound, NEW a \in Attempt, Suspend(a)
  PROVE  Typed' /\ Sound'
<1> DEFINE k == handler[a].cell
<1>0. /\ UNCHANGED <<weather, outbox, transfer, auth, recovery, resumed>>
      /\ handler[a].pc = "run" /\ call = "none" /\ call' = "started" /\ ws.alive
  BY DEF Suspend, At, JournalCall
<1>1. CASE UNCHANGED <<susp, cells, job, att, op, ws, handler>>
  BY <1>0, <1>1, RequestRefused, QuietIsSound DEF JournalCall
<1>2. CASE /\ Suspendable(a)
           /\ SuspendAttempt(a)
           /\ ws' = [ws EXCEPT !.running = 0, !.stack = k]
           /\ Go(a, "none")
  <2>1. /\ k \in Open /\ k = CellCount /\ handler[a].gen = job.gen /\ handler[a].rev = job.rev
        /\ cells[k].attempt = a /\ \A c \in Open : c = k
    BY <1>0, <1>2, WorkingIsOpen DEF Working, Suspendable
  <2>2. k \in Cell /\ k \in 0..MaxCells /\ k # 0
    BY <2>1 DEF Open, Cell
  <2>3. /\ cells' = [cells EXCEPT ![k].state = "suspended"]
        /\ job' = [job EXCEPT !.phase = "waiting_external"]
        /\ att' = [att EXCEPT ![a] = "suspended_external"]
        /\ op' = [op EXCEPT !.state = "accepted", !.dispatch = "parked"]
        /\ susp' = "pending"
        /\ auth.attempt = a /\ auth.cell = k /\ cells[k].state = "running"
    BY <1>2 DEF SuspendAttempt, Suspendable
  <2> HIDE DEF k
  <2>4. op.state = "running" /\ op.attempt = a /\ att[a] = "running"
    BY <1>2, FencedIsLatest DEF Suspendable
  <2>5. PcTo(a, "none")
    BY <1>2, GoIs DEF Points
  <2>6. /\ cells \in [Cell -> CellRow] /\ job \in JobRow /\ att \in [Attempt -> AttemptStates]
        /\ op \in OpRow /\ ws \in WorkerRow
    BY DEF Typed, StoreTypes, ProcessTypes
  <2>7. /\ op' \in OpRow /\ op'.state = "accepted" /\ op'.dispatch = "parked"
        /\ op'.attempt = op.attempt
    BY <2>3, <2>6 DEF OpRow
  <2>8. /\ att' \in [Attempt -> AttemptStates] /\ att'[a] = "suspended_external"
        /\ \A b \in Attempt : b # a => att'[b] = att[b]
    BY <2>3, <2>6 DEF AttemptStates
  <2>9. job' \in JobRow /\ job'.gen = job.gen /\ job'.rev = job.rev
    BY <2>3, <2>6, PhaseIs DEF SameBoundary
  <2>10. /\ ws' \in WorkerRow /\ ws'.running = 0 /\ ws'.stack = k /\ ws'.id = ws.id
         /\ ws'.gen = ws.gen /\ ws'.rev = ws.rev /\ ws'.names = ws.names
         /\ ws'.receipt = ws.receipt /\ ws'.alive = ws.alive /\ ws'.lost = ws.lost
    <3>1. ws' = [ws EXCEPT !.running = 0, !.stack = k]
      BY <1>2 DEF k
    <3> QED BY <2>2, <2>6, <3>1, Zeros DEF WorkerRow
  <2>11. /\ cells' \in [Cell -> CellRow]
         /\ cells'[k].state = "suspended" /\ cells'[k].attempt = a /\ cells'[k].gen = cells[k].gen
         /\ cells'[k].rev = cells[k].rev /\ cells'[k].pre = cells[k].pre
         /\ cells'[k].stage = cells[k].stage
         /\ \A c \in Cell : c # k => cells'[c] = cells[c]
    <3>1. cells'[k] = [cells[k] EXCEPT !.state = "suspended"]
          /\ \A c \in Cell : c # k => cells'[c] = cells[c]
      BY <2>2, <2>3, <2>6
    <3>2. cells' = [c \in Cell |-> cells'[c]]
      BY <2>3, <2>6
    <3>3. cells[k] \in CellRow
      BY <2>2, <2>6
    <3>4. /\ cells'[k] \in CellRow
          /\ cells'[k].state = "suspended" /\ cells'[k].attempt = a /\ cells'[k].gen = cells[k].gen
          /\ cells'[k].rev = cells[k].rev /\ cells'[k].pre = cells[k].pre
          /\ cells'[k].stage = cells[k].stage
      BY <2>1, <3>1, <3>3 DEF CellRow, k
    <3> QED BY <2>6, <3>1, <3>2, <3>4
  <2>12. Typed'
    BY <1>0, <2>3, <2>5, <2>7, <2>8, <2>9, <2>10, <2>11
    DEF Typed, StoreTypes, ProcessTypes, PcTo, weather
  <2>13. transfer.state = "none" /\ outbox = "none"
    BY <1>0 DEF Sound, Books, Suspensions
  <2>14. CellCount' = CellCount
    BY <2>3, <2>11, SameCount
  <2>15. Open' = Open /\ Committed' = Committed
    BY <1>0, <2>2, <2>3, <2>11 DEF Open, Lost, Committed
  <2>16. Owned'
    BY <2>4, <2>5, <2>7, <2>8, RebindAssumption DEF Sound, Books, Owned, PcTo, Terminal
  <2>17. Authorised'
    BY <1>0, <2>7 DEF Sound, Books, Authorised
  <2>18. Suspensions'
    BY <1>0, <2>3, <2>4, <2>7, <2>11, <2>13, RebindAssumption DEF Suspensions, Attempt
  <2>19. Transfers'
    BY <1>0, <2>13 DEF Sound, Books, Transfers, Lost
  <2>20. Journal'
    BY <2>7, <2>9, <2>11, <2>14, <2>15, <2>3
    DEF Sound, Books, Journal, Numbered, Begun, AtBoundary, Staged
  <2>21. Handlers'
    <3> SUFFICES ASSUME NEW b \in Attempt PROVE Works(b)' /\ Delivers(b)' /\ StartsClean(b)'
      BY DEF Handlers
    <3>1. Works(b) /\ Delivers(b)
      BY DEF Sound, Processes, Handlers
    <3>2. ~Fenced(b)'
      BY <2>4, <2>7, <2>8 DEF Fenced
    <3>3. CASE b = a
      BY <2>5, <3>2, <3>3 DEF Works, Delivers, StartsClean, Working, Delivering, PcTo
    <3>4. CASE b # a
      <4>1. handler'[b] = handler[b]
        BY <2>5, <3>4 DEF PcTo
      <4>2. Works(b)'
        BY <2>1, <3>1, <3>4, <4>1 DEF Works
      <4> QED BY <1>0, <2>13, <3>1, <3>2, <4>1, <4>2 DEF Delivers, StartsClean, Delivering
    <3> QED BY <3>3, <3>4
  <2>22. /\ ws.running = a /\ a # 0 /\ ws.stack = 0 /\ ws.gen = job.gen /\ ws.rev = job.rev
         /\ ws.id # 0
    BY <1>0, <2>1, RebindAssumption DEF Sound, Processes, Worker, Runs, Running, Attempt
  <2>23. Worker'
    <3>1. ASSUME NEW b \in Attempt PROVE Runs(b)'
      <4>1. handler'[b].pc \notin Running /\ b # 0
        BY <2>5, <2>22, RebindAssumption
        DEF Sound, Processes, Worker, Runs, Running, PcTo, Attempt
      <4> QED BY <2>10, <4>1 DEF Runs
    <3>2. cells[k].gen = job.gen
      BY <2>1 DEF Sound, Books, Journal, AtBoundary, Open
    <3>3. ASSUME NEW c \in Cell, c \in {k, ws.receipt}
          PROVE  cells'[c].state # "none" /\ cells'[c].gen = ws.gen
      <4>1. CASE c = k
        BY <2>11, <2>22, <3>2, <4>1
      <4>2. CASE c # k
        BY <2>11, <3>3, <4>2 DEF Sound, Processes, Worker
      <4> QED BY <4>1, <4>2
    <3> QED BY <2>10, <2>22, <3>1, <3>3 DEF Worker
  <2>24. Namespace'
    <3>1. job.rev \in Nat /\ ws.rev # job.rev + 1
      BY <2>6, <2>22 DEF JobRow
    <3>2. Available' => ws.names = Committed \cup {k}
      BY <2>10, <2>22 DEF Sound, Processes, Namespace, Available, CheckHandle, k
    <3> QED BY <2>1, <2>2, <2>9, <2>10, <2>11, <2>15, <3>1, <3>2 DEF Namespace, CheckHandle
  <2>25. Recoveries'
    BY <1>0, <2>4 DEF Sound, Processes, Recoveries
  <2>26. Resumed'
    BY <1>0, <2>13 DEF Sound, Processes, Resumed
  <2>27. Alone'
    <3>1. op.attempt <= 1 /\ a = 1
      BY <2>4, <2>13, RebindAssumption DEF Sound, Processes, Alone, Attempt
    <3>2. \A b \in Attempt : handler'[b].pc = "none"
      <4>1. \A b \in Attempt : b # a => handler[b].pc = "none"
        BY <2>4, <3>1, RebindAssumption DEF Sound, Books, Owned, Attempt
      <4> QED BY <2>5, <4>1 DEF PcTo
    <3> QED BY <1>0, <2>7, <2>13, <3>1, <3>2 DEF Alone, Handing
  <2> QED BY <2>12, <2>16, <2>17, <2>18, <2>19, <2>20, <2>21, <2>23, <2>24, <2>25, <2>26,
             <2>27
          DEF Sound, Books, Processes
<1> QED BY <1>1, <1>2 DEF Suspend

-----------------------------------------------------------------------------
(* The recovery of a lost worker.                                          *)

\* The cell a recovery restores: open at the job's boundary, or already lost.
LEMMA RecoveredCell ==
  ASSUME Typed, Sound, transfer.state # "none"
  PROVE  /\ transfer.cell \in Cell /\ cells[transfer.cell] \in CellRow
         /\ cells[transfer.cell].gen \in Nat /\ job.gen \in Nat /\ job.rev \in Nat
         /\ transfer.state \in {"prepared", "committed"} =>
              transfer.cell \in Open /\ cells[transfer.cell].gen = job.gen
              /\ cells[transfer.cell].pre = Committed
<1>1. transfer.cell \in Cell
  BY DEF Sound, Books, Transfers
<1>2. cells[transfer.cell] \in CellRow /\ job.gen \in Nat /\ job.rev \in Nat
  BY <1>1 DEF Typed, StoreTypes, JobRow
<1>3. ASSUME transfer.state \in {"prepared", "committed"} PROVE transfer.cell \in Open
  BY <1>1, <1>3 DEF Sound, Books, Transfers, Open
<1>4. \A c \in Open : c \in Cell /\ cells[c].gen = job.gen /\ cells[c].pre = Committed
  BY DEF Sound, Books, Journal, AtBoundary, Open
<1> QED BY <1>1, <1>2, <1>3, <1>4 DEF CellRow

LEMMA RestoreStep ==
  ASSUME Typed, Sound, Restore
  PROVE  Typed' /\ Sound'
<1> DEFINE k == transfer.cell
           c == cells[transfer.cell]
<1>0. /\ UNCHANGED <<weather, store, handler, resumed>>
      /\ op.state = "indeterminate" /\ ws.running = 0
      /\ transfer.state \in {"prepared", "committed", "fenced_loss", "aborted"}
      /\ recovery' = [pc |-> "restored", gen |-> c.gen + 1]
      /\ ws' = (IF Reusable(c.gen, c.pre) THEN ws ELSE Spawn(c.gen + 1, c.pre))
  BY DEF Restore, Recoverable, Unlocked
<1>1. UNCHANGED <<op, att, job, susp, outbox, call, transfer, cells, auth>>
  BY <1>0 DEF store
<1>2. /\ k \in Cell /\ c \in CellRow /\ c.gen \in Nat /\ job.gen \in Nat /\ job.rev \in Nat
      /\ transfer.state \in {"prepared", "committed"} => k \in Open /\ c.gen = job.gen
      /\ c.pre \in SUBSET Cell
  BY <1>0, RecoveredCell DEF CellRow
<1>3. /\ ws' \in WorkerRow /\ ws'.gen = c.gen + 1 /\ ws'.rev = 0 /\ ws'.names = c.pre
      /\ ws'.running = 0
      /\ ws' = ws \/ (ws'.id # 0 /\ ws'.stack = 0 /\ ws'.receipt = 0)
  <2>1. CASE Reusable(c.gen, c.pre)
    <3>1. ws' = ws /\ ws \in WorkerRow
      BY <1>0, <2>1 DEF Typed, ProcessTypes
    <3>2. ws.gen = c.gen + 1 /\ ws.rev = 0 /\ ws.names = c.pre
      BY <2>1 DEF Reusable
    <3> HIDE DEF c
    <3> QED BY <1>0, <3>1, <3>2
  <2>2. CASE ~Reusable(c.gen, c.pre)
    <3>1. ws' = Spawn(c.gen + 1, c.pre)
      BY <1>0, <2>2
    <3>2. c.gen + 1 \in Nat /\ c.gen + 1 > 0 /\ c.pre \in SUBSET Cell /\ crashes \in 0..MaxCrashes
      BY <1>2 DEF Typed, ProcessTypes
    <3> DEFINE g == c.gen + 1
               names == c.pre
    <3> HIDE DEF g, names
    <3>3. /\ Spawn(g, names) \in WorkerRow
          /\ Spawn(g, names).id # 0
          /\ Spawn(g, names).gen = g /\ Spawn(g, names).rev = 0
          /\ Spawn(g, names).names = names /\ Spawn(g, names).running = 0
          /\ Spawn(g, names).stack = 0 /\ Spawn(g, names).receipt = 0
      BY <3>2, SpawnIs DEF g, names
    <3> QED BY <3>1, <3>3 DEF g, names
  <2> QED BY <2>1, <2>2
<1>4. Typed'
  <2>1. recovery' \in RecoveryRow /\ recovery'.gen = c.gen + 1 /\ recovery'.pc = "restored"
    BY <1>0, <1>2 DEF RecoveryRow
  <2> QED BY <1>0, <1>1, <1>3, <2>1 DEF Typed, StoreTypes, ProcessTypes, weather
<1>5. CellCount' = CellCount /\ Open' = Open /\ Committed' = Committed
  BY <1>1 DEF CellCount, Open, Lost, Committed
<1>6. Owned' /\ Authorised' /\ Suspensions'
  BY <1>0, <1>1 DEF Sound, Books, Owned, Authorised, Suspensions
<1>7. Transfers'
  <2>1. ws'.gen > c.gen
    BY <1>2, <1>3
  <2> QED BY <1>1, <1>5, <2>1 DEF Sound, Books, Transfers, Lost
<1>8. Journal'
  BY <1>1, <1>5 DEF Sound, Books, Journal, Numbered, Begun, AtBoundary, Staged
<1>9. Handlers'
  BY <1>0, <1>1, <1>5
  DEF Sound, Processes, Handlers, Works, Delivers, StartsClean, Fenced, Token
<1>10. Worker'
  <2>1. ASSUME NEW b \in Attempt PROVE Runs(b)'
    <3>1. handler[b].pc \notin Running /\ b # 0
      BY <1>0, RebindAssumption DEF Sound, Processes, Worker, Runs, Attempt
    <3> QED BY <1>0, <1>3, <3>1 DEF Runs
  <2>2. 0 \notin Cell
    BY DEF Cell
  <2> QED BY <1>1, <1>3, <2>1, <2>2 DEF Sound, Processes, Worker
<1>11. Namespace'
  <2>1. CASE ws' = ws
    BY <1>0, <1>1, <1>5, <2>1 DEF Sound, Processes, Namespace, Available, CheckHandle
  <2>2. CASE ws'.stack = 0
    <3>1. ws'.rev # job'.rev + 1
      BY <1>1, <1>2, <1>3
    <3>2. ASSUME CheckHandle(job.gen, job.rev)' PROVE ws'.names = Committed'
      <4>1. job.gen = c.gen + 1 /\ job.rev = 0
        BY <1>1, <1>3, <3>2 DEF CheckHandle
      <4>2. transfer.state \in {"fenced_loss", "aborted"}
        BY <1>0, <1>2, <4>1
      <4> QED BY <1>3, <1>5, <4>1, <4>2 DEF Sound, Books, Transfers, Lost
    <3> QED BY <1>3, <2>2, <3>1, <3>2 DEF Namespace, CheckHandle
  <2> QED BY <1>3, <2>1, <2>2
<1>12. Recoveries'
  <2>1. recovery'.gen = c.gen + 1 /\ recovery'.pc = "restored"
    BY <1>0
  <2>2. ASSUME recovery'.gen # job'.gen PROVE ws'.stack = 0
    <3>1. transfer.state \in {"prepared", "committed"}
      BY <1>0, <1>1, <2>1, <2>2 DEF Sound, Books, Transfers, Lost
    <3>2. c.gen = job.gen
      BY <1>2, <3>1
    <3>3. ASSUME ws' = ws PROVE ws.stack \notin Cell
      <4>1. SUFFICES ASSUME ws.stack \in Cell PROVE FALSE
        OBVIOUS
      <4>2. cells[ws.stack].state # "none" /\ cells[ws.stack].gen = ws.gen
        BY <4>1 DEF Sound, Processes, Worker
      <4>3. cells[ws.stack].gen <= job.gen
        BY <4>1, <4>2 DEF Sound, Books, Journal, Begun
      <4> QED BY <1>2, <1>3, <3>2, <3>3, <4>2, <4>3
    <3>4. ws.stack \in 0..MaxCells
      BY DEF Typed, ProcessTypes, WorkerRow
    <3> QED BY <1>3, <3>3, <3>4, RebindAssumption DEF Cell
  <2> QED BY <1>0, <1>1, <1>3, <2>1, <2>2 DEF Recoveries
<1>13. Resumed'
  BY <1>0, <1>1 DEF Sound, Processes, Resumed
<1>14. Alone'
  <2>1. Handing' = Handing /\ Barred' = Barred
    BY <1>1 DEF Handing, Barred
  <2> QED BY <1>0, <1>1, <2>1 DEF Sound, Processes, Alone
<1> QED BY <1>4, <1>6, <1>7, <1>8, <1>9, <1>10, <1>11, <1>12, <1>13, <1>14
        DEF Sound, Books, Processes

\* A recovery that was overtaken is given up; so is one whose cell is known to be lost.
LEMMA RecoveryIsCalm ==
  ASSUME Typed, Sound, recovery.pc = "restored",
         UNCHANGED <<weather, op, att, susp, call, auth, ws, handler, resumed, transfer>>,
         outbox' = outbox \/ (outbox' = "consumed" /\ transfer.state # "none"),
         cells' \in [Cell -> CellRow], SameCells, job' \in JobRow, SameBoundary,
         recovery' \in RecoveryRow,
         recovery'.pc = "idle" \/ (recovery'.pc = "marked" /\ recovery'.gen = recovery.gen)
  PROVE  Typed' /\ Sound'
<1>1. Typed'
  BY DEF Typed, StoreTypes, ProcessTypes, weather
<1>2. SameWorker /\ \A b \in Attempt : Drifts(b)
  BY SameWs, Resting
<1>3. Calm
  BY <1>2 DEF Calm, Fenced
<1>4. Owned'
  BY DEF Sound, Books, Owned
<1>5. Suspensions'
  BY DEF Sound, Books, Suspensions, Authorised, SameCells, SameCell, Drops
<1>6. Recoveries'
  BY DEF Sound, Books, Transfers, Processes, Recoveries, SameCells, SameCell, Drops
<1> QED BY <1>1, <1>3, <1>4, <1>5, <1>6, CalmIsSound

LEMMA WithdrawStep ==
  ASSUME Typed, Sound, MarkWorkerLost, Markable, transfer.state \in {"prepared", "committed"}
  PROVE  Typed' /\ Sound'
<1> DEFINE k == transfer.cell
<1>0. /\ UNCHANGED <<weather, op, att, susp, call, auth, ws, handler, resumed>>
      /\ recovery.pc = "restored" /\ op.state = "indeterminate" /\ recovery.gen = job.gen + 1
      /\ transfer' = [transfer EXCEPT !.state = IF @ = "committed" THEN "fenced_loss"
                                                ELSE IF @ = "prepared" THEN "aborted" ELSE @]
      /\ outbox' = "consumed"
      /\ cells' = [cells EXCEPT ![k].state = "lost_before_commit"]
      /\ job' = [phase |-> "running", gen |-> recovery.gen, rev |-> 0]
      /\ recovery' = [recovery EXCEPT !.pc = "marked"]
  BY DEF MarkWorkerLost, Markable
<1>1. /\ k \in Open /\ k \in Cell /\ cells[k].gen = job.gen /\ cells[k].pre = Committed
      /\ job.gen \in Nat
  BY RecoveredCell
<1>2. cells[k].state \in {"running", "suspended"}
  BY DEF Sound, Books, Transfers, k
<1>c. \A c \in Open : c = k
  BY <1>1 DEF Sound, Books, Journal, AtBoundary, Open
<1> HIDE DEF k
<1>3. /\ transfer \in TransferRow /\ cells \in [Cell -> CellRow] /\ recovery \in RecoveryRow
  BY DEF Typed, StoreTypes, ProcessTypes
<1>4. /\ transfer' \in TransferRow /\ transfer'.cell = k /\ transfer'.successor = transfer.successor
      /\ transfer'.state = IF transfer.state = "committed" THEN "fenced_loss" ELSE "aborted"
  <2> DEFINE s == IF transfer.state = "committed" THEN "fenced_loss" ELSE "aborted"
  <2>1. transfer' = [transfer EXCEPT !.state = s] /\ s \in {"fenced_loss", "aborted"}
    BY <1>0, <1>3
  <2> HIDE DEF s
  <2>2. transfer' \in TransferRow /\ transfer'.cell = transfer.cell
        /\ transfer'.successor = transfer.successor /\ transfer'.state = s
    BY <1>3, <2>1 DEF TransferRow
  <2> QED BY <2>2 DEF s, k
<1>5. recovery' \in RecoveryRow /\ recovery'.pc = "marked" /\ recovery'.gen = recovery.gen
      /\ recovery.gen \in Nat
  BY <1>0, <1>3 DEF RecoveryRow
<1>6. job' \in JobRow /\ job'.gen = job.gen + 1 /\ job'.rev = 0
  BY <1>0, <1>5 DEF JobRow
<1>7. /\ cells' \in [Cell -> CellRow]
      /\ cells'[k].state = "lost_before_commit" /\ cells'[k].attempt = cells[k].attempt
      /\ cells'[k].gen = cells[k].gen /\ cells'[k].rev = cells[k].rev
      /\ cells'[k].pre = cells[k].pre /\ cells'[k].stage = cells[k].stage
      /\ \A c \in Cell : c # k => cells'[c] = cells[c]
  <2>1. cells'[k] = [cells[k] EXCEPT !.state = "lost_before_commit"]
        /\ \A c \in Cell : c # k => cells'[c] = cells[c]
    BY <1>0, <1>1, <1>3
  <2>2. cells' = [c \in Cell |-> cells'[c]]
    BY <1>0, <1>3
  <2>3. cells[k] \in CellRow
    BY <1>1, <1>3
  <2>4. /\ cells'[k] \in CellRow
        /\ cells'[k].state = "lost_before_commit" /\ cells'[k].attempt = cells[k].attempt
        /\ cells'[k].gen = cells[k].gen /\ cells'[k].rev = cells[k].rev
        /\ cells'[k].pre = cells[k].pre /\ cells'[k].stage = cells[k].stage
    BY <2>1, <2>3 DEF CellRow
  <2> QED BY <1>3, <2>1, <2>2, <2>4
<1>8. Typed'
  BY <1>0, <1>4, <1>5, <1>6, <1>7 DEF Typed, StoreTypes, ProcessTypes, weather
<1>9. CellCount' = CellCount
  BY <1>2, <1>7, SameCount
<1>10. Open' = {} /\ Committed' = Committed
  <2>1. Lost' /\ ~Lost
    BY <1>4 DEF Lost
  <2> QED BY <1>2, <1>4, <1>7, <1>c, <2>1 DEF Open, Committed
<1>11. ws.gen = job'.gen /\ ws.rev = 0 /\ ws.running = 0 /\ ws.stack = 0 /\ ws.names = Committed
  <2>1. recovery.gen # job.gen
    BY <1>0, <1>1
  <2> QED BY <1>0, <1>1, <1>6, <2>1 DEF Sound, Processes, Recoveries, k
<1>12. Owned'
  BY <1>0 DEF Sound, Books, Owned
<1>13. Authorised'
  BY <1>0 DEF Sound, Books, Authorised
<1>14. Suspensions'
  BY <1>0, <1>4 DEF Sound, Books, Suspensions
<1>15. Transfers'
  BY <1>0, <1>1, <1>4, <1>6, <1>7, <1>10, <1>11 DEF Sound, Books, Transfers, Lost
<1>16. Journal'
  <2>1. Numbered'
    BY <1>2, <1>7, <1>9 DEF Sound, Books, Journal, Numbered
  <2>2. ASSUME NEW c \in Cell PROVE Begun(c)' /\ AtBoundary(c)' /\ Staged(c)'
    <3>1. Begun(c) /\ Staged(c) /\ cells[c].gen \in Nat
      BY <1>3 DEF Sound, Books, Journal, CellRow
    <3>2. Begun(c)' /\ Staged(c)'
      <4>1. CASE c = k
        BY <1>0, <1>1, <1>2, <1>6, <1>7, <3>1, <4>1 DEF Begun, Staged
      <4>2. CASE c # k
        BY <1>0, <1>1, <1>6, <1>7, <3>1, <4>2 DEF Begun, Staged
      <4> QED BY <4>1, <4>2
    <3> QED BY <1>10, <3>2 DEF AtBoundary
  <2> QED BY <2>1, <2>2 DEF Journal
<1>17. Handlers'
  <2> SUFFICES ASSUME NEW b \in Attempt PROVE Works(b)' /\ Delivers(b)' /\ StartsClean(b)'
    BY DEF Handlers
  <2>1. Works(b) /\ Delivers(b) /\ ~Fenced(b)
    BY <1>0 DEF Sound, Books, Owned, Processes, Handlers, Fenced
  <2>2. Works(b)'
    BY <1>0, <1>c, <2>1 DEF Works, k
  <2>3. Delivers(b)'
    BY <1>0, <1>1, <1>4, <1>7, <2>1 DEF Delivers, Delivering, k
  <2> QED BY <1>0, <2>1, <2>2, <2>3 DEF StartsClean, Fenced
<1>18. Worker'
  BY <1>0, <1>2, <1>7 DEF Sound, Processes, Worker, Runs
<1>19. Namespace'
  BY <1>0, <1>6, <1>10, <1>11 DEF Namespace, CheckHandle
<1>20. Recoveries'
  BY <1>0, <1>1, <1>4, <1>5, <1>6, <1>7, <1>11 DEF Recoveries
<1>21. Resumed'
  BY <1>0, <1>4 DEF Sound, Processes, Resumed
<1>22. Alone'
  BY <1>4 DEF Alone, Handing
<1> QED BY <1>8, <1>12, <1>13, <1>14, <1>15, <1>16, <1>17, <1>18, <1>19, <1>20, <1>21,
           <1>22
        DEF Sound, Books, Processes

LEMMA MarkWorkerLostStep ==
  ASSUME Typed, Sound, MarkWorkerLost
  PROVE  Typed' /\ Sound'
<1>0. /\ UNCHANGED <<weather, op, att, susp, call, auth, ws, handler, resumed>>
      /\ recovery.pc = "restored"
  BY DEF MarkWorkerLost
<1>1. CASE ~Markable
  <2>1. recovery' = NoRecovery /\ UNCHANGED <<transfer, outbox, cells, job>>
    BY <1>1 DEF MarkWorkerLost
  <2>2. SameCells /\ SameBoundary /\ cells' \in [Cell -> CellRow] /\ job' \in JobRow
    BY <2>1, SameRows, SameJob DEF Typed, StoreTypes
  <2>3. NoRecovery.pc = "idle" /\ NoRecovery \in RecoveryRow
    BY Rows DEF NoRecovery
  <2>4. recovery'.pc = "idle" /\ recovery' \in RecoveryRow /\ transfer' = transfer /\ outbox' = outbox
    BY <2>1, <2>3
  <2> QED BY <1>0, <2>2, <2>4, RecoveryIsCalm
<1>2. CASE Markable /\ transfer.state \in {"prepared", "committed"}
  BY <1>2, WithdrawStep
<1>3. CASE Markable /\ transfer.state \in {"aborted", "fenced_loss"}
  <2> DEFINE k == transfer.cell
  <2>1. /\ transfer' = [transfer EXCEPT !.state = IF @ = "committed" THEN "fenced_loss"
                                                  ELSE IF @ = "prepared" THEN "aborted" ELSE @]
        /\ outbox' = "consumed"
        /\ cells' = [cells EXCEPT ![k].state = "lost_before_commit"]
        /\ job' = [phase |-> "running", gen |-> recovery.gen, rev |-> 0]
        /\ recovery' = [recovery EXCEPT !.pc = "marked"]
        /\ job.gen = recovery.gen /\ job.rev = 0
    BY <1>3 DEF MarkWorkerLost, Markable
  <2>2. k \in Cell /\ cells[k].state = "lost_before_commit"
    BY <1>3 DEF Sound, Books, Transfers, Lost
  <2> HIDE DEF k
  <2>3. /\ transfer \in TransferRow /\ cells \in [Cell -> CellRow] /\ recovery \in RecoveryRow
        /\ job \in JobRow
    BY DEF Typed, StoreTypes, ProcessTypes
  <2>4. transfer' = transfer
    <3>1. transfer' = [transfer EXCEPT !.state = transfer.state]
      BY <1>3, <2>1
    <3> QED BY <2>3, <3>1 DEF TransferRow
  <2>5. cells' \in [Cell -> CellRow] /\ SameCells
    <3>1. cells[k] \in CellRow
      BY <2>2, <2>3
    <3>2. cells'[k] = [cells[k] EXCEPT !.state = cells[k].state]
          /\ \A c \in Cell : c # k => cells'[c] = cells[c]
      BY <2>1, <2>2, <2>3
    <3>3. [cells[k] EXCEPT !.state = cells[k].state] = cells[k]
      BY <3>1 DEF CellRow
    <3>4. \A c \in Cell : cells'[c] = cells[c]
      BY <3>2, <3>3
    <3>5. cells' = [c \in Cell |-> cells'[c]]
      BY <2>1, <2>3
    <3> QED BY <2>3, <3>4, <3>5 DEF SameCells, SameCell
  <2>6. job' \in JobRow /\ SameBoundary
    BY <2>1, <2>3 DEF JobRow, SameBoundary
  <2>7. recovery' \in RecoveryRow /\ recovery'.pc = "marked" /\ recovery'.gen = recovery.gen
    BY <2>1, <2>3 DEF RecoveryRow
  <2> QED BY <1>0, <1>3, <2>1, <2>4, <2>5, <2>6, <2>7, RecoveryIsCalm
<1> QED BY <1>1, <1>2, <1>3 DEF Markable

-----------------------------------------------------------------------------
(* The invariant holds.                                                    *)

LEMMA InitSound ==
  ASSUME Init
  PROVE  Typed /\ Sound
<1>1. Typed
  <2>1. ws \in WorkerRow
    <3>1. \A i \in Nat : [NoWorker EXCEPT !.id = i, !.alive = TRUE, !.gen = 1] \in WorkerRow
      BY Rows DEF WorkerRow
    <3>2. MaxCrashes + 1 \in Nat
      BY RebindAssumption
    <3>3. ws = [NoWorker EXCEPT !.id = MaxCrashes + 1, !.alive = TRUE, !.gen = 1]
      BY DEF Init
    <3> QED BY Zenon, <3>1, <3>2, <3>3
  <2>2. op \in OpRow /\ job \in JobRow
    BY Zeros DEF Init, OpRow, JobRow
  <2>3. att \in [Attempt -> AttemptStates]
    BY DEF Init, AttemptStates
  <2>4. cells \in [Cell -> CellRow] /\ handler \in [Attempt -> HandlerRow]
    BY Rows DEF Init
  <2>5. crashes \in 0..MaxCrashes
    BY RebindAssumption DEF Init
  <2> QED BY <2>1, <2>2, <2>3, <2>4, <2>5, Rows DEF Init, Typed, StoreTypes, ProcessTypes
<1>2. /\ op.state = "accepted" /\ op.attempt = 0
      /\ \A b \in Attempt : att[b] = "none" /\ handler[b].pc = "none" /\ b > 0
      /\ susp = "none" /\ outbox = "none" /\ transfer.state = "none" /\ transfer.successor = 0
      /\ \A c \in Cell : cells[c].state = "none" /\ cells[c].stage = "none"
      /\ auth.attempt = 0 /\ auth.generation = 0 /\ recovery.pc = "idle" /\ resumed = 0
      /\ job.gen = 1 /\ job.rev = 0
  BY DEF Init, NoHandler, NoTransfer, NoCell, NoAuth, NoRecovery, Attempt
<1>3. /\ ws.running = 0 /\ ws.stack = 0 /\ ws.receipt = 0 /\ ws.names = {}
      /\ ws.rev = 0 /\ ws.id # 0
  BY RebindAssumption DEF Init, NoWorker
<1>4. Open = {} /\ Committed = {} /\ CellCount = 0
  <2>1. {c \in Cell : cells[c].state # "none"} = {}
    BY <1>2
  <2> QED BY <1>2, <2>1, FS_EmptySet DEF Open, Committed, CellCount
<1>5. Owned /\ Authorised /\ Suspensions /\ Transfers
  BY <1>2 DEF Owned, Authorised, Suspensions, Transfers, Lost, Terminal
<1>6. Journal
  BY <1>2, <1>4, Zeros DEF Journal, Numbered, Begun, AtBoundary, Staged, Cell
<1>7. Handlers
  BY <1>2 DEF Handlers, Works, Delivers, StartsClean, Working, Delivering, Planned
<1>8. Worker
  BY <1>2, <1>3 DEF Worker, Runs, Running, Cell
<1>9. Namespace
  BY <1>2, <1>3, <1>4 DEF Namespace, CheckHandle
<1>10. Recoveries /\ Resumed /\ Alone
  BY <1>2 DEF Recoveries, Resumed, Alone, Handing
<1> QED BY <1>1, <1>5, <1>6, <1>7, <1>8, <1>9, <1>10 DEF Sound, Books, Processes

LEMMA StutterStep ==
  ASSUME Typed, Sound, UNCHANGED vars
  PROVE  Typed' /\ Sound'
<1>1. /\ UNCHANGED <<weather, op, att, susp, outbox, transfer, auth, recovery, resumed>>
      /\ cells' = cells /\ ws' = ws /\ job' = job /\ call' = call /\ handler' = handler
  BY DEF vars, store
<1>2. SameCells /\ SameWorker /\ SameBoundary /\ \A b \in Attempt : Drifts(b)
  BY <1>1, SameRows, SameWs, SameJob, Resting
<1>3. /\ cells' \in [Cell -> CellRow] /\ ws' \in WorkerRow /\ job' \in JobRow
      /\ handler' \in [Attempt -> HandlerRow] /\ call' \in {"none", "started", "succeeded"}
  BY <1>1 DEF Typed, StoreTypes, ProcessTypes
<1>4. Typed' /\ Quiet
  BY <1>1, <1>2, <1>3, PhaseQuiet
<1> QED BY <1>4, QuietIsSound

LEMMA SoundStep ==
  ASSUME Typed, Sound, [Next]_vars
  PROVE  Typed' /\ Sound'
<1>1. CASE WorkerDies \/ Passes \/ Cancel
  BY <1>1, WeatherQuiet, QuietIsSound
<1>2. CASE HostDies \/ HostStarts \/ Settle \/ Expire
  BY <1>2, HostDiesStep, HostStartsStep, SettleStep, RestStep
<1>3. CASE Restore \/ MarkWorkerLost \/ Requeue \/ Schedule
  BY <1>3, RestoreStep, MarkWorkerLostStep, RestStep
<1>4. ASSUME NEW a \in Attempt, Claim(a) \/ LoseLease(a)
      PROVE  Typed' /\ Sound'
  BY <1>4, ClaimStep, LoseLeaseStep
<1>5. ASSUME NEW a \in Attempt, Rebinding(a)
      PROVE  Typed' /\ Sound'
  <2>1. CASE Begin(a)
    BY <2>1, BeginStep
  <2>2. CASE Reconcile(a) \/ Prepare(a)
    BY <2>2, ReconcileQuiet, PrepareQuiet, QuietIsSound
  <2>3. CASE CommitRebind(a)
    BY <2>3, ReplayQuiet, QuietIsSound, CommitRebindStep
  <2>4. CASE Resume(a) \/ ResumeReturns(a) \/ ResumeLost(a)
    BY <2>4, ResumeStep, ResumeReturnsStep, ResumeLostStep
  <2>5. CASE Acknowledge(a) \/ SettleCell(a) \/ Continue(a)
    BY <2>5, AcknowledgeStep, SettleCellStep, ContinueStep
  <2> QED BY <1>5, <2>1, <2>2, <2>3, <2>4, <2>5 DEF Rebinding
<1>6. ASSUME NEW a \in Attempt, Planning(a)
      PROVE  Typed' /\ Sound'
  <2>1. CASE Plan(a) \/ StageArtifact(a) \/ Finalize(a) \/ Publish(a)
    BY <2>1, PlanQuiet, StageQuiet, FailingQuiet, PublishQuiet, QuietIsSound
  <2>2. CASE Start(a) \/ Suspend(a) \/ Close(a)
    BY <2>2, StartStep, SuspendStep, CloseStep
  <2>3. CASE Execute(a) \/ ExecuteReturns(a) \/ ExecuteLost(a)
    BY <2>3, ExecuteStep, ExecuteReturnsStep, ExecuteLostStep
  <2> QED BY <1>6, <2>1, <2>2, <2>3 DEF Planning
<1>7. ASSUME NEW a \in Attempt, Failing(a)
      PROVE  Typed' /\ Sound'
  <2>1. CASE ParkJob(a) \/ MarkDeadline(a) \/ MarkExhausted(a)
    BY <2>1, FailingQuiet, DeadlineQuiet, QuietIsSound
  <2>2. CASE ParkAttempt(a) \/ Finish(a)
    BY <2>2, EndStep
  <2> QED BY <1>7, <2>1, <2>2 DEF Failing
<1>8. CASE UNCHANGED vars
  BY <1>8, StutterStep
<1> QED BY <1>1, <1>2, <1>3, <1>4, <1>5, <1>6, <1>7, <1>8 DEF Next, Environment, Recovery

\* The journal, the authority, the handlers and the worker stay consistent with one another,
\* whatever leases, workers and hosts are lost: the invariant all the others follow from.
THEOREM HandoverInvariant == Spec => [](Typed /\ Sound)
<1>1. Init => Typed /\ Sound
  BY InitSound
<1>2. Typed /\ Sound /\ [Next]_vars => (Typed /\ Sound)'
  BY SoundStep
<1> QED BY <1>1, <1>2, PTL DEF Spec

-----------------------------------------------------------------------------
(* What follows.                                                           *)

\* Every row of the workbench tables, the worker's state and the handlers keep their types: no
\* phase, cell state or program point outside those the code knows is ever written.
THEOREM RebindTypes == Spec => []RebindTypeOK
<1>1. Typed => RebindTypeOK
  BY DEF Typed, StoreTypes, ProcessTypes, RebindTypeOK, OpRow, AttemptStates, JobRow, TransferRow,
         CellRow, AuthRow, WorkerRow, HandlerRow, Points, RecoveryRow
<1> QED BY <1>1, HandoverInvariant, PTL

\* The settled answer reaches the suspended stack at most once (resume_rebind_commit), never
\* under a transfer that was withdrawn (mark_workbench_rebind_worker_lost), and a process in
\* which the given-up stack still lives is never left running.
THEOREM ResumedOnce == Spec => []OneResumption
<1>1. Typed /\ Sound => OneResumption
  <2> SUFFICES ASSUME Typed, Sound PROVE OneResumption
    OBVIOUS
  <2>1. resumed <= 1 /\ (resumed = 1 => transfer.state \notin {"none", "prepared", "aborted"})
    BY DEF Sound, Processes, Resumed
  <2>2. ASSUME Lost, ws.alive, transfer.cell \in {ws.stack, ws.receipt} PROVE FALSE
    <3>1. /\ transfer.cell \in Cell
          /\ ws.id = 0 \/ ws.gen > cells[transfer.cell].gen
      BY <2>2 DEF Sound, Books, Transfers, Lost
    <3>2. ws.id # 0 /\ cells[transfer.cell].gen = ws.gen
      BY <2>2, <3>1 DEF Sound, Processes, Worker
    <3>3. ws.gen \in Nat
      BY DEF Typed, ProcessTypes, WorkerRow
    <3> QED BY <3>1, <3>2, <3>3
  <2> QED BY <2>1, <2>2 DEF OneResumption, Lost
<1> QED BY <1>1, HandoverInvariant, PTL

\* At the boundary the job records, with no cell open, the live namespace holds the effects of
\* the committed cells and of no other, and only their artifacts are visible: what a lost cell
\* did, even by a handler without a lease, is gone, and no restore undoes a commit.
THEOREM WorkspaceIsJournal == Spec => []WorkspaceMatchesJournal
<1>1. Typed /\ Sound => WorkspaceMatchesJournal
  <2> SUFFICES ASSUME Typed, Sound PROVE WorkspaceMatchesJournal
    OBVIOUS
  <2>1. ASSUME Available, Unlocked, CheckHandle(job.gen, job.rev),
               \A c \in Cell : cells[c].state \notin {"running", "suspended"}
        PROVE  ws.names = Committed
    <3>1. ASSUME ws.stack # 0 PROVE FALSE
      <4>1. ws.stack \in Open
        BY <2>1, <3>1 DEF Sound, Processes, Namespace
      <4>2. cells[ws.stack].state = "lost_before_commit" /\ ~(Lost /\ ws.stack = transfer.cell)
        BY <2>1, <4>1 DEF Open
      <4>3. transfer.state # "none" /\ ws.stack = transfer.cell
        BY <2>1, <3>1, <4>2 DEF Sound, Processes, Namespace
      <4>4. transfer.state \in {"prepared", "committed", "worker_ack"}
        BY <4>2, <4>3 DEF Lost, Typed, StoreTypes, TransferRow
      <4> QED BY <4>2, <4>3, <4>4 DEF Sound, Books, Transfers
    <3> QED BY <2>1, <3>1 DEF Sound, Processes, Namespace, Unlocked
  <2>2. ASSUME NEW c \in Cell, cells[c].stage \in {"committed", "published"}
        PROVE  c \in Committed
    BY <2>2 DEF Sound, Books, Journal, Staged, Committed
  <2> QED BY <2>1, <2>2 DEF WorkspaceMatchesJournal
<1> QED BY <1>1, HandoverInvariant, PTL

\* The attempt that had the authority no longer runs when another one takes it.
LEMMA Predecessor ==
  ASSUME Typed, Sound, NEW a \in Attempt, Fenced(a), auth.attempt \notin {0, a}
  PROVE  att[auth.attempt] \in {"suspended_external", "indeterminate"}
<1>1. op.state = "running" /\ op.attempt = a
  BY FencedIsLatest
<1>2. auth.attempt \in Attempt /\ ~(auth.attempt > a)
  BY <1>1, RebindAssumption DEF Typed, StoreTypes, AuthRow, Sound, Books, Authorised, Attempt
<1>3. att[auth.attempt] \in AttemptStates
  BY <1>2 DEF Typed, StoreTypes
<1> QED BY <1>1, <1>2, <1>3 DEF Sound, Books, Owned, AttemptStates, Terminal

LEMMA AuthorityStep ==
  ASSUME Typed, Sound, [Next]_vars, auth'.attempt # auth.attempt
  PROVE  /\ auth'.generation = auth.generation + 1
         /\ auth.attempt # 0 => att[auth.attempt] \in {"suspended_external", "indeterminate"}
         /\ att[auth'.attempt] = "running"
<1>0. auth = [f \in DOMAIN auth |-> auth[f]]
      /\ DOMAIN auth = {"attempt", "generation", "worker", "cell", "token"}
  BY DEF Typed, StoreTypes, AuthRow
<1>1. ASSUME NEW a \in Attempt, Fenced(a), auth'.attempt = a,
             auth'.generation = auth.generation + 1
      PROVE  /\ auth.attempt # 0 => att[auth.attempt] \in {"suspended_external", "indeterminate"}
             /\ att[auth'.attempt] = "running"
  BY <1>1, Predecessor, FencedIsLatest
<1>2. ASSUME NEW a \in Attempt, CommitRebind(a)
      PROVE  Fenced(a) /\ auth'.attempt = a /\ auth'.generation = auth.generation + 1
  BY <1>0, <1>2 DEF CommitRebind, Committable
<1>3. ASSUME NEW a \in Attempt, Continue(a)
      PROVE  Fenced(a) /\ auth'.attempt = a /\ auth'.generation = auth.generation + 1
  BY <1>0, <1>3 DEF Continue, Bindable
<1>4. ASSUME NEW a \in Attempt, Start(a)
      PROVE  Fenced(a) /\ auth'.attempt = a /\ auth'.generation = auth.generation + 1
  <2>1. /\ Fenced(a) /\ auth.attempt \in {0, a}
        /\ auth' = [auth EXCEPT !.attempt = a, !.generation = IF @ = 0 THEN 1 ELSE @,
                               !.worker = ws.id, !.cell = CellCount + 1]
    BY <1>4 DEF Start
  <2>2. auth'.attempt = a /\ auth'.generation = IF auth.generation = 0 THEN 1 ELSE auth.generation
    BY <1>0, <2>1
  <2>3. auth.attempt = 0 /\ auth.generation = 0
    BY <2>1, <2>2 DEF Sound, Books, Authorised
  <2> QED BY <2>1, <2>2, <2>3
<1>5. ASSUME NEW a \in Attempt,
             Claim(a) \/ LoseLease(a) \/ Rebinding(a) \/ Planning(a) \/ Failing(a)
      PROVE  CommitRebind(a) \/ Continue(a) \/ Start(a)
  <2>1. ~(Claim(a) \/ LoseLease(a) \/ Failing(a))
    BY DEF Claim, LoseLease, Failing, ParkJob, ParkAttempt, MarkDeadline, MarkExhausted, Finish
  <2>2. Rebinding(a) => CommitRebind(a) \/ Continue(a)
    BY DEF Rebinding, Begin, Reconcile, Prepare, Resume, ResumeReturns, ResumeLost, Acknowledge,
           SettleCell, store
  <2>3. Planning(a) => Start(a)
    BY DEF Planning, Plan, Execute, ExecuteReturns, ExecuteLost, StageArtifact, Suspend, Close,
           Finalize, Publish, store
  <2> QED BY <1>5, <2>1, <2>2, <2>3
<1>6. ~(Environment \/ Recovery \/ UNCHANGED vars)
  BY DEF Environment, WorkerDies, HostDies, HostStarts, Settle, Expire, Passes, Cancel,
         Recovery, Restore, MarkWorkerLost, Requeue, Schedule, vars, store
<1>7. PICK a \in Attempt : CommitRebind(a) \/ Continue(a) \/ Start(a)
  BY <1>5, <1>6 DEF Next
<1> QED BY <1>1, <1>2, <1>3, <1>4, <1>7

\* The authority over the workspace passes on only from an attempt that stopped, one generation
\* up, and to the attempt that holds the lease (commit_workbench_rebind,
\* bind_workbench_recovery_authority and the first cell).
THEOREM AuthorityPasses == Spec => AuthorityMovesOn
<1>1. Typed /\ Sound /\ [Next]_vars =>
        [auth'.attempt # auth.attempt =>
           /\ auth'.generation = auth.generation + 1
           /\ auth.attempt # 0 => att[auth.attempt] \in {"suspended_external", "indeterminate"}
           /\ att[auth'.attempt] = "running"]_vars
  BY AuthorityStep
<1> QED BY <1>1, HandoverInvariant, PTL DEF Spec, AuthorityMovesOn
=============================================================================
