----------------------- MODULE ProgramWorkspaceProofs -----------------------
(***************************************************************************)
(* Workspaces, for any number of successors, client calls, checkpoints and *)
(* crashes.                                                                *)
(*                                                                         *)
(* The argument.  A handle <<generation, revision>> never names a second   *)
(* namespace as long as no workspace is built anew: every change of the    *)
(* namespace moves the handle on.  So the handle a program was submitted   *)
(* for, and a checkpoint of that exact handle, name the namespace it was   *)
(* submitted for; and so does the first handle of the next generation, as  *)
(* soon as a restore into it was verified.                                 *)
(***************************************************************************)
EXTENDS ProgramWorkspace, WellFoundedInduction, TLAPS

-----------------------------------------------------------------------------
(* The mutation workspace.                                                 *)

MutationStates == Terminal \cup {"none", "accepted", "running", "indeterminate"}

\* The receipt is there exactly when the change is, and an operation that has
\* not begun, or that was refused, has none.
Receipted ==
  /\ mutation \in [state : MutationStates, applied : {0, 1}, receipt : BOOLEAN]
  /\ mutation.applied = IF mutation.receipt THEN 1 ELSE 0
  /\ mutation.state \in {"none", "accepted", "failed", "timed_out"} => ~mutation.receipt
  /\ mutation.state = "succeeded" => mutation.receipt
  /\ mutation.state # "cancelled"

LEMMA MutationMoves ==
  ASSUME [Next]_vars
  PROVE  mutation' = mutation \/ Mutation \/ HostStarts
<1>1. CASE UNCHANGED vars
  BY <1>1 DEF vars
<1>2. CASE Tools
  BY <1>2 DEF Tools, Create, ExecuteTool, ExecuteToolEnds, Interrupt, TakeCheckpoint,
              PublishCheckpoint, RestoreTool, CloseTool, Health
<1>3. CASE Recovery
  BY <1>3 DEF Recovery, GiveUp, Select, Restore, Verify, Mark, Retire, Admit, Abandon
<1>4. ASSUME NEW a \in Attempt, Handler(a)
      PROVE  mutation' = mutation
  BY <1>4 DEF Handler, Claim, Begin, Execute, RunEnds, Commit, Park, Lapse
<1>5. CASE Submit \/ BindPolicy \/ Passes \/ Cancel \/ WorkerDies \/ HostDies
  BY <1>5 DEF Submit, BindPolicy, Passes, Cancel, WorkerDies, HostDies
<1> QED
  BY <1>1, <1>2, <1>3, <1>4, <1>5 DEF Next

LEMMA ReceiptedStep == Receipted /\ [Next]_vars => Receipted'
<1> SUFFICES ASSUME Receipted, [Next]_vars PROVE Receipted'
  OBVIOUS
<1>1. CASE mutation' = mutation
  BY <1>1 DEF Receipted
<1>2. CASE SubmitMutation \/ BeginMutation \/ Reject \/ FinishMutation
  BY <1>2 DEF SubmitMutation, BeginMutation, Reject, FinishMutation, Receipted, MutationStates,
              Terminal
<1>3. CASE Apply
  <2>1. mutation.applied + 1 = 1
    BY <1>3 DEF Apply, Receipted
  <2>2. mutation' = [mutation EXCEPT !.applied = 1, !.receipt = TRUE]
    BY <1>3, <2>1 DEF Apply
  <2> QED
    BY <1>3, <2>2 DEF Apply, Receipted, MutationStates, Terminal
<1>4. CASE ReconcileMutation \/ HostStarts
  BY <1>4 DEF ReconcileMutation, HostStarts, Receipted, MutationStates, Terminal
<1> QED
  BY <1>1, <1>2, <1>3, <1>4, MutationMoves DEF Mutation

\* A mutation is settled as its receipt says, over crashes between the commit
\* of the workspace and that of the registry, and it is never applied twice.
THEOREM MutationIsSettledOnce == Spec => []SettledByReceipt
<1>1. Init => Receipted
  BY DEF Init, Receipted, MutationStates, Terminal
<1>2. Receipted => SettledByReceipt
  BY DEF Receipted, SettledByReceipt
<1> QED
  BY <1>1, <1>2, ReceiptedStep, PTL DEF Spec

-----------------------------------------------------------------------------
(* Types.                                                                  *)

Namespace == [self : Nat, other : Nat, cut : BOOLEAN]
WorkerRow == [present : BOOLEAN, alive : BOOLEAN, lost : BOOLEAN, closed : BOOLEAN, gen : Nat,
              rev : Nat, ns : Namespace, running : {"none", "self", "other"}, stop : BOOLEAN]
\* only a workspace the backend knows runs anything, and it has a generation
Located(u) == (u.running # "none" => u.present) /\ (u.present => u.gen > 0)

ManifestRow == [id : Nat, gen : Nat, rev : Nat, ns : Namespace, partial : BOOLEAN]
OpRow == [state : MutationStates, dispatch : {"none", "queued", "running", "parked", "completed"},
          attempt : 0..(MaxSuccessors + 1), gen : Nat, rev : Nat, ns : Namespace]
SelectionRow == [state : {"none", "selected", "restored"}, id : Nat, gen : Nat]
Statuses == {"none", "succeeded", "failed", "timed_out", "interrupted", "lost"}
HandlerRow == [pc : {"none", "begin", "execute", "run", "commit", "park", "done"},
               gen : Nat, rev : Nat, status : Statuses]
RecoveryRow == [pc : {"idle", "restore", "verify", "mark", "retire", "admit", "failed"}, gen : Nat]
ReceiptRow == [status : Statuses, lost : BOOLEAN, gen : Nat, rev : Nat]

Shapes ==
  /\ backend \in {"ipython", "plain", "deterministic"} /\ renewed \in BOOLEAN /\ safe \in BOOLEAN
  /\ ws \in WorkerRow /\ Located(ws)
  /\ catalog \in Seq(ManifestRow) /\ capture \in ManifestRow
  /\ op \in OpRow
  /\ selection \in [Attempt -> SelectionRow] /\ boundary \in [Attempt -> Nat]
  /\ receipt \in ReceiptRow
  /\ handler \in [Attempt -> HandlerRow] /\ recovery \in RecoveryRow
  /\ runs \in [Attempt -> SUBSET Namespace]

-----------------------------------------------------------------------------
(* The books: what the registry, the handlers and the recovery pass say of *)
(* each other.                                                             *)

\* a complete checkpoint of the very handle the program was submitted for
Good(k) ==
  /\ k \in 1..Len(catalog)
  /\ catalog[k].gen = op.gen /\ catalog[k].rev = op.rev /\ ~catalog[k].partial

SomeBoundary == \E a \in Attempt : boundary[a] # 0

Numbered ==
  /\ \A k \in 1..Len(catalog) : catalog[k].id = k
  /\ capture # NoManifest => capture.id = Len(catalog) + 1

Unsubmitted ==
  /\ op.state = "none" =>
       /\ op.attempt = 0 /\ recovery.pc = "idle"
       /\ \A a \in Attempt : /\ handler[a].pc = "none" /\ runs[a] = {}
                             /\ boundary[a] = 0 /\ selection[a].state = "none"
  /\ op.attempt = 0 => op.state \in {"none", "accepted", "cancelled"}

Recovering ==
  /\ recovery.pc # "idle" => op.attempt # 0
  /\ recovery.pc \notin {"idle", "failed"} => selection[op.attempt].state # "none"
  /\ recovery.pc \in {"verify", "mark", "retire", "admit"} => recovery.gen = op.gen + 1

Selections == \A a \in Attempt : selection[a].state # "none" => Good(selection[a].id)

Boundaries == \A a \in Attempt : boundary[a] \in {0, op.gen + 1}

\* the handle a handler goes on with: the payload's, or that of a boundary
Begun(row) ==
  row.pc = "execute" => \/ row.gen = op.gen /\ row.rev = op.rev
                        \/ row.gen = op.gen + 1 /\ row.rev = 0 /\ SomeBoundary

Beginnings ==
  \A a \in Attempt :
    /\ handler[a].pc = "begin" /\ a > 1 => boundary[a - 1] # 0
    /\ Begun(handler[a])

\* a result to commit, and a receipt, have a status
Answered ==
  /\ \A a \in Attempt : handler[a].pc = "commit" => handler[a].status # "none"
  /\ receipt # NoReceipt => receipt.status # "none"

Books ==
  /\ Numbered /\ Unsubmitted /\ Recovering /\ Selections /\ Boundaries /\ Beginnings /\ Answered
  /\ ClaimNeverBlocked

-----------------------------------------------------------------------------
(* What a step may do.                                                     *)

\* a workspace moves on when it is gone, or its handle is higher, or nothing
\* that the handle names has changed
MovesOn(u) ==
  \/ ~u.present
  \/ /\ ws.present
     /\ \/ u.gen > ws.gen
        \/ u.gen = ws.gen /\ (u.rev > ws.rev \/ (u.rev = ws.rev /\ u.ns = ws.ns))

Advances ==
  ws' \in WorkerRow /\ Located(ws') /\ ((MovesOn(ws') /\ renewed' = renewed) \/ renewed')

\* the program stays what it is; nothing is queued but by an admission
SameProgram ==
  /\ op' \in OpRow
  /\ op'.gen = op.gen /\ op'.rev = op.rev /\ op'.ns = op.ns
  /\ op'.state = "none" <=> op.state = "none"

Idles ==
  /\ SameProgram /\ op'.attempt = op.attempt
  /\ op'.dispatch = "queued" => op.dispatch = "queued"
  /\ op'.state # op.state => op'.state = "cancelled" \/ op.attempt # 0

RowsStay == UNCHANGED <<catalog, capture, selection, boundary, runs>>
WorkspaceStays == UNCHANGED <<ws, renewed>>

LEMMA WorkerRows ==
  ASSUME NEW gen \in Nat, NEW ns \in Namespace
  PROVE  /\ Worker(gen, ns) \in WorkerRow /\ (gen > 0 => Located(Worker(gen, ns)))
         /\ Worker(gen, ns).present /\ Worker(gen, ns).gen = gen
         /\ Worker(gen, ns).rev = 0 /\ Worker(gen, ns).ns = ns
BY DEF Worker, NoWorker, WorkerRow, Namespace, Located

LEMMA NoRows ==
  /\ NoWorker \in WorkerRow /\ ~NoWorker.present /\ Located(NoWorker)
  /\ NoManifest \in ManifestRow /\ NoHandler \in HandlerRow /\ NoReceipt \in ReceiptRow
  /\ Empty \in Namespace
BY DEF NoWorker, NoManifest, NoHandler, NoReceipt, Empty, WorkerRow, ManifestRow, HandlerRow,
       ReceiptRow, Namespace, Statuses, Located

\* one execution more, or one that was lost, moves the revision
LEMMA GrownNamespaces ==
  ASSUME NEW ns \in Namespace, NEW o
  PROVE  Grown(ns, o) \in Namespace
<1>1. ns.self + 1 \in Nat /\ ns.other + 1 \in Nat
  BY DEF Namespace
<1> QED
  BY <1>1 DEF Namespace, Grown

LEMMA RunRows ==
  ASSUME ws \in WorkerRow, Located(ws), ws.present
  PROVE  /\ Lost \in WorkerRow /\ MovesOn(Lost) /\ Located(Lost)
         /\ \A o \in {"self", "other"} : Ran(o) \in WorkerRow /\ MovesOn(Ran(o)) /\ Located(Ran(o))
<1>1. ws.rev + 1 \in Nat /\ ws.rev + 1 > ws.rev
  BY DEF WorkerRow
<1>2. /\ Lost \in WorkerRow /\ Lost.gen = ws.gen /\ Lost.rev = ws.rev + 1
      /\ Lost.present = ws.present
  BY <1>1 DEF Lost, WorkerRow
<1>3. ASSUME NEW o \in {"self", "other"}
      PROVE  /\ Ran(o) \in WorkerRow /\ Ran(o).gen = ws.gen /\ Ran(o).rev = ws.rev + 1
             /\ Ran(o).present = ws.present
  <2>1. Grown(ws.ns, o) \in Namespace
    BY GrownNamespaces DEF WorkerRow
  <2> QED
    BY <1>1, <2>1 DEF Ran, WorkerRow
<1> QED
  BY <1>1, <1>2, <1>3 DEF MovesOn, Located

\* the flags of a worker may change without its handle or its namespace
LEMMA FlagRows ==
  ASSUME ws \in WorkerRow, NEW u \in WorkerRow, u.present = ws.present,
         u.gen = ws.gen, u.rev = ws.rev, u.ns = ws.ns
  PROVE  MovesOn(u)
BY DEF MovesOn

\* the client's tools and the deaths of workers
Clients ==
  WorkerDies \/ Health \/ Create \/ ExecuteTool \/ ExecuteToolEnds \/ Interrupt \/ RestoreTool
    \/ CloseTool

LEMMA ClientMoves ==
  ASSUME Shapes, Clients
  PROVE  /\ Advances /\ RowsStay /\ op' = op
         /\ UNCHANGED <<backend, safe, handler, recovery, receipt>>
<1>0. /\ ws \in WorkerRow /\ Located(ws) /\ renewed \in BOOLEAN
      /\ catalog \in Seq(ManifestRow)
  BY DEF Shapes
<1>1. CASE WorkerDies \/ Health \/ ExecuteTool \/ Interrupt \/ CloseTool
  <2>1. UNCHANGED <<registry, backend, safe, renewed, capture, handler, recovery, receipt, runs>>
    BY <1>1 DEF WorkerDies, Health, ExecuteTool, Interrupt, CloseTool, Uses, weather
  <2>2. ws' \in WorkerRow /\ ws'.present = ws.present /\ ws'.gen = ws.gen /\ ws'.rev = ws.rev
        /\ ws'.ns = ws.ns
    BY <1>0, <1>1 DEF WorkerDies, Health, ExecuteTool, Interrupt, CloseTool, Stopped, Closed,
                      WorkerRow
  <2>3. Located(ws')
    BY <1>0, <1>1, <2>2
    DEF WorkerDies, Health, ExecuteTool, Interrupt, CloseTool, Stopped, Closed,
                      WorkerRow, Located, Available
  <2> QED
    BY <1>0, <2>1, <2>3, <2>2, FlagRows DEF Advances, RowsStay, registry
<1>2. CASE ExecuteToolEnds
  <2>1. ws' = Ran("other") \/ ws' = Lost
    BY <1>2 DEF ExecuteToolEnds
  <2>2. ws.present
    BY <1>0, <1>2 DEF ExecuteToolEnds, Located
  <2>3. ws' \in WorkerRow /\ MovesOn(ws') /\ Located(ws')
    BY <1>0, <2>1, <2>2, RunRows
  <2> QED
    BY <1>2, <2>3 DEF ExecuteToolEnds, Advances, RowsStay, registry, weather
<1>3. CASE Create
  BY <1>3, WorkerRows, NoRows DEF Create, Uses, Advances, RowsStay, registry
<1>4. CASE RestoreTool
  <2>1. PICK k \in 1..Len(catalog) :
          ws' = Worker(IF ws.present THEN ws.gen + 1 ELSE 1, catalog[k].ns)
    BY <1>4 DEF RestoreTool
  <2>2. catalog[k].ns \in Namespace /\ ws.gen \in Nat
    <3>1. catalog[k] \in ManifestRow
      BY <1>0
    <3> QED
      BY <1>0, <3>1 DEF ManifestRow, WorkerRow
  <2>3. CASE ws.present
    <3>1. ws' = Worker(ws.gen + 1, catalog[k].ns)
      BY <2>1, <2>3
    <3>2. ws' \in WorkerRow /\ ws'.gen = ws.gen + 1 /\ Located(ws')
      <4>1. ws.gen + 1 \in Nat /\ ws.gen + 1 > 0
        BY <2>2
      <4> QED
        BY <2>2, <3>1, <4>1, WorkerRows
    <3>3. MovesOn(ws') /\ renewed' = renewed
      BY <1>0, <1>4, <2>2, <2>3, <3>2 DEF RestoreTool, MovesOn
    <3> QED
      BY <1>4, <3>2, <3>3 DEF RestoreTool, Uses, Advances, RowsStay, registry
  <2>4. CASE ~ws.present
    <3>1. ws' = Worker(1, catalog[k].ns)
      BY <2>1, <2>4
    <3>2. ws' \in WorkerRow /\ Located(ws')
      BY <2>2, <3>1, WorkerRows
    <3> QED
      BY <1>4, <2>4, <3>2 DEF RestoreTool, Uses, Advances, RowsStay, registry
  <2> QED
    BY <2>3, <2>4
<1> QED
  BY <1>1, <1>2, <1>3, <1>4 DEF Clients

\* the registry's own steps, the clock and the mutation workspace
Registers ==
  \/ UNCHANGED vars \/ BindPolicy \/ Passes \/ Cancel \/ HostStarts \/ GiveUp \/ Mutation
  \/ \E a \in Attempt : Lapse(a)

LEMMA OpRows ==
  ASSUME op \in OpRow, NEW state \in MutationStates,
         NEW dispatch \in {"none", "queued", "running", "parked", "completed"},
         op' = [op EXCEPT !.state = state, !.dispatch = dispatch]
  PROVE  /\ op' \in OpRow /\ op'.state = state /\ op'.dispatch = dispatch
         /\ op'.gen = op.gen /\ op'.rev = op.rev /\ op'.ns = op.ns /\ op'.attempt = op.attempt
BY DEF OpRow

LEMMA OpFields ==
  ASSUME op \in OpRow
  PROVE  /\ op.state \in MutationStates
         /\ op.dispatch \in {"none", "queued", "running", "parked", "completed"}
         /\ op.attempt \in Nat
BY WorkspaceAssumption DEF OpRow

LEMMA RegistryMoves ==
  ASSUME Shapes, Books, Registers
  PROVE  /\ Idles /\ RowsStay /\ WorkspaceStays
         /\ UNCHANGED <<backend, safe, handler, recovery, receipt>>
<1>0. op \in OpRow
  BY DEF Shapes
<1>1. CASE UNCHANGED vars \/ BindPolicy \/ Passes \/ Mutation
  BY <1>0, <1>1
  DEF vars, BindPolicy, Passes, Mutation, SubmitMutation, BeginMutation, Apply, Reject,
      FinishMutation, ReconcileMutation, weather, registry, Idles, SameProgram, RowsStay,
      WorkspaceStays
<1>2. CASE Cancel
  <2>1. \/ op' = op
        \/ op' = [op EXCEPT !.state = "cancelled", !.dispatch = "completed"] /\ op.state # "none"
    BY <1>2 DEF Cancel
  <2>2. Idles
    <3>1. CASE op' = op
      BY <1>0, <3>1 DEF Idles, SameProgram
    <3>2. CASE op' = [op EXCEPT !.state = "cancelled", !.dispatch = "completed"]
      BY <1>0, <2>1, <3>2, OpRows DEF Idles, SameProgram, MutationStates, Terminal
    <3> QED
      BY <2>1, <3>1, <3>2
  <2> QED
    BY <1>2, <2>2 DEF Cancel, RowsStay, WorkspaceStays
<1>3. CASE HostStarts
  <2>1. \/ op' = op
        \/ op' = [op EXCEPT !.state = "indeterminate"] /\ op.state = "running"
    BY <1>3 DEF HostStarts
  <2>2. op.state = "running" => op.attempt # 0
    BY DEF Books, Unsubmitted
  <2>3. Idles
    <3>1. CASE op' = op
      BY <1>0, <3>1 DEF Idles, SameProgram
    <3>2. CASE op' = [op EXCEPT !.state = "indeterminate"]
      <4>1. op' = [op EXCEPT !.state = "indeterminate", !.dispatch = op.dispatch]
        BY <1>0, <3>2 DEF OpRow
      <4> QED
        BY <1>0, <2>1, <2>2, <3>2, <4>1, OpRows, OpFields
        DEF Idles, SameProgram, MutationStates, OpRow
    <3> QED
      BY <2>1, <3>1, <3>2
  <2> QED
    BY <1>3, <2>3 DEF HostStarts, RowsStay, WorkspaceStays
<1>4. CASE GiveUp
  <2>1. op' = [op EXCEPT !.dispatch = "parked"]
    BY <1>4 DEF GiveUp, Refuse
  <2>2. Idles
    <3>1. op' = [op EXCEPT !.state = op.state, !.dispatch = "parked"]
      BY <1>0, <2>1 DEF OpRow
    <3> QED
      BY <1>0, <3>1, OpRows, OpFields DEF Idles, SameProgram
  <2> QED
    BY <1>4, <2>2 DEF GiveUp, RowsStay, WorkspaceStays, weather
<1>5. ASSUME NEW a \in Attempt, Lapse(a)
      PROVE  /\ Idles /\ RowsStay /\ WorkspaceStays
             /\ UNCHANGED <<backend, safe, handler, recovery, receipt>>
  <2>1. op' = [op EXCEPT !.state = "indeterminate"] /\ op.attempt # 0
    BY <1>5 DEF Lapse, Fenced, Attempt
  <2>2. op.state # "none"
    BY <2>1 DEF Books, Unsubmitted
  <2>3. Idles
    <3>1. op' = [op EXCEPT !.state = "indeterminate", !.dispatch = op.dispatch]
      BY <1>0, <2>1 DEF OpRow
    <3> QED
      BY <1>0, <2>1, <2>2, <3>1, OpRows, OpFields DEF Idles, SameProgram, MutationStates
  <2> QED
    BY <1>5, <2>3 DEF Lapse, RowsStay, WorkspaceStays, weather
<1> QED
  BY <1>1, <1>2, <1>3, <1>4, <1>5 DEF Registers

-----------------------------------------------------------------------------
(* Types and books are kept.                                               *)

LEMMA IdlesBooks ==
  ASSUME Shapes, Books, Idles, RowsStay, UNCHANGED <<handler, recovery, receipt>>
  PROVE  Books'
<1>1. Numbered' /\ Recovering' /\ Boundaries' /\ Beginnings' /\ Answered'
  BY DEF Books, Idles, SameProgram, RowsStay, Numbered, Recovering, Boundaries, Beginnings, Begun,
         SomeBoundary, Answered
<1>2. Selections'
  BY DEF Books, Idles, SameProgram, RowsStay, Selections, Good
<1>3. Unsubmitted' /\ ClaimNeverBlocked'
  BY DEF Books, Idles, SameProgram, RowsStay, Unsubmitted, ClaimNeverBlocked
<1> QED
  BY <1>1, <1>2, <1>3 DEF Books

LEMMA ClientsBooks ==
  ASSUME Shapes, Books, Clients
  PROVE  Shapes' /\ Books'
<1>1. /\ Advances /\ RowsStay /\ op' = op
      /\ UNCHANGED <<backend, safe, handler, recovery, receipt>>
  BY ClientMoves
<1>2. Idles
  BY <1>1 DEF Idles, SameProgram, Shapes
<1>3. Shapes'
  BY <1>1 DEF Shapes, Advances, RowsStay
<1> QED
  BY <1>1, <1>2, <1>3, IdlesBooks

LEMMA RegistersBooks ==
  ASSUME Shapes, Books, Registers
  PROVE  Shapes' /\ Books'
<1>1. /\ Idles /\ RowsStay /\ WorkspaceStays
      /\ UNCHANGED <<backend, safe, handler, recovery, receipt>>
  BY RegistryMoves
<1>2. Shapes'
  BY <1>1 DEF Shapes, Idles, SameProgram, RowsStay, WorkspaceStays
<1> QED
  BY <1>1, <1>2, IdlesBooks

LEMMA CapturesBooks ==
  ASSUME Shapes, Books, TakeCheckpoint \/ PublishCheckpoint
  PROVE  Shapes' /\ Books'
<1>0. /\ catalog \in Seq(ManifestRow) /\ capture \in ManifestRow /\ ws \in WorkerRow
      /\ Len(catalog) \in Nat
  BY DEF Shapes
<1>1. UNCHANGED <<backend, safe, renewed, ws, op, selection, boundary, receipt, handler, recovery,
                  runs>>
  BY DEF TakeCheckpoint, PublishCheckpoint, weather, registry
<1>2. /\ catalog' \in Seq(ManifestRow) /\ capture' \in ManifestRow
      /\ \A k \in 1..Len(catalog) : k \in 1..Len(catalog') /\ catalog'[k] = catalog[k]
      /\ Numbered'
  <2>1. CASE TakeCheckpoint
    <3>1. PICK partial \in BOOLEAN : capture' = Manifest(partial)
      BY <2>1 DEF TakeCheckpoint
    <3>2. catalog' = catalog
      BY <2>1 DEF TakeCheckpoint, registry
    <3>3. [ws.ns EXCEPT !.cut = ws.ns.cut \/ partial] \in Namespace
      BY <1>0 DEF WorkerRow, Namespace
    <3>4. capture' \in ManifestRow /\ capture'.id = Len(catalog) + 1
      BY <1>0, <3>1, <3>3 DEF Manifest, ManifestRow, WorkerRow
    <3> QED
      BY <1>0, <3>2, <3>4 DEF Books, Numbered
  <2>2. CASE PublishCheckpoint
    <3>1. catalog' = Append(catalog, capture) /\ capture' = NoManifest /\ capture # NoManifest
      BY <2>2 DEF PublishCheckpoint
    <3>2. capture.id = Len(catalog) + 1
      BY <3>1 DEF Books, Numbered
    <3>3. /\ Len(catalog') = Len(catalog) + 1
          /\ \A k \in 1..Len(catalog) : catalog'[k] = catalog[k]
          /\ catalog'[Len(catalog) + 1] = capture
      BY <1>0, <3>1
    <3> QED
      BY <1>0, <3>1, <3>2, <3>3, NoRows DEF Books, Numbered
  <2> QED
    BY <2>1, <2>2
<1>3. Shapes'
  BY <1>1, <1>2 DEF Shapes
<1>4. /\ Unsubmitted' /\ Recovering' /\ Boundaries' /\ Beginnings' /\ Answered'
      /\ ClaimNeverBlocked'
  BY <1>1
  DEF Books, Unsubmitted, Recovering, Boundaries, Beginnings, Begun, SomeBoundary, Answered,
              ClaimNeverBlocked
<1>5. Selections'
  BY <1>1, <1>2 DEF Books, Selections, Good
<1> QED
  BY <1>2, <1>3, <1>4, <1>5 DEF Books

LEMMA SubmitBooks ==
  ASSUME Shapes, Books, Submit
  PROVE  Shapes' /\ Books'
<1>1. /\ UNCHANGED <<backend, safe, renewed, ws, catalog, capture, selection, boundary, receipt,
                     handler, recovery, runs>>
      /\ op.state = "none"
      /\ op' = [state |-> "accepted", dispatch |-> "queued", attempt |-> 0,
                gen |-> ws.gen, rev |-> ws.rev, ns |-> ws.ns]
  BY DEF Submit, weather
<1>2. op' \in OpRow
  BY <1>1, WorkspaceAssumption DEF Shapes, WorkerRow, OpRow, MutationStates
<1>3. Shapes'
  BY <1>1, <1>2 DEF Shapes
<1>4. Numbered' /\ Unsubmitted' /\ Recovering' /\ Selections' /\ Boundaries' /\ ClaimNeverBlocked'
  BY <1>1 DEF Books, Numbered, Unsubmitted, Recovering, Selections, Boundaries, ClaimNeverBlocked
<1>5. Beginnings' /\ Answered'
  BY <1>1 DEF Books, Unsubmitted, Beginnings, Begun, Answered
<1> QED
  BY <1>3, <1>4, <1>5 DEF Books

-----------------------------------------------------------------------------
(* The handlers.                                                           *)

\* what a handler does besides: the books it does not write
HandlerWrites ==
  UNCHANGED <<backend, safe, renewed, catalog, capture, selection, boundary, recovery>>

LEMMA HandlersBooks ==
  ASSUME Shapes, Books, HandlerWrites, SameProgram,
         op'.attempt # 0 \/ (op'.state = op.state /\ op'.attempt = op.attempt),
         op'.dispatch = "queued" => op.dispatch = "queued" /\ op'.attempt = op.attempt,
         recovery.pc = "idle" \/ op'.attempt = op.attempt,
         op.state # "none" \/ UNCHANGED <<op, handler, runs>>,
         ws' \in WorkerRow /\ Located(ws'), receipt' \in ReceiptRow,
         handler' \in [Attempt -> HandlerRow], runs' \in [Attempt -> SUBSET Namespace],
         Beginnings', Answered'
  PROVE  Shapes' /\ Books'
<1>1. Shapes'
  BY DEF Shapes, HandlerWrites, SameProgram
<1>2. Numbered' /\ Boundaries' /\ ClaimNeverBlocked'
  BY DEF Books, HandlerWrites, SameProgram, Numbered, Boundaries, ClaimNeverBlocked
<1>3. Selections'
  BY DEF Books, HandlerWrites, SameProgram, Selections, Good
<1>4. Recovering'
  BY DEF Books, HandlerWrites, SameProgram, Recovering
<1>5. Unsubmitted'
  BY DEF Books, HandlerWrites, SameProgram, Unsubmitted
<1> QED
  BY <1>1, <1>2, <1>3, <1>4, <1>5 DEF Books

LEMMA ClaimBooks ==
  ASSUME Shapes, Books, NEW a \in Attempt, Claim(a)
  PROVE  Shapes' /\ Books'
<1>0. /\ op \in OpRow /\ handler \in [Attempt -> HandlerRow]
      /\ a \in 1..(MaxSuccessors + 1) /\ a \in Nat /\ a # 0
  BY WorkspaceAssumption DEF Shapes, Attempt
<1>1. /\ HandlerWrites /\ UNCHANGED <<ws, receipt, runs>>
      /\ op' = [op EXCEPT !.state = "running", !.dispatch = "running", !.attempt = a]
      /\ handler' = [handler EXCEPT ![a].pc = "begin"]
      /\ recovery.pc = "idle" /\ op.state = "accepted" /\ (a > 1 => boundary[a - 1] # 0)
  BY DEF Claim, Claimable, HandlerWrites, weather
<1>2. /\ SameProgram /\ op'.attempt = a /\ op'.dispatch = "running" /\ op'.state = "running"
  <2>1. a \in 0..(MaxSuccessors + 1)
    BY <1>0, WorkspaceAssumption
  <2>2. op' \in OpRow
    BY <1>0, <1>1, <2>1 DEF OpRow, MutationStates
  <2> QED
    BY <1>0, <1>1, <2>2 DEF OpRow, SameProgram
<1>3. handler' \in [Attempt -> HandlerRow]
  BY <1>0, <1>1 DEF HandlerRow
<1>4. Beginnings' /\ Answered'
  BY <1>0, <1>1, <1>2 DEF Books, Beginnings, Begun, SomeBoundary, HandlerWrites, SameProgram,
                          HandlerRow, Answered
<1> QED
  BY <1>0, <1>1, <1>2, <1>3, <1>4, HandlersBooks DEF Shapes

LEMMA BeginBooks ==
  ASSUME Shapes, Books, NEW a \in Attempt, Begin(a)
  PROVE  Shapes' /\ Books'
<1>0. /\ op \in OpRow /\ handler \in [Attempt -> HandlerRow] /\ boundary \in [Attempt -> Nat]
      /\ a \in Nat /\ a # 0 /\ (a # 1 => a - 1 \in Attempt)
  BY WorkspaceAssumption DEF Shapes, Attempt
<1>1. /\ HandlerWrites /\ UNCHANGED <<ws, op, receipt, runs>> /\ handler[a].pc = "begin"
  BY DEF Begin, HandlerWrites, weather, registry, At
<1>2. HandleOf(a).gen \in Nat /\ HandleOf(a).rev \in Nat
  BY <1>0 DEF HandleOf, OpRow
<1>3. PICK pc \in {"done", "commit", "execute", "park"}, status \in Statuses :
        Go(a, pc, status) /\ (pc = "commit" => status # "none")
  BY DEF Begin, Statuses
<1> DEFINE h == HandleOf(a)
<1>4. handler' = [handler EXCEPT ![a] = [pc |-> pc, gen |-> h.gen, rev |-> h.rev,
                                         status |-> status]]
  BY <1>3 DEF Go
<1>5. \/ h.gen = op.gen /\ h.rev = op.rev
      \/ h.gen = op.gen + 1 /\ h.rev = 0 /\ SomeBoundary
  <2>1. CASE a = 1
    BY <2>1 DEF HandleOf
  <2>2. CASE a # 1
    <3>1. boundary[a - 1] # 0 /\ a - 1 \in Attempt
      BY <1>0, <1>1, <2>2 DEF Books, Beginnings
    <3> QED
      BY <2>2, <3>1 DEF HandleOf, Books, Boundaries, SomeBoundary
  <2> QED
    BY <2>1, <2>2
<1> HIDE DEF h
<1>6. h.gen \in Nat /\ h.rev \in Nat
  BY <1>2 DEF h
<1>7. handler' \in [Attempt -> HandlerRow]
  BY <1>0, <1>4, <1>6 DEF HandlerRow
<1>8. /\ handler'[a].pc = pc /\ handler'[a].gen = h.gen /\ handler'[a].rev = h.rev
      /\ handler'[a].status = status
      /\ \A b \in Attempt : b # a => handler'[b] = handler[b]
  BY <1>0, <1>4, <1>6 DEF HandlerRow
<1>9. Beginnings' /\ Answered'
  BY <1>1, <1>3, <1>5, <1>8 DEF Books, Beginnings, Begun, SomeBoundary, HandlerWrites, Answered
<1>10. op.state # "none"
  BY <1>1 DEF Books, Unsubmitted
<1>11. SameProgram
  BY <1>0, <1>1 DEF SameProgram
<1> QED
  BY <1>1, <1>7, <1>9, <1>10, <1>11, HandlersBooks DEF Shapes

LEMMA HandlerStays ==
  ASSUME Shapes, Books, NEW a \in Attempt, handler[a].pc # "none", HandlerWrites, UNCHANGED op,
         ws' \in WorkerRow, Located(ws'), receipt' \in ReceiptRow,
         runs' \in [Attempt -> SUBSET Namespace],
         handler' \in [Attempt -> HandlerRow], handler'[a].pc \notin {"begin", "execute"},
         handler'[a].pc = "commit" => handler'[a].status # "none",
         receipt' # NoReceipt => receipt'.status # "none",
         \A b \in Attempt : b # a => handler'[b] = handler[b]
  PROVE  Shapes' /\ Books'
<1>1. SameProgram /\ op.state # "none"
  BY DEF SameProgram, Shapes, Books, Unsubmitted
<1>2. Beginnings' /\ Answered'
  BY DEF Books, Beginnings, Begun, SomeBoundary, HandlerWrites, Answered
<1> QED
  BY <1>1, <1>2, HandlersBooks

LEMMA HandlerGoes ==
  ASSUME handler \in [Attempt -> HandlerRow], NEW a \in Attempt,
         NEW pc \in {"run", "commit", "park", "done"}, handler' = [handler EXCEPT ![a].pc = pc]
  PROVE  /\ handler' \in [Attempt -> HandlerRow] /\ handler'[a].pc = pc
         /\ \A b \in Attempt : b # a => handler'[b] = handler[b]
BY DEF HandlerRow

LEMMA HandlerAnswers ==
  ASSUME handler \in [Attempt -> HandlerRow], NEW a \in Attempt, NEW status \in Statuses,
         handler' = [handler EXCEPT ![a].pc = "commit", ![a].status = status]
  PROVE  /\ handler' \in [Attempt -> HandlerRow]
         /\ handler'[a].pc = "commit" /\ handler'[a].status = status
         /\ \A b \in Attempt : b # a => handler'[b] = handler[b]
BY DEF HandlerRow

LEMMA HandlerIsDone ==
  ASSUME handler \in [Attempt -> HandlerRow], NEW a \in Attempt,
         handler' = [handler EXCEPT ![a] = [NoHandler EXCEPT !.pc = "done"]]
  PROVE  /\ handler' \in [Attempt -> HandlerRow] /\ handler'[a].pc = "done"
         /\ \A b \in Attempt : b # a => handler'[b] = handler[b]
BY DEF HandlerRow, NoHandler, Statuses

LEMMA ExecuteBooks ==
  ASSUME Shapes, Books, NEW a \in Attempt, Execute(a)
  PROVE  Shapes' /\ Books'
<1>0. /\ handler \in [Attempt -> HandlerRow] /\ ws \in WorkerRow /\ Located(ws)
      /\ receipt \in ReceiptRow /\ runs \in [Attempt -> SUBSET Namespace]
      /\ receipt # NoReceipt => receipt.status # "none"
  BY DEF Shapes, Books, Answered
<1>1. /\ handler[a].pc = "execute" /\ HandlerWrites /\ UNCHANGED <<op, receipt>>
  BY DEF Execute, At, HandlerWrites, registry, weather
<1>2. CASE UNCHANGED <<ws, runs>>
  <2>1. CASE handler' = [handler EXCEPT ![a].pc = "park"]
    <3>1. /\ handler' \in [Attempt -> HandlerRow] /\ handler'[a].pc = "park"
          /\ \A b \in Attempt : b # a => handler'[b] = handler[b]
      BY <1>0, <2>1, HandlerGoes
    <3> QED
      BY <1>0, <1>1, <1>2, <3>1, HandlerStays
  <2>2. ASSUME receipt # NoReceipt,
               NEW status, status = IF receipt.lost /\ receipt.status = "failed" THEN "lost"
                                    ELSE receipt.status,
               handler' = [handler EXCEPT ![a].pc = "commit", ![a].status = status]
        PROVE  Shapes' /\ Books'
    <3>1. status \in Statuses /\ status # "none"
      BY <1>0, <2>2 DEF ReceiptRow, Statuses
    <3>2. /\ handler' \in [Attempt -> HandlerRow]
          /\ handler'[a].pc = "commit" /\ handler'[a].status = status
          /\ \A b \in Attempt : b # a => handler'[b] = handler[b]
      <4>1. handler' = [handler EXCEPT ![a].pc = "commit", ![a].status = status]
        BY <2>2
      <4> QED
        BY <1>0, <3>1, <4>1, HandlerAnswers
    <3> QED
      BY <1>0, <1>1, <1>2, <3>1, <3>2, HandlerStays
  <2>3. CASE handler' = [handler EXCEPT ![a].pc = "run"]
    <3>1. /\ handler' \in [Attempt -> HandlerRow] /\ handler'[a].pc = "run"
          /\ \A b \in Attempt : b # a => handler'[b] = handler[b]
      BY <1>0, <2>3, HandlerGoes
    <3> QED
      BY <1>0, <1>1, <1>2, <3>1, HandlerStays
  <2> QED
    BY <2>1, <2>2, <2>3 DEF Execute
<1>3. CASE /\ Attachable(handler[a].gen, handler[a].rev)
           /\ ws' = [ws EXCEPT !.running = "self"]
           /\ runs' = [runs EXCEPT ![a] = @ \cup {ws.ns}]
           /\ handler' = [handler EXCEPT ![a].pc = "run"]
  <2>1. ws' \in WorkerRow /\ Located(ws')
    BY <1>0, <1>3 DEF WorkerRow, Located, Attachable, CheckHandle
  <2>2. runs' \in [Attempt -> SUBSET Namespace]
    BY <1>0, <1>3 DEF WorkerRow
  <2>3. /\ handler' \in [Attempt -> HandlerRow] /\ handler'[a].pc = "run"
        /\ \A b \in Attempt : b # a => handler'[b] = handler[b]
    BY <1>0, <1>3, HandlerGoes
  <2> QED
    BY <1>0, <1>1, <2>1, <2>2, <2>3, HandlerStays
<1> QED
  BY <1>2, <1>3 DEF Execute

LEMMA RunEndsBooks ==
  ASSUME Shapes, Books, NEW a \in Attempt, RunEnds(a)
  PROVE  Shapes' /\ Books'
<1>0. /\ handler \in [Attempt -> HandlerRow] /\ ws \in WorkerRow /\ Located(ws) /\ ws.present
      /\ runs \in [Attempt -> SUBSET Namespace]
  BY DEF Shapes, RunEnds, Located
<1>1. /\ handler[a].pc = "run" /\ HandlerWrites /\ UNCHANGED <<op, runs>>
  BY DEF RunEnds, At, HandlerWrites, registry, weather
<1>2. ws' \in WorkerRow /\ Located(ws')
  <2>1. ws' = Ran("self") \/ ws' = Lost
    BY DEF RunEnds
  <2> QED
    BY <1>0, <2>1, RunRows
<1>3. PICK status \in Statuses \ {"none"}, lost \in BOOLEAN, answer \in Statuses \ {"none"} :
        /\ Issue(a, status, lost)
        /\ handler' = [handler EXCEPT ![a].pc = "commit", ![a].status = answer]
  <2>1. /\ LiveStatuses \subseteq Statuses \ {"none"} /\ LostStatuses \subseteq Statuses \ {"none"}
        /\ "lost" \in Statuses \ {"none"}
    BY DEF LiveStatuses, LostStatuses, Statuses
  <2>2. CASE \E status \in LiveStatuses :
               /\ Issue(a, status, FALSE)
               /\ handler' = [handler EXCEPT ![a].pc = "commit", ![a].status = status]
    BY <2>1, <2>2
  <2>3. CASE \E status \in LostStatuses :
               /\ Issue(a, status, TRUE)
               /\ handler' = [handler EXCEPT ![a].pc = "commit",
                                 ![a].status = IF status = "failed" THEN "lost" ELSE status]
    <3>1. PICK status \in LostStatuses :
               /\ Issue(a, status, TRUE)
               /\ handler' = [handler EXCEPT ![a].pc = "commit",
                                 ![a].status = IF status = "failed" THEN "lost" ELSE status]
      BY <2>3
    <3>2. CASE status = "failed"
      BY <2>1, <3>1, <3>2
    <3>3. CASE status # "failed"
      BY <2>1, <3>1, <3>3
    <3> QED
      BY <3>2, <3>3
  <2> QED
    BY <2>2, <2>3 DEF RunEnds
<1>4. receipt' \in ReceiptRow /\ receipt'.status # "none"
  <2>1. handler[a].gen \in Nat /\ handler[a].rev \in Nat
    BY <1>0 DEF HandlerRow
  <2> QED
    BY <1>3, <2>1 DEF Issue, ReceiptRow
<1>5. /\ handler' \in [Attempt -> HandlerRow] /\ handler'[a].pc = "commit"
      /\ handler'[a].status = answer
      /\ \A b \in Attempt : b # a => handler'[b] = handler[b]
  BY <1>0, <1>3, HandlerAnswers
<1> QED
  BY <1>0, <1>1, <1>2, <1>3, <1>4, <1>5, HandlerStays

\* how an attempt is settled by the one who holds its lease
LEMMA SettleBooks ==
  ASSUME Shapes, Books, NEW a \in Attempt, handler[a].pc # "none", HandlerWrites,
         UNCHANGED <<ws, receipt, runs>>,
         NEW state \in MutationStates \ {"none"},
         IF Fenced(a) THEN Settle(a, state) ELSE UNCHANGED <<op, att>>,
         handler' = [handler EXCEPT ![a] = [NoHandler EXCEPT !.pc = "done"]]
  PROVE  Shapes' /\ Books'
<1>0. /\ handler \in [Attempt -> HandlerRow] /\ ws \in WorkerRow /\ Located(ws)
      /\ receipt \in ReceiptRow /\ runs \in [Attempt -> SUBSET Namespace] /\ op \in OpRow
      /\ receipt # NoReceipt => receipt.status # "none"
  BY DEF Shapes, Books, Answered
<1>1. /\ handler' \in [Attempt -> HandlerRow] /\ handler'[a].pc = "done"
      /\ \A b \in Attempt : b # a => handler'[b] = handler[b]
  BY <1>0, HandlerIsDone
<1>2. CASE ~Fenced(a)
  BY <1>0, <1>1, <1>2, HandlerStays
<1>3. CASE Fenced(a)
  <2> DEFINE dispatch == IF state = "indeterminate" THEN "parked" ELSE "completed"
  <2>1. op' = [op EXCEPT !.state = state, !.dispatch = dispatch] /\ op.attempt = a /\ a # 0
    BY <1>3 DEF Settle, Fenced, Attempt
  <2>2. /\ op' \in OpRow /\ op'.state = state /\ op'.dispatch # "queued"
        /\ op'.gen = op.gen /\ op'.rev = op.rev /\ op'.ns = op.ns /\ op'.attempt = op.attempt
    <3>1. dispatch \in {"none", "queued", "running", "parked", "completed"} /\ dispatch # "queued"
      OBVIOUS
    <3> HIDE DEF dispatch
    <3> QED
      BY <1>0, <2>1, <3>1, OpRows
  <2>3. op.state # "none"
    BY DEF Books, Unsubmitted
  <2>4. Beginnings' /\ Answered'
    BY <1>0, <1>1, <2>2 DEF Books, Beginnings, Begun, SomeBoundary, HandlerWrites, Answered
  <2> QED
    BY <1>0, <1>1, <2>1, <2>2, <2>3, <2>4, HandlersBooks DEF SameProgram
<1> QED
  BY <1>2, <1>3

LEMMA CommitsBooks ==
  ASSUME Shapes, Books, NEW a \in Attempt, Commit(a) \/ Park(a)
  PROVE  Shapes' /\ Books'
<1>1. /\ HandlerWrites /\ UNCHANGED <<ws, receipt, runs>>
      /\ handler' = [handler EXCEPT ![a] = [NoHandler EXCEPT !.pc = "done"]]
      /\ handler[a].pc # "none"
  BY DEF Commit, Park, At, HandlerWrites, weather
<1>2. PICK state \in MutationStates \ {"none"} :
        IF Fenced(a) THEN Settle(a, state) ELSE UNCHANGED <<op, att>>
  <2>1. CASE Commit(a)
    <3>1. handler[a].status \in Statuses \ {"none"}
      BY <2>1 DEF Commit, At, Shapes, HandlerRow, Books, Answered
    <3>2. OutcomeOf(handler[a].status) \in MutationStates \ {"none"}
      BY <3>1 DEF OutcomeOf, Statuses, MutationStates, Terminal
    <3> QED
      BY <2>1, <3>2 DEF Commit
  <2>2. CASE Park(a)
    <3>1. "indeterminate" \in MutationStates \ {"none"}
      BY DEF MutationStates
    <3> QED
      BY <2>2, <3>1 DEF Park
  <2> QED
    BY <2>1, <2>2
<1> QED
  BY <1>1, <1>2, SettleBooks

LEMMA HostDiesBooks ==
  ASSUME Shapes, Books, HostDies
  PROVE  Shapes' /\ Books'
<1>1. /\ UNCHANGED <<backend, safe, renewed, catalog, op, selection, boundary, runs>>
      /\ ws' = NoWorker /\ capture' = NoManifest /\ receipt' = NoReceipt
      /\ handler' = [a \in Attempt |-> NoHandler] /\ recovery' = [pc |-> "idle", gen |-> 0]
  BY DEF HostDies, registry
<1>2. Shapes'
  BY <1>1, NoRows DEF Shapes, RecoveryRow
<1>3. Numbered' /\ Unsubmitted' /\ Recovering' /\ Boundaries' /\ ClaimNeverBlocked'
  BY <1>1 DEF Books, Numbered, Unsubmitted, Recovering, Boundaries, ClaimNeverBlocked, NoHandler
<1>4. Selections'
  BY <1>1 DEF Books, Selections, Good
<1>5. Beginnings' /\ Answered'
  BY <1>1 DEF Beginnings, Begun, Answered, NoHandler
<1> QED
  BY <1>2, <1>3, <1>4, <1>5 DEF Books

-----------------------------------------------------------------------------
(* The recovery pass.                                                      *)

\* a set of numbers below n has a highest one
LEMMA HighestExists ==
  ASSUME NEW n \in Nat, NEW T, T \subseteq 0..n, T # {}
  PROVE  \E k \in T : \A j \in T : j <= k
<1> DEFINE R == OpToRel(<, Nat)
           Below == {n - k : k \in T}
<1>1. IsWellFoundedOn(R, Nat)
  BY NatLessThanWellFounded
<1>2. Below \subseteq Nat /\ Below # {}
  <2>1. \A k \in T : n - k \in Nat
    OBVIOUS
  <2>2. PICK k \in T : TRUE
    OBVIOUS
  <2>3. n - k \in Below
    BY <2>2
  <2> QED
    BY <2>1, <2>3
<1>3. \A x, y \in Nat : <<y, x>> \in R <=> y < x
  BY DEF OpToRel
<1> HIDE DEF R
<1>4. PICK x \in Below : \A y \in Below : ~(<<y, x>> \in R)
  <2> HIDE DEF Below
  <2> QED
    BY <1>1, <1>2, WFMin
<1>5. PICK k \in T : x = n - k
  OBVIOUS
<1>6. \A j \in T : ~(n - j < n - k)
  BY <1>2, <1>3, <1>4, <1>5
<1> QED
  BY <1>5, <1>6

RecoveryWrites == UNCHANGED <<backend, safe, renewed, catalog, capture, handler, runs>>

LEMMA RecoveryBooks ==
  ASSUME Shapes, Books, RecoveryWrites, op.attempt # 0,
         SameProgram, op'.attempt = op.attempt,
         ws' \in WorkerRow, Located(ws'), receipt' \in {receipt, NoReceipt},
         recovery' \in RecoveryRow, Recovering',
         selection' \in [Attempt -> SelectionRow], Selections',
         boundary' \in [Attempt -> Nat], Boundaries', ClaimNeverBlocked',
         \A a \in Attempt : boundary[a] # 0 => boundary'[a] # 0
  PROVE  Shapes' /\ Books'
<1>1. Shapes'
  BY NoRows DEF Shapes, RecoveryWrites, SameProgram
<1>2. op'.state # "none" /\ op.state # "none"
  BY DEF SameProgram, Books, Unsubmitted
<1>3. Numbered' /\ Unsubmitted' /\ Answered'
  BY <1>2 DEF Books, Numbered, Unsubmitted, Answered, RecoveryWrites
<1>4. Beginnings'
  <2>1. SomeBoundary => SomeBoundary'
    BY DEF SomeBoundary
  <2>2. ASSUME NEW a \in Attempt
        PROVE  /\ handler'[a].pc = "begin" /\ a > 1 => boundary'[a - 1] # 0
               /\ Begun(handler[a])'
    <3>1. handler[a].pc = "begin" /\ a > 1 => boundary[a - 1] # 0
      BY DEF Books, Beginnings
    <3>2. a > 1 => a - 1 \in Attempt
      BY WorkspaceAssumption DEF Attempt
    <3>3. Begun(handler[a])
      BY DEF Books, Beginnings
    <3> QED
      BY <2>1, <3>1, <3>2, <3>3 DEF Begun, RecoveryWrites, SameProgram
  <2> QED
    BY <2>2 DEF Beginnings
<1> QED
  BY <1>1, <1>3, <1>4 DEF Books

\* the checkpoint a pass finds is a complete one of the program's handle
LEMMA LatestIsGood ==
  ASSUME Shapes, Books, Restorable
  PROVE  Good(Latest.id) /\ Latest.id \in Nat
<1> DEFINE of == {k \in 1..Len(catalog) : catalog[k].gen = op.gen /\ catalog[k].rev = op.rev}
<1>0. Len(catalog) \in Nat
  BY DEF Shapes
<1>1. Latest = IF of = {} THEN NoManifest ELSE catalog[CHOOSE k \in of : \A j \in of : j <= k]
  BY DEF Latest
<1>2. of # {} /\ of \subseteq 0..Len(catalog)
  BY <1>0, <1>1 DEF Restorable
<1>3. \E k \in of : \A j \in of : j <= k
  <2> HIDE DEF of
  <2> QED
    BY <1>0, <1>2, HighestExists
<1>4. PICK k \in of : Latest = catalog[k]
  BY <1>1, <1>2, <1>3
<1>5. Latest.id = k
  BY <1>4 DEF Books, Numbered
<1> QED
  BY <1>4, <1>5 DEF Restorable, Good

LEMMA SelectBooks ==
  ASSUME Shapes, Books, Select
  PROVE  Shapes' /\ Books'
<1>1. /\ RecoveryWrites /\ UNCHANGED <<ws, op, boundary, receipt>> /\ op.state = "indeterminate"
  BY DEF Select, Candidate, RecoveryWrites, weather
<1>2. op.attempt \in Attempt /\ op.attempt # 0
  BY <1>1, WorkspaceAssumption DEF Books, Unsubmitted, Shapes, OpRow, Attempt
<1>3. SameProgram
  BY <1>1 DEF SameProgram, Shapes
<1>4. Good(Latest.id) /\ Latest.id \in Nat
  BY LatestIsGood DEF Select
<1>5. recovery' \in RecoveryRow /\ recovery'.pc \in {"restore", "failed"}
  BY DEF Select, RecoveryRow
<1>6. /\ selection' \in [Attempt -> SelectionRow] /\ selection'[op.attempt].state # "none"
      /\ \A a \in Attempt : selection'[a].state # "none" =>
           \/ selection'[a].id = selection[a].id /\ selection[a].state # "none"
           \/ selection'[a].id = Latest.id
  <2>1. selection \in [Attempt -> SelectionRow]
    BY DEF Shapes
  <2>2. CASE selection' = selection /\ selection[op.attempt].state # "none"
    BY <2>1, <2>2
  <2>3. CASE selection' = [selection EXCEPT ![op.attempt].state = "selected",
                                            ![op.attempt].id = Latest.id]
    <3> DEFINE a == op.attempt
               i == Latest.id
    <3>1. a \in Attempt /\ i \in Nat
          /\ selection' = [selection EXCEPT ![a].state = "selected", ![a].id = i]
      BY <1>2, <1>4, <2>3
    <3> HIDE DEF a, i
    <3>2. /\ selection' \in [Attempt -> SelectionRow] /\ selection'[a].state = "selected"
          /\ selection'[a].id = i /\ \A b \in Attempt : b # a => selection'[b] = selection[b]
      BY <2>1, <3>1 DEF SelectionRow
    <3> QED
      BY <3>2 DEF a, i
  <2> QED
    BY <2>2, <2>3 DEF Select
<1>7. Selections'
  BY <1>1, <1>4, <1>6 DEF Books, Selections, Good, RecoveryWrites
<1>8. Recovering'
  BY <1>1, <1>2, <1>5, <1>6 DEF Recovering
<1>9. Boundaries' /\ ClaimNeverBlocked'
  BY <1>1 DEF Books, Boundaries, ClaimNeverBlocked
<1> QED
  BY <1>1, <1>2, <1>3, <1>5, <1>6, <1>7, <1>8, <1>9, RecoveryBooks DEF Shapes

\* the checkpoint a restore works with
LEMMA ChosenIsGood ==
  ASSUME Shapes, Books, recovery.pc \notin {"idle", "failed"}
  PROVE  /\ op.attempt \in Attempt /\ op.attempt # 0
         /\ Good(selection[op.attempt].id) /\ Chosen.ns \in Namespace
<1>1. op.attempt \in Attempt /\ op.attempt # 0
  BY WorkspaceAssumption DEF Books, Recovering, Shapes, OpRow, Attempt
<1>2. Good(selection[op.attempt].id)
  BY <1>1 DEF Books, Recovering, Selections
<1>3. Chosen \in ManifestRow
  BY <1>2 DEF Chosen, Good, Shapes
<1> QED
  BY <1>1, <1>2, <1>3 DEF ManifestRow

\* the recovery steps that leave the selections and the boundaries alone
LEMMA PassBooks ==
  ASSUME Shapes, Books, RecoveryWrites, UNCHANGED <<selection, boundary>>, op.attempt # 0,
         SameProgram, op'.attempt = op.attempt, op'.dispatch = "queued" => op.dispatch = "queued",
         ws' \in WorkerRow, Located(ws'), receipt' \in {receipt, NoReceipt},
         recovery' \in RecoveryRow, Recovering'
  PROVE  Shapes' /\ Books'
<1>1. Selections' /\ Boundaries' /\ ClaimNeverBlocked'
  BY DEF Books, Selections, Good, Boundaries, ClaimNeverBlocked, RecoveryWrites, SameProgram
<1> QED
  BY <1>1, RecoveryBooks DEF Shapes

LEMMA RestoreMoves ==
  ASSUME Shapes, Books, Restore
  PROVE  \/ ws' = ws /\ recovery'.pc \in {"idle", "failed"} /\ recovery' \in RecoveryRow
         \/ /\ ws' = ws /\ ws.present /\ ws.gen = op.gen + 1 /\ ws.rev = 0 /\ ws.ns = Chosen.ns
            /\ recovery' = [pc |-> "verify", gen |-> op.gen + 1]
         \/ ws' = Worker(op.gen + 1, Chosen.ns) /\ recovery' = [pc |-> "verify", gen |-> op.gen + 1]
            /\ (ws.present => ws.gen = op.gen \/ (ws.gen = op.gen + 1 /\ ws.rev = 0))
<1>1. ws \in WorkerRow /\ op \in OpRow /\ recovery \in RecoveryRow
  BY DEF Shapes
<1>2. CASE ~ws.present /\ Install(op.gen + 1)
  BY <1>2 DEF Install
<1>3. CASE ws.present /\ ws.gen = op.gen + 1 /\ Unlocked /\ Reusable
           /\ IF ws.alive /\ ~ws.lost
              THEN UNCHANGED ws /\ recovery' = [pc |-> "verify", gen |-> ws.gen]
              ELSE Install(ws.gen)
  BY <1>3 DEF Install, Reusable
<1>4. CASE ws.present /\ ws.gen # op.gen + 1 /\ Unlocked /\ Replaceable /\ Install(ws.gen + 1)
  BY <1>4 DEF Install, Replaceable
<1>5. CASE ws' = ws /\ recovery' = [recovery EXCEPT !.pc = "failed"]
  BY <1>1, <1>5 DEF RecoveryRow
<1>6. CASE ws' = ws /\ recovery' = [recovery EXCEPT !.pc = "idle"]
  BY <1>1, <1>6 DEF RecoveryRow
<1> QED
  BY <1>2, <1>3, <1>4, <1>5, <1>6 DEF Restore

LEMMA RestoreBooks ==
  ASSUME Shapes, Books, Restore
  PROVE  Shapes' /\ Books'
<1>1. /\ RecoveryWrites /\ UNCHANGED <<selection, boundary, receipt, op>>
      /\ recovery.pc = "restore" /\ selection[op.attempt].state # "none"
  BY DEF Restore, RecoveryWrites, weather, registry, Books, Recovering
<1>2. op.attempt # 0 /\ op.gen \in Nat /\ Chosen.ns \in Namespace
  BY <1>1, ChosenIsGood DEF Shapes, OpRow
<1>3. SameProgram
  BY <1>1 DEF SameProgram, Shapes
<1>4. ws' \in WorkerRow /\ Located(ws') /\ recovery' \in RecoveryRow /\ Recovering'
  <2>0. op.gen + 1 \in Nat /\ op.gen + 1 > 0
    BY <1>2
  <2>1. CASE ws' = ws /\ recovery'.pc \in {"idle", "failed"} /\ recovery' \in RecoveryRow
    BY <1>1, <1>2, <2>1 DEF Shapes, Recovering
  <2>2. CASE recovery' = [pc |-> "verify", gen |-> op.gen + 1]
             /\ (ws' = ws \/ ws' = Worker(op.gen + 1, Chosen.ns))
    <3>1. recovery' \in RecoveryRow /\ Recovering'
      BY <1>1, <1>2, <2>0, <2>2 DEF RecoveryRow, Recovering
    <3>2. ws' \in WorkerRow /\ Located(ws')
      BY <1>2, <2>0, <2>2, WorkerRows DEF Shapes
    <3> QED
      BY <3>1, <3>2
  <2> QED
    BY <2>1, <2>2, RestoreMoves
<1> QED
  BY <1>1, <1>2, <1>3, <1>4, PassBooks

LEMMA PassesOnBooks ==
  ASSUME Shapes, Books, Verify \/ Retire
  PROVE  Shapes' /\ Books'
<1>1. /\ RecoveryWrites /\ UNCHANGED <<ws, selection, boundary, op>>
      /\ recovery.pc \in {"verify", "retire"}
      /\ receipt' \in {receipt, NoReceipt}
  BY DEF Verify, Retire, RecoveryWrites, weather, registry
<1>2. recovery \in RecoveryRow /\ op.attempt # 0
  BY <1>1, ChosenIsGood DEF Shapes
<1>3. PICK pc \in {"idle", "mark", "admit", "failed"} : recovery' = [recovery EXCEPT !.pc = pc]
  BY DEF Verify, Retire
<1>4. recovery' \in RecoveryRow /\ recovery'.pc = pc /\ recovery'.gen = recovery.gen
  BY <1>2, <1>3 DEF RecoveryRow
<1>5. Recovering'
  BY <1>1, <1>4 DEF Books, Recovering
<1>6. SameProgram
  BY <1>1 DEF SameProgram, Shapes
<1> QED
  BY <1>1, <1>2, <1>4, <1>5, <1>6, PassBooks DEF Shapes

LEMMA MarkBooks ==
  ASSUME Shapes, Books, Mark
  PROVE  Shapes' /\ Books'
<1>1. /\ RecoveryWrites /\ UNCHANGED <<ws, boundary, op, receipt>> /\ recovery.pc = "mark"
  BY DEF Mark, RecoveryWrites, weather
<1>2. /\ recovery \in RecoveryRow /\ op.attempt # 0 /\ op.attempt \in Attempt
      /\ selection \in [Attempt -> SelectionRow]
  BY <1>1, ChosenIsGood DEF Shapes
<1>3. PICK pc \in {"retire", "failed"} : recovery' = [recovery EXCEPT !.pc = pc]
  BY DEF Mark
<1>4. recovery' \in RecoveryRow /\ recovery'.pc = pc /\ recovery'.gen = recovery.gen
  BY <1>2, <1>3 DEF RecoveryRow
<1>5. SameProgram
  BY <1>1 DEF SameProgram, Shapes
<1>6. /\ selection' \in [Attempt -> SelectionRow]
      /\ \A a \in Attempt : /\ selection'[a].id = selection[a].id
                            /\ selection'[a].state = "none" <=> selection[a].state = "none"
  <2>1. CASE selection' = selection
    BY <1>2, <2>1
  <2>2. CASE selection' = [selection EXCEPT ![op.attempt].state = "restored",
                                            ![op.attempt].gen = recovery.gen]
    <3> DEFINE a == op.attempt
               g == recovery.gen
    <3>1. /\ a \in Attempt /\ g \in Nat /\ selection[a].state # "none"
          /\ selection' = [selection EXCEPT ![a].state = "restored", ![a].gen = g]
      BY <1>1, <1>2, <2>2 DEF RecoveryRow, Books, Recovering
    <3> HIDE DEF a, g
    <3> QED
      BY <1>2, <3>1 DEF SelectionRow
  <2> QED
    BY <2>1, <2>2 DEF Mark
<1>7. Selections' /\ Recovering'
  BY <1>1, <1>2, <1>4, <1>6 DEF Books, Selections, Good, Recovering, RecoveryWrites
<1>8. Boundaries' /\ ClaimNeverBlocked'
  BY <1>1 DEF Books, Boundaries, ClaimNeverBlocked
<1> QED
  BY <1>1, <1>2, <1>4, <1>5, <1>6, <1>7, <1>8, RecoveryBooks DEF Shapes

\* the boundary of the successor is in the transaction that queues it
LEMMA AdmitBooks ==
  ASSUME Shapes, Books, Admit
  PROVE  Shapes' /\ Books'
<1>1. /\ RecoveryWrites /\ UNCHANGED <<ws, selection, receipt>> /\ recovery.pc = "admit"
  BY DEF Admit, RecoveryWrites, weather
<1>2. /\ recovery \in RecoveryRow /\ op.attempt # 0 /\ op.attempt \in Attempt /\ op \in OpRow
      /\ boundary \in [Attempt -> Nat] /\ op.state # "none"
  BY <1>1, ChosenIsGood DEF Shapes, Books, Unsubmitted
<1>3. CASE recovery' = [recovery EXCEPT !.pc = "failed"] /\ UNCHANGED <<boundary, decisions, op>>
  <2>1. recovery' \in RecoveryRow /\ recovery'.pc = "failed"
    BY <1>2, <1>3 DEF RecoveryRow
  <2>2. Recovering' /\ SameProgram
    BY <1>2, <1>3, <2>1 DEF Recovering, SameProgram
  <2> QED
    BY <1>1, <1>2, <1>3, <2>1, <2>2, PassBooks DEF Shapes
<1>4. CASE /\ boundary' = [boundary EXCEPT ![op.attempt] = recovery.gen]
           /\ op' = [op EXCEPT !.state = "accepted", !.dispatch = "queued"]
           /\ recovery' = [pc |-> "idle", gen |-> 0]
  <2>1. recovery' \in RecoveryRow /\ Recovering'
    BY <1>4 DEF RecoveryRow, Recovering
  <2>2. recovery.gen = op.gen + 1 /\ op.gen \in Nat /\ op.gen + 1 # 0
    BY <1>1, <1>2 DEF Books, Recovering, OpRow
  <2>3. /\ SameProgram /\ op'.attempt = op.attempt
    BY <1>2, <1>4, OpRows DEF SameProgram, MutationStates
  <2> DEFINE a == op.attempt
             g == op.gen + 1
  <2>4. /\ boundary' \in [Attempt -> Nat] /\ boundary'[a] = g
        /\ \A b \in Attempt : b # a => boundary'[b] = boundary[b]
    <3>1. a \in Attempt /\ g \in Nat /\ boundary' = [boundary EXCEPT ![a] = g]
      BY <1>2, <1>4, <2>2
    <3> HIDE DEF a, g
    <3> QED
      BY <1>2, <3>1
  <2>5. /\ Boundaries' /\ ClaimNeverBlocked' /\ Selections'
        /\ \A b \in Attempt : boundary[b] # 0 => boundary'[b] # 0
    BY <1>1, <2>2, <2>3, <2>4
    DEF Books, Boundaries, ClaimNeverBlocked, Selections, Good, SameProgram, RecoveryWrites
  <2> QED
    BY <1>1, <1>2, <2>1, <2>3, <2>4, <2>5, RecoveryBooks DEF Shapes
<1> QED
  BY <1>3, <1>4 DEF Admit

LEMMA AbandonBooks ==
  ASSUME Shapes, Books, Abandon
  PROVE  Shapes' /\ Books'
<1>1. /\ RecoveryWrites /\ UNCHANGED <<selection, boundary, receipt>> /\ recovery.pc = "failed"
      /\ recovery' = [pc |-> "idle", gen |-> 0]
  BY DEF Abandon, RecoveryWrites, weather
<1>2. op.attempt # 0 /\ op \in OpRow /\ ws \in WorkerRow /\ Located(ws)
  BY <1>1 DEF Shapes, Books, Recovering
<1>3. recovery' \in RecoveryRow /\ Recovering'
  BY <1>1 DEF RecoveryRow, Recovering
<1>4. ws' \in WorkerRow /\ Located(ws')
  BY <1>2 DEF Abandon, Closed, WorkerRow, Located
<1>5. SameProgram /\ op'.attempt = op.attempt /\ (op'.dispatch = "queued" => op.dispatch = "queued")
  <2>1. CASE op' = op
    BY <1>2, <2>1 DEF SameProgram
  <2>2. CASE op' = [op EXCEPT !.dispatch = "parked"]
    <3>1. op' = [op EXCEPT !.state = op.state, !.dispatch = "parked"]
      BY <1>2, <2>2 DEF OpRow
    <3> QED
      BY <1>2, <3>1, OpRows, OpFields DEF SameProgram
  <2> QED
    BY <2>1, <2>2 DEF Abandon, Refuse
<1> QED
  BY <1>1, <1>2, <1>3, <1>4, <1>5, PassBooks

-----------------------------------------------------------------------------
LEMMA BooksStep == Shapes /\ Books /\ [Next]_vars => Shapes' /\ Books'
<1> SUFFICES ASSUME Shapes, Books, [Next]_vars PROVE Shapes' /\ Books'
  OBVIOUS
<1>1. CASE Clients
  BY <1>1, ClientsBooks
<1>2. CASE Registers
  BY <1>2, RegistersBooks
<1>3. CASE TakeCheckpoint \/ PublishCheckpoint
  BY <1>3, CapturesBooks
<1>4. CASE Submit \/ HostDies
  BY <1>4, SubmitBooks, HostDiesBooks
<1>5. ASSUME NEW a \in Attempt, Handler(a)
      PROVE  Shapes' /\ Books'
  <2>1. CASE Claim(a) \/ Begin(a) \/ Execute(a)
    BY <2>1, ClaimBooks, BeginBooks, ExecuteBooks
  <2>2. CASE RunEnds(a) \/ Commit(a) \/ Park(a)
    BY <2>2, RunEndsBooks, CommitsBooks
  <2>3. CASE Lapse(a)
    BY <2>3, RegistersBooks DEF Registers
  <2> QED
    BY <1>5, <2>1, <2>2, <2>3 DEF Handler
<1>6. CASE Recovery
  BY <1>6, SelectBooks, RestoreBooks, PassesOnBooks, MarkBooks, AdmitBooks, AbandonBooks,
     RegistersBooks DEF Recovery, Registers
<1> QED
  BY <1>1, <1>2, <1>3, <1>4, <1>5, <1>6 DEF Next, Tools, Clients, Registers

LEMMA BooksInit == Init => Shapes /\ Books
<1> SUFFICES ASSUME Init PROVE Shapes /\ Books
  OBVIOUS
<1>1. ws \in WorkerRow /\ Located(ws)
  BY NoRows, WorkerRows DEF Init
<1>2. op \in OpRow
  BY NoRows, WorkspaceAssumption DEF Init, OpRow, MutationStates
<1>3. /\ selection \in [Attempt -> SelectionRow] /\ boundary \in [Attempt -> Nat]
      /\ handler \in [Attempt -> HandlerRow] /\ recovery \in RecoveryRow
      /\ runs \in [Attempt -> SUBSET Namespace]
  BY NoRows DEF Init, SelectionRow, RecoveryRow
<1>4. Shapes
  <2>1. /\ backend \in {"ipython", "plain", "deterministic"} /\ renewed \in BOOLEAN
        /\ safe \in BOOLEAN
    BY DEF Init
  <2>2. catalog \in Seq(ManifestRow) /\ capture \in ManifestRow /\ receipt \in ReceiptRow
    BY NoRows DEF Init
  <2> QED
    BY <1>1, <1>2, <1>3, <2>1, <2>2 DEF Shapes
<1>5. Books
  BY
  DEF Init, Books, Numbered, Unsubmitted, Recovering, Selections, Boundaries, Beginnings, Begun,
         Answered, ClaimNeverBlocked, NoHandler, NoReceipt
<1> QED
  BY <1>4, <1>5

\* A queued successor always has the boundary a claim asks for: the boundary, the
\* decision and the queued operation are committed in one transaction, and no
\* other step queues an operation that has an attempt.
THEOREM SuccessorIsClaimable == Spec => []ClaimNeverBlocked
<1>1. Shapes /\ Books => ClaimNeverBlocked
  BY DEF Books
<1> QED
  BY <1>1, BooksInit, BooksStep, PTL DEF Spec

-----------------------------------------------------------------------------
(* What a handle names.  The workspace is at a higher handle than one that *)
(* named a namespace, or still holds that very namespace.                  *)

Names(gen, rev, ns) ==
  ws.present => \/ ws.gen > gen
                \/ ws.gen = gen /\ (ws.rev > rev \/ (ws.rev = rev /\ ws.ns = ns))

\* the checkpoints there are
Known == {catalog[k] : k \in 1..Len(catalog)} \cup {capture}

\* a restore into the next generation was compared with its checkpoint
Verified == recovery.pc \in {"mark", "retire", "admit"} \/ SomeBoundary

Handles ==
  /\ op.state = "none" => \A m \in Known : ~m.partial => Names(m.gen, m.rev, m.ns)
  /\ op.state # "none" =>
       /\ op.gen > 0 /\ Names(op.gen, op.rev, op.ns)
       /\ \A m \in Known : m.gen = op.gen /\ m.rev = op.rev /\ ~m.partial => m.ns = op.ns
  /\ Verified => Names(op.gen + 1, 0, op.ns)

Traced == renewed \/ (Handles /\ \A a \in Attempt : runs[a] \subseteq {op.ns})

SameHandle ==
  /\ op'.gen = op.gen /\ op'.rev = op.rev /\ op'.ns = op.ns
  /\ op'.state = "none" <=> op.state = "none"

Kept ==
  /\ SameHandle /\ MovesOn(ws') /\ renewed' = renewed
  /\ Known' \subseteq Known \cup {NoManifest} /\ (Verified' => Verified)

LEMMA NamesKept ==
  ASSUME Shapes, Shapes', MovesOn(ws'), NEW gen \in Nat, NEW rev \in Nat, NEW ns,
         Names(gen, rev, ns)
  PROVE  Names(gen, rev, ns)'
<1>1. /\ ws.gen \in Nat /\ ws.rev \in Nat /\ ws'.gen \in Nat /\ ws'.rev \in Nat
  BY DEF Shapes, WorkerRow
<1> QED
  BY <1>1 DEF MovesOn, Names

LEMMA KnownRows ==
  ASSUME Shapes
  PROVE  Known \subseteq ManifestRow
<1>1. \A k \in 1..Len(catalog) : catalog[k] \in ManifestRow
  BY DEF Shapes
<1> QED
  BY <1>1 DEF Known, Shapes

LEMMA HandlesKept ==
  ASSUME Shapes, Shapes', Handles, Kept
  PROVE  Handles'
<1>0. /\ op.gen \in Nat /\ op.rev \in Nat /\ op.gen + 1 \in Nat
      /\ ws'.gen \in Nat /\ (ws'.present => ws'.gen > 0)
  BY DEF Shapes, OpRow, WorkerRow, Located
<1>1. ASSUME op'.state = "none", NEW m \in Known', ~m.partial
      PROVE  Names(m.gen, m.rev, m.ns)'
  <2>1. CASE m = NoManifest
    <3>1. m.gen = 0 /\ m.rev = 0
      BY <2>1 DEF NoManifest
    <3> QED
      BY <1>0, <3>1 DEF Names
  <2>2. CASE m \in Known
    <3>1. m.gen \in Nat /\ m.rev \in Nat
      BY <2>2, KnownRows DEF ManifestRow
    <3>2. Names(m.gen, m.rev, m.ns)
      BY <1>1, <2>2 DEF Handles, Kept, SameHandle
    <3> DEFINE g == m.gen
               r == m.rev
               n == m.ns
    <3>3. g \in Nat /\ r \in Nat /\ Names(g, r, n)
      BY <3>1, <3>2
    <3>4. Names(g, r, n)'
      BY <3>3, NamesKept DEF Kept
    <3> QED
      BY <3>4
  <2> QED
    BY <1>1, <2>1, <2>2 DEF Kept
<1>2. ASSUME op'.state # "none"
      PROVE  /\ op'.gen > 0 /\ Names(op.gen, op.rev, op.ns)'
             /\ \A m \in Known' : m.gen = op'.gen /\ m.rev = op'.rev /\ ~m.partial => m.ns = op'.ns
  <2>1. op.gen > 0 /\ Names(op.gen, op.rev, op.ns)
    BY <1>2 DEF Handles, Kept, SameHandle
  <2> DEFINE g == op.gen
             r == op.rev
             n == op.ns
  <2>2. g' = g /\ r' = r /\ n' = n /\ g \in Nat /\ r \in Nat /\ Names(g, r, n)
    BY <1>0, <2>1 DEF Kept, SameHandle
  <2>3. Names(g, r, n)'
    BY <1>0, <2>1, <2>2, NamesKept DEF Kept, MovesOn, Names, Shapes, WorkerRow
  <2>4. \A m \in Known' : m.gen = op'.gen /\ m.rev = op'.rev /\ ~m.partial => m.ns = op'.ns
    BY <1>0, <1>2, <2>1 DEF Handles, Kept, SameHandle, NoManifest
  <2> QED
    BY <2>1, <2>3, <2>4 DEF Kept, SameHandle
<1>3. ASSUME Verified'
      PROVE  Names(op.gen + 1, 0, op.ns)'
  <2>1. Names(op.gen + 1, 0, op.ns)
    BY <1>3 DEF Handles, Kept
  <2> QED
    BY <1>0, <2>1 DEF Kept, SameHandle, MovesOn, Names, Shapes, WorkerRow
<1> QED
  BY <1>1, <1>2, <1>3 DEF Handles

LEMMA TracedKept ==
  ASSUME Shapes, Shapes', Traced, Kept, runs' = runs
  PROVE  Traced'
BY HandlesKept DEF Traced, Kept, SameHandle

LEMMA ClientsKeep ==
  ASSUME Shapes, Clients
  PROVE  renewed' \/ (Kept /\ runs' = runs)
<1>1. /\ Advances /\ RowsStay /\ op' = op
      /\ UNCHANGED <<backend, safe, handler, recovery, receipt>>
  BY ClientMoves
<1> QED
  BY <1>1 DEF Advances, RowsStay, Kept, SameHandle, Known, Verified, SomeBoundary

LEMMA RegistersKeep ==
  ASSUME Shapes, Books, Registers
  PROVE  Kept /\ runs' = runs
<1>1. /\ Idles /\ RowsStay /\ WorkspaceStays
      /\ UNCHANGED <<backend, safe, handler, recovery, receipt>>
  BY RegistryMoves
<1>2. MovesOn(ws')
  BY <1>1 DEF WorkspaceStays, MovesOn
<1> QED
  BY <1>1, <1>2
  DEF RowsStay, WorkspaceStays, Idles, SameProgram, Kept, SameHandle, Known, Verified,
                    SomeBoundary

\* a handler changes the state of the program and the workspace it runs in
LEMMA HandlersKeep ==
  ASSUME Shapes, Books, NEW a \in Attempt, Claim(a) \/ Begin(a) \/ Execute(a) \/ RunEnds(a)
                                             \/ Commit(a) \/ Park(a)
  PROVE  Kept /\ (Execute(a) \/ runs' = runs)
<1>0. op \in OpRow /\ ws \in WorkerRow /\ Located(ws) /\ op.attempt \in Nat
  BY OpFields DEF Shapes
<1>1. /\ UNCHANGED <<renewed, catalog, capture, boundary, recovery>>
      /\ Execute(a) \/ runs' = runs
  BY DEF Claim, Begin, Execute, RunEnds, Commit, Park, weather, registry
<1>2. SameHandle
  <2>1. CASE op' = op
    BY <2>1 DEF SameHandle
  <2>2. CASE Claim(a)
    <3>1. /\ op' = [op EXCEPT !.state = "running", !.dispatch = "running", !.attempt = a]
          /\ op.state = "accepted"
      BY <2>2 DEF Claim, Claimable
    <3> QED
      BY <1>0, <3>1 DEF SameHandle, OpRow
  <2>3. CASE Fenced(a) /\ (Commit(a) \/ Park(a))
    <3>1. op.attempt # 0
      BY <2>3 DEF Fenced, Attempt
    <3>2. op.state # "none"
      BY <3>1 DEF Books, Unsubmitted
    <3>3. PICK state : Settle(a, state) /\ state # "none"
      <4>1. CASE Commit(a)
        <5>1. handler[a].status \in Statuses \ {"none"}
          BY <4>1 DEF Commit, At, Shapes, HandlerRow, Books, Answered
        <5>2. OutcomeOf(handler[a].status) # "none"
          BY <5>1 DEF OutcomeOf, Statuses
        <5> QED
          BY <2>3, <4>1, <5>2 DEF Commit
      <4>2. CASE Park(a)
        BY <2>3, <4>2 DEF Park
      <4> QED
        BY <2>3, <4>1, <4>2
    <3> QED
      BY <1>0, <3>2, <3>3 DEF Settle, SameHandle, OpRow
  <2> QED
    BY <2>1, <2>2, <2>3 DEF Begin, Execute, RunEnds, Commit, Park, registry
<1>3. MovesOn(ws')
  <2>1. CASE ws' = ws
    BY <2>1 DEF MovesOn
  <2>2. CASE ws' = [ws EXCEPT !.running = "self"]
    BY <1>0, <2>2 DEF MovesOn, WorkerRow
  <2>3. CASE RunEnds(a)
    <3>1. (ws' = Ran("self") \/ ws' = Lost) /\ ws.present
      BY <1>0, <2>3 DEF RunEnds, Located
    <3> QED
      BY <1>0, <3>1, RunRows
  <2> QED
    BY <2>1, <2>2, <2>3 DEF Claim, Begin, Execute, Commit, Park
<1> QED
  BY <1>1, <1>2, <1>3 DEF Kept, Known, Verified, SomeBoundary

\* The run of an attempt starts in the namespace its handle names.
LEMMA ExecuteTraced ==
  ASSUME Shapes, Books, Shapes', Traced, NEW a \in Attempt, Execute(a), Kept
  PROVE  Traced'
<1>1. CASE runs' = runs
  BY <1>1, TracedKept
<1>2. CASE Attachable(handler[a].gen, handler[a].rev) /\ runs' = [runs EXCEPT ![a] = @ \cup {ws.ns}]
  <2> SUFFICES ASSUME ~renewed
               PROVE  Traced'
    BY DEF Traced, Kept
  <2>1. Handles /\ Handles'
    BY HandlesKept DEF Traced
  <2>2. /\ ws.present /\ ws.gen = handler[a].gen /\ ws.rev = handler[a].rev
        /\ handler[a].pc = "execute"
    BY <1>2 DEF Attachable, CheckHandle, Execute, At
  <2>3. op.state # "none"
    BY <2>2 DEF Books, Unsubmitted
  <2>4. ws.ns = op.ns
    <3>1. ws.gen \in Nat /\ ws.rev \in Nat /\ op.gen \in Nat /\ op.rev \in Nat
      BY DEF Shapes, WorkerRow, OpRow
    <3>2. CASE ws.gen = op.gen /\ ws.rev = op.rev
      BY <2>1, <2>2, <2>3, <3>1, <3>2 DEF Handles, Names
    <3>3. CASE ws.gen = op.gen + 1 /\ ws.rev = 0 /\ SomeBoundary
      BY <2>1, <2>2, <3>1, <3>3 DEF Handles, Names, Verified
    <3> QED
      BY <2>2, <3>2, <3>3 DEF Books, Beginnings, Begun
  <2>5. \A b \in Attempt : runs'[b] \subseteq {op.ns}
    <3>1. runs \in [Attempt -> SUBSET Namespace] /\ \A b \in Attempt : runs[b] \subseteq {op.ns}
      BY DEF Shapes, Traced
    <3> QED
      BY <1>2, <2>4, <3>1
  <2> QED
    BY <2>1, <2>5 DEF Traced, Kept, SameHandle
<1> QED
  BY <1>1, <1>2 DEF Execute

\* a checkpoint holds the namespace at its handle, or says what it left out
LEMMA TakesTraced ==
  ASSUME Shapes, Books, Shapes', Traced, TakeCheckpoint
  PROVE  Traced'
<1>1. UNCHANGED <<renewed, ws, catalog, op, boundary, recovery, runs>>
  BY DEF TakeCheckpoint, weather, registry
<1> SUFFICES ASSUME ~renewed
             PROVE  Handles'
  BY <1>1 DEF Traced
<1>2. PICK partial \in BOOLEAN : capture' = Manifest(partial)
  BY DEF TakeCheckpoint
<1>3. /\ capture'.gen = ws.gen /\ capture'.rev = ws.rev /\ capture'.partial = partial
      /\ ~partial => capture'.ns = ws.ns
  <2>1. capture'.ns = [ws.ns EXCEPT !.cut = ws.ns.cut \/ partial]
    BY <1>2 DEF Manifest
  <2>2. ws.ns \in Namespace
    BY DEF Shapes, WorkerRow
  <2>3. ~partial => capture'.ns = ws.ns
    BY <2>1, <2>2 DEF Namespace
  <2> QED
    BY <1>2, <2>3 DEF Manifest
<1>4. Known' \subseteq Known \cup {capture'}
  BY <1>1 DEF Known
<1>5. Handles
  BY DEF Traced
<1>6. ~partial => Names(capture'.gen, capture'.rev, capture'.ns)
  BY <1>3 DEF Names
<1>7. ASSUME op.state # "none", capture'.gen = op.gen, capture'.rev = op.rev, ~partial
      PROVE  capture'.ns = op.ns
  <2>1. ws.present
    BY DEF TakeCheckpoint, Available
  <2>2. ws.gen \in Nat /\ ws.rev \in Nat
    BY DEF Shapes, WorkerRow
  <2> QED
    BY <1>3, <1>5, <1>7, <2>1, <2>2 DEF Handles, Names
<1>8. op.state = "none" => \A m \in Known' : ~m.partial => Names(m.gen, m.rev, m.ns)
  BY <1>3, <1>4, <1>5, <1>6 DEF Handles
<1>9. op.state # "none" =>
        \A m \in Known' : m.gen = op.gen /\ m.rev = op.rev /\ ~m.partial => m.ns = op.ns
  BY <1>3, <1>4, <1>5, <1>7 DEF Handles
<1> QED
  BY <1>1, <1>5, <1>8, <1>9 DEF Handles, Names, Verified, SomeBoundary

\* the program is submitted for the namespace the handle names at that moment
LEMMA SubmitTraced ==
  ASSUME Shapes, Books, Shapes', Traced, Submit
  PROVE  Traced'
<1>1. /\ UNCHANGED <<renewed, ws, catalog, capture, boundary, recovery, runs>>
      /\ op.state = "none" /\ ws.present
      /\ op'.state = "accepted" /\ op'.gen = ws.gen /\ op'.rev = ws.rev /\ op'.ns = ws.ns
  BY DEF Submit, weather, Available
<1> SUFFICES ASSUME ~renewed
             PROVE  Traced'
  BY <1>1 DEF Traced
<1>2. Handles /\ ws.gen > 0 /\ ws.gen \in Nat /\ ws.rev \in Nat
  BY <1>1 DEF Traced, Shapes, Located, WorkerRow
<1>3. ~Verified'
  BY <1>1 DEF Books, Unsubmitted, Verified, SomeBoundary
<1>4. \A m \in Known : m.gen = ws.gen /\ m.rev = ws.rev /\ ~m.partial => m.ns = ws.ns
  BY <1>1, <1>2 DEF Handles, Names
<1>5. Known' = Known
  BY <1>1 DEF Known
<1>6. Names(op.gen, op.rev, op.ns)'
  BY <1>1 DEF Names
<1>7. Handles'
  BY <1>1, <1>2, <1>3, <1>4, <1>5, <1>6 DEF Handles
<1>8. \A a \in Attempt : runs'[a] \subseteq {op'.ns}
  BY <1>1 DEF Books, Unsubmitted
<1> QED
  BY <1>7, <1>8 DEF Traced

\* a restore installs the namespace of the checkpoint it chose, that of the program's handle
LEMMA RestoreTraced ==
  ASSUME Shapes, Books, Shapes', Traced, Restore
  PROVE  Traced'
<1>1. /\ UNCHANGED <<renewed, catalog, capture, boundary, op, runs>> /\ recovery.pc = "restore"
  BY DEF Restore, weather, registry
<1>2. CASE ws' = ws /\ recovery'.pc \notin {"mark", "retire", "admit"}
  <2>1. Kept
    BY <1>1, <1>2 DEF Kept, SameHandle, MovesOn, Known, Verified, SomeBoundary
  <2> QED
    BY <1>1, <2>1, TracedKept
<1>3. CASE ws' = Worker(op.gen + 1, Chosen.ns) /\ recovery' = [pc |-> "verify", gen |-> op.gen + 1]
  <2> SUFFICES ASSUME ~renewed
               PROVE  Handles'
    BY <1>1 DEF Traced
  <2>1. Handles /\ op.state # "none" /\ op.gen \in Nat /\ op.rev \in Nat
    BY <1>1, ChosenIsGood DEF Traced, Books, Unsubmitted, Shapes, OpRow
  <2>2. Chosen.ns = op.ns /\ Chosen.ns \in Namespace
    <3>1. Good(selection[op.attempt].id) /\ Chosen.ns \in Namespace
      BY <1>1, ChosenIsGood
    <3>2. Chosen \in Known /\ Chosen.gen = op.gen /\ Chosen.rev = op.rev /\ ~Chosen.partial
      BY <3>1 DEF Good, Chosen, Known
    <3> QED
      BY <2>1, <3>1, <3>2 DEF Handles
  <2>3. ws'.present /\ ws'.gen = op.gen + 1 /\ ws'.rev = 0 /\ ws'.ns = op.ns
    BY <1>3, <2>1, <2>2, WorkerRows
  <2>4. Names(op.gen, op.rev, op.ns)' /\ Names(op.gen + 1, 0, op.ns)'
    BY <1>1, <2>1, <2>3 DEF Names
  <2>5. Known' = Known
    BY <1>1 DEF Known
  <2> QED
    BY <1>1, <2>1, <2>4, <2>5 DEF Handles
<1> QED
  BY <1>2, <1>3, RestoreMoves

\* only a restored namespace that equals the checkpoint is marked
LEMMA VerifyTraced ==
  ASSUME Shapes, Books, Shapes', Traced, Verify
  PROVE  Traced'
<1>1. /\ UNCHANGED <<renewed, ws, catalog, capture, boundary, op, runs>> /\ recovery.pc = "verify"
      /\ recovery.gen = op.gen + 1 /\ recovery \in RecoveryRow
  BY DEF Verify, weather, registry, Books, Recovering, Shapes
<1>2. CASE recovery'.pc # "mark"
  <2>1. recovery'.pc \in {"idle", "failed"}
    BY <1>1, <1>2 DEF Verify, RecoveryRow
  <2>2. Kept
    BY <1>1, <2>1 DEF Kept, SameHandle, MovesOn, Known, Verified, SomeBoundary
  <2> QED
    BY <1>1, <2>2, TracedKept
<1>3. CASE recovery'.pc = "mark"
  <2>1. Attachable(recovery.gen, 0) /\ ws.ns = Chosen.ns
    BY <1>1, <1>3 DEF Verify, RecoveryRow
  <2> SUFFICES ASSUME ~renewed
               PROVE  Handles'
    BY <1>1 DEF Traced
  <2>2. Handles /\ op.state # "none"
    BY <1>1, ChosenIsGood DEF Traced, Books, Unsubmitted
  <2>3. Chosen.ns = op.ns
    <3>1. Good(selection[op.attempt].id)
      BY <1>1, ChosenIsGood
    <3>2. Chosen \in Known /\ Chosen.gen = op.gen /\ Chosen.rev = op.rev /\ ~Chosen.partial
      BY <3>1 DEF Good, Chosen, Known
    <3> QED
      BY <2>2, <3>2 DEF Handles
  <2>4. Names(op.gen + 1, 0, op.ns)
    BY <1>1, <2>1, <2>3 DEF Attachable, CheckHandle, Names
  <2>5. Known' = Known
    BY <1>1 DEF Known
  <2> QED
    BY <1>1, <2>2, <2>4, <2>5 DEF Handles, Names
<1> QED
  BY <1>2, <1>3

\* the rest of the pass, a published checkpoint and the death of the host
LEMMA OthersKeep ==
  ASSUME Shapes, Books,
         Select \/ Mark \/ Retire \/ Admit \/ Abandon \/ PublishCheckpoint \/ HostDies
  PROVE  Kept /\ runs' = runs
<1>0. op \in OpRow /\ ws \in WorkerRow /\ recovery \in RecoveryRow /\ catalog \in Seq(ManifestRow)
  BY DEF Shapes
<1>1. CASE Select \/ Retire \/ Mark
  <2>1. UNCHANGED <<renewed, ws, catalog, capture, boundary, op, runs>>
    BY <1>1 DEF Select, Retire, Mark, weather, registry
  <2>2. Verified' => Verified
    BY <1>0, <1>1, <2>1 DEF Select, Retire, Mark, Verified, SomeBoundary, RecoveryRow
  <2> QED
    BY <2>1, <2>2 DEF Kept, SameHandle, MovesOn, Known
<1>2. CASE Admit
  <2>1. UNCHANGED <<renewed, ws, catalog, capture, runs>> /\ Verified
    BY <1>2 DEF Admit, weather, Verified
  <2>2. SameHandle
    <3>1. op' = op \/ op' = [op EXCEPT !.state = "accepted", !.dispatch = "queued"]
      BY <1>2 DEF Admit
    <3>2. op.state # "none"
      BY <1>2, ChosenIsGood DEF Admit, Books, Unsubmitted
    <3> QED
      BY <1>0, <3>1, <3>2 DEF SameHandle, OpRow
  <2> QED
    BY <2>1, <2>2 DEF Kept, MovesOn, Known
<1>3. CASE Abandon
  <2>1. /\ UNCHANGED <<renewed, catalog, capture, boundary, runs>>
        /\ recovery' = [pc |-> "idle", gen |-> 0]
    BY <1>3 DEF Abandon, weather
  <2>2. SameHandle
    <3>1. op' = op \/ op' = [op EXCEPT !.dispatch = "parked"]
      BY <1>3 DEF Abandon, Refuse
    <3> QED
      BY <1>0, <3>1 DEF SameHandle, OpRow
  <2>3. MovesOn(ws')
    <3>1. ws' = ws \/ ws' = Closed
      BY <1>3 DEF Abandon
    <3> QED
      BY <1>0, <3>1 DEF Closed, MovesOn, WorkerRow
  <2> QED
    BY <2>1, <2>2, <2>3 DEF Kept, Known, Verified, SomeBoundary
<1>4. CASE PublishCheckpoint
  <2>1. /\ UNCHANGED <<renewed, ws, boundary, op, recovery, runs>>
        /\ catalog' = Append(catalog, capture) /\ capture' = NoManifest
    BY <1>4 DEF PublishCheckpoint, weather
  <2>2. Known' \subseteq Known \cup {NoManifest}
    <3>1. \A k \in 1..Len(catalog') : catalog'[k] = capture \/ \E j \in 1..Len(catalog) :
                                                                  catalog'[k] = catalog[j]
      BY <1>0, <2>1
    <3> QED
      BY <2>1, <3>1 DEF Known
  <2> QED
    BY <2>1, <2>2 DEF Kept, SameHandle, MovesOn, Verified, SomeBoundary
<1>5. CASE HostDies
  BY <1>5, NoRows DEF HostDies, registry, Kept, SameHandle, MovesOn, Known, Verified, SomeBoundary
<1> QED
  BY <1>1, <1>2, <1>3, <1>4, <1>5

LEMMA TracedStep == Shapes /\ Books /\ Traced /\ [Next]_vars => Traced'
<1> SUFFICES ASSUME Shapes, Books, Traced, [Next]_vars PROVE Traced'
  OBVIOUS
<1>0. Shapes'
  BY BooksStep
<1>1. CASE Clients
  BY <1>0, <1>1, ClientsKeep, TracedKept DEF Traced
<1>2. CASE Registers
  BY <1>0, <1>2, RegistersKeep, TracedKept
<1>3. CASE TakeCheckpoint \/ Submit \/ Restore \/ Verify
  BY <1>0, <1>3, TakesTraced, SubmitTraced, RestoreTraced, VerifyTraced
<1>4. CASE Select \/ Mark \/ Retire \/ Admit \/ Abandon \/ PublishCheckpoint \/ HostDies
  BY <1>0, <1>4, OthersKeep, TracedKept
<1>5. ASSUME NEW a \in Attempt, Handler(a)
      PROVE  Traced'
  <2>1. CASE Lapse(a)
    BY <1>2, <2>1 DEF Registers
  <2>2. CASE ~Lapse(a)
    <3>1. Claim(a) \/ Begin(a) \/ Execute(a) \/ RunEnds(a) \/ Commit(a) \/ Park(a)
      BY <1>5, <2>2 DEF Handler
    <3>2. Kept /\ (Execute(a) \/ runs' = runs)
      BY <3>1, HandlersKeep
    <3> QED
      BY <1>0, <3>2, ExecuteTraced, TracedKept
  <2> QED
    BY <2>1, <2>2
<1> QED
  BY <1>1, <1>2, <1>3, <1>4, <1>5 DEF Next, Tools, Clients, Registers, Recovery

\* Every attempt of the program starts from the very namespace the program was
\* submitted for, whatever the client, a lost worker, a fenced handler that still
\* runs or a restore did in between, until the workspace is built anew.
THEOREM EveryAttemptStartsAlike == Spec => []RunsFromBoundary
<1>1. Init => Traced
  <2> SUFFICES ASSUME Init PROVE Handles /\ \A a \in Attempt : runs[a] \subseteq {op.ns}
    BY DEF Traced
  <2>1. Known = {NoManifest} /\ op.state = "none" /\ ~Verified
    BY DEF Init, Known, Verified, SomeBoundary
  <2>2. ws.present => ws.gen = 1
    BY DEF Init, Worker, NoWorker
  <2>3. Names(NoManifest.gen, NoManifest.rev, NoManifest.ns)
    BY <2>2 DEF Names, NoManifest
  <2> QED
    BY <2>1, <2>3 DEF Init, Handles
<1>2. Traced => RunsFromBoundary
  BY DEF Traced, RunsFromBoundary
<1> QED
  BY <1>1, <1>2, BooksInit, BooksStep, TracedStep, PTL DEF Spec
=============================================================================
