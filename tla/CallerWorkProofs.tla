-------------------------- MODULE CallerWorkProofs --------------------------
(***************************************************************************)
(* Caller-delegated work, for any number of callers, tickets, cells,       *)
(* claims and attempts.                                                    *)
(*                                                                         *)
(* The argument.  A ticket that has not started has no driver past its     *)
(* mark, the mark starts it for one driver under the claim it then keeps,  *)
(* and only that driver may send: so a ticket is sent at most once, and    *)
(* not at all if it is withdrawn, which only an unstarted ticket can be.   *)
(* The operation waits for at most its latest suspension, and an attempt   *)
(* that runs has consumed every earlier settlement, or is about to consume *)
(* the one that was prepared for it.                                       *)
(***************************************************************************)
EXTENDS CallerWork, FiniteSetTheorems, TLAPS

-----------------------------------------------------------------------------
(* Types.                                                                  *)

TicketRow == [state : TicketStates, revision : Nat, claim : 0..MaxClaims, expires : Nat,
              started : BOOLEAN, settlement : Receipts \cup {NoReceipt}]
SuspRow == [state : {"absent", "pending", "settled", "cancelled", "parked"}, control : Nat]
OutboxRow == [state : {"none", "pending", "prepared", "consumed"}, owner : 0..MaxAttempts]
OpRow == [state : OpTerminal \cup {"accepted", "running", "indeterminate"},
          dispatch : {"queued", "running", "parked", "completed"}, attempt : 0..MaxAttempts]
JobRow == [phase : Phases, control : Nat, mirror : BOOLEAN]
ControlRow == [revision : Nat, cancelled : BOOLEAN]
CellRow == [state : {"none", "prepared", "running", "committed", "lost_before_commit"},
            attempt : 0..MaxAttempts, index : 0..MaxCells, runs : Nat]
DriverPhases == {"idle", "prepared", "mark_in_progress", "mark_unconfirmed",
                 "send_started", "outcome_unknown", "send_observed"}
DriverRow == [phase : DriverPhases, on : 0..MaxSuspensions, claim : 0..MaxClaims,
              revision : Nat, saw : Answers]
SweepRow == [pc : {"idle", "act", "terminal", "expire", "raised"}, state : TicketStates,
             revision : Nat]
CancelRow == [pc : {"idle", "ticket", "intent", "dequeue"}, on : 0..MaxSuspensions,
              revision : Nat]

StoreTypes ==
  /\ now \in 0..MaxTime
  /\ ticket \in [Suspension -> TicketRow]
  /\ receipts \in [Suspension -> SUBSET Receipts]
  /\ journal \in [Suspension -> BOOLEAN]
  /\ claims \in 0..MaxClaims
  /\ driver \in [Driver -> DriverRow]
  /\ sends \in [Suspension -> Seq(Claim)]

JobTypes ==
  /\ op \in OpRow
  /\ job \in JobRow
  /\ control \in ControlRow
  /\ susp \in [Suspension -> SuspRow]
  /\ outbox \in [Suspension -> OutboxRow]
  /\ cell \in CellRow

ThreadTypes ==
  /\ up \in BOOLEAN
  /\ worker \in {"none", "begin", "ask", "consume", "cell", "run", "finalize", "close", "done",
                "abstain", "timeout", "fail"}
  /\ notify \subseteq Suspension
  /\ sweep \in SweepRow
  /\ canceller \in CancelRow

\* Suspensions are numbered in the order they were opened.
Numbered == Latest \in 0..MaxSuspensions /\ Asked = 1..Latest

\* What the processes hold names a suspension that was opened.
Held ==
  /\ \A d \in Driver :
       /\ driver[d].phase # "idle" => driver[d].on \in Suspension /\ driver[d].claim \in Claim
       /\ driver[d].phase = "send_observed" => driver[d].saw \in Outcomes
  /\ sweep.pc # "idle" => Late /\ Latest # 0
  /\ sweep.pc = "act" =>
       /\ sweep.revision <= ticket[Latest].revision
       /\ sweep.revision = ticket[Latest].revision => ticket[Latest].state = sweep.state
  /\ canceller.pc = "ticket" => canceller.on \in Suspension

NeverStarted == Unsent \cup {"absent", "cancelled_before_send"}
MustHaveStarted == MayHaveSent \cup Settled \cup {"quarantined"}

\* What the state of a ticket says of its claim.
Claims(t) ==
  /\ t.state \in NeverStarted => ~t.started
  /\ t.state \in MustHaveStarted => t.started
  /\ t.started \/ t.state = "send_reserved" => t.claim \in Claim
  /\ t.state = "absent" => t = NoTicket

Ticketed ==
  \A s \in Suspension :
    /\ Claims(ticket[s])
    /\ susp[s].state = "absent" <=> ticket[s].state = "absent"

Typed == StoreTypes /\ JobTypes /\ ThreadTypes /\ Numbered /\ Held /\ Ticketed

USE DEF Suspension, Claim

LEMMA LatestIs ==
  ASSUME NEW n \in Nat, Asked = 1..n
  PROVE  Latest = n
BY FS_Interval DEF Latest

LEMMA NextLatestIs ==
  ASSUME NEW n \in Nat, Asked' = 1..n
  PROVE  Latest' = n
BY FS_Interval DEF Latest

LEMMA LatestStays == Asked' = Asked => Latest' = Latest
BY DEF Latest

LEMMA TypedInit == Init => Typed
<1> SUFFICES ASSUME Init PROVE Typed
  OBVIOUS
<1>1. Asked = 1..0
  BY DEF Init, Asked
<1>2. Latest = 0
  BY <1>1, LatestIs
<1>3. StoreTypes
  BY CallerAssumption
  DEF Init, StoreTypes, TicketRow, TicketStates, NoTicket, NoReceipt, DriverRow, DriverPhases,
      NoDriver, Answers, Unsent
<1>4. JobTypes
  BY CallerAssumption DEF Init, JobTypes, OpRow, JobRow, Phases, ControlRow, SuspRow, OutboxRow,
                          CellRow, NoCell
<1>5. ThreadTypes
  BY CallerAssumption
  DEF Init, ThreadTypes, SweepRow, NoSweep, TicketStates, CancelRow, NoCancel
<1>6. Numbered
  BY <1>1, <1>2, CallerAssumption DEF Numbered
<1>7. Held /\ Ticketed
  BY DEF Init, Held, Ticketed, NoDriver, NoSweep, NoCancel, Claims, NoTicket, NeverStarted,
         MustHaveStarted, MayHaveSent, Settled
<1> QED
  BY <1>3, <1>4, <1>5, <1>6, <1>7 DEF Typed

-----------------------------------------------------------------------------
(* What a step may do to a ticket.                                         *)

Puts(s, u) == ticket' = [ticket EXCEPT ![s] = u]

Reserves(t, u) ==
  t.state = "pending" /\ u.state = "send_reserved" /\ ~u.started /\ u.claim \in Claim
Releases(t, u) == t.state = "send_reserved" /\ u.state = "pending" /\ ~u.started
Withdraws(t, u) == t.state \in Unsent /\ u.state = "cancelled_before_send" /\ ~u.started
Marks(t, u) ==
  /\ t.state = "send_reserved" /\ u.state = "send_started"
  /\ u.started /\ u.claim = t.claim
Learns(t, u) ==
  /\ t.state \in MayHaveSent /\ u.state \in MustHaveStarted
  /\ u.started /\ u.claim = t.claim

Alone(s, known) == Cardinality({r \in known : r.claim = ticket[s].claim}) = 1

\* what a settlement rests on when it is written
Rests(s, u) ==
  u.state \in Settled =>
    /\ u.settlement \in receipts'[s]
    /\ u.settlement.claim = u.claim
    /\ u.state = "settled_success" => journal'[s]
    /\ Alone(s, receipts'[s])

Turns(s, u) ==
  /\ u \in TicketRow
  /\ u.revision = ticket[s].revision + 1
  /\ \/ Reserves(ticket[s], u)
     \/ Releases(ticket[s], u)
     \/ Withdraws(ticket[s], u)
     \/ Marks(ticket[s], u)
     \/ Learns(ticket[s], u)
  /\ Rests(s, u)

TurnsOne == \E s \in Suspension, u \in TicketRow : Puts(s, u) /\ Turns(s, u)

\* the row a transaction writes: the next revision of what it made of it
Written(s, t) == [t EXCEPT !.revision = ticket[s].revision + 1]

LEMMA BumpPuts ==
  ASSUME NEW s \in Suspension, NEW t, Bump(s, t)
  PROVE  Puts(s, Written(s, t))
BY DEF Bump, Puts, Written

LEMMA TurnsIntro ==
  ASSUME NEW s \in Suspension, NEW u, Puts(s, u), Turns(s, u)
  PROVE  TurnsOne
BY DEF TurnsOne, Turns

LEMMA TicketHas ==
  ASSUME StoreTypes, NEW s \in Suspension
  PROVE  ticket[s] \in TicketRow
BY DEF StoreTypes

LEMMA WrittenRow ==
  ASSUME NEW s \in Suspension, StoreTypes, NEW t \in TicketRow
  PROVE  /\ Written(s, t) \in TicketRow
         /\ Written(s, t).revision = ticket[s].revision + 1
         /\ Written(s, t).state = t.state
         /\ Written(s, t).started = t.started
         /\ Written(s, t).claim = t.claim
         /\ Written(s, t).settlement = t.settlement
<1>1. ticket[s].revision \in Nat
  BY TicketHas DEF TicketRow
<1> QED
  BY <1>1 DEF TicketRow, Written

LEMMA WrittenState ==
  ASSUME StoreTypes, NEW s \in Suspension, NEW t \in TicketRow, Bump(s, t)
  PROVE  ticket'[s].state = t.state
<1> DEFINE u == Written(s, t)
<1>1. Puts(s, u)
  BY BumpPuts
<1>2. u.state = t.state
  BY WrittenRow
<1> HIDE DEF u
<1>3. ticket'[s] = u
  BY <1>1 DEF Puts, StoreTypes
<1> QED
  BY <1>2, <1>3

LEMMA WithdrawalTurns ==
  ASSUME StoreTypes, Ticketed, NEW s \in Suspension, ticket[s].state \in Unsent,
         Bump(s, [ticket[s] EXCEPT !.state = "cancelled_before_send"])
  PROVE  TurnsOne
<1> DEFINE t == [ticket[s] EXCEPT !.state = "cancelled_before_send"]
<1>1. ticket[s] \in TicketRow
  BY TicketHas
<1>2. /\ t \in TicketRow /\ t.state = "cancelled_before_send"
      /\ t.started = ticket[s].started
  BY <1>1 DEF TicketRow, TicketStates
<1>3. ~ticket[s].started
  BY DEF Ticketed, Claims, NeverStarted
<1>4. Bump(s, t)
  OBVIOUS
<1> HIDE DEF t
<1>5. Puts(s, Written(s, t))
  BY <1>4, BumpPuts
<1>6. Turns(s, Written(s, t))
  BY <1>2, <1>3, WrittenRow DEF Turns, Withdraws, Rests, Settled
<1> QED
  BY <1>5, <1>6, TurnsIntro

LEMMA ObservationTurns ==
  ASSUME StoreTypes, Ticketed, NEW s \in Suspension, ticket[s].state \in MayHaveSent,
         NEW state \in MayHaveSent \cup {"quarantined"},
         Bump(s, [ticket[s] EXCEPT !.state = state])
  PROVE  TurnsOne
<1> DEFINE t == [ticket[s] EXCEPT !.state = state]
<1>1. ticket[s] \in TicketRow
  BY TicketHas
<1>2. /\ t \in TicketRow /\ t.state = state
      /\ t.started = ticket[s].started /\ t.claim = ticket[s].claim
  BY <1>1 DEF TicketRow, TicketStates, MayHaveSent
<1>3. ticket[s].started
  BY DEF Ticketed, Claims, MustHaveStarted
<1>4. Bump(s, t)
  OBVIOUS
<1> HIDE DEF t
<1>5. Puts(s, Written(s, t))
  BY <1>4, BumpPuts
<1>6. state \notin Settled /\ state \in MustHaveStarted
  BY DEF MayHaveSent, Settled, MustHaveStarted
<1>7. Turns(s, Written(s, t))
  BY <1>2, <1>3, <1>6, WrittenRow DEF Turns, Learns, Rests
<1> QED
  BY <1>5, <1>7, TurnsIntro

LEMMA ReleaseTurns ==
  ASSUME StoreTypes, NEW s \in Suspension, ticket[s].state = "send_reserved",
         Bump(s, Unclaimed(ticket[s]))
  PROVE  TurnsOne
<1> DEFINE t == Unclaimed(ticket[s])
<1>1. ticket[s] \in TicketRow
  BY TicketHas
<1>2. t \in TicketRow /\ t.state = "pending" /\ ~t.started
  <2>1. "pending" \in TicketStates /\ 0 \in 0..MaxClaims
    BY CallerAssumption DEF TicketStates, Unsent
  <2>2. \A x \in TicketRow : /\ Unclaimed(x) \in TicketRow /\ Unclaimed(x).state = "pending"
                            /\ ~Unclaimed(x).started
    BY <2>1 DEF Unclaimed, TicketRow
  <2> QED
    BY <1>1, <2>2
<1>4. Bump(s, t)
  OBVIOUS
<1> HIDE DEF t
<1>5. Puts(s, Written(s, t))
  BY <1>4, BumpPuts
<1>6. Turns(s, Written(s, t))
  BY <1>2, WrittenRow DEF Turns, Releases, Rests, Settled
<1> QED
  BY <1>5, <1>6, TurnsIntro

\* There are finitely many receipts a ticket can have.
LEMMA ReceiptsAreFinite ==
  ASSUME NEW known \in SUBSET Receipts
  PROVE  IsFiniteSet(known)
<1> DEFINE Via == {"commit", "callback"}
           Triples == Claim \X (Outcomes \X Via)
           f == [x \in Triples |-> [claim |-> x[1], outcome |-> x[2][1], via |-> x[2][2]]]
<1>1. IsFiniteSet(Outcomes)
  <2>1. IsFiniteSet({"succeeded"} \cup ({"failed"} \cup {"cancelled"}))
    BY FS_Singleton, FS_Union
  <2> QED
    <3>1. Outcomes \subseteq {"succeeded"} \cup ({"failed"} \cup {"cancelled"})
      BY CallerAssumption
    <3> QED
      BY <2>1, <3>1, FS_Subset
<1>2. IsFiniteSet(Claim)
  BY FS_Interval, CallerAssumption
<1>3. IsFiniteSet({"commit"} \cup {"callback"})
  BY FS_Singleton, FS_Union
<1>4. IsFiniteSet(Triples)
  <2>1. IsFiniteSet(Via)
    BY <1>3
  <2> QED
    BY <1>1, <1>2, <2>1, FS_Product
<1>5. f \in Surjection(Triples, Receipts)
  <2>1. f \in [Triples -> Receipts]
    BY DEF Receipts
  <2>2. ASSUME NEW r \in Receipts
        PROVE  \E x \in Triples : f[x] = r
    <3>1. <<r.claim, <<r.outcome, r.via>>>> \in Triples
      BY DEF Receipts
    <3>2. f[<<r.claim, <<r.outcome, r.via>>>>] = r
      BY <3>1 DEF Receipts
    <3> QED
      BY <3>1, <3>2
  <2> HIDE DEF f
  <2> QED
    BY <2>1, <2>2 DEF Surjection
<1>6. IsFiniteSet(Receipts)
  BY <1>4, <1>5, FS_Surjection
<1> QED
  BY <1>6, FS_Subset

\* a suspension ends with its ticket
Ends(s, state) == ProjectTerminal(s, state) /\ ticket'[s].state = state

LEMMA SettlementTurns ==
  ASSUME StoreTypes, Ticketed, NEW s \in Suspension, ticket[s].state \in MayHaveSent,
         receipts'[s] \in SUBSET Receipts,
         NEW receipt \in receipts'[s], receipt.claim = ticket[s].claim,
         NEW recorded \in BOOLEAN, recorded => journal'[s],
         ApplySettlement(s, receipt, receipts'[s], recorded)
  PROVE  /\ TurnsOne
         /\ \E state \in Settled \cup {"quarantined"} : Ends(s, state)
<1>1. CASE Conflicting(s, receipts'[s])
  <2>1. Bump(s, [ticket[s] EXCEPT !.state = "quarantined"]) /\ ProjectTerminal(s, "quarantined")
    BY <1>1 DEF ApplySettlement
  <2>2. /\ [ticket[s] EXCEPT !.state = "quarantined"] \in TicketRow
        /\ [ticket[s] EXCEPT !.state = "quarantined"].state = "quarantined"
    BY TicketHas DEF TicketRow, TicketStates
  <2>3. Ends(s, "quarantined")
    BY <2>1, <2>2, WrittenState DEF Ends
  <2> QED
    BY <2>1, <2>3, ObservationTurns
<1>2. CASE ~Conflicting(s, receipts'[s])
  <2> DEFINE state == Settlement(receipt.outcome)
             t == [ticket[s] EXCEPT !.state = state, !.settlement = receipt]
  <2>1. Authority(s, receipt, recorded) /\ Bump(s, t) /\ ProjectTerminal(s, state)
    BY <1>2 DEF ApplySettlement
  <2>2. state \in Settled /\ (state = "settled_success" => receipt.outcome = "succeeded")
    BY DEF Settlement, Settled
  <2>3. ticket[s] \in TicketRow
    BY TicketHas
  <2>4. ticket[s].started
    BY DEF Ticketed, Claims, MustHaveStarted
  <2>5. /\ t \in TicketRow /\ t.state = state /\ t.settlement = receipt
        /\ t.started = ticket[s].started /\ t.claim = ticket[s].claim
    BY <2>2, <2>3 DEF TicketRow, TicketStates
  <2>6. Alone(s, receipts'[s])
    <3> DEFINE mine == {r \in receipts'[s] : r.claim = ticket[s].claim}
    <3>1. IsFiniteSet(mine)
      BY ReceiptsAreFinite
    <3>2. receipt \in mine
      OBVIOUS
    <3>3. Cardinality(mine) \in Nat /\ Cardinality(mine) # 0
      BY <3>1, <3>2, FS_CardinalityType, FS_EmptySet
    <3>4. ~(Cardinality(mine) > 1)
      BY <1>2 DEF Conflicting
    <3> QED
      BY <3>3, <3>4 DEF Alone
  <2> HIDE DEF t, state
  <2>7. Puts(s, Written(s, t))
    BY <2>1, BumpPuts
  <2>8. state \in MustHaveStarted
    BY <2>2 DEF MustHaveStarted
  <2>9. Turns(s, Written(s, t))
    <3>1. Learns(ticket[s], Written(s, t))
      BY <2>4, <2>5, <2>8, WrittenRow DEF Learns
    <3>2. Rests(s, Written(s, t))
      BY <2>1, <2>2, <2>5, <2>6, WrittenRow DEF Rests, Authority
    <3> QED
      BY <2>5, <3>1, <3>2, WrittenRow DEF Turns
  <2>10. Ends(s, state)
    BY <2>1, <2>5, WrittenState DEF Ends
  <2> QED
    BY <2>2, <2>7, <2>9, <2>10, TurnsIntro
<1> QED
  BY <1>1, <1>2

\* a new suspension, while the deadline has not passed
Opening ==
  /\ Suspend /\ Latest < MaxSuspensions /\ ~Late /\ up
  /\ \/ worker = "ask" /\ UNCHANGED outbox
     \/ worker = "consume" /\ ConsumeOutbox

\* the rest of the coordinator: no ticket, no receipt and no driver moves
Coordination == UNCHANGED <<ticket, paper, caller>>

\* the two ways in which the coordinator withdraws a ticket or calls it unknown
CoordinatorTurns == UNCHANGED <<paper, caller>> /\ TurnsOne

LEMMA HandlerMoves ==
  ASSUME HandlerSteps
  PROVE  Coordination \/ (Opening /\ UNCHANGED <<paper, caller>>)
<1>1. CASE SuspendPlanner
  BY <1>1 DEF SuspendPlanner, Opening, Undisturbed
<1>2. CASE ConsumeCorrection
  BY <1>2 DEF ConsumeCorrection, Opening, Selected
<1>3. CASE BeginRunning \/ HandlerGivesUp \/ StartCell \/ CommitCell \/ FinalizeStart
             \/ FinalizeCommit \/ OuterSuccess \/ InnerTerminal
  BY <1>3 DEF BeginRunning, HandlerGivesUp, StartCell, CommitCell, FinalizeStart, FinalizeCommit,
              OuterSuccess, InnerTerminal, Coordination
<1>4. CASE OuterTerminal \/ FailureUnmarked \/ HandlerParks \/ ConsumeTerminal \/ ConsumeDirective
  BY <1>4 DEF OuterTerminal, FailureUnmarked, HandlerParks, ConsumeTerminal, ConsumeDirective,
              Coordination
<1> QED
  BY <1>1, <1>2, <1>3, <1>4 DEF HandlerSteps

LEMMA SuccessorMoves ==
  ASSUME Successor
  PROVE  Coordination \/ (Opening /\ UNCHANGED <<paper, caller>>)
<1>1. CASE HandlerSteps
  BY <1>1, HandlerMoves
<1>2. ASSUME NEW s \in Suspension, NotifySettlement(s)
      PROVE  Coordination
  BY <1>2 DEF NotifySettlement, Coordination
<1>3. CASE ExpireQueued \/ ClaimFirst \/ TakeOverCell \/ ClaimSuccessor
             \/ RecoverCell \/ RecoverPlanner \/ Resubmit
  BY <1>3 DEF ExpireQueued, ClaimFirst, TakeOverCell, ClaimSuccessor, RecoverCell, RecoverPlanner,
              Resubmit, Coordination
<1> QED
  BY <1>1, <1>2, <1>3 DEF Successor

LEMMA SweeperMoves ==
  ASSUME Typed, Sweeper
  PROVE  Coordination \/ CoordinatorTurns
<1>1. CASE SweepAct
  <2> DEFINE s == Latest
             withdraw == SweepWithdraws(sweep.state)
             unknown == sweep.state = "send_started"
             wins == \/ withdraw /\ Cancellable(s, sweep.revision)
                     \/ unknown /\ ticket[s].revision = sweep.revision
  <2>1. /\ UNCHANGED <<paper, caller>>
        /\ IF wins /\ withdraw THEN CancelUnsent(s)
           ELSE IF wins THEN Bump(s, [ticket[s] EXCEPT !.state = "outcome_unknown"])
                ELSE UNCHANGED ticket
    BY <1>1 DEF SweepAct
  <2>2. s \in Suspension
    BY <1>1 DEF SweepAct, Typed, Numbered, Held
  <2>3. CASE wins /\ withdraw
    <3>1. ticket[s].state \in Unsent
      <4>1. Cancellable(s, sweep.revision)
        BY <2>3 DEF SweepWithdraws, Unsent
      <4> QED
        BY <4>1 DEF Cancellable
    <3>2. Bump(s, [ticket[s] EXCEPT !.state = "cancelled_before_send"])
      BY <2>1, <2>3 DEF CancelUnsent
    <3> HIDE DEF s
    <3> QED
      BY <2>1, <2>2, <3>1, <3>2, WithdrawalTurns DEF Typed, CoordinatorTurns
  <2>4. CASE wins /\ ~withdraw
    <3>1. ticket[s].state \in MayHaveSent
      BY <1>1, <2>4 DEF SweepAct, Typed, Held, MayHaveSent
    <3>2. Bump(s, [ticket[s] EXCEPT !.state = "outcome_unknown"])
      BY <2>1, <2>4
    <3>3. "outcome_unknown" \in MayHaveSent \cup {"quarantined"}
      BY DEF MayHaveSent
    <3> HIDE DEF s
    <3> QED
      BY <2>1, <2>2, <3>1, <3>2, <3>3, ObservationTurns DEF Typed, CoordinatorTurns
  <2>5. CASE ~wins
    BY <2>1, <2>5 DEF Coordination
  <2> QED
    BY <2>3, <2>4, <2>5
<1>2. CASE SweepRead \/ SweepTerminal \/ SweepExpire \/ SweepRetry
  BY <1>2 DEF SweepRead, SweepTerminal, SweepExpire, SweepRetry, Coordination
<1> QED
  BY <1>1, <1>2 DEF Sweeper

LEMMA CancellingMoves ==
  ASSUME Typed, Cancelling
  PROVE  Coordination \/ CoordinatorTurns
<1>1. CASE CancelTicket
  <2> DEFINE s == canceller.on
  <2>1. CASE Cancellable(s, canceller.revision)
    <3>1. /\ ticket[s].state \in Unsent
          /\ Bump(s, [ticket[s] EXCEPT !.state = "cancelled_before_send"])
      BY <1>1, <2>1 DEF CancelTicket, CancelUnsent, Cancellable
    <3>2. s \in Suspension
      BY <1>1 DEF CancelTicket, Typed, Held
    <3>3. UNCHANGED <<paper, caller>>
      BY <1>1 DEF CancelTicket
    <3> HIDE DEF s
    <3> QED
      BY <3>1, <3>2, <3>3, WithdrawalTurns DEF Typed, CoordinatorTurns
  <2>2. CASE ~Cancellable(s, canceller.revision)
    BY <1>1, <2>2 DEF CancelTicket, Coordination
  <2> QED
    BY <2>1, <2>2
<1>2. CASE CancelStart \/ CancelIntent \/ CancelDequeue
  BY <1>2 DEF CancelStart, CancelIntent, CancelDequeue, Coordination
<1> QED
  BY <1>1, <1>2 DEF Cancelling

LEMMA LossMoves ==
  ASSUME Losses
  PROVE  Coordination
BY DEF Losses, WorkerLost, HostLost, HostRestarts, Coordination

-----------------------------------------------------------------------------
(* The ticket store and its drivers.                                       *)

\* what the actions on one ticket do to it and to its papers
LEMMA StoreMoves ==
  ASSUME Typed, NEW s \in Suspension,
         \/ ReclaimExpired(s) \/ CancelBeforeSend(s) \/ MarkOutcomeUnknown(s)
         \/ RequestTicketCancel(s) \/ ReconcileRetry(s) \/ ReconcileQuarantine(s)
  PROVE  CoordinatorTurns
<1>1. CASE ReclaimExpired(s) \/ ReconcileRetry(s)
  <2>1. ticket[s].state = "send_reserved" /\ Bump(s, Unclaimed(ticket[s]))
    BY <1>1 DEF ReclaimExpired, ReconcileRetry, Unstarted
  <2> QED
    BY <1>1, <2>1, ReleaseTurns DEF Typed, CoordinatorTurns, ReclaimExpired, ReconcileRetry
<1>2. CASE CancelBeforeSend(s)
  <2>1. /\ ticket[s].state \in Unsent
        /\ Bump(s, [ticket[s] EXCEPT !.state = "cancelled_before_send"])
    BY <1>2 DEF CancelBeforeSend, CancelUnsent, Cancellable
  <2> QED
    BY <1>2, <2>1, WithdrawalTurns DEF Typed, CoordinatorTurns, CancelBeforeSend
<1>3. CASE MarkOutcomeUnknown(s) \/ RequestTicketCancel(s) \/ ReconcileQuarantine(s)
  <2>1. /\ ticket[s].state \in MayHaveSent
        /\ \E state \in MayHaveSent \cup {"quarantined"} :
             Bump(s, [ticket[s] EXCEPT !.state = state])
    BY <1>3 DEF MarkOutcomeUnknown, RequestTicketCancel, ReconcileQuarantine, MayHaveSent
  <2> QED
    BY <1>3, <2>1, ObservationTurns
    DEF Typed, CoordinatorTurns, MarkOutcomeUnknown, RequestTicketCancel, ReconcileQuarantine
<1> QED
  BY <1>1, <1>2, <1>3

\* a settlement, by the thread of a lookup or by the claimant
LEMMA SettleMoves ==
  ASSUME Typed, NEW s \in Suspension, NEW r \in receipts[s],
         SettleCandidate(s, r) \/ ReconcileSettle(s, r)
  PROVE  /\ CoordinatorTurns
         /\ \E state \in Settled \cup {"quarantined"} : Ends(s, state)
<1>1. UNCHANGED <<paper, caller>>
  BY DEF SettleCandidate, ReconcileSettle
<1>2. receipts'[s] = receipts[s] /\ journal'[s] = journal[s]
  BY <1>1 DEF paper
<1>3. /\ ticket[s].state \in MayHaveSent /\ r.claim = ticket[s].claim
      /\ ApplySettlement(s, r, receipts'[s], journal[s])
  BY <1>2 DEF SettleCandidate, ReconcileSettle
<1>4. journal[s] \in BOOLEAN /\ receipts'[s] \in SUBSET Receipts
  BY <1>2 DEF Typed, StoreTypes
<1> QED
  BY <1>1, <1>2, <1>3, <1>4, SettlementTurns DEF Typed, CoordinatorTurns

\* what a driver does to its own row and to the sends of its ticket
DriverPuts(d, row) == driver' = [driver EXCEPT ![d] = row]

LEMMA ClaimMoves ==
  ASSUME Typed, NEW d \in Driver, NEW s \in Suspension, ClaimTicket(d, s)
  PROVE  /\ TurnsOne
         /\ UNCHANGED <<paper, sends>>
         /\ claims' \in 0..MaxClaims
         /\ \E row \in DriverRow : /\ DriverPuts(d, row) /\ row.phase = "prepared"
                                   /\ row.on = s /\ row.claim \in Claim
<1> DEFINE t == [ticket[s] EXCEPT !.state = "send_reserved", !.claim = claims + 1,
                                  !.expires = now + ClaimLease]
           row == [phase |-> "prepared", on |-> s, claim |-> claims + 1,
                   revision |-> ticket[s].revision + 1, saw |-> "none"]
<1>1. /\ ticket[s].state = "pending" /\ claims < MaxClaims /\ claims' = claims + 1
      /\ Bump(s, t) /\ DriverPuts(d, row) /\ UNCHANGED <<paper, sends>>
  BY DEF ClaimTicket, DriverPuts
<1>2. ticket[s] \in TicketRow /\ ~ticket[s].started
  BY <1>1, TicketHas DEF Typed, Ticketed, Claims, NeverStarted, Unsent
<1>3. claims + 1 \in Claim /\ now + ClaimLease \in Nat /\ claims + 1 \in 0..MaxClaims
  BY <1>1, CallerAssumption DEF Typed, StoreTypes
<1>4. /\ t \in TicketRow /\ t.state = "send_reserved" /\ t.claim = claims + 1
      /\ t.started = ticket[s].started
  BY <1>2, <1>3 DEF TicketRow, TicketStates, Unsent
<1>5. row \in DriverRow
  <2>1. ticket[s].revision + 1 \in Nat
    BY <1>2 DEF TicketRow
  <2>2. s \in 0..MaxSuspensions
    BY CallerAssumption
  <2> QED
    BY <1>3, <2>1, <2>2 DEF DriverRow, DriverPhases, Answers
<1>6. row.phase = "prepared" /\ row.on = s /\ row.claim = claims + 1
  OBVIOUS
<1> HIDE DEF t, row
<1>7. Puts(s, Written(s, t))
  BY <1>1, BumpPuts
<1>8. Turns(s, Written(s, t))
  BY <1>1, <1>2, <1>3, <1>4, WrittenRow DEF Turns, Reserves, Rests, Settled, Typed
<1> QED
  BY <1>1, <1>3, <1>5, <1>6, <1>7, <1>8, TurnsIntro

\* the mark, as the server does it: the ticket starts for this driver, or the
\* driver learns that it does not
MarkMoves(d) ==
  LET s == driver[d].on IN
  \/ /\ Marks(ticket[s], ticket'[s]) /\ TurnsOne
     /\ ticket[s].claim = driver[d].claim
     /\ DriverPuts(d, [driver[d] EXCEPT !.phase = "mark_in_progress"])
  \/ UNCHANGED ticket /\ DriverPuts(d, [driver[d] EXCEPT !.phase = "mark_unconfirmed"])

LEMMA MarkingMoves ==
  ASSUME Typed, NEW d \in Driver, MarkSendStarted(d)
  PROVE  MarkMoves(d) /\ UNCHANGED <<paper, claims, sends>>
<1> DEFINE s == driver[d].on
           t == [ticket[s] EXCEPT !.state = "send_started", !.started = TRUE]
<1>0. UNCHANGED <<paper, claims, sends>>
  BY DEF MarkSendStarted
<1>1. CASE Current(s) /\ Markable(ticket[s], driver[d])
  <2>1. /\ ticket[s].state = "send_reserved" /\ ticket[s].claim = driver[d].claim
        /\ Bump(s, t) /\ DriverPuts(d, [driver[d] EXCEPT !.phase = "mark_in_progress"])
    BY <1>1 DEF MarkSendStarted, Markable, DriverPuts
  <2>2. s \in Suspension
    BY DEF MarkSendStarted, Typed, Held
  <2> HIDE DEF s
  <2>3. ticket[s] \in TicketRow
    BY <2>2, TicketHas DEF Typed
  <2>4. /\ t \in TicketRow /\ t.state = "send_started" /\ t.claim = ticket[s].claim /\ t.started
    BY <2>3 DEF TicketRow, TicketStates, MayHaveSent
  <2> HIDE DEF t
  <2>5. Puts(s, Written(s, t))
    BY <2>1, <2>2, BumpPuts
  <2>6. Marks(ticket[s], Written(s, t)) /\ Turns(s, Written(s, t))
    BY <2>1, <2>2, <2>4, WrittenRow DEF Turns, Marks, Rests, Settled, Typed
  <2>7. ticket'[s] = Written(s, t)
    BY <2>2, <2>5 DEF Puts, Typed, StoreTypes
  <2>8. TurnsOne
    BY <2>2, <2>5, <2>6, TurnsIntro
  <2> USE DEF s
  <2> QED
    BY <1>0, <2>1, <2>6, <2>7, <2>8 DEF MarkMoves
<1>2. CASE ~(Current(s) /\ Markable(ticket[s], driver[d]))
  BY <1>0, <1>2 DEF MarkSendStarted, MarkMoves, DriverPuts
<1> QED
  BY <1>1, <1>2

PapersGrow ==
  /\ \A s \in Suspension : receipts[s] \subseteq receipts'[s] /\ (journal[s] => journal'[s])
  /\ receipts' \in [Suspension -> SUBSET Receipts]
  /\ journal' \in [Suspension -> BOOLEAN]

LEMMA CommitMoves ==
  ASSUME Typed, NEW d \in Driver, Commit(d)
  PROVE  /\ TurnsOne /\ PapersGrow
         /\ UNCHANGED <<claims, sends>> /\ DriverPuts(d, NoDriver)
         /\ \E state \in Settled \cup {"quarantined"} : Ends(driver[d].on, state)
<1> DEFINE s == driver[d].on
           receipt == [claim |-> driver[d].claim, outcome |-> driver[d].saw, via |-> "commit"]
           known == receipts[s] \cup {receipt}
           recorded == Journalled(s, driver[d].saw = "succeeded")
<1>1. /\ driver[d].phase = "send_observed" /\ ticket[s].state \in MayHaveSent
      /\ ticket[s].claim = driver[d].claim
      /\ receipts' = [receipts EXCEPT ![s] = known] /\ journal' = [journal EXCEPT ![s] = recorded]
      /\ ApplySettlement(s, receipt, known, recorded)
      /\ UNCHANGED <<claims, sends>> /\ DriverPuts(d, NoDriver)
  BY DEF Commit, DriverPuts
<1>2. s \in Suspension /\ receipt \in Receipts
  <2>1. driver[d].phase # "idle" /\ driver[d].on \in Suspension /\ driver[d].claim \in Claim
        /\ driver[d].saw \in Outcomes
    BY <1>1 DEF Typed, Held
  <2> QED
    BY <2>1 DEF Receipts
<1>3. recorded \in BOOLEAN /\ (journal[s] => recorded)
  BY <1>2 DEF Journalled, Typed, StoreTypes
<1>4. receipt.claim = ticket[s].claim /\ receipt \in known
  BY <1>1
<1> HIDE DEF s, receipt, recorded
<1>5. known \in SUBSET Receipts /\ receipts[s] \subseteq known
  BY <1>2 DEF Typed, StoreTypes
<1> HIDE DEF known
<1>6. receipts'[s] = known /\ journal'[s] = recorded
  BY <1>1, <1>2 DEF Typed, StoreTypes
<1>7. PapersGrow
  BY <1>1, <1>2, <1>3, <1>5 DEF PapersGrow, Typed, StoreTypes
<1>8. TurnsOne /\ \E state \in Settled \cup {"quarantined"} : Ends(s, state)
  BY <1>1, <1>2, <1>3, <1>4, <1>5, <1>6, SettlementTurns DEF Typed
<1> QED
  BY <1>1, <1>7, <1>8 DEF s

LEMMA CandidateMoves ==
  ASSUME Typed, NEW s \in Suspension, NEW outcome \in Outcomes, NEW sealed \in BOOLEAN,
         AppendCandidate(s, outcome, sealed)
  PROVE  PapersGrow /\ UNCHANGED <<ticket, caller>>
<1> DEFINE receipt == [claim |-> ticket[s].claim, outcome |-> outcome, via |-> "callback"]
<1>1. receipt \in Receipts
  BY DEF AppendCandidate, Typed, Ticketed, Claims, Receipts
<1>2. /\ receipts' = [receipts EXCEPT ![s] = @ \cup {receipt}]
      /\ journal' = [journal EXCEPT ![s] = Journalled(s, sealed)]
      /\ UNCHANGED <<ticket, caller>>
  BY DEF AppendCandidate
<1> HIDE DEF receipt
<1>3. receipts \in [Suspension -> SUBSET Receipts] /\ journal \in [Suspension -> BOOLEAN]
  BY DEF Typed, StoreTypes
<1> QED
  BY <1>1, <1>2, <1>3 DEF PapersGrow, Journalled

LEMMA PapersStay ==
  ASSUME Typed, UNCHANGED paper
  PROVE  PapersGrow
BY DEF paper, PapersGrow, Typed, StoreTypes

DriverMoves(d) ==
  \/ \E s \in Suspension : ClaimTicket(d, s)
  \/ MarkSendStarted(d) \/ MarkReturns(d) \/ PhysicalSend(d) \/ Commit(d) \/ DriverLeaves(d)

Candidate ==
  \E s \in Suspension, outcome \in Outcomes, sealed \in BOOLEAN :
    AppendCandidate(s, outcome, sealed)

\* Every step is of one of these kinds.
LEMMA StepKinds ==
  ASSUME Typed, [Next]_vars
  PROVE  \/ Coordination
         \/ Opening /\ UNCHANGED <<paper, caller>>
         \/ CoordinatorTurns
         \/ Candidate
         \/ \E d \in Driver : DriverMoves(d)
<1>1. CASE UNCHANGED vars
  BY <1>1 DEF vars, Coordination
<1>2. CASE Tick
  BY <1>2 DEF Tick, Coordination
<1>3. CASE TicketStore
  <2>1. PICK s \in Suspension :
          \/ ReclaimExpired(s) \/ CancelBeforeSend(s)
          \/ MarkOutcomeUnknown(s) \/ RequestTicketCancel(s) \/ Reconcile(s)
          \/ \E outcome \in Outcomes, sealed \in BOOLEAN : AppendCandidate(s, outcome, sealed)
          \/ \E r \in receipts[s] : SettleCandidate(s, r)
    BY <1>3 DEF TicketStore
  <2>2. CASE Reconcile(s)
    <3>1. CASE ReconcileRetry(s) \/ ReconcileQuarantine(s)
      BY <3>1, StoreMoves
    <3>2. ASSUME NEW r \in receipts[s], ReconcileSettle(s, r)
          PROVE  CoordinatorTurns
      BY <3>2, SettleMoves
    <3> QED
      BY <2>2, <3>1, <3>2 DEF Reconcile
  <2>3. ASSUME NEW r \in receipts[s], SettleCandidate(s, r)
        PROVE  CoordinatorTurns
    BY <2>3, SettleMoves
  <2>4. CASE \E outcome \in Outcomes, sealed \in BOOLEAN : AppendCandidate(s, outcome, sealed)
    BY <2>4 DEF Candidate
  <2> QED
    BY <2>1, <2>2, <2>3, <2>4, StoreMoves
<1>4. CASE Drivers
  BY <1>4 DEF Drivers, DriverMoves
<1>5. CASE Successor
  BY <1>5, SuccessorMoves
<1>6. CASE Sweeper
  BY <1>6, SweeperMoves
<1>7. CASE Cancelling
  BY <1>7, CancellingMoves
<1>8. CASE Losses
  BY <1>8, LossMoves
<1> QED
  BY <1>1, <1>2, <1>3, <1>4, <1>5, <1>6, <1>7, <1>8 DEF Next

LEMMA TimeMoves ==
  ASSUME [Next]_vars
  PROVE  now' = now \/ (now < MaxTime /\ now' = now + 1)
<1>1. CASE UNCHANGED vars \/ Tick
  BY <1>1 DEF vars, Tick
<1>2. CASE TicketStore
  BY <1>2 DEF TicketStore, ReclaimExpired, CancelBeforeSend, MarkOutcomeUnknown,
              RequestTicketCancel, Reconcile, ReconcileRetry, ReconcileSettle,
              ReconcileQuarantine, AppendCandidate, SettleCandidate
<1>3. CASE Drivers
  BY <1>3 DEF Drivers, ClaimTicket, MarkSendStarted, MarkReturns, PhysicalSend, Commit,
              DriverLeaves
<1>4. CASE HandlerSteps
  BY <1>4 DEF HandlerSteps, BeginRunning, SuspendPlanner, HandlerGivesUp, StartCell, CommitCell,
              FinalizeStart, FinalizeCommit, OuterSuccess, InnerTerminal, OuterTerminal,
              FailureUnmarked, HandlerParks, ConsumeTerminal, ConsumeDirective, ConsumeCorrection
<1>5. CASE Successor /\ ~HandlerSteps
  BY <1>5 DEF Successor, NotifySettlement, ExpireQueued, ClaimFirst, TakeOverCell,
              ClaimSuccessor, RecoverCell, RecoverPlanner, Resubmit
<1>6. CASE Sweeper
  BY <1>6 DEF Sweeper, SweepRead, SweepAct, SweepTerminal, SweepExpire, SweepRetry
<1>7. CASE Cancelling
  BY <1>7 DEF Cancelling, CancelStart, CancelTicket, CancelIntent, CancelDequeue
<1>8. CASE Losses
  BY <1>8 DEF Losses, WorkerLost, HostLost, HostRestarts
<1> QED
  BY <1>1, <1>2, <1>3, <1>4, <1>5, <1>6, <1>7, <1>8 DEF Next

-----------------------------------------------------------------------------
(* The types of the store.                                                 *)

LEMMA TurnsType ==
  ASSUME StoreTypes, TurnsOne
  PROVE  ticket' \in [Suspension -> TicketRow]
BY DEF TurnsOne, Puts, StoreTypes

LEMMA NewTicketRow == NewTicket \in TicketRow
<1>1. "absent" \in TicketStates /\ "pending" \in TicketStates /\ 0 \in 0..MaxClaims
  BY CallerAssumption DEF TicketStates, Unsent
<1>2. NoTicket \in TicketRow
  BY <1>1 DEF NoTicket, TicketRow
<1> QED
  BY <1>1, <1>2 DEF NewTicket, TicketRow

LEMMA OpeningType ==
  ASSUME StoreTypes, Numbered, Opening
  PROVE  /\ Latest + 1 \in Suspension /\ Puts(Latest + 1, NewTicket)
         /\ ticket' \in [Suspension -> TicketRow]
<1>1. Latest + 1 \in Suspension /\ Puts(Latest + 1, NewTicket)
  BY CallerAssumption DEF Opening, Suspend, Numbered, Puts
<1> QED
  BY <1>1, NewTicketRow DEF Puts, StoreTypes

LEMMA StoreTypesStep ==
  ASSUME Typed, [Next]_vars
  PROVE  StoreTypes'
<1>0. StoreTypes
  BY DEF Typed
<1>1. now' \in 0..MaxTime
  BY <1>0, TimeMoves, CallerAssumption DEF StoreTypes
<1>2. CASE Coordination
  BY <1>0, <1>1, <1>2 DEF Coordination, paper, caller, StoreTypes
<1>3. CASE Opening /\ UNCHANGED <<paper, caller>>
  BY <1>0, <1>1, <1>3, OpeningType DEF paper, caller, StoreTypes, Typed
<1>4. CASE CoordinatorTurns
  BY <1>0, <1>1, <1>4, TurnsType DEF CoordinatorTurns, paper, caller, StoreTypes
<1>5. CASE Candidate
  BY <1>0, <1>1, <1>5, CandidateMoves DEF Candidate, PapersGrow, caller, StoreTypes
<1>6. ASSUME NEW d \in Driver, DriverMoves(d)
      PROVE  StoreTypes'
  <2>1. driver[d] \in DriverRow
    BY <1>0 DEF StoreTypes
  <2>2. ASSUME NEW s \in Suspension, ClaimTicket(d, s)
        PROVE  StoreTypes'
    BY <1>0, <1>1, <2>2, ClaimMoves, TurnsType DEF paper, StoreTypes, DriverPuts
  <2>3. CASE MarkSendStarted(d)
    <3>1. /\ MarkMoves(d) /\ UNCHANGED <<receipts, journal, claims, sends>>
      BY <2>3, MarkingMoves DEF paper
    <3>2. ticket' \in [Suspension -> TicketRow]
      BY <1>0, <3>1, TurnsType DEF MarkMoves, StoreTypes
    <3>3. \E phase \in DriverPhases : DriverPuts(d, [driver[d] EXCEPT !.phase = phase])
      BY <3>1 DEF MarkMoves, DriverPhases
    <3>4. driver' \in [Driver -> DriverRow]
      BY <1>0, <2>1, <3>3 DEF DriverPuts, StoreTypes, DriverRow
    <3> QED
      BY <1>0, <1>1, <3>1, <3>2, <3>4 DEF StoreTypes
  <2>4. CASE MarkReturns(d)
    <3>1. \E phase \in DriverPhases : DriverPuts(d, [driver[d] EXCEPT !.phase = phase])
      BY <2>4 DEF MarkReturns, Confirmed, DriverPhases, DriverPuts
    <3>2. driver' \in [Driver -> DriverRow]
      BY <1>0, <2>1, <3>1 DEF DriverPuts, StoreTypes, DriverRow
    <3> QED
      BY <1>0, <1>1, <2>4, <3>2 DEF MarkReturns, paper, StoreTypes
  <2>5. CASE PhysicalSend(d)
    <3>1. \E phase \in DriverPhases, saw \in Answers :
            driver' = [driver EXCEPT ![d] = [driver[d] EXCEPT !.phase = phase, !.saw = saw]]
      <4>1. \/ \E seen \in Outcomes :
                 driver' = [driver EXCEPT ![d].phase = "send_observed", ![d].saw = seen]
            \/ driver' = [driver EXCEPT ![d].phase = "outcome_unknown"]
        BY <2>5 DEF PhysicalSend
      <4>2. CASE driver' = [driver EXCEPT ![d].phase = "outcome_unknown"]
        <5>1. driver[d].saw \in Answers
          BY <2>1 DEF DriverRow
        <5>2. [driver[d] EXCEPT !.phase = "outcome_unknown"]
                = [driver[d] EXCEPT !.phase = "outcome_unknown", !.saw = driver[d].saw]
          BY <2>1 DEF DriverRow
        <5> QED
          BY <1>0, <4>2, <5>1, <5>2 DEF DriverPhases, StoreTypes
      <4>3. ASSUME NEW seen \in Outcomes,
                   driver' = [driver EXCEPT ![d].phase = "send_observed", ![d].saw = seen]
            PROVE  driver' = [driver EXCEPT ![d] =
                     [driver[d] EXCEPT !.phase = "send_observed", !.saw = seen]]
        BY <1>0, <2>1, <4>3 DEF StoreTypes
      <4> QED
        BY <4>1, <4>2, <4>3 DEF DriverPhases, Answers
    <3>2. driver' \in [Driver -> DriverRow]
      <4>1. PICK phase \in DriverPhases, saw \in Answers :
              driver' = [driver EXCEPT ![d] = [driver[d] EXCEPT !.phase = phase, !.saw = saw]]
        BY <3>1
      <4>2. [driver[d] EXCEPT !.phase = phase, !.saw = saw] \in DriverRow
        BY <2>1 DEF DriverRow
      <4> QED
        BY <1>0, <4>1, <4>2 DEF StoreTypes
    <3>3. sends' \in [Suspension -> Seq(Claim)]
      <4>1. driver[d].claim \in Claim /\ driver[d].on \in Suspension
        BY <2>5 DEF PhysicalSend, Typed, Held
      <4>2. \/ sends' = sends
            \/ sends' = [sends EXCEPT ![driver[d].on] = Append(@, driver[d].claim)]
        BY <2>5 DEF PhysicalSend
      <4>3. sends \in [Suspension -> Seq(Claim)]
        BY <1>0 DEF StoreTypes
      <4>4. Append(sends[driver[d].on], driver[d].claim) \in Seq(Claim)
        BY <4>1, <4>3
      <4> QED
        BY <4>2, <4>3, <4>4
    <3> QED
      BY <1>0, <1>1, <2>5, <3>2, <3>3 DEF PhysicalSend, paper, StoreTypes
  <2>6. NoDriver \in DriverRow
    BY CallerAssumption DEF NoDriver, DriverRow, DriverPhases, Answers
  <2>7. CASE Commit(d)
    BY <1>0, <1>1, <2>6, <2>7, CommitMoves, TurnsType DEF PapersGrow, StoreTypes, DriverPuts
  <2>8. CASE DriverLeaves(d)
    BY <1>0, <1>1, <2>6, <2>8 DEF DriverLeaves, paper, StoreTypes
  <2> QED
    BY <1>6, <2>2, <2>3, <2>4, <2>5, <2>7, <2>8 DEF DriverMoves
<1> QED
  BY <1>2, <1>3, <1>4, <1>5, <1>6, StepKinds

-----------------------------------------------------------------------------
(* The types of the job, and which suspensions are open.                   *)

Terminal == Settled \cup {"quarantined", "cancelled_before_send"}

AskedStays == \A s \in Suspension : susp'[s].state = "absent" <=> susp[s].state = "absent"

LEMMA StaysAsked ==
  ASSUME AskedStays
  PROVE  Asked' = Asked /\ Latest' = Latest
BY LatestStays DEF AskedStays, Asked

LEMMA ProjectedState ==
  ASSUME NEW state \in Terminal
  PROVE  /\ Projected(state) \in {"settled", "cancelled", "parked"}
         /\ state \in Settled => Projected(state) \in {"settled", "cancelled"}
BY DEF Projected, Terminal, Settled

LEMMA JobRows ==
  ASSUME NEW j \in JobRow, NEW phase \in Phases
  PROVE  /\ [j EXCEPT !.phase = phase, !.control = @ + 1] \in JobRow
         /\ [j EXCEPT !.phase = phase] \in JobRow
<1>1. j.control + 1 \in Nat
  BY DEF JobRow
<1>2. [j EXCEPT !.phase = phase, !.control = j.control + 1] \in JobRow
  BY <1>1 DEF JobRow
<1>3. [j EXCEPT !.phase = phase] \in JobRow
  BY DEF JobRow
<1> QED
  BY <1>2, <1>3

LEMMA ControlRows ==
  ASSUME NEW c \in ControlRow, NEW n \in Nat
  PROVE  [c EXCEPT !.revision = n] \in ControlRow
BY DEF ControlRow

LEMMA CellRows ==
  ASSUME NEW c \in CellRow,
         NEW state \in {"none", "prepared", "running", "committed", "lost_before_commit"}
  PROVE  /\ [c EXCEPT !.state = state] \in CellRow
         /\ [c EXCEPT !.state = state, !.runs = @ + 1] \in CellRow
<1>1. c.runs + 1 \in Nat
  BY DEF CellRow
<1>2. [c EXCEPT !.state = state, !.runs = c.runs + 1] \in CellRow
  BY <1>1 DEF CellRow
<1>3. [c EXCEPT !.state = state] \in CellRow
  BY DEF CellRow
<1> QED
  BY <1>2, <1>3

OpStates == OpTerminal \cup {"accepted", "running", "indeterminate"}
DispatchStates == {"queued", "running", "parked", "completed"}

LEMMA OpRows ==
  ASSUME NEW o \in OpRow, NEW state \in OpStates, NEW dispatch \in DispatchStates
  PROVE  [o EXCEPT !.state = state, !.dispatch = dispatch] \in OpRow
BY DEF OpRow, OpStates, DispatchStates

LEMMA OpClaims ==
  ASSUME NEW o \in OpRow, NEW n \in 0..MaxAttempts
  PROVE  [o EXCEPT !.state = "running", !.dispatch = "running", !.attempt = n] \in OpRow
BY DEF OpRow

LEMMA PhaseNames ==
  {"accepted", "running", "waiting_external", "finalizing", "parked", "succeeded", "failed",
   "cancelled", "timed_out"} \subseteq Phases
BY DEF Phases, OpTerminal

\* the job's control revision and the operation's
LEMMA JobMoves ==
  ASSUME JobTypes, NEW phase \in Phases,
         job' = [job EXCEPT !.phase = phase, !.control = @ + 1],
         \/ control' = [control EXCEPT !.revision = @ + 1]
         \/ control' = [control EXCEPT !.revision = job.control + 1]
  PROVE  job' \in JobRow /\ control' \in ControlRow
<1>1. job \in JobRow /\ control \in ControlRow
  BY DEF JobTypes
<1>2. control.revision + 1 \in Nat /\ job.control + 1 \in Nat
  BY <1>1 DEF JobRow, ControlRow
<1>3. \/ control' = [control EXCEPT !.revision = control.revision + 1]
      \/ control' = [control EXCEPT !.revision = job.control + 1]
  OBVIOUS
<1> QED
  BY <1>1, <1>2, <1>3, JobRows, ControlRows

LEMMA Projecting ==
  ASSUME JobTypes, NEW s \in Suspension, NEW state \in Terminal, ProjectTerminal(s, state),
         UNCHANGED op
  PROVE  JobTypes' /\ AskedStays
<1>1. /\ susp[s].state = "pending" /\ susp' = [susp EXCEPT ![s].state = Projected(state)]
      /\ UNCHANGED cell
      /\ \/ /\ outbox' = [outbox EXCEPT ![s].state = "pending"]
            /\ job' = [job EXCEPT !.phase = "accepted", !.control = @ + 1]
            /\ control' = [control EXCEPT !.revision = @ + 1]
         \/ UNCHANGED <<outbox, job, control>>
  BY DEF ProjectTerminal
<1>2. susp' \in [Suspension -> SuspRow] /\ AskedStays
  BY <1>1, ProjectedState DEF JobTypes, SuspRow, AskedStays
<1>3. outbox' \in [Suspension -> OutboxRow]
  BY <1>1 DEF JobTypes, OutboxRow
<1>4. job' \in JobRow /\ control' \in ControlRow
  <2>1. CASE UNCHANGED <<outbox, job, control>>
    BY <2>1 DEF JobTypes
  <2> QED
    BY <1>1, <2>1, JobMoves, PhaseNames
<1> QED
  BY <1>1, <1>2, <1>3, <1>4 DEF JobTypes

JobStays == UNCHANGED <<op, inner, outbox>>

LEMMA JobStaysTyped ==
  ASSUME JobTypes, JobStays
  PROVE  JobTypes' /\ AskedStays
BY DEF JobStays, inner, JobTypes, AskedStays

LEMMA OpStepTyped ==
  ASSUME JobTypes, UNCHANGED <<inner, outbox>>,
         \/ op' = op
         \/ op' = Queue(op)
         \/ op' = TimeOut(op)
         \/ \E state \in OpTerminal \cup {"accepted", "running", "indeterminate"},
               dispatch \in {"queued", "running", "parked", "completed"} :
              op' = [op EXCEPT !.state = state, !.dispatch = dispatch]
  PROVE  JobTypes' /\ AskedStays
<1>1. op' \in OpRow
  BY DEF JobTypes, OpRow, Queue, TimeOut, OpTerminal
<1> QED
  BY <1>1 DEF inner, JobTypes, AskedStays

\* the actions that only move the operation
LEMMA OpActionsTyped ==
  ASSUME JobTypes,
         \/ OuterSuccess \/ OuterTerminal \/ FailureUnmarked \/ ExpireQueued
         \/ WorkerLost \/ HostRestarts \/ RecoverCell \/ RecoverPlanner \/ Resubmit \/ SweepExpire
         \/ \E s \in Suspension : NotifySettlement(s)
  PROVE  JobTypes' /\ AskedStays
<1>1. CASE OuterSuccess \/ FailureUnmarked \/ WorkerLost \/ HostRestarts
             \/ RecoverCell \/ RecoverPlanner
  BY <1>1, OpStepTyped DEF OuterSuccess, FailureUnmarked, WorkerLost, HostRestarts, RecoverCell,
                           RecoverPlanner, OpTerminal
<1>2. CASE OuterTerminal
  <2>1. job.phase \in OpTerminal
    BY <1>2 DEF OuterTerminal, InnerDone, OpTerminal
  <2> QED
    BY <1>2, <2>1, OpStepTyped DEF OuterTerminal
<1>3. CASE ExpireQueued \/ Resubmit \/ SweepExpire
  BY <1>3, OpStepTyped DEF ExpireQueued, Resubmit, SweepExpire
<1>4. ASSUME NEW s \in Suspension, NotifySettlement(s)
      PROVE  JobTypes' /\ AskedStays
  BY <1>4, OpStepTyped DEF NotifySettlement
<1> QED
  BY <1>1, <1>2, <1>3, <1>4

\* the actions that claim the operation
LEMMA ClaimActionsTyped ==
  ASSUME JobTypes, ClaimFirst \/ TakeOverCell \/ ClaimSuccessor
  PROVE  JobTypes' /\ AskedStays
<1>1. op.attempt + 1 \in 0..MaxAttempts /\ op' \in OpRow
  <2>1. op \in OpRow
    BY DEF JobTypes
  <2>2. \E n \in 0..MaxAttempts :
          op' = [op EXCEPT !.state = "running", !.dispatch = "running", !.attempt = n]
    <3>1. op.attempt \in Nat /\ op.attempt < MaxAttempts
      BY <2>1, CallerAssumption DEF OpRow, ClaimFirst, TakeOverCell, ClaimSuccessor
    <3>2. op.attempt + 1 \in 0..MaxAttempts /\ (op.attempt = 0 => 1 \in 0..MaxAttempts)
      BY <3>1, CallerAssumption
    <3> QED
      BY <3>2 DEF ClaimFirst, TakeOverCell, ClaimSuccessor
  <2>3. op.attempt < MaxAttempts
    BY DEF ClaimFirst, TakeOverCell, ClaimSuccessor
  <2>4. op.attempt + 1 \in 0..MaxAttempts
    BY <2>1, <2>3, CallerAssumption DEF OpRow
  <2> QED
    BY <2>1, <2>2, <2>4, OpClaims
<1>2. CASE ClaimFirst
  BY <1>1, <1>2 DEF ClaimFirst, inner, JobTypes, AskedStays
<1>3. CASE TakeOverCell
  BY <1>1, <1>3 DEF TakeOverCell, JobTypes, AskedStays, CellRow
<1>4. CASE ClaimSuccessor
  BY <1>1, <1>4 DEF ClaimSuccessor, inner, JobTypes, AskedStays, OutboxRow
<1> QED
  BY <1>2, <1>3, <1>4

\* the actions of the handler and of a cancellation that move the job
LEMMA JobActionsTyped ==
  ASSUME JobTypes,
         \/ BeginRunning \/ StartCell \/ CommitCell \/ FinalizeStart \/ FinalizeCommit
         \/ HandlerParks \/ CancelIntent
  PROVE  JobTypes' /\ AskedStays
<1>0. cell \in CellRow /\ op \in OpRow
  BY DEF JobTypes
<1>1. CASE BeginRunning \/ FinalizeStart \/ FinalizeCommit
  <2>1. \E phase \in Phases :
          /\ job' = [job EXCEPT !.phase = phase, !.control = @ + 1]
          /\ control' = [control EXCEPT !.revision = job.control + 1]
    BY <1>1, PhaseNames DEF BeginRunning, FinalizeStart, FinalizeCommit, Advance
  <2>2. job' \in JobRow /\ control' \in ControlRow
    BY <2>1, JobMoves
  <2> QED
    BY <1>1, <2>2 DEF BeginRunning, FinalizeStart, FinalizeCommit, JobTypes, AskedStays
<1>2. CASE HandlerParks
  <2>1. job' \in JobRow /\ control' \in ControlRow
    BY <1>2, JobMoves, PhaseNames DEF HandlerParks, Advance
  <2>2. op' \in OpRow
    BY <1>2, <1>0, OpRows DEF HandlerParks, OpStates, DispatchStates
  <2> QED
    BY <1>2, <2>1, <2>2 DEF HandlerParks, JobTypes, AskedStays
<1>3. CASE StartCell
  <2>1. cell' \in CellRow
    BY <1>0, <1>3, CellRows DEF StartCell
  <2> QED
    BY <1>3, <2>1 DEF StartCell, JobTypes, AskedStays
<1>4. CASE CommitCell
  <2>1. cell' \in CellRow
    BY <1>0, <1>4, CellRows DEF CommitCell
  <2>2. job' \in JobRow /\ control' \in ControlRow
    BY <1>4, JobMoves, PhaseNames DEF CommitCell, Advance
  <2> QED
    BY <1>4, <2>1, <2>2 DEF CommitCell, JobTypes, AskedStays
<1>5. CASE CancelIntent
  BY <1>5 DEF CancelIntent, JobTypes, ControlRow, AskedStays
<1> QED
  BY <1>1, <1>2, <1>3, <1>4, <1>5

LEMMA TerminalActionsTyped ==
  ASSUME JobTypes,
         (UNCHANGED <<op, outbox>> /\ (DeadlineTerminal \/ BudgetTerminal)) \/ CancelDequeue
  PROVE  JobTypes' /\ AskedStays
<1>1. CASE UNCHANGED <<op, outbox>> /\ DeadlineTerminal
  <2>1. job' \in JobRow /\ control' \in ControlRow
    BY <1>1, JobMoves, PhaseNames DEF DeadlineTerminal
  <2>3. cell' \in CellRow
    BY <1>1, CellRows DEF DeadlineTerminal, JobTypes
  <2>2. susp' \in [Suspension -> SuspRow] /\ AskedStays
    BY <1>1 DEF DeadlineTerminal, JobTypes, SuspRow, AskedStays
  <2> QED
    BY <1>1, <2>1, <2>2, <2>3 DEF JobTypes
<1>2. CASE UNCHANGED <<op, outbox>> /\ BudgetTerminal
  <2>1. job' \in JobRow /\ control' \in ControlRow
    BY <1>2, JobMoves, PhaseNames DEF BudgetTerminal
  <2> QED
    BY <1>2, <2>1 DEF BudgetTerminal, JobTypes, AskedStays
<1>3. CASE CancelDequeue /\ Dequeuable
  <2>1. op' \in OpRow /\ job' \in JobRow /\ UNCHANGED <<control, cell>>
    <3>1. op' = [op EXCEPT !.state = "cancelled", !.dispatch = "completed"]
      BY <1>3 DEF CancelDequeue
    <3>2. job' = [phase |-> "cancelled", control |-> control.revision, mirror |-> TRUE]
      BY <1>3 DEF CancelDequeue
    <3>3. op' \in OpRow
      BY <3>1, OpRows DEF JobTypes, OpTerminal, OpStates, DispatchStates
    <3>4. control.revision \in Nat
      BY DEF JobTypes, ControlRow
    <3>5. job' \in JobRow
      BY <3>2, <3>4, PhaseNames DEF JobRow
    <3> QED
      BY <1>3, <3>3, <3>5 DEF CancelDequeue
  <2>2. susp' \in [Suspension -> SuspRow] /\ AskedStays
    BY <1>3 DEF CancelDequeue, JobTypes, SuspRow, AskedStays
  <2>3. outbox' \in [Suspension -> OutboxRow]
    BY <1>3 DEF CancelDequeue, JobTypes, OutboxRow
  <2> QED
    BY <2>1, <2>2, <2>3 DEF JobTypes
<1>4. CASE CancelDequeue /\ ~Dequeuable
  BY <1>4 DEF CancelDequeue, JobTypes, AskedStays
<1> QED
  BY <1>1, <1>2, <1>3, <1>4

LEMMA ConsumingTyped ==
  ASSUME JobTypes, ConsumeOutbox
  PROVE  outbox' \in [Suspension -> OutboxRow]
<1> DEFINE p == Prepared
<1>1. outbox' = [outbox EXCEPT ![p].state = "consumed"]
  BY DEF ConsumeOutbox
<1>2. outbox \in [Suspension -> OutboxRow]
  BY DEF JobTypes
<1> HIDE DEF p
<1> QED
  BY <1>1, <1>2 DEF OutboxRow

LEMMA OpeningTyped ==
  ASSUME JobTypes, Numbered, Opening
  PROVE  /\ JobTypes'
         /\ susp' = [susp EXCEPT ![Latest + 1] =
                       [state |-> "pending", control |-> job.control + 1]]
<1>1. /\ susp' = [susp EXCEPT ![Latest + 1] =
                    [state |-> "pending", control |-> job.control + 1]]
      /\ job' = [job EXCEPT !.phase = "waiting_external", !.control = @ + 1]
      /\ control' = [control EXCEPT !.revision = @ + 1]
      /\ op' = [op EXCEPT !.state = "accepted", !.dispatch = "parked"]
      /\ UNCHANGED cell
  BY DEF Opening, Suspend
<1>2. job' \in JobRow /\ control' \in ControlRow
  BY <1>1, JobMoves, PhaseNames
<1>3. op' \in OpRow
  BY <1>1, OpRows DEF JobTypes, OpStates, DispatchStates
<1>4. susp' \in [Suspension -> SuspRow]
  <2>1. [state |-> "pending", control |-> job.control + 1] \in SuspRow
    BY DEF SuspRow, JobTypes, JobRow
  <2> QED
    BY <1>1, <2>1 DEF JobTypes
<1>5. outbox' \in [Suspension -> OutboxRow]
  BY ConsumingTyped DEF Opening, JobTypes
<1> QED
  BY <1>1, <1>2, <1>3, <1>4, <1>5 DEF JobTypes

LEMMA ConsumeTyped ==
  ASSUME JobTypes, ConsumeTerminal \/ ConsumeDirective
  PROVE  JobTypes' /\ AskedStays
<1>1. outbox' \in [Suspension -> OutboxRow]
  BY ConsumingTyped DEF ConsumeTerminal, ConsumeDirective
<1>2. CASE ConsumeTerminal
  <2> DEFINE selected == Selected(Prepared)
             phase == IF selected = "none" THEN "failed" ELSE selected
  <2>1. selected \in {"none", "cancelled", "timed_out", "failed"}
    BY DEF Selected
  <2>2. phase \in {"cancelled", "timed_out", "failed"}
    BY <2>1
  <2>3. /\ job' = [job EXCEPT !.phase = phase, !.control = control.revision + 1]
        /\ control' = [control EXCEPT !.revision = @ + 1]
        /\ op' = [op EXCEPT !.state = job'.phase, !.dispatch = "completed"]
        /\ UNCHANGED <<susp, cell>>
    BY <1>2 DEF ConsumeTerminal
  <2> HIDE DEF phase, selected
  <2>4. job \in JobRow /\ control \in ControlRow /\ op \in OpRow
    BY DEF JobTypes
  <2>5. control.revision + 1 \in Nat
    BY <2>4 DEF ControlRow
  <2>6. control' \in ControlRow
    BY <2>3, <2>4, <2>5, ControlRows
  <2>7. job' \in JobRow /\ job'.phase = phase
    BY <2>2, <2>3, <2>4, <2>5, PhaseNames DEF JobRow
  <2>8. op' \in OpRow
    BY <2>2, <2>3, <2>4, <2>7, OpRows DEF OpStates, OpTerminal, DispatchStates
  <2> QED
    BY <1>1, <2>3, <2>6, <2>7, <2>8 DEF JobTypes, AskedStays
<1>3. CASE ConsumeDirective
  <2>1. job' \in JobRow
    BY <1>3, JobRows, PhaseNames DEF ConsumeDirective, JobTypes
  <2>2. cell' \in CellRow
    <3>1. CASE UNCHANGED cell
      BY <3>1 DEF JobTypes
    <3>2. CASE cell.index < MaxCells
               /\ cell' = [state |-> "prepared", attempt |-> op.attempt, index |-> cell.index + 1,
                           runs |-> 0]
      <4>1. cell.index + 1 \in 0..MaxCells /\ op.attempt \in 0..MaxAttempts
        BY <3>2, CallerAssumption DEF JobTypes, CellRow, OpRow
      <4> QED
        BY <3>2, <4>1 DEF CellRow
    <3> QED
      BY <1>3, <3>1, <3>2 DEF ConsumeDirective
  <2> QED
    BY <1>1, <1>3, <2>1, <2>2 DEF ConsumeDirective, JobTypes, AskedStays
<1> QED
  BY <1>2, <1>3

-----------------------------------------------------------------------------
(* What a step may do to the job.                                          *)

\* what the ticket store, its callers and the coordinator's withdrawals do
Settles ==
  /\ UNCHANGED op
  /\ \E s \in Suspension, state \in Terminal : Ends(s, state)

LEMMA WithdrawalSettles ==
  ASSUME Typed, NEW s \in Suspension, CancelUnsent(s), UNCHANGED op
  PROVE  Settles
<1>1. /\ [ticket[s] EXCEPT !.state = "cancelled_before_send"] \in TicketRow
      /\ [ticket[s] EXCEPT !.state = "cancelled_before_send"].state = "cancelled_before_send"
  BY TicketHas DEF Typed, TicketRow, TicketStates
<1>2. Ends(s, "cancelled_before_send")
  BY <1>1, WrittenState DEF CancelUnsent, Typed, Ends
<1> QED
  BY <1>2 DEF Settles, Terminal

\* the steps outside the handler and the dispatcher: none moves a worker
Outside == (JobStays \/ Settles) /\ UNCHANGED <<up, worker>>

LEMMA StoreIsOutside ==
  ASSUME Typed, TicketStore
  PROVE  Outside
<1>1. PICK s \in Suspension :
        \/ ReclaimExpired(s) \/ CancelBeforeSend(s)
        \/ MarkOutcomeUnknown(s) \/ RequestTicketCancel(s) \/ Reconcile(s)
        \/ \E outcome \in Outcomes, sealed \in BOOLEAN : AppendCandidate(s, outcome, sealed)
        \/ \E r \in receipts[s] : SettleCandidate(s, r)
  BY DEF TicketStore
<1>2. CASE ReclaimExpired(s) \/ MarkOutcomeUnknown(s) \/ RequestTicketCancel(s) \/ ReconcileRetry(s)
  BY <1>2 DEF ReclaimExpired, MarkOutcomeUnknown, RequestTicketCancel, ReconcileRetry, JobStays,
              Outside, threads
<1>3. ASSUME NEW outcome \in Outcomes, NEW sealed \in BOOLEAN, AppendCandidate(s, outcome, sealed)
      PROVE  Outside
  BY <1>3 DEF AppendCandidate, JobStays, Outside, threads
<1>4. CASE CancelBeforeSend(s)
  BY <1>4, WithdrawalSettles DEF CancelBeforeSend, Outside, threads
<1>5. CASE ReconcileQuarantine(s)
  <2>1. /\ [ticket[s] EXCEPT !.state = "quarantined"] \in TicketRow
        /\ [ticket[s] EXCEPT !.state = "quarantined"].state = "quarantined"
    BY TicketHas DEF Typed, TicketRow, TicketStates
  <2>2. Ends(s, "quarantined")
    BY <1>5, <2>1, WrittenState DEF ReconcileQuarantine, Typed, Ends
  <2> QED
    BY <1>5, <2>2 DEF ReconcileQuarantine, Outside, Settles, Terminal, threads
<1>6. ASSUME NEW r \in receipts[s], SettleCandidate(s, r) \/ ReconcileSettle(s, r)
      PROVE  Outside
  <2>1. \E state \in Settled \cup {"quarantined"} : Ends(s, state)
    BY <1>6, SettleMoves
  <2> QED
    BY <1>6, <2>1 DEF SettleCandidate, ReconcileSettle, Outside, Settles, Terminal, threads
<1> QED
  BY <1>1, <1>2, <1>3, <1>4, <1>5, <1>6 DEF Reconcile

LEMMA DriversAreOutside ==
  ASSUME Typed, Drivers
  PROVE  Outside
<1>1. PICK d \in Driver : DriverMoves(d)
  BY DEF Drivers, DriverMoves
<1>2. CASE Commit(d)
  <2>1. driver[d].on \in Suspension
    BY <1>2 DEF Commit, Typed, Held
  <2> QED
    BY <1>2, <2>1, CommitMoves DEF Commit, Outside, Settles, Terminal
<1>3. CASE MarkSendStarted(d) \/ MarkReturns(d) \/ PhysicalSend(d) \/ DriverLeaves(d)
           \/ \E s \in Suspension : ClaimTicket(d, s)
  BY <1>3 DEF ClaimTicket, MarkSendStarted, MarkReturns, PhysicalSend, DriverLeaves, Outside,
              JobStays, threads
<1> QED
  BY <1>1, <1>2, <1>3 DEF DriverMoves

\* the sweep and a cancellation: withdrawals are outside, the rest is by itself
LEMMA SweepActIs ==
  ASSUME Typed, SweepAct
  PROVE  /\ UNCHANGED <<up, worker>>
         /\ \/ Settles
            \/ UNCHANGED <<inner, outbox>> /\ (op' = op \/ op' = Queue(op))
<1> DEFINE s == Latest
           withdraw == SweepWithdraws(sweep.state)
           unknown == sweep.state = "send_started"
           wins == \/ withdraw /\ Cancellable(s, sweep.revision)
                   \/ unknown /\ ticket[s].revision = sweep.revision
           state == IF ~wins THEN ticket[s].state
                    ELSE IF withdraw THEN "cancelled_before_send" ELSE "outcome_unknown"
<1>1. /\ IF wins /\ withdraw THEN CancelUnsent(s) ELSE UNCHANGED <<inner, outbox>>
      /\ op' = IF state \in Settled THEN Queue(op) ELSE op
      /\ UNCHANGED <<up, worker>>
  BY DEF SweepAct
<1>2. s \in Suspension
  BY DEF SweepAct, Typed, Numbered, Held
<1>3. CASE wins /\ withdraw
  <2>1. state = "cancelled_before_send"
    BY <1>3
  <2>2. op' = op
    BY <1>1, <2>1 DEF Settled
  <2>3. CancelUnsent(s)
    BY <1>1, <1>3
  <2> HIDE DEF s
  <2> QED
    BY <1>1, <1>2, <2>2, <2>3, WithdrawalSettles
<1>4. CASE ~(wins /\ withdraw)
  BY <1>1, <1>4
<1> QED
  BY <1>3, <1>4

LEMMA CancelTicketIs ==
  ASSUME Typed, CancelTicket
  PROVE  Outside
<1> DEFINE s == canceller.on
<1>1. s \in Suspension
  BY DEF CancelTicket, Typed, Held
<1>2. CASE Cancellable(s, canceller.revision)
  <2>1. CancelUnsent(s) /\ UNCHANGED <<op, up, worker>>
    BY <1>2 DEF CancelTicket
  <2> HIDE DEF s
  <2> QED
    BY <1>1, <2>1, WithdrawalSettles DEF Outside
<1>3. CASE ~Cancellable(s, canceller.revision)
  BY <1>3 DEF CancelTicket, Outside, JobStays
<1> QED
  BY <1>2, <1>3

LEMMA OutsideTyped ==
  ASSUME JobTypes, JobStays \/ Settles
  PROVE  JobTypes' /\ AskedStays
BY JobStaysTyped, Projecting DEF Settles, Ends

LEMMA JobStep ==
  ASSUME Typed, [Next]_vars
  PROVE  /\ JobTypes' \/ Opening
         /\ AskedStays \/ Opening
<1>0. JobTypes
  BY DEF Typed
<1>1. CASE UNCHANGED vars \/ Tick \/ HandlerGivesUp \/ HostLost
             \/ SweepRead \/ SweepRetry \/ CancelStart
  <2>1. JobStays
    BY <1>1 DEF vars, Tick, HandlerGivesUp, HostLost, SweepRead, SweepRetry, CancelStart, JobStays
  <2> QED
    BY <1>0, <2>1, OutsideTyped
<1>2. CASE TicketStore \/ Drivers \/ CancelTicket
  <2>1. Outside
    BY <1>2, StoreIsOutside, DriversAreOutside, CancelTicketIs
  <2> QED
    BY <1>0, <2>1, OutsideTyped DEF Outside
<1>3. CASE SweepAct
  BY <1>0, <1>3, SweepActIs, OutsideTyped, OpStepTyped
<1>4. CASE InnerTerminal \/ SweepTerminal
  <2>1. UNCHANGED <<op, outbox>> /\ (DeadlineTerminal \/ BudgetTerminal \/ UNCHANGED inner)
    BY <1>4 DEF InnerTerminal, SweepTerminal
  <2> QED
    BY <1>0, <2>1, TerminalActionsTyped, JobStaysTyped DEF JobStays
<1>5. CASE SuspendPlanner \/ ConsumeCorrection
  BY <1>5 DEF SuspendPlanner, ConsumeCorrection, Opening, Undisturbed, Selected
<1>6. CASE ConsumeTerminal \/ ConsumeDirective
  BY <1>0, <1>6, ConsumeTyped
<1>7. CASE BeginRunning \/ StartCell \/ CommitCell \/ FinalizeStart \/ FinalizeCommit
             \/ HandlerParks \/ CancelIntent
  BY <1>0, <1>7, JobActionsTyped
<1>8. CASE ClaimFirst \/ TakeOverCell \/ ClaimSuccessor
  BY <1>0, <1>8, ClaimActionsTyped
<1>9. CASE \/ OuterSuccess \/ OuterTerminal \/ FailureUnmarked \/ ExpireQueued
           \/ WorkerLost \/ HostRestarts \/ RecoverCell \/ RecoverPlanner \/ Resubmit \/ SweepExpire
           \/ \E s \in Suspension : NotifySettlement(s)
  BY <1>0, <1>9, OpActionsTyped
<1>10. CASE CancelDequeue
  BY <1>0, <1>10, TerminalActionsTyped
<1> QED
  BY <1>1, <1>2, <1>3, <1>4, <1>5, <1>6, <1>7, <1>8, <1>9, <1>10
  DEF Next, Successor, HandlerSteps, Sweeper, Cancelling, Losses

-----------------------------------------------------------------------------
(* The threads, and the rest of the first invariant.                       *)

LEMMA NumberedStep ==
  ASSUME Typed, [Next]_vars
  PROVE  /\ Numbered'
         /\ Latest' = Latest \/ (Opening /\ Latest' = Latest + 1)
         /\ JobTypes'
<1>0. JobTypes /\ Numbered
  BY DEF Typed
<1>1. CASE AskedStays /\ JobTypes'
  <2>1. Asked' = Asked /\ Latest' = Latest
    BY <1>1, StaysAsked
  <2> QED
    BY <1>0, <1>1, <2>1 DEF Numbered
<1>2. CASE Opening
  <2>1. /\ JobTypes'
        /\ susp' = [susp EXCEPT ![Latest + 1] =
                      [state |-> "pending", control |-> job.control + 1]]
    BY <1>0, <1>2, OpeningTyped
  <2>2. Latest \in 0..MaxSuspensions /\ Latest < MaxSuspensions /\ Asked = 1..Latest
    BY <1>0, <1>2 DEF Numbered, Opening
  <2>3. Latest + 1 \in 1..MaxSuspensions
    BY <2>2, CallerAssumption
  <2>4. susp \in [Suspension -> SuspRow]
    BY <1>0 DEF JobTypes
  <2> DEFINE n == Latest
  <2>5. \A s \in Suspension : (susp[s].state # "absent") <=> s \in 1..n
    BY <2>2 DEF Asked
  <2>6. \A s \in Suspension : susp'[s].state =
          IF s = n + 1 THEN "pending" ELSE susp[s].state
    BY <2>1, <2>3, <2>4
  <2> HIDE DEF n
  <2>7. n \in Nat
    BY <2>2 DEF n
  <2>8. Asked' = 1..(n + 1)
    BY <2>3, <2>5, <2>6, <2>7, CallerAssumption DEF Asked, n
  <2>9. Latest' = n + 1
    BY <2>7, <2>8, NextLatestIs
  <2> QED
    BY <1>2, <2>1, <2>3, <2>8, <2>9, CallerAssumption DEF Numbered, n
<1> QED
  BY <1>1, <1>2, JobStep

LEMMA OpeningSees ==
  ASSUME Typed, Opening
  PROVE  /\ Latest + 1 \in Suspension
         /\ Puts(Latest + 1, NewTicket)
         /\ \A s \in Suspension : /\ s # Latest + 1 => ticket'[s] = ticket[s] /\ susp'[s] = susp[s]
                                  /\ s = Latest + 1 => /\ ticket'[s] = NewTicket
                                                       /\ susp'[s].state = "pending"
         /\ susp[Latest + 1].state = "absent" /\ ticket[Latest + 1] = NoTicket
<1>1. /\ Latest + 1 \in Suspension /\ Puts(Latest + 1, NewTicket)
      /\ susp' = [susp EXCEPT ![Latest + 1] =
                    [state |-> "pending", control |-> job.control + 1]]
  BY OpeningType, OpeningTyped DEF Typed
<1>2. Latest + 1 \notin Asked
  BY DEF Typed, Numbered
<1>3. susp[Latest + 1].state = "absent" /\ ticket[Latest + 1] = NoTicket
  BY <1>1, <1>2 DEF Asked, Typed, Ticketed, Claims
<1>4. ticket \in [Suspension -> TicketRow] /\ susp \in [Suspension -> SuspRow]
  BY DEF Typed, StoreTypes, JobTypes
<1> DEFINE n == Latest + 1
<1>5. /\ n \in Suspension /\ Puts(n, NewTicket)
      /\ susp' = [susp EXCEPT ![n] = [state |-> "pending", control |-> job.control + 1]]
  BY <1>1
<1> HIDE DEF n
<1>6. \A s \in Suspension : /\ s # n => ticket'[s] = ticket[s] /\ susp'[s] = susp[s]
                            /\ s = n => ticket'[s] = NewTicket /\ susp'[s].state = "pending"
  BY <1>4, <1>5 DEF Puts
<1> QED
  BY <1>1, <1>3, <1>6 DEF n

\* Every step leaves the tickets alone, turns one, or opens the next.
LEMMA TicketKinds ==
  ASSUME Typed, [Next]_vars
  PROVE  \/ UNCHANGED ticket /\ AskedStays
         \/ TurnsOne /\ AskedStays
         \/ Opening /\ UNCHANGED <<paper, caller>>
<1>1. CASE Coordination \/ CoordinatorTurns \/ (Opening /\ UNCHANGED <<paper, caller>>)
  BY <1>1, JobStep DEF Coordination, CoordinatorTurns
<1>2. CASE Candidate
  BY <1>2 DEF Candidate, AppendCandidate, inner, AskedStays
<1>3. ASSUME NEW d \in Driver, DriverMoves(d)
      PROVE  (UNCHANGED ticket \/ TurnsOne) /\ AskedStays
  <2>1. AskedStays
    <3>1. Drivers
      BY <1>3 DEF Drivers, DriverMoves
    <3> QED
      BY <3>1, DriversAreOutside, OutsideTyped DEF Outside, Typed
  <2>2. UNCHANGED ticket \/ TurnsOne
    <3>1. CASE MarkReturns(d) \/ PhysicalSend(d) \/ DriverLeaves(d)
      BY <3>1 DEF MarkReturns, PhysicalSend, DriverLeaves
    <3>2. CASE MarkSendStarted(d)
      BY <3>2, MarkingMoves DEF MarkMoves
    <3> QED
      BY <1>3, <3>1, <3>2, ClaimMoves, CommitMoves DEF DriverMoves
  <2> QED
    BY <2>1, <2>2
<1> QED
  BY <1>1, <1>2, <1>3, StepKinds

LEMMA TurnsSees ==
  ASSUME StoreTypes, TurnsOne, NEW s \in Suspension
  PROVE  ticket'[s] = ticket[s] \/ Turns(s, ticket'[s])
<1>1. PICK v \in Suspension, u \in TicketRow : Puts(v, u) /\ Turns(v, u)
  BY DEF TurnsOne
<1>2. CASE s = v
  BY <1>1, <1>2 DEF Puts, StoreTypes
<1>3. CASE s # v
  BY <1>1, <1>3 DEF Puts, StoreTypes
<1> QED
  BY <1>2, <1>3

LEMMA TurnedClaims ==
  ASSUME NEW s \in Suspension, NEW u, Turns(s, u), Claims(ticket[s])
  PROVE  Claims(u) /\ u.state # "absent" /\ ticket[s].state # "absent"
<1>1. CASE Reserves(ticket[s], u) \/ Releases(ticket[s], u) \/ Withdraws(ticket[s], u)
  BY <1>1 DEF Reserves, Releases, Withdraws, Claims, NeverStarted, MustHaveStarted, Unsent,
              MayHaveSent, Settled
<1>2. CASE Marks(ticket[s], u) \/ Learns(ticket[s], u)
  BY <1>2 DEF Marks, Learns, Claims, NeverStarted, MustHaveStarted, Unsent, MayHaveSent, Settled
<1> QED
  BY <1>1, <1>2 DEF Turns

LEMMA NewTicketClaims == Claims(NewTicket) /\ NewTicket.state = "pending"
BY DEF NewTicket, NoTicket, Claims, NeverStarted, MustHaveStarted, Unsent, MayHaveSent, Settled

LEMMA TicketedStep ==
  ASSUME Typed, [Next]_vars
  PROVE  Ticketed'
<1> SUFFICES ASSUME NEW s \in Suspension
             PROVE  /\ Claims(ticket'[s])
                    /\ susp'[s].state = "absent" <=> ticket'[s].state = "absent"
  BY DEF Ticketed, Claims
<1>0. Claims(ticket[s]) /\ (susp[s].state = "absent" <=> ticket[s].state = "absent")
  BY DEF Typed, Ticketed
<1>1. CASE UNCHANGED ticket /\ AskedStays
  BY <1>0, <1>1 DEF AskedStays
<1>2. CASE TurnsOne /\ AskedStays
  BY <1>0, <1>2, TurnsSees, TurnedClaims DEF AskedStays, Typed
<1>3. CASE Opening
  BY <1>0, <1>3, OpeningSees, NewTicketClaims
<1> QED
  BY <1>1, <1>2, <1>3, TicketKinds

LEMMA ThreadKinds ==
  ASSUME [Next]_vars
  PROVE  /\ sweep' = sweep \/ Sweeper \/ HostLost
         /\ canceller' = canceller \/ Cancelling \/ HostLost
<1>1. CASE UNCHANGED vars \/ Tick
  BY <1>1 DEF vars, Tick, threads
<1>2. CASE TicketStore
  BY <1>2 DEF TicketStore, ReclaimExpired, CancelBeforeSend, MarkOutcomeUnknown,
              RequestTicketCancel, Reconcile, ReconcileRetry, ReconcileSettle,
              ReconcileQuarantine, AppendCandidate, SettleCandidate, threads
<1>3. CASE Drivers
  BY <1>3 DEF Drivers, ClaimTicket, MarkSendStarted, MarkReturns, PhysicalSend, Commit,
              DriverLeaves, threads
<1>4. CASE HandlerSteps
  BY <1>4 DEF HandlerSteps, BeginRunning, SuspendPlanner, HandlerGivesUp, StartCell, CommitCell,
              FinalizeStart, FinalizeCommit, OuterSuccess, InnerTerminal, OuterTerminal, threads,
              FailureUnmarked, HandlerParks, ConsumeTerminal, ConsumeDirective, ConsumeCorrection
<1>5. CASE Successor /\ ~HandlerSteps
  BY <1>5 DEF Successor, NotifySettlement, ExpireQueued, ClaimFirst, TakeOverCell, threads,
              ClaimSuccessor, RecoverCell, RecoverPlanner, Resubmit
<1>6. CASE Sweeper
  BY <1>6 DEF Sweeper, SweepRead, SweepAct, SweepTerminal, SweepExpire, SweepRetry
<1>7. CASE Cancelling
  BY <1>7 DEF Cancelling, CancelStart, CancelTicket, CancelIntent, CancelDequeue
<1>8. CASE Losses
  BY <1>8 DEF Losses, WorkerLost, HostLost, HostRestarts
<1> QED
  BY <1>1, <1>2, <1>3, <1>4, <1>5, <1>6, <1>7, <1>8 DEF Next

WorkerPlaces == {"none", "begin", "ask", "consume", "cell", "run", "finalize", "close", "done",
                 "abstain", "timeout", "fail"}

LEMMA WorkerStep ==
  ASSUME Typed, [Next]_vars
  PROVE  up' \in BOOLEAN /\ worker' \in WorkerPlaces /\ notify' \subseteq Suspension
<1>0. up \in BOOLEAN /\ worker \in WorkerPlaces /\ notify \subseteq Suspension
  BY DEF Typed, ThreadTypes, WorkerPlaces
<1>1. CASE UNCHANGED vars \/ Tick
  BY <1>0, <1>1 DEF vars, Tick, threads
<1>2. CASE TicketStore
  <2>1. up' = up /\ worker' = worker
    BY <1>2, StoreIsOutside DEF Outside
  <2>2. notify' \subseteq Suspension
    BY <1>0, <1>2 DEF TicketStore, ReclaimExpired, CancelBeforeSend, MarkOutcomeUnknown,
                RequestTicketCancel, Reconcile, ReconcileRetry, ReconcileSettle,
                ReconcileQuarantine, AppendCandidate, SettleCandidate, threads, Owes
  <2> QED
    BY <1>0, <2>1, <2>2
<1>3. CASE Drivers
  <2>1. up' = up /\ worker' = worker
    BY <1>3, DriversAreOutside DEF Outside
  <2>2. ASSUME NEW d \in Driver, Commit(d)
        PROVE  notify' \subseteq Suspension
    <3>1. driver[d].on \in Suspension
      BY <2>2 DEF Commit, Typed, Held
    <3>2. Owes(driver[d].on)
      BY <2>2 DEF Commit
    <3> QED
      BY <1>0, <3>1, <3>2 DEF Owes
  <2>3. notify' \subseteq Suspension
    BY <1>0, <1>3, <2>2 DEF Drivers, ClaimTicket, MarkSendStarted, MarkReturns, PhysicalSend,
                             DriverLeaves, threads
  <2> QED
    BY <1>0, <2>1, <2>3
<1>4. CASE HandlerSteps
  BY <1>0, <1>4 DEF HandlerSteps, BeginRunning, SuspendPlanner, HandlerGivesUp, StartCell,
              CommitCell, FinalizeStart, FinalizeCommit, OuterSuccess, InnerTerminal,
              OuterTerminal, threads, Suspend, WorkerPlaces,
              FailureUnmarked, HandlerParks, ConsumeTerminal, ConsumeDirective, ConsumeCorrection
<1>5. CASE Successor /\ ~HandlerSteps
  BY <1>0, <1>5 DEF Successor, NotifySettlement, ExpireQueued, ClaimFirst, TakeOverCell, threads,
              ClaimSuccessor, RecoverCell, RecoverPlanner, Resubmit, WorkerPlaces
<1>6. CASE Sweeper
  BY <1>0, <1>6 DEF Sweeper, SweepRead, SweepAct, SweepTerminal, SweepExpire, SweepRetry
<1>7. CASE Cancelling
  BY <1>0, <1>7 DEF Cancelling, CancelStart, CancelTicket, CancelIntent, CancelDequeue
<1>8. CASE Losses
  BY <1>0, <1>8 DEF Losses, WorkerLost, HostLost, HostRestarts, WorkerPlaces
<1> QED
  BY <1>1, <1>2, <1>3, <1>4, <1>5, <1>6, <1>7, <1>8 DEF Next

LEMMA SweepNextType ==
  ASSUME NEW state
  PROVE  SweepNext(state) \in {"terminal", "idle", "raised"}
BY DEF SweepNext

LEMMA LateStays ==
  ASSUME Typed, [Next]_vars, Late
  PROVE  Late'
BY TimeMoves, CallerAssumption DEF Typed, StoreTypes, Late

\* a latest ticket there is: what the sweep and a cancellation read
LEMMA LatestTicket ==
  ASSUME Typed, Latest # 0
  PROVE  /\ Latest \in Suspension /\ ticket[Latest].state \in TicketStates
         /\ ticket[Latest].revision \in Nat
<1>1. Latest \in Suspension
  BY DEF Typed, Numbered
<1> DEFINE n == Latest
<1>2. n \in Suspension
  BY <1>1
<1> HIDE DEF n
<1>3. ticket[n].state \in TicketStates /\ ticket[n].revision \in Nat
  BY <1>2, TicketHas DEF Typed, TicketRow
<1> QED
  BY <1>1, <1>3 DEF n

SweepHolds ==
  /\ sweep.pc # "idle" => Late /\ Latest # 0
  /\ sweep.pc = "act" =>
       /\ sweep.revision <= ticket[Latest].revision
       /\ sweep.revision = ticket[Latest].revision => ticket[Latest].state = sweep.state

LEMMA SweepStep ==
  ASSUME Typed, [Next]_vars
  PROVE  sweep' \in SweepRow /\ SweepHolds'
<1>0. /\ sweep \in SweepRow /\ StoreTypes /\ SweepHolds
      /\ Latest \in 0..MaxSuspensions /\ Latest' \in 0..MaxSuspensions
  BY NumberedStep DEF Typed, ThreadTypes, Numbered, Held, SweepHolds
<1>1. CASE sweep' = sweep
  <2>1. CASE sweep.pc = "idle"
    BY <1>0, <1>1, <2>1 DEF SweepHolds
  <2>2. CASE sweep.pc # "idle"
    <3>1. Late' /\ Latest' = Latest /\ Latest # 0
      BY <1>0, <2>2, LateStays, NumberedStep DEF SweepHolds, Opening
    <3>2. ~Opening
      BY <1>0, <2>2 DEF Opening, SweepHolds
    <3> DEFINE n == Latest
    <3>3. n \in Suspension /\ ticket[n].revision \in Nat
      BY <3>1, LatestTicket
    <3> HIDE DEF n
    <3>4. ticket'[n] = ticket[n] \/ ticket'[n].revision = ticket[n].revision + 1
      BY <1>0, <3>2, <3>3, TicketKinds, TurnsSees DEF Turns
    <3>5. /\ sweep.pc = "act" =>
              /\ sweep.revision <= ticket[n].revision
              /\ sweep.revision = ticket[n].revision => ticket[n].state = sweep.state
      BY <1>0 DEF SweepHolds, n
    <3>6. sweep.revision \in Nat
      BY <1>0 DEF SweepRow
    <3>7. sweep.pc = "act" =>
              /\ sweep.revision <= ticket'[n].revision
              /\ sweep.revision = ticket'[n].revision => ticket'[n].state = sweep.state
      BY <3>3, <3>4, <3>5, <3>6
    <3>8. n = Latest'
      BY <3>1 DEF n
    <3> QED
      BY <1>0, <1>1, <3>1, <3>7, <3>8 DEF SweepHolds, n
  <2> QED
    BY <2>1, <2>2
<1>2. CASE SweepRead
  <2>1. /\ Late /\ Latest # 0 /\ UNCHANGED ticket /\ UNCHANGED inner
        /\ sweep' = [pc |-> "act", state |-> ticket[Latest].state,
                     revision |-> ticket[Latest].revision]
    BY <1>0, <1>2 DEF SweepRead
  <2>2. Latest' = Latest
    BY <2>1, StaysAsked DEF inner, AskedStays
  <2>3. Late'
    BY <2>1, LateStays
  <2>4. sweep' \in SweepRow
    BY <2>1, LatestTicket DEF SweepRow
  <2>5. /\ sweep'.pc = "act" /\ sweep'.state = ticket[Latest].state
        /\ sweep'.revision = ticket[Latest].revision
    BY <2>1
  <2>6. ticket[Latest].revision \in Nat
    BY <2>1, LatestTicket
  <2> QED
    BY <2>1, <2>2, <2>3, <2>4, <2>5, <2>6 DEF SweepHolds
<1>3. CASE SweepAct \/ SweepTerminal
  <2>1. /\ sweep.pc # "idle"
        /\ \E pc \in {"idle", "terminal", "expire", "raised"} : sweep' = [sweep EXCEPT !.pc = pc]
           \/ sweep' = sweep
    BY <1>3, SweepNextType DEF SweepAct, SweepTerminal
  <2>2. Late' /\ Latest' # 0
    BY <1>0, <2>1, LateStays, NumberedStep DEF SweepHolds
  <2>3. CASE sweep' # sweep
    <3>1. PICK pc \in {"idle", "terminal", "expire", "raised"} : sweep' = [sweep EXCEPT !.pc = pc]
      BY <2>1, <2>3
    <3>2. sweep' \in SweepRow /\ sweep'.pc # "act"
      BY <1>0, <3>1 DEF SweepRow
    <3> QED
      BY <2>2, <3>2 DEF SweepHolds
  <2> QED
    BY <1>1, <2>3
<1>4. CASE SweepExpire \/ SweepRetry \/ HostLost
  <2>1. sweep' = NoSweep
    BY <1>4 DEF SweepExpire, SweepRetry, HostLost
  <2>2. NoSweep \in SweepRow /\ NoSweep.pc = "idle"
    BY DEF NoSweep, SweepRow, TicketStates
  <2> QED
    BY <2>1, <2>2 DEF SweepHolds
<1> QED
  BY <1>1, <1>2, <1>3, <1>4, ThreadKinds DEF Sweeper

LEMMA CancellerStep ==
  ASSUME Typed, [Next]_vars
  PROVE  canceller' \in CancelRow /\ (canceller'.pc = "ticket" => canceller'.on \in Suspension)
<1>0. canceller \in CancelRow /\ (canceller.pc = "ticket" => canceller.on \in Suspension)
  BY DEF Typed, ThreadTypes, Held
<1>1. CASE canceller' = canceller
  BY <1>0, <1>1
<1>2. \A pc \in {"intent", "dequeue", "idle"} :
        /\ [NoCancel EXCEPT !.pc = pc] \in CancelRow
        /\ [NoCancel EXCEPT !.pc = pc].pc = pc
  BY CallerAssumption DEF NoCancel, CancelRow
<1>3. NoCancel \in CancelRow /\ NoCancel.pc = "idle"
  BY CallerAssumption DEF NoCancel, CancelRow
<1>4. CASE CancelStart
  <2>1. CASE \E s \in Suspension : susp[s].state = "pending" /\ ticket[s].state \in Unsent
    <3>1. canceller' = [pc |-> "ticket", on |-> Latest, revision |-> ticket[Latest].revision]
      BY <1>4, <2>1 DEF CancelStart
    <3>2. Latest # 0
      BY <2>1 DEF Typed, Numbered, Asked
    <3>3. Latest \in Suspension /\ ticket[Latest].revision \in Nat
      BY <3>2, LatestTicket
    <3> DEFINE n == Latest
               r == ticket[n].revision
    <3>4. n \in Suspension /\ n \in 0..MaxSuspensions /\ r \in Nat
      BY <3>3, CallerAssumption
    <3>5. canceller' = [pc |-> "ticket", on |-> n, revision |-> r]
      BY <3>1
    <3> HIDE DEF n, r
    <3> QED
      BY <3>4, <3>5 DEF CancelRow
  <2>2. CASE ~\E s \in Suspension : susp[s].state = "pending" /\ ticket[s].state \in Unsent
    BY <1>2, <1>4, <2>2 DEF CancelStart
  <2> QED
    BY <2>1, <2>2
<1>5. CASE CancelTicket \/ CancelIntent \/ CancelDequeue \/ HostLost
  <2>1. \/ \E pc \in {"intent", "dequeue"} : canceller' = [NoCancel EXCEPT !.pc = pc]
        \/ canceller' = NoCancel
    BY <1>5 DEF CancelTicket, CancelIntent, CancelDequeue, HostLost
  <2> QED
    BY <1>2, <1>3, <2>1
<1> QED
  BY <1>1, <1>4, <1>5, ThreadKinds DEF Cancelling

DriverHolds(row) ==
  /\ row.phase # "idle" => row.on \in Suspension /\ row.claim \in Claim
  /\ row.phase = "send_observed" => row.saw \in Outcomes

LEMMA DriversStep ==
  ASSUME Typed, [Next]_vars
  PROVE  \A e \in Driver : DriverHolds(driver'[e])
<1>0. driver \in [Driver -> DriverRow] /\ \A e \in Driver : DriverHolds(driver[e])
  BY DEF Typed, StoreTypes, Held, DriverHolds
<1>1. CASE driver' = driver
  BY <1>0, <1>1
<1>2. ASSUME NEW d \in Driver, DriverMoves(d)
      PROVE  \A e \in Driver : DriverHolds(driver'[e])
  <2>1. \E row \in DriverRow : DriverPuts(d, row) /\ DriverHolds(row)
    <3>0. driver[d] \in DriverRow /\ DriverHolds(driver[d])
      BY <1>0
    <3>1. NoDriver \in DriverRow /\ DriverHolds(NoDriver)
      BY CallerAssumption DEF NoDriver, DriverRow, DriverPhases, Answers, DriverHolds
    <3>2. CASE Commit(d)
      BY <3>1, <3>2, CommitMoves
    <3>3. CASE DriverLeaves(d)
      BY <3>1, <3>3 DEF DriverLeaves, DriverPuts
    <3>4. ASSUME NEW s \in Suspension, ClaimTicket(d, s)
          PROVE  \E row \in DriverRow : DriverPuts(d, row) /\ DriverHolds(row)
      <4>1. PICK row \in DriverRow : /\ DriverPuts(d, row) /\ row.phase = "prepared"
                                     /\ row.on = s /\ row.claim \in Claim
        BY <3>4, ClaimMoves
      <4>2. DriverHolds(row)
        BY <4>1 DEF DriverHolds
      <4> QED
        BY <4>1, <4>2
    <3>5. CASE MarkSendStarted(d) \/ MarkReturns(d)
      <4>1. driver[d].phase # "idle"
        BY <3>5 DEF MarkSendStarted, MarkReturns
      <4>2. PICK phase \in DriverPhases \ {"idle", "send_observed"} :
              DriverPuts(d, [driver[d] EXCEPT !.phase = phase])
        BY <3>5, MarkingMoves
        DEF MarkMoves, MarkReturns, Confirmed, DriverPhases, DriverPuts
      <4>3. /\ [driver[d] EXCEPT !.phase = phase] \in DriverRow
            /\ DriverHolds([driver[d] EXCEPT !.phase = phase])
        BY <3>0, <4>1 DEF DriverRow, DriverHolds
      <4> QED
        BY <4>2, <4>3
    <3>6. CASE PhysicalSend(d)
      <4>1. driver[d].phase # "idle"
        BY <3>6 DEF PhysicalSend
      <4>2. CASE DriverPuts(d, [driver[d] EXCEPT !.phase = "outcome_unknown"])
        <5>1. /\ [driver[d] EXCEPT !.phase = "outcome_unknown"] \in DriverRow
              /\ DriverHolds([driver[d] EXCEPT !.phase = "outcome_unknown"])
          BY <3>0, <4>1 DEF DriverRow, DriverPhases, DriverHolds
        <5> QED
          BY <4>2, <5>1
      <4>3. ASSUME NEW seen \in Outcomes,
                   DriverPuts(d, [driver[d] EXCEPT !.phase = "send_observed", !.saw = seen])
            PROVE  \E row \in DriverRow : DriverPuts(d, row) /\ DriverHolds(row)
        <5>1. /\ [driver[d] EXCEPT !.phase = "send_observed", !.saw = seen] \in DriverRow
              /\ DriverHolds([driver[d] EXCEPT !.phase = "send_observed", !.saw = seen])
          BY <3>0, <4>1 DEF DriverRow, DriverPhases, Answers, DriverHolds
        <5> QED
          BY <4>3, <5>1
      <4>4. \/ DriverPuts(d, [driver[d] EXCEPT !.phase = "outcome_unknown"])
            \/ \E seen \in Outcomes :
                 DriverPuts(d, [driver[d] EXCEPT !.phase = "send_observed", !.saw = seen])
        BY <1>0, <3>6 DEF PhysicalSend, DriverPuts
      <4> QED
        BY <4>2, <4>3, <4>4
    <3> QED
      BY <1>2, <3>2, <3>3, <3>4, <3>5, <3>6 DEF DriverMoves
  <2> QED
    BY <1>0, <2>1 DEF DriverPuts
<1> QED
  BY <1>1, <1>2, StepKinds DEF Coordination, CoordinatorTurns, Candidate, AppendCandidate, caller

LEMMA TypedStep == Typed /\ [Next]_vars => Typed'
<1> SUFFICES ASSUME Typed, [Next]_vars PROVE Typed'
  OBVIOUS
<1>1. ThreadTypes'
  BY WorkerStep, SweepStep, CancellerStep DEF ThreadTypes, WorkerPlaces
<1>2. Held'
  BY DriversStep, SweepStep, CancellerStep DEF Held, DriverHolds, SweepHolds
<1> QED
  BY <1>1, <1>2, StoreTypesStep, NumberedStep, TicketedStep DEF Typed

LEMMA TypedInvariant == Spec => []Typed
BY TypedInit, TypedStep, PTL DEF Spec

\* Every variable of caller work keeps its type: no table gets a state outside
\* its CHECK constraint, no process acts on a ticket that was never issued.
THEOREM CallerTypes == Spec => []CallerTypeOK
<1>1. Typed => CallerTypeOK
  BY DEF Typed, StoreTypes, JobTypes, ThreadTypes, TicketRow, SuspRow, OutboxRow, OpRow, JobRow,
         ControlRow, CellRow, DriverPhases, DriverRow, SweepRow, CancelRow, CallerTypeOK
<1> QED
  BY <1>1, TypedInvariant, PTL

-----------------------------------------------------------------------------
(* Who may send, and what was sent.                                        *)

\* a driver whose mark was committed, and one that has it still to use
Sending == {"mark_in_progress", "send_started"}
Past == Sending \cup {"outcome_unknown", "send_observed"}
Holds(row, s) == row.on = s /\ row.phase \in Sending

UnstartedIsUnsent(s) == ~ticket[s].started => sends[s] = <<>>
SentUnderItsClaim(s) == sends[s] # <<>> => sends[s] = <<ticket[s].claim>>
MarkIsConfirmed(s, row) ==
  row.on = s /\ row.phase \in Past =>
    /\ ticket[s].started
    /\ row.claim = ticket[s].claim
    /\ row.phase \in Sending => sends[s] = <<>>
OneMark(s) == \A d, e \in Driver : Holds(driver[d], s) /\ Holds(driver[e], s) => d = e

Authorised ==
  \A s \in Suspension :
    /\ UnstartedIsUnsent(s)
    /\ SentUnderItsClaim(s)
    /\ \A d \in Driver : MarkIsConfirmed(s, driver[d])
    /\ OneMark(s)

LEMMA AuthorisedInit == Init => Authorised
BY DEF Init, Authorised, UnstartedIsUnsent, SentUnderItsClaim, MarkIsConfirmed, OneMark, Holds,
       NoDriver, Sending, Past

\* What has started stays started, under the claim it started with.
LEMMA StartedStays ==
  ASSUME Typed, [Next]_vars, NEW s \in Suspension, ticket[s].started
  PROVE  ticket'[s].started /\ ticket'[s].claim = ticket[s].claim
<1>0. Claims(ticket[s])
  BY DEF Typed, Ticketed
<1>1. CASE Turns(s, ticket'[s])
  BY <1>0, <1>1 DEF Turns, Reserves, Releases, Withdraws, Marks, Learns, Claims, NeverStarted,
                    Unsent
<1>2. CASE Opening
  BY <1>2, OpeningSees DEF NoTicket
<1> QED
  BY <1>1, <1>2, TicketKinds, TurnsSees DEF Typed

LEMMA AuthorisedWhenIdle ==
  ASSUME Typed, Authorised, [Next]_vars, UNCHANGED <<driver, sends>>
  PROVE  Authorised'
BY StartedStays
DEF Authorised, UnstartedIsUnsent, SentUnderItsClaim, MarkIsConfirmed, OneMark, Holds, Sending,
    Past

\* a driver that holds no mark afterwards: it forgot, never had one, or used it
LEMMA AuthorisedWhenDropped ==
  ASSUME Typed, Authorised, [Next]_vars, NEW d \in Driver, NEW row,
         DriverPuts(d, row), UNCHANGED sends,
         row.phase \notin Past \/ (row.phase \notin Sending /\ row.on = driver[d].on
                                    /\ row.claim = driver[d].claim /\ driver[d].phase \in Past)
  PROVE  Authorised'
<1>0. driver \in [Driver -> DriverRow]
  BY DEF Typed, StoreTypes
<1>1. \A e \in Driver : driver'[e] = IF e = d THEN row ELSE driver[e]
  BY <1>0 DEF DriverPuts
<1>2. Sending \subseteq Past
  BY DEF Past
<1> SUFFICES ASSUME NEW s \in Suspension
             PROVE  /\ UnstartedIsUnsent(s)'
                    /\ SentUnderItsClaim(s)'
                    /\ \A e \in Driver : MarkIsConfirmed(s, driver[e])'
                    /\ OneMark(s)'
  BY DEF Authorised
<1>3. UnstartedIsUnsent(s)' /\ SentUnderItsClaim(s)'
  BY StartedStays DEF Authorised, UnstartedIsUnsent, SentUnderItsClaim
<1>4. ASSUME NEW e \in Driver
      PROVE  MarkIsConfirmed(s, driver[e])'
  <2>1. CASE e # d
    BY <1>1, <2>1, StartedStays DEF Authorised, MarkIsConfirmed
  <2>2. CASE e = d
    BY <1>1, <1>2, <2>2, StartedStays DEF Authorised, MarkIsConfirmed
  <2> QED
    BY <2>1, <2>2
<1>5. OneMark(s)'
  BY <1>1, <1>2 DEF Authorised, OneMark, Holds
<1> QED
  BY <1>3, <1>4, <1>5

LEMMA AuthorisedMark ==
  ASSUME Typed, Authorised, [Next]_vars, NEW d \in Driver, MarkSendStarted(d)
  PROVE  Authorised'
<1>0. driver \in [Driver -> DriverRow] /\ driver[d] \in DriverRow
  BY DEF Typed, StoreTypes
<1>1. CASE UNCHANGED ticket /\ DriverPuts(d, [driver[d] EXCEPT !.phase = "mark_unconfirmed"])
  <2>1. [driver[d] EXCEPT !.phase = "mark_unconfirmed"].phase \notin Past
    BY <1>0 DEF DriverRow, Past, Sending
  <2>2. UNCHANGED sends
    BY MarkingMoves
  <2> QED
    BY <1>1, <2>1, <2>2, AuthorisedWhenDropped
<1>2. CASE /\ Marks(ticket[driver[d].on], ticket'[driver[d].on])
           /\ ticket[driver[d].on].claim = driver[d].claim
           /\ DriverPuts(d, [driver[d] EXCEPT !.phase = "mark_in_progress"])
  <2> DEFINE row == [driver[d] EXCEPT !.phase = "mark_in_progress"]
             v == driver[d].on
  <2>1. row.phase = "mark_in_progress" /\ row.on = v /\ row.claim = driver[d].claim
    BY <1>0 DEF DriverRow
  <2>2. \A e \in Driver : driver'[e] = IF e = d THEN row ELSE driver[e]
    BY <1>0, <1>2 DEF DriverPuts
  <2>3. sends' = sends /\ v \in Suspension
    BY MarkingMoves DEF MarkSendStarted, Typed, Held
  <2>4. /\ ~ticket[v].started /\ ticket'[v].started
        /\ ticket'[v].claim = driver[d].claim
    BY <1>2, <2>3 DEF Marks, Typed, Ticketed, Claims, NeverStarted, Unsent
  <2> HIDE DEF row, v
  <2> SUFFICES ASSUME NEW s \in Suspension
               PROVE  /\ UnstartedIsUnsent(s)'
                      /\ SentUnderItsClaim(s)'
                      /\ \A e \in Driver : MarkIsConfirmed(s, driver[e])'
                      /\ OneMark(s)'
    BY DEF Authorised
  <2>5. UnstartedIsUnsent(s)' /\ SentUnderItsClaim(s)'
    BY <2>3, StartedStays DEF Authorised, UnstartedIsUnsent, SentUnderItsClaim
  <2>6. ASSUME NEW e \in Driver
        PROVE  MarkIsConfirmed(s, driver[e])'
    <3>1. CASE e # d
      BY <2>2, <2>3, <3>1, StartedStays DEF Authorised, MarkIsConfirmed
    <3>2. CASE e = d
      BY <2>1, <2>2, <2>3, <2>4, <3>2 DEF Authorised, MarkIsConfirmed, UnstartedIsUnsent
    <3> QED
      BY <3>1, <3>2
  <2>7. OneMark(s)'
    <3>1. \A e \in Driver : ~Holds(driver[e], v)
      BY <2>3, <2>4 DEF Authorised, MarkIsConfirmed, Holds, Past
    <3> QED
      BY <2>1, <2>2, <3>1 DEF Authorised, OneMark, Holds
  <2> QED
    BY <2>5, <2>6, <2>7
<1> QED
  BY <1>1, <1>2, MarkingMoves DEF MarkMoves

LEMMA AuthorisedSend ==
  ASSUME Typed, Authorised, [Next]_vars, NEW d \in Driver, PhysicalSend(d)
  PROVE  Authorised'
<1>0. driver \in [Driver -> DriverRow] /\ driver[d] \in DriverRow
  BY DEF Typed, StoreTypes
<1> DEFINE v == driver[d].on
           claim == driver[d].claim
<1>1. /\ driver[d].phase = "send_started" /\ v \in Suspension /\ claim \in Claim
      /\ UNCHANGED ticket
  BY DEF PhysicalSend, Typed, Held
<1>2. PICK row \in DriverRow :
        /\ DriverPuts(d, row) /\ row.on = v /\ row.claim = claim
        /\ row.phase \in Past /\ row.phase \notin Sending
  <2>1. CASE driver' = [driver EXCEPT ![d].phase = "outcome_unknown"]
    <3> DEFINE row == [driver[d] EXCEPT !.phase = "outcome_unknown"]
    <3>1. /\ row \in DriverRow /\ row.on = v /\ row.claim = claim
          /\ row.phase \in Past /\ row.phase \notin Sending
      BY <1>0 DEF DriverRow, DriverPhases, Past, Sending
    <3>2. DriverPuts(d, row)
      BY <1>0, <2>1 DEF DriverPuts
    <3> HIDE DEF row
    <3> QED
      BY <3>1, <3>2
  <2>2. ASSUME NEW seen \in Outcomes,
               driver' = [driver EXCEPT ![d].phase = "send_observed", ![d].saw = seen]
        PROVE  \E row \in DriverRow :
                 /\ DriverPuts(d, row) /\ row.on = v /\ row.claim = claim
                 /\ row.phase \in Past /\ row.phase \notin Sending
    <3> DEFINE row == [driver[d] EXCEPT !.phase = "send_observed", !.saw = seen]
    <3>1. /\ row \in DriverRow /\ row.on = v /\ row.claim = claim
          /\ row.phase \in Past /\ row.phase \notin Sending
      BY <1>0 DEF DriverRow, DriverPhases, Answers, Past, Sending
    <3>2. DriverPuts(d, row)
      BY <1>0, <2>2 DEF DriverPuts
    <3> HIDE DEF row
    <3> QED
      BY <3>1, <3>2
  <2> QED
    BY <2>1, <2>2 DEF PhysicalSend
<1>3. sends' = sends \/ sends' = [sends EXCEPT ![v] = Append(@, claim)]
  BY DEF PhysicalSend
<1>4. CASE sends' = sends
  BY <1>1, <1>2, <1>4, AuthorisedWhenDropped DEF Past, Sending
<1>5. CASE sends' = [sends EXCEPT ![v] = Append(@, claim)]
  <2>1. ticket[v].started /\ claim = ticket[v].claim /\ sends[v] = <<>>
    BY <1>1 DEF Authorised, MarkIsConfirmed, Past, Sending
  <2>2. \A s \in Suspension : sends'[s] = IF s = v THEN <<claim>> ELSE sends[s]
    <3>1. sends \in [Suspension -> Seq(Claim)]
      BY DEF Typed, StoreTypes
    <3>2. Append(sends[v], claim) = <<claim>>
      BY <2>1
    <3> HIDE DEF v, claim
    <3> QED
      BY <1>5, <3>1, <3>2
  <2>3. \A e \in Driver : Holds(driver[e], v) => e = d
    BY <1>1 DEF Authorised, OneMark, Holds, Sending
  <2>4. \A e \in Driver : driver'[e] = IF e = d THEN row ELSE driver[e]
    BY <1>0, <1>2 DEF DriverPuts
  <2> HIDE DEF v, claim
  <2> SUFFICES ASSUME NEW s \in Suspension
               PROVE  /\ UnstartedIsUnsent(s)'
                      /\ SentUnderItsClaim(s)'
                      /\ \A e \in Driver : MarkIsConfirmed(s, driver[e])'
                      /\ OneMark(s)'
    BY DEF Authorised
  <2>5. UnstartedIsUnsent(s)' /\ SentUnderItsClaim(s)'
    BY <1>1, <2>1, <2>2 DEF Authorised, UnstartedIsUnsent, SentUnderItsClaim
  <2>6. ASSUME NEW e \in Driver
        PROVE  MarkIsConfirmed(s, driver[e])'
    <3>1. CASE e # d
      BY <1>1, <2>2, <2>3, <2>4, <3>1 DEF Authorised, MarkIsConfirmed, Holds
    <3>2. CASE e = d
      BY <1>1, <1>2, <2>1, <2>4, <3>2 DEF MarkIsConfirmed
    <3> QED
      BY <3>1, <3>2
  <2>7. OneMark(s)'
    BY <1>2, <2>4 DEF Authorised, OneMark, Holds
  <2> QED
    BY <2>5, <2>6, <2>7
<1> QED
  BY <1>3, <1>4, <1>5

LEMMA AuthorisedReturn ==
  ASSUME Typed, Authorised, [Next]_vars, NEW d \in Driver, MarkReturns(d)
  PROVE  Authorised'
<1>0. driver \in [Driver -> DriverRow] /\ driver[d] \in DriverRow
  BY DEF Typed, StoreTypes
<1>1. PICK phase \in Confirmed : driver' = [driver EXCEPT ![d].phase = phase]
  BY DEF MarkReturns
<1>2. UNCHANGED <<ticket, sends>> /\ driver[d].phase = "mark_in_progress"
  BY DEF MarkReturns
<1>3. \A e \in Driver : /\ driver'[e].on = driver[e].on /\ driver'[e].claim = driver[e].claim
                        /\ e # d => driver'[e] = driver[e]
                        /\ driver'[e].phase \in Past => driver[e].phase \in Past
                        /\ driver'[e].phase \in Sending => driver[e].phase \in Sending
  BY <1>0, <1>1, <1>2 DEF DriverRow, Past, Sending, Confirmed
<1> QED
  BY <1>2, <1>3
  DEF Authorised, UnstartedIsUnsent, SentUnderItsClaim, MarkIsConfirmed, OneMark, Holds

LEMMA AuthorisedStep == Typed /\ Authorised /\ [Next]_vars => Authorised'
<1> SUFFICES ASSUME Typed, Authorised, [Next]_vars PROVE Authorised'
  OBVIOUS
<1>1. ASSUME NEW d \in Driver, DriverMoves(d)
      PROVE  Authorised'
  <2>1. CASE Commit(d) \/ DriverLeaves(d)
    <3>1. DriverPuts(d, NoDriver) /\ UNCHANGED sends
      BY <2>1, CommitMoves DEF DriverLeaves, DriverPuts
    <3>2. NoDriver.phase \notin Past
      BY DEF NoDriver, Past, Sending
    <3> QED
      BY <3>1, <3>2, AuthorisedWhenDropped
  <2>2. ASSUME NEW s \in Suspension, ClaimTicket(d, s)
        PROVE  Authorised'
    <3>1. \E row \in DriverRow : DriverPuts(d, row) /\ row.phase \notin Past
      BY <2>2, ClaimMoves DEF Past, Sending
    <3>2. UNCHANGED sends
      BY <2>2, ClaimMoves
    <3> QED
      BY <3>1, <3>2, AuthorisedWhenDropped
  <2> QED
    BY <1>1, <2>1, <2>2, AuthorisedMark, AuthorisedSend, AuthorisedReturn DEF DriverMoves
<1>2. CASE UNCHANGED <<driver, sends>>
  BY <1>2, AuthorisedWhenIdle
<1> QED
  BY <1>1, <1>2, StepKinds DEF Coordination, CoordinatorTurns, Candidate, AppendCandidate, caller

LEMMA AuthorisedInvariant == Spec => []Authorised
BY TypedInvariant, AuthorisedInit, AuthorisedStep, PTL DEF Spec

\* A ticket is sent at most once and under the claim its row names, however
\* claims expire and are taken again and whichever replies are lost.
THEOREM SentOnce == Spec => []OneAuthorisedSend
<1>1. Authorised => OneAuthorisedSend
  BY DEF Authorised, UnstartedIsUnsent, SentUnderItsClaim, OneAuthorisedSend
<1> QED
  BY <1>1, AuthorisedInvariant, PTL

\* cancel_before_send and mark_send_started exclude each other: a withdrawn
\* ticket was not sent and nobody can still send it.
THEOREM WithdrawalIsCertain == Spec => []WithdrawnIsUnsent
<1>1. Typed /\ Authorised => WithdrawnIsUnsent
  <2> SUFFICES ASSUME Typed, Authorised, NEW s \in Suspension,
                      ticket[s].state = "cancelled_before_send"
               PROVE  /\ sends[s] = <<>>
                      /\ \A d \in Driver : driver[d].on = s =>
                           driver[d].phase \notin {"mark_in_progress", "send_started"}
    BY DEF WithdrawnIsUnsent
  <2>1. ~ticket[s].started
    BY DEF Typed, Ticketed, Claims, NeverStarted
  <2> QED
    BY <2>1 DEF Authorised, UnstartedIsUnsent, MarkIsConfirmed, Past, Sending
<1> QED
  BY <1>1, TypedInvariant, AuthorisedInvariant, PTL

-----------------------------------------------------------------------------
(* What a settlement rests on.                                             *)

LEMMA PapersAlwaysGrow ==
  ASSUME Typed, [Next]_vars
  PROVE  PapersGrow
<1>1. CASE Candidate
  BY <1>1, CandidateMoves DEF Candidate
<1>2. ASSUME NEW d \in Driver, DriverMoves(d)
      PROVE  PapersGrow
  <2>1. CASE MarkReturns(d) \/ PhysicalSend(d) \/ DriverLeaves(d)
    BY <2>1, PapersStay DEF MarkReturns, PhysicalSend, DriverLeaves
  <2> QED
    BY <1>2, <2>1, ClaimMoves, MarkingMoves, CommitMoves, PapersStay DEF DriverMoves
<1>3. CASE UNCHANGED paper
  BY <1>3, PapersStay
<1> QED
  BY <1>1, <1>2, <1>3, StepKinds DEF Coordination, CoordinatorTurns

Final == Settled \cup {"cancelled_before_send", "quarantined"}

LEMMA FinalStays ==
  ASSUME Typed, [Next]_vars, NEW s \in Suspension, ticket[s].state \in Final
  PROVE  ticket'[s] = ticket[s]
<1>1. ~Turns(s, ticket'[s])
  BY DEF Turns, Reserves, Releases, Withdraws, Marks, Learns, Final, Settled, Unsent, MayHaveSent
<1>2. CASE Opening
  BY <1>2, OpeningSees DEF NoTicket, Final, Settled
<1> QED
  BY <1>1, <1>2, TicketKinds, TurnsSees DEF Typed

LEMMA SettledNow ==
  ASSUME Typed, [Next]_vars, NEW s \in Suspension,
         ticket[s].state \notin Settled, ticket'[s].state \in Settled
  PROVE  Turns(s, ticket'[s])
<1>1. CASE Opening
  BY <1>1, OpeningSees, NewTicketClaims DEF Settled
<1> QED
  BY <1>1, TicketKinds, TurnsSees DEF Typed

LEMMA EvidenceStep == Typed /\ SettlementIsEvidence /\ [Next]_vars => SettlementIsEvidence'
<1> SUFFICES ASSUME Typed, SettlementIsEvidence, [Next]_vars, NEW s \in Suspension,
                    ticket'[s].state \in Settled
             PROVE  /\ ticket'[s].settlement \in receipts'[s]
                    /\ ticket'[s].settlement.claim = ticket'[s].claim
                    /\ ticket'[s].state = "settled_success" => journal'[s]
  BY DEF SettlementIsEvidence
<1>1. CASE ticket[s].state \in Settled
  BY <1>1, FinalStays, PapersAlwaysGrow DEF Final, PapersGrow, SettlementIsEvidence
<1>2. CASE ticket[s].state \notin Settled
  BY <1>2, SettledNow DEF Turns, Rests
<1> QED
  BY <1>1, <1>2

\* A settlement is what one receipt of the marked attempt says, and a success
\* has its response in the model journal, however the receipt arrived.
THEOREM SettlementIsReceipted == Spec => []SettlementIsEvidence
<1>1. Init => SettlementIsEvidence
  BY DEF Init, NoTicket, Settled, SettlementIsEvidence
<1> QED
  BY <1>1, TypedInvariant, EvidenceStep, PTL DEF Spec

\* Nothing settles while two receipts of the attempt disagree, and what is
\* settled, withdrawn or quarantined is never written again.
THEOREM SettledOnce == Spec => SettlementIsFinal
<1> DEFINE Settling(s) ==
      /\ ticket[s].state \in Settled \cup {"cancelled_before_send", "quarantined"} =>
           ticket'[s] = ticket[s]
      /\ ticket[s].state \notin Settled /\ ticket'[s].state \in Settled =>
           Cardinality({r \in receipts'[s] : r.claim = ticket[s].claim}) = 1
<1>1. Typed /\ [Next]_vars => \A s \in Suspension : Settling(s)
  <2> SUFFICES ASSUME Typed, [Next]_vars, NEW s \in Suspension PROVE Settling(s)
    OBVIOUS
  <2>1. ticket[s].state \in Settled \cup {"cancelled_before_send", "quarantined"} =>
           ticket'[s] = ticket[s]
    BY FinalStays DEF Final
  <2>2. ticket[s].state \notin Settled /\ ticket'[s].state \in Settled =>
           Cardinality({r \in receipts'[s] : r.claim = ticket[s].claim}) = 1
    BY SettledNow DEF Turns, Rests, Alone
  <2> QED
    BY <2>1, <2>2
<1>2. Typed /\ [Next]_vars => [\A s \in Suspension : Settling(s)]_vars
  BY <1>1
<1> QED
  BY <1>2, TypedInvariant, PTL DEF Spec, SettlementIsFinal

-----------------------------------------------------------------------------
(* One continuation.  An attempt runs with nothing pending, and with no    *)
(* settlement waiting but the one it is about to consume; a prepared cell  *)
(* has not run and is owned by nobody or by the attempt that will run it.  *)

AttemptsRun == worker # "none" => op.state = "running" /\ up

FirstAttempt == op.attempt = 0 => Latest = 0 /\ cell.state = "none" /\ worker = "none"

OutboxAsked == \A s \in Suspension : outbox[s].state # "none" => susp[s].state # "absent"

WaitsAlone ==
  \A s \in Suspension :
    susp[s].state = "pending" =>
      s = Latest /\ worker = "none" /\ cell.state # "prepared" /\ Awaiting = {}

ContinuesAlone ==
  \A s \in Awaiting :
    /\ s = Latest
    /\ ticket[s].state \in Settled
    /\ susp[s].state \in {"settled", "cancelled"}
    /\ worker \in {"none", "consume"}
    /\ cell.state # "prepared"

ConsumesOne ==
  worker = "consume" =>
    Latest \in Suspension /\ outbox[Latest] = [state |-> "prepared", owner |-> op.attempt]

CellsWait == worker \notin {"none", "cell", "timeout"} => cell.state # "prepared"

CellIsFresh == cell.runs <= 1 /\ (cell.state = "prepared" => cell.runs = 0)

Continuity ==
  /\ AttemptsRun /\ FirstAttempt /\ OutboxAsked
  /\ WaitsAlone /\ ContinuesAlone /\ ConsumesOne
  /\ CellsWait /\ CellIsFresh

LEMMA ContinuityInit == Init => Continuity
<1> SUFFICES ASSUME Init PROVE Continuity
  OBVIOUS
<1>1. Asked = 1..0
  BY DEF Init, Asked
<1>2. Latest = 0
  BY <1>1, LatestIs
<1> QED
  BY <1>2 DEF Init, Continuity, AttemptsRun, FirstAttempt, OutboxAsked, WaitsAlone, Awaiting,
              ContinuesAlone, ConsumesOne, CellsWait, CellIsFresh, NoCell

\* settled tickets keep what they say
LEMMA SettledStay ==
  ASSUME Typed, [Next]_vars, NEW s \in Suspension, ticket[s].state \in Settled
  PROVE  ticket'[s].state \in Settled
BY FinalStays DEF Final

\* the handler stays where it is, leaves, or moves between two places at which
\* no settlement is consumed
Goes ==
  \/ worker' = "none"
  \/ /\ op'.state = "running" /\ up'
     /\ \/ worker' = worker
        \/ /\ worker \notin {"none", "consume"} /\ worker' \notin {"none", "consume"}
           /\ worker' \in {"cell", "timeout"} \/ worker \notin {"cell", "timeout"}

\* the steps that leave the suspensions, the outbox and the cell alone
Rest == UNCHANGED <<susp, outbox, cell>> /\ op'.attempt = op.attempt /\ Goes

LEMMA ContinuityRest ==
  ASSUME Typed, Continuity, [Next]_vars, Rest
  PROVE  Continuity'
<1>1. UNCHANGED <<susp, outbox, cell>> /\ op'.attempt = op.attempt
  BY DEF Rest
<1>2. Asked' = Asked
  BY <1>1 DEF Asked
<1>3. Latest' = Latest /\ Awaiting' = Awaiting
  BY <1>1, <1>2, LatestStays DEF Awaiting
<1>4. AttemptsRun' /\ FirstAttempt' /\ OutboxAsked'
  BY <1>1, <1>3 DEF Continuity, AttemptsRun, FirstAttempt, OutboxAsked, Rest, Goes
<1>5. WaitsAlone'
  BY <1>1, <1>3 DEF Continuity, WaitsAlone, Rest, Goes
<1>6. ContinuesAlone'
  <2>1. \A s \in Awaiting : ticket'[s].state \in Settled
    BY SettledStay DEF Continuity, ContinuesAlone, Awaiting
  <2> QED
    BY <1>1, <1>3, <2>1 DEF Continuity, ContinuesAlone, Rest, Goes
<1>7. ConsumesOne' /\ CellsWait' /\ CellIsFresh'
  BY <1>1, <1>3 DEF Continuity, ConsumesOne, CellsWait, CellIsFresh, Rest, Goes
<1> QED
  BY <1>4, <1>5, <1>6, <1>7 DEF Continuity

LEMMA ContinuitySettles ==
  ASSUME Typed, Continuity, [Next]_vars, Settles, UNCHANGED <<up, worker>>
  PROVE  Continuity'
<1>1. PICK s \in Suspension, state \in Terminal : Ends(s, state)
  BY DEF Settles
<1>2. /\ susp[s].state = "pending" /\ UNCHANGED <<op, cell>>
      /\ susp' = [susp EXCEPT ![s].state = Projected(state)]
      /\ \/ outbox' = [outbox EXCEPT ![s].state = "pending"] /\ state \in Settled
         \/ outbox' = outbox
      /\ ticket'[s].state = state
  BY <1>1 DEF Ends, ProjectTerminal, Settles
<1>3. s = Latest /\ worker = "none" /\ cell.state # "prepared" /\ Awaiting = {}
  BY <1>2 DEF Continuity, WaitsAlone
<1>4. /\ Projected(state) \in {"settled", "cancelled", "parked"}
      /\ state \in Settled => Projected(state) \in {"settled", "cancelled"}
  BY DEF Projected, Terminal, Settled
<1>5. susp \in [Suspension -> SuspRow] /\ outbox \in [Suspension -> OutboxRow]
  BY DEF Typed, JobTypes
<1>6. /\ \A v \in Suspension : susp'[v].state = IF v = s THEN Projected(state) ELSE susp[v].state
      /\ \A v \in Suspension : v # s => outbox'[v] = outbox[v]
      /\ (outbox'[s].state = "pending" /\ state \in Settled) \/ outbox'[s] = outbox[s]
  BY <1>2, <1>5 DEF SuspRow, OutboxRow
<1>7. Latest' = Latest
  <2>1. AskedStays
    BY <1>2, <1>4, <1>6 DEF AskedStays
  <2> QED
    BY <2>1, StaysAsked
<1>8. \A v \in Suspension : susp'[v].state # "pending"
  BY <1>3, <1>4, <1>6 DEF Continuity, WaitsAlone
<1>9. \A v \in Awaiting' : v = s /\ state \in Settled
  BY <1>3, <1>6 DEF Awaiting
<1>10. AttemptsRun' /\ FirstAttempt' /\ CellsWait' /\ CellIsFresh' /\ WaitsAlone'
  BY <1>2, <1>7, <1>8
  DEF Continuity, AttemptsRun, FirstAttempt, CellsWait, CellIsFresh, WaitsAlone
<1>11. OutboxAsked'
  BY <1>2, <1>4, <1>6 DEF Continuity, OutboxAsked
<1>12. ContinuesAlone'
  BY <1>2, <1>3, <1>4, <1>6, <1>7, <1>9 DEF ContinuesAlone
<1>13. ConsumesOne'
  BY <1>3 DEF ConsumesOne
<1> QED
  BY <1>10, <1>11, <1>12, <1>13 DEF Continuity

\* the settlement an attempt consumes is the one that was prepared for it
LEMMA PreparedIsLatest ==
  ASSUME Typed, Continuity, worker = "consume"
  PROVE  /\ Prepared = Latest /\ Latest \in Suspension
         /\ outbox[Latest].state = "prepared"
         /\ Awaiting = {Latest}
         /\ \A s \in Suspension : susp[s].state # "pending"
         /\ op.attempt # 0 /\ op.state = "running" /\ up
         /\ cell.state # "prepared"
<1>1. /\ Latest \in Suspension
      /\ outbox[Latest].state = "prepared" /\ outbox[Latest].owner = op.attempt
  BY DEF Continuity, ConsumesOne
<1>2. \A s \in Awaiting : s = Latest
  BY DEF Continuity, ContinuesAlone
<1>3. Prepared \in Suspension /\ outbox[Prepared].state = "prepared"
  BY <1>1 DEF Prepared
<1>4. Prepared = Latest /\ Awaiting = {Latest}
  BY <1>1, <1>2, <1>3 DEF Awaiting
<1> QED
  BY <1>1, <1>4
  DEF Continuity, WaitsAlone, FirstAttempt, AttemptsRun, CellsWait

\* once it is consumed, no settlement waits
LEMMA ConsumingEmpties ==
  ASSUME Typed, Continuity, worker = "consume", ConsumeOutbox
  PROVE  /\ Awaiting' = {}
         /\ \A s \in Suspension : outbox'[s].state # "none" <=> outbox[s].state # "none"
<1> DEFINE n == Latest
<1>1. /\ n \in Suspension /\ outbox[n].state = "prepared" /\ Awaiting = {n}
      /\ outbox' = [outbox EXCEPT ![n].state = "consumed"]
  BY PreparedIsLatest DEF ConsumeOutbox
<1>2. outbox \in [Suspension -> OutboxRow]
  BY DEF Typed, JobTypes
<1> HIDE DEF n
<1>3. \A s \in Suspension : outbox'[s].state = IF s = n THEN "consumed" ELSE outbox[s].state
  BY <1>1, <1>2 DEF OutboxRow
<1> QED
  BY <1>1, <1>3 DEF Awaiting

LEMMA ContinuityOpening ==
  ASSUME Typed, Continuity, [Next]_vars, Opening
  PROVE  Continuity'
<1>1. /\ worker' = "none" /\ UNCHANGED cell /\ op'.attempt = op.attempt
      /\ worker \in {"ask", "consume"}
  BY DEF Opening, Suspend, Typed, JobTypes, OpRow
<1>2. /\ Latest' = Latest + 1 /\ Latest + 1 \in Suspension
      /\ \A s \in Suspension : /\ s # Latest + 1 => susp'[s] = susp[s]
                               /\ s = Latest + 1 => susp'[s].state = "pending"
  <2>1. ~AskedStays
    BY OpeningSees DEF AskedStays
  <2>2. ~(Latest' = Latest)
    <3>1. Latest + 1 \in Asked' /\ Latest + 1 \notin Asked
      BY OpeningSees DEF Asked
    <3>2. Numbered /\ Numbered'
      BY NumberedStep DEF Typed
    <3> QED
      BY <3>1, <3>2 DEF Numbered
  <2> QED
    BY <2>2, NumberedStep, OpeningSees
<1>3. /\ Awaiting' = {}
      /\ \A s \in Suspension : outbox'[s].state # "none" => outbox[s].state # "none"
  <2>1. CASE worker = "consume"
    BY <2>1, ConsumingEmpties DEF Opening
  <2>2. CASE worker = "ask" /\ UNCHANGED outbox
    BY <2>2 DEF Continuity, ContinuesAlone, Awaiting
  <2> QED
    BY <2>1, <2>2 DEF Opening
<1>4. /\ cell.state # "prepared" /\ op.attempt # 0
      /\ \A s \in Suspension : susp[s].state # "pending"
  BY <1>1 DEF Continuity, CellsWait, FirstAttempt, WaitsAlone
<1>5. WaitsAlone' /\ ContinuesAlone' /\ ConsumesOne'
  BY <1>1, <1>2, <1>3, <1>4 DEF WaitsAlone, ContinuesAlone, ConsumesOne
<1>6. AttemptsRun' /\ FirstAttempt' /\ CellsWait' /\ CellIsFresh'
  BY <1>1, <1>4 DEF Continuity, AttemptsRun, FirstAttempt, CellsWait, CellIsFresh
<1>7. OutboxAsked'
  BY <1>2, <1>3 DEF Continuity, OutboxAsked
<1> QED
  BY <1>5, <1>6, <1>7 DEF Continuity

LEMMA ContinuityConsumes ==
  ASSUME Typed, Continuity, [Next]_vars, ConsumeTerminal \/ ConsumeDirective
  PROVE  Continuity'
<1>1. /\ worker = "consume" /\ up /\ UNCHANGED <<susp, up>> /\ op'.attempt = op.attempt
      /\ ConsumeOutbox
  BY DEF ConsumeTerminal, ConsumeDirective, Typed, JobTypes, OpRow
<1>2. /\ Awaiting' = {}
      /\ \A s \in Suspension : outbox'[s].state # "none" <=> outbox[s].state # "none"
      /\ \A s \in Suspension : susp[s].state # "pending"
      /\ op.attempt # 0 /\ op.state = "running"
      /\ cell.state # "prepared"
  BY <1>1, ConsumingEmpties, PreparedIsLatest
<1>3. /\ worker' \notin {"consume"}
      /\ worker' # "none" => op'.state = "running"
      /\ cell'.runs <= 1 /\ (cell'.state = "prepared" => cell'.runs = 0)
      /\ worker' \notin {"none", "cell", "timeout"} => cell'.state # "prepared"
  BY <1>2 DEF ConsumeTerminal, ConsumeDirective, Continuity, CellIsFresh
<1>4. AttemptsRun' /\ FirstAttempt' /\ OutboxAsked' /\ WaitsAlone' /\ ContinuesAlone'
  BY <1>1, <1>2, <1>3
  DEF Continuity, AttemptsRun, FirstAttempt, OutboxAsked, WaitsAlone, ContinuesAlone
<1>5. ConsumesOne' /\ CellsWait' /\ CellIsFresh'
  BY <1>3 DEF ConsumesOne, CellsWait, CellIsFresh
<1> QED
  BY <1>4, <1>5 DEF Continuity

LEMMA ContinuityClaims ==
  ASSUME Typed, Continuity, [Next]_vars, ClaimFirst \/ TakeOverCell \/ ClaimSuccessor
  PROVE  Continuity'
<1>0. op \in OpRow /\ op.attempt \in Nat
  BY CallerAssumption DEF Typed, JobTypes, OpRow
<1>1. worker = "none" /\ up /\ UNCHANGED <<susp, up>>
  BY DEF ClaimFirst, TakeOverCell, ClaimSuccessor, Claimable, Successive, inner
<1>2. op'.state = "running" /\ op'.attempt = op.attempt + 1 /\ op'.attempt # 0
  <2>1. op.attempt + 1 \in Nat \ {0} /\ (op.attempt = 0 => op.attempt + 1 = 1)
    BY <1>0
  <2> DEFINE n == op.attempt + 1
  <2>2. /\ n \in Nat \ {0} /\ (op.attempt = 0 => n = 1)
        /\ \/ ClaimFirst
           \/ op' = [op EXCEPT !.state = "running", !.dispatch = "running", !.attempt = n]
    BY <2>1 DEF TakeOverCell, ClaimSuccessor
  <2> HIDE DEF n
  <2>3. op' = [op EXCEPT !.state = "running", !.dispatch = "running", !.attempt = n]
    BY <2>2 DEF ClaimFirst
  <2>4. op'.state = "running" /\ op'.attempt = n /\ n # 0
    BY <1>0, <2>2, <2>3 DEF OpRow
  <2> QED
    BY <2>4 DEF n
<1>3. Latest' = Latest
  BY <1>1, StaysAsked DEF AskedStays
<1>4. CASE ClaimFirst
  <2>1. Latest = 0 /\ cell.state = "none" /\ UNCHANGED <<outbox, cell>> /\ worker' = "begin"
    BY <1>4 DEF ClaimFirst, inner, Continuity, FirstAttempt
  <2>2. \A s \in Suspension : susp[s].state = "absent"
    BY <2>1 DEF Typed, Numbered, Asked
  <2>3. Awaiting = {} /\ Awaiting' = {}
    BY <2>1, <2>2 DEF Continuity, OutboxAsked, Awaiting
  <2> QED
    BY <1>1, <1>2, <1>3, <2>1, <2>2, <2>3
    DEF Continuity, AttemptsRun, FirstAttempt, OutboxAsked, WaitsAlone, ContinuesAlone,
        ConsumesOne, CellsWait, CellIsFresh
<1>5. CASE TakeOverCell
  <2>1. /\ cell.state = "prepared" /\ UNCHANGED outbox /\ worker' = "cell"
        /\ cell'.state = cell.state /\ cell'.runs = cell.runs
    BY <1>5 DEF TakeOverCell, CellReady, Typed, JobTypes, CellRow
  <2>2. (\A s \in Suspension : susp[s].state # "pending") /\ Awaiting = {} /\ Awaiting' = {}
    BY <2>1 DEF Continuity, WaitsAlone, ContinuesAlone, Awaiting
  <2> QED
    BY <1>1, <1>2, <1>3, <2>1, <2>2
    DEF Continuity, AttemptsRun, FirstAttempt, OutboxAsked, WaitsAlone, ContinuesAlone,
        ConsumesOne, CellsWait, CellIsFresh
<1>6. CASE ClaimSuccessor
  <2>1. PICK s \in Suspension : Awaiting = {s} /\ SuccessorAuthority(s)
    BY <1>6 DEF ClaimSuccessor, Preparable
  <2>2. /\ s = Latest /\ ticket[s].state \in Settled /\ susp[s].state \in {"settled", "cancelled"}
        /\ cell.state # "prepared"
    BY <2>1 DEF Continuity, ContinuesAlone
  <2>3. \A v \in Suspension : susp[v].state # "pending"
    BY <2>1 DEF Continuity, WaitsAlone
  <2>4. /\ \A v \in Suspension : outbox'[v] =
             IF v = s THEN [state |-> "prepared", owner |-> op.attempt + 1] ELSE outbox[v]
        /\ worker' = "consume" /\ UNCHANGED cell
    BY <1>6, <2>1 DEF ClaimSuccessor, inner
  <2>5. Awaiting' = {s}
    BY <2>1, <2>4 DEF Awaiting
  <2>6. ticket'[s].state \in Settled
    BY <2>2, SettledStay
  <2>7. AttemptsRun' /\ FirstAttempt' /\ WaitsAlone' /\ CellsWait' /\ CellIsFresh'
    BY <1>1, <1>2, <2>2, <2>3, <2>4
    DEF Continuity, AttemptsRun, FirstAttempt, WaitsAlone, CellsWait, CellIsFresh
  <2>8. OutboxAsked'
    BY <1>1, <2>2, <2>4 DEF Continuity, OutboxAsked
  <2>9. ContinuesAlone' /\ ConsumesOne'
    BY <1>1, <1>2, <1>3, <2>2, <2>4, <2>5, <2>6 DEF ContinuesAlone, ConsumesOne
  <2> QED
    BY <2>7, <2>8, <2>9 DEF Continuity
<1> QED
  BY <1>4, <1>5, <1>6

LEMMA ContinuityCells ==
  ASSUME Typed, Continuity, [Next]_vars, StartCell \/ CommitCell
  PROVE  Continuity'
<1>1. /\ UNCHANGED <<susp, outbox, up, op>> /\ worker \in {"cell", "run"}
      /\ worker' \in {"run", "ask"} /\ cell'.state \in {"running", "committed"}
      /\ cell.runs \in Nat
  BY DEF StartCell, CommitCell, Typed, JobTypes, CellRow
<1>2. Latest' = Latest /\ Awaiting' = Awaiting
  BY <1>1, StaysAsked DEF AskedStays, Awaiting
<1>3. Awaiting = {} /\ \A s \in Suspension : susp[s].state # "pending"
  BY <1>1 DEF Continuity, ContinuesAlone, WaitsAlone, Awaiting
<1>4. cell'.runs <= 1
  <2>1. cell \in CellRow
    BY DEF Typed, JobTypes
  <2>2. CASE StartCell
    <3>1. cell.runs = 0 /\ cell'.runs = cell.runs + 1
      BY <2>1, <2>2 DEF StartCell, CellReady, Continuity, CellIsFresh, CellRow
    <3> QED
      BY <3>1
  <2>3. CASE CommitCell
    BY <2>1, <2>3 DEF CommitCell, Continuity, CellIsFresh, CellRow
  <2> QED
    BY <2>2, <2>3
<1> QED
  BY <1>1, <1>2, <1>3, <1>4
  DEF Continuity, AttemptsRun, FirstAttempt, OutboxAsked, WaitsAlone, ContinuesAlone,
      ConsumesOne, CellsWait, CellIsFresh

\* the deadline reaches the job, and a cancellation takes it from the queue
LEMMA ContinuityEnds ==
  ASSUME Typed, Continuity, [Next]_vars,
         \/ DeadlineTerminal /\ UNCHANGED <<op, outbox, up, worker>>
         \/ CancelDequeue /\ Dequeuable
  PROVE  Continuity'
<1>0. /\ susp \in [Suspension -> SuspRow] /\ outbox \in [Suspension -> OutboxRow]
      /\ op \in OpRow /\ cell \in CellRow
  BY DEF Typed, JobTypes
<1>1. /\ UNCHANGED <<up, worker>> /\ op'.attempt = op.attempt
      /\ worker # "none" => op' = op
      /\ cell'.runs = cell.runs /\ (cell'.state = "prepared" <=> cell.state = "prepared")
      /\ cell'.state = "none" <=> cell.state = "none"
  BY <1>0 DEF DeadlineTerminal, CancelDequeue, Dequeuable, OpRow, CellRow, Continuity, AttemptsRun
<1>2. \A s \in Suspension :
        /\ susp'[s].state # "pending"
        /\ susp[s].state # "pending" => susp'[s] = susp[s]
        /\ susp[s].state = "pending" => susp'[s].state \in {"parked", "cancelled"}
  <2>1. \E to \in {"parked", "cancelled"} :
          susp' = [s \in Suspension |->
                     IF susp[s].state = "pending" THEN [susp[s] EXCEPT !.state = to] ELSE susp[s]]
    BY DEF DeadlineTerminal, CancelDequeue
  <2> QED
    BY <1>0, <2>1 DEF SuspRow
<1>3. Latest' = Latest
  <2>1. AskedStays
    BY <1>2 DEF AskedStays
  <2> QED
    BY <2>1, StaysAsked
<1>4. /\ \A s \in Suspension : outbox'[s] = outbox[s]
                             \/ (outbox'[s].state = "consumed" /\ outbox[s].state # "none")
      /\ worker # "none" => outbox' = outbox
  <2>1. CASE outbox' = outbox
    BY <2>1
  <2>2. CASE CancelDequeue /\ Dequeuable
    <3>1. outbox' = [s \in Suspension |-> IF outbox[s].state = "prepared"
                       THEN [outbox[s] EXCEPT !.state = "consumed"] ELSE outbox[s]]
      BY <2>2 DEF CancelDequeue
    <3>2. worker = "none"
      BY <2>2 DEF Dequeuable, Continuity, AttemptsRun
    <3> QED
      BY <1>0, <3>1, <3>2 DEF OutboxRow
  <2> QED
    BY <2>1, <2>2
<1>5. \A s \in Awaiting' : s \in Awaiting
  BY <1>4 DEF Awaiting
<1>6. OutboxAsked'
  BY <1>2, <1>4 DEF Continuity, OutboxAsked
<1>7. ContinuesAlone'
  BY <1>1, <1>2, <1>3, <1>5, SettledStay DEF Continuity, ContinuesAlone, Awaiting
<1>8. AttemptsRun' /\ FirstAttempt' /\ WaitsAlone'
  BY <1>1, <1>2, <1>3 DEF Continuity, AttemptsRun, FirstAttempt, WaitsAlone
<1>9. ConsumesOne' /\ CellsWait' /\ CellIsFresh'
  BY <1>1, <1>3, <1>4 DEF Continuity, ConsumesOne, CellsWait, CellIsFresh
<1> QED
  BY <1>6, <1>7, <1>8, <1>9 DEF Continuity

\* the steps that neither open, settle, claim nor consume
LEMMA RestingSteps ==
  ASSUME Typed, Continuity, [Next]_vars,
         \/ UNCHANGED vars \/ Tick \/ HandlerGivesUp \/ HostLost \/ HostRestarts
         \/ SweepRead \/ SweepRetry \/ SweepExpire \/ CancelStart \/ CancelIntent
         \/ BeginRunning \/ FinalizeStart \/ FinalizeCommit \/ HandlerParks
         \/ OuterSuccess \/ OuterTerminal \/ FailureUnmarked \/ ExpireQueued
         \/ WorkerLost \/ RecoverCell \/ RecoverPlanner \/ Resubmit
         \/ \E s \in Suspension : NotifySettlement(s)
  PROVE  Rest
<1>0. op \in OpRow /\ (worker # "none" => op.state = "running" /\ up)
  BY DEF Typed, JobTypes, Continuity, AttemptsRun
<1>1. CASE UNCHANGED vars \/ Tick \/ HandlerGivesUp \/ HostLost
             \/ SweepRead \/ SweepRetry \/ CancelStart \/ CancelIntent
  BY <1>0, <1>1 DEF vars, Tick, HandlerGivesUp, HostLost, SweepRead, SweepRetry, CancelStart,
                    CancelIntent, inner, threads, Rest, Goes
<1>2. CASE BeginRunning \/ FinalizeStart \/ FinalizeCommit
  BY <1>0, <1>2 DEF BeginRunning, FinalizeStart, FinalizeCommit, Rest, Goes
<1>3. CASE HandlerParks \/ OuterSuccess \/ OuterTerminal \/ FailureUnmarked \/ WorkerLost
  BY <1>0, <1>3 DEF HandlerParks, OuterSuccess, OuterTerminal, FailureUnmarked, WorkerLost,
                    OpRow, inner, Rest, Goes
<1>4. CASE \/ HostRestarts \/ SweepExpire \/ ExpireQueued \/ RecoverCell \/ RecoverPlanner
           \/ Resubmit \/ \E s \in Suspension : NotifySettlement(s)
  <2>1. UNCHANGED <<susp, outbox, cell, worker>> /\ (up => up')
    BY <1>4 DEF HostRestarts, SweepExpire, ExpireQueued, RecoverCell, RecoverPlanner, Resubmit,
                NotifySettlement, inner, threads
  <2>2. op'.attempt = op.attempt /\ (op.state = "running" => op' = op \/ op'.state = "running"
                                     \/ ~up)
    BY <1>0, <1>4 DEF HostRestarts, SweepExpire, ExpireQueued, RecoverCell, RecoverPlanner,
                      Resubmit, NotifySettlement, Queue, TimeOut, OpRow
  <2> QED
    BY <1>0, <2>1, <2>2 DEF Rest, Goes
<1> QED
  BY <1>1, <1>2, <1>3, <1>4

LEMMA ContinuityStep == Typed /\ Continuity /\ [Next]_vars => Continuity'
<1> SUFFICES ASSUME Typed, Continuity, [Next]_vars PROVE Continuity'
  OBVIOUS
<1>1. CASE \/ UNCHANGED vars \/ Tick \/ HandlerGivesUp \/ HostLost \/ HostRestarts
           \/ SweepRead \/ SweepRetry \/ SweepExpire \/ CancelStart \/ CancelIntent
           \/ BeginRunning \/ FinalizeStart \/ FinalizeCommit \/ HandlerParks
           \/ OuterSuccess \/ OuterTerminal \/ FailureUnmarked \/ ExpireQueued
           \/ WorkerLost \/ RecoverCell \/ RecoverPlanner \/ Resubmit
           \/ \E s \in Suspension : NotifySettlement(s)
  BY <1>1, RestingSteps, ContinuityRest
<1>2. ASSUME JobStays \/ Settles, UNCHANGED <<up, worker>>
      PROVE  Continuity'
  <2>1. CASE JobStays
    <3>1. Rest
      BY <1>2, <2>1 DEF JobStays, inner, Rest, Goes, Continuity, AttemptsRun
    <3> QED
      BY <3>1, ContinuityRest
  <2> QED
    BY <1>2, <2>1, ContinuitySettles
<1>3. CASE TicketStore \/ Drivers \/ CancelTicket
  BY <1>2, <1>3, StoreIsOutside, DriversAreOutside, CancelTicketIs DEF Outside
<1>4. CASE SweepAct
  <2>1. CASE UNCHANGED <<inner, outbox, up, worker>> /\ (op' = op \/ op' = Queue(op))
    <3>1. Rest
      BY <2>1 DEF inner, Rest, Goes, Queue, Continuity, AttemptsRun, Typed, JobTypes, OpRow
    <3> QED
      BY <3>1, ContinuityRest
  <2> QED
    BY <1>2, <1>4, <2>1, SweepActIs
<1>5. CASE InnerTerminal \/ SweepTerminal
  <2>1. /\ UNCHANGED <<op, outbox, up, worker>>
        /\ DeadlineTerminal \/ UNCHANGED <<susp, cell>>
    BY <1>5 DEF InnerTerminal, SweepTerminal, BudgetTerminal, inner, threads
  <2>2. CASE UNCHANGED <<susp, cell>>
    <3>1. Rest
      BY <2>1, <2>2 DEF Rest, Goes, Continuity, AttemptsRun
    <3> QED
      BY <3>1, ContinuityRest
  <2> QED
    BY <2>1, <2>2, ContinuityEnds
<1>6. CASE SuspendPlanner \/ ConsumeCorrection
  <2>1. Opening
    BY <1>6 DEF SuspendPlanner, ConsumeCorrection, Opening, Undisturbed, Selected
  <2> QED
    BY <2>1, ContinuityOpening
<1>7. CASE CancelDequeue
  <2>1. CASE ~Dequeuable
    <3>1. JobStays /\ UNCHANGED <<up, worker>>
      BY <1>7, <2>1 DEF CancelDequeue, JobStays, inner
    <3> QED
      BY <1>2, <3>1
  <2> QED
    BY <1>7, <2>1, ContinuityEnds
<1>8. CASE ConsumeTerminal \/ ConsumeDirective
  BY <1>8, ContinuityConsumes
<1>9. CASE ClaimFirst \/ TakeOverCell \/ ClaimSuccessor
  BY <1>9, ContinuityClaims
<1>10. CASE StartCell \/ CommitCell
  BY <1>10, ContinuityCells
<1> QED
  BY <1>1, <1>3, <1>4, <1>5, <1>6, <1>7, <1>8, <1>9, <1>10
  DEF Next, Successor, HandlerSteps, Sweeper, Cancelling, Losses

LEMMA ContinuityInvariant == Spec => []Continuity
<1> QED
  BY ContinuityInit, ContinuityStep, TypedInvariant, PTL DEF Spec

\* One continuation at a time: a settlement that waits for its successor is the
\* latest suspension's, and only the attempt it was prepared for runs beside it.
THEOREM ContinuesOnce == Spec => []OneContinuation
<1>1. Continuity => OneContinuation
  <2> SUFFICES ASSUME Continuity, NEW s \in Awaiting
               PROVE  /\ s = Latest
                      /\ ticket[s].state \in Settled
                      /\ susp[s].state \in {"settled", "cancelled"}
                      /\ worker # "none" =>
                           outbox[s] = [state |-> "prepared", owner |-> op.attempt]
    BY DEF OneContinuation
  <2> QED
    BY DEF Continuity, ContinuesAlone, ConsumesOne
<1> QED
  BY <1>1, ContinuityInvariant, PTL

\* A cell that has been started is never started again, whichever attempts,
\* hosts and recoveries take it over.
THEOREM CellsRunOnce == Spec => []CellRunsOnce
<1>1. Continuity => CellRunsOnce
  BY DEF Continuity, CellIsFresh, CellRunsOnce
<1> QED
  BY <1>1, ContinuityInvariant, PTL

\* which steps write an outbox row
LEMMA OutboxWriters ==
  ASSUME Typed, [Next]_vars
  PROVE  \/ UNCHANGED outbox
         \/ Settles
         \/ ClaimSuccessor
         \/ ConsumeTerminal \/ ConsumeDirective \/ ConsumeCorrection
         \/ CancelDequeue /\ Dequeuable
<1>1. CASE UNCHANGED vars \/ Tick \/ HandlerGivesUp \/ HostLost
             \/ SweepRead \/ SweepRetry \/ CancelStart \/ CancelIntent
  BY <1>1
  DEF vars, Tick, HandlerGivesUp, HostLost, SweepRead, SweepRetry, CancelStart, CancelIntent
<1>2. CASE TicketStore \/ Drivers \/ CancelTicket
  BY <1>2, StoreIsOutside, DriversAreOutside, CancelTicketIs DEF Outside, JobStays
<1>3. CASE SweepAct
  BY <1>3, SweepActIs
<1>4. CASE InnerTerminal \/ SweepTerminal \/ SuspendPlanner
  BY <1>4 DEF InnerTerminal, SweepTerminal, SuspendPlanner
<1>5. CASE BeginRunning \/ StartCell \/ CommitCell \/ FinalizeStart \/ FinalizeCommit
             \/ HandlerParks \/ OuterSuccess \/ OuterTerminal \/ FailureUnmarked \/ WorkerLost
  BY <1>5 DEF BeginRunning, StartCell, CommitCell, FinalizeStart, FinalizeCommit, HandlerParks,
              OuterSuccess, OuterTerminal, FailureUnmarked, WorkerLost
<1>6. CASE \/ ExpireQueued \/ HostRestarts \/ RecoverCell \/ RecoverPlanner \/ Resubmit
           \/ SweepExpire \/ ClaimFirst \/ TakeOverCell
           \/ \E s \in Suspension : NotifySettlement(s)
  BY <1>6 DEF ExpireQueued, HostRestarts, RecoverCell, RecoverPlanner, Resubmit, SweepExpire,
              ClaimFirst, TakeOverCell, NotifySettlement
<1>7. CASE CancelDequeue
  BY <1>7 DEF CancelDequeue
<1> QED
  BY <1>1, <1>2, <1>3, <1>4, <1>5, <1>6, <1>7
  DEF Next, Successor, HandlerSteps, Sweeper, Cancelling, Losses

\* A cancellation that was asked for before the successor consumes its
\* settlement ends the operation as cancelled, whatever the settlement and the
\* clock say: consume_planner_successor looks at it first.
THEOREM CancellationDecides == Spec => CancelledSettlement
<1> DEFINE Decided(s) ==
      control.cancelled /\ outbox[s].state = "prepared" /\ outbox'[s].state = "consumed" =>
        op'.state = "cancelled"
<1>1. Typed /\ [Next]_vars => \A s \in Suspension : Decided(s)
  <2> SUFFICES ASSUME Typed, [Next]_vars, NEW s \in Suspension, control.cancelled,
                      outbox[s].state = "prepared", outbox'[s].state = "consumed"
               PROVE  op'.state = "cancelled"
    OBVIOUS
  <2>1. Selected(Prepared) = "cancelled"
    BY DEF Selected
  <2>2. op \in OpRow /\ outbox \in [Suspension -> OutboxRow] /\ job \in JobRow
    BY DEF Typed, JobTypes
  <2>3. ~ClaimSuccessor
    <3> SUFFICES ASSUME ClaimSuccessor PROVE FALSE
      OBVIOUS
    <3>1. s \in Awaiting
      BY DEF Awaiting
    <3>2. outbox'[s].state = "prepared"
      BY <3>1 DEF ClaimSuccessor
    <3> QED
      BY <3>2
  <2>4. ~Settles
    <3> SUFFICES ASSUME NEW v \in Suspension, NEW state \in Terminal, Ends(v, state)
                 PROVE  outbox'[s].state # "consumed"
      BY DEF Settles
    <3>1. outbox' = [outbox EXCEPT ![v].state = "pending"] \/ outbox' = outbox
      BY DEF Ends, ProjectTerminal
    <3> QED
      BY <2>2, <3>1 DEF OutboxRow
  <2>5. CASE ConsumeTerminal
    <3>1. /\ job' = [job EXCEPT !.phase = "cancelled", !.control = control.revision + 1]
          /\ op' = [op EXCEPT !.state = job'.phase, !.dispatch = "completed"]
      BY <2>1, <2>5 DEF ConsumeTerminal
    <3>2. job'.phase = "cancelled"
      BY <2>2, <3>1 DEF JobRow
    <3> QED
      BY <2>2, <3>1, <3>2 DEF OpRow
  <2>6. CASE CancelDequeue /\ Dequeuable
    BY <2>2, <2>6 DEF CancelDequeue, OpRow
  <2> QED
    BY <2>1, <2>3, <2>4, <2>5, <2>6, OutboxWriters DEF ConsumeDirective, ConsumeCorrection
<1>2. Typed /\ [Next]_vars => [\A s \in Suspension : Decided(s)]_vars
  BY <1>1
<1> QED
  BY <1>2, TypedInvariant, PTL DEF Spec, CancelledSettlement
=============================================================================
