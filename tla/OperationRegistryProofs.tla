---------------------- MODULE OperationRegistryProofs ----------------------
(***************************************************************************)
(* Safety of the operation registry for any set of operations, any         *)
(* deadlines, lease duration and policy bound.                             *)
(*                                                                         *)
(* The argument: dispatch.current_attempt_no always names the latest       *)
(* attempt, every other attempt is closed and released, and an operation   *)
(* that waits has no owner at all.  Every method preserves this because it *)
(* either touches the current attempt only or, like claim_next, starts     *)
(* from an operation that waits.  Decisions are about attempts that exist, *)
(* and a listed operation has none about its current attempt.              *)
(***************************************************************************)
EXTENDS OperationRegistry, FiniteSetTheorems, TLAPS

-----------------------------------------------------------------------------
(* The inductive invariant.                                                *)

Waiting(o) == op[o].state \in {"absent", "accepted"}

Owns(o, n) == attempt[o][n].state = "running" \/ LiveLease(o, n)

CurrentIsLatest == \A o \in Op : IsLatest(o, dispatch[o].attempt)

OnlyCurrentOwns ==
  \A o \in Op, n \in AttemptNo : Owns(o, n) => n = dispatch[o].attempt

WaitingIsUnowned ==
  \A o \in Op : Waiting(o) =>
    /\ \A n \in AttemptNo : ~Owns(o, n)
    /\ dispatch[o].state # "running"
    /\ op[o].state = "absent" => dispatch[o].attempt = 0

Ownership == TypeOK /\ CurrentIsLatest /\ OnlyCurrentOwns /\ WaitingIsUnowned

DecidedOn(o, n) == \E i \in DOMAIN decisions[o] : decisions[o][i].prior = n

Admitted(o, n) ==
  \E i \in DOMAIN decisions[o] :
    decisions[o][i].kind = "successor" /\ decisions[o][i].prior = n

DecisionsArePast ==
  \A o \in Op : \A i \in DOMAIN decisions[o] :
    decisions[o][i].prior <= dispatch[o].attempt

ListedIsUndecided ==
  \A o \in scan : dispatch[o].attempt # 0 => ~DecidedOn(o, dispatch[o].attempt)

AcceptedIsAdmitted ==
  \A o \in Op : op[o].state = "accepted" /\ dispatch[o].attempt # 0 =>
    Admitted(o, dispatch[o].attempt)

Lineage ==
  /\ DecisionsArePast
  /\ ListedIsUndecided
  /\ AcceptedIsAdmitted
  /\ OneDecisionPerAttempt
  /\ AttemptsAreAdmitted

-----------------------------------------------------------------------------
(* Type correctness.                                                       *)

\* What a transition of an operation row returns.
LEMMA MovedRow ==
  ASSUME NEW row \in Operations, NEW state \in OpStates, NEW g \in Nat,
         NEW result \in Results
  PROVE  /\ Moved(row, state, g, result) \in Operations
         /\ Moved(row, state, g, result).state = state
         /\ Moved(row, state, g, result).generation = g
         /\ Moved(row, state, g, result).deadline = row.deadline
BY DEF Moved, Operations

\* Results the code writes.
LEMMA ResultValues ==
  /\ NoResult \in Results
  /\ InlineResult \in Results
  /\ ReceiptResult \in Results
  /\ \A n \in AttemptNo : AttemptResult(n) \in Results
BY BoundsAssumption
DEF NoResult, InlineResult, ReceiptResult, AttemptResult, Results, AttemptNo, AttemptRef

\* Rows a claim passes on its way keep their types.
LEMMA PassedRows ==
  ASSUME TypeOK, NEW o \in Op
  PROVE  /\ PassedOp(o) \in Operations
         /\ PassedDispatch(o) \in Dispatches
         /\ PassedDispatch(o).attempt = dispatch[o].attempt
<1>1. op[o] \in Operations /\ dispatch[o] \in Dispatches /\ generation \in Nat
  BY DEF TypeOK
<1>2. op[o].result \in Results
  BY <1>1 DEF Operations
<1>3. Moved(op[o], "timed_out", generation, op[o].result) \in Operations
  BY <1>1, <1>2, MovedRow DEF OpStates, Terminal
<1>4. PassedOp(o) \in Operations
  BY <1>1, <1>3 DEF PassedOp
<1>5. /\ PassedDispatch(o) \in Dispatches
      /\ PassedDispatch(o).attempt = dispatch[o].attempt
  BY <1>1 DEF PassedDispatch, Dispatches, DispatchStates
<1> QED BY <1>4, <1>5

LEMMA TypeInit == Init => TypeOK
<1> SUFFICES ASSUME Init PROVE TypeOK
  OBVIOUS
<1>1. NoOperation \in Operations
  BY ResultValues DEF NoOperation, Operations, OpStates, Terminal
<1>2. NoDispatch \in Dispatches
  BY BoundsAssumption DEF NoDispatch, Dispatches, DispatchStates, AttemptRef
<1>3. NoAttempt \in Attempts /\ NoLease \in Leases
  BY DEF NoAttempt, NoLease, Attempts, Leases, AttemptStates
<1>4. \A o \in Op : <<>> \in Seq(Decisions)
  OBVIOUS
<1> QED BY <1>1, <1>2, <1>3, <1>4 DEF Init, TypeOK

\* Updates of single columns keep rows typed.
LEMMA AttemptRow ==
  ASSUME NEW row \in Attempts, NEW state \in AttemptStates
  PROVE  [row EXCEPT !.state = state] \in Attempts
BY DEF Attempts

LEMMA LeaseRow ==
  ASSUME NEW row \in Leases, NEW time \in Nat
  PROVE  /\ [row EXCEPT !.released = TRUE] \in Leases
         /\ [row EXCEPT !.expires = time] \in Leases
BY DEF Leases

LEMMA DispatchMoved ==
  ASSUME NEW row \in Dispatches, NEW state \in DispatchStates
  PROVE  /\ [row EXCEPT !.state = state] \in Dispatches
         /\ [row EXCEPT !.state = state].attempt = row.attempt
         /\ [row EXCEPT !.state = state].state = state
BY DEF Dispatches

LEMMA DispatchQueued ==
  ASSUME NEW row \in Dispatches, NEW time \in Nat
  PROVE  /\ [row EXCEPT !.state = "queued", !.queuedAt = time] \in Dispatches
         /\ [row EXCEPT !.state = "queued", !.queuedAt = time].attempt = row.attempt
         /\ [row EXCEPT !.state = "queued", !.queuedAt = time].state = "queued"
BY DEF Dispatches, DispatchStates

LEMMA DispatchClaimed ==
  ASSUME NEW row \in Dispatches, NEW n \in AttemptRef
  PROVE  /\ [row EXCEPT !.state = "running", !.attempt = n] \in Dispatches
         /\ [row EXCEPT !.state = "running", !.attempt = n].attempt = n
BY DEF Dispatches, DispatchStates

\* Every action keeps every table typed.
LEMMA TypeStep == TypeOK /\ [Next]_vars => TypeOK'
<1> SUFFICES ASSUME TypeOK, [Next]_vars PROVE TypeOK'
  OBVIOUS
<1> USE BoundsAssumption
<1>a. /\ \A o \in Op : op[o] \in Operations /\ op[o].result \in Results
      /\ \A o \in Op : dispatch[o] \in Dispatches
      /\ \A o \in Op, n \in AttemptNo :
           attempt[o][n] \in Attempts /\ lease[o][n] \in Leases
      /\ generation \in Nat /\ now \in Nat /\ LeaseDuration \in Nat
  BY DurationAssumption DEF TypeOK, Operations
<1>b. /\ \A s \in Terminal \cup {"indeterminate"} : s \in OpStates /\ s \in AttemptStates
      /\ "accepted" \in OpStates /\ "running" \in OpStates
      /\ {"queued", "running", "parked", "completed"} \subseteq DispatchStates
      /\ \A s : CloseDispatch(s) \in DispatchStates
      /\ AttemptNo \subseteq AttemptRef
  BY DEF OpStates, AttemptStates, DispatchStates, Terminal, CloseDispatch, AttemptNo, AttemptRef
<1>c. ASSUME NEW o \in Op, Decided(o, "receipt") \/ Decided(o, "park") \/ Decided(o, "successor")
      PROVE  decisions' \in [Op -> Seq(Decisions)]
  <2>1. PICK kind \in {"successor", "park", "receipt"} : Decided(o, kind)
    BY <1>c
  <2>2. [kind |-> kind, prior |-> dispatch[o].attempt] \in Decisions
    BY <1>a DEF Decisions, Dispatches
  <2>3. decisions[o] \in Seq(Decisions)
    BY DEF TypeOK
  <2>4. Append(decisions[o], [kind |-> kind, prior |-> dispatch[o].attempt]) \in Seq(Decisions)
    BY <2>2, <2>3
  <2> QED BY <2>1, <2>4 DEF Decided, TypeOK
<1>1. CASE Tick
  BY <1>1 DEF Tick, TypeOK
<1>2. CASE StartRuntime
  <2>1. \A o \in Op : AfterRestart(op[o]) \in Operations
    <3> SUFFICES ASSUME NEW o \in Op PROVE AfterRestart(op[o]) \in Operations
      OBVIOUS
    <3>1. op[o].generation \in Nat /\ generation + 1 \in Nat
      BY <1>a DEF Operations
    <3>2. Moved(op[o], "accepted", generation + 1, op[o].result) \in Operations
      BY <3>1, <1>a, <1>b, MovedRow
    <3>3. Moved(op[o], "indeterminate", op[o].generation, op[o].result) \in Operations
      BY <3>1, <1>a, <1>b, MovedRow
    <3> QED BY <3>2, <3>3, <1>a DEF AfterRestart
  <2>2. \A o \in Op, n \in AttemptNo :
          /\ [attempt[o][n] EXCEPT !.state = "indeterminate"] \in Attempts
          /\ [lease[o][n] EXCEPT !.released = TRUE] \in Leases
    BY <1>a, <1>b, AttemptRow, LeaseRow
  <2>3. op' \in [Op -> Operations] /\ generation' \in Nat
    BY <2>1, <1>2, <1>a DEF StartRuntime
  <2>4. attempt' \in [Op -> [AttemptNo -> Attempts]]
    BY <2>2, <1>2, <1>a DEF StartRuntime
  <2>5. lease' \in [Op -> [AttemptNo -> Leases]]
    BY <2>2, <1>2, <1>a DEF StartRuntime
  <2> QED BY <2>3, <2>4, <2>5, <1>2 DEF StartRuntime, TypeOK
<1>3. CASE ClaimNothing
  BY <1>3, PassedRows DEF ClaimNothing, TypeOK
<1>4. ASSUME NEW o \in Op, NEW n \in AttemptNo, ClaimNext(o, n) PROVE TypeOK'
  <2>1. Moved(op[o], "running", generation, op[o].result) \in Operations
    BY <1>a, <1>b, MovedRow
  <2>2. [dispatch[o] EXCEPT !.state = "running", !.attempt = n] \in Dispatches
    BY <1>a, <1>b, DispatchClaimed
  <2>3. [state |-> "running", generation |-> generation] \in Attempts
    BY <1>a, <1>b DEF Attempts, AttemptStates
  <2>4. [expires |-> now + LeaseDuration, released |-> FALSE] \in Leases
    BY <1>a DEF Leases
  <2> QED BY <2>1, <2>2, <2>3, <2>4, <1>4, PassedRows DEF ClaimNext, TypeOK
<1>5. ASSUME NEW o \in Op, NEW n \in AttemptNo, Heartbeat(o, n) PROVE TypeOK'
  <2>0. now + LeaseDuration \in Nat
    BY <1>a
  <2>1. [lease[o][n] EXCEPT !.expires = now + LeaseDuration] \in Leases
    BY <2>0, <1>a, LeaseRow
  <2> QED BY <2>1, <1>5 DEF Heartbeat, TypeOK
<1>6. ASSUME NEW o \in Op, NEW n \in AttemptNo, CommitClaimed(o, n) PROVE TypeOK'
  <2>1. PICK state \in Terminal \cup {"indeterminate"}, result \in Results :
          TransitionClaimed(o, n, state, result)
    BY <1>6, ResultValues DEF CommitClaimed
  <2>2. Moved(op[o], state, op[o].generation, result) \in Operations
    BY <1>a, <1>b, MovedRow DEF Operations
  <2>3. /\ [attempt[o][n] EXCEPT !.state = state] \in Attempts
        /\ [lease[o][n] EXCEPT !.released = TRUE] \in Leases
        /\ [dispatch[o] EXCEPT !.state = CloseDispatch(state)] \in Dispatches
    BY <1>a, <1>b, AttemptRow, LeaseRow, DispatchMoved
  <2> QED BY <2>1, <2>2, <2>3 DEF TransitionClaimed, TypeOK
<1>7. ASSUME NEW o \in Op, NEW n \in AttemptNo, FinishAttempt(o, n) PROVE TypeOK'
  <2>1. op[o].state \in AttemptStates
    BY <1>7, <1>b DEF FinishAttempt
  <2>2. /\ [attempt[o][n] EXCEPT !.state = op[o].state] \in Attempts
        /\ [lease[o][n] EXCEPT !.released = TRUE] \in Leases
        /\ [dispatch[o] EXCEPT !.state = CloseDispatch(op[o].state)] \in Dispatches
    BY <2>1, <1>a, <1>b, AttemptRow, LeaseRow, DispatchMoved
  <2> QED BY <2>2, <1>7 DEF FinishAttempt, TypeOK
<1>8. ASSUME NEW o \in Op, Caller(o) PROVE TypeOK'
  <2>a. ASSUME NEW expected, NEW state \in OpStates, NEW result \in Results,
               NEW reconciled, Transition(o, expected, state, result, reconciled)
        PROVE  TypeOK'
    <3>1. Moved(op[o], state, generation, result) \in Operations
      BY <1>a, MovedRow
    <3> QED BY <3>1, <2>a DEF Transition, TypeOK
  <2>1. ASSUME NEW deadline \in Deadlines, Accept(o, deadline) PROVE TypeOK'
    <3>1. [state |-> "accepted", generation |-> generation, revision |-> 0,
           deadline |-> deadline, result |-> NoResult] \in Operations
      BY <1>a, <1>b, ResultValues DEF Operations
    <3> QED BY <3>1, <2>1 DEF Accept, TypeOK
  <2>2. CASE BindRecoveryPolicy(o)
    BY <2>2 DEF BindRecoveryPolicy, TypeOK
  <2>3. CASE RequestDispatch(o)
    <3>1. [dispatch[o] EXCEPT !.state = "queued", !.queuedAt = now] \in Dispatches
      BY <1>a, <1>b, DispatchQueued
    <3> QED BY <3>1, <2>3 DEF RequestDispatch, TypeOK
  <2>4. CASE Begin(o)
    BY <2>4, <2>a, <1>a, <1>b DEF Begin
  <2>5. CASE Succeed(o) \/ Fail(o) \/ Cancel(o) \/ TimeOut(o) \/ MarkIndeterminate(o)
    <3>1. {"succeeded", "failed", "cancelled", "timed_out", "indeterminate"} \subseteq OpStates
      BY DEF OpStates, Terminal
    <3> QED BY <2>5, <3>1, <2>a, <1>a, ResultValues
            DEF Succeed, Fail, Cancel, TimeOut, MarkIndeterminate
  <2>6. CASE RequestCancel(o)
    BY <2>6 DEF RequestCancel, TypeOK
  <2>7. CASE CancelQueuedDispatch(o)
    <3>1. Moved(op[o], "cancelled", op[o].generation, NoResult) \in Operations
      BY <1>a, <1>b, ResultValues, MovedRow DEF Operations, Terminal
    <3>2. [dispatch[o] EXCEPT !.state = "completed"] \in Dispatches
      BY <1>a, <1>b, DispatchMoved
    <3> QED BY <3>1, <3>2, <2>7 DEF CancelQueuedDispatch, TypeOK
  <2> QED BY <1>8, <2>1, <2>2, <2>3, <2>4, <2>5, <2>6, <2>7 DEF Caller
<1>9. CASE FenceExpiredAttempts
  <2>1. \A o \in Op : Moved(op[o], "indeterminate", op[o].generation, op[o].result) \in Operations
    BY <1>a, <1>b, MovedRow DEF Operations
  <2>2. \A o \in Op, n \in AttemptNo :
          /\ [attempt[o][n] EXCEPT !.state = "indeterminate"] \in Attempts
          /\ [lease[o][n] EXCEPT !.released = TRUE] \in Leases
    BY <1>a, <1>b, AttemptRow, LeaseRow
  <2> QED BY <2>1, <2>2, <1>9 DEF FenceExpiredAttempts, TypeOK
<1>10. CASE ListRecoveryCandidates
  BY <1>10 DEF ListRecoveryCandidates, TypeOK
<1>11. ASSUME NEW rest \in SUBSET scan, LeaveCandidates(rest) PROVE TypeOK'
  BY <1>11 DEF LeaveCandidates, TypeOK
<1>12. ASSUME NEW o \in Op, Requeue(o) PROVE TypeOK'
  <2>1. PICK kind \in {"successor", "park"}, bound \in BOOLEAN :
          RequeueIndeterminate(o, kind, bound)
    BY <1>12 DEF Requeue
  <2>2. \A n \in AttemptNo :
          /\ [attempt[o][n] EXCEPT !.state = "indeterminate"] \in Attempts
          /\ [lease[o][n] EXCEPT !.released = TRUE] \in Leases
    BY <1>a, <1>b, AttemptRow, LeaseRow
  <2>3. attempt' \in [Op -> [AttemptNo -> Attempts]] /\ lease' \in [Op -> [AttemptNo -> Leases]]
    BY <2>1, <2>2 DEF RequeueIndeterminate, TypeOK
  <2>4. decisions' \in [Op -> Seq(Decisions)]
    BY <2>1, <1>c DEF RequeueIndeterminate
  <2>5. op' \in [Op -> Operations]
    <3>1. Moved(op[o], "accepted", generation, op[o].result) \in Operations
      BY <1>a, <1>b, MovedRow
    <3> QED BY <3>1, <2>1 DEF RequeueIndeterminate, TypeOK
  <2>6. dispatch' \in [Op -> Dispatches]
    <3>1. /\ [dispatch[o] EXCEPT !.state = "queued", !.queuedAt = now] \in Dispatches
          /\ [dispatch[o] EXCEPT !.state = "parked"] \in Dispatches
      BY <1>a, <1>b, DispatchMoved, DispatchQueued
    <3> QED BY <3>1, <2>1 DEF RequeueIndeterminate, TypeOK
  <2> QED BY <2>1, <2>3, <2>4, <2>5, <2>6 DEF RequeueIndeterminate, TypeOK
<1>13. ASSUME NEW o \in Op, NEW state \in {"succeeded", "cancelled", "timed_out"},
              RecoverTerminalFromReceipt(o, state)
       PROVE TypeOK'
  <2>1. state \in OpStates /\ state \in AttemptStates
    BY DEF OpStates, AttemptStates, Terminal
  <2>2. Moved(op[o], state, generation, ReceiptResult) \in Operations
    BY <2>1, <1>a, ResultValues, MovedRow
  <2>3. \A n \in AttemptNo : [attempt[o][n] EXCEPT !.state = state] \in Attempts
    BY <2>1, <1>a, AttemptRow
  <2>4. [dispatch[o] EXCEPT !.state = "completed"] \in Dispatches
    BY <1>a, <1>b, DispatchMoved
  <2>5. decisions' \in [Op -> Seq(Decisions)]
    BY <1>13, <1>c DEF RecoverTerminalFromReceipt
  <2> QED BY <2>2, <2>3, <2>4, <2>5, <1>13 DEF RecoverTerminalFromReceipt, TypeOK
<1>14. CASE UNCHANGED vars
  BY <1>14 DEF vars, TypeOK
<1> QED
  BY <1>1, <1>2, <1>3, <1>4, <1>5, <1>6, <1>7, <1>8, <1>9, <1>10, <1>11, <1>12, <1>13, <1>14
  DEF Next, Claim, Claimant, Recovery

\* The registry keeps its tables well formed: no method writes a state, an
\* attempt reference or a decision the schema's checks would refuse.
THEOREM TypeCorrect == Spec => []TypeOK
BY TypeInit, TypeStep, PTL DEF Spec

-----------------------------------------------------------------------------
(* Ownership.                                                              *)

LEMMA OwnershipInit == Init => Ownership
<1> SUFFICES ASSUME Init PROVE Ownership
  OBVIOUS
<1> USE DEF Init
<1>1. TypeOK
  BY TypeInit
<1>2. \A o \in Op : Started(o) = {}
  BY DEF Started, NoAttempt
<1>3. CurrentIsLatest
  BY <1>2 DEF CurrentIsLatest, IsLatest, NoDispatch
<1>4. \A o \in Op, n \in AttemptNo : ~Owns(o, n)
  BY DEF Owns, LiveLease, NoAttempt, NoLease
<1> QED BY <1>1, <1>3, <1>4 DEF Ownership, OnlyCurrentOwns, WaitingIsUnowned, NoDispatch

\* A step that starts no attempt and gives nobody ownership; what it puts back
\* to waiting is unowned afterwards.
Undisturbed ==
  /\ \A o \in Op : dispatch'[o].attempt = dispatch[o].attempt
  /\ \A o \in Op, n \in AttemptNo :
       /\ attempt'[o][n].state = "none" <=> attempt[o][n].state = "none"
       /\ Owns(o, n)' => Owns(o, n)
  /\ \A o \in Op : Waiting(o)' =>
       /\ Waiting(o) \/ \A n \in AttemptNo : ~Owns(o, n)'
       /\ dispatch'[o].state = "running" => Waiting(o) /\ dispatch[o].state = "running"
       /\ op'[o].state = "absent" => op[o].state = "absent"

LEMMA UndisturbedOwnership ==
  ASSUME Ownership, TypeOK', Undisturbed
  PROVE  Ownership'
<1>1. CurrentIsLatest'
  <2> SUFFICES ASSUME NEW o \in Op PROVE IsLatest(o, dispatch[o].attempt)'
    BY DEF CurrentIsLatest
  <2>1. IsLatest(o, dispatch[o].attempt)
    BY DEF Ownership, CurrentIsLatest
  <2>2. Started(o)' = Started(o) /\ dispatch'[o].attempt = dispatch[o].attempt
    BY DEF Undisturbed, Started
  <2> QED BY <2>1, <2>2 DEF IsLatest
<1>2. OnlyCurrentOwns'
  BY DEF Ownership, OnlyCurrentOwns, Undisturbed
<1>3. WaitingIsUnowned'
  <2> SUFFICES ASSUME NEW o \in Op, Waiting(o)'
               PROVE  /\ \A n \in AttemptNo : ~Owns(o, n)'
                      /\ dispatch'[o].state # "running"
                      /\ op'[o].state = "absent" => dispatch'[o].attempt = 0
    BY DEF WaitingIsUnowned
  <2>1. op[o].state = "absent" => Waiting(o)
    BY DEF Waiting
  <2> QED BY <2>1 DEF Ownership, WaitingIsUnowned, Undisturbed
<1> QED BY <1>1, <1>2, <1>3 DEF Ownership

\* Reading the state a step leaves behind.
LEMMA OwnsPrimed ==
  \A o \in Op, n \in AttemptNo :
    Owns(o, n)' <=> attempt'[o][n].state = "running" \/ ~lease'[o][n].released
BY DEF Owns, LiveLease

LEMMA WaitingPrimed ==
  \A o \in Op : Waiting(o)' <=> op'[o].state \in {"absent", "accepted"}
BY DEF Waiting

\* claim_next starts attempt n: n - 1 was the latest and nobody owned o.
LEMMA ClaimOwnership ==
  ASSUME Ownership, TypeOK', NEW o \in Op, NEW n \in AttemptNo, ClaimNext(o, n)
  PROVE  Ownership'
<1> USE DEF Ownership
<1>0. /\ n \in Nat /\ n >= 1 /\ dispatch[o].attempt \in Nat
      /\ \A m \in AttemptNo : m \in Nat
  BY BoundsAssumption DEF AttemptNo, AttemptRef, TypeOK, Dispatches
<1>1. op[o].state = "accepted" /\ \A m \in AttemptNo : ~Owns(o, m)
  BY DEF ClaimNext, Claimable, WaitingIsUnowned, Waiting
<1>2. \A p \in Op : dispatch'[p].attempt = IF p = o THEN n ELSE dispatch[p].attempt
  <2>1. dispatch'[o].attempt = n
    <3>1. dispatch'[o] = [dispatch[o] EXCEPT !.state = "running", !.attempt = n]
      BY DEF ClaimNext
    <3>2. dispatch[o] \in Dispatches /\ "running" \in DispatchStates /\ n \in AttemptRef
      BY <1>0, BoundsAssumption DEF TypeOK, DispatchStates, AttemptNo, AttemptRef
    <3>3. [dispatch[o] EXCEPT !.state = "running", !.attempt = n].attempt = n
      BY <3>2, DispatchClaimed
    <3> QED BY <3>1, <3>3
  <2>2. \A p \in Op \ {o} : dispatch'[p] = PassedDispatch(p)
    BY DEF ClaimNext
  <2> QED BY <2>1, <2>2, PassedRows
<1>3. \A p \in Op, m \in AttemptNo :
        /\ attempt'[p][m] = IF p = o /\ m = n
             THEN [state |-> "running", generation |-> generation] ELSE attempt[p][m]
        /\ p # o \/ m # n => lease'[p][m] = lease[p][m]
  BY DEF ClaimNext, TypeOK
<1>4. CurrentIsLatest'
  <2> SUFFICES ASSUME NEW p \in Op PROVE IsLatest(p, dispatch[p].attempt)'
    BY DEF CurrentIsLatest
  <2>1. CASE p = o
    <3>1. Started(o)' = Started(o) \cup {n}
      BY <1>3 DEF Started
    <3>2. \A m \in Started(o) : m <= n - 1
      BY <1>0 DEF ClaimNext, IsLatest
    <3>3. \A m \in Started(o) : m <= n
      BY <3>2, <1>0 DEF Started
    <3>4. n \in Started(o)' /\ \A m \in Started(o)' : m <= n
      BY <3>1, <3>3, <1>0
    <3> QED BY <2>1, <3>4, <1>2 DEF IsLatest
  <2>2. CASE p # o
    <3>1. Started(p)' = Started(p)
      BY <2>2, <1>3 DEF Started
    <3> QED BY <2>2, <3>1, <1>2 DEF CurrentIsLatest, IsLatest
  <2> QED BY <2>1, <2>2
<1>5. OnlyCurrentOwns'
  <2> SUFFICES ASSUME NEW p \in Op, NEW m \in AttemptNo, Owns(p, m)'
               PROVE  m = dispatch'[p].attempt
    BY DEF OnlyCurrentOwns
  <2>1. CASE p = o /\ m = n
    BY <2>1, <1>2
  <2>2. CASE p = o /\ m # n
    BY <2>2, <1>1, <1>3 DEF Owns, LiveLease
  <2>3. CASE p # o
    BY <2>3, <1>2, <1>3 DEF Owns, LiveLease, OnlyCurrentOwns
  <2> QED BY <2>1, <2>2, <2>3
<1>6. WaitingIsUnowned'
  <2> SUFFICES ASSUME NEW p \in Op, Waiting(p)'
               PROVE  /\ \A m \in AttemptNo : ~Owns(p, m)'
                      /\ dispatch'[p].state # "running"
                      /\ op'[p].state = "absent" => dispatch'[p].attempt = 0
    BY DEF WaitingIsUnowned
  <2>0. op[o] \in Operations /\ op[p] \in Operations /\ generation \in Nat
    BY DEF TypeOK
  <2>1. op'[o].state = "running"
    BY DEF ClaimNext, Moved
  <2>2. p # o
    BY <2>1 DEF Waiting
  <2>3. op'[p] = PassedOp(p) /\ dispatch'[p] = PassedDispatch(p)
    BY <2>2 DEF ClaimNext
  <2>4. op'[p] = op[p]
    BY <2>3 DEF PassedOp, Moved, Waiting
  <2>5. dispatch'[p].state = "running" => dispatch[p].state = "running"
    BY <2>3 DEF PassedDispatch, TypeOK, Dispatches
  <2> QED BY <2>2, <2>4, <2>5, <1>2, <1>3
          DEF Owns, LiveLease, WaitingIsUnowned, Waiting
<1> QED BY <1>4, <1>5, <1>6

\* Every other step leaves ownership undisturbed.
LEMMA OtherStepsUndisturbed ==
  ASSUME Ownership, TypeOK', [Next]_vars,
         \A o \in Op, n \in AttemptNo : ~ClaimNext(o, n)
  PROVE  Undisturbed
<1> USE DEF Ownership
<1>a. /\ \A o \in Op : op[o] \in Operations /\ dispatch[o] \in Dispatches
      /\ \A o \in Op, n \in AttemptNo :
           attempt[o][n] \in Attempts /\ lease[o][n] \in Leases
  BY DEF TypeOK
<1>b. \A o \in Op : dispatch[o].attempt \in AttemptNo =>
        attempt[o][dispatch[o].attempt].state # "none"
  BY BoundsAssumption DEF CurrentIsLatest, IsLatest, Started, AttemptNo
<1>1. CASE Tick \/ ListRecoveryCandidates \/ UNCHANGED vars
           \/ \E rest : LeaveCandidates(rest)
  BY <1>1, OwnsPrimed, WaitingPrimed
  DEF Tick, ListRecoveryCandidates, LeaveCandidates, vars, Undisturbed, Owns, LiveLease, Waiting
<1>2. CASE StartRuntime
  <2>1. \A o \in Op, n \in AttemptNo :
          /\ attempt'[o][n].state = "none" <=> attempt[o][n].state = "none"
          /\ Owns(o, n)' => Owns(o, n)
    BY <1>2, <1>a, OwnsPrimed DEF StartRuntime, Interrupted, Attempts, Leases, Owns, LiveLease
  <2>2. \A o \in Op : op'[o].state \in {"absent", "accepted"} => op[o].state = op'[o].state
    BY <1>2, <1>a DEF StartRuntime, AfterRestart, Moved
  <2> QED BY <2>1, <2>2, <1>2, WaitingPrimed DEF StartRuntime, Undisturbed, Waiting
<1>3. CASE ClaimNothing
  <2>1. \A o \in Op :
          /\ op'[o].state \in {"absent", "accepted"} => op[o].state = op'[o].state
          /\ dispatch'[o].attempt = dispatch[o].attempt
          /\ dispatch'[o].state = "running" => dispatch[o].state = "running"
    BY <1>3, <1>a, PassedRows
    DEF ClaimNothing, PassedOp, PassedDispatch, Moved, Dispatches
  <2> QED BY <2>1, <1>3, OwnsPrimed, WaitingPrimed
          DEF ClaimNothing, Undisturbed, Owns, LiveLease, Waiting
<1>4. ASSUME NEW o \in Op, NEW n \in AttemptNo, Heartbeat(o, n) PROVE Undisturbed
  <2>1. \A p \in Op, m \in AttemptNo : lease'[p][m].released = lease[p][m].released
    BY <1>4, <1>a DEF Heartbeat, TypeOK, Leases
  <2> QED BY <2>1, <1>4, OwnsPrimed, WaitingPrimed
          DEF Heartbeat, Undisturbed, Owns, LiveLease, Waiting
<1>5. ASSUME NEW o \in Op, NEW n \in AttemptNo, CommitClaimed(o, n) \/ FinishAttempt(o, n)
      PROVE  Undisturbed
  <2>1. PICK state \in Terminal \cup {"indeterminate"} :
          /\ FenceValid(o, n)
          /\ attempt' = [attempt EXCEPT ![o][n].state = state]
          /\ lease' = [lease EXCEPT ![o][n].released = TRUE]
          /\ dispatch' = [dispatch EXCEPT ![o].state = CloseDispatch(state)]
          /\ \A p \in Op : op'[p].state \in {"absent", "accepted"} => op'[p] = op[p]
    <3>1. CASE CommitClaimed(o, n)
      <4>1. PICK state, result : /\ state \in Terminal \cup {"indeterminate"}
                                /\ TransitionClaimed(o, n, state, result)
        BY <3>1 DEF CommitClaimed
      <4>2. \A p \in Op : op'[p].state \in {"absent", "accepted"} => op'[p] = op[p]
        BY <4>1, <1>a DEF TransitionClaimed, Moved, Terminal
      <4> QED BY <4>1, <4>2 DEF TransitionClaimed
    <3>2. CASE FinishAttempt(o, n)
      BY <3>2 DEF FinishAttempt
    <3> QED BY <1>5, <3>1, <3>2
  <2>2. \A p \in Op, m \in AttemptNo :
          /\ attempt'[p][m].state = "none" <=> attempt[p][m].state = "none"
          /\ Owns(p, m)' => Owns(p, m)
    <3> SUFFICES ASSUME NEW p \in Op, NEW m \in AttemptNo
                 PROVE  /\ attempt'[p][m].state = "none" <=> attempt[p][m].state = "none"
                        /\ Owns(p, m)' => Owns(p, m)
      OBVIOUS
    <3>1. /\ attempt'[p][m] = IF p = o /\ m = n
               THEN [attempt[p][m] EXCEPT !.state = state] ELSE attempt[p][m]
          /\ lease'[p][m] = IF p = o /\ m = n
               THEN [lease[p][m] EXCEPT !.released = TRUE] ELSE lease[p][m]
      <4>1. attempt \in [Op -> [AttemptNo -> Attempts]] /\ lease \in [Op -> [AttemptNo -> Leases]]
        BY DEF TypeOK
      <4> QED BY <2>1, <4>1
    <3>2. /\ [attempt[p][m] EXCEPT !.state = state].state = state
          /\ [lease[p][m] EXCEPT !.released = TRUE].released
      BY <1>a DEF Attempts, Leases
    <3>3. state # "none" /\ state # "running" /\ attempt[o][n].state = "running"
      BY <2>1 DEF Terminal, FenceValid
    <3> QED BY <3>1, <3>2, <3>3, OwnsPrimed DEF Owns, LiveLease
  <2>3. \A p \in Op : /\ dispatch'[p].attempt = dispatch[p].attempt
                      /\ dispatch'[p].state = "running" => dispatch'[p] = dispatch[p]
    BY <2>1, <1>a DEF TypeOK, Dispatches, CloseDispatch
  <2> QED BY <2>1, <2>2, <2>3, WaitingPrimed DEF Undisturbed, Waiting
<1>6. ASSUME NEW o \in Op, Caller(o) PROVE Undisturbed
  <2>0. \A p \in Op, m \in AttemptNo :
          attempt'[p][m] = attempt[p][m] /\ lease'[p][m] = lease[p][m]
    BY <1>6 DEF Caller, Accept, BindRecoveryPolicy, RequestDispatch, Begin, Succeed,
                Fail, Cancel, TimeOut, MarkIndeterminate, Transition, RequestCancel,
                CancelQueuedDispatch
  <2>1. ASSUME NEW deadline \in Deadlines, Accept(o, deadline) PROVE Undisturbed
    BY <2>0, <2>1, <1>a, OwnsPrimed, WaitingPrimed
    DEF Accept, TypeOK, Undisturbed, Owns, LiveLease, Waiting
  <2>2. CASE BindRecoveryPolicy(o) \/ RequestCancel(o)
    BY <2>0, <2>2, OwnsPrimed, WaitingPrimed
    DEF BindRecoveryPolicy, RequestCancel, Undisturbed, Owns, LiveLease, Waiting
  <2>3. CASE RequestDispatch(o)
    <3>1. \A p \in Op : /\ dispatch'[p].attempt = dispatch[p].attempt
                        /\ dispatch'[p].state = "running" => dispatch'[p] = dispatch[p]
      <4>1. /\ [dispatch[o] EXCEPT !.state = "queued", !.queuedAt = now].attempt
                 = dispatch[o].attempt
            /\ [dispatch[o] EXCEPT !.state = "queued", !.queuedAt = now].state = "queued"
        BY <1>a, DispatchQueued DEF TypeOK
      <4>2. \A p \in Op \ {o} : dispatch'[p] = dispatch[p]
        BY <2>3 DEF RequestDispatch, TypeOK
      <4>3. dispatch'[o] = [dispatch[o] EXCEPT !.state = "queued", !.queuedAt = now]
        BY <2>3 DEF RequestDispatch, TypeOK
      <4> QED BY <4>1, <4>2, <4>3
    <3> QED BY <2>0, <2>3, <3>1, OwnsPrimed, WaitingPrimed
            DEF RequestDispatch, Undisturbed, Owns, LiveLease, Waiting
  <2>4. CASE Begin(o) \/ Succeed(o) \/ Fail(o) \/ Cancel(o) \/ TimeOut(o)
             \/ MarkIndeterminate(o)
    <3>1. dispatch' = dispatch
      BY <2>4 DEF Begin, Succeed, Fail, Cancel, TimeOut, MarkIndeterminate, Transition
    <3>2. \A p \in Op : op'[p].state \in {"absent", "accepted"} => op'[p] = op[p]
      BY <2>4, <1>a DEF Begin, Succeed, Fail, Cancel, TimeOut, MarkIndeterminate,
                        Transition, Movable, TypeOK, Moved
    <3> QED BY <2>0, <3>1, <3>2, OwnsPrimed, WaitingPrimed
            DEF Undisturbed, Owns, LiveLease, Waiting
  <2>5. CASE CancelQueuedDispatch(o)
    <3>1. \A p \in Op :
            /\ op'[p].state \in {"absent", "accepted"} => op'[p] = op[p]
            /\ dispatch'[p].attempt = dispatch[p].attempt
            /\ dispatch'[p].state = "running" => dispatch'[p] = dispatch[p]
      BY <2>5, <1>a DEF CancelQueuedDispatch, TypeOK, Dispatches, Moved
    <3> QED BY <2>0, <3>1, OwnsPrimed, WaitingPrimed
            DEF Undisturbed, Owns, LiveLease, Waiting
  <2> QED BY <1>6, <2>1, <2>2, <2>3, <2>4, <2>5 DEF Caller
<1>7. CASE FenceExpiredAttempts
  <2>1. \A o \in Op, n \in AttemptNo :
          /\ attempt'[o][n].state = "none" <=> attempt[o][n].state = "none"
          /\ Owns(o, n)' => Owns(o, n)
    BY <1>7, <1>a, OwnsPrimed
    DEF FenceExpiredAttempts, FencedAttempt, LeaseLost, Attempts, Leases, Owns, LiveLease
  <2>2. \A o \in Op : op'[o].state \in {"absent", "accepted"} => op'[o] = op[o]
    BY <1>7, <1>a DEF FenceExpiredAttempts, Moved
  <2> QED BY <2>1, <2>2, <1>7, WaitingPrimed DEF FenceExpiredAttempts, Undisturbed, Waiting
<1>8. ASSUME NEW o \in Op, Requeue(o) PROVE Undisturbed
  <2>1. PICK kind \in {"successor", "park"}, bound \in BOOLEAN :
          RequeueIndeterminate(o, kind, bound)
    BY <1>8 DEF Requeue
  <2>2. \A p \in Op, m \in AttemptNo :
          /\ attempt'[p][m] =
               IF p = o /\ Predecessor(o, m) /\ attempt[p][m].state = "running"
               THEN [attempt[p][m] EXCEPT !.state = "indeterminate"] ELSE attempt[p][m]
          /\ lease'[p][m] =
               IF p = o /\ Predecessor(o, m)
               THEN [lease[p][m] EXCEPT !.released = TRUE] ELSE lease[p][m]
    BY <2>1 DEF RequeueIndeterminate, TypeOK
  <2>3. \A p \in Op, m \in AttemptNo :
          /\ attempt'[p][m].state = "none" <=> attempt[p][m].state = "none"
          /\ Owns(p, m)' => Owns(p, m)
          /\ ~Owns(o, m)'
    <3> SUFFICES ASSUME NEW p \in Op, NEW m \in AttemptNo
                 PROVE  /\ attempt'[p][m].state = "none" <=> attempt[p][m].state = "none"
                        /\ Owns(p, m)' => Owns(p, m)
                        /\ ~Owns(o, m)'
      OBVIOUS
    <3>1. \A q \in Op : attempt[q][m] \in Attempts /\ lease[q][m] \in Leases
      BY <1>a
    <3>2. \A q \in Op :
            /\ [attempt[q][m] EXCEPT !.state = "indeterminate"].state = "indeterminate"
            /\ [lease[q][m] EXCEPT !.released = TRUE].released
      BY <3>1 DEF Attempts, Leases
    <3>3. /\ attempt'[p][m].state = "none" <=> attempt[p][m].state = "none"
          /\ Owns(p, m)' => Owns(p, m)
      <4>1. /\ attempt'[p][m].state = attempt[p][m].state
               \/ /\ attempt'[p][m].state = "indeterminate"
                  /\ attempt[p][m].state = "running"
            /\ lease'[p][m] = lease[p][m] \/ lease'[p][m].released
        BY <2>2, <3>2
      <4> QED BY <4>1, OwnsPrimed DEF Owns, LiveLease
    <3>4. ~Predecessor(o, m) => ~Owns(o, m)
      BY DEF OnlyCurrentOwns, Predecessor
    <3>5. ~Owns(o, m)'
      <4>1. CASE Predecessor(o, m)
        <5>1. attempt'[o][m] =
                IF attempt[o][m].state = "running"
                THEN [attempt[o][m] EXCEPT !.state = "indeterminate"] ELSE attempt[o][m]
          BY <4>1, <2>2
        <5>2. lease'[o][m] = [lease[o][m] EXCEPT !.released = TRUE]
          BY <4>1, <2>2
        <5>3. attempt'[o][m].state # "running"
          BY <5>1, <3>2
        <5>4. lease'[o][m].released
          BY <5>2, <3>2
        <5> QED BY <5>3, <5>4, OwnsPrimed
      <4>2. CASE ~Predecessor(o, m)
        <5>1. attempt'[o][m] = attempt[o][m] /\ lease'[o][m] = lease[o][m]
          BY <4>2, <2>2
        <5> QED BY <5>1, <4>2, <3>4, OwnsPrimed DEF Owns, LiveLease
      <4> QED BY <4>1, <4>2
    <3> QED BY <3>3, <3>5
  <2>4. \A p \in Op :
          /\ dispatch'[p].attempt = dispatch[p].attempt
          /\ dispatch'[p].state = "running" => p # o /\ dispatch'[p] = dispatch[p]
    <3>1. \A p \in Op \ {o} : dispatch'[p] = dispatch[p]
      BY <2>1 DEF RequeueIndeterminate, TypeOK
    <3>2. CASE kind = "successor"
      <4>1. dispatch'[o] = [dispatch[o] EXCEPT !.state = "queued", !.queuedAt = now]
        BY <2>1, <3>2 DEF RequeueIndeterminate, TypeOK
      <4>2. /\ [dispatch[o] EXCEPT !.state = "queued", !.queuedAt = now].attempt
                 = dispatch[o].attempt
            /\ [dispatch[o] EXCEPT !.state = "queued", !.queuedAt = now].state = "queued"
        BY <1>a, DispatchQueued DEF TypeOK
      <4> QED BY <3>1, <4>1, <4>2
    <3>3. CASE kind = "park"
      <4>1. dispatch'[o] = [dispatch[o] EXCEPT !.state = "parked"]
        BY <2>1, <3>3 DEF RequeueIndeterminate, TypeOK
      <4> QED BY <3>1, <4>1, <1>a DEF Dispatches
    <3> QED BY <3>2, <3>3
  <2>5. /\ \A p \in Op \ {o} : op'[p] = op[p]
        /\ op[o].state = "indeterminate"
        /\ op'[o].state # "absent"
    BY <2>1, <1>a DEF RequeueIndeterminate, TypeOK, Moved
  <2> QED BY <2>3, <2>4, <2>5, WaitingPrimed DEF Undisturbed, Waiting
<1>9. ASSUME NEW o \in Op, NEW state \in {"succeeded", "cancelled", "timed_out"},
             RecoverTerminalFromReceipt(o, state)
      PROVE  Undisturbed
  <2>1. \A p \in Op, m \in AttemptNo :
          /\ attempt'[p][m] = IF p = o /\ Predecessor(o, m)
               THEN [attempt[p][m] EXCEPT !.state = state] ELSE attempt[p][m]
          /\ lease'[p][m] = lease[p][m]
    BY <1>9 DEF RecoverTerminalFromReceipt, TypeOK
  <2>2. \A p \in Op, m \in AttemptNo :
          /\ attempt'[p][m].state = "none" <=> attempt[p][m].state = "none"
          /\ Owns(p, m)' => Owns(p, m)
    <3> SUFFICES ASSUME NEW p \in Op, NEW m \in AttemptNo
                 PROVE  /\ attempt'[p][m].state = "none" <=> attempt[p][m].state = "none"
                        /\ Owns(p, m)' => Owns(p, m)
      OBVIOUS
    <3>1. [attempt[p][m] EXCEPT !.state = state].state = state
      BY <1>a DEF Attempts
    <3>2. Predecessor(o, m) => attempt[o][m].state # "none"
      BY <1>b DEF Predecessor
    <3> QED BY <2>1, <3>1, <3>2, OwnsPrimed DEF Owns, LiveLease
  <2>3. \A p \in Op :
          /\ dispatch'[p].attempt = dispatch[p].attempt
          /\ dispatch'[p].state = "running" => dispatch'[p] = dispatch[p]
          /\ op'[p].state \in {"absent", "accepted"} => op'[p] = op[p]
    BY <1>9, <1>a DEF RecoverTerminalFromReceipt, TypeOK, Dispatches, Moved
  <2> QED BY <2>2, <2>3, WaitingPrimed DEF Undisturbed, Waiting
<1> QED
  BY <1>1, <1>2, <1>3, <1>4, <1>5, <1>6, <1>7, <1>8, <1>9
  DEF Next, Claim, Claimant, Recovery

LEMMA OwnershipStep == Ownership /\ [Next]_vars => Ownership'
<1> SUFFICES ASSUME Ownership, [Next]_vars PROVE Ownership'
  OBVIOUS
<1>1. TypeOK'
  BY TypeStep DEF Ownership
<1>2. CASE \E o \in Op, n \in AttemptNo : ClaimNext(o, n)
  BY <1>1, <1>2, ClaimOwnership
<1>3. CASE \A o \in Op, n \in AttemptNo : ~ClaimNext(o, n)
  BY <1>1, <1>3, OtherStepsUndisturbed, UndisturbedOwnership
<1> QED BY <1>2, <1>3

THEOREM OwnershipInvariant == Spec => []Ownership
BY OwnershipInit, OwnershipStep, PTL DEF Spec

\* Mutual exclusion of the owners of one operation: across lease expiry,
\* recovery, cancellation and restart, only the latest attempt may run.
THEOREM SingleRunner == Spec => []SingleRunningAttempt
<1>1. Ownership => SingleRunningAttempt
  BY DEF Ownership, CurrentIsLatest, OnlyCurrentOwns, Owns, SingleRunningAttempt
<1> QED BY <1>1, OwnershipInvariant, PTL

\* claim_next need not look for a live owner: whatever put the operation back
\* to accepted has closed its attempts and released their leases.
THEOREM ClaimFindsNoOwner == Spec => []QueuedHasNoLiveOwner
<1>1. Ownership => QueuedHasNoLiveOwner
  BY DEF Ownership, WaitingIsUnowned, Waiting, Owns, QueuedHasNoLiveOwner
<1> QED BY <1>1, OwnershipInvariant, PTL

-----------------------------------------------------------------------------
(* Lineage.                                                                *)

LEMMA LineageInit == Init => Lineage
<1> SUFFICES ASSUME Init PROVE Lineage
  OBVIOUS
<1>1. \A o \in Op : decisions[o] = <<>> /\ Started(o) = {} /\ op[o].state = "absent"
  BY DEF Init, Started, NoAttempt, NoOperation
<1>2. \A o \in Op : DOMAIN decisions[o] = {}
  BY <1>1
<1>3. scan = {}
  BY DEF Init
<1> QED BY <1>1, <1>2, <1>3
        DEF Lineage, DecisionsArePast, ListedIsUndecided, AcceptedIsAdmitted,
            OneDecisionPerAttempt, AttemptsAreAdmitted

\* Decisions refer to attempts by number, and so does the queue.
LEMMA Numbers ==
  ASSUME TypeOK
  PROVE  /\ \A o \in Op : dispatch[o].attempt \in Int
         /\ \A o \in Op : decisions[o] \in Seq(Decisions)
         /\ \A o \in Op : \A i \in DOMAIN decisions[o] :
              decisions[o][i].prior \in Int /\ i \in Int
         /\ \A n \in AttemptNo : n \in Int /\ n >= 1
<1>1. AttemptRef \subseteq Int /\ \A n \in AttemptNo : n \in Int /\ n >= 1
  BY BoundsAssumption DEF AttemptRef, AttemptNo
<1>2. \A o \in Op : dispatch[o].attempt \in AttemptRef
  BY DEF TypeOK, Dispatches
<1>3. \A o \in Op : decisions[o] \in Seq(Decisions)
  BY DEF TypeOK
<1>4. \A o \in Op : \A i \in DOMAIN decisions[o] :
        decisions[o][i].prior \in AttemptRef /\ i \in Int
  <2> SUFFICES ASSUME NEW o \in Op, NEW i \in DOMAIN decisions[o]
               PROVE  decisions[o][i].prior \in AttemptRef /\ i \in Int
    OBVIOUS
  <2>1. decisions[o][i] \in Decisions /\ i \in Int
    BY <1>3
  <2> QED BY <2>1 DEF Decisions
<1> QED BY <1>1, <1>2, <1>3, <1>4

\* A step that decides nothing and starts nothing keeps the lineage: what it
\* lists is undecided, and what is accepted after it was accepted before or
\* never had an attempt.
LEMMA UndecidingLineage ==
  ASSUME TypeOK, Lineage, Undisturbed, decisions' = decisions,
         \A o \in scan' : o \in Op /\ (o \in scan \/ IsCandidate(o)),
         \A o \in Op : op'[o].state = "accepted" =>
           op[o].state = "accepted" \/ dispatch[o].attempt = 0
  PROVE  Lineage'
<1> USE DEF Lineage
<1>1. \A o \in Op : dispatch'[o].attempt = dispatch[o].attempt
  BY DEF Undisturbed
<1>2. \A o \in Op : Started(o)' = Started(o)
  BY DEF Undisturbed, Started
<1>3. DecisionsArePast'
  BY <1>1 DEF DecisionsArePast
<1>4. ListedIsUndecided'
  BY <1>1 DEF ListedIsUndecided, IsCandidate, DecidedOn
<1>5. AcceptedIsAdmitted'
  BY <1>1 DEF AcceptedIsAdmitted, Admitted
<1>6. OneDecisionPerAttempt'
  BY DEF OneDecisionPerAttempt
<1>7. AttemptsAreAdmitted'
  BY <1>2 DEF AttemptsAreAdmitted
<1> QED BY <1>3, <1>4, <1>5, <1>6, <1>7

\* A decision on the current attempt of a listed operation: there was none
\* before, and only a successor decision makes the operation accepted again.
LEMMA DecidingLineage ==
  ASSUME TypeOK, Lineage, Undisturbed,
         NEW o \in Op, NEW kind \in {"successor", "park", "receipt"},
         o \in scan, Decided(o, kind), scan' = scan \ {o},
         \A p \in Op : op'[p].state = "accepted" =>
           op[p].state = "accepted" \/ (p = o /\ kind = "successor")
  PROVE  Lineage'
<1> USE DEF Lineage
<1> DEFINE current == dispatch[o].attempt
           new == [kind |-> kind, prior |-> current]
           length == Len(decisions[o])
<1>1. \A p \in Op : dispatch'[p].attempt = dispatch[p].attempt
  BY DEF Undisturbed
<1>2. \A p \in Op : Started(p)' = Started(p)
  BY DEF Undisturbed, Started
<1>3. /\ \A p \in Op \ {o} : decisions'[p] = decisions[p]
      /\ decisions'[o] = Append(decisions[o], new)
  BY DEF Decided, TypeOK
<1>4. /\ length \in Nat
      /\ DOMAIN decisions[o] = 1..length
      /\ DOMAIN decisions'[o] = 1..(length + 1)
      /\ \A i \in 1..length : decisions'[o][i] = decisions[o][i]
      /\ decisions'[o][length + 1] = new
  <2>1. decisions[o] \in Seq(Decisions) /\ new \in Decisions
    BY Numbers DEF TypeOK, Decisions, Dispatches
  <2>2. length \in Nat /\ DOMAIN decisions[o] = 1..length
    BY <2>1
  <2>3. Append(decisions[o], new) \in Seq(Decisions) /\ Len(Append(decisions[o], new)) = length + 1
    BY <2>1
  <2>4. /\ \A i \in 1..length : Append(decisions[o], new)[i] = decisions[o][i]
        /\ Append(decisions[o], new)[length + 1] = new
    BY <2>1
  <2>5. DOMAIN Append(decisions[o], new) = 1..(length + 1)
    BY <2>3
  <2> QED BY <1>3, <2>2, <2>4, <2>5
<1>5. \A p \in Op : \A i \in DOMAIN decisions[p] :
        i \in DOMAIN decisions'[p] /\ decisions'[p][i] = decisions[p][i]
  BY <1>3, <1>4
<1>6. \A p \in Op : \A i \in DOMAIN decisions'[p] :
        \/ i \in DOMAIN decisions[p] /\ decisions'[p][i] = decisions[p][i]
        \/ p = o /\ i = length + 1 /\ decisions'[p][i] = new
  <2> SUFFICES ASSUME NEW i \in DOMAIN decisions'[o]
               PROVE  i \in 1..length \/ i = length + 1
    BY <1>3, <1>4
  <2> QED BY <1>4
<1>7. current # 0 => \A i \in DOMAIN decisions[o] : decisions[o][i].prior # current
  BY DEF ListedIsUndecided, DecidedOn
<1>8. new.prior = current /\ new.kind = kind
  OBVIOUS
<1> HIDE DEF new, length
<1>10. DecisionsArePast'
  <2> SUFFICES ASSUME NEW p \in Op, NEW i \in DOMAIN decisions'[p]
               PROVE  decisions'[p][i].prior <= dispatch'[p].attempt
    BY DEF DecisionsArePast
  <2>1. current <= current
    BY Numbers
  <2> QED BY <1>1, <1>6, <1>8, <2>1 DEF DecisionsArePast
<1>11. ListedIsUndecided'
  <2> SUFFICES ASSUME NEW p \in scan', dispatch'[p].attempt # 0,
                      NEW i \in DOMAIN decisions'[p]
               PROVE  decisions'[p][i].prior # dispatch'[p].attempt
    BY DEF ListedIsUndecided, DecidedOn
  <2>1. p \in scan /\ p # o /\ p \in Op
    BY DEF TypeOK
  <2> QED BY <2>1, <1>1, <1>6 DEF ListedIsUndecided, DecidedOn
<1>12. AcceptedIsAdmitted'
  <2> SUFFICES ASSUME NEW p \in Op, op'[p].state = "accepted", dispatch'[p].attempt # 0
               PROVE  Admitted(p, dispatch[p].attempt)'
    BY DEF AcceptedIsAdmitted
  <2>1. CASE op[p].state = "accepted"
    <3>1. Admitted(p, dispatch[p].attempt)
      BY <2>1, <1>1 DEF AcceptedIsAdmitted
    <3>2. \E i \in DOMAIN decisions'[p] :
            decisions'[p][i].kind = "successor" /\ decisions'[p][i].prior = dispatch[p].attempt
      BY <3>1, <1>5 DEF Admitted
    <3> QED BY <3>2, <1>1 DEF Admitted
  <2>2. CASE p = o /\ kind = "successor"
    <3>1. length + 1 \in DOMAIN decisions'[o]
      BY <1>4
    <3> QED BY <2>2, <3>1, <1>1, <1>4, <1>8 DEF Admitted
  <2> QED BY <2>1, <2>2
<1>13. OneDecisionPerAttempt'
  <2> SUFFICES ASSUME NEW p \in Op, NEW i \in DOMAIN decisions'[p], NEW j \in DOMAIN decisions'[p],
                      decisions'[p][i].prior = decisions'[p][j].prior,
                      decisions'[p][i].prior # 0
               PROVE  i = j
    BY DEF OneDecisionPerAttempt
  <2> QED BY <1>6, <1>7, <1>8 DEF OneDecisionPerAttempt
<1>14. AttemptsAreAdmitted'
  <2> SUFFICES ASSUME NEW p \in Op, NEW n \in AttemptNo, n \in Started(p), n > 1
               PROVE  \E i \in DOMAIN decisions'[p] :
                        /\ decisions'[p][i].kind = "successor"
                        /\ decisions'[p][i].prior = n - 1
    BY <1>2 DEF AttemptsAreAdmitted
  <2> QED BY <1>5 DEF AttemptsAreAdmitted
<1> QED BY <1>10, <1>11, <1>12, <1>13, <1>14

\* claim_next starts attempt n of an accepted operation whose current attempt
\* is n - 1: by the invariant a decision on n - 1 admitted it.
LEMMA ClaimLineage ==
  ASSUME Ownership, TypeOK', Lineage, NEW o \in Op, NEW n \in AttemptNo, ClaimNext(o, n)
  PROVE  Lineage'
<1> USE DEF Ownership, Lineage
<1>1. /\ n \in Int /\ n >= 1
      /\ \A p \in Op : dispatch[p].attempt \in Int /\ dispatch[p].attempt >= 0
  BY Numbers, BoundsAssumption DEF TypeOK, Dispatches, AttemptRef
<1>2. dispatch[o].attempt = n - 1
  <2>1. IsLatest(o, dispatch[o].attempt) /\ IsLatest(o, n - 1)
    BY DEF CurrentIsLatest, ClaimNext
  <2>2. \A m \in Started(o) : m \in Int
    BY Numbers DEF Started
  <2> QED BY <2>1, <2>2, <1>1 DEF IsLatest
<1>3. /\ dispatch'[o].attempt = n
      /\ \A p \in Op \ {o} : dispatch'[p].attempt = dispatch[p].attempt
  <2>1. dispatch'[o] = [dispatch[o] EXCEPT !.state = "running", !.attempt = n]
    BY DEF ClaimNext
  <2>2. dispatch[o] \in Dispatches /\ n \in AttemptRef
    BY <1>1, BoundsAssumption DEF TypeOK, AttemptNo, AttemptRef
  <2>3. \A p \in Op \ {o} : dispatch'[p] = PassedDispatch(p)
    BY DEF ClaimNext
  <2>4. dispatch'[o].attempt = n
    BY <2>1, <2>2, DispatchClaimed DEF DispatchStates
  <2> QED BY <2>3, <2>4, PassedRows
<1>4. decisions' = decisions /\ scan' = scan
  BY DEF ClaimNext
<1>5. /\ op[o].state = "accepted" /\ op'[o].state # "accepted"
      /\ \A p \in Op \ {o} : op'[p].state = "accepted" => op[p].state = "accepted"
  BY DEF ClaimNext, Claimable, Moved, PassedOp
<1>6. /\ Started(o)' = Started(o) \cup {n}
      /\ \A p \in Op \ {o} : Started(p)' = Started(p)
  <2>1. \A p \in Op, m \in AttemptNo : attempt'[p][m] =
          IF p = o /\ m = n THEN [state |-> "running", generation |-> generation]
                            ELSE attempt[p][m]
    BY DEF ClaimNext, TypeOK
  <2> QED BY <2>1 DEF Started
<1>7. \A i \in DOMAIN decisions[o] : decisions[o][i].prior <= n - 1
  BY <1>2 DEF DecisionsArePast
<1>8. DecisionsArePast'
  <2> SUFFICES ASSUME NEW p \in Op, NEW i \in DOMAIN decisions[p]
               PROVE  decisions[p][i].prior <= dispatch'[p].attempt
    BY <1>4 DEF DecisionsArePast
  <2>1. decisions[p][i].prior \in Int
    BY Numbers
  <2> QED BY <2>1, <1>1, <1>3, <1>7 DEF DecisionsArePast
<1>9. ListedIsUndecided'
  <2> SUFFICES ASSUME NEW p \in scan, dispatch'[p].attempt # 0, NEW i \in DOMAIN decisions[p]
               PROVE  decisions[p][i].prior # dispatch'[p].attempt
    BY <1>4 DEF ListedIsUndecided, DecidedOn
  <2>1. p \in Op
    BY DEF TypeOK
  <2>2. decisions[p][i].prior \in Int
    BY <2>1, Numbers
  <2> QED BY <2>1, <2>2, <1>1, <1>3, <1>7 DEF ListedIsUndecided, DecidedOn
<1>10. AcceptedIsAdmitted'
  BY <1>3, <1>4, <1>5 DEF AcceptedIsAdmitted, Admitted
<1>11. OneDecisionPerAttempt'
  BY <1>4 DEF OneDecisionPerAttempt
<1>12. AttemptsAreAdmitted'
  <2> SUFFICES ASSUME NEW p \in Op, NEW m \in AttemptNo, m \in Started(p)', m > 1
               PROVE  \E i \in DOMAIN decisions[p] :
                        decisions[p][i].kind = "successor" /\ decisions[p][i].prior = m - 1
    BY <1>4 DEF AttemptsAreAdmitted
  <2>1. CASE m \in Started(p)
    BY <2>1 DEF AttemptsAreAdmitted
  <2>2. CASE p = o /\ m = n
    <3>1. Admitted(o, n - 1)
      BY <2>2, <1>1, <1>2, <1>5 DEF AcceptedIsAdmitted
    <3> QED BY <2>2, <3>1 DEF Admitted
  <2> QED BY <2>1, <2>2, <1>6
<1> QED BY <1>8, <1>9, <1>10, <1>11, <1>12

LEMMA LineageStep ==
  Ownership /\ Lineage /\ [Next]_vars => Lineage'
<1> SUFFICES ASSUME Ownership, Lineage, [Next]_vars PROVE Lineage'
  OBVIOUS
<1>0. TypeOK /\ TypeOK'
  BY TypeStep DEF Ownership
<1>1. CASE \E o \in Op, n \in AttemptNo : ClaimNext(o, n)
  BY <1>0, <1>1, ClaimLineage
<1>2. CASE \A o \in Op, n \in AttemptNo : ~ClaimNext(o, n)
  <2>1. Undisturbed
    BY <1>0, <1>2, OtherStepsUndisturbed
  <2>2. ASSUME NEW o \in Op, Requeue(o) PROVE Lineage'
    <3>1. PICK kind \in {"successor", "park"}, bound \in BOOLEAN :
            RequeueIndeterminate(o, kind, bound)
      BY <2>2 DEF Requeue
    <3>2. o \in scan /\ Decided(o, kind) /\ scan' = scan \ {o}
      BY <3>1 DEF RequeueIndeterminate
    <3>3. \A p \in Op : op'[p].state = "accepted" =>
            op[p].state = "accepted" \/ (p = o /\ kind = "successor")
      BY <3>1, <1>0 DEF RequeueIndeterminate, TypeOK
    <3> QED BY <3>2, <3>3, <2>1, <1>0, DecidingLineage
  <2>3. ASSUME NEW o \in Op, NEW state \in {"succeeded", "cancelled", "timed_out"},
               RecoverTerminalFromReceipt(o, state)
        PROVE  Lineage'
    <3>1. o \in scan /\ Decided(o, "receipt") /\ scan' = scan \ {o}
      BY <2>3 DEF RecoverTerminalFromReceipt
    <3>2. \A p \in Op : op'[p].state = "accepted" => op[p].state = "accepted"
      BY <2>3, <1>0 DEF RecoverTerminalFromReceipt, TypeOK, Moved
    <3> QED BY <3>1, <3>2, <2>1, <1>0, DecidingLineage
  <2> DEFINE
    Undeciding ==
      /\ decisions' = decisions
      /\ \A o \in scan' : o \in Op /\ (o \in scan \/ IsCandidate(o))
      /\ \A o \in Op : op'[o].state = "accepted" =>
           op[o].state = "accepted" \/ op[o].state = "absent"
  <2>4. ASSUME Tick \/ UNCHANGED vars \/ ListRecoveryCandidates
               \/ \E rest \in SUBSET scan : LeaveCandidates(rest)
        PROVE  Undeciding
    BY <2>4, <1>0 DEF Tick, vars, ListRecoveryCandidates, LeaveCandidates, TypeOK
  <2>5. ASSUME StartRuntime PROVE Undeciding
    BY <2>5 DEF StartRuntime, AfterRestart, Moved
  <2>6. ASSUME ClaimNothing PROVE Undeciding
    BY <2>6, <1>0 DEF ClaimNothing, PassedOp, Moved, TypeOK
  <2>7. ASSUME NEW o \in Op, Claimant(o) PROVE Undeciding
    <3>1. decisions' = decisions /\ scan' = scan
      BY <2>7 DEF Claimant, Heartbeat, CommitClaimed, TransitionClaimed, FinishAttempt
    <3>2. \A p \in Op : op'[p].state = "accepted" => op[p].state = "accepted"
      BY <2>7, <1>0 DEF Claimant, Heartbeat, CommitClaimed, TransitionClaimed,
                        FinishAttempt, Moved, Terminal, TypeOK
    <3> QED BY <3>1, <3>2, <1>0 DEF TypeOK
  <2>8. ASSUME NEW o \in Op, Caller(o) PROVE Undeciding
    <3>1. decisions' = decisions /\ scan' = scan
      BY <2>8 DEF Caller, Accept, BindRecoveryPolicy, RequestDispatch, Begin, Succeed, Fail,
                  Cancel, TimeOut, MarkIndeterminate, Transition, RequestCancel,
                  CancelQueuedDispatch
    <3>2. \A p \in Op : op'[p].state = "accepted" =>
            op[p].state = "accepted" \/ op[p].state = "absent"
      <4>1. CASE \E deadline \in Deadlines : Accept(o, deadline)
        BY <4>1, <1>0 DEF Accept, TypeOK
      <4>2. CASE BindRecoveryPolicy(o) \/ RequestDispatch(o) \/ RequestCancel(o)
        BY <4>2 DEF BindRecoveryPolicy, RequestDispatch, RequestCancel
      <4>3. CASE Begin(o) \/ Succeed(o) \/ Fail(o) \/ Cancel(o) \/ TimeOut(o)
                 \/ MarkIndeterminate(o)
        <5>1. PICK state, result : /\ state # "accepted"
                                   /\ op' = [op EXCEPT ![o] = Moved(op[o], state, generation, result)]
          BY <4>3 DEF Begin, Succeed, Fail, Cancel, TimeOut, MarkIndeterminate, Transition
        <5> QED BY <5>1, <1>0 DEF Moved, TypeOK
      <4>4. CASE CancelQueuedDispatch(o)
        BY <4>4, <1>0 DEF CancelQueuedDispatch, Moved, TypeOK
      <4> QED BY <2>8, <4>1, <4>2, <4>3, <4>4 DEF Caller
    <3> QED BY <3>1, <3>2, <1>0 DEF TypeOK
  <2>9. ASSUME FenceExpiredAttempts PROVE Undeciding
    BY <2>9, <1>0 DEF FenceExpiredAttempts, Moved, TypeOK
  <2>10. Undeciding => Lineage'
    <3> SUFFICES ASSUME Undeciding PROVE Lineage'
      OBVIOUS
    <3>1. \A o \in Op : op[o].state = "absent" => dispatch[o].attempt = 0
      BY DEF Ownership, WaitingIsUnowned, Waiting
    <3> QED BY <3>1, <2>1, <1>0, UndecidingLineage
  <2> QED
    BY <1>2, <2>2, <2>3, <2>4, <2>5, <2>6, <2>7, <2>8, <2>9, <2>10
    DEF Next, Claim, Recovery
<1> QED BY <1>1, <1>2

THEOREM LineageInvariant == Spec => []Lineage
BY OwnershipInvariant, LineageInit, LineageStep, PTL DEF Spec

\* Recovery decides each attempt at most once, although a pass works on a list
\* that was read in an earlier transaction.
THEOREM DecidedOnce == Spec => []OneDecisionPerAttempt
<1>1. Lineage => OneDecisionPerAttempt
  BY DEF Lineage
<1> QED BY <1>1, LineageInvariant, PTL

\* No second execution without a recovery decision on the first: neither a
\* restart nor a repeated submission or dispatch request starts one.
THEOREM ExecutionsAreAdmitted == Spec => []AttemptsAreAdmitted
<1>1. Lineage => AttemptsAreAdmitted
  BY DEF Lineage
<1> QED BY <1>1, LineageInvariant, PTL

-----------------------------------------------------------------------------
(* Who is responsible for work that is accepted or running.                *)

Answerable == AcceptedIsCurrent /\ RunningIsOwned

\* A step in which every operation keeps its row, or takes one that is neither
\* accepted nor running, or is accepted anew in this generation, or is begun
\* outside the queue; and in which what still runs keeps its owner.
KeepsOwners ==
  /\ generation' = generation
  /\ \A o \in Op :
       /\ \/ op'[o] = op[o]
          \/ op'[o].state \notin {"accepted", "running"}
          \/ op'[o].state = "accepted" /\ op'[o].generation = generation
          \/ op'[o].state = "running" /\ Waiting(o) /\ dispatch' = dispatch
       /\ op[o].state = "running" /\ dispatch'[o].state = "running" =>
            dispatch'[o] = dispatch[o]
       /\ op'[o].state = "running" /\ dispatch'[o].state = "running" =>
            \A n \in AttemptNo :
              /\ attempt'[o][n] = attempt[o][n]
              /\ lease'[o][n].released = lease[o][n].released

LEMMA KeepsOwnersAnswerable ==
  ASSUME Ownership, Answerable, KeepsOwners
  PROVE  Answerable'
<1>1. AcceptedIsCurrent'
  BY DEF AcceptedIsCurrent, Answerable, KeepsOwners
<1>2. RunningIsOwned'
  <2> SUFFICES ASSUME NEW o \in Op, op'[o].state = "running", dispatch'[o].state = "running"
               PROVE  /\ dispatch'[o].attempt \in Started(o)'
                      /\ attempt'[o][dispatch'[o].attempt].state = "running"
                      /\ ~lease'[o][dispatch'[o].attempt].released
                      /\ attempt'[o][dispatch'[o].attempt].generation = generation'
                      /\ op'[o].generation = generation'
    BY DEF RunningIsOwned, LiveLease
  <2>1. op'[o] = op[o]
    <3>1. Waiting(o) => dispatch[o].state # "running"
      BY DEF Ownership, WaitingIsUnowned
    <3> QED BY <3>1 DEF KeepsOwners
  <2>2. dispatch'[o] = dispatch[o]
    BY <2>1 DEF KeepsOwners
  <2>3. \A n \in AttemptNo : attempt'[o][n] = attempt[o][n]
                             /\ lease'[o][n].released = lease[o][n].released
    BY DEF KeepsOwners
  <2>4. /\ dispatch[o].attempt \in Started(o)
        /\ attempt[o][dispatch[o].attempt].state = "running"
        /\ ~lease[o][dispatch[o].attempt].released
        /\ attempt[o][dispatch[o].attempt].generation = generation
        /\ op[o].generation = generation
    BY <2>1, <2>2 DEF Answerable, RunningIsOwned, LiveLease
  <2>5. generation' = generation
    BY DEF KeepsOwners
  <2> QED BY <2>1, <2>2, <2>3, <2>4, <2>5 DEF Started
<1> QED BY <1>1, <1>2 DEF Answerable

LEMMA AnswerableInit == Init => Answerable
BY DEF Init, NoOperation, Answerable, AcceptedIsCurrent, RunningIsOwned

\* A restart accepts again, in the new generation, what was accepted, and
\* leaves nothing running.
LEMMA RestartAnswerable ==
  ASSUME TypeOK, StartRuntime
  PROVE  Answerable'
<1>1. \A o \in Op : /\ op'[o].state # "running"
                    /\ op'[o].state = "accepted" => op'[o].generation = generation + 1
  BY DEF StartRuntime, AfterRestart, Moved
<1>2. generation' = generation + 1
  BY DEF StartRuntime
<1> QED BY <1>1, <1>2 DEF Answerable, AcceptedIsCurrent, RunningIsOwned

\* claim_next makes the claimant responsible.
LEMMA ClaimAnswerable ==
  ASSUME TypeOK, Answerable, NEW o \in Op, NEW n \in AttemptNo, ClaimNext(o, n)
  PROVE  Answerable'
<1>1. generation' = generation
  BY DEF ClaimNext
<1>2. \A p \in Op \ {o} :
        /\ op'[p] = op[p] \/ op'[p].state \notin {"accepted", "running"}
        /\ dispatch'[p] = dispatch[p] \/ dispatch'[p].state # "running"
        /\ attempt'[p] = attempt[p] /\ lease'[p] = lease[p]
  <2> SUFFICES ASSUME NEW p \in Op \ {o}
               PROVE  /\ op'[p] = op[p] \/ op'[p].state \notin {"accepted", "running"}
                      /\ dispatch'[p] = dispatch[p] \/ dispatch'[p].state # "running"
                      /\ attempt'[p] = attempt[p] /\ lease'[p] = lease[p]
    OBVIOUS
  <2>1. op'[p] = PassedOp(p) /\ dispatch'[p] = PassedDispatch(p)
    BY DEF ClaimNext
  <2>2. op'[p] = op[p] \/ op'[p].state \notin {"accepted", "running"}
    BY <2>1 DEF PassedOp, Moved
  <2>3. dispatch[p] \in Dispatches
    BY DEF TypeOK
  <2>4. dispatch'[p] = dispatch[p] \/ dispatch'[p].state # "running"
    BY <2>1, <2>3 DEF PassedDispatch, Dispatches
  <2>5. attempt'[p] = attempt[p] /\ lease'[p] = lease[p]
    BY DEF ClaimNext, TypeOK
  <2> QED BY <2>2, <2>4, <2>5
<1>3. /\ op'[o].state = "running" /\ op'[o].generation = generation
      /\ attempt'[o][n] = [state |-> "running", generation |-> generation]
      /\ ~lease'[o][n].released
  BY DEF ClaimNext, Moved, TypeOK
<1>4. dispatch'[o].attempt = n
  <2>1. dispatch'[o] = [dispatch[o] EXCEPT !.state = "running", !.attempt = n]
    BY DEF ClaimNext
  <2>2. dispatch[o] \in Dispatches /\ n \in AttemptRef
    BY BoundsAssumption DEF TypeOK, AttemptNo, AttemptRef
  <2> QED BY <2>1, <2>2, DispatchClaimed
<1>5. AcceptedIsCurrent'
  BY <1>1, <1>2, <1>3 DEF Answerable, AcceptedIsCurrent
<1>6. RunningIsOwned'
  <2> SUFFICES ASSUME NEW p \in Op, op'[p].state = "running", dispatch'[p].state = "running"
               PROVE  /\ dispatch'[p].attempt \in Started(p)'
                      /\ attempt'[p][dispatch'[p].attempt].state = "running"
                      /\ ~lease'[p][dispatch'[p].attempt].released
                      /\ attempt'[p][dispatch'[p].attempt].generation = generation'
                      /\ op'[p].generation = generation'
    BY DEF RunningIsOwned, LiveLease
  <2>1. CASE p = o
    BY <2>1, <1>1, <1>3, <1>4 DEF Started
  <2>2. CASE p # o
    <3>1. /\ op'[p] = op[p] /\ dispatch'[p] = dispatch[p]
          /\ attempt'[p] = attempt[p] /\ lease'[p] = lease[p]
      BY <2>2, <1>2
    <3> QED BY <3>1, <1>1 DEF Answerable, RunningIsOwned, LiveLease, Started
  <2> QED BY <2>1, <2>2
<1> QED BY <1>5, <1>6 DEF Answerable

\* Every other step keeps the owners of what it leaves running.
LEMMA OtherStepsKeepOwners ==
  ASSUME Ownership, [Next]_vars, ~StartRuntime,
         \A o \in Op, n \in AttemptNo : ~ClaimNext(o, n)
  PROVE  KeepsOwners
<1> USE DEF Ownership
<1>a. /\ \A o \in Op : op[o] \in Operations /\ dispatch[o] \in Dispatches
      /\ \A o \in Op, n \in AttemptNo : lease[o][n] \in Leases
  BY DEF TypeOK
<1>1. CASE Tick \/ ListRecoveryCandidates \/ UNCHANGED vars
           \/ \E rest \in SUBSET scan : LeaveCandidates(rest)
  BY <1>1 DEF Tick, ListRecoveryCandidates, LeaveCandidates, vars, KeepsOwners
<1>2. CASE ClaimNothing
  <2>1. \A o \in Op :
          /\ op'[o] = op[o] \/ op'[o].state \notin {"accepted", "running"}
          /\ dispatch'[o] = dispatch[o] \/ dispatch'[o].state # "running"
    BY <1>2, <1>a DEF ClaimNothing, PassedOp, PassedDispatch, Moved, Dispatches
  <2> QED BY <2>1, <1>2 DEF ClaimNothing, KeepsOwners
<1>3. ASSUME NEW o \in Op, NEW n \in AttemptNo, Heartbeat(o, n) PROVE KeepsOwners
  <2>1. \A p \in Op, m \in AttemptNo : lease'[p][m].released = lease[p][m].released
    BY <1>3, <1>a DEF Heartbeat, TypeOK, Leases
  <2> QED BY <2>1, <1>3 DEF Heartbeat, KeepsOwners
<1>4. ASSUME NEW o \in Op, NEW n \in AttemptNo, CommitClaimed(o, n) \/ FinishAttempt(o, n)
      PROVE  KeepsOwners
  <2>1. PICK state \in Terminal \cup {"indeterminate"} :
          /\ attempt' = [attempt EXCEPT ![o][n].state = state]
          /\ lease' = [lease EXCEPT ![o][n].released = TRUE]
          /\ dispatch' = [dispatch EXCEPT ![o].state = CloseDispatch(state)]
          /\ generation' = generation
          /\ op'[o].state \notin {"accepted", "running"}
          /\ \A p \in Op \ {o} : op'[p] = op[p]
    <3>1. CASE CommitClaimed(o, n)
      <4>1. PICK state, result : /\ state \in Terminal \cup {"indeterminate"}
                                /\ TransitionClaimed(o, n, state, result)
        BY <3>1 DEF CommitClaimed
      <4>2. /\ op'[o].state \notin {"accepted", "running"}
            /\ \A p \in Op \ {o} : op'[p] = op[p]
        BY <4>1 DEF TransitionClaimed, TypeOK, Moved, Terminal
      <4> QED BY <4>1, <4>2 DEF TransitionClaimed
    <3>2. CASE FinishAttempt(o, n)
      BY <3>2 DEF FinishAttempt, Terminal
    <3> QED BY <1>4, <3>1, <3>2
  <2>2. \A p \in Op \ {o} : /\ dispatch'[p] = dispatch[p]
                            /\ attempt'[p] = attempt[p] /\ lease'[p] = lease[p]
    BY <2>1 DEF TypeOK
  <2>3. dispatch'[o].state # "running"
    BY <2>1, <1>a DEF CloseDispatch, Dispatches, TypeOK
  <2> QED BY <2>1, <2>2, <2>3 DEF KeepsOwners
<1>5. ASSUME NEW o \in Op, Caller(o) PROVE KeepsOwners
  <2>0. generation' = generation /\ attempt' = attempt /\ lease' = lease
    BY <1>5 DEF Caller, Accept, BindRecoveryPolicy, RequestDispatch, Begin, Succeed,
                Fail, Cancel, TimeOut, MarkIndeterminate, Transition, RequestCancel,
                CancelQueuedDispatch
  <2>1. ASSUME NEW deadline \in Deadlines, Accept(o, deadline) PROVE KeepsOwners
    BY <2>0, <2>1 DEF Accept, TypeOK, KeepsOwners
  <2>2. CASE BindRecoveryPolicy(o) \/ RequestCancel(o)
    BY <2>0, <2>2 DEF BindRecoveryPolicy, RequestCancel, KeepsOwners
  <2>3. CASE RequestDispatch(o)
    <3>1. \A p \in Op : dispatch'[p] = dispatch[p] \/ dispatch'[p].state # "running"
      BY <2>3, <1>a, DispatchQueued DEF RequestDispatch, TypeOK
    <3> QED BY <2>0, <2>3, <3>1 DEF RequestDispatch, KeepsOwners
  <2>4. CASE Begin(o) \/ Succeed(o) \/ Fail(o) \/ Cancel(o) \/ TimeOut(o)
             \/ MarkIndeterminate(o)
    <3>1. dispatch' = dispatch
      BY <2>4 DEF Begin, Succeed, Fail, Cancel, TimeOut, MarkIndeterminate, Transition
    <3>2. PICK state, result :
            /\ op' = [op EXCEPT ![o] = Moved(op[o], state, generation, result)]
            /\ state # "accepted"
            /\ state = "running" => Waiting(o)
      BY <2>4 DEF Begin, Succeed, Fail, Cancel, TimeOut, MarkIndeterminate, Transition,
                  Movable, Waiting
    <3>3. /\ \A p \in Op \ {o} : op'[p] = op[p]
          /\ op'[o].state = state
      BY <3>2 DEF TypeOK, Moved
    <3> QED BY <2>0, <3>1, <3>2, <3>3 DEF KeepsOwners
  <2>5. CASE CancelQueuedDispatch(o)
    <3>1. \A p \in Op :
            /\ op'[p] = op[p] \/ op'[p].state \notin {"accepted", "running"}
            /\ dispatch'[p] = dispatch[p] \/ dispatch'[p].state # "running"
      BY <2>5, <1>a DEF CancelQueuedDispatch, TypeOK, Dispatches, Moved
    <3> QED BY <2>0, <3>1 DEF KeepsOwners
  <2> QED BY <1>5, <2>1, <2>2, <2>3, <2>4, <2>5 DEF Caller
<1>6. CASE FenceExpiredAttempts
  <2>1. \A o \in Op :
          \/ ~LeaseLost(o) /\ op'[o] = op[o]
          \/ LeaseLost(o) /\ op'[o].state \notin {"accepted", "running"}
    BY <1>6 DEF FenceExpiredAttempts, Moved
  <2>2. \A o \in Op, n \in AttemptNo : ~LeaseLost(o) =>
          attempt'[o][n] = attempt[o][n] /\ lease'[o][n] = lease[o][n]
    BY <1>6 DEF FenceExpiredAttempts, FencedAttempt
  <2> QED BY <2>1, <2>2, <1>6 DEF FenceExpiredAttempts, KeepsOwners
<1>7. ASSUME NEW o \in Op, Requeue(o) PROVE KeepsOwners
  <2>1. PICK kind \in {"successor", "park"}, bound \in BOOLEAN :
          RequeueIndeterminate(o, kind, bound)
    BY <1>7 DEF Requeue
  <2>2. \A p \in Op \ {o} : /\ op'[p] = op[p] /\ dispatch'[p] = dispatch[p]
                            /\ attempt'[p] = attempt[p] /\ lease'[p] = lease[p]
    BY <2>1 DEF RequeueIndeterminate, TypeOK
  <2>3. /\ op[o].state = "indeterminate"
        /\ \/ op'[o] = op[o]
           \/ op'[o].state = "accepted" /\ op'[o].generation = generation
    BY <2>1 DEF RequeueIndeterminate, TypeOK, Moved
  <2>4. generation' = generation
    BY <2>1 DEF RequeueIndeterminate
  <2> QED BY <2>2, <2>3, <2>4 DEF KeepsOwners
<1>8. ASSUME NEW o \in Op, NEW state \in {"succeeded", "cancelled", "timed_out"},
             RecoverTerminalFromReceipt(o, state)
      PROVE  KeepsOwners
  <2>1. \A p \in Op \ {o} : /\ op'[p] = op[p] /\ dispatch'[p] = dispatch[p]
                            /\ attempt'[p] = attempt[p] /\ lease'[p] = lease[p]
    BY <1>8 DEF RecoverTerminalFromReceipt, TypeOK
  <2>2. op[o].state = "indeterminate" /\ op'[o].state \notin {"accepted", "running"}
    BY <1>8 DEF RecoverTerminalFromReceipt, TypeOK, Moved
  <2>3. generation' = generation
    BY <1>8 DEF RecoverTerminalFromReceipt
  <2> QED BY <2>1, <2>2, <2>3 DEF KeepsOwners
<1> QED
  BY <1>1, <1>2, <1>3, <1>4, <1>5, <1>6, <1>7, <1>8
  DEF Next, Claim, Claimant, Recovery

LEMMA AnswerableStep == Ownership /\ Answerable /\ [Next]_vars => Answerable'
<1> SUFFICES ASSUME Ownership, Answerable, [Next]_vars PROVE Answerable'
  OBVIOUS
<1>1. CASE StartRuntime
  BY <1>1, RestartAnswerable DEF Ownership
<1>2. CASE \E o \in Op, n \in AttemptNo : ClaimNext(o, n)
  BY <1>2, ClaimAnswerable DEF Ownership
<1>3. CASE ~StartRuntime /\ \A o \in Op, n \in AttemptNo : ~ClaimNext(o, n)
  BY <1>3, OtherStepsKeepOwners, KeepsOwnersAnswerable
<1> QED BY <1>1, <1>2, <1>3

LEMMA AnswerableInvariant == Spec => []Answerable
BY OwnershipInvariant, AnswerableInit, AnswerableStep, PTL DEF Spec

\* Whatever put it back, accepted work belongs to the running generation, so
\* that its callers are not refused for a generation that is gone.
THEOREM AcceptedWorkIsCurrent == Spec => []AcceptedIsCurrent
<1>1. Answerable => AcceptedIsCurrent
  BY DEF Answerable
<1> QED BY <1>1, AnswerableInvariant, PTL

\* Dispatched work that runs has an owner of this generation with an unreleased
\* lease: expiry or restart can take it from a worker that is gone.
THEOREM RunningWorkIsOwned == Spec => []RunningIsOwned
<1>1. Answerable => RunningIsOwned
  BY DEF Answerable
<1> QED BY <1>1, AnswerableInvariant, PTL

-----------------------------------------------------------------------------
(* Finality.                                                               *)

LEMMA TerminalStep ==
  TypeOK /\ [Next]_vars => [\A o \in Op : op[o].state \in Terminal => op'[o] = op[o]]_vars
<1> SUFFICES ASSUME TypeOK, [Next]_vars, NEW o \in Op, op[o].state \in Terminal
             PROVE  op'[o] = op[o]
  OBVIOUS
<1> USE DEF Terminal
<1>1. CASE Tick \/ ListRecoveryCandidates \/ UNCHANGED vars
           \/ \E rest \in SUBSET scan : LeaveCandidates(rest)
  BY <1>1 DEF Tick, ListRecoveryCandidates, LeaveCandidates, vars
<1>2. CASE StartRuntime
  BY <1>2 DEF StartRuntime, AfterRestart
<1>3. CASE ClaimNothing
  BY <1>3 DEF ClaimNothing, PassedOp
<1>4. ASSUME NEW p \in Op, NEW n \in AttemptNo, ClaimNext(p, n) PROVE op'[o] = op[o]
  BY <1>4 DEF ClaimNext, Claimable, PassedOp
<1>5. ASSUME NEW p \in Op, NEW n \in AttemptNo,
             Heartbeat(p, n) \/ CommitClaimed(p, n) \/ FinishAttempt(p, n)
      PROVE  op'[o] = op[o]
  BY <1>5 DEF Heartbeat, CommitClaimed, TransitionClaimed, FinishAttempt, TypeOK
<1>6. ASSUME NEW p \in Op, Caller(p) PROVE op'[o] = op[o]
  BY <1>6 DEF Caller, Accept, BindRecoveryPolicy, RequestDispatch, Begin, Succeed, Fail,
              Cancel, TimeOut, MarkIndeterminate, Transition, Movable, RequestCancel,
              CancelQueuedDispatch, Dequeuable, TypeOK
<1>7. CASE FenceExpiredAttempts
  BY <1>7 DEF FenceExpiredAttempts, LeaseLost
<1>8. ASSUME NEW p \in Op, Requeue(p) PROVE op'[o] = op[o]
  BY <1>8 DEF Requeue, RequeueIndeterminate, TypeOK
<1>9. ASSUME NEW p \in Op, NEW state, RecoverTerminalFromReceipt(p, state)
      PROVE  op'[o] = op[o]
  BY <1>9 DEF RecoverTerminalFromReceipt, TypeOK
<1> QED
  BY <1>1, <1>2, <1>3, <1>4, <1>5, <1>6, <1>7, <1>8, <1>9
  DEF Next, Claim, Claimant, Recovery

\* What a caller was told about a settled operation stays true: no late commit,
\* cancellation, expiry, recovery or restart rewrites a terminal row.
THEOREM Finality == Spec => TerminalIsFinal
BY TypeCorrect, TerminalStep, PTL DEF Spec, TerminalIsFinal

-----------------------------------------------------------------------------
(* The policy's bound.  Attempts are numbered without gaps, each but the   *)
(* first spends a successor decision, and only an admitted one waits.      *)

Spent(o) == Cardinality(SuccessorDecisions(o))

AttemptsAreNumbered == \A o \in Op : Started(o) = 1..dispatch[o].attempt

AttemptsAreSpent ==
  \A o \in Op :
    /\ dispatch[o].attempt <= Spent(o) + 1
    /\ op[o].state = "accepted" /\ dispatch[o].attempt # 0 => dispatch[o].attempt <= Spent(o)

\* Nothing is decided about an operation that was never dispatched.
UndispatchedIsUndecided ==
  \A o \in Op : dispatch[o].state = "absent" => decisions[o] = <<>> /\ o \notin scan

PolicyIsKept == \A o \in Op : policy[o] => Spent(o) <= MaxSuccessors

Budget ==
  AttemptsAreNumbered /\ AttemptsAreSpent /\ UndispatchedIsUndecided /\ PolicyIsKept

LEMMA SpentIsNat ==
  ASSUME TypeOK, NEW o \in Op
  PROVE  IsFiniteSet(SuccessorDecisions(o)) /\ Spent(o) \in Nat
<1>1. decisions[o] \in Seq(Decisions)
  BY DEF TypeOK
<1>2. DOMAIN decisions[o] = 1..Len(decisions[o]) /\ Len(decisions[o]) \in Nat
  BY <1>1
<1>3. IsFiniteSet(1..Len(decisions[o]))
  BY <1>2, FS_Interval
<1>4. SuccessorDecisions(o) \in SUBSET (1..Len(decisions[o]))
  BY <1>2 DEF SuccessorDecisions
<1> QED BY <1>3, <1>4, FS_Subset, FS_CardinalityType DEF Spent

\* A decision spends one successor, or none.
LEMMA DecisionSpends ==
  ASSUME TypeOK, NEW o \in Op, NEW kind \in {"successor", "park", "receipt"}, Decided(o, kind)
  PROVE  /\ Spent(o)' = IF kind = "successor" THEN Spent(o) + 1 ELSE Spent(o)
         /\ \A p \in Op \ {o} : decisions'[p] = decisions[p]
<1> DEFINE new == [kind |-> kind, prior |-> dispatch[o].attempt]
           length == Len(decisions[o])
<1>1. decisions[o] \in Seq(Decisions) /\ new \in Decisions
  BY DEF TypeOK, Decisions, Dispatches
<1>2. decisions'[o] = Append(decisions[o], new) /\ \A p \in Op \ {o} : decisions'[p] = decisions[p]
  BY DEF Decided, TypeOK
<1> HIDE DEF new
<1>3. /\ length \in Nat /\ DOMAIN decisions[o] = 1..length
      /\ DOMAIN decisions'[o] = 1..(length + 1)
      /\ \A i \in 1..length : decisions'[o][i] = decisions[o][i]
      /\ decisions'[o][length + 1] = new
  BY <1>1, <1>2
<1> HIDE DEF length
<1>4. SuccessorDecisions(o)' =
        IF kind = "successor" THEN SuccessorDecisions(o) \cup {length + 1} ELSE SuccessorDecisions(o)
  BY <1>3 DEF SuccessorDecisions, new
<1>5. length + 1 \notin SuccessorDecisions(o)
  BY <1>3 DEF SuccessorDecisions
<1>6. IsFiniteSet(SuccessorDecisions(o))
  BY SpentIsNat
<1>7. Cardinality(SuccessorDecisions(o) \cup {length + 1}) = Cardinality(SuccessorDecisions(o)) + 1
  BY <1>5, <1>6, FS_AddElement
<1> QED BY <1>2, <1>4, <1>7 DEF Spent

LEMMA BudgetInit == Init => Budget
<1> SUFFICES ASSUME Init PROVE Budget
  OBVIOUS
<1>1. \A o \in Op : /\ decisions[o] = <<>> /\ Started(o) = {} /\ dispatch[o].attempt = 0
                    /\ op[o].state = "absent" /\ ~policy[o]
  BY DEF Init, Started, NoAttempt, NoOperation, NoDispatch
<1>2. \A o \in Op : SuccessorDecisions(o) = {}
  <2>1. DOMAIN << >> = {}
    OBVIOUS
  <2> QED BY <2>1, <1>1 DEF SuccessorDecisions
<1>3. \A o \in Op : Spent(o) = 0
  BY <1>2, FS_EmptySet DEF Spent
<1>4. scan = {} /\ 1..0 = {}
  BY DEF Init
<1>5. AttemptsAreNumbered
  BY <1>1, <1>4 DEF AttemptsAreNumbered
<1>6. AttemptsAreSpent
  BY <1>1, <1>3 DEF AttemptsAreSpent
<1>7. UndispatchedIsUndecided /\ PolicyIsKept
  BY <1>1, <1>4 DEF UndispatchedIsUndecided, PolicyIsKept
<1> QED BY <1>5, <1>6, <1>7 DEF Budget

\* A step that decides nothing, starts nothing and makes nothing wait that has
\* an attempt; a policy is bound before the first dispatch.
Frugal ==
  /\ decisions' = decisions
  /\ \A o \in Op :
       /\ op'[o].state = "accepted" => op[o].state = "accepted" \/ dispatch[o].attempt = 0
       /\ policy'[o] => policy[o] \/ dispatch[o].state = "absent"
       /\ dispatch'[o].state = "absent" => dispatch[o].state = "absent"
       /\ o \in scan' => o \in scan \/ dispatch[o].state # "absent"

LEMMA FrugalBudget ==
  ASSUME TypeOK, Budget, Undisturbed, Frugal
  PROVE  Budget'
<1>1. \A o \in Op : Started(o)' = Started(o) /\ dispatch'[o].attempt = dispatch[o].attempt
  BY DEF Undisturbed, Started
<1>2. \A o \in Op : Spent(o)' = Spent(o)
  BY DEF Frugal, Spent, SuccessorDecisions
<1>3. \A o \in Op : decisions[o] = <<>> => Spent(o) = 0
  BY FS_EmptySet DEF Spent, SuccessorDecisions
<1>4. AttemptsAreNumbered' /\ AttemptsAreSpent'
  BY <1>1, <1>2 DEF Budget, AttemptsAreNumbered, AttemptsAreSpent, Frugal
<1>5. UndispatchedIsUndecided'
  BY DEF Budget, UndispatchedIsUndecided, Frugal
<1>6. PolicyIsKept'
  BY <1>2, <1>3, BoundsAssumption
  DEF Budget, PolicyIsKept, UndispatchedIsUndecided, Frugal
<1> QED BY <1>4, <1>5, <1>6 DEF Budget

LEMMA ClaimBudget ==
  ASSUME Ownership, TypeOK', Budget, NEW o \in Op, NEW n \in AttemptNo, ClaimNext(o, n)
  PROVE  Budget'
<1> USE DEF Ownership, Budget
<1>1. /\ n \in Nat /\ n >= 1 /\ dispatch[o].attempt = n - 1
      /\ \A p \in Op : Spent(p) \in Nat
  <2>1. IsLatest(o, dispatch[o].attempt) /\ IsLatest(o, n - 1)
    BY DEF CurrentIsLatest, ClaimNext
  <2>2. /\ \A m \in Started(o) : m \in Int
        /\ n \in Nat /\ n >= 1 /\ dispatch[o].attempt \in Nat
    BY BoundsAssumption DEF Started, AttemptNo, AttemptRef, TypeOK, Dispatches
  <2> QED BY <2>1, <2>2, SpentIsNat DEF IsLatest
<1>2. /\ dispatch'[o].attempt = n /\ dispatch'[o].state = "running"
      /\ \A p \in Op \ {o} : /\ dispatch'[p].attempt = dispatch[p].attempt
                             /\ dispatch'[p].state = "absent" => dispatch[p].state = "absent"
  <2>1. dispatch'[o] = [dispatch[o] EXCEPT !.state = "running", !.attempt = n]
    BY DEF ClaimNext
  <2>2. dispatch[o] \in Dispatches /\ n \in AttemptRef
    BY <1>1, BoundsAssumption DEF TypeOK, AttemptNo, AttemptRef
  <2>3. \A p \in Op \ {o} : dispatch'[p] = PassedDispatch(p)
    BY DEF ClaimNext
  <2>4. dispatch'[o].attempt = n /\ dispatch'[o].state = "running"
    BY <2>1, <2>2 DEF Dispatches
  <2>5. \A p \in Op \ {o} : PassedDispatch(p).state = "absent" => dispatch[p].state = "absent"
    BY DEF PassedDispatch, TypeOK, Dispatches
  <2> QED BY <2>3, <2>4, <2>5, PassedRows
<1>3. UNCHANGED <<decisions, scan, policy>>
  BY DEF ClaimNext
<1>4. \A p \in Op : Spent(p)' = Spent(p)
  BY <1>3 DEF Spent, SuccessorDecisions
<1>5. /\ op[o].state = "accepted" /\ op'[o].state # "accepted"
      /\ \A p \in Op \ {o} : op'[p].state = "accepted" => op[p].state = "accepted"
  BY DEF ClaimNext, Claimable, Moved, PassedOp
<1>6. /\ Started(o)' = Started(o) \cup {n}
      /\ \A p \in Op \ {o} : Started(p)' = Started(p)
  <2>1. \A p \in Op, m \in AttemptNo : attempt'[p][m] =
          IF p = o /\ m = n THEN [state |-> "running", generation |-> generation]
                            ELSE attempt[p][m]
    BY DEF ClaimNext, TypeOK
  <2> QED BY <2>1 DEF Started
<1>7. AttemptsAreNumbered'
  <2>1. 1..n = 1..(n - 1) \cup {n}
    BY <1>1
  <2> QED BY <2>1, <1>1, <1>2, <1>6 DEF AttemptsAreNumbered
<1>8. AttemptsAreSpent'
  <2>1. n <= Spent(o) + 1
    BY <1>1, <1>5 DEF AttemptsAreSpent
  <2> QED BY <2>1, <1>2, <1>4, <1>5 DEF AttemptsAreSpent
<1>9. UndispatchedIsUndecided' /\ PolicyIsKept'
  BY <1>2, <1>3, <1>4 DEF UndispatchedIsUndecided, PolicyIsKept
<1> QED BY <1>7, <1>8, <1>9

\* A decision: a successor is spent before its operation waits again.
LEMMA DecidingBudget ==
  ASSUME TypeOK, Budget, Undisturbed,
         NEW o \in Op, NEW kind \in {"successor", "park", "receipt"},
         o \in scan, Decided(o, kind), scan' = scan \ {o}, policy' = policy,
         kind = "successor" /\ policy[o] => Spent(o) < MaxSuccessors,
         op[o].state = "indeterminate",
         \A p \in Op : op'[p].state = "accepted" =>
           op[p].state = "accepted" \/ (p = o /\ kind = "successor"),
         \A p \in Op : dispatch'[p].state = "absent" => dispatch[p].state = "absent"
  PROVE  Budget'
<1> USE DEF Budget
<1>1. \A p \in Op : Started(p)' = Started(p) /\ dispatch'[p].attempt = dispatch[p].attempt
  BY DEF Undisturbed, Started
<1>2. /\ \A p \in Op \ {o} : Spent(p)' = Spent(p) /\ decisions'[p] = decisions[p]
      /\ Spent(o)' = IF kind = "successor" THEN Spent(o) + 1 ELSE Spent(o)
      /\ Spent(o) \in Nat
  BY DecisionSpends, SpentIsNat DEF Spent, SuccessorDecisions
<1>3. \A p \in Op : dispatch[p].attempt \in Nat
  BY BoundsAssumption DEF TypeOK, Dispatches, AttemptRef
<1>4. AttemptsAreNumbered'
  BY <1>1 DEF AttemptsAreNumbered
<1>5. AttemptsAreSpent'
  BY <1>1, <1>2, <1>3 DEF AttemptsAreSpent
<1>6. UndispatchedIsUndecided'
  BY <1>2 DEF UndispatchedIsUndecided
<1>7. PolicyIsKept'
  BY <1>2, BoundsAssumption DEF PolicyIsKept
<1> QED BY <1>4, <1>5, <1>6, <1>7

LEMMA BudgetStep == Ownership /\ Budget /\ [Next]_vars => Budget'
<1> SUFFICES ASSUME Ownership, Budget, [Next]_vars PROVE Budget'
  OBVIOUS
<1>0. TypeOK /\ TypeOK'
  BY TypeStep DEF Ownership
<1>d. \A o \in Op : dispatch[o] \in Dispatches
  BY <1>0 DEF TypeOK
<1>1. CASE \E o \in Op, n \in AttemptNo : ClaimNext(o, n)
  BY <1>0, <1>1, ClaimBudget
<1>2. CASE \A o \in Op, n \in AttemptNo : ~ClaimNext(o, n)
  <2>1. Undisturbed
    BY <1>0, <1>2, OtherStepsUndisturbed
  <2>2. ASSUME NEW o \in Op, Requeue(o) PROVE Budget'
    <3>1. PICK kind \in {"successor", "park"}, bound \in BOOLEAN :
            RequeueIndeterminate(o, kind, bound) /\ (~bound => ~policy[o])
      BY <2>2 DEF Requeue
    <3>2. /\ o \in scan /\ Decided(o, kind) /\ scan' = scan \ {o} /\ policy' = policy
          /\ op[o].state = "indeterminate"
      BY <3>1 DEF RequeueIndeterminate
    <3>3. \A p \in Op : op'[p].state = "accepted" =>
            op[p].state = "accepted" \/ (p = o /\ kind = "successor")
      BY <3>1, <1>0 DEF RequeueIndeterminate, TypeOK
    <3>4. kind = "successor" /\ policy[o] => Spent(o) < MaxSuccessors
      BY <3>1 DEF RequeueIndeterminate, SuccessorAllowed, Spent
    <3>5. \A p \in Op : dispatch'[p].state = "absent" => dispatch[p].state = "absent"
      <4>1. \/ dispatch' = [dispatch EXCEPT ![o].state = "queued", ![o].queuedAt = now]
            \/ dispatch' = [dispatch EXCEPT ![o].state = "parked"]
        BY <3>1 DEF RequeueIndeterminate
      <4>2. \A p \in Op \ {o} : dispatch'[p] = dispatch[p]
        BY <4>1, <1>0 DEF TypeOK
      <4>3. dispatch'[o].state # "absent"
        <5>1. \/ dispatch'[o] = [dispatch[o] EXCEPT !.state = "queued", !.queuedAt = now]
              \/ dispatch'[o] = [dispatch[o] EXCEPT !.state = "parked"]
          BY <4>1, <1>0 DEF TypeOK
        <5>2. dispatch[o] \in Dispatches /\ now \in Nat /\ "parked" \in DispatchStates
          BY <1>0 DEF TypeOK, DispatchStates
        <5> QED BY <5>1, <5>2 DEF Dispatches
      <4> QED BY <4>2, <4>3
    <3> QED BY <3>2, <3>3, <3>4, <3>5, <2>1, <1>0, DecidingBudget
  <2>3. ASSUME NEW o \in Op, NEW state \in {"succeeded", "cancelled", "timed_out"},
               RecoverTerminalFromReceipt(o, state)
        PROVE  Budget'
    <3>1. /\ o \in scan /\ Decided(o, "receipt") /\ scan' = scan \ {o} /\ policy' = policy
          /\ op[o].state = "indeterminate"
      BY <2>3 DEF RecoverTerminalFromReceipt
    <3>2. \A p \in Op : op'[p].state = "accepted" => op[p].state = "accepted"
      BY <2>3, <1>0 DEF RecoverTerminalFromReceipt, TypeOK, Moved
    <3>3. \A p \in Op : dispatch'[p].state = "absent" => dispatch[p].state = "absent"
      BY <2>3, <1>0, <1>d DEF RecoverTerminalFromReceipt, TypeOK, Dispatches
    <3> QED BY <3>1, <3>2, <3>3, <2>1, <1>0, DecidingBudget
  <2>a. \A o \in Op : op[o].state = "absent" => dispatch[o].attempt = 0
    BY DEF Ownership, WaitingIsUnowned, Waiting
  <2>4. ASSUME Tick \/ UNCHANGED vars \/ \E rest \in SUBSET scan : LeaveCandidates(rest)
        PROVE  Frugal
    BY <2>4, <1>0 DEF Tick, vars, LeaveCandidates, Frugal
  <2>5. ASSUME ListRecoveryCandidates PROVE Frugal
    BY <2>5, <1>0 DEF ListRecoveryCandidates, IsCandidate, Frugal
  <2>6. ASSUME StartRuntime PROVE Frugal
    BY <2>6 DEF StartRuntime, AfterRestart, Moved, Frugal
  <2>7. ASSUME ClaimNothing PROVE Frugal
    BY <2>7, <1>d DEF ClaimNothing, PassedOp, PassedDispatch, Dispatches, Moved, Frugal
  <2>8. ASSUME NEW o \in Op, Claimant(o) PROVE Frugal
    <3>1. UNCHANGED <<decisions, scan, policy>>
      BY <2>8 DEF Claimant, Heartbeat, CommitClaimed, TransitionClaimed, FinishAttempt
    <3>2. \A p \in Op : op'[p].state = "accepted" => op[p].state = "accepted"
      BY <2>8, <1>0 DEF Claimant, Heartbeat, CommitClaimed, TransitionClaimed,
                        FinishAttempt, Moved, Terminal, TypeOK
    <3>3. \A p \in Op : dispatch'[p].state = "absent" => dispatch[p].state = "absent"
      <4>1. PICK n \in AttemptNo : Heartbeat(o, n) \/ CommitClaimed(o, n) \/ FinishAttempt(o, n)
        BY <2>8 DEF Claimant
      <4>2. \/ dispatch' = dispatch
            \/ \E s : dispatch' = [dispatch EXCEPT ![o].state = CloseDispatch(s)]
        BY <4>1 DEF Heartbeat, CommitClaimed, TransitionClaimed, FinishAttempt
      <4> QED BY <4>2, <1>0, <1>d DEF CloseDispatch, TypeOK, Dispatches
    <3> QED BY <3>1, <3>2, <3>3 DEF Frugal
  <2>9. ASSUME NEW o \in Op, Caller(o) PROVE Frugal
    <3>1. UNCHANGED <<decisions, scan>>
      BY <2>9 DEF Caller, Accept, BindRecoveryPolicy, RequestDispatch, Begin, Succeed, Fail,
                  Cancel, TimeOut, MarkIndeterminate, Transition, RequestCancel,
                  CancelQueuedDispatch
    <3>2. CASE \E deadline \in Deadlines : Accept(o, deadline)
      BY <3>1, <3>2, <2>a, <1>0 DEF Accept, TypeOK, Frugal
    <3>3. CASE BindRecoveryPolicy(o) \/ RequestCancel(o)
      BY <3>1, <3>3, <1>0 DEF BindRecoveryPolicy, RequestCancel, TypeOK, Frugal
    <3>4. CASE RequestDispatch(o)
      <4>1. dispatch' = [dispatch EXCEPT ![o].state = "queued", ![o].queuedAt = now]
            /\ op' = op /\ policy' = policy
        BY <3>4 DEF RequestDispatch
      <4>2. \A p \in Op \ {o} : dispatch'[p] = dispatch[p]
        BY <4>1, <1>0 DEF TypeOK
      <4>3. dispatch'[o].state # "absent"
        <5>1. dispatch'[o] = [dispatch[o] EXCEPT !.state = "queued", !.queuedAt = now]
          BY <4>1, <1>0 DEF TypeOK
        <5>2. dispatch[o] \in Dispatches /\ now \in Nat
          BY <1>0 DEF TypeOK
        <5> QED BY <5>1, <5>2 DEF Dispatches
      <4> QED BY <3>1, <4>1, <4>2, <4>3 DEF Frugal
    <3>5. CASE Begin(o) \/ Succeed(o) \/ Fail(o) \/ Cancel(o) \/ TimeOut(o)
               \/ MarkIndeterminate(o)
      <4>1. PICK state, result : /\ state # "accepted"
                                 /\ op' = [op EXCEPT ![o] = Moved(op[o], state, generation, result)]
        BY <3>5 DEF Begin, Succeed, Fail, Cancel, TimeOut, MarkIndeterminate, Transition
      <4>2. UNCHANGED <<dispatch, policy>>
        BY <3>5 DEF Begin, Succeed, Fail, Cancel, TimeOut, MarkIndeterminate, Transition
      <4> QED BY <3>1, <4>1, <4>2, <1>0 DEF Moved, TypeOK, Frugal
    <3>6. CASE CancelQueuedDispatch(o)
      BY <3>1, <3>6, <1>0, <1>d DEF CancelQueuedDispatch, Moved, TypeOK, Dispatches, Frugal
    <3> QED BY <2>9, <3>2, <3>3, <3>4, <3>5, <3>6 DEF Caller
  <2>10. ASSUME FenceExpiredAttempts PROVE Frugal
    BY <2>10, <1>0 DEF FenceExpiredAttempts, Moved, TypeOK, Frugal
  <2>11. Frugal => Budget'
    BY <2>1, <1>0, FrugalBudget
  <2> QED
    BY <1>2, <2>2, <2>3, <2>4, <2>5, <2>6, <2>7, <2>8, <2>9, <2>10, <2>11
    DEF Next, Claim, Recovery
<1> QED BY <1>1, <1>2

LEMMA BudgetInvariant == Spec => []Budget
BY OwnershipInvariant, BudgetInit, BudgetStep, PTL DEF Spec

\* How many attempts an operation has had is the number of its current one.
LEMMA OwnersAreCounted ==
  ASSUME TypeOK, Budget, NEW o \in Op
  PROVE  Cardinality(Started(o)) = dispatch[o].attempt /\ dispatch[o].attempt \in Nat
<1> DEFINE n == dispatch[o].attempt
<1>1. n \in Nat
  BY BoundsAssumption DEF TypeOK, Dispatches, AttemptRef
<1>2. Started(o) = 1..n
  BY DEF Budget, AttemptsAreNumbered
<1> HIDE DEF n
<1>3. Cardinality(1..n) = IF 1 > n THEN 0 ELSE n - 1 + 1
  BY <1>1, FS_Interval
<1>4. Cardinality(1..n) = n
  BY <1>1, <1>3
<1> QED BY <1>1, <1>2, <1>4 DEF n

\* A bound recovery policy limits the executions of its operation, over any
\* number of restarts, expiries and requests to dispatch it again.
THEOREM PolicyLimitsExecutions == Spec => []ExecutionsWithinPolicy
<1>1. TypeOK /\ Budget => ExecutionsWithinPolicy
  <2> SUFFICES ASSUME TypeOK, Budget, NEW o \in Op, policy[o]
               PROVE  Cardinality(Started(o)) <= MaxSuccessors + 1
    BY DEF ExecutionsWithinPolicy
  <2>1. Spent(o) \in Nat
    BY SpentIsNat
  <2> QED BY <2>1, OwnersAreCounted, BoundsAssumption
          DEF Budget, AttemptsAreSpent, PolicyIsKept
<1> QED BY <1>1, BudgetInvariant, TypeCorrect, PTL

-----------------------------------------------------------------------------
(* The refinement: a registry transaction is one combination of the        *)
(* lifecycle's moves.                                                      *)

\* What a transaction may make of an operation's row.
Progress(o) ==
  \/ op'[o].state = op[o].state /\ (op[o].state = "succeeded" => op'[o] = op[o])
  \/ op[o].state = "absent" /\ op'[o].state = "accepted"
  \/ op[o].state = "accepted" /\ op'[o].state = "running"
  \/ op[o].state = "running" /\ op'[o].state = "indeterminate"
  \/ op[o].state = "indeterminate" /\ op'[o].state = "accepted"
  \/ /\ op[o].state \in {"running", "indeterminate"}
     /\ op'[o].state = "succeeded"
     /\ op'[o].result.by \in {0, dispatch[o].attempt}
  \/ /\ op[o].state \in {"accepted", "running", "indeterminate"}
     /\ op'[o].state \in {"failed", "cancelled", "timed_out"}

\* A transition outside a claim names no attempt in its result.
LEMMA CallerProgress ==
  ASSUME TypeOK, NEW p \in Op, Caller(p), NEW o \in Op
  PROVE  Progress(o)
<1>1. \A q \in Op \ {p} : op'[q] = op[q]
  BY DEF Caller, Accept, BindRecoveryPolicy, RequestDispatch, Begin, Succeed, Fail, Cancel,
         TimeOut, MarkIndeterminate, Transition, RequestCancel, CancelQueuedDispatch, TypeOK
<1>2. ASSUME o = p PROVE Progress(o)
  <2>1. ASSUME NEW deadline \in Deadlines, Accept(p, deadline) PROVE Progress(o)
    BY <1>2, <2>1 DEF Accept, TypeOK, Progress
  <2>2. CASE BindRecoveryPolicy(p) \/ RequestDispatch(p) \/ RequestCancel(p)
    BY <2>2 DEF BindRecoveryPolicy, RequestDispatch, RequestCancel, Progress
  <2>3. CASE Begin(p) \/ Fail(p) \/ Cancel(p) \/ TimeOut(p) \/ MarkIndeterminate(p)
    BY <1>2, <2>3 DEF Begin, Fail, Cancel, TimeOut, MarkIndeterminate, Transition, Movable,
                      Moved, TypeOK, Progress
  <2>4. CASE Succeed(p)
    BY <1>2, <2>4 DEF Succeed, InlineResult, Transition, Movable, Moved, TypeOK, Progress
  <2>5. CASE CancelQueuedDispatch(p)
    BY <1>2, <2>5 DEF CancelQueuedDispatch, Dequeuable, Moved, TypeOK, Progress
  <2> QED BY <2>1, <2>2, <2>3, <2>4, <2>5 DEF Caller
<1> QED BY <1>1, <1>2 DEF Progress

\* An attempt that commits success is the one its operation is dispatched to.
LEMMA ClaimantProgress ==
  ASSUME TypeOK, NEW p \in Op, Claimant(p), NEW o \in Op
  PROVE  Progress(o)
<1>1. PICK n \in AttemptNo : Heartbeat(p, n) \/ CommitClaimed(p, n) \/ FinishAttempt(p, n)
  BY DEF Claimant
<1>2. CASE Heartbeat(p, n) \/ FinishAttempt(p, n)
  BY <1>2 DEF Heartbeat, FinishAttempt, Progress
<1>3. CASE CommitClaimed(p, n)
  <2>1. PICK state, result :
          /\ state \in Terminal \cup {"indeterminate"}
          /\ state = "succeeded" => result = AttemptResult(n)
          /\ TransitionClaimed(p, n, state, result)
    BY <1>3 DEF CommitClaimed
  <2>2. CASE o = p
    <3>1. /\ op[o].state = "running" /\ dispatch[o].attempt = n
          /\ op'[o] = Moved(op[o], state, op[o].generation, result)
      BY <2>1, <2>2 DEF TransitionClaimed, FenceValid, TypeOK
    <3> QED BY <2>1, <3>1 DEF Moved, AttemptResult, Terminal, Progress
  <2>3. CASE o # p
    BY <2>1, <2>3 DEF TransitionClaimed, TypeOK, Progress
  <2> QED BY <2>2, <2>3
<1> QED BY <1>1, <1>2, <1>3

LEMMA StepProgresses ==
  ASSUME TypeOK, [Next]_vars, NEW o \in Op
  PROVE  Progress(o)
<1>1. CASE Tick \/ ListRecoveryCandidates \/ UNCHANGED vars
           \/ \E rest \in SUBSET scan : LeaveCandidates(rest)
  BY <1>1 DEF Tick, ListRecoveryCandidates, LeaveCandidates, vars, Progress
<1>2. CASE StartRuntime
  BY <1>2 DEF StartRuntime, AfterRestart, Moved, Progress
<1>3. CASE ClaimNothing
  BY <1>3 DEF ClaimNothing, PassedOp, Moved, Progress
<1>4. ASSUME NEW p \in Op, NEW n \in AttemptNo, ClaimNext(p, n) PROVE Progress(o)
  BY <1>4 DEF ClaimNext, Claimable, PassedOp, Moved, Progress
<1>5. ASSUME NEW p \in Op, Claimant(p) \/ Caller(p) PROVE Progress(o)
  BY <1>5, ClaimantProgress, CallerProgress
<1>6. CASE FenceExpiredAttempts
  BY <1>6 DEF FenceExpiredAttempts, LeaseLost, Moved, Progress
<1>7. ASSUME NEW p \in Op, Requeue(p) PROVE Progress(o)
  <2>1. PICK kind \in {"successor", "park"}, bound \in BOOLEAN :
          RequeueIndeterminate(p, kind, bound)
    BY <1>7 DEF Requeue
  <2>2. /\ op[p].state = "indeterminate"
        /\ \/ op' = op
           \/ op' = [op EXCEPT ![p] = Moved(op[p], "accepted", generation, op[p].result)]
    BY <2>1 DEF RequeueIndeterminate
  <2>3. \/ op'[o] = op[o]
        \/ op[o].state = "indeterminate" /\ op'[o].state = "accepted"
    <3>1. CASE op' = op
      BY <3>1
    <3>2. CASE op' = [op EXCEPT ![p] = Moved(op[p], "accepted", generation, op[p].result)]
      BY <2>2, <3>2 DEF Moved, TypeOK
    <3> QED BY <2>2, <3>1, <3>2
  <2> QED BY <2>3 DEF Progress
<1>8. ASSUME NEW p \in Op, NEW state \in {"succeeded", "cancelled", "timed_out"},
             RecoverTerminalFromReceipt(p, state)
      PROVE  Progress(o)
  BY <1>8 DEF RecoverTerminalFromReceipt, ReceiptResult, Moved, TypeOK, Progress
<1> QED
  BY <1>1, <1>2, <1>3, <1>4, <1>5, <1>6, <1>7, <1>8 DEF Next, Claim, Recovery

\* Only a claim changes the current attempt: it takes the next number.
LEMMA OwnersStep ==
  ASSUME Ownership, [Next]_vars, NEW o \in Op
  PROVE  \/ dispatch'[o].attempt = dispatch[o].attempt
         \/ /\ dispatch'[o].attempt = dispatch[o].attempt + 1
            /\ op[o].state = "accepted" /\ op'[o].state = "running"
<1> USE DEF Ownership
<1>1. ASSUME NEW p \in Op, NEW n \in AttemptNo, ClaimNext(p, n)
      PROVE  \/ dispatch'[o].attempt = dispatch[o].attempt
             \/ /\ dispatch'[o].attempt = dispatch[o].attempt + 1
                /\ op[o].state = "accepted" /\ op'[o].state = "running"
  <2>1. CASE o # p
    BY <1>1, <2>1, PassedRows DEF ClaimNext
  <2>2. CASE o = p
    <3>1. /\ n \in Nat /\ n >= 1 /\ dispatch[o].attempt = n - 1
      <4>1. IsLatest(o, dispatch[o].attempt) /\ IsLatest(o, n - 1)
        BY <1>1, <2>2 DEF CurrentIsLatest, ClaimNext
      <4>2. /\ \A m \in Started(o) : m \in Int
            /\ n \in Nat /\ n >= 1 /\ dispatch[o].attempt \in Nat
        BY BoundsAssumption DEF Started, AttemptNo, AttemptRef, TypeOK, Dispatches
      <4> QED BY <4>1, <4>2 DEF IsLatest
    <3>2. dispatch'[o] = [dispatch[o] EXCEPT !.state = "running", !.attempt = n]
      BY <1>1, <2>2 DEF ClaimNext
    <3>3. dispatch'[o].attempt = n
      BY <3>2 DEF TypeOK, Dispatches
    <3>4. op[o].state = "accepted" /\ op'[o].state = "running"
      BY <1>1, <2>2 DEF ClaimNext, Claimable, Moved
    <3> QED BY <3>1, <3>3, <3>4
  <2> QED BY <2>1, <2>2
<1>2. CASE \A p \in Op, n \in AttemptNo : ~ClaimNext(p, n)
  <2>1. Undisturbed
    BY <1>2, TypeStep, OtherStepsUndisturbed
  <2> QED BY <2>1 DEF Undisturbed
<1> QED BY <1>1, <1>2

\* The registry's state as the lifecycle sees it.
settled(o) == IF op[o].state = "succeeded" THEN op[o].result.by ELSE 0

Counted ==
  \A o \in Op :
    /\ Phase(op[o].state) \in Lifecycle!Phases
    /\ Cardinality(Started(o)) = dispatch[o].attempt
    /\ dispatch[o].attempt \in Nat
    /\ settled(o) \in Nat

LEMMA LifecycleRows == TypeOK /\ Budget => Counted
<1> SUFFICES ASSUME TypeOK, Budget, NEW o \in Op
             PROVE  /\ Phase(op[o].state) \in Lifecycle!Phases
                    /\ Cardinality(Started(o)) = dispatch[o].attempt
                    /\ dispatch[o].attempt \in Nat
                    /\ settled(o) \in Nat
  BY DEF Counted
<1>1. op[o].state \in OpStates /\ op[o].result \in Results
  BY DEF TypeOK, Operations
<1>2. Phase(op[o].state) \in Lifecycle!Phases
  BY <1>1 DEF Phase, OpStates, Terminal, Lifecycle!Phases
<1>3. op[o].result.by \in Nat
  BY <1>1, BoundsAssumption DEF Results, AttemptRef
<1> QED BY <1>2, <1>3, OwnersAreCounted DEF settled

LEMMA LifecycleInit == Init => Lifecycle!Init
<1> SUFFICES ASSUME Init PROVE Lifecycle!Init
  OBVIOUS
<1>1. \A o \in Op : op[o].state = "absent" /\ Started(o) = {}
  BY DEF Init, Started, NoOperation, NoAttempt
<1>2. \A o \in Op : /\ Phase(op[o].state) = "absent"
                    /\ Cardinality(Started(o)) = 0
                    /\ op[o].state # "succeeded"
  BY <1>1, FS_EmptySet DEF Phase
<1> QED BY <1>2 DEF Lifecycle!Init

\* One operation's share of a transaction is one move of its lifecycle.
LEMMA LifecycleMove ==
  ASSUME Ownership, Counted, Counted', [Next]_vars, NEW o \in Op
  PROVE  Lifecycle!Move(o)
<1> DEFINE phases == [p \in Op |-> Phase(op[p].state)]
           owners == [p \in Op |-> Cardinality(Started(p))]
           settlers == [p \in Op |-> IF op[p].state = "succeeded" THEN op[p].result.by ELSE 0]
           n == dispatch[o].attempt
           n1 == dispatch'[o].attempt
<1>2. /\ phases[o] = Phase(op[o].state)
      /\ owners[o] = n /\ n \in Nat
      /\ settlers[o] = settled(o)
  BY DEF Counted, settled
<1>3. /\ (phases')[o] = Phase(op'[o].state)
      /\ (owners')[o] = n1
      /\ (settlers')[o] = settled(o)'
  BY DEF Counted, settled
<1>4. Progress(o)
  BY StepProgresses DEF Ownership
<1>5. n1 = n \/ (n1 = n + 1 /\ op[o].state = "accepted" /\ op'[o].state = "running")
  BY OwnersStep
<1> DEFINE from == op[o].state
           to == op'[o].state
           kept == n1 = n
           unsettled == from # "succeeded" /\ to # "succeeded"
<1>6. unsettled => settlers[o] = (settlers')[o]
  BY <1>2, <1>3 DEF settled
<1> HIDE DEF phases, owners, settlers, n, n1
<1>7. CASE to = from /\ (from = "succeeded" => op'[o] = op[o])
  <2>1. (phases')[o] = phases[o] /\ (settlers')[o] = settlers[o]
    BY <1>2, <1>3, <1>7 DEF settled
  <2>2. (owners')[o] = owners[o]
    BY <1>2, <1>3, <1>5, <1>7
  <2> QED BY <2>1, <2>2 DEF Lifecycle!Move, Lifecycle!Stays, phases, owners, settlers
<1>8. CASE from = "absent" /\ to = "accepted"
  <2>1. phases[o] = "absent" /\ (phases')[o] = "waiting" /\ (settlers')[o] = settlers[o]
    BY <1>2, <1>3, <1>6, <1>8 DEF Phase
  <2>2. (owners')[o] = owners[o]
    BY <1>2, <1>3, <1>5, <1>8
  <2> QED BY <2>1, <2>2
          DEF Lifecycle!Move, Lifecycle!Submit, Lifecycle!Moves, phases, owners, settlers
<1>9. CASE from = "accepted" /\ to = "running"
  <2>1. phases[o] = "waiting" /\ (phases')[o] = "executing" /\ (settlers')[o] = settlers[o]
    BY <1>2, <1>3, <1>6, <1>9 DEF Phase
  <2>2. (owners')[o] \in {owners[o], owners[o] + 1}
    BY <1>2, <1>3, <1>5
  <2> QED BY <2>1, <2>2
          DEF Lifecycle!Move, Lifecycle!Execute, Lifecycle!Moves, phases, owners, settlers
<1>10. CASE from = "running" /\ to = "indeterminate"
  <2>1. phases[o] = "executing" /\ (phases')[o] = "uncertain" /\ (settlers')[o] = settlers[o]
    BY <1>2, <1>3, <1>6, <1>10 DEF Phase
  <2>2. (owners')[o] = owners[o]
    BY <1>2, <1>3, <1>5, <1>10
  <2> QED BY <2>1, <2>2
          DEF Lifecycle!Move, Lifecycle!LoseCertainty, Lifecycle!Moves, phases, owners, settlers
<1>11. CASE from = "indeterminate" /\ to = "accepted"
  <2>1. phases[o] = "uncertain" /\ (phases')[o] = "waiting" /\ (settlers')[o] = settlers[o]
    BY <1>2, <1>3, <1>6, <1>11 DEF Phase
  <2>2. (owners')[o] = owners[o]
    BY <1>2, <1>3, <1>5, <1>11
  <2> QED BY <2>1, <2>2
          DEF Lifecycle!Move, Lifecycle!Resume, Lifecycle!Moves, phases, owners, settlers
<1>12. CASE /\ from \in {"running", "indeterminate"} /\ to = "succeeded"
            /\ op'[o].result.by \in {0, n}
  <2>1. /\ phases[o] \in {"executing", "uncertain"} /\ (phases')[o] = "succeeded"
        /\ (settlers')[o] \in {0, owners[o]}
    BY <1>2, <1>3, <1>12 DEF Phase, settled
  <2>2. (owners')[o] = owners[o]
    BY <1>2, <1>3, <1>5, <1>12
  <2> QED BY <2>1, <2>2
          DEF Lifecycle!Move, Lifecycle!Succeed, Lifecycle!Moves, phases, owners, settlers
<1>13. CASE /\ from \in {"accepted", "running", "indeterminate"}
            /\ to \in {"failed", "cancelled", "timed_out"}
  <2>1. /\ phases[o] \in {"waiting", "executing", "uncertain"}
        /\ (phases')[o] \in {"failed", "cancelled", "timed_out"}
        /\ (settlers')[o] = settlers[o]
    BY <1>2, <1>3, <1>6, <1>13 DEF Phase
  <2>2. (owners')[o] = owners[o]
    BY <1>2, <1>3, <1>5, <1>13
  <2>3. {"failed", "cancelled", "timed_out"} = Lifecycle!Settled \ {"succeeded"}
    BY DEF Lifecycle!Settled
  <2> QED BY <2>1, <2>2, <2>3
          DEF Lifecycle!Move, Lifecycle!Abandon, Lifecycle!Moves, phases, owners, settlers
<1> QED BY <1>4, <1>7, <1>8, <1>9, <1>10, <1>11, <1>12, <1>13 DEF Progress, n

\* The registry keeps the promise of the lifecycle: work is executed by one
\* owner at a time, goes back to waiting only from uncertainty, and what an
\* owner settled was settled by the last one and while it executed.
THEOREM Refinement == Spec => ImplementsLifecycle
<1>1. Init => Lifecycle!Init
  BY LifecycleInit
<1>2. Ownership /\ Counted /\ Counted' /\ [Next]_vars => [Lifecycle!Next]_(Lifecycle!vars)
  <2> SUFFICES ASSUME Ownership, Counted, Counted', [Next]_vars PROVE Lifecycle!Next
    OBVIOUS
  <2>1. \A o \in Op : Lifecycle!Move(o)
    BY LifecycleMove
  <2>2. /\ [o \in Op |-> Phase(op[o].state)]' \in [Op -> Lifecycle!Phases]
        /\ [o \in Op |-> Cardinality(Started(o))]' \in [Op -> Nat]
        /\ [o \in Op |-> IF op[o].state = "succeeded" THEN op[o].result.by ELSE 0]' \in [Op -> Nat]
    BY DEF Counted, settled, Lifecycle!Phases
  <2> QED BY <2>1, <2>2 DEF Lifecycle!Next
<1>3. TypeOK /\ Budget => Counted
  BY LifecycleRows
<1> QED
  BY <1>1, <1>2, <1>3, TypeCorrect, OwnershipInvariant, BudgetInvariant, PTL
  DEF Spec, ImplementsLifecycle, Lifecycle!Spec
=============================================================================
