----------------------- MODULE DurableDispatchProofs -----------------------
(***************************************************************************)
(* Safety of durable dispatch, for any set of operations and workers, any  *)
(* number of steps, of which any are reads, and any answers.               *)
(*                                                                         *)
(* Every step of the composition is a step of the registry or leaves it    *)
(* alone, so all that OperationRegistryProofs shows holds here.  The rest  *)
(* is about the three stores: a worker, however stale, carries only what   *)
(* the stores showed it, and the stores only grow.                         *)
(***************************************************************************)
EXTENDS DurableDispatch, OperationRegistryProofs

-----------------------------------------------------------------------------
(* What a worker carries.                                                  *)

Outcomes == Terminal \cup {"none", "indeterminate"}

WorkerRows ==
  [pc : Points, op : Op \cup {0}, claim : AttemptRef, at : 0..StepCount, got : Answers,
   outcome : Outcomes, listed : SUBSET Op]

\* where a worker has no operation of its own
Unengaged == {"idle", "effects", "lock", "fence", "list", "decide", "claim"}

InCall == {"call", "calling", "returning", "check", "record"}

\* between two steps, or before the call of one
Empty == {"start", "begin", "open", "step", "call", "calling", "beat", "finish", "complete"}

Fit(row) ==
  /\ row.pc \notin Unengaged => row.op \in Op
  /\ row.pc \in InCall => row.at < StepCount
  /\ row.pc \in {"finish", "complete"} => row.at = StepCount
  /\ row.pc \in {"settle", "commit"} => row.outcome # "none"
  /\ row.pc = "settle" => row.outcome # "succeeded"
  /\ row.pc \in Empty => row.got = 0

Manned == worker \in [Worker -> WorkerRows] /\ \A w \in Worker : Fit(worker[w])

Stored ==
  /\ inner \in [Op -> [state : InnerStates, steps : [Steps -> Answers]]]
  /\ journal \in [Op -> [Steps -> [state : CallStates, response : Answers]]]
  /\ answered \in [Op -> [Steps -> [first : Answers, count : Nat]]]
  /\ holder \subseteq Worker
  /\ canceller \in [Op -> {"idle", "direct", "intent", "dequeue", "mark"}]

Typed == TypeOK /\ Stored /\ Manned

-----------------------------------------------------------------------------
(* A turn of one worker.                                                   *)

\* w is then at pc, with these local variables; the others are where they were.
Turns(w, pc, o, n, at, got, outcome) ==
  /\ worker' \in [Worker -> WorkerRows]
  /\ worker'[w].pc = pc
  /\ worker'[w].op = o
  /\ worker'[w].claim = n
  /\ worker'[w].at = at
  /\ worker'[w].got = got
  /\ worker'[w].outcome = outcome
  /\ \A v \in Worker \ {w} : worker'[v] = worker[v]

LEMMA GotoTurns ==
  ASSUME Manned, NEW w \in Worker, NEW pc \in Points, Goto(w, pc)
  PROVE  Turns(w, pc, worker[w].op, worker[w].claim, worker[w].at, worker[w].got,
               worker[w].outcome)
BY DEF Manned, WorkerRows, Goto, Turns

LEMMA SettleTurns ==
  ASSUME Manned, NEW w \in Worker, NEW outcome \in Outcomes, Settle(w, outcome)
  PROVE  Turns(w, "settle", worker[w].op, worker[w].claim, worker[w].at, worker[w].got, outcome)
<1>1. "settle" \in Points
  BY DEF Points
<1> QED BY <1>1 DEF Manned, WorkerRows, Settle, Turns

LEMMA RestTurns ==
  ASSUME Manned, NEW w \in Worker, Rest(w)
  PROVE  Turns(w, "idle", 0, 0, 0, 0, "none")
<1>1. NoWorker \in WorkerRows
  BY BoundsAssumption, StepAssumption
  DEF NoWorker, WorkerRows, Points, AttemptRef, Answers, Outcomes
<1> QED BY <1>1 DEF Manned, Rest, NoWorker, Turns

\* A turn that leaves a fit row leaves all rows fit.
LEMMA TurnsManned ==
  ASSUME Manned, NEW w \in Worker, NEW pc, NEW o, NEW n, NEW at, NEW got, NEW outcome,
         Turns(w, pc, o, n, at, got, outcome),
         pc \notin Unengaged => o \in Op,
         pc \in InCall => at < StepCount,
         pc \in {"finish", "complete"} => at = StepCount,
         pc \in {"settle", "commit"} => outcome # "none",
         pc = "settle" => outcome # "succeeded",
         pc \in Empty => got = 0
  PROVE  Manned'
BY DEF Manned, Turns, Fit

LEMMA RecordedIsFinite ==
  ASSUME NEW o \in Op
  PROVE  /\ Recorded(o) \subseteq 1..StepCount
         /\ IsFiniteSet(Recorded(o))
         /\ Cardinality(Recorded(o)) \in 0..StepCount
<1>1. Recorded(o) \in SUBSET (1..StepCount)
  BY DEF Recorded, Steps
<1>2. IsFiniteSet(1..StepCount) /\ Cardinality(1..StepCount) = StepCount
  BY StepAssumption, FS_Interval
<1>3. /\ IsFiniteSet(Recorded(o))
      /\ Cardinality(Recorded(o)) <= Cardinality(1..StepCount)
  BY <1>1, <1>2, FS_Subset
<1>4. Cardinality(Recorded(o)) \in Nat
  BY <1>3, FS_CardinalityType
<1> QED BY <1>1, <1>2, <1>3, <1>4, StepAssumption

-----------------------------------------------------------------------------
(* Every row stays fit.                                                    *)

LEMMA CancelOrBeatManned ==
  ASSUME Manned, NEW w \in Worker, NEW carryOn, CancelOrBeat(w, carryOn),
         worker[w].pc \notin Unengaged, carryOn => Manned'
  PROVE  Manned'
<1>1. CASE Settle(w, "cancelled")
  <2>1. "cancelled" \in Outcomes
    BY DEF Outcomes, Terminal
  <2>2. Turns(w, "settle", worker[w].op, worker[w].claim, worker[w].at, worker[w].got, "cancelled")
    BY <1>1, <2>1, SettleTurns
  <2> QED BY <2>2, TurnsManned DEF Manned, Fit, InCall, Empty
<1>2. CASE Goto(w, "fenced")
  <2>1. "fenced" \in Points
    BY DEF Points
  <2>2. Turns(w, "fenced", worker[w].op, worker[w].claim, worker[w].at, worker[w].got,
              worker[w].outcome)
    BY <1>2, <2>1, GotoTurns
  <2> QED BY <2>2, TurnsManned DEF Manned, Fit, InCall, Empty
<1> QED BY <1>1, <1>2 DEF CancelOrBeat

\* An engaged worker that goes elsewhere, or settles.
LEMMA GotoManned ==
  ASSUME Manned, NEW w \in Worker, NEW pc \in Points, Goto(w, pc),
         pc \notin Unengaged => worker[w].op \in Op,
         pc \in InCall => worker[w].at < StepCount,
         pc \in {"finish", "complete"} => worker[w].at = StepCount,
         pc \notin {"settle", "commit"} \/ worker[w].outcome # "none",
         pc # "settle",
         pc \in Empty => worker[w].got = 0
  PROVE  Manned'
<1>1. Turns(w, pc, worker[w].op, worker[w].claim, worker[w].at, worker[w].got,
            worker[w].outcome)
  BY GotoTurns
<1> QED BY <1>1, TurnsManned

LEMMA SettleManned ==
  ASSUME Manned, NEW w \in Worker, worker[w].pc \notin Unengaged,
         NEW outcome \in Outcomes \ {"none", "succeeded"}, Settle(w, outcome)
  PROVE  Manned'
<1>1. Turns(w, "settle", worker[w].op, worker[w].claim, worker[w].at, worker[w].got, outcome)
  BY SettleTurns
<1> QED BY <1>1, TurnsManned DEF Manned, Fit, InCall, Empty

LEMMA RestManned ==
  ASSUME Manned, NEW w \in Worker, Rest(w)
  PROVE  Manned'
<1>1. Turns(w, "idle", 0, 0, 0, 0, "none")
  BY RestTurns
<1> QED BY <1>1, TurnsManned DEF Unengaged, InCall, Empty

\* What a handler's turn at its own pc may rely on.
LEMMA FitRow ==
  ASSUME Manned, NEW w \in Worker
  PROVE  /\ worker[w] \in WorkerRows /\ Fit(worker[w])
         /\ worker[w].pc \in Points
         /\ worker[w].at \in 0..StepCount /\ worker[w].at \in Int
         /\ worker[w].got \in Answers
         /\ worker[w].outcome \in Outcomes
BY StepAssumption DEF Manned, WorkerRows

LEMMA CallPlace ==
  ASSUME Manned, NEW w \in Worker, worker[w].pc \in InCall
  PROVE  Mine(w) \in Op /\ NextStep(w) \in Steps
<1>1. Fit(worker[w]) /\ worker[w].at \in 0..StepCount
  BY FitRow
<1>2. worker[w].op \in Op /\ worker[w].at < StepCount
  BY <1>1 DEF Fit, InCall, Unengaged
<1> QED BY <1>1, <1>2, StepAssumption DEF Mine, NextStep, Steps

LEMMA HandlerManned ==
  ASSUME Typed, NEW w \in Worker, Handler(w)
  PROVE  Manned'
<1> USE DEF Typed, Mine
<1>0. {"timed_out", "failed", "indeterminate", "cancelled"} \subseteq Outcomes \ {"none", "succeeded"}
  BY DEF Outcomes, Terminal
<1>f. worker[w] \in WorkerRows /\ Fit(worker[w]) /\ worker[w].at \in 0..StepCount
  BY FitRow
<1>p. {"begin", "open", "step", "call", "calling", "returning", "check", "record", "beat",
       "finish", "complete", "fenced", "commit", "park", "abandon"} \subseteq Points
  BY DEF Points
<1>1. CASE StartHandler(w)
  <2>1. worker[w].pc = "start"
    BY <1>1 DEF StartHandler, At
  <2>2. Rest(w) \/ Settle(w, "timed_out") \/ Goto(w, "begin")
    BY <1>1 DEF StartHandler
  <2>3. worker[w].op \in Op /\ worker[w].got = 0
    BY <2>1, <1>f DEF Fit, Unengaged, Empty
  <2>4. CASE Goto(w, "begin")
    BY <2>3, <2>4, <1>p, GotoManned DEF InCall
  <2>5. CASE Settle(w, "timed_out")
    BY <2>1, <2>5, <1>0, SettleManned DEF Unengaged
  <2> QED BY <2>2, <2>4, <2>5, RestManned
<1>2. CASE BeginEngine(w)
  <2>1. worker[w].pc = "begin" /\ CancelOrBeat(w, Goto(w, "open"))
    BY <1>2 DEF BeginEngine, At
  <2>2. worker[w].op \in Op /\ worker[w].got = 0
    BY <2>1, <1>f DEF Fit, Unengaged, Empty
  <2>3. Goto(w, "open") => Manned'
    BY <2>2, <1>p, GotoManned DEF InCall
  <2> QED BY <2>1, <2>3, CancelOrBeatManned DEF Unengaged
<1>3. CASE OpenJob(w)
  <2>1. worker[w].pc = "open"
    BY <1>3 DEF OpenJob, At
  <2>2. worker[w].op \in Op /\ worker[w].got = 0
    BY <2>1, <1>f DEF Fit, Unengaged, Empty
  <2>3. CASE Settle(w, "failed")
    BY <2>1, <2>3, <1>0, SettleManned DEF Unengaged
  <2>4. CASE worker' = [worker EXCEPT ![w].pc = "step", ![w].at = Cardinality(Recorded(worker[w].op))]
    <3> DEFINE k == Cardinality(Recorded(worker[w].op))
    <3>1. k \in 0..StepCount
      BY RecordedIsFinite, <2>2
    <3> HIDE DEF k
    <3>2. Turns(w, "step", worker[w].op, worker[w].claim, k, worker[w].got, worker[w].outcome)
      BY <2>4, <3>1, <1>p DEF Manned, WorkerRows, Turns, k
    <3> QED BY <3>2, <2>2, TurnsManned DEF InCall
  <2> QED BY <1>3, <2>3, <2>4 DEF OpenJob
<1>4. CASE StepBoundary(w)
  <2>1. worker[w].pc = "step"
    BY <1>4 DEF StepBoundary, At
  <2>2. worker[w].op \in Op /\ worker[w].got = 0
    BY <2>1, <1>f DEF Fit, Unengaged, Empty
  <2>3. Settle(w, "timed_out") => Manned'
    BY <2>1, <1>0, SettleManned DEF Unengaged
  <2>4. Goto(w, IF worker[w].at = StepCount THEN "finish" ELSE "call") => Manned'
    BY <2>2, <1>p, <1>f, StepAssumption, GotoManned DEF InCall
  <2>5. CancelOrBeat(w, IF Expired(Mine(w)) THEN Settle(w, "timed_out")
                        ELSE Goto(w, IF worker[w].at = StepCount THEN "finish" ELSE "call"))
    BY <1>4 DEF StepBoundary
  <2> QED BY <2>1, <2>3, <2>4, <2>5, CancelOrBeatManned DEF Unengaged
<1>5. CASE LastStep(w)
  <2>1. worker[w].pc = "step" /\ worker[w].at = StepCount /\ Goto(w, "finish")
    BY <1>5 DEF LastStep, At
  <2>2. worker[w].op \in Op /\ worker[w].got = 0
    BY <2>1, <1>f DEF Fit, Unengaged, Empty
  <2> QED BY <2>1, <2>2, <1>p, GotoManned DEF InCall
<1>6. CASE AdmitCall(w)
  <2>1. worker[w].pc = "call"
    BY <1>6 DEF AdmitCall, At
  <2>2. worker[w].op \in Op /\ worker[w].got = 0 /\ worker[w].at < StepCount
    BY <2>1, <1>f DEF Fit, Unengaged, Empty, InCall
  <2>3. \/ Settle(w, "timed_out") \/ Settle(w, "failed") \/ Settle(w, "indeterminate")
        \/ Goto(w, "calling")
        \/ worker' = [worker EXCEPT ![w].pc = "record",
                        ![w].got = journal[worker[w].op][NextStep(w)].response]
    BY <1>6 DEF AdmitCall
  <2>4. CASE Settle(w, "timed_out") \/ Settle(w, "failed") \/ Settle(w, "indeterminate")
    BY <2>1, <2>4, <1>0, SettleManned DEF Unengaged
  <2>5. CASE Goto(w, "calling")
    BY <2>2, <2>5, <1>p, GotoManned
  <2>6. CASE worker' = [worker EXCEPT ![w].pc = "record",
                          ![w].got = journal[worker[w].op][NextStep(w)].response]
    <3> DEFINE r == journal[worker[w].op][NextStep(w)].response
    <3>1. r \in Answers
      <4>1. NextStep(w) \in Steps
        BY <2>1, CallPlace DEF InCall
      <4>2. journal[worker[w].op][NextStep(w)] \in [state : CallStates, response : Answers]
        BY <2>2, <4>1 DEF Stored
      <4> QED BY <4>2
    <3> HIDE DEF r
    <3>2. Turns(w, "record", worker[w].op, worker[w].claim, worker[w].at, r, worker[w].outcome)
      BY <2>6, <3>1, <1>p DEF Manned, WorkerRows, Turns, r
    <3> QED BY <3>2, <2>2, TurnsManned DEF Empty
  <2> QED BY <2>3, <2>4, <2>5, <2>6
<1>7. CASE PhysicalCall(w)
  <2>1. worker[w].pc = "calling"
    BY <1>7 DEF PhysicalCall, At
  <2>2. worker[w].op \in Op /\ worker[w].got = 0 /\ worker[w].at < StepCount
    BY <2>1, <1>f DEF Fit, Unengaged, Empty, InCall
  <2>3. CASE Settle(w, "indeterminate")
    BY <2>1, <2>3, <1>0, SettleManned DEF Unengaged
  <2>4. CASE Goto(w, "returning")
    BY <2>2, <2>4, <1>p, GotoManned DEF Empty
  <2>5. ASSUME NEW r \in Responses,
               worker' = [worker EXCEPT ![w].pc = "returning", ![w].got = r]
        PROVE  Manned'
    <3>1. Turns(w, "returning", worker[w].op, worker[w].claim, worker[w].at, r, worker[w].outcome)
      BY <2>5, <1>p DEF Manned, WorkerRows, Turns, Answers
    <3> QED BY <3>1, <2>2, TurnsManned DEF Empty
  <2> QED BY <1>7, <2>3, <2>4, <2>5 DEF PhysicalCall
<1>8. CASE CallReturns(w) \/ CheckUsage(w)
  <2>1. worker[w].pc \in {"returning", "check"}
    BY <1>8 DEF CallReturns, CheckUsage, At
  <2>2. worker[w].op \in Op /\ worker[w].at < StepCount
    BY <2>1, <1>f DEF Fit, Unengaged, InCall
  <2>3. Settle(w, "failed") \/ Goto(w, "check") \/ Goto(w, "record")
    BY <1>8 DEF CallReturns, CheckUsage
  <2>4. Settle(w, "failed") => Manned'
    BY <2>1, <1>0, SettleManned DEF Unengaged
  <2> QED BY <2>2, <2>3, <2>4, <1>p, GotoManned DEF Empty
<1>9. CASE RecordStep(w)
  <2>1. worker[w].pc = "record"
    BY <1>9 DEF RecordStep, At
  <2>2. worker[w].op \in Op /\ worker[w].at < StepCount
    BY <2>1, <1>f DEF Fit, Unengaged, InCall
  <2>3. CASE Settle(w, "failed")
    BY <2>1, <2>3, <1>0, SettleManned DEF Unengaged
  <2>4. CASE worker' = [worker EXCEPT ![w].pc = "beat", ![w].at = NextStep(w), ![w].got = 0]
    <3>1. NextStep(w) \in 0..StepCount /\ 0 \in Answers
      BY <2>2, <1>f, StepAssumption DEF NextStep, Answers
    <3>2. Turns(w, "beat", worker[w].op, worker[w].claim, NextStep(w), 0, worker[w].outcome)
      BY <2>4, <3>1, <1>p DEF Manned, WorkerRows, Turns
    <3> QED BY <3>2, <2>2, TurnsManned DEF InCall
  <2> QED BY <1>9, <2>3, <2>4 DEF RecordStep
<1>10. CASE BeatAfterStep(w)
  <2>1. worker[w].pc = "beat" /\ (Goto(w, "step") \/ Goto(w, "fenced"))
    BY <1>10 DEF BeatAfterStep, At
  <2>2. worker[w].op \in Op /\ worker[w].got = 0
    BY <2>1, <1>f DEF Fit, Unengaged, Empty
  <2> QED BY <2>1, <2>2, <1>p, GotoManned DEF InCall
<1>11. CASE FinishLoop(w)
  <2>1. worker[w].pc = "finish" /\ CancelOrBeat(w, Goto(w, "complete"))
    BY <1>11 DEF FinishLoop, At
  <2>2. worker[w].op \in Op /\ worker[w].got = 0 /\ worker[w].at = StepCount
    BY <2>1, <1>f DEF Fit, Unengaged, Empty
  <2>3. Goto(w, "complete") => Manned'
    BY <2>2, <1>p, GotoManned DEF InCall
  <2> QED BY <2>1, <2>3, CancelOrBeatManned DEF Unengaged
<1>12. CASE CompleteJob(w) \/ FailFenced(w)
  <2>1. worker[w].pc \in {"complete", "fenced"}
    BY <1>12 DEF CompleteJob, FailFenced, At
  <2>2. worker[w].op \in Op
    BY <2>1, <1>f DEF Fit, Unengaged
  <2>3. Settle(w, "failed") => Manned'
    BY <2>1, <1>0, SettleManned DEF Unengaged
  <2>4. ASSUME NEW outcome \in {"succeeded", "failed"},
               worker' = [worker EXCEPT ![w].pc = "commit", ![w].outcome = outcome]
        PROVE  Manned'
    <3>1. outcome \in Outcomes
      BY DEF Outcomes, Terminal
    <3>2. Turns(w, "commit", worker[w].op, worker[w].claim, worker[w].at, worker[w].got, outcome)
      BY <2>4, <3>1, <1>p DEF Manned, WorkerRows, Turns
    <3> QED BY <3>2, <2>2, TurnsManned DEF InCall, Empty
  <2> QED BY <1>12, <2>3, <2>4 DEF CompleteJob, FailFenced
<1>13. CASE MarkOutcome(w)
  <2>1. worker[w].pc = "settle" /\ Goto(w, "commit")
    BY <1>13 DEF MarkOutcome, At
  <2>2. worker[w].op \in Op /\ worker[w].outcome # "none"
    BY <2>1, <1>f DEF Fit, Unengaged
  <2> QED BY <2>1, <2>2, <1>p, GotoManned DEF InCall, Empty
<1>14. CASE CommitOutcome(w) \/ AbandonJob(w) \/ ParkAttempt(w)
  <2>1. /\ worker[w].pc \in {"commit", "abandon", "park"}
        /\ Rest(w) \/ Goto(w, "abandon") \/ Goto(w, "park")
    BY <1>14 DEF CommitOutcome, AbandonJob, ParkAttempt, At
  <2>2. worker[w].op \in Op
    BY <2>1, <1>f DEF Fit, Unengaged
  <2> QED BY <2>1, <2>2, <1>p, RestManned, GotoManned DEF InCall, Empty
<1> QED
  BY <1>1, <1>2, <1>3, <1>4, <1>5, <1>6, <1>7, <1>8, <1>9, <1>10, <1>11, <1>12, <1>13, <1>14
  DEF Handler

LEMMA AbortManned ==
  ASSUME Manned, NEW w \in Worker, AbortPass(w)
  PROVE  Manned'
BY RestManned DEF AbortPass

LEMMA DecideManned ==
  ASSUME Typed, NEW w \in Worker, DecideCandidate(w)
  PROVE  Manned'
<1> USE DEF Typed
<1>k. UNCHANGED worker => Manned'
  BY DEF Manned
<1>1. PICK o \in scan :
        \/ UNCHANGED worker
        \/ DecideFromMarker(w, o)
        \/ DecideToPark(w, o)
        \/ DecideContinuation(w, o)
  BY DEF DecideCandidate
<1>2. CASE DecideFromMarker(w, o) \/ DecideToPark(w, o)
  BY <1>2, <1>k, AbortManned DEF DecideFromMarker, DecideToPark, Parks
<1>3. CASE DecideContinuation(w, o)
  <2>1. \/ Parks(w, o, TRUE)
        \/ worker' = [worker EXCEPT ![w].pc = "resume", ![w].op = o]
    BY <1>3 DEF DecideContinuation
  <2>2. CASE worker' = [worker EXCEPT ![w].pc = "resume", ![w].op = o]
    <3>1. o \in Op /\ "resume" \in Points
      BY DEF TypeOK, Points
    <3>2. Turns(w, "resume", o, worker[w].claim, worker[w].at, worker[w].got, worker[w].outcome)
      BY <2>2, <3>1 DEF Manned, WorkerRows, Turns
    <3> QED BY <3>1, <3>2, TurnsManned DEF InCall, Empty
  <2> QED BY <2>1, <2>2, <1>k, AbortManned DEF Parks
<1> QED BY <1>1, <1>2, <1>3, <1>k

LEMMA RecoveryManned ==
  ASSUME Typed, NEW w \in Worker, RecoverAndClaim(w)
  PROVE  Manned'
<1> USE DEF Mine, Typed
<1>p. {"effects", "list", "decide", "claim", "requeue", "start", "idle"} \subseteq Points
  BY DEF Points
<1>f. worker[w] \in WorkerRows /\ Fit(worker[w])
  BY FitRow
<1>1. CASE ListEffects(w)
  <2> DEFINE found == {o \in Op : IsCandidate(o) /\ Unresolved(journal[o])}
  <2>1. found \in SUBSET Op /\ worker' = [worker EXCEPT ![w].pc = "effects", ![w].listed = found]
    BY <1>1 DEF ListEffects
  <2> HIDE DEF found
  <2>2. Turns(w, "effects", worker[w].op, worker[w].claim, worker[w].at, worker[w].got,
              worker[w].outcome)
    BY <2>1, <1>p DEF Manned, WorkerRows, Turns
  <2> QED BY <2>2, TurnsManned DEF Unengaged, InCall, Empty
<1>2. CASE ReconcileEffects(w)
  <2>1. PICK o \in worker[w].listed : worker' = [worker EXCEPT ![w].listed = @ \ {o}]
    BY <1>2 DEF ReconcileEffects
  <2>2. Turns(w, worker[w].pc, worker[w].op, worker[w].claim, worker[w].at, worker[w].got,
              worker[w].outcome)
    BY <2>1 DEF Manned, WorkerRows, Turns
  <2> QED BY <2>2, <1>f, TurnsManned DEF Fit
<1>3. CASE FenceUnderLock(w) \/ ListCandidates(w) \/ EndPass(w)
  <2>1. \E pc \in {"list", "decide", "claim"} : Goto(w, pc)
    BY <1>3 DEF FenceUnderLock, ListCandidates, EndPass
  <2> QED BY <2>1, <1>p, GotoManned DEF Unengaged, InCall, Empty
<1>4. CASE ResumeJob(w)
  <2>1. worker[w].pc = "resume" /\ (Goto(w, "requeue") \/ AbortPass(w))
    BY <1>4 DEF ResumeJob, At
  <2>2. worker[w].op \in Op
    BY <2>1, <1>f DEF Fit, Unengaged
  <2> QED BY <2>1, <2>2, <1>p, AbortManned, GotoManned DEF Unengaged, InCall, Empty
<1>5. CASE RequeueSuccessor(w)
  <2>1. AbortPass(w) \/ worker' = [worker EXCEPT ![w].pc = "decide", ![w].op = 0]
    BY <1>5 DEF RequeueSuccessor
  <2>2. CASE worker' = [worker EXCEPT ![w].pc = "decide", ![w].op = 0]
    <3>1. Turns(w, "decide", 0, worker[w].claim, worker[w].at, worker[w].got, worker[w].outcome)
      BY <2>2, <1>p DEF Manned, WorkerRows, Turns
    <3> QED BY <3>1, TurnsManned DEF Unengaged, InCall, Empty
  <2> QED BY <2>1, <2>2, AbortManned
<1>6. CASE ClaimWork(w)
  <2>1. ASSUME NEW o \in Op, NEW n \in AttemptNo,
               worker' = [worker EXCEPT ![w] = Starting(o, n)]
        PROVE  Manned'
    <3>1. n \in AttemptRef /\ 0 \in 0..StepCount /\ 0 \in Answers /\ "none" \in Outcomes
      BY BoundsAssumption, StepAssumption DEF AttemptNo, AttemptRef, Answers, Outcomes
    <3>2. Starting(o, n) \in WorkerRows
      BY <3>1, <1>p DEF Starting, WorkerRows
    <3>3. Turns(w, "start", o, n, 0, 0, "none")
      BY <2>1, <3>2 DEF Manned, Turns, Starting
    <3> QED BY <3>3, TurnsManned DEF InCall
  <2> QED BY <1>6, <2>1, RestManned DEF ClaimWork
<1> QED
  BY <1>1, <1>2, <1>3, <1>4, <1>5, <1>6, DecideManned DEF RecoverAndClaim

LEMMA MannedStep ==
  ASSUME Typed, [DispatchNext]_allvars
  PROVE  Manned'
<1>1. CASE \E w \in Worker : WorkerStep(w)
  BY <1>1, HandlerManned, RecoveryManned DEF Typed, WorkerStep
<1>2. CASE Restart
  <2>1. NoWorker \in WorkerRows /\ Fit(NoWorker)
    BY BoundsAssumption, StepAssumption
    DEF NoWorker, WorkerRows, Points, AttemptRef, Answers, Outcomes, Fit, Unengaged, InCall, Empty
  <2> QED BY <1>2, <2>1 DEF Restart, Manned
<1>3. CASE UNCHANGED worker
  BY <1>3 DEF Typed, Manned
<1> QED
  BY <1>1, <1>2, <1>3
  DEF DispatchNext, Submit, SubmitAccept, SubmitEnsure, SubmitBindPolicy, SubmitDispatch,
      SubmitRefused, CancelOperation, CancelBegin, CancelDirect, CancelIntent, CancelDequeue,
      CancelMark, PassTime, dvars, allvars

-----------------------------------------------------------------------------
(* The composition is a use of the registry.                               *)

LEMMA OwnsClaim ==
  ASSUME Typed, NEW w \in Worker, worker[w].pc \notin Unengaged, Owner(w)
  PROVE  Mine(w) \in Op /\ worker[w].claim \in AttemptNo
<1>1. Mine(w) \in Op
  BY FitRow DEF Typed, Fit, Mine
<1>2. worker[w].claim \in AttemptNo
  BY DEF Owner, FenceValid, Started
<1> QED BY <1>1, <1>2

LEMMA BeatIsRegistryStep ==
  ASSUME Typed, NEW w \in Worker, NEW carryOn, CancelOrBeat(w, carryOn),
         worker[w].pc \notin Unengaged
  PROVE  [Next]_vars
<1>1. CASE UNCHANGED vars
  BY <1>1
<1>2. CASE Owner(w) /\ Heartbeat(Mine(w), worker[w].claim)
  BY <1>2, OwnsClaim DEF Claimant, Next
<1> QED BY <1>1, <1>2 DEF CancelOrBeat

LEMMA CommitIsRegistryStep ==
  ASSUME Typed, NEW w \in Worker, worker[w].pc \notin Unengaged, Owner(w),
         NEW outcome \in Terminal \cup {"indeterminate"}, Commits(w, outcome)
  PROVE  [Next]_vars
<1>1. Mine(w) \in Op /\ worker[w].claim \in AttemptNo
  BY OwnsClaim
<1>2. CommitClaimed(Mine(w), worker[w].claim)
  BY DEF Commits, CommitClaimed, Terminal
<1> QED BY <1>1, <1>2 DEF Claimant, Next

LEMMA HandlerIsRegistryStep ==
  ASSUME Typed, NEW w \in Worker, Handler(w)
  PROVE  [Next]_vars
<1>f. worker[w] \in WorkerRows /\ Fit(worker[w])
  BY FitRow DEF Typed
<1>1. CASE StartHandler(w)
  <2>1. worker[w].pc = "start"
    BY <1>1 DEF StartHandler, At
  <2>2. CASE UNCHANGED vars
    BY <2>2
  <2>3. CASE Owner(w) /\ FinishAttempt(Mine(w), worker[w].claim)
    BY <2>1, <2>3, OwnsClaim DEF Unengaged, Claimant, Next
  <2> QED BY <1>1, <2>2, <2>3 DEF StartHandler
<1>2. CASE BeginEngine(w) \/ StepBoundary(w) \/ FinishLoop(w)
  <2>1. worker[w].pc \in {"begin", "step", "finish"} /\ \E carryOn : CancelOrBeat(w, carryOn)
    BY <1>2 DEF BeginEngine, StepBoundary, FinishLoop, At
  <2> QED BY <2>1, BeatIsRegistryStep DEF Unengaged
<1>3. CASE BeatAfterStep(w)
  <2>1. worker[w].pc = "beat"
    BY <1>3 DEF BeatAfterStep, At
  <2>2. CASE UNCHANGED vars
    BY <2>2
  <2>3. CASE Owner(w) /\ Heartbeat(Mine(w), worker[w].claim)
    BY <2>1, <2>3, OwnsClaim DEF Unengaged, Claimant, Next
  <2> QED BY <1>3, <2>2, <2>3 DEF BeatAfterStep
<1>4. CASE CommitOutcome(w)
  <2>1. worker[w].pc = "commit"
    BY <1>4 DEF CommitOutcome, At
  <2>2. worker[w].outcome \in Terminal \cup {"indeterminate"}
    BY <2>1, <1>f DEF Fit, WorkerRows, Outcomes
  <2> QED BY <1>4, <2>1, <2>2, CommitIsRegistryStep DEF CommitOutcome, MayCommit, Unengaged
<1>5. CASE ParkAttempt(w)
  BY <1>5, CommitIsRegistryStep DEF ParkAttempt, At, MayCommit, Unengaged
<1> QED
  BY <1>1, <1>2, <1>3, <1>4, <1>5
  DEF Handler, OpenJob, LastStep, AdmitCall, PhysicalCall, CallReturns, CheckUsage, RecordStep,
      CompleteJob, FailFenced, MarkOutcome, AbandonJob

\* A pass that ends early leaves what it listed.
LEMMA AbortIsRegistryStep ==
  ASSUME Typed, NEW w \in Worker, AbortPass(w)
  PROVE  [Next]_vars
<1>1. CASE scan = {}
  BY <1>1 DEF AbortPass, vars
<1>2. CASE scan # {}
  <2>1. LeaveCandidates({}) /\ {} \in SUBSET scan /\ {} # scan
    BY <1>2 DEF AbortPass, LeaveCandidates
  <2> QED BY <2>1 DEF Next, Recovery
<1> QED BY <1>1, <1>2

LEMMA RecoveryIsRegistryStep ==
  ASSUME Typed, NEW w \in Worker, RecoverAndClaim(w)
  PROVE  [Next]_vars
<1>s. scan \subseteq Op
  BY DEF Typed, TypeOK
<1>1. CASE DecideCandidate(w)
  <2>1. PICK o \in scan :
          \/ LeaveCandidates(scan \ {o})
          \/ DecideFromMarker(w, o)
          \/ DecideToPark(w, o)
          \/ DecideContinuation(w, o)
    BY <1>1 DEF DecideCandidate
  <2>2. CASE LeaveCandidates(scan \ {o})
    BY <2>2 DEF Next, Recovery
  <2>3. CASE DecideFromMarker(w, o)
    BY <2>3, <1>s, AbortIsRegistryStep DEF DecideFromMarker, Next, Recovery
  <2>4. ASSUME NEW bound \in BOOLEAN, bound \/ ~policy[o], Parks(w, o, bound)
        PROVE  [Next]_vars
    <3>1. CASE RequeueIndeterminate(o, "park", bound)
      BY <2>4, <3>1, <1>s DEF Requeue, Next, Recovery
    <3> QED BY <2>4, <3>1, AbortIsRegistryStep DEF Parks
  <2>5. CASE DecideToPark(w, o)
    <3>1. policy[o] \in BOOLEAN
      BY <1>s DEF Typed, TypeOK
    <3> QED BY <2>5, <3>1, <2>4 DEF DecideToPark
  <2>6. CASE DecideContinuation(w, o)
    BY <2>6, <2>4 DEF DecideContinuation
  <2> QED BY <2>1, <2>2, <2>3, <2>5, <2>6
<1>2. CASE ResumeJob(w)
  BY <1>2, AbortIsRegistryStep DEF ResumeJob
<1>3. CASE RequeueSuccessor(w)
  <2>1. CASE AbortPass(w)
    BY <2>1, AbortIsRegistryStep
  <2>2. CASE RequeueIndeterminate(Mine(w), "successor", TRUE)
    <3>1. Mine(w) \in Op
      BY <2>2, <1>s DEF RequeueIndeterminate
    <3> QED BY <2>2, <3>1 DEF Requeue, Next, Recovery
  <2> QED BY <1>3, <2>1, <2>2 DEF RequeueSuccessor
<1>4. CASE ClaimWork(w)
  BY <1>4 DEF ClaimWork, Claim, Next
<1>5. CASE FenceUnderLock(w) \/ ListCandidates(w)
  BY <1>5 DEF FenceUnderLock, ListCandidates, Next, Recovery
<1> QED
  BY <1>1, <1>2, <1>3, <1>4, <1>5 DEF RecoverAndClaim, ListEffects, ReconcileEffects, EndPass

LEMMA RegistryStep ==
  ASSUME Typed, [DispatchNext]_allvars
  PROVE  [Next]_vars
<1>1. CASE \E w \in Worker : WorkerStep(w)
  BY <1>1, HandlerIsRegistryStep, RecoveryIsRegistryStep DEF WorkerStep
<1>2. ASSUME NEW o \in Op, Submit(o) PROVE [Next]_vars
  <2>1. CASE SubmitRefused(o)
    BY <2>1 DEF SubmitRefused, Fail, Caller, Next
  <2> QED BY <1>2, <2>1
          DEF Submit, SubmitAccept, SubmitEnsure, SubmitBindPolicy, SubmitDispatch, Caller, Next
<1>3. ASSUME NEW o \in Op, CancelOperation(o) PROVE [Next]_vars
  BY <1>3 DEF CancelOperation, CancelBegin, CancelDirect, CancelIntent, CancelDequeue, CancelMark,
              Caller, Next
<1>4. CASE PassTime \/ Restart
  BY <1>4 DEF PassTime, Restart, Next
<1>5. CASE UNCHANGED allvars
  BY <1>5 DEF allvars
<1> QED BY <1>1, <1>2, <1>3, <1>4, <1>5 DEF DispatchNext

-----------------------------------------------------------------------------
(* The stores.                                                             *)

\* The job store marks the job of o, or leaves it alone.
Marks(o, state) ==
  /\ \A p \in Op \ {o} : inner'[p] = inner[p]
  /\ inner'[o].state = state
  /\ inner'[o].steps = inner[o].steps

InnerRows == [state : InnerStates, steps : [Steps -> Answers]]
CallRows == [state : CallStates, response : Answers]
Calls == [Steps -> CallRows]

LEMMA StateMarks ==
  ASSUME Stored, NEW o \in Op, NEW state \in InnerStates,
         inner' = [inner EXCEPT ![o].state = state]
  PROVE  inner' \in [Op -> InnerRows] /\ Marks(o, state)
BY DEF Stored, InnerRows, Marks

LEMMA MarkInnerMarks ==
  ASSUME Stored, NEW o \in Op, NEW marker \in InnerStates, MarkInner(o, marker)
  PROVE  /\ inner' \in [Op -> InnerRows]
         /\ \E state \in InnerStates :
              /\ Marks(o, state)
              /\ state \in {inner[o].state, marker}
              /\ inner[o].state \in Terminal => state = inner[o].state
<1>0. inner \in [Op -> InnerRows] /\ inner[o].state \in InnerStates
  BY DEF Stored, InnerRows
<1>1. CASE inner[o].state = "absent"
  BY <1>0, <1>1 DEF MarkInner, Marks, Terminal
<1>2. CASE inner[o].state # "absent"
  <2> DEFINE state == Mark(inner[o].state, marker)
  <2>1. /\ state \in InnerStates /\ state \in {inner[o].state, marker}
        /\ inner[o].state \in Terminal => state = inner[o].state
    BY <1>0 DEF Mark
  <2>2. inner' = [inner EXCEPT ![o].state = state]
    BY <1>2 DEF MarkInner
  <2> HIDE DEF state
  <2> QED BY <2>1, <2>2, StateMarks
<1> QED BY <1>1, <1>2

\* What a reconciled journal row may be.
LEMMA ReconciledRow ==
  ASSUME Stored, NEW o \in Op, NEW i \in Steps, NEW row \in ReconciledCall(o, i)
  PROVE  \/ row = journal[o][i]
         \/ /\ journal[o][i].state = "started" /\ row.state = "failed"
            /\ row.response = journal[o][i].response
            /\ row \in CallRows
         \/ /\ journal[o][i].state = "started" /\ row.state = "succeeded"
            /\ row \in CallRows
            /\ \/ i \in Reads /\ row.response \in Responses
               \/ answered[o][i].count # 0 /\ row.response = answered[o][i].first
<1> DEFINE old == journal[o][i]
<1>1. /\ old \in CallRows
      /\ answered[o][i] \in [first : Answers, count : Nat]
  BY DEF CallRows, Stored
<1> DEFINE given == [old EXCEPT !.state = "failed"]
           found == [state |-> "succeeded", response |-> answered[o][i].first]
<1>2. \/ row = old
      \/ old.state = "started" /\ row = given
      \/ old.state = "started" /\ i \in Reads /\ row \in [state : {"succeeded"}, response : Responses]
      \/ old.state = "started" /\ answered[o][i].count # 0 /\ row = found
  BY DEF ReconciledCall
<1> HIDE DEF old
<1>3. row = given => /\ row.state = "failed" /\ row.response = old.response
                     /\ row \in CallRows
  BY <1>1 DEF CallRows, CallStates
<1>4. row = found => /\ row.state = "succeeded" /\ row.response = answered[o][i].first
                     /\ row \in CallRows
  BY <1>1 DEF CallRows, CallStates
<1>5. row \in [state : {"succeeded"}, response : Responses] =>
        /\ row.state = "succeeded" /\ row.response \in Responses
        /\ row \in CallRows
  BY DEF CallRows, CallStates, Answers
<1> QED BY <1>2, <1>3, <1>4, <1>5 DEF old

Reconciles(o, calls) == journal' = [journal EXCEPT ![o] = calls]

LEMMA ReconciledJournal ==
  ASSUME Stored, NEW o \in Op, NEW calls \in ReconciledCalls(o), Reconciles(o, calls)
  PROVE  /\ journal' \in [Op -> Calls]
         /\ \A p \in Op, i \in Steps :
              \/ journal'[p][i] = journal[p][i]
              \/ /\ p = o /\ journal[p][i].state = "started" /\ journal'[p][i].state = "failed"
              \/ /\ p = o /\ journal[p][i].state = "started" /\ journal'[p][i].state = "succeeded"
                 /\ \/ i \in Reads /\ journal'[p][i].response \in Responses
                    \/ /\ answered[p][i].count # 0
                       /\ journal'[p][i].response = answered[p][i].first
<1>1. \A i \in Steps : calls[i] \in ReconciledCall(o, i)
  BY DEF ReconciledCalls
<1>2. \A i \in Steps : journal[o][i] \in CallRows
  BY DEF CallRows, Stored
<1>3. \A i \in Steps : calls[i] \in CallRows
  BY <1>1, <1>2, ReconciledRow
<1>4. calls \in Calls
  BY <1>3 DEF ReconciledCalls, Calls
<1>5. /\ journal' \in [Op -> Calls] /\ journal'[o] = calls
      /\ \A p \in Op \ {o} : journal'[p] = journal[p]
  BY <1>4 DEF Reconciles, CallRows, Stored, Calls
<1> QED BY <1>1, <1>5, ReconciledRow

\* A job's state moves, but success stays, and only complete reaches it.
Settles(o, state) ==
  /\ Marks(o, state)
  /\ inner[o].state = "succeeded" => state = "succeeded"
  /\ state = "succeeded" =>
       \/ inner[o].state = "succeeded"
       \/ \E w \in Worker : worker[w].pc = "complete" /\ Mine(w) = o

\* The job of o records r for step i.
Records(o, i, r) == inner' = [inner EXCEPT ![o].steps[i] = r]

\* Every worker step leaves the jobs, marks one or records one step.
InnerMoves ==
  /\ inner' \in [Op -> InnerRows]
  /\ \/ inner' = inner
     \/ \E o \in Op, state \in InnerStates : Settles(o, state)
     \/ \E w \in Worker :
          /\ worker[w].pc = "record"
          /\ inner[Mine(w)].steps[NextStep(w)] \in {0, worker[w].got}
          /\ Records(Mine(w), NextStep(w), worker[w].got)

LEMMA MarkMoves ==
  ASSUME Stored, NEW o \in Op, NEW marker \in InnerStates, MarkInner(o, marker),
         marker # "succeeded"
  PROVE  InnerMoves
<1>1. PICK state \in InnerStates : /\ Marks(o, state)
                                   /\ state \in {inner[o].state, marker}
                                   /\ inner[o].state \in Terminal => state = inner[o].state
  BY MarkInnerMarks
<1>2. Settles(o, state)
  BY <1>1 DEF Settles, Terminal
<1> QED BY <1>2, MarkInnerMarks DEF InnerMoves

LEMMA StateMoves ==
  ASSUME Stored, NEW o \in Op, NEW state \in InnerStates,
         inner' = [inner EXCEPT ![o].state = state],
         inner[o].state = "succeeded" => state = "succeeded",
         \/ state # "succeeded"
         \/ inner[o].state = "succeeded"
         \/ \E w \in Worker : worker[w].pc = "complete" /\ Mine(w) = o
  PROVE  InnerMoves
<1>1. inner' \in [Op -> InnerRows] /\ Marks(o, state)
  BY StateMarks
<1> QED BY <1>1 DEF InnerMoves, Settles

LEMMA RecordsStep ==
  ASSUME Stored, NEW o \in Op, NEW i \in Steps, NEW r \in Answers, Records(o, i, r)
  PROVE  /\ inner' \in [Op -> InnerRows]
         /\ \A p \in Op \ {o} : inner'[p] = inner[p]
         /\ inner'[o].state = inner[o].state
         /\ inner'[o].steps[i] = r
         /\ \A j \in Steps \ {i} : inner'[o].steps[j] = inner[o].steps[j]
<1>1. inner \in [Op -> InnerRows] /\ inner[o].steps \in [Steps -> Answers]
  BY DEF Stored, InnerRows
<1> DEFINE steps == [inner[o].steps EXCEPT ![i] = r]
<1>2. /\ steps \in [Steps -> Answers] /\ steps[i] = r
      /\ \A j \in Steps \ {i} : steps[j] = inner[o].steps[j]
  BY <1>1
<1>3. inner' = [inner EXCEPT ![o].steps = steps]
  BY DEF Records
<1> HIDE DEF steps
<1> QED BY <1>1, <1>2, <1>3 DEF InnerRows

LEMMA HandlerInner ==
  ASSUME Typed, NEW w \in Worker, Handler(w)
  PROVE  InnerMoves
<1>f. worker[w] \in WorkerRows /\ Fit(worker[w])
  BY FitRow DEF Typed
<1>o. worker[w].pc \notin Unengaged => Mine(w) \in Op
  BY <1>f DEF Fit, Mine
<1>s. Stored /\ \A o \in Op : inner[o].state \in InnerStates
  BY DEF Typed, Stored
<1>i. {"accepted", "running", "failed", "indeterminate", "succeeded"} \subseteq InnerStates
  BY DEF InnerStates, OpStates, Terminal
<1>k. inner' = inner => InnerMoves
  BY DEF Typed, Stored, InnerMoves, InnerRows
<1>1. CASE StartHandler(w)
  <2> DEFINE state == IF inner[Mine(w)].state = "absent" THEN "accepted" ELSE inner[Mine(w)].state
  <2>1. Mine(w) \in Op
    BY <1>1, <1>o DEF StartHandler, At, Unengaged
  <2>2. (state \in InnerStates /\ state # "succeeded") \/ state = inner[Mine(w)].state
    BY <1>i
  <2>3. inner' = inner \/ inner' = [inner EXCEPT ![Mine(w)].state = state]
    BY <1>1 DEF StartHandler
  <2>4. inner[Mine(w)].state = "succeeded" => state = "succeeded"
    OBVIOUS
  <2>5. state \in InnerStates
    BY <2>1, <1>i, <1>s
  <2> HIDE DEF state
  <2> QED BY <2>1, <2>2, <2>3, <2>4, <2>5, <1>k, <1>s, StateMoves
<1>2. CASE OpenJob(w)
  <2>1. Mine(w) \in Op
    BY <1>2, <1>o DEF OpenJob, At, Unengaged
  <2>2. \/ inner' = inner
        \/ /\ inner[Mine(w)].state = "accepted"
           /\ inner' = [inner EXCEPT ![Mine(w)].state = "running"]
    BY <1>2 DEF OpenJob
  <2> QED BY <2>1, <2>2, <1>i, <1>k, <1>s, StateMoves
<1>3. CASE RecordStep(w)
  <2>1. worker[w].pc = "record" /\ worker[w].got \in Answers
    BY <1>3, <1>f DEF RecordStep, At, WorkerRows
  <2>2. Mine(w) \in Op /\ NextStep(w) \in Steps
    BY <2>1, CallPlace DEF Typed, InCall
  <2>3. \/ inner' = inner
        \/ /\ inner[Mine(w)].steps[NextStep(w)] \in {0, worker[w].got}
           /\ Records(Mine(w), NextStep(w), worker[w].got)
    BY <1>3 DEF RecordStep, Records
  <2>4. CASE /\ inner[Mine(w)].steps[NextStep(w)] \in {0, worker[w].got}
             /\ Records(Mine(w), NextStep(w), worker[w].got)
    <3>1. inner' \in [Op -> InnerRows]
      BY <2>1, <2>2, <2>4, <1>s, RecordsStep
    <3> QED BY <3>1, <2>1, <2>4 DEF InnerMoves
  <2> QED BY <2>3, <2>4, <1>k
<1>4. CASE CompleteJob(w)
  <2>1. worker[w].pc = "complete" /\ Mine(w) \in Op
    BY <1>4, <1>o DEF CompleteJob, At, Unengaged
  <2>2. inner' = inner \/ inner' = [inner EXCEPT ![Mine(w)].state = "succeeded"]
    BY <1>4 DEF CompleteJob
  <2> QED BY <2>1, <2>2, <1>i, <1>k, <1>s, StateMoves
<1>5. CASE FailFenced(w) \/ AbandonJob(w)
  <2>1. Mine(w) \in Op /\ (MarkInner(Mine(w), "failed") \/ MarkInner(Mine(w), "indeterminate"))
    BY <1>5, <1>o DEF FailFenced, AbandonJob, At, Unengaged
  <2> QED BY <2>1, <1>i, <1>s, MarkMoves
<1>6. CASE MarkOutcome(w)
  <2>1. /\ worker[w].pc = "settle" /\ Mine(w) \in Op
        /\ MarkInner(Mine(w), worker[w].outcome)
    BY <1>6, <1>o DEF MarkOutcome, At, Unengaged
  <2>2. worker[w].outcome \in InnerStates /\ worker[w].outcome # "succeeded"
    BY <2>1, <1>f DEF Fit, WorkerRows, Outcomes, InnerStates, OpStates
  <2> QED BY <2>1, <2>2, <1>s, MarkMoves
<1> QED
  BY <1>1, <1>2, <1>3, <1>4, <1>5, <1>6, <1>k
  DEF Handler, BeginEngine, StepBoundary, LastStep, AdmitCall, PhysicalCall, CallReturns,
      CheckUsage, BeatAfterStep, FinishLoop, CommitOutcome, ParkAttempt, CancelOrBeat, RegistryOnly

LEMMA InnerStep ==
  ASSUME Typed, [DispatchNext]_allvars
  PROVE  InnerMoves
<1>s. Stored /\ \A o \in Op : inner[o].state \in InnerStates
  BY DEF Typed, Stored
<1>i. {"accepted", "cancelled"} \subseteq InnerStates
  BY DEF InnerStates, OpStates, Terminal
<1>k. inner' = inner => InnerMoves
  BY DEF Typed, Stored, InnerMoves, InnerRows
<1>1. ASSUME NEW w \in Worker, RecoverAndClaim(w) PROVE InnerMoves
  <2>1. CASE ResumeJob(w)
    <3>1. worker[w].pc = "resume"
      BY <2>1 DEF ResumeJob, At
    <3>2. Mine(w) \in Op
      BY <3>1, FitRow DEF Typed, Fit, Mine, Unengaged
    <3>3. \/ inner' = inner
          \/ /\ Resumable(inner[Mine(w)].state)
             /\ inner' = [inner EXCEPT ![Mine(w)].state = "accepted"]
      BY <2>1 DEF ResumeJob, AbortPass
    <3> QED BY <3>2, <3>3, <1>i, <1>k, <1>s, StateMoves DEF Resumable
  <2> QED BY <1>1, <2>1, <1>k
          DEF RecoverAndClaim, ListEffects, ReconcileEffects, FenceUnderLock, ListCandidates,
              EndPass, DecideCandidate, DecideFromMarker, DecideToPark, DecideContinuation, Parks,
              Decides, RequeueSuccessor, AbortPass, ClaimWork, RegistryOnly
<1>2. ASSUME NEW o \in Op, Submit(o) PROVE InnerMoves
  <2>1. CASE SubmitEnsure(o)
    BY <2>1, <1>i, <1>s, StateMoves DEF SubmitEnsure
  <2> QED BY <1>2, <2>1, <1>k DEF Submit, SubmitAccept, SubmitBindPolicy, SubmitDispatch,
                                  SubmitRefused, dvars
<1>3. ASSUME NEW o \in Op, CancelOperation(o) PROVE InnerMoves
  <2>1. CASE CancelMark(o)
    BY <2>1, <1>i, <1>s, MarkMoves DEF CancelMark
  <2> QED BY <1>3, <2>1, <1>k DEF CancelOperation, CancelBegin, CancelDirect, CancelIntent,
                                  CancelDequeue
<1>4. CASE PassTime \/ Restart \/ UNCHANGED allvars
  BY <1>4, <1>k DEF PassTime, Restart, allvars, dvars
<1> QED BY <1>1, <1>2, <1>3, <1>4, HandlerInner DEF DispatchNext, WorkerStep

\* A row of the journal opens once, and takes an outcome that somebody holds.
JournalMoves(o, i) ==
  \/ journal'[o][i] = journal[o][i]
  \/ journal'[o][i].state = "failed"
  \/ journal[o][i].state = "none" /\ journal'[o][i].state = "started"
  \/ /\ journal'[o][i].state = "succeeded"
     /\ \/ i \in Reads /\ journal'[o][i].response \in Responses
        \/ answered[o][i].count # 0 /\ journal'[o][i].response = answered[o][i].first
        \/ \E w \in Worker :
             /\ worker[w].pc = "returning" /\ Mine(w) = o /\ NextStep(w) = i
             /\ worker[w].got # 0 /\ journal'[o][i].response = worker[w].got

JournalGoes == journal' \in [Op -> Calls] /\ \A o \in Op, i \in Steps : JournalMoves(o, i)

\* One row of the journal changes.
Puts(o, i, row) == journal' = [journal EXCEPT ![o][i] = row]

LEMMA JournalRow ==
  ASSUME Stored, NEW o \in Op, NEW i \in Steps,
         NEW row \in CallRows,
         Puts(o, i, row)
  PROVE  /\ journal' \in [Op -> Calls]
         /\ journal'[o][i] = row
         /\ \A p \in Op, j \in Steps : p # o \/ j # i => journal'[p][j] = journal[p][j]
<1>1. journal \in [Op -> Calls]
  BY DEF CallRows, Stored, Calls
<1> DEFINE calls == [journal[o] EXCEPT ![i] = row]
<1>2. /\ calls \in Calls /\ calls[i] = row
      /\ \A j \in Steps \ {i} : calls[j] = journal[o][j]
  BY <1>1 DEF Calls
<1>3. journal' = [journal EXCEPT ![o] = calls]
  BY DEF Puts
<1> HIDE DEF calls
<1> QED BY <1>1, <1>2, <1>3

LEMMA RowIsCall ==
  ASSUME Stored, NEW o \in Op, NEW i \in Steps, NEW state \in CallStates
  PROVE  /\ journal[o][i] \in CallRows
         /\ [journal[o][i] EXCEPT !.state = state] \in CallRows
         /\ [journal[o][i] EXCEPT !.state = state].state = state
<1>1. journal[o][i] \in CallRows
  BY DEF CallRows, Stored
<1> DEFINE row == journal[o][i]
<1> HIDE DEF row
<1>2. row \in CallRows =>
        /\ [row EXCEPT !.state = state] \in CallRows
        /\ [row EXCEPT !.state = state].state = state
  BY DEF CallRows
<1> QED BY <1>1, <1>2 DEF row

LEMMA JournalStays == Stored /\ journal' = journal => JournalGoes
BY DEF CallRows, Stored, Calls, JournalGoes, JournalMoves

LEMMA ReconciledGoes ==
  ASSUME Stored, NEW o \in Op,
         \E calls \in ReconciledCalls(o) : journal' = [journal EXCEPT ![o] = calls]
  PROVE  JournalGoes
<1>1. PICK calls \in ReconciledCalls(o) : Reconciles(o, calls)
  BY DEF Reconciles
<1>2. /\ journal' \in [Op -> Calls]
      /\ \A p \in Op, i \in Steps :
           \/ journal'[p][i] = journal[p][i]
           \/ journal'[p][i].state = "failed"
           \/ /\ journal'[p][i].state = "succeeded"
              /\ \/ i \in Reads /\ journal'[p][i].response \in Responses
                 \/ /\ answered[p][i].count # 0
                    /\ journal'[p][i].response = answered[p][i].first
  BY <1>1, ReconciledJournal
<1> QED BY <1>2 DEF JournalGoes, JournalMoves

LEMMA RowGoes ==
  ASSUME Stored, NEW o \in Op, NEW i \in Steps,
         NEW row \in CallRows,
         Puts(o, i, row), JournalMoves(o, i)
  PROVE  JournalGoes
<1>1. /\ journal' \in [Op -> Calls]
      /\ \A p \in Op, j \in Steps : p # o \/ j # i => journal'[p][j] = journal[p][j]
  BY JournalRow
<1>2. \A p \in Op, j \in Steps : JournalMoves(p, j)
  <2> SUFFICES ASSUME NEW p \in Op, NEW j \in Steps PROVE JournalMoves(p, j)
    OBVIOUS
  <2>1. CASE p = o /\ j = i
    BY <2>1
  <2>2. CASE p # o \/ j # i
    BY <1>1, <2>2 DEF JournalMoves
  <2> QED BY <2>1, <2>2
<1> QED BY <1>1, <1>2 DEF JournalGoes

LEMMA JournalStep ==
  ASSUME Typed, [DispatchNext]_allvars
  PROVE  JournalGoes
<1>s. Stored /\ {"started", "succeeded", "failed"} \subseteq CallStates
  BY DEF Typed, CallStates
<1>k. journal' = journal => JournalGoes
  BY <1>s, JournalStays
<1>1. ASSUME NEW w \in Worker, Handler(w) PROVE JournalGoes
  <2> DEFINE o == Mine(w)
             i == NextStep(w)
  <2>p. worker[w].pc \in InCall => o \in Op /\ i \in Steps
    BY CallPlace DEF Typed
  <2>g. worker[w] \in WorkerRows
    BY FitRow DEF Typed
  <2>1. CASE AdmitCall(w)
    <3>1. o \in Op /\ i \in Steps
      BY <2>1, <2>p DEF AdmitCall, At, InCall
    <3>2. \/ journal' = journal
          \/ /\ journal[o][i].state = "none"
             /\ journal' = [journal EXCEPT ![o][i].state = "started"]
      BY <2>1 DEF AdmitCall, MaySend
    <3>3. CASE /\ journal[o][i].state = "none"
               /\ journal' = [journal EXCEPT ![o][i].state = "started"]
      <4> DEFINE row == [journal[o][i] EXCEPT !.state = "started"]
      <4>1. row \in CallRows /\ row.state = "started"
        BY <3>1, <1>s, RowIsCall
      <4>2. Puts(o, i, row)
        BY <3>3 DEF Puts
      <4> HIDE DEF row, o, i
      <4>3. journal'[o][i] = row
        BY <4>1, <4>2, <3>1, <1>s, JournalRow
      <4>4. JournalMoves(o, i)
        BY <4>1, <4>3, <3>3 DEF JournalMoves
      <4> QED BY <4>1, <4>2, <4>4, <3>1, <1>s, RowGoes
    <3> QED BY <3>2, <3>3, <1>k
  <2>2. CASE CallReturns(w)
    <3>1. o \in Op /\ i \in Steps /\ worker[w].pc = "returning"
      BY <2>2, <2>p DEF CallReturns, At, InCall
    <3>2. CASE /\ worker[w].got # 0
               /\ journal' = [journal EXCEPT ![o][i] =
                    [state |-> "succeeded", response |-> worker[w].got]]
      <4> DEFINE row == [state |-> "succeeded", response |-> worker[w].got]
      <4>1. /\ row \in CallRows
            /\ row.state = "succeeded" /\ row.response = worker[w].got
        BY <2>g, <1>s DEF CallRows, WorkerRows
      <4>2. Puts(o, i, row)
        BY <3>2 DEF Puts
      <4>3. Mine(w) = o /\ NextStep(w) = i
        OBVIOUS
      <4> HIDE DEF row, o, i
      <4>4. journal'[o][i] = row
        BY <4>1, <4>2, <3>1, <1>s, JournalRow
      <4>5. JournalMoves(o, i)
        BY <4>1, <4>3, <4>4, <3>1, <3>2 DEF JournalMoves
      <4> QED BY <4>1, <4>2, <4>5, <3>1, <1>s, RowGoes
    <3>3. CASE journal' = [journal EXCEPT ![o][i].state = "failed"]
      <4> DEFINE row == [journal[o][i] EXCEPT !.state = "failed"]
      <4>1. row \in CallRows /\ row.state = "failed"
        BY <3>1, <1>s, RowIsCall
      <4>2. Puts(o, i, row)
        BY <3>3 DEF Puts
      <4> HIDE DEF row, o, i
      <4>3. journal'[o][i] = row
        BY <4>1, <4>2, <3>1, <1>s, JournalRow
      <4>4. JournalMoves(o, i)
        BY <4>1, <4>3 DEF JournalMoves
      <4> QED BY <4>1, <4>2, <4>4, <3>1, <1>s, RowGoes
    <3> QED BY <2>2, <3>2, <3>3 DEF CallReturns
  <2>3. CASE CheckUsage(w)
    <3>1. o \in Op /\ i \in Steps
      BY <2>3, <2>p DEF CheckUsage, At, InCall
    <3> DEFINE state == IF journal[o][i].state = "succeeded" THEN "failed" ELSE journal[o][i].state
               row == [journal[o][i] EXCEPT !.state = state]
    <3>2. journal' = journal \/ Puts(o, i, row)
      BY <2>3 DEF CheckUsage, Puts
    <3>3. /\ journal[o][i] \in CallRows
          /\ state \in CallStates
      BY <3>1, <1>s DEF CallRows, Stored
    <3>4. /\ row \in CallRows
          /\ row.state = "failed" \/ row = journal[o][i]
      <4>1. state = "failed" \/ state = journal[o][i].state
        OBVIOUS
      <4> HIDE DEF state
      <4>2. \A r \in CallRows : [r EXCEPT !.state = r.state] = r
        BY DEF CallRows
      <4> QED BY <3>1, <3>3, <4>1, <4>2, <1>s, RowIsCall
    <3> HIDE DEF row, o, i
    <3>5. CASE Puts(o, i, row)
      <4>1. journal'[o][i] = row
        BY <3>1, <3>4, <3>5, <1>s, JournalRow
      <4>2. JournalMoves(o, i)
        BY <4>1, <3>4 DEF JournalMoves
      <4> QED BY <4>2, <3>1, <3>4, <3>5, <1>s, RowGoes
    <3> QED BY <3>2, <3>5, <1>k
  <2> QED
    BY <1>1, <2>1, <2>2, <2>3, <1>k
    DEF Handler, StartHandler, BeginEngine, OpenJob, StepBoundary, LastStep, PhysicalCall,
        RecordStep, BeatAfterStep, FinishLoop, CompleteJob, FailFenced, MarkOutcome,
        CommitOutcome, AbandonJob, ParkAttempt, CancelOrBeat, RegistryOnly
<1>2. ASSUME NEW w \in Worker, RecoverAndClaim(w) PROVE JournalGoes
  <2>1. CASE ReconcileEffects(w)
    <3>1. PICK o \in worker[w].listed :
            \E calls \in ReconciledCalls(o) : journal' = [journal EXCEPT ![o] = calls]
      BY <2>1 DEF ReconcileEffects
    <3>2. o \in Op
      BY FitRow DEF Typed, WorkerRows
    <3> QED BY <3>1, <3>2, <1>s, ReconciledGoes
  <2>2. CASE DecideCandidate(w)
    <3>1. PICK o \in scan : journal' = journal \/ DecideContinuation(w, o)
      BY <2>2 DEF DecideCandidate, DecideFromMarker, DecideToPark
    <3>2. o \in Op
      BY DEF Typed, TypeOK
    <3> QED BY <3>1, <3>2, <1>s, <1>k, ReconciledGoes DEF DecideContinuation
  <2> QED BY <1>2, <2>1, <2>2, <1>k
          DEF RecoverAndClaim, ListEffects, FenceUnderLock, ListCandidates, EndPass, ResumeJob,
              RequeueSuccessor, ClaimWork, RegistryOnly
<1>3. CASE UNCHANGED journal
  BY <1>3, <1>k
<1> QED
  BY <1>1, <1>2, <1>3
  DEF DispatchNext, WorkerStep, Submit, SubmitAccept, SubmitEnsure, SubmitBindPolicy,
      SubmitDispatch, SubmitRefused, CancelOperation, CancelBegin, CancelDirect, CancelIntent,
      CancelDequeue, CancelMark, PassTime, Restart, dvars, allvars

\* Only a call that is under way is answered, and it is then no longer under way.
AnsweredMoves(o, i) ==
  \/ answered'[o][i] = answered[o][i]
  \/ \E w \in Worker, r \in Responses :
       /\ worker[w].pc = "calling" /\ Mine(w) = o /\ NextStep(w) = i
       /\ worker'[w].pc # "calling"
       /\ answered'[o][i].first = IF answered[o][i].count = 0 THEN r ELSE answered[o][i].first
       /\ answered'[o][i].count = answered[o][i].count + 1

AnswersCome ==
  /\ answered' \in [Op -> [Steps -> [first : Answers, count : Nat]]]
  /\ \A o \in Op, i \in Steps : AnsweredMoves(o, i)

LEMMA ExecutedRow ==
  ASSUME Stored, NEW o \in Op, NEW i \in Steps, NEW r \in Responses, Executed(o, i, r)
  PROVE  /\ answered' \in [Op -> [Steps -> [first : Answers, count : Nat]]]
         /\ answered'[o][i].first = IF answered[o][i].count = 0 THEN r ELSE answered[o][i].first
         /\ answered'[o][i].count = answered[o][i].count + 1
         /\ \A p \in Op, j \in Steps : p # o \/ j # i => answered'[p][j] = answered[p][j]
<1> DEFINE old == answered[o][i]
           row == [first |-> IF old.count = 0 THEN r ELSE old.first, count |-> old.count + 1]
           rows == [answered[o] EXCEPT ![i] = row]
<1>1. /\ answered \in [Op -> [Steps -> [first : Answers, count : Nat]]]
      /\ old \in [first : Answers, count : Nat]
  BY DEF Stored
<1>2. answered' = [answered EXCEPT ![o] = rows]
  BY DEF Executed
<1>3. row \in [first : Answers, count : Nat]
  BY <1>1 DEF Answers
<1>4. /\ row.first = IF old.count = 0 THEN r ELSE old.first
      /\ row.count = old.count + 1
  OBVIOUS
<1> HIDE DEF row
<1>5. /\ rows \in [Steps -> [first : Answers, count : Nat]] /\ rows[i] = row
      /\ \A j \in Steps \ {i} : rows[j] = answered[o][j]
  BY <1>1, <1>3
<1> HIDE DEF rows
<1> QED BY <1>1, <1>2, <1>4, <1>5

LEMMA AnsweredStep ==
  ASSUME Typed, [DispatchNext]_allvars
  PROVE  AnswersCome
<1>k. answered' = answered => AnswersCome
  BY DEF Typed, Stored, AnswersCome, AnsweredMoves
<1>1. ASSUME NEW w \in Worker, PhysicalCall(w) PROVE AnswersCome
  <2> DEFINE o == Mine(w)
             i == NextStep(w)
  <2>1. /\ worker[w].pc = "calling" /\ o \in Op /\ i \in Steps
        /\ Mine(w) = o /\ NextStep(w) = i
    BY <1>1, CallPlace DEF PhysicalCall, At, InCall, Typed
  <2>2. worker'[w].pc # "calling"
    <3>1. \/ \E r \in Responses : worker' = [worker EXCEPT ![w].pc = "returning", ![w].got = r]
          \/ Goto(w, "returning")
          \/ Settle(w, "indeterminate")
      BY <1>1 DEF PhysicalCall
    <3> QED BY <3>1 DEF Typed, Manned, WorkerRows, Goto, Settle
  <2>3. answered' = answered \/ \E r \in Responses : Executed(o, i, r)
    BY <1>1 DEF PhysicalCall
  <2> HIDE DEF o, i
  <2>4. ASSUME NEW r \in Responses, Executed(o, i, r) PROVE AnswersCome
    BY <2>1, <2>2, <2>4, ExecutedRow DEF Typed, AnswersCome, AnsweredMoves
  <2> QED BY <2>3, <2>4, <1>k
<1>2. CASE UNCHANGED answered
  BY <1>2, <1>k
<1>3. ASSUME NEW w \in Worker, RecoverAndClaim(w) PROVE UNCHANGED answered
  BY <1>3
  DEF RecoverAndClaim, ListEffects, ReconcileEffects, FenceUnderLock, ListCandidates, EndPass,
      DecideCandidate, DecideFromMarker, DecideToPark, DecideContinuation, Parks, Decides,
      ResumeJob, RequeueSuccessor, AbortPass, ClaimWork, RegistryOnly
<1>4. ASSUME NEW w \in Worker, Handler(w), ~PhysicalCall(w) PROVE UNCHANGED answered
  BY <1>4
  DEF Handler, StartHandler, BeginEngine, OpenJob, StepBoundary, LastStep, AdmitCall, CallReturns,
      CheckUsage, RecordStep, BeatAfterStep, FinishLoop, CompleteJob, FailFenced, MarkOutcome,
      CommitOutcome, AbandonJob, ParkAttempt, CancelOrBeat, RegistryOnly
<1>5. ASSUME NEW o \in Op, Submit(o) \/ CancelOperation(o) PROVE UNCHANGED answered
  BY <1>5
  DEF Submit, SubmitAccept, SubmitEnsure, SubmitBindPolicy, SubmitDispatch, SubmitRefused,
      CancelOperation, CancelBegin, CancelDirect, CancelIntent, CancelDequeue, CancelMark, dvars
<1>6. PassTime \/ Restart \/ UNCHANGED allvars => UNCHANGED answered
  BY DEF PassTime, Restart, dvars, allvars
<1> QED
  BY <1>1, <1>2, <1>3, <1>4, <1>5, <1>6 DEF DispatchNext, WorkerStep

\* The composition's types, and what makes it a use of the registry.
LEMMA StoredStep ==
  ASSUME Typed, [DispatchNext]_allvars
  PROVE  Stored'
<1>1. inner' \in [Op -> InnerRows]
  BY InnerStep DEF InnerMoves
<1>2. journal' \in [Op -> Calls]
  BY JournalStep DEF JournalGoes
<1>3. answered' \in [Op -> [Steps -> [first : Answers, count : Nat]]]
  BY AnsweredStep DEF AnswersCome
<1>4. holder' \subseteq Worker
  <2>1. holder' = holder \/ holder' = {} \/ \E w \in Worker : holder' = {w}
    <3>1. ASSUME NEW w \in Worker, RecoverAndClaim(w)
          PROVE  holder' = holder \/ holder' = {} \/ holder' = {w}
      BY <3>1
      DEF RecoverAndClaim, ListEffects, ReconcileEffects, FenceUnderLock, ListCandidates, EndPass,
          DecideCandidate, DecideFromMarker, DecideToPark, DecideContinuation, Parks, Decides,
          ResumeJob, RequeueSuccessor, AbortPass, ClaimWork, RegistryOnly
    <3>2. ASSUME NEW w \in Worker, Handler(w) PROVE holder' = holder
      BY <3>2
      DEF Handler, StartHandler, BeginEngine, OpenJob, StepBoundary, LastStep, AdmitCall,
          PhysicalCall, CallReturns, CheckUsage, RecordStep, BeatAfterStep, FinishLoop,
          CompleteJob, FailFenced, MarkOutcome, CommitOutcome, AbandonJob, ParkAttempt,
          CancelOrBeat, RegistryOnly
    <3>3. ASSUME NEW o \in Op, Submit(o) \/ CancelOperation(o) PROVE holder' = holder
      BY <3>3
      DEF Submit, SubmitAccept, SubmitEnsure, SubmitBindPolicy, SubmitDispatch, SubmitRefused,
          CancelOperation, CancelBegin, CancelDirect, CancelIntent, CancelDequeue, CancelMark, dvars
    <3>4. PassTime \/ Restart \/ UNCHANGED allvars => holder' \in {holder, {}}
      BY DEF PassTime, Restart, dvars, allvars
    <3> QED BY <3>1, <3>2, <3>3, <3>4 DEF DispatchNext, WorkerStep
  <2> QED BY <2>1 DEF Typed, Stored
<1>5. canceller' \in [Op -> {"idle", "direct", "intent", "dequeue", "mark"}]
  <2>0. canceller \in [Op -> {"idle", "direct", "intent", "dequeue", "mark"}]
    BY DEF Typed, Stored
  <2>1. ASSUME NEW w \in Worker, WorkerStep(w) PROVE canceller' = canceller
    <3>1. ASSUME RecoverAndClaim(w) PROVE canceller' = canceller
      BY <3>1
      DEF RecoverAndClaim, ListEffects, ReconcileEffects, FenceUnderLock, ListCandidates, EndPass,
          DecideCandidate, DecideFromMarker, DecideToPark, DecideContinuation, Parks, Decides,
          ResumeJob, RequeueSuccessor, AbortPass, ClaimWork, RegistryOnly
    <3>2. ASSUME Handler(w) PROVE canceller' = canceller
      BY <3>2
      DEF Handler, StartHandler, BeginEngine, OpenJob, StepBoundary, LastStep, AdmitCall,
          PhysicalCall, CallReturns, CheckUsage, RecordStep, BeatAfterStep, FinishLoop,
          CompleteJob, FailFenced, MarkOutcome, CommitOutcome, AbandonJob, ParkAttempt,
          CancelOrBeat, RegistryOnly
    <3> QED BY <2>1, <3>1, <3>2 DEF WorkerStep
  <2>2. ASSUME NEW o \in Op, Submit(o) PROVE canceller' = canceller
    BY <2>2 DEF Submit, SubmitAccept, SubmitEnsure, SubmitBindPolicy, SubmitDispatch,
                SubmitRefused, dvars
  <2>3. ASSUME NEW o \in Op, CancelOperation(o)
        PROVE  canceller' \in [Op -> {"idle", "direct", "intent", "dequeue", "mark"}]
    <3>1. \E pc \in {"idle", "direct", "intent", "dequeue", "mark"} :
            canceller' = [canceller EXCEPT ![o] = pc]
      BY <2>3 DEF CancelOperation, CancelBegin, CancelDirect, CancelIntent, CancelDequeue,
                  CancelMark
    <3> QED BY <2>0, <3>1
  <2>4. Restart => canceller' = [o \in Op |-> "idle"]
    BY DEF Restart
  <2>5. PassTime \/ UNCHANGED allvars => canceller' = canceller
    BY DEF PassTime, dvars, allvars
  <2> QED BY <2>0, <2>1, <2>2, <2>3, <2>4, <2>5 DEF DispatchNext
<1> QED BY <1>1, <1>2, <1>3, <1>4, <1>5 DEF CallRows, Stored, InnerRows, Calls

LEMMA TypedInit == DispatchInit => Typed
<1> SUFFICES ASSUME DispatchInit PROVE Typed
  OBVIOUS
<1>1. TypeOK
  BY TypeInit DEF DispatchInit
<1>2. Stored
  BY StepAssumption
  DEF DispatchInit, Stored, InnerStates, OpStates, CallStates, Answers
<1>3. NoWorker \in WorkerRows /\ Fit(NoWorker)
  BY BoundsAssumption, StepAssumption
  DEF NoWorker, WorkerRows, Points, AttemptRef, Answers, Outcomes, Fit, Unengaged, InCall, Empty
<1>4. Manned
  BY <1>3 DEF DispatchInit, Manned
<1> QED BY <1>1, <1>2, <1>4 DEF Typed

LEMMA TypedStep == Typed /\ [DispatchNext]_allvars => Typed'
BY RegistryStep, TypeStep, StoredStep, MannedStep DEF Typed

LEMMA TypedInvariant == DispatchSpec => []Typed
BY TypedInit, TypedStep, PTL DEF DispatchSpec

\* Every variable of durable dispatch keeps its type.
THEOREM DispatchTypes == DispatchSpec => []DispatchTypeOK
<1>1. Typed => DispatchTypeOK
  BY DEF Typed, Stored, Manned, WorkerRows, Outcomes, DispatchTypeOK
<1> QED BY <1>1, TypedInvariant, PTL

\* Whatever workers, callers and restarts do with it, the registry is used by
\* its own methods only: all its promises hold of durable dispatch.
THEOREM DispatchUsesRegistry == DispatchSpec => Spec
<1>1. DispatchInit => Init
  BY DEF DispatchInit
<1>2. Typed /\ [DispatchNext]_allvars => [Next]_vars
  BY RegistryStep
<1> QED BY <1>1, <1>2, TypedInvariant, PTL DEF DispatchSpec, Spec

-----------------------------------------------------------------------------
(* One call of a model step.  The journal row opens before the call and    *)
(* never closes again, so whoever finds it open does not call.             *)

SentOnce ==
  \A o \in Op, i \in Steps \ Reads :
    /\ journal[o][i].state = "none" => answered[o][i].count = 0
    /\ answered[o][i].count <= 1

CallsAreFirst ==
  \A w \in Worker :
    worker[w].pc = "calling" /\ NextStep(w) \notin Reads =>
      /\ journal[Mine(w)][NextStep(w)].state # "none"
      /\ answered[Mine(w)][NextStep(w)].count = 0

OneCaller ==
  \A v, w \in Worker :
    /\ worker[v].pc = "calling" /\ worker[w].pc = "calling"
    /\ Mine(v) = Mine(w) /\ NextStep(v) = NextStep(w) /\ NextStep(v) \notin Reads
    => v = w

Sent == SentOnce /\ CallsAreFirst /\ OneCaller

\* Nobody enters a call.
NobodyCalls == \A v \in Worker : worker'[v].pc = "calling" => worker'[v] = worker[v]

\* w opens a journal row and enters its call.
Sends(w) ==
  /\ worker[w].pc = "call"
  /\ worker'[w].op = worker[w].op /\ worker'[w].at = worker[w].at
  /\ journal[Mine(w)][NextStep(w)].state = "none"
  /\ journal'[Mine(w)][NextStep(w)].state = "started"
  /\ \A v \in Worker \ {w} : worker'[v] = worker[v]
  /\ answered' = answered

LEMMA TurnCallsNobody ==
  ASSUME NEW w \in Worker, NEW pc, NEW o, NEW n, NEW at, NEW got, NEW outcome,
         Turns(w, pc, o, n, at, got, outcome), pc # "calling"
  PROVE  NobodyCalls
BY DEF Turns, NobodyCalls

LEMMA GoingCallsNobody ==
  ASSUME Manned, NEW w \in Worker,
         \/ \E pc \in Points \ {"calling"} : Goto(w, pc)
         \/ \E outcome \in Outcomes : Settle(w, outcome)
         \/ Rest(w)
         \/ UNCHANGED worker
  PROVE  NobodyCalls
<1>1. ASSUME NEW pc \in Points \ {"calling"}, Goto(w, pc) PROVE NobodyCalls
  BY <1>1, GotoTurns, TurnCallsNobody
<1>2. ASSUME NEW outcome \in Outcomes, Settle(w, outcome) PROVE NobodyCalls
  BY <1>2, SettleTurns, TurnCallsNobody
<1>3. CASE Rest(w)
  BY <1>3, RestTurns, TurnCallsNobody
<1>4. CASE UNCHANGED worker
  BY <1>4 DEF NobodyCalls
<1> QED BY <1>1, <1>2, <1>3, <1>4

LEMMA HandlerCalls ==
  ASSUME Typed, NEW w \in Worker, Handler(w)
  PROVE  NobodyCalls \/ Sends(w)
<1> USE DEF Typed
<1>0. {"timed_out", "failed", "indeterminate", "cancelled"} \subseteq Outcomes
  BY DEF Outcomes, Terminal
<1>p. {"begin", "open", "step", "call", "returning", "check", "record", "beat", "finish",
       "complete", "fenced", "commit", "park", "abandon"} \subseteq Points \ {"calling"}
  BY DEF Points
<1>1. CASE StartHandler(w)
  BY <1>1, <1>0, <1>p, GoingCallsNobody DEF StartHandler
<1>2. CASE BeginEngine(w) \/ FinishLoop(w)
  BY <1>2, <1>0, <1>p, GoingCallsNobody DEF BeginEngine, FinishLoop, CancelOrBeat
<1>3. CASE OpenJob(w)
  <2>1. ASSUME NEW k, worker' = [worker EXCEPT ![w].pc = "step", ![w].at = k] PROVE NobodyCalls
    BY <2>1 DEF Manned, WorkerRows, NobodyCalls
  <2> QED BY <1>3, <2>1, <1>0, GoingCallsNobody DEF OpenJob
<1>4. CASE StepBoundary(w)
  <2>1. \/ \E outcome \in {"timed_out", "cancelled"} : Settle(w, outcome)
        \/ \E pc \in {"fenced", "finish", "call"} : Goto(w, pc)
    BY <1>4 DEF StepBoundary, CancelOrBeat
  <2> QED BY <2>1, <1>0, <1>p, GoingCallsNobody
<1>5. CASE LastStep(w)
  BY <1>5, <1>p, GoingCallsNobody DEF LastStep
<1>6. CASE AdmitCall(w)
  <2>1. \/ \E outcome \in {"timed_out", "failed", "indeterminate"} : Settle(w, outcome)
        \/ worker' = [worker EXCEPT ![w].pc = "record",
                        ![w].got = journal[Mine(w)][NextStep(w)].response]
        \/ /\ journal[Mine(w)][NextStep(w)].state = "none"
           /\ journal' = [journal EXCEPT ![Mine(w)][NextStep(w)].state = "started"]
           /\ Goto(w, "calling")
    BY <1>6 DEF AdmitCall, MaySend
  <2>2. worker[w].pc = "call" /\ answered' = answered
    BY <1>6 DEF AdmitCall, At
  <2>3. ASSUME NEW r, worker' = [worker EXCEPT ![w].pc = "record", ![w].got = r]
        PROVE  NobodyCalls
    BY <2>3 DEF Manned, WorkerRows, NobodyCalls
  <2>4. CASE /\ journal[Mine(w)][NextStep(w)].state = "none"
             /\ journal' = [journal EXCEPT ![Mine(w)][NextStep(w)].state = "started"]
             /\ Goto(w, "calling")
    <3> DEFINE o == Mine(w)
               i == NextStep(w)
               row == [journal[o][i] EXCEPT !.state = "started"]
    <3>1. o \in Op /\ i \in Steps
      BY <2>2, CallPlace DEF InCall
    <3>2. row \in CallRows /\ row.state = "started"
      BY <3>1, RowIsCall DEF CallStates
    <3>3. Puts(o, i, row)
      BY <2>4 DEF Puts
    <3> HIDE DEF row, o, i
    <3>4. journal'[o][i].state = "started"
      BY <3>1, <3>2, <3>3, JournalRow
    <3>5. Turns(w, "calling", worker[w].op, worker[w].claim, worker[w].at, worker[w].got,
                worker[w].outcome)
      BY <2>4, GotoTurns DEF Points
    <3> QED BY <2>2, <2>4, <3>4, <3>5 DEF Sends, Turns, o, i
  <2> QED BY <2>1, <2>3, <2>4, <1>0, GoingCallsNobody
<1>7. CASE PhysicalCall(w)
  <2>1. \/ \E r \in Responses : worker' = [worker EXCEPT ![w].pc = "returning", ![w].got = r]
        \/ Goto(w, "returning")
        \/ Settle(w, "indeterminate")
    BY <1>7 DEF PhysicalCall
  <2>2. ASSUME NEW r, worker' = [worker EXCEPT ![w].pc = "returning", ![w].got = r]
        PROVE  NobodyCalls
    BY <2>2 DEF Manned, WorkerRows, NobodyCalls
  <2> QED BY <2>1, <2>2, <1>0, <1>p, GoingCallsNobody
<1>8. CASE CallReturns(w) \/ CheckUsage(w) \/ BeatAfterStep(w)
  <2>1. Settle(w, "failed") \/ \E pc \in {"check", "record", "step", "fenced"} : Goto(w, pc)
    BY <1>8 DEF CallReturns, CheckUsage, BeatAfterStep
  <2> QED BY <2>1, <1>0, <1>p, GoingCallsNobody
<1>9. CASE RecordStep(w)
  <2>1. worker' = [worker EXCEPT ![w].pc = "beat", ![w].at = NextStep(w), ![w].got = 0]
        => NobodyCalls
    BY DEF Manned, WorkerRows, NobodyCalls
  <2>2. \/ Settle(w, "failed")
        \/ worker' = [worker EXCEPT ![w].pc = "beat", ![w].at = NextStep(w), ![w].got = 0]
    BY <1>9 DEF RecordStep
  <2> QED BY <2>1, <2>2, <1>0, GoingCallsNobody
<1>10. CASE CompleteJob(w) \/ FailFenced(w)
  <2>1. ASSUME NEW outcome, worker' = [worker EXCEPT ![w].pc = "commit", ![w].outcome = outcome]
        PROVE  NobodyCalls
    BY <2>1 DEF Manned, WorkerRows, NobodyCalls
  <2> QED BY <1>10, <2>1, <1>0, GoingCallsNobody DEF CompleteJob, FailFenced
<1>11. CASE MarkOutcome(w) \/ CommitOutcome(w) \/ AbandonJob(w) \/ ParkAttempt(w)
  <2>1. Rest(w) \/ \E pc \in {"commit", "abandon", "park"} : Goto(w, pc)
    BY <1>11 DEF MarkOutcome, CommitOutcome, AbandonJob, ParkAttempt
  <2> QED BY <2>1, <1>p, GoingCallsNobody
<1> QED
  BY <1>1, <1>2, <1>3, <1>4, <1>5, <1>6, <1>7, <1>8, <1>9, <1>10, <1>11 DEF Handler

LEMMA RecoveryCalls ==
  ASSUME Typed, NEW w \in Worker, RecoverAndClaim(w)
  PROVE  NobodyCalls
<1> USE DEF Typed
<1>p. {"list", "decide", "claim", "requeue"} \subseteq Points \ {"calling"}
  BY DEF Points
<1>1. CASE ListEffects(w)
  <2>1. ASSUME NEW found, worker' = [worker EXCEPT ![w].pc = "effects", ![w].listed = found]
        PROVE  NobodyCalls
    BY <2>1 DEF Manned, WorkerRows, NobodyCalls
  <2> QED BY <1>1, <2>1 DEF ListEffects
<1>2. CASE ReconcileEffects(w)
  <2>1. worker[w].pc = "effects" /\ \E o : worker' = [worker EXCEPT ![w].listed = @ \ {o}]
    BY <1>2 DEF ReconcileEffects, At
  <2> QED BY <2>1 DEF Manned, WorkerRows, NobodyCalls
<1>3. CASE FenceUnderLock(w) \/ ListCandidates(w) \/ EndPass(w) \/ ResumeJob(w)
  <2>1. Rest(w) \/ \E pc \in {"list", "decide", "claim", "requeue"} : Goto(w, pc)
    BY <1>3 DEF FenceUnderLock, ListCandidates, EndPass, ResumeJob, AbortPass
  <2> QED BY <2>1, <1>p, GoingCallsNobody
<1>4. CASE DecideCandidate(w)
  <2>1. \/ UNCHANGED worker
        \/ Rest(w)
        \/ \E o \in scan : worker' = [worker EXCEPT ![w].pc = "resume", ![w].op = o]
    BY <1>4 DEF DecideCandidate, DecideFromMarker, DecideToPark, DecideContinuation, Parks,
                AbortPass
  <2>2. ASSUME NEW o, worker' = [worker EXCEPT ![w].pc = "resume", ![w].op = o]
        PROVE  NobodyCalls
    BY <2>2 DEF Manned, WorkerRows, NobodyCalls
  <2> QED BY <2>1, <2>2, GoingCallsNobody
<1>5. CASE RequeueSuccessor(w)
  <2>1. Rest(w) \/ worker' = [worker EXCEPT ![w].pc = "decide", ![w].op = 0]
    BY <1>5 DEF RequeueSuccessor, AbortPass
  <2>2. worker' = [worker EXCEPT ![w].pc = "decide", ![w].op = 0] => NobodyCalls
    BY DEF Manned, WorkerRows, NobodyCalls
  <2> QED BY <2>1, <2>2, GoingCallsNobody
<1>6. CASE ClaimWork(w)
  <2>1. Rest(w) \/ \E o \in Op, n \in AttemptNo : worker' = [worker EXCEPT ![w] = Starting(o, n)]
    BY <1>6 DEF ClaimWork
  <2>2. ASSUME NEW o \in Op, NEW n \in AttemptNo, worker' = [worker EXCEPT ![w] = Starting(o, n)]
        PROVE  NobodyCalls
    BY <2>2 DEF Manned, Starting, NobodyCalls
  <2> QED BY <2>1, <2>2, GoingCallsNobody
<1> QED BY <1>1, <1>2, <1>3, <1>4, <1>5, <1>6 DEF RecoverAndClaim

LEMMA CallsStep ==
  ASSUME Typed, [DispatchNext]_allvars
  PROVE  NobodyCalls \/ \E w \in Worker : Sends(w)
<1>1. CASE \E w \in Worker : WorkerStep(w)
  BY <1>1, HandlerCalls, RecoveryCalls DEF WorkerStep
<1>2. CASE Restart
  BY <1>2 DEF Restart, NoWorker, NobodyCalls
<1>3. CASE UNCHANGED worker
  BY <1>3 DEF NobodyCalls
<1> QED
  BY <1>1, <1>2, <1>3
  DEF DispatchNext, Submit, SubmitAccept, SubmitEnsure, SubmitBindPolicy, SubmitDispatch,
      SubmitRefused, CancelOperation, CancelBegin, CancelDirect, CancelIntent, CancelDequeue,
      CancelMark, PassTime, dvars, allvars

LEMMA SentInit == DispatchInit => Sent
BY DEF DispatchInit, NoWorker, Sent, SentOnce, CallsAreFirst, OneCaller

LEMMA SentStep == Typed /\ Sent /\ [DispatchNext]_allvars => Sent'
<1> SUFFICES ASSUME Typed, Sent, [DispatchNext]_allvars PROVE Sent'
  OBVIOUS
<1> USE DEF Sent
<1>j. \A o \in Op, i \in Steps : JournalMoves(o, i)
  BY JournalStep DEF JournalGoes
<1>a. \A o \in Op, i \in Steps : AnsweredMoves(o, i)
  BY AnsweredStep DEF AnswersCome
<1>c. \A w \in Worker : worker[w].pc = "calling" => Mine(w) \in Op /\ NextStep(w) \in Steps
  BY CallPlace DEF Typed, InCall
<1>n. \A o \in Op, i \in Steps : answered[o][i].count \in Nat
  BY DEF Typed, Stored
<1>1. SentOnce'
  <2> SUFFICES ASSUME NEW o \in Op, NEW i \in Steps \ Reads
               PROVE  /\ journal'[o][i].state = "none" => answered'[o][i].count = 0
                      /\ answered'[o][i].count <= 1
    BY DEF SentOnce
  <2>1. journal'[o][i].state = "none" => journal[o][i].state = "none"
    BY <1>j DEF JournalMoves
  <2>2. CASE answered'[o][i] = answered[o][i]
    BY <2>1, <2>2 DEF SentOnce
  <2>3. ASSUME NEW w \in Worker, worker[w].pc = "calling", Mine(w) = o, NextStep(w) = i,
               answered'[o][i].count = answered[o][i].count + 1
        PROVE  /\ journal'[o][i].state = "none" => answered'[o][i].count = 0
               /\ answered'[o][i].count <= 1
    BY <2>1, <2>3 DEF CallsAreFirst
  <2> QED BY <1>a, <2>2, <2>3 DEF AnsweredMoves
<1>2. ASSUME NEW w \in Worker, worker'[w] = worker[w], worker[w].pc = "calling",
             NextStep(w) \notin Reads
      PROVE  /\ journal'[Mine(w)][NextStep(w)].state # "none"
             /\ answered'[Mine(w)][NextStep(w)].count = 0
  <2>1. journal'[Mine(w)][NextStep(w)].state # "none"
    BY <1>2, <1>c, <1>j DEF CallsAreFirst, JournalMoves
  <2>2. answered'[Mine(w)][NextStep(w)] = answered[Mine(w)][NextStep(w)]
    <3>1. ASSUME NEW v \in Worker, worker[v].pc = "calling", Mine(v) = Mine(w),
                 NextStep(v) = NextStep(w), worker'[v].pc # "calling"
          PROVE  FALSE
      BY <1>2, <3>1 DEF OneCaller
    <3> QED BY <1>2, <1>a, <1>c, <3>1 DEF AnsweredMoves
  <2> QED BY <1>2, <2>1, <2>2 DEF CallsAreFirst
<1>3. CASE NobodyCalls
  <2>1. CallsAreFirst'
    BY <1>2, <1>3 DEF CallsAreFirst, NobodyCalls, Mine, NextStep
  <2>2. OneCaller'
    BY <1>3 DEF OneCaller, NobodyCalls, Mine, NextStep
  <2> QED BY <1>1, <2>1, <2>2
<1>4. ASSUME NEW w \in Worker, Sends(w) PROVE Sent'
  <2>1. /\ Mine(w) \in Op /\ NextStep(w) \in Steps
        /\ worker'[w].op = Mine(w) /\ worker'[w].at + 1 = NextStep(w)
    BY <1>4, CallPlace DEF Sends, Typed, InCall, Mine, NextStep
  <2>2. NextStep(w) \notin Reads => answered'[Mine(w)][NextStep(w)].count = 0
    BY <1>4, <2>1 DEF Sends, SentOnce
  <2>3. journal'[Mine(w)][NextStep(w)].state # "none"
    BY <1>4 DEF Sends
  <2>4. \A v \in Worker \ {w} : worker'[v] = worker[v]
    BY <1>4 DEF Sends
  <2>5. CallsAreFirst'
    <3> SUFFICES ASSUME NEW v \in Worker, worker'[v].pc = "calling",
                        worker'[v].at + 1 \notin Reads
                 PROVE  /\ journal'[worker'[v].op][worker'[v].at + 1].state # "none"
                        /\ answered'[worker'[v].op][worker'[v].at + 1].count = 0
      BY DEF CallsAreFirst, Mine, NextStep
    <3>1. CASE v = w
      BY <3>1, <2>1, <2>2, <2>3
    <3>2. CASE v # w
      BY <3>2, <2>4, <1>2 DEF Mine, NextStep
    <3> QED BY <3>1, <3>2
  <2>6. OneCaller'
    <3>1. ASSUME NEW v \in Worker \ {w}, worker[v].pc = "calling", Mine(v) = Mine(w),
                 NextStep(v) = NextStep(w), NextStep(v) \notin Reads
          PROVE  FALSE
      BY <1>4, <3>1 DEF CallsAreFirst, Sends
    <3> QED BY <2>1, <2>4, <3>1 DEF OneCaller, Mine, NextStep
  <2> QED BY <1>1, <2>5, <2>6
<1> QED BY <1>3, <1>4, CallsStep

LEMMA SentInvariant == DispatchSpec => []Sent
BY TypedInvariant, SentInit, SentStep, PTL DEF DispatchSpec

\* A model call reaches its provider at most once in the life of its operation,
\* over crashes, lost answers, successors and workers that lost their lease.
THEOREM ModelCallsOnce == DispatchSpec => []EffectOnce
<1>1. Sent => EffectOnce
  BY DEF Sent, SentOnce, EffectOnce
<1> QED BY <1>1, SentInvariant, PTL

-----------------------------------------------------------------------------
(* Receipts.  The provider's first answer never changes, the journal and   *)
(* the job hold nothing else about a model step, jobs record their steps   *)
(* in order, and only a complete job makes its operation succeed.          *)

Answered(o, i, r) == answered[o][i].count # 0 /\ answered[o][i].first = r

AnswersAreAnswers ==
  \A o \in Op, i \in Steps : answered[o][i].count # 0 => answered[o][i].first \in Responses

JournalIsTrue ==
  \A o \in Op, i \in Steps :
    journal[o][i].state = "succeeded" =>
      /\ journal[o][i].response \in Responses
      /\ i \notin Reads => Answered(o, i, journal[o][i].response)

RecordIsTrue ==
  \A o \in Op, i \in Steps :
    inner[o].steps[i] # 0 /\ i \notin Reads => Answered(o, i, inner[o].steps[i])

JobsAreOrdered ==
  \A o \in Op :
    /\ \E k \in 0..StepCount : Recorded(o) = 1..k
    /\ inner[o].state = "succeeded" => Recorded(o) = Steps

SuccessIsEarned ==
  \A o \in Op : op[o].state = "succeeded" => inner[o].state = "succeeded"

\* in the loop over the steps: what came before is recorded
InLoop == {"step", "call", "calling", "returning", "check", "record", "beat", "finish",
           "complete"}

\* What a worker believes about the stores, in terms of its local variables.
Believes(pc, o, at, got, outcome) ==
  /\ pc \in {"returning", "check", "record"} /\ got # 0 /\ at + 1 \notin Reads =>
       Answered(o, at + 1, got)
  /\ pc \in {"check", "record"} => got # 0
  /\ pc \in InLoop => 1..at \subseteq Recorded(o)
  /\ pc = "commit" /\ outcome = "succeeded" => inner[o].state = "succeeded"

Belief(w) ==
  Believes(worker[w].pc, worker[w].op, worker[w].at, worker[w].got, worker[w].outcome)

Beliefs == \A w \in Worker : Belief(w)

Receipts ==
  /\ AnswersAreAnswers
  /\ JournalIsTrue
  /\ RecordIsTrue
  /\ JobsAreOrdered
  /\ SuccessIsEarned
  /\ Beliefs

\* The stores only grow.
Grows ==
  \A o \in Op :
    /\ \A i \in Steps : i \in Recorded(o) => i \in Recorded(o)'
    /\ inner[o].state = "succeeded" => inner'[o].state = "succeeded"
    /\ \A i \in Steps : answered[o][i].count # 0 =>
         answered'[o][i].count # 0 /\ answered'[o][i].first = answered[o][i].first

LEMMA AnsweredGrows ==
  ASSUME Typed, AnswersCome, NEW o \in Op, NEW i \in Steps
  PROVE  /\ answered[o][i].count # 0 =>
              answered'[o][i].count # 0 /\ answered'[o][i].first = answered[o][i].first
         /\ answered'[o][i].count # 0 =>
              answered[o][i].count # 0 \/ answered'[o][i].first \in Responses
<1>1. AnsweredMoves(o, i) /\ answered[o][i].count \in Nat
  BY DEF AnswersCome, Typed, Stored
<1> QED BY <1>1 DEF AnsweredMoves

\* Recording keeps what was recorded, and adds the next step at most.
LEMMA InnerGrows ==
  ASSUME Typed, Beliefs, InnerMoves, NEW o \in Op
  PROVE  /\ \A i \in Steps : inner[o].steps[i] # 0 => inner'[o].steps[i] = inner[o].steps[i]
         /\ \A i \in Steps : inner'[o].steps[i] # inner[o].steps[i] =>
              \E w \in Worker :
                /\ worker[w].pc = "record" /\ Mine(w) = o /\ NextStep(w) = i
                /\ inner'[o].steps[i] = worker[w].got
         /\ inner[o].state = "succeeded" => inner'[o].state = "succeeded"
         /\ inner'[o].state = "succeeded" =>
              \/ inner[o].state = "succeeded"
              \/ \E w \in Worker : worker[w].pc = "complete" /\ Mine(w) = o
<1>1. CASE inner' = inner
  BY <1>1
<1>2. ASSUME NEW p \in Op, NEW state \in InnerStates, Settles(p, state)
      PROVE  /\ inner'[o].steps = inner[o].steps
             /\ inner[o].state = "succeeded" => inner'[o].state = "succeeded"
             /\ inner'[o].state = "succeeded" =>
                  \/ inner[o].state = "succeeded"
                  \/ \E w \in Worker : worker[w].pc = "complete" /\ Mine(w) = o
  BY <1>2 DEF Settles, Marks
<1>3. ASSUME NEW w \in Worker, worker[w].pc = "record",
             inner[Mine(w)].steps[NextStep(w)] \in {0, worker[w].got},
             Records(Mine(w), NextStep(w), worker[w].got)
      PROVE  /\ inner'[o].state = inner[o].state
             /\ \A i \in Steps : inner[o].steps[i] # 0 => inner'[o].steps[i] = inner[o].steps[i]
             /\ \A i \in Steps : inner'[o].steps[i] # inner[o].steps[i] =>
                  /\ worker[w].pc = "record" /\ Mine(w) = o /\ NextStep(w) = i
                  /\ inner'[o].steps[i] = worker[w].got
  <2> DEFINE p == Mine(w)
             j == NextStep(w)
             r == worker[w].got
  <2>1. p \in Op /\ j \in Steps /\ r \in Answers /\ Mine(w) = p /\ NextStep(w) = j
    BY <1>3, CallPlace, FitRow DEF Typed, InCall
  <2>2. Records(p, j, r) /\ inner[p].steps[j] \in {0, r}
    BY <1>3
  <2>3. worker[w].got = r
    OBVIOUS
  <2> HIDE DEF p, j, r
  <2>4. /\ \A q \in Op \ {p} : inner'[q] = inner[q]
        /\ inner'[p].state = inner[p].state
        /\ inner'[p].steps[j] = r
        /\ \A i \in Steps \ {j} : inner'[p].steps[i] = inner[p].steps[i]
    BY <2>1, <2>2, RecordsStep DEF Typed
  <2>5. CASE o = p
    BY <1>3, <2>1, <2>2, <2>3, <2>4, <2>5
  <2>6. CASE o # p
    BY <2>4, <2>6
  <2> QED BY <2>5, <2>6
<1> QED BY <1>1, <1>2, <1>3 DEF InnerMoves

LEMMA StoresGrow ==
  ASSUME Typed, Beliefs, InnerMoves, AnswersCome
  PROVE  Grows
<1>1. \A o \in Op, i \in Steps : i \in Recorded(o) => i \in Recorded(o)'
  BY InnerGrows DEF Recorded
<1> QED BY <1>1, InnerGrows, AnsweredGrows DEF Grows

LEMMA StoresStayTrue ==
  ASSUME Typed, Receipts, InnerMoves, JournalGoes, AnswersCome
  PROVE  AnswersAreAnswers' /\ JournalIsTrue' /\ RecordIsTrue'
<1> USE DEF Receipts
<1>0. Grows
  BY StoresGrow
<1>1. AnswersAreAnswers'
  BY AnsweredGrows DEF AnswersAreAnswers
<1>2. JournalIsTrue'
  <2> SUFFICES ASSUME NEW o \in Op, NEW i \in Steps, journal'[o][i].state = "succeeded"
               PROVE  /\ journal'[o][i].response \in Responses
                      /\ i \notin Reads => Answered(o, i, journal[o][i].response)'
    BY DEF JournalIsTrue
  <2>1. CASE journal'[o][i] = journal[o][i]
    BY <2>1, <1>0 DEF JournalIsTrue, Grows, Answered
  <2>2. CASE i \in Reads /\ journal'[o][i].response \in Responses
    BY <2>2
  <2>3. CASE answered[o][i].count # 0 /\ journal'[o][i].response = answered[o][i].first
    BY <2>3, <1>0 DEF AnswersAreAnswers, Grows, Answered
  <2>4. ASSUME NEW w \in Worker,
               worker[w].pc = "returning" /\ Mine(w) = o /\ NextStep(w) = i,
               worker[w].got # 0 /\ journal'[o][i].response = worker[w].got
        PROVE  /\ journal'[o][i].response \in Responses
               /\ i \notin Reads => Answered(o, i, journal[o][i].response)'
    <3>1. worker[w].got \in Responses
      BY <2>4, FitRow DEF Typed, Answers
    <3>2. i \notin Reads => Answered(o, i, worker[w].got)
      BY <2>4 DEF Beliefs, Belief, Believes, Mine, NextStep
    <3> QED BY <2>4, <3>1, <3>2, <1>0 DEF Answered, Grows
  <2> QED BY <2>1, <2>2, <2>3, <2>4 DEF JournalGoes, JournalMoves
<1>3. RecordIsTrue'
  <2> SUFFICES ASSUME NEW o \in Op, NEW i \in Steps, inner'[o].steps[i] # 0, i \notin Reads
               PROVE  Answered(o, i, inner[o].steps[i])'
    BY DEF RecordIsTrue
  <2>1. CASE inner'[o].steps[i] = inner[o].steps[i]
    BY <2>1, <1>0 DEF RecordIsTrue, Grows, Answered
  <2>2. CASE inner'[o].steps[i] # inner[o].steps[i]
    <3>1. PICK w \in Worker : /\ worker[w].pc = "record" /\ Mine(w) = o /\ NextStep(w) = i
                              /\ inner'[o].steps[i] = worker[w].got
      BY <2>2, InnerGrows
    <3>2. Answered(o, i, worker[w].got)
      BY <3>1 DEF Beliefs, Belief, Believes, Mine, NextStep
    <3> QED BY <3>1, <3>2, <1>0 DEF Answered, Grows
  <2> QED BY <2>1, <2>2
<1> QED BY <1>1, <1>2, <1>3

LEMMA OrderStays ==
  ASSUME Typed, Receipts, InnerMoves, AnswersCome
  PROVE  JobsAreOrdered'
<1> USE DEF Receipts
<1> SUFFICES ASSUME NEW o \in Op
             PROVE  /\ \E k \in 0..StepCount : Recorded(o)' = 1..k
                    /\ inner'[o].state = "succeeded" => Recorded(o)' = Steps
  BY DEF JobsAreOrdered
<1>0. Grows
  BY StoresGrow
<1>1. Recorded(o) \subseteq Recorded(o)' /\ Recorded(o)' \subseteq Steps
  BY <1>0 DEF Grows, Recorded
<1>2. inner'[o].state = "succeeded" => Recorded(o)' = Steps
  <2>1. CASE inner[o].state = "succeeded"
    BY <1>1, <2>1 DEF JobsAreOrdered
  <2>2. ASSUME NEW w \in Worker, worker[w].pc = "complete", Mine(w) = o
        PROVE  Recorded(o)' = Steps
    <3>1. worker[w].at = StepCount
      BY <2>2, FitRow DEF Typed, Fit
    <3>2. 1..worker[w].at \subseteq Recorded(o)
      BY <2>2 DEF Beliefs, Belief, Believes, InLoop, Mine
    <3> QED BY <3>1, <3>2, <1>1 DEF Steps
  <2> QED BY <2>1, <2>2, InnerGrows
<1>3. PICK k \in 0..StepCount : Recorded(o) = 1..k
  BY DEF JobsAreOrdered
<1>4. CASE \A i \in Steps : inner'[o].steps[i] = inner[o].steps[i]
  <2>1. Recorded(o)' = Recorded(o)
    BY <1>4 DEF Recorded
  <2> QED BY <2>1, <1>2, <1>3
<1>5. ASSUME NEW w \in Worker, worker[w].pc = "record", Mine(w) = o,
             \A i \in Steps : i # NextStep(w) => inner'[o].steps[i] = inner[o].steps[i],
             inner'[o].steps[NextStep(w)] = worker[w].got
      PROVE  \E m \in 0..StepCount : Recorded(o)' = 1..m
  <2> DEFINE at == worker[w].at
  <2>1. /\ 1..at \subseteq 1..k /\ at \in Int /\ at >= 0 /\ at < StepCount
        /\ NextStep(w) = at + 1 /\ at + 1 \in Steps
    BY <1>3, <1>5, FitRow, CallPlace, StepAssumption
    DEF Typed, Fit, InCall, Beliefs, Belief, Believes, InLoop, Mine, NextStep, Steps
  <2>2. worker[w].got # 0
    BY <1>5 DEF Beliefs, Belief, Believes
  <2> HIDE DEF at
  <2>3. Recorded(o)' = Recorded(o) \cup {at + 1}
    BY <1>5, <2>1, <2>2 DEF Recorded
  <2>4. k \in Int /\ k >= 0 /\ k <= StepCount /\ StepCount \in Int
    BY StepAssumption
  <2>5. at <= k
    <3>1. at = 0 \/ at \in 1..at
      BY <2>1
    <3> QED BY <2>1, <2>4, <3>1
  <2>6. CASE at + 1 <= k
    <3>1. Recorded(o)' = 1..k
      BY <1>3, <2>1, <2>3, <2>4, <2>6
    <3> QED BY <3>1
  <2>7. CASE at + 1 > k
    <3>1. at = k
      BY <2>1, <2>4, <2>5, <2>7
    <3>2. 1..k \cup {k + 1} = 1..(k + 1)
      BY <2>4
    <3>3. k + 1 \in 0..StepCount
      BY <2>1, <2>4, <3>1
    <3> QED BY <1>3, <2>3, <3>1, <3>2, <3>3
  <2> QED BY <2>1, <2>4, <2>6, <2>7
<1>6. ASSUME NEW w \in Worker, worker[w].pc = "record", Mine(w) = o,
             Records(Mine(w), NextStep(w), worker[w].got)
      PROVE  /\ \A i \in Steps : i # NextStep(w) => inner'[o].steps[i] = inner[o].steps[i]
             /\ inner'[o].steps[NextStep(w)] = worker[w].got
  <2> DEFINE j == NextStep(w)
             r == worker[w].got
  <2>1. j \in Steps /\ r \in Answers /\ Records(o, j, r)
    BY <1>6, CallPlace, FitRow DEF Typed, InCall
  <2> HIDE DEF j, r
  <2>2. /\ inner'[o].steps[j] = r
        /\ \A i \in Steps \ {j} : inner'[o].steps[i] = inner[o].steps[i]
    BY <2>1, RecordsStep DEF Typed
  <2> QED BY <2>2 DEF j, r
<1>7. CASE \E w \in Worker :
             /\ worker[w].pc = "record" /\ Mine(w) = o
             /\ Records(Mine(w), NextStep(w), worker[w].got)
  BY <1>2, <1>5, <1>6, <1>7
<1>8. CASE ~\E w \in Worker :
             /\ worker[w].pc = "record" /\ Mine(w) = o
             /\ Records(Mine(w), NextStep(w), worker[w].got)
  <2>1. \A i \in Steps : inner'[o].steps[i] = inner[o].steps[i]
    <3>1. ASSUME NEW w \in Worker, worker[w].pc = "record", Mine(w) # o,
                 Records(Mine(w), NextStep(w), worker[w].got)
          PROVE  inner'[o] = inner[o]
      BY <3>1 DEF Typed, Stored, Records
    <3>2. ASSUME NEW p \in Op, NEW state \in InnerStates, Settles(p, state)
          PROVE  inner'[o].steps = inner[o].steps
      BY <3>2 DEF Settles, Marks
    <3> QED BY <1>8, <3>1, <3>2 DEF InnerMoves
  <2> QED BY <2>1, <1>4
<1> QED BY <1>7, <1>8

\* An operation becomes succeeded when a worker commits it or recovery finds
\* the completed job.
LEMMA SuccessStays ==
  ASSUME Typed, Receipts, InnerMoves, AnswersCome, [DispatchNext]_allvars
  PROVE  SuccessIsEarned'
<1> USE DEF Receipts
<1>0. /\ Grows
      /\ op \in [Op -> Operations]
  BY StoresGrow DEF Typed, TypeOK
<1> SUFFICES ASSUME NEW o \in Op, op'[o].state = "succeeded", inner[o].state # "succeeded"
             PROVE  FALSE
  BY <1>0 DEF SuccessIsEarned, Grows
<1>1. op[o].state # "succeeded"
  BY DEF SuccessIsEarned
<1>k. op' # op
  BY <1>1
<1>2. ASSUME NEW w \in Worker, Handler(w) PROVE FALSE
  <2>1. CASE StartHandler(w) \/ BeginEngine(w) \/ StepBoundary(w) \/ FinishLoop(w)
             \/ BeatAfterStep(w)
    BY <2>1, <1>k DEF StartHandler, BeginEngine, StepBoundary, FinishLoop, BeatAfterStep,
                      CancelOrBeat, Heartbeat, FinishAttempt, vars
  <2>2. ASSUME NEW outcome, Commits(w, outcome), outcome # "succeeded" PROVE FALSE
    BY <2>2, <1>0, <1>1 DEF Commits, TransitionClaimed, Moved
  <2>3. CASE CommitOutcome(w)
    <3>1. worker[w].pc = "commit"
      BY <2>3 DEF CommitOutcome, At
    <3>2. worker[w].outcome = "succeeded" => inner[Mine(w)].state = "succeeded"
      BY <3>1 DEF Beliefs, Belief, Believes, Mine
    <3>3. Commits(w, worker[w].outcome)
      BY <2>3, <1>k DEF CommitOutcome, vars
    <3>4. Mine(w) = o
      BY <3>3, <1>0, <1>1 DEF Commits, TransitionClaimed
    <3> QED BY <3>2, <3>3, <3>4, <2>2
  <2>4. CASE ParkAttempt(w)
    BY <2>4, <2>2, <1>k DEF ParkAttempt, vars
  <2> QED
    BY <1>2, <2>1, <2>3, <2>4, <1>k
    DEF Handler, OpenJob, LastStep, AdmitCall, PhysicalCall, CallReturns, CheckUsage, RecordStep,
        CompleteJob, FailFenced, MarkOutcome, AbandonJob, vars
<1>3. ASSUME NEW w \in Worker, RecoverAndClaim(w) PROVE FALSE
  <2>1. ASSUME AbortPass(w) PROVE FALSE
    BY <2>1, <1>k DEF AbortPass
  <2>2. ASSUME NEW p \in scan, NEW kind, NEW bound, RequeueIndeterminate(p, kind, bound)
        PROVE  FALSE
    BY <2>2, <1>0, <1>1 DEF RequeueIndeterminate, Moved
  <2>3. CASE DecideCandidate(w)
    <3>1. PICK p \in scan :
            \/ LeaveCandidates(scan \ {p})
            \/ DecideFromMarker(w, p)
            \/ DecideToPark(w, p)
            \/ DecideContinuation(w, p)
      BY <2>3 DEF DecideCandidate
    <3>2. CASE DecideFromMarker(w, p)
      <4>1. RecoverTerminalFromReceipt(p, inner[p].state)
        BY <3>2, <2>1 DEF DecideFromMarker
      <4>2. p = o /\ op'[o].state = inner[p].state
        BY <4>1, <1>0, <1>1 DEF RecoverTerminalFromReceipt, Moved
      <4> QED BY <4>2
    <3>3. CASE LeaveCandidates(scan \ {p})
      BY <3>3, <1>k DEF LeaveCandidates
    <3>4. CASE DecideToPark(w, p)
      BY <3>4, <2>1, <2>2 DEF DecideToPark, Parks
    <3>5. CASE DecideContinuation(w, p)
      BY <3>5, <2>1, <2>2, <1>k DEF DecideContinuation, Parks, vars
    <3> QED BY <3>1, <3>2, <3>3, <3>4, <3>5
  <2>4. CASE RequeueSuccessor(w) \/ ResumeJob(w)
    <3>1. RequeueIndeterminate(Mine(w), "successor", TRUE) \/ AbortPass(w) \/ op' = op
      BY <2>4 DEF RequeueSuccessor, ResumeJob, vars
    <3>2. Mine(w) \in scan \/ ~RequeueIndeterminate(Mine(w), "successor", TRUE)
      BY DEF RequeueIndeterminate
    <3> QED BY <3>1, <3>2, <2>1, <2>2, <1>k
  <2>5. CASE ClaimWork(w)
    <3>1. PassedOp(o).state # "succeeded"
      BY <1>1 DEF PassedOp, Moved
    <3>2. CASE ClaimNothing
      BY <3>1, <3>2 DEF ClaimNothing
    <3>3. ASSUME NEW p \in Op, NEW n \in AttemptNo, ClaimNext(p, n) PROVE FALSE
      BY <3>1, <3>3 DEF ClaimNext, Moved
    <3> QED BY <2>5, <3>2, <3>3, <1>k DEF ClaimWork, vars
  <2>6. CASE FenceUnderLock(w)
    BY <2>6, <1>0, <1>1, <1>k DEF FenceUnderLock, FenceExpiredAttempts, Moved, vars
  <2>7. CASE ListEffects(w) \/ ReconcileEffects(w) \/ ListCandidates(w) \/ EndPass(w)
    BY <2>7, <1>k DEF ListEffects, ReconcileEffects, ListCandidates, EndPass,
                      ListRecoveryCandidates, vars
  <2> QED BY <1>3, <2>3, <2>4, <2>5, <2>6, <2>7 DEF RecoverAndClaim
<1>4. ASSUME NEW p \in Op, Submit(p) \/ CancelOperation(p) PROVE FALSE
  <2>1. ASSUME NEW row, op' = [op EXCEPT ![p] = row], row.state # "succeeded" PROVE FALSE
    BY <2>1, <1>0, <1>1
  <2>2. ASSUME NEW state, NEW g, NEW result, state # "succeeded",
               op' = [op EXCEPT ![p] = Moved(op[p], state, g, result)]
        PROVE  FALSE
    BY <2>1, <2>2 DEF Moved
  <2>3. CASE Submit(p)
    <3>1. ASSUME NEW deadline \in Deadlines, Accept(p, deadline) PROVE FALSE
      BY <3>1, <2>1 DEF Accept
    <3>2. CASE SubmitRefused(p)
      BY <3>2, <2>2 DEF SubmitRefused, Transition
    <3> QED BY <2>3, <3>1, <3>2, <1>k
            DEF Submit, SubmitAccept, SubmitEnsure, SubmitBindPolicy, SubmitDispatch,
                BindRecoveryPolicy, RequestDispatch, vars
  <2>4. CASE CancelOperation(p)
    <3>1. Cancel(p) => FALSE
      BY <2>2 DEF Cancel, Transition
    <3>2. CancelQueuedDispatch(p) => FALSE
      <4>1. CancelQueuedDispatch(p) =>
              op' = [op EXCEPT ![p] = Moved(op[p], "cancelled", op[p].generation, NoResult)]
        BY DEF CancelQueuedDispatch
      <4>2. op' # [op EXCEPT ![p] = Moved(op[p], "cancelled", op[p].generation, NoResult)]
        BY <2>2
      <4> QED BY <4>1, <4>2
    <3> QED BY <2>4, <3>1, <3>2, <1>k
            DEF CancelOperation, CancelBegin, CancelDirect, CancelIntent, CancelDequeue,
                CancelMark,
                RequestCancel, vars
  <2> QED BY <1>4, <2>3, <2>4
<1>5. CASE PassTime \/ UNCHANGED allvars
  BY <1>5, <1>k DEF PassTime, Tick, allvars, vars
<1>6. CASE Restart
  BY <1>6, <1>1 DEF Restart, StartRuntime, AfterRestart, Moved
<1> QED BY <1>2, <1>3, <1>4, <1>5, <1>6 DEF DispatchNext, WorkerStep

-----------------------------------------------------------------------------
(* What workers believe stays true.                                        *)

LEMMA BeliefsGrow ==
  ASSUME Grows, NEW pc, NEW o, NEW at, NEW got, NEW outcome,
         Believes(pc, o, at, got, outcome),
         pc \in InLoop \cup {"commit"} => o \in Op,
         pc \in InCall => at + 1 \in Steps
  PROVE  Believes(pc, o, at, got, outcome)'
<1>1. /\ pc \in {"returning", "check", "record"} /\ got # 0 /\ at + 1 \notin Reads
      => Answered(o, at + 1, got)'
  <2>1. {"returning", "check", "record"} \subseteq InLoop \cap InCall
    BY DEF InLoop, InCall
  <2> QED BY <2>1 DEF Believes, Answered, Grows
<1>2. pc \in InLoop => 1..at \subseteq Recorded(o)'
  <2>1. Recorded(o) \subseteq Steps
    BY DEF Recorded
  <2> QED BY <2>1 DEF Believes, Grows
<1>3. pc = "commit" /\ outcome = "succeeded" => inner'[o].state = "succeeded"
  BY DEF Believes, Grows
<1> QED BY <1>1, <1>2, <1>3 DEF Believes

LEMMA StillBelieved ==
  ASSUME Typed, Grows, NEW v \in Worker, Belief(v), worker'[v] = worker[v]
  PROVE  Belief(v)'
<1>1. worker[v].pc \in InLoop \cup {"commit"} => worker[v].op \in Op
  BY FitRow DEF Typed, Fit, InLoop, Unengaged
<1>2. worker[v].pc \in InCall => worker[v].at + 1 \in Steps
  BY CallPlace DEF Typed, Mine, NextStep
<1>3. PICK row : row = worker[v]
  OBVIOUS
<1>4. Believes(row.pc, row.op, row.at, row.got, row.outcome)'
  BY <1>1, <1>2, <1>3, BeliefsGrow DEF Belief
<1> QED BY <1>3, <1>4 DEF Belief

\* The same of the next state, for local variables that are values.
BelievesNext(pc, o, at, got, outcome) ==
  /\ pc \in {"returning", "check", "record"} /\ got # 0 /\ at + 1 \notin Reads =>
       answered'[o][at + 1].count # 0 /\ answered'[o][at + 1].first = got
  /\ pc \in {"check", "record"} => got # 0
  /\ pc \in InLoop => \A i \in 1..at : i \in Steps /\ inner'[o].steps[i] # 0
  /\ pc = "commit" /\ outcome = "succeeded" => inner'[o].state = "succeeded"

LEMMA TurnBelieved ==
  ASSUME Typed, Beliefs, Grows, NEW w \in Worker,
         NEW pc, NEW o, NEW n, NEW at, NEW got, NEW outcome,
         Turns(w, pc, o, n, at, got, outcome), BelievesNext(pc, o, at, got, outcome)
  PROVE  Beliefs'
<1>1. /\ worker'[w].pc = pc /\ worker'[w].op = o /\ worker'[w].at = at
      /\ worker'[w].got = got /\ worker'[w].outcome = outcome
  BY DEF Turns
<1>2. Belief(w)'
  BY <1>1 DEF BelievesNext, Belief, Believes, Answered, Recorded
<1>3. ASSUME NEW v \in Worker, v # w PROVE Belief(v)'
  BY <1>3, StillBelieved DEF Turns, Beliefs
<1> QED BY <1>2, <1>3 DEF Beliefs

\* w is elsewhere than in the loop over the steps, and commits nothing.
Leaves(w) ==
  /\ worker'[w].pc \notin InLoop \cup {"commit"}
  /\ \A v \in Worker \ {w} : worker'[v] = worker[v]

LEMMA LeavesBelieved ==
  ASSUME Typed, Beliefs, Grows, NEW w \in Worker, Leaves(w)
  PROVE  Beliefs'
<1>1. Belief(w)'
  BY DEF Leaves, Belief, Believes, InLoop
<1>2. ASSUME NEW v \in Worker, v # w PROVE Belief(v)'
  BY <1>2, StillBelieved DEF Leaves, Beliefs
<1> QED BY <1>1, <1>2 DEF Beliefs

LEMMA GotoBelieved ==
  ASSUME Typed, Beliefs, Grows, NEW w \in Worker, NEW pc \in Points, Goto(w, pc),
         pc \in InLoop => worker[w].pc \in InLoop,
         pc \in {"returning", "check", "record"} /\ worker[w].got # 0 =>
           worker[w].pc \in {"returning", "check", "record"},
         pc \in {"check", "record"} => worker[w].got # 0,
         pc = "commit" => worker[w].outcome # "succeeded"
  PROVE  Beliefs'
<1>1. PICK row : row = worker[w]
  OBVIOUS
<1>2. Turns(w, pc, row.op, row.claim, row.at, row.got, row.outcome)
  BY <1>1, GotoTurns DEF Typed
<1>3. Believes(row.pc, row.op, row.at, row.got, row.outcome)
  BY <1>1 DEF Beliefs, Belief
<1>4. row.pc \in InLoop => row.op \in Op
  BY <1>1, FitRow DEF Typed, Fit, InLoop, Unengaged
<1>5. row.pc \in InCall => row.at + 1 \in Steps
  BY <1>1, CallPlace DEF Typed, Mine, NextStep
<1>6. pc \in {"returning", "check", "record"} /\ row.got # 0 /\ row.at + 1 \notin Reads =>
        answered'[row.op][row.at + 1].count # 0 /\ answered'[row.op][row.at + 1].first = row.got
  <2>1. {"returning", "check", "record"} \subseteq InLoop \cap InCall
    BY DEF InLoop, InCall
  <2> QED BY <1>1, <1>3, <1>4, <1>5, <2>1 DEF Believes, Answered, Grows
<1>7. pc \in InLoop => \A i \in 1..row.at : i \in Steps /\ inner'[row.op].steps[i] # 0
  <2>1. pc \in InLoop => 1..row.at \subseteq Recorded(row.op) /\ row.op \in Op
    BY <1>1, <1>3, <1>4 DEF Believes
  <2> QED BY <2>1 DEF Recorded, Grows
<1>8. BelievesNext(pc, row.op, row.at, row.got, row.outcome)
  BY <1>1, <1>6, <1>7 DEF BelievesNext
<1> QED BY <1>2, <1>8, TurnBelieved

LEMMA SettleBelieved ==
  ASSUME Typed, Beliefs, Grows, NEW w \in Worker, NEW outcome \in Outcomes, Settle(w, outcome)
  PROVE  Beliefs'
<1>1. Leaves(w)
  BY SettleTurns DEF Typed, Turns, Leaves, InLoop
<1> QED BY <1>1, LeavesBelieved

LEMMA RestBelieved ==
  ASSUME Typed, Beliefs, Grows, NEW w \in Worker, Rest(w)
  PROVE  Beliefs'
<1>1. Leaves(w)
  BY RestTurns DEF Typed, Turns, Leaves, InLoop
<1> QED BY <1>1, LeavesBelieved

LEMMA StandBelieved ==
  ASSUME Typed, Beliefs, Grows, UNCHANGED worker
  PROVE  Beliefs'
BY StillBelieved DEF Beliefs

LEMMA LoopHolds ==
  ASSUME Typed, Beliefs, Grows, NEW w \in Worker, worker[w].pc \in InLoop
  PROVE  /\ worker[w].op \in Op
         /\ \A i \in 1..worker[w].at : i \in Steps /\ inner'[worker[w].op].steps[i] # 0
<1>1. worker[w].op \in Op
  BY FitRow DEF Typed, Fit, InLoop, Unengaged
<1>2. 1..worker[w].at \subseteq Recorded(worker[w].op)
  BY DEF Beliefs, Belief, Believes
<1> QED BY <1>1, <1>2 DEF Recorded, Grows

\* begin finds the recorded steps to be the first ones
LEMMA OpenBelieves ==
  ASSUME Typed, Receipts, Grows, NEW w \in Worker, worker[w].pc = "open",
         worker' = [worker EXCEPT ![w].pc = "step",
                                  ![w].at = Cardinality(Recorded(worker[w].op))]
  PROVE  Beliefs'
<1> USE DEF Typed
<1> DEFINE o == worker[w].op
           k == Cardinality(Recorded(o))
<1>1. o \in Op /\ worker[w].got = 0
  BY FitRow DEF Fit, Unengaged, Empty
<1>2. PICK m \in 0..StepCount : Recorded(o) = 1..m
  BY <1>1 DEF Receipts, JobsAreOrdered
<1>3. m \in Nat
  BY StepAssumption
<1>4. Cardinality(1..m) = m
  BY <1>3, FS_Interval
<1>5. k = m
  BY <1>2, <1>4
<1>6. k \in 0..StepCount /\ "step" \in Points
  BY <1>5 DEF Points
<1> HIDE DEF k
<1>7. Turns(w, "step", worker[w].op, worker[w].claim, k, worker[w].got, worker[w].outcome)
  BY <1>6 DEF Manned, WorkerRows, Turns, k
<1>8. \A i \in 1..k : i \in Steps /\ inner'[o].steps[i] # 0
  BY <1>1, <1>2, <1>5 DEF Recorded, Grows
<1>9. BelievesNext("step", o, k, worker[w].got, worker[w].outcome)
  BY <1>8 DEF BelievesNext
<1> QED BY <1>7, <1>9, TurnBelieved DEF Receipts

\* the journal replays the provider's answer
LEMMA ReplayBelieves ==
  ASSUME Typed, Receipts, Grows, NEW w \in Worker, worker[w].pc = "call",
         journal[worker[w].op][NextStep(w)].state = "succeeded",
         worker' = [worker EXCEPT ![w].pc = "record",
                      ![w].got = journal[worker[w].op][NextStep(w)].response]
  PROVE  Beliefs'
<1> USE DEF Typed, Receipts
<1> DEFINE o == worker[w].op
           i == NextStep(w)
           r == journal[o][i].response
<1>1. o \in Op /\ i \in Steps /\ i = worker[w].at + 1
  BY CallPlace DEF InCall, Mine, NextStep
<1>2. r \in Responses /\ (i \notin Reads => Answered(o, i, r))
  BY <1>1 DEF JournalIsTrue
<1>3. r \in Answers /\ r # 0 /\ "record" \in Points
  BY <1>2, StepAssumption DEF Answers, Points
<1> HIDE DEF r
<1>4. Turns(w, "record", worker[w].op, worker[w].claim, worker[w].at, r, worker[w].outcome)
  BY <1>3 DEF Manned, WorkerRows, Turns, r
<1>5. \A j \in 1..worker[w].at : j \in Steps /\ inner'[o].steps[j] # 0
  BY LoopHolds DEF InLoop
<1>6. i \notin Reads => answered'[o][i].count # 0 /\ answered'[o][i].first = r
  BY <1>1, <1>2 DEF Answered, Grows
<1>7. BelievesNext("record", o, worker[w].at, r, worker[w].outcome)
  BY <1>1, <1>3, <1>5, <1>6 DEF BelievesNext
<1> QED BY <1>4, <1>7, TurnBelieved

\* the provider's answer to the only call of a model step is the first
LEMMA AnswerBelieves ==
  ASSUME Typed, Sent, Receipts, Grows, NEW w \in Worker, worker[w].pc = "calling",
         NEW r \in Responses, Executed(worker[w].op, NextStep(w), r),
         worker' = [worker EXCEPT ![w].pc = "returning", ![w].got = r]
  PROVE  Beliefs'
<1> USE DEF Typed, Receipts
<1> DEFINE o == worker[w].op
           i == NextStep(w)
<1>1. o \in Op /\ i \in Steps /\ i = worker[w].at + 1
  BY CallPlace DEF InCall, Mine, NextStep
<1>2. r \in Answers /\ r # 0 /\ "returning" \in Points
  BY StepAssumption DEF Answers, Points
<1>3. Turns(w, "returning", worker[w].op, worker[w].claim, worker[w].at, r, worker[w].outcome)
  BY <1>2 DEF Manned, WorkerRows, Turns
<1>4. \A j \in 1..worker[w].at : j \in Steps /\ inner'[o].steps[j] # 0
  BY LoopHolds DEF InLoop
<1>5. i \notin Reads => answered[o][i].count = 0
  BY DEF Sent, CallsAreFirst, Mine
<1>6. i \notin Reads => answered'[o][i].count # 0 /\ answered'[o][i].first = r
  <2> HIDE DEF o, i
  <2>1. /\ answered'[o][i].first = IF answered[o][i].count = 0 THEN r ELSE answered[o][i].first
        /\ answered'[o][i].count = answered[o][i].count + 1
    BY <1>1, ExecutedRow DEF o, i
  <2> QED BY <1>5, <2>1
<1>7. BelievesNext("returning", o, worker[w].at, r, worker[w].outcome)
  BY <1>1, <1>4, <1>6 DEF BelievesNext
<1> QED BY <1>3, <1>7, TurnBelieved

\* record_step returned: the step is recorded
StepsOn(w) ==
  worker' = [worker EXCEPT ![w].pc = "beat", ![w].at = NextStep(w), ![w].got = 0]

LEMMA RecordBelieves ==
  ASSUME Typed, Receipts, Grows, NEW w \in Worker, worker[w].pc = "record",
         Records(worker[w].op, NextStep(w), worker[w].got), StepsOn(w)
  PROVE  Beliefs'
<1> USE DEF Typed, Receipts
<1> DEFINE o == worker[w].op
           i == NextStep(w)
           r == worker[w].got
<1>1. o \in Op /\ i \in Steps /\ i = worker[w].at + 1
  BY CallPlace DEF InCall, Mine, NextStep
<1>2. i \in 0..StepCount /\ 0 \in Answers /\ "beat" \in Points /\ worker[w].at \in Nat
  BY <1>1, FitRow, StepAssumption DEF Answers, Points, Steps
<1>3. Turns(w, "beat", worker[w].op, worker[w].claim, i, 0, worker[w].outcome)
  BY <1>2 DEF Manned, WorkerRows, Turns, StepsOn
<1>4. \A j \in 1..worker[w].at : j \in Steps /\ inner'[o].steps[j] # 0
  BY LoopHolds DEF InLoop
<1>5. r # 0 /\ r \in Answers
  BY FitRow DEF Beliefs, Belief, Believes
<1>6. inner'[o].steps[i] = r
  <2> HIDE DEF o, i, r
  <2> QED BY <1>1, <1>5, RecordsStep DEF o, i, r
<1>7. \A j \in 1..i : j \in Steps /\ inner'[o].steps[j] # 0
  <2>1. \A j \in 1..i : j = i \/ j \in 1..worker[w].at
    BY <1>1, <1>2
  <2> QED BY <2>1, <1>1, <1>4, <1>5, <1>6
<1> HIDE DEF i
<1>8. BelievesNext("beat", o, i, 0, worker[w].outcome)
  BY <1>7 DEF BelievesNext
<1> QED BY <1>3, <1>8, TurnBelieved

LEMMA HandlerBelieves ==
  ASSUME Typed, Sent, Receipts, Grows, NEW w \in Worker, Handler(w)
  PROVE  Beliefs'
<1> USE DEF Typed, Receipts
<1>0. {"timed_out", "failed", "indeterminate", "cancelled"} \subseteq Outcomes
  BY DEF Outcomes, Terminal
<1>p. {"begin", "open", "step", "call", "calling", "returning", "check", "record", "beat", "finish",
       "complete", "fenced", "commit", "park", "abandon"} \subseteq Points
  BY DEF Points
<1>f. Fit(worker[w]) /\ Belief(w)
  BY FitRow DEF Beliefs
<1>s. ASSUME \E outcome \in Outcomes : Settle(w, outcome) PROVE Beliefs'
  BY <1>s, SettleBelieved
\* leaving the loop
<1>x. ASSUME NEW pc \in {"begin", "open", "fenced", "abandon", "park"}, Goto(w, pc) PROVE Beliefs'
  BY <1>x, <1>p, GotoBelieved DEF InLoop
\* staying in it, with nothing in hand
<1>y. ASSUME NEW pc \in {"step", "call", "calling", "finish", "complete"}, Goto(w, pc),
             worker[w].pc \in InLoop
      PROVE  Beliefs'
  BY <1>y, <1>p, GotoBelieved
<1>1. CASE StartHandler(w)
  <2>1. Rest(w) \/ Settle(w, "timed_out") \/ Goto(w, "begin")
    BY <1>1 DEF StartHandler
  <2> QED BY <2>1, <1>0, <1>s, <1>x, RestBelieved
<1>2. CASE BeginEngine(w) \/ FinishLoop(w)
  <2>1. \/ Settle(w, "cancelled")
        \/ Goto(w, "fenced")
        \/ Goto(w, "open")
        \/ Goto(w, "complete") /\ worker[w].pc = "finish"
    BY <1>2 DEF BeginEngine, FinishLoop, CancelOrBeat, At
  <2> QED BY <2>1, <1>0, <1>s, <1>x, <1>y DEF InLoop
<1>3. CASE OpenJob(w)
  <2>1. /\ worker[w].pc = "open"
        /\ \/ Settle(w, "failed")
           \/ worker' = [worker EXCEPT ![w].pc = "step",
                                       ![w].at = Cardinality(Recorded(worker[w].op))]
    BY <1>3 DEF OpenJob, At, Mine
  <2> QED BY <2>1, <1>0, <1>s, OpenBelieves
<1>4. CASE StepBoundary(w) \/ LastStep(w)
  <2>1. /\ worker[w].pc = "step"
        /\ \/ \E outcome \in {"timed_out", "cancelled"} : Settle(w, outcome)
           \/ Goto(w, "fenced")
           \/ \E pc \in {"finish", "call"} : Goto(w, pc)
    BY <1>4 DEF StepBoundary, LastStep, CancelOrBeat, At
  <2> QED BY <2>1, <1>0, <1>s, <1>x, <1>y DEF InLoop
<1>5. CASE AdmitCall(w)
  <2>1. /\ worker[w].pc = "call"
        /\ \/ \E outcome \in {"timed_out", "failed", "indeterminate"} : Settle(w, outcome)
           \/ Goto(w, "calling")
           \/ /\ journal[worker[w].op][NextStep(w)].state = "succeeded"
              /\ worker' = [worker EXCEPT ![w].pc = "record",
                              ![w].got = journal[worker[w].op][NextStep(w)].response]
    BY <1>5 DEF AdmitCall, At, Mine
  <2> QED BY <2>1, <1>0, <1>s, <1>y, ReplayBelieves DEF InLoop
<1>6. CASE PhysicalCall(w)
  <2>1. worker[w].pc = "calling" /\ worker[w].got = 0
    BY <1>6, <1>f DEF PhysicalCall, At, Fit, Empty
  <2>2. \/ Settle(w, "indeterminate")
        \/ Goto(w, "returning")
        \/ \E r \in Responses :
             /\ Executed(worker[w].op, NextStep(w), r)
             /\ worker' = [worker EXCEPT ![w].pc = "returning", ![w].got = r]
    BY <1>6 DEF PhysicalCall, Mine
  <2>3. Goto(w, "returning") => Beliefs'
    BY <2>1, <1>p, GotoBelieved DEF InLoop
  <2> QED BY <2>1, <2>2, <2>3, <1>0, <1>s, AnswerBelieves
<1>7. CASE CallReturns(w) \/ CheckUsage(w)
  <2>1. \/ Settle(w, "failed")
        \/ /\ worker[w].pc = "returning" /\ worker[w].got # 0
           /\ Goto(w, "check")
        \/ worker[w].pc = "check" /\ Goto(w, "record")
    BY <1>7 DEF CallReturns, CheckUsage, At
  <2>2. worker[w].pc = "check" => worker[w].got # 0
    BY <1>f DEF Belief, Believes
  <2>3. worker[w].pc = "returning" /\ worker[w].got # 0 /\ Goto(w, "check") => Beliefs'
    BY <1>p, GotoBelieved DEF InLoop
  <2>4. worker[w].pc = "check" /\ Goto(w, "record") => Beliefs'
    BY <2>2, <1>p, GotoBelieved DEF InLoop
  <2> QED BY <2>1, <2>3, <2>4, <1>0, <1>s
<1>8. CASE RecordStep(w)
  <2>1. /\ worker[w].pc = "record"
        /\ \/ Settle(w, "failed")
           \/ Records(worker[w].op, NextStep(w), worker[w].got) /\ StepsOn(w)
    BY <1>8 DEF RecordStep, At, Mine, Records, StepsOn
  <2>2. CASE Records(worker[w].op, NextStep(w), worker[w].got) /\ StepsOn(w)
    BY <2>1, <2>2, RecordBelieves
  <2> QED BY <2>1, <2>2, <1>0, <1>s
<1>9. CASE BeatAfterStep(w)
  <2>1. worker[w].pc = "beat" /\ (Goto(w, "step") \/ Goto(w, "fenced"))
    BY <1>9 DEF BeatAfterStep, At
  <2> QED BY <2>1, <1>x, <1>y DEF InLoop
<1>10. CASE CompleteJob(w)
  <2>1. worker[w].pc = "complete" /\ worker[w].op \in Op
    BY <1>10, <1>f DEF CompleteJob, At, Fit, Unengaged
  <2>2. CASE /\ inner' = [inner EXCEPT ![worker[w].op].state = "succeeded"]
             /\ worker' = [worker EXCEPT ![w].pc = "commit", ![w].outcome = "succeeded"]
    <3>1. inner'[worker[w].op].state = "succeeded"
      BY <2>1, <2>2 DEF Stored
    <3>2. "succeeded" \in Outcomes
      BY DEF Outcomes, Terminal
    <3>3. Turns(w, "commit", worker[w].op, worker[w].claim, worker[w].at, worker[w].got,
                "succeeded")
      BY <2>2, <3>2, <1>p DEF Manned, WorkerRows, Turns
    <3>4. BelievesNext("commit", worker[w].op, worker[w].at, worker[w].got, "succeeded")
      BY <3>1 DEF BelievesNext, InLoop
    <3> QED BY <3>3, <3>4, TurnBelieved
  <2> QED BY <1>10, <2>2, <1>0, <1>s DEF CompleteJob, Mine
<1>11. CASE FailFenced(w)
  <2>1. worker' = [worker EXCEPT ![w].pc = "commit", ![w].outcome = "failed"]
    BY <1>11 DEF FailFenced
  <2>2. Turns(w, "commit", worker[w].op, worker[w].claim, worker[w].at, worker[w].got, "failed")
    BY <2>1, <1>0, <1>p DEF Manned, WorkerRows, Turns
  <2>3. BelievesNext("commit", worker[w].op, worker[w].at, worker[w].got, "failed")
    BY DEF BelievesNext, InLoop
  <2> QED BY <2>2, <2>3, TurnBelieved
<1>12. CASE MarkOutcome(w)
  <2>1. worker[w].outcome # "succeeded" /\ Goto(w, "commit")
    BY <1>12, <1>f DEF MarkOutcome, At, Fit
  <2> QED BY <2>1, <1>p, GotoBelieved DEF InLoop
<1>13. CASE CommitOutcome(w) \/ AbandonJob(w) \/ ParkAttempt(w)
  <2>1. Rest(w) \/ Goto(w, "abandon") \/ Goto(w, "park")
    BY <1>13 DEF CommitOutcome, AbandonJob, ParkAttempt
  <2> QED BY <2>1, <1>x, RestBelieved
<1> QED
  BY <1>1, <1>2, <1>3, <1>4, <1>5, <1>6, <1>7, <1>8, <1>9, <1>10, <1>11, <1>12, <1>13 DEF Handler

LEMMA RecoveryBelieves ==
  ASSUME Typed, Beliefs, Grows, NEW w \in Worker, RecoverAndClaim(w)
  PROVE  Beliefs'
<1> USE DEF Typed
<1>x. ASSUME NEW pc \in {"list", "decide", "claim", "requeue"}, Goto(w, pc) PROVE Beliefs'
  <2>1. pc \in Points
    BY DEF Points
  <2> QED BY <1>x, <2>1, GotoBelieved DEF InLoop
<1>1. CASE ListEffects(w)
  <2>1. PICK found : worker' = [worker EXCEPT ![w].pc = "effects", ![w].listed = found]
    BY <1>1 DEF ListEffects
  <2>2. Leaves(w)
    BY <2>1 DEF Manned, WorkerRows, Leaves, InLoop
  <2> QED BY <2>2, LeavesBelieved
<1>2. CASE ReconcileEffects(w)
  <2>1. worker[w].pc = "effects" /\ \E o : worker' = [worker EXCEPT ![w].listed = @ \ {o}]
    BY <1>2 DEF ReconcileEffects, At
  <2>2. Leaves(w)
    BY <2>1 DEF Manned, WorkerRows, Leaves, InLoop
  <2> QED BY <2>2, LeavesBelieved
<1>3. CASE FenceUnderLock(w) \/ ListCandidates(w) \/ EndPass(w) \/ ResumeJob(w)
  <2>1. Rest(w) \/ \E pc \in {"list", "decide", "claim", "requeue"} : Goto(w, pc)
    BY <1>3 DEF FenceUnderLock, ListCandidates, EndPass, ResumeJob, AbortPass
  <2> QED BY <2>1, <1>x, RestBelieved
<1>4. CASE DecideCandidate(w)
  <2>1. \/ UNCHANGED worker
        \/ Rest(w)
        \/ \E o \in scan : worker' = [worker EXCEPT ![w].pc = "resume", ![w].op = o]
    BY <1>4 DEF DecideCandidate, DecideFromMarker, DecideToPark, DecideContinuation, Parks,
                AbortPass
  <2>2. ASSUME NEW o, worker' = [worker EXCEPT ![w].pc = "resume", ![w].op = o]
        PROVE  Beliefs'
    <3>1. Leaves(w)
      BY <2>2 DEF Manned, WorkerRows, Leaves, InLoop
    <3> QED BY <3>1, LeavesBelieved
  <2> QED BY <2>1, <2>2, RestBelieved, StandBelieved
<1>5. CASE RequeueSuccessor(w)
  <2>1. Rest(w) \/ worker' = [worker EXCEPT ![w].pc = "decide", ![w].op = 0]
    BY <1>5 DEF RequeueSuccessor, AbortPass
  <2>2. worker' = [worker EXCEPT ![w].pc = "decide", ![w].op = 0] => Leaves(w)
    BY DEF Manned, WorkerRows, Leaves, InLoop
  <2> QED BY <2>1, <2>2, RestBelieved, LeavesBelieved
<1>6. CASE ClaimWork(w)
  <2>1. Rest(w) \/ \E o \in Op, n \in AttemptNo : worker' = [worker EXCEPT ![w] = Starting(o, n)]
    BY <1>6 DEF ClaimWork
  <2>2. ASSUME NEW o \in Op, NEW n \in AttemptNo, worker' = [worker EXCEPT ![w] = Starting(o, n)]
        PROVE  Leaves(w)
    BY <2>2 DEF Manned, Starting, Leaves, InLoop
  <2> QED BY <2>1, <2>2, RestBelieved, LeavesBelieved
<1> QED BY <1>1, <1>2, <1>3, <1>4, <1>5, <1>6 DEF RecoverAndClaim

LEMMA BeliefsStep ==
  ASSUME Typed, Sent, Receipts, Grows, [DispatchNext]_allvars
  PROVE  Beliefs'
<1>1. CASE \E w \in Worker : WorkerStep(w)
  BY <1>1, HandlerBelieves, RecoveryBelieves DEF WorkerStep, Receipts
<1>2. CASE Restart
  BY <1>2 DEF Restart, NoWorker, Beliefs, Belief, Believes, InLoop
<1>3. CASE UNCHANGED worker
  BY <1>3, StandBelieved DEF Receipts
<1> QED
  BY <1>1, <1>2, <1>3
  DEF DispatchNext, Submit, SubmitAccept, SubmitEnsure, SubmitBindPolicy, SubmitDispatch,
      SubmitRefused, CancelOperation, CancelBegin, CancelDirect, CancelIntent, CancelDequeue,
      CancelMark, PassTime, dvars, allvars

LEMMA ReceiptsInit == DispatchInit => Receipts
<1> SUFFICES ASSUME DispatchInit PROVE Receipts
  OBVIOUS
<1>1. AnswersAreAnswers /\ JournalIsTrue /\ RecordIsTrue
  BY DEF DispatchInit, AnswersAreAnswers, JournalIsTrue, RecordIsTrue
<1>2. \A o \in Op : Recorded(o) = 1..0
  BY DEF DispatchInit, Recorded
<1>3. JobsAreOrdered
  <2>1. 0 \in 0..StepCount
    BY StepAssumption
  <2>2. \A o \in Op : inner[o].state = "absent"
    BY DEF DispatchInit
  <2> QED BY <1>2, <2>1, <2>2 DEF JobsAreOrdered
<1>4. SuccessIsEarned
  BY DEF DispatchInit, Init, NoOperation, SuccessIsEarned
<1>5. Beliefs
  BY DEF DispatchInit, NoWorker, Beliefs, Belief, Believes, InLoop
<1> QED BY <1>1, <1>3, <1>4, <1>5 DEF Receipts

LEMMA ReceiptsStep == Typed /\ Sent /\ Receipts /\ [DispatchNext]_allvars => Receipts'
<1> SUFFICES ASSUME Typed, Sent, Receipts, [DispatchNext]_allvars PROVE Receipts'
  OBVIOUS
<1>1. InnerMoves /\ JournalGoes /\ AnswersCome
  BY InnerStep, JournalStep, AnsweredStep
<1>2. Grows
  BY <1>1, StoresGrow DEF Receipts
<1>3. AnswersAreAnswers' /\ JournalIsTrue' /\ RecordIsTrue' /\ JobsAreOrdered' /\ SuccessIsEarned'
  BY <1>1, StoresStayTrue, OrderStays, SuccessStays
<1> QED BY <1>2, <1>3, BeliefsStep DEF Receipts

LEMMA ReceiptsInvariant == DispatchSpec => []Receipts
BY TypedInvariant, SentInvariant, ReceiptsInit, ReceiptsStep, PTL DEF DispatchSpec

\* What a job recorded for a model step is the provider's first answer, by
\* whichever worker, replay or recovery the receipt came.
THEOREM RecordsAreAnswers == DispatchSpec => []StepsAreAnswers
<1>1. Receipts => StepsAreAnswers
  BY DEF Receipts, RecordIsTrue, Answered, Recorded, StepsAreAnswers
<1> QED BY <1>1, ReceiptsInvariant, PTL

\* An operation reported as succeeded has a job that ran every step and said
\* so, whether a worker committed it or recovery found its receipt.
THEOREM SuccessIsProved == DispatchSpec => []SuccessHasReceipt
<1>1. Receipts => SuccessHasReceipt
  BY DEF Receipts, SuccessIsEarned, JobsAreOrdered, SuccessHasReceipt
<1> QED BY <1>1, ReceiptsInvariant, PTL

-----------------------------------------------------------------------------
(* Uncertainty.  Durable dispatch begins work by claiming it only, so what *)
(* is uncertain was claimed: its dispatch is where recovery looks, and any *)
(* decision on its attempt parked it.                                      *)

Engaged(o) == op[o].state \in {"running", "indeterminate"}

Tracks(o) ==
  /\ op[o].state = "running" => dispatch[o].state = "running"
  /\ op[o].state = "indeterminate" => dispatch[o].state \in {"running", "parked"}
  /\ Engaged(o) =>
       \A i \in DOMAIN decisions[o] :
         decisions[o][i].prior = dispatch[o].attempt =>
           decisions[o][i].prior = 0 \/ decisions[o][i].kind = "park"

Tracked == \A o \in Op : Tracks(o)

\* What a step of durable dispatch may do to the rows of o.
Follows(o) ==
  \/ op'[o].state \notin {"running", "indeterminate"}
  \/ op'[o] = op[o] /\ dispatch'[o] = dispatch[o] /\ decisions'[o] = decisions[o]
  \* uncertain now, or still, with at most another parking decision
  \/ /\ Engaged(o) /\ op'[o].state = "indeterminate"
     /\ dispatch'[o].state \in {"running", "parked"}
     /\ dispatch'[o].attempt = dispatch[o].attempt
     /\ \A i \in DOMAIN decisions'[o] :
          \/ i \in DOMAIN decisions[o] /\ decisions'[o][i] = decisions[o][i]
          \/ decisions'[o][i].kind = "park"
  \* claimed, as an attempt nobody has decided on
  \/ /\ op'[o].state = "running" /\ dispatch'[o].state = "running"
     /\ decisions'[o] = decisions[o]
     /\ \A i \in DOMAIN decisions[o] : decisions[o][i].prior # dispatch'[o].attempt

LEMMA FollowsTracks ==
  ASSUME NEW o \in Op, Tracks(o), Follows(o)
  PROVE  Tracks(o)'
<1>1. CASE op'[o].state \notin {"running", "indeterminate"}
  BY <1>1 DEF Tracks, Engaged
<1>2. CASE op'[o] = op[o] /\ dispatch'[o] = dispatch[o] /\ decisions'[o] = decisions[o]
  BY <1>2 DEF Tracks, Engaged
<1>3. CASE /\ Engaged(o) /\ op'[o].state = "indeterminate"
           /\ dispatch'[o].state \in {"running", "parked"}
           /\ dispatch'[o].attempt = dispatch[o].attempt
           /\ \A i \in DOMAIN decisions'[o] :
                \/ i \in DOMAIN decisions[o] /\ decisions'[o][i] = decisions[o][i]
                \/ decisions'[o][i].kind = "park"
  BY <1>3 DEF Tracks, Engaged
<1>4. CASE /\ op'[o].state = "running" /\ dispatch'[o].state = "running"
           /\ decisions'[o] = decisions[o]
           /\ \A i \in DOMAIN decisions[o] : decisions[o][i].prior # dispatch'[o].attempt
  BY <1>4 DEF Tracks, Engaged
<1> QED BY <1>1, <1>2, <1>3, <1>4 DEF Follows

\* The methods of the registry durable dispatch calls: not begin or mark_indeterminate.
Uses ==
  \/ UNCHANGED <<op, dispatch, decisions>>
  \/ StartRuntime
  \/ ClaimNothing
  \/ FenceExpiredAttempts
  \/ \E o \in Op :
       \/ \E deadline \in Deadlines : Accept(o, deadline)
       \/ RequestDispatch(o)
       \/ \E state \in Terminal :
            Transition(o, {"accepted", "running"}, state, op[o].result, FALSE)
       \/ CancelQueuedDispatch(o)
       \/ \E n \in AttemptNo :
            \/ ClaimNext(o, n)
            \/ FinishAttempt(o, n)
            \/ \E result : \E state \in Terminal \cup {"indeterminate"} :
                 TransitionClaimed(o, n, state, result)
       \/ \E kind \in {"successor", "park"}, bound \in BOOLEAN :
            RequeueIndeterminate(o, kind, bound)
       \/ \E state \in Terminal : RecoverTerminalFromReceipt(o, state)

LEMMA HandlerUses ==
  ASSUME Typed, NEW w \in Worker, Handler(w)
  PROVE  Uses
<1>k. UNCHANGED vars => Uses
  BY DEF vars, Uses
<1>f. worker[w] \in WorkerRows /\ Fit(worker[w])
  BY FitRow DEF Typed
<1>h. ASSUME Heartbeat(Mine(w), worker[w].claim) PROVE Uses
  BY <1>h DEF Heartbeat, Uses
<1>c. ASSUME worker[w].pc \notin Unengaged, Owner(w),
             NEW outcome \in Terminal \cup {"indeterminate"}, Commits(w, outcome)
      PROVE  Uses
  BY <1>c, OwnsClaim DEF Commits, Uses
<1>1. CASE StartHandler(w)
  <2>1. worker[w].pc = "start"
    BY <1>1 DEF StartHandler, At
  <2>2. CASE Owner(w) /\ FinishAttempt(Mine(w), worker[w].claim)
    BY <2>1, <2>2, OwnsClaim DEF Unengaged, Uses
  <2> QED BY <1>1, <2>2, <1>k DEF StartHandler
<1>2. CASE CommitOutcome(w)
  <2>1. worker[w].pc = "commit"
    BY <1>2 DEF CommitOutcome, At
  <2>2. worker[w].outcome \in Terminal \cup {"indeterminate"}
    BY <2>1, <1>f DEF Fit, WorkerRows, Outcomes
  <2> QED BY <1>2, <2>1, <2>2, <1>c, <1>k DEF CommitOutcome, MayCommit, Unengaged
<1>3. CASE ParkAttempt(w)
  BY <1>3, <1>c, <1>k DEF ParkAttempt, At, MayCommit, Unengaged
<1> QED
  BY <1>1, <1>2, <1>3, <1>h, <1>k
  DEF Handler, BeginEngine, StepBoundary, FinishLoop, CancelOrBeat, BeatAfterStep, OpenJob,
      LastStep, AdmitCall, PhysicalCall, CallReturns, CheckUsage, RecordStep, CompleteJob,
      FailFenced, MarkOutcome, AbandonJob

LEMMA RecoveryUses ==
  ASSUME Typed, NEW w \in Worker, RecoverAndClaim(w)
  PROVE  Uses
<1>s. scan \subseteq Op
  BY DEF Typed, TypeOK
<1>k. UNCHANGED vars => Uses
  BY DEF vars, Uses
<1>a. AbortPass(w) => Uses
  BY DEF AbortPass, Uses
<1>1. CASE DecideCandidate(w)
  <2>1. PICK o \in scan :
          \/ LeaveCandidates(scan \ {o})
          \/ DecideFromMarker(w, o)
          \/ DecideToPark(w, o)
          \/ DecideContinuation(w, o)
    BY <1>1 DEF DecideCandidate
  <2>2. CASE LeaveCandidates(scan \ {o})
    BY <2>2 DEF LeaveCandidates, Uses
  <2>3. CASE DecideFromMarker(w, o)
    BY <2>3, <1>s, <1>a DEF DecideFromMarker, Uses, Terminal
  <2>4. ASSUME NEW bound \in BOOLEAN, Parks(w, o, bound) PROVE Uses
    BY <2>4, <1>s, <1>a DEF Parks, Uses
  <2>5. CASE DecideToPark(w, o)
    <3>1. policy[o] \in BOOLEAN
      BY <1>s DEF Typed, TypeOK
    <3> QED BY <2>5, <3>1, <2>4 DEF DecideToPark
  <2>6. CASE DecideContinuation(w, o)
    BY <2>6, <2>4, <1>k DEF DecideContinuation
  <2> QED BY <2>1, <2>2, <2>3, <2>5, <2>6
<1>2. CASE RequeueSuccessor(w)
  <2>1. CASE RequeueIndeterminate(Mine(w), "successor", TRUE)
    <3>1. Mine(w) \in Op
      BY <2>1, <1>s DEF RequeueIndeterminate
    <3> QED BY <2>1, <3>1 DEF Uses
  <2> QED BY <1>2, <2>1, <1>a DEF RequeueSuccessor
<1>3. CASE ClaimWork(w)
  BY <1>3, <1>k DEF ClaimWork, Uses
<1>4. CASE FenceUnderLock(w) \/ ListCandidates(w)
  BY <1>4, <1>k DEF FenceUnderLock, ListCandidates, ListRecoveryCandidates, Uses
<1> QED
  BY <1>1, <1>2, <1>3, <1>4, <1>a, <1>k
  DEF RecoverAndClaim, ListEffects, ReconcileEffects, EndPass, ResumeJob

LEMMA DispatchUses ==
  ASSUME Typed, [DispatchNext]_allvars
  PROVE  Uses
<1>k. UNCHANGED vars => Uses
  BY DEF vars, Uses
<1>1. CASE \E w \in Worker : WorkerStep(w)
  BY <1>1, HandlerUses, RecoveryUses DEF WorkerStep
<1>2. ASSUME NEW o \in Op, Submit(o) PROVE Uses
  <2>1. CASE SubmitRefused(o)
    BY <2>1 DEF SubmitRefused, Terminal, Uses
  <2> QED BY <1>2, <2>1, <1>k
          DEF Submit, SubmitAccept, SubmitEnsure, SubmitBindPolicy, BindRecoveryPolicy,
              SubmitDispatch, Uses
<1>3. ASSUME NEW o \in Op, CancelOperation(o) PROVE Uses
  BY <1>3, <1>k
  DEF CancelOperation, CancelBegin, CancelDirect, Cancel, CancelIntent, RequestCancel,
      CancelDequeue, CancelMark, Terminal, Uses
<1>4. CASE PassTime \/ Restart \/ UNCHANGED allvars
  BY <1>4, <1>k DEF PassTime, Tick, Restart, allvars, Uses
<1> QED BY <1>1, <1>2, <1>3, <1>4 DEF DispatchNext

\* The claimed attempt is a new number: no decision refers to it.
LEMMA ClaimFollows ==
  ASSUME Ownership, Lineage, Tracked, NEW o \in Op, NEW n \in AttemptNo, ClaimNext(o, n),
         NEW p \in Op
  PROVE  Follows(p)
<1> USE DEF Ownership
<1>1. decisions' = decisions
  BY DEF ClaimNext
<1>2. CASE p = o
  <2>1. op'[o].state = "running"
    BY DEF ClaimNext, Moved, TypeOK
  <2>2. dispatch'[o].state = "running" /\ dispatch'[o].attempt = n
    BY DEF ClaimNext, TypeOK, Dispatches
  <2>3. dispatch[o].attempt = n - 1
    <3>1. IsLatest(o, dispatch[o].attempt) /\ IsLatest(o, n - 1)
      BY DEF CurrentIsLatest, ClaimNext
    <3>2. /\ dispatch[o].attempt \in Int /\ n \in Int
          /\ \A m \in Started(o) : m \in Int
      BY Numbers DEF Started
    <3> QED BY <3>1, <3>2 DEF IsLatest
  <2>4. \A i \in DOMAIN decisions[o] : decisions[o][i].prior # n
    BY <2>3, Numbers DEF Lineage, DecisionsArePast
  <2> QED BY <1>1, <1>2, <2>1, <2>2, <2>4 DEF Follows
<1>3. CASE p # o
  <2>1. op'[p] = PassedOp(p) /\ dispatch'[p] = PassedDispatch(p)
    BY <1>3 DEF ClaimNext
  <2>2. op[p].state \in {"running", "indeterminate"} => ~Passed(p)
    BY DEF Passed, Queued, Tracked, Tracks
  <2> QED BY <1>1, <2>1, <2>2 DEF PassedOp, PassedDispatch, Moved, Follows
<1> QED BY <1>2, <1>3

LEMMA CommitFollows ==
  ASSUME TypeOK, NEW o \in Op, NEW n \in AttemptNo,
         \/ FinishAttempt(o, n)
         \/ \E result : \E state \in Terminal \cup {"indeterminate"} :
              TransitionClaimed(o, n, state, result),
         NEW p \in Op
  PROVE  Follows(p)
<1>1. PICK state \in Terminal \cup {"indeterminate"} :
        /\ dispatch' = [dispatch EXCEPT ![o].state = CloseDispatch(state)]
        /\ op'[o].state = state
        /\ \A q \in Op \ {o} : op'[q] = op[q]
        /\ op[o].state = "running" \/ op[o].state = state
        /\ decisions' = decisions
  <2>1. CASE FinishAttempt(o, n)
    BY <2>1 DEF FinishAttempt
  <2>2. ASSUME NEW state \in Terminal \cup {"indeterminate"}, NEW result,
               TransitionClaimed(o, n, state, result)
        PROVE  /\ dispatch' = [dispatch EXCEPT ![o].state = CloseDispatch(state)]
               /\ op'[o].state = state
               /\ \A q \in Op \ {o} : op'[q] = op[q]
               /\ op[o].state = "running"
               /\ decisions' = decisions
    BY <2>2 DEF TransitionClaimed, Moved, TypeOK
  <2> QED BY <2>1, <2>2
<1>2. CASE p # o
  BY <1>1, <1>2 DEF TypeOK, Follows
<1>3. CASE p = o /\ state # "indeterminate"
  BY <1>1, <1>3 DEF Follows, Terminal
<1>4. CASE p = o /\ state = "indeterminate"
  <2>1. dispatch'[o].state = "parked" /\ dispatch'[o].attempt = dispatch[o].attempt
    BY <1>1, <1>4 DEF TypeOK, Dispatches, CloseDispatch
  <2> QED BY <1>1, <1>4, <2>1 DEF Follows, Engaged
<1> QED BY <1>2, <1>3, <1>4

\* A successor is accepted, a parking decision is the only one left.
LEMMA RequeueFollows ==
  ASSUME TypeOK, NEW o \in Op, NEW kind \in {"successor", "park"}, NEW bound \in BOOLEAN,
         RequeueIndeterminate(o, kind, bound), NEW p \in Op
  PROVE  Follows(p)
<1>1. CASE p # o
  BY <1>1 DEF RequeueIndeterminate, Decided, TypeOK, Follows
<1>2. CASE p = o /\ kind = "successor"
  BY <1>2 DEF RequeueIndeterminate, TypeOK, Moved, Follows
<1>3. CASE p = o /\ kind = "park"
  <2> DEFINE new == [kind |-> "park", prior |-> dispatch[o].attempt]
  <2>1. /\ op' = op /\ op[o].state = "indeterminate"
        /\ dispatch' = [dispatch EXCEPT ![o].state = "parked"]
        /\ decisions' = [decisions EXCEPT ![o] = Append(@, new)]
    BY <1>3 DEF RequeueIndeterminate, Decided
  <2>2. dispatch'[o].state = "parked" /\ dispatch'[o].attempt = dispatch[o].attempt
    BY <2>1 DEF TypeOK, Dispatches
  <2>3. decisions[o] \in Seq(Decisions) /\ new \in Decisions /\ new.kind = "park"
    BY DEF TypeOK, Dispatches, Decisions
  <2> HIDE DEF new
  <2>4. \A i \in DOMAIN Append(decisions[o], new) :
          \/ i \in DOMAIN decisions[o] /\ Append(decisions[o], new)[i] = decisions[o][i]
          \/ Append(decisions[o], new)[i] = new
    BY <2>3
  <2>5. decisions'[o] = Append(decisions[o], new)
    BY <2>1 DEF TypeOK
  <2> QED BY <1>3, <2>1, <2>2, <2>3, <2>4, <2>5 DEF Follows, Engaged
<1> QED BY <1>1, <1>2, <1>3

LEMMA UsesFollow ==
  ASSUME Ownership, Lineage, Tracked, Uses, NEW p \in Op
  PROVE  Follows(p)
<1> USE DEF Ownership
<1>1. CASE UNCHANGED <<op, dispatch, decisions>>
  BY <1>1 DEF Follows
<1>2. CASE StartRuntime
  <2>1. dispatch' = dispatch /\ decisions' = decisions
    BY <1>2 DEF StartRuntime
  <2>2. CASE op[p].state = "running"
    <3>1. op'[p].state = "indeterminate" /\ dispatch[p].state = "running"
      BY <1>2, <2>2 DEF StartRuntime, AfterRestart, Moved, Tracked, Tracks
    <3> QED BY <2>1, <2>2, <3>1 DEF Follows, Engaged
  <2>3. CASE op[p].state # "running"
    <3>1. op'[p] = op[p] \/ op'[p].state = "accepted"
      BY <1>2, <2>3 DEF StartRuntime, AfterRestart, Moved
    <3> QED BY <2>1, <3>1 DEF Follows
  <2> QED BY <2>2, <2>3
<1>3. CASE ClaimNothing
  <2>1. op'[p] = PassedOp(p) /\ dispatch'[p] = PassedDispatch(p) /\ decisions' = decisions
    BY <1>3 DEF ClaimNothing
  <2>2. op[p].state \in {"running", "indeterminate"} => ~Passed(p)
    BY DEF Passed, Queued, Tracked, Tracks
  <2> QED BY <2>1, <2>2 DEF PassedOp, PassedDispatch, Moved, Follows
<1>4. CASE FenceExpiredAttempts
  <2>1. dispatch' = dispatch /\ decisions' = decisions
    BY <1>4 DEF FenceExpiredAttempts
  <2>2. \/ op'[p] = op[p]
        \/ /\ op[p].state = "running" /\ op'[p].state = "indeterminate"
           /\ dispatch[p].state = "running"
    BY <1>4 DEF FenceExpiredAttempts, LeaseLost, Moved
  <2> QED BY <2>1, <2>2 DEF Follows, Engaged
<1>5. ASSUME NEW o \in Op, NEW deadline \in Deadlines, Accept(o, deadline) PROVE Follows(p)
  BY <1>5 DEF Accept, TypeOK, Follows
<1>6. ASSUME NEW o \in Op, RequestDispatch(o) PROVE Follows(p)
  BY <1>6 DEF RequestDispatch, TypeOK, Follows
<1>7. ASSUME NEW o \in Op, NEW state \in Terminal,
             Transition(o, {"accepted", "running"}, state, op[o].result, FALSE)
      PROVE  Follows(p)
  BY <1>7 DEF Transition, Moved, TypeOK, Terminal, Follows
<1>8. ASSUME NEW o \in Op, CancelQueuedDispatch(o) PROVE Follows(p)
  BY <1>8 DEF CancelQueuedDispatch, Moved, TypeOK, Follows
<1>9. ASSUME NEW o \in Op, NEW state \in Terminal, RecoverTerminalFromReceipt(o, state)
      PROVE  Follows(p)
  <2>1. CASE p = o
    BY <1>9, <2>1 DEF RecoverTerminalFromReceipt, Moved, TypeOK, Terminal, Follows
  <2>2. CASE p # o
    BY <1>9, <2>2 DEF RecoverTerminalFromReceipt, Decided, TypeOK, Follows
  <2> QED BY <2>1, <2>2
<1> QED
  BY <1>1, <1>2, <1>3, <1>4, <1>5, <1>6, <1>7, <1>8, <1>9, ClaimFollows, CommitFollows,
     RequeueFollows
  DEF Uses

LEMMA TrackedInit == DispatchInit => Tracked
BY DEF DispatchInit, Init, NoOperation, Tracked, Tracks, Engaged

LEMMA TrackedStep ==
  Typed /\ Ownership /\ Lineage /\ Tracked /\ [DispatchNext]_allvars => Tracked'
<1> SUFFICES ASSUME Typed, Ownership, Lineage, Tracked, [DispatchNext]_allvars PROVE Tracked'
  OBVIOUS
<1>1. \A o \in Op : Follows(o)
  BY DispatchUses, UsesFollow
<1> QED BY <1>1, FollowsTracks DEF Tracked

LEMMA TrackedInvariant == DispatchSpec => []Tracked
BY TypedInvariant, DispatchUsesRegistry, OwnershipInvariant, LineageInvariant, TrackedInit,
   TrackedStep, PTL DEF DispatchSpec

\* An uncertain operation is never lost: recovery lists it until a decision on
\* its current attempt has parked it for a human.
THEOREM UncertaintyIsKept == DispatchSpec => []UncertaintyIsTracked
<1>1. Tracked => UncertaintyIsTracked
  <2> SUFFICES ASSUME Tracked, NEW o \in Op, op[o].state = "indeterminate", ~IsCandidate(o)
               PROVE  /\ dispatch[o].state \in {"running", "parked"}
                      /\ \E i \in DOMAIN decisions[o] :
                           /\ decisions[o][i].prior = dispatch[o].attempt
                           /\ decisions[o][i].kind = "park"
    BY DEF UncertaintyIsTracked
  <2> QED BY DEF Tracked, Tracks, Engaged, IsCandidate
<1> QED BY <1>1, TrackedInvariant, PTL
=============================================================================
