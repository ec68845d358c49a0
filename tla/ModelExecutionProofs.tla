------------------------ MODULE ModelExecutionProofs ------------------------
(***************************************************************************)
(* Safety of a routed model call for any number of calls, reconcilers and  *)
(* catalogs, and any number of crashes.                                    *)
(*                                                                         *)
(* The argument: an answer, once the provider has made it, is fixed, and   *)
(* every copy of it that travels up (in the sender, in a reconciler, in    *)
(* the execution row, in the broker row) is that answer.  And a request    *)
(* leaves the sender at one place only, so a sender on the sampling route  *)
(* that calls its failure certain either never came there or holds the     *)
(* client's own unusable answer.                                           *)
(***************************************************************************)
EXTENDS ModelExecution, TLAPS

-----------------------------------------------------------------------------
(* The inductive invariant.                                                *)

\* The request is not out, or was answered with nothing that can be used.
NothingToLose(c) == provider[c].asked = "no" \/ provider[c].answer \notin Attested \cup {"none"}

\* Points of the sender before the request can be handed over, points at
\* which it holds an answer, and points at which the row holds that answer.
BeforeSend == {"new", "intent", "resolve", "send"}
Holding == {"receipt", "commit", "success", "check"}
Stored == {"commit", "success", "check"}

SenderUnsent ==
  \A c \in Call : sender[c].pc \in BeforeSend => provider[c].asked = "no"

\* A certain failure is recorded by a sender on its way out.
CertainIsLeaving ==
  \A c \in Call : execution[c].state = "provider_failed_certain" => sender[c].pc \in {"failed", "done"}

\* On the sampling route, where the transport knows what it proved.
CertainIsCertain ==
  \A c \in Call :
    /\ route[c].profile = "sampling"
    /\ sender[c].pc = "certain" \/ execution[c].state = "provider_failed_certain"
    => NothingToLose(c)

\* A call is bound to its route before it is admitted, and for good.
SenderIsRouted == \A c \in Call : sender[c].pc # "new" => route[c] # NoRoute

IsAnswer(c, got) == got \in Attested /\ got = provider[c].answer

SenderHoldsAnswer ==
  \A c \in Call :
    /\ sender[c].pc \in Holding => IsAnswer(c, sender[c].got)
    /\ sender[c].pc \in Stored => execution[c].response = sender[c].got

RowHoldsAnswer ==
  \A c \in Call :
    /\ execution[c].response # "none" => execution[c].response = provider[c].answer
    /\ execution[c].state \in {"provider_terminal_receipt", "result_committed"} =>
         execution[c].response # "none"

ReconcilerHoldsAnswer ==
  \A r \in Reconciler, c \in Call : reconciler[r].call = c =>
    /\ reconciler[r].pc \in {"store", "settle"} => IsAnswer(c, reconciler[r].got)
    /\ reconciler[r].pc = "settle" => execution[c].response = reconciler[r].got

\* A reconciler about to set a row aside knows what to call it.
ReconcilerHoldsReason ==
  \A r \in Reconciler : reconciler[r].pc = "set_aside" => reconciler[r].got \in Quarantined

Certainty ==
  /\ SenderUnsent
  /\ CertainIsLeaving
  /\ CertainIsCertain
  /\ SenderIsRouted
  /\ ReconcilerHoldsReason

OneAnswer ==
  /\ SenderHoldsAnswer
  /\ RowHoldsAnswer
  /\ ReconcilerHoldsAnswer
  /\ SuccessIsProvidersAnswer

-----------------------------------------------------------------------------
(* What the updates of the tables do to one row.                           *)

Senders == [pc : SenderPoints, got : Attested \cup {"none"}]
Executions == [state : ExecutionStates, response : Attested \cup {"none"}]
BrokerCalls ==
  [state : {"none", "started", "succeeded", "failed"}, response : Attested \cup {"none"},
   usage : {"zero", "reserved", "reported"}]
Providers == [asked : {"no", "scheduled", "yes"}, answer : Answers \cup {"none", "refused"}]
Reconcilers ==
  [pc : ReconcilerPoints, call : Call \cup {"none"}, got : Attested \cup Quarantined \cup {"none"}]

\* The rows of the tables have their types.
LEMMA Rows ==
  ASSUME ModelTypeOK
  PROVE  /\ sender \in [Call -> Senders]
         /\ execution \in [Call -> Executions]
         /\ journal \in [Call -> BrokerCalls]
         /\ provider \in [Call -> Providers]
         /\ reconciler \in [Reconciler -> Reconcilers]
BY DEF ModelTypeOK, Senders, Executions, BrokerCalls, Providers, Reconcilers

\* One row of a table changes, field by field, and no other.
SenderMoves(c, pc, got) ==
  /\ sender' \in [Call -> Senders]
  /\ sender'[c].pc = pc /\ sender'[c].got = got
  /\ \A x \in Call : x # c => sender'[x] = sender[x]

ExecutionMoves(c, state, response) ==
  /\ execution' \in [Call -> Executions]
  /\ execution'[c].state = state /\ execution'[c].response = response
  /\ \A x \in Call : x # c => execution'[x] = execution[x]

JournalMoves(c, state) ==
  /\ journal' \in [Call -> BrokerCalls]
  /\ journal'[c].state = state
  /\ \A x \in Call : x # c => journal'[x] = journal[x]

ProviderMoves(c, asked, answer) ==
  /\ provider' \in [Call -> Providers]
  /\ provider'[c].asked = asked /\ provider'[c].answer = answer
  /\ \A x \in Call : x # c => provider'[x] = provider[x]

ReconcilerMoves(r, pc, call, got) ==
  /\ reconciler' \in [Reconciler -> Reconcilers]
  /\ reconciler'[r].pc = pc /\ reconciler'[r].call = call /\ reconciler'[r].got = got
  /\ \A x \in Reconciler : x # r => reconciler'[x] = reconciler[x]

LEMMA SenderRow ==
  ASSUME ModelTypeOK, NEW c \in Call, NEW pc \in SenderPoints, Continue(c, pc)
  PROVE  SenderMoves(c, pc, sender[c].got)
BY Rows DEF Continue, Senders, SenderMoves

LEMMA ExecutionRow ==
  ASSUME ModelTypeOK, NEW c \in Call, NEW state \in ExecutionStates,
         execution' = [execution EXCEPT ![c].state = state]
  PROVE  ExecutionMoves(c, state, execution[c].response)
BY Rows DEF Executions, ExecutionMoves

LEMMA ResponseRow ==
  ASSUME ModelTypeOK, NEW c \in Call, NEW state \in ExecutionStates, NEW response \in Attested,
         execution' = [execution EXCEPT ![c] = [state |-> state, response |-> response]]
  PROVE  ExecutionMoves(c, state, response)
BY Rows DEF Executions, ExecutionMoves

LEMMA UnsuccessfulRow ==
  ASSUME ModelTypeOK, NEW c \in Call, NEW usage \in {"zero", "reserved", "reported"},
         NEW state \in {"none", "started", "failed"},
         journal' = [journal EXCEPT ![c].state = state, ![c].usage = usage]
  PROVE  JournalMoves(c, state)
BY Rows DEF BrokerCalls, JournalMoves

LEMMA SucceededRow ==
  ASSUME ModelTypeOK, NEW c \in Call, NEW got \in Attested,
         journal' = [journal EXCEPT ![c] =
                       [state |-> "succeeded", response |-> got, usage |-> "reported"]]
  PROVE  /\ JournalMoves(c, "succeeded")
         /\ journal'[c].response = got /\ journal'[c].usage = "reported"
BY Rows DEF BrokerCalls, JournalMoves

LEMMA AskedRow ==
  ASSUME ModelTypeOK, NEW c \in Call, NEW asked \in {"no", "scheduled", "yes"},
         provider' = [provider EXCEPT ![c].asked = asked]
  PROVE  ProviderMoves(c, asked, provider[c].answer)
BY Rows DEF Providers, ProviderMoves

LEMMA AnsweredRow ==
  ASSUME ModelTypeOK, NEW c \in Call, NEW answer \in Answers \cup {"refused"},
         provider' = [provider EXCEPT ![c].answer = answer]
  PROVE  ProviderMoves(c, provider[c].asked, answer)
BY Rows DEF Providers, ProviderMoves

LEMMA ReconcilerRow ==
  ASSUME ModelTypeOK, NEW r \in Reconciler
  PROVE  /\ \A pc \in ReconcilerPoints :
              Go(r, pc) => ReconcilerMoves(r, pc, reconciler[r].call, reconciler[r].got)
         /\ \A pc \in ReconcilerPoints, got \in Attested \cup Quarantined \cup {"none"} :
              GoWith(r, pc, got) => ReconcilerMoves(r, pc, reconciler[r].call, got)
         /\ Stop(r) => ReconcilerMoves(r, "idle", "none", "none")
<1>1. ASSUME NEW pc \in ReconcilerPoints, Go(r, pc)
      PROVE  ReconcilerMoves(r, pc, reconciler[r].call, reconciler[r].got)
  BY <1>1, Rows DEF Go, Reconcilers, ReconcilerMoves
<1>2. ASSUME NEW pc \in ReconcilerPoints, NEW got \in Attested \cup Quarantined \cup {"none"},
             GoWith(r, pc, got)
      PROVE  ReconcilerMoves(r, pc, reconciler[r].call, got)
  BY <1>2, Rows DEF GoWith, Reconcilers, ReconcilerMoves
<1>3. ASSUME Stop(r) PROVE ReconcilerMoves(r, "idle", "none", "none")
  BY <1>3, Rows DEF Stop, Idle, Reconcilers, ReconcilerPoints, ReconcilerMoves
<1> QED BY <1>1, <1>2, <1>3

-----------------------------------------------------------------------------
(* Every action preserves the invariant.                                   *)

Safety == ModelTypeOK /\ Certainty /\ OneAnswer

\* The sender's own steps.
LEMMA SendSafe ==
  ASSUME Safety, NEW c \in Call, Send(c)
  PROVE  Safety'
<1>1. CASE AdmitCall(c)
  <2>1. SenderMoves(c, "intent", sender[c].got) /\ JournalMoves(c, "started")
    BY <1>1, SenderRow, Rows DEF AdmitCall, Safety, SenderPoints, BrokerCalls, JournalMoves
  <2>2. ModelTypeOK'
    BY <1>1, <2>1
    DEF Safety, AdmitCall, host, bound, ModelTypeOK, Senders, Executions, BrokerCalls, Providers,
        Reconcilers, SenderMoves, JournalMoves
  <2>3. Certainty'
    BY <1>1, <2>1
    DEF Safety, AdmitCall, host, bound, Certainty, SenderUnsent, CertainIsLeaving,
        CertainIsCertain, SenderIsRouted, NothingToLose, ReconcilerHoldsReason, BeforeSend, SenderMoves,
        JournalMoves
  <2>4. OneAnswer'
    BY <1>1, <2>1
    DEF Safety, AdmitCall, host, bound, OneAnswer, SenderHoldsAnswer, RowHoldsAnswer,
        ReconcilerHoldsAnswer, SuccessIsProvidersAnswer, StoredResponse, IsAnswer, Holding,
        Stored, SenderMoves, JournalMoves
  <2> QED BY <2>2, <2>3, <2>4 DEF Safety
<1>2. CASE WriteIntent(c)
  <2>1. SenderMoves(c, "resolve", sender[c].got) /\ ExecutionMoves(c, "provider_send_started", execution[c].response)
    BY <1>2, SenderRow, ExecutionRow
    DEF WriteIntent, Safety, SenderPoints, ExecutionStates, Uncertain
  <2>2. ModelTypeOK'
    BY <1>2, <2>1
    DEF Safety, WriteIntent, host, bound, ModelTypeOK, Senders, Executions, BrokerCalls,
        Providers, Reconcilers, SenderMoves, ExecutionMoves
  <2>3. Certainty'
    BY <1>2, <2>1
    DEF Safety, WriteIntent, host, bound, Certainty, SenderUnsent, CertainIsLeaving,
        CertainIsCertain, SenderIsRouted, NothingToLose, ReconcilerHoldsReason, BeforeSend, SenderMoves,
        ExecutionMoves
  <2>4. OneAnswer'
    BY <1>2, <2>1
    DEF Safety, WriteIntent, host, bound, OneAnswer, SenderHoldsAnswer, RowHoldsAnswer,
        ReconcilerHoldsAnswer, SuccessIsProvidersAnswer, StoredResponse, IsAnswer, Holding,
        Stored, SenderMoves, ExecutionMoves
  <2> QED BY <2>2, <2>3, <2>4 DEF Safety
<1>3. CASE ResolveRoute(c)
  <2>1. SenderMoves(c, "send", sender[c].got) \/ SenderMoves(c, "certain", sender[c].got)
    BY <1>3, SenderRow DEF ResolveRoute, Safety, SenderPoints
  <2>2. ModelTypeOK'
    BY <1>3, <2>1
    DEF Safety, ResolveRoute, host, bound, ModelTypeOK, Senders, Executions, BrokerCalls,
        Providers, Reconcilers, SenderMoves
  <2>3. Certainty'
    BY <1>3, <2>1
    DEF Safety, ResolveRoute, host, bound, Certainty, SenderUnsent, CertainIsLeaving,
        CertainIsCertain, SenderIsRouted, NothingToLose, ReconcilerHoldsReason, BeforeSend, SenderMoves
  <2>4. OneAnswer'
    BY <1>3, <2>1
    DEF Safety, ResolveRoute, host, bound, OneAnswer, SenderHoldsAnswer, RowHoldsAnswer,
        ReconcilerHoldsAnswer, SuccessIsProvidersAnswer, StoredResponse, IsAnswer, Holding,
        Stored, SenderMoves
  <2> QED BY <2>2, <2>3, <2>4 DEF Safety
<1>4. CASE RefuseUnsent(c)
  <2>1. SenderMoves(c, "certain", sender[c].got)
    BY <1>4, SenderRow DEF RefuseUnsent, Safety, SenderPoints
  <2>2. ModelTypeOK'
    BY <1>4, <2>1
    DEF Safety, RefuseUnsent, host, bound, ModelTypeOK, Senders, Executions, BrokerCalls,
        Providers, Reconcilers, SenderMoves
  <2>3. Certainty'
    BY <1>4, <2>1
    DEF Safety, RefuseUnsent, host, bound, Certainty, SenderUnsent, CertainIsLeaving,
        CertainIsCertain, SenderIsRouted, NothingToLose, ReconcilerHoldsReason, BeforeSend, SenderMoves
  <2>4. OneAnswer'
    BY <1>4, <2>1
    DEF Safety, RefuseUnsent, host, bound, OneAnswer, SenderHoldsAnswer, RowHoldsAnswer,
        ReconcilerHoldsAnswer, SuccessIsProvidersAnswer, StoredResponse, IsAnswer, Holding,
        Stored, SenderMoves
  <2> QED BY <2>2, <2>3, <2>4 DEF Safety
<1>5. CASE GatewaySend(c)
  <2>1. SenderMoves(c, "waiting", sender[c].got) /\ ProviderMoves(c, "yes", provider[c].answer)
    BY <1>5, SenderRow, AskedRow DEF GatewaySend, Safety, SenderPoints
  <2>2. ModelTypeOK'
    BY <1>5, <2>1
    DEF Safety, GatewaySend, host, bound, ModelTypeOK, Senders, Executions, BrokerCalls,
        Providers, Reconcilers, SenderMoves, ProviderMoves
  <2>3. Certainty'
    BY <1>5, <2>1
    DEF Safety, GatewaySend, host, bound, Certainty, SenderUnsent, CertainIsLeaving,
        CertainIsCertain, SenderIsRouted, NothingToLose, ReconcilerHoldsReason, BeforeSend, SenderMoves,
        ProviderMoves
  <2>4. OneAnswer'
    BY <1>5, <2>1
    DEF Safety, GatewaySend, host, bound, OneAnswer, SenderHoldsAnswer, RowHoldsAnswer,
        ReconcilerHoldsAnswer, SuccessIsProvidersAnswer, StoredResponse, IsAnswer, Holding,
        Stored, SenderMoves, ProviderMoves
  <2> QED BY <2>2, <2>3, <2>4 DEF Safety
<1>6. CASE ScheduleSampling(c)
  <2>1. \/ SenderMoves(c, "scheduled", sender[c].got) /\ ProviderMoves(c, "scheduled", provider[c].answer)
        \/ SenderMoves(c, "certain", sender[c].got) /\ UNCHANGED provider
    BY <1>6, SenderRow, AskedRow DEF ScheduleSampling, Safety, SenderPoints
  <2>2. ModelTypeOK'
    BY <1>6, <2>1
    DEF Safety, ScheduleSampling, host, bound, ModelTypeOK, Senders, Executions, BrokerCalls,
        Providers, Reconcilers, SenderMoves, ProviderMoves
  <2>3. Certainty'
    BY <1>6, <2>1
    DEF Safety, ScheduleSampling, host, bound, Certainty, SenderUnsent, CertainIsLeaving,
        CertainIsCertain, SenderIsRouted, NothingToLose, ReconcilerHoldsReason, BeforeSend, SenderMoves,
        ProviderMoves
  <2>4. OneAnswer'
    BY <1>6, <2>1
    DEF Safety, ScheduleSampling, host, bound, OneAnswer, SenderHoldsAnswer, RowHoldsAnswer,
        ReconcilerHoldsAnswer, SuccessIsProvidersAnswer, StoredResponse, IsAnswer, Holding,
        Stored, SenderMoves, ProviderMoves
  <2> QED BY <2>2, <2>3, <2>4 DEF Safety
<1>7. CASE OwnFuture(c)
  <2>1. SenderMoves(c, "waiting", sender[c].got) \/ SenderMoves(c, "unknown", sender[c].got)
    BY <1>7, SenderRow DEF OwnFuture, Safety, SenderPoints
  <2>2. ModelTypeOK'
    BY <1>7, <2>1
    DEF Safety, OwnFuture, host, bound, ModelTypeOK, Senders, Executions, BrokerCalls, Providers,
        Reconcilers, SenderMoves
  <2>3. Certainty'
    BY <1>7, <2>1
    DEF Safety, OwnFuture, host, bound, Certainty, SenderUnsent, CertainIsLeaving,
        CertainIsCertain, SenderIsRouted, NothingToLose, ReconcilerHoldsReason, BeforeSend, SenderMoves
  <2>4. OneAnswer'
    BY <1>7, <2>1
    DEF Safety, OwnFuture, host, bound, OneAnswer, SenderHoldsAnswer, RowHoldsAnswer,
        ReconcilerHoldsAnswer, SuccessIsProvidersAnswer, StoredResponse, IsAnswer, Holding,
        Stored, SenderMoves
  <2> QED BY <2>2, <2>3, <2>4 DEF Safety
<1>8. CASE ReceiveAnswer(c)
  <2> DEFINE answer == provider[c].answer
             verdict == Verdict(c, answer)
             got == IF answer \in Attested THEN answer ELSE "none"
  <2>a. answer \in Answers \cup {"refused"}
    BY <1>8, Rows DEF Safety, ReceiveAnswer, Providers
  <2>b. /\ verdict \in {"receipt", "drift", "certain"}
        /\ verdict = "receipt" => answer \in Attested
        /\ verdict = "certain" => answer \notin Attested \cup {"none"}
    BY <2>a DEF Verdict, Answers, Attested
  <2>c. sender' = [sender EXCEPT ![c] = [pc |-> verdict, got |-> got]]
    BY <1>8 DEF ReceiveAnswer
  <2> HIDE DEF verdict
  <2>1. SenderMoves(c, verdict, got)
    BY <2>b, <2>c, Rows DEF Safety, Senders, SenderPoints, SenderMoves, Attested
  <2>2. ModelTypeOK'
    BY <1>8, <2>1
    DEF Safety, ReceiveAnswer, host, bound, ModelTypeOK, Senders, Executions, BrokerCalls,
        Providers, Reconcilers, SenderMoves
  <2>3. Certainty'
    BY <1>8, <2>1, <2>b
    DEF Safety, ReceiveAnswer, host, bound, Certainty, SenderUnsent, CertainIsLeaving,
        CertainIsCertain, SenderIsRouted, NothingToLose, ReconcilerHoldsReason, BeforeSend, SenderMoves
  <2>4. OneAnswer'
    BY <1>8, <2>1, <2>b
    DEF Safety, ReceiveAnswer, host, bound, OneAnswer, SenderHoldsAnswer, RowHoldsAnswer,
        ReconcilerHoldsAnswer, SuccessIsProvidersAnswer, StoredResponse, IsAnswer, Holding,
        Stored, SenderMoves
  <2> QED BY <2>2, <2>3, <2>4 DEF Safety
<1>9. CASE LoseAnswer(c)
  <2>1. SenderMoves(c, "unknown", sender[c].got)
    BY <1>9, SenderRow DEF LoseAnswer, Safety, SenderPoints
  <2>2. ModelTypeOK'
    BY <1>9, <2>1
    DEF Safety, LoseAnswer, host, bound, ModelTypeOK, Senders, Executions, BrokerCalls,
        Providers, Reconcilers, SenderMoves
  <2>3. Certainty'
    BY <1>9, <2>1
    DEF Safety, LoseAnswer, host, bound, Certainty, SenderUnsent, CertainIsLeaving,
        CertainIsCertain, SenderIsRouted, NothingToLose, ReconcilerHoldsReason, BeforeSend, SenderMoves
  <2>4. OneAnswer'
    BY <1>9, <2>1
    DEF Safety, LoseAnswer, host, bound, OneAnswer, SenderHoldsAnswer, RowHoldsAnswer,
        ReconcilerHoldsAnswer, SuccessIsProvidersAnswer, StoredResponse, IsAnswer, Holding,
        Stored, SenderMoves
  <2> QED BY <2>2, <2>3, <2>4 DEF Safety
<1>10. CASE RecordFailure(c)
  <2>1. PICK state \in {"route_drift_quarantined", "provider_call_indeterminate", "provider_failed_certain"},
             pc \in {"done", "failed"} :
          /\ SenderMoves(c, pc, sender[c].got)
          /\ ExecutionMoves(c, state, execution[c].response)
          /\ state = "provider_failed_certain" => sender[c].pc = "certain"
    <3>1. sender[c].pc \in {"drift", "unknown", "certain"}
      BY <1>10 DEF RecordFailure, FailureState
    <3>2. /\ FailureState[sender[c].pc] \in
               {"route_drift_quarantined", "provider_call_indeterminate", "provider_failed_certain"}
          /\ FailureState[sender[c].pc] = "provider_failed_certain" => sender[c].pc = "certain"
      BY <3>1 DEF FailureState
    <3>3. ExecutionMoves(c, FailureState[sender[c].pc], execution[c].response)
      BY <1>10, <3>2, ExecutionRow
      DEF RecordFailure, Safety, ExecutionStates, Uncertain, Quarantined
    <3>4. \E pc \in {"done", "failed"} : SenderMoves(c, pc, sender[c].got)
      BY <1>10, SenderRow DEF RecordFailure, Safety, SenderPoints
    <3> QED BY <3>2, <3>3, <3>4
  <2>2. ModelTypeOK'
    BY <1>10, <2>1
    DEF Safety, RecordFailure, host, bound, ModelTypeOK, Senders, Executions, BrokerCalls,
        Providers, Reconcilers, SenderMoves, ExecutionMoves
  <2>3. Certainty'
    <3>1. SenderUnsent' /\ CertainIsLeaving'
      BY <1>10, <2>1
      DEF Safety, RecordFailure, host, bound, Certainty, SenderUnsent, CertainIsLeaving,
          BeforeSend, SenderMoves, ExecutionMoves
    <3>2. CertainIsCertain'
      BY <1>10, <2>1
      DEF Safety, RecordFailure, host, bound, Certainty, CertainIsLeaving, CertainIsCertain,
          NothingToLose, SenderMoves, ExecutionMoves
    <3>3. SenderIsRouted'
      <4>1. SenderIsRouted /\ route' = route
        BY <1>10 DEF Safety, RecordFailure, host, bound, Certainty
      <4>2. sender[c].pc # "new"
        BY <1>10 DEF RecordFailure, FailureState
      <4>3. \A x \in Call : x # c => sender'[x] = sender[x]
        BY <2>1 DEF SenderMoves
      <4> QED BY <4>1, <4>2, <4>3 DEF SenderIsRouted
    <3>4. ReconcilerHoldsReason'
      BY <1>10 DEF Safety, RecordFailure, Certainty, ReconcilerHoldsReason
    <3> QED BY <3>1, <3>2, <3>3, <3>4 DEF Certainty
  <2>4. OneAnswer'
    BY <1>10, <2>1
    DEF Safety, RecordFailure, host, bound, OneAnswer, SenderHoldsAnswer, RowHoldsAnswer,
        ReconcilerHoldsAnswer, SuccessIsProvidersAnswer, StoredResponse, IsAnswer, Holding,
        Stored, SenderMoves, ExecutionMoves
  <2> QED BY <2>2, <2>3, <2>4 DEF Safety
<1>11. CASE StoreReceipt(c)
  <2>1. \/ /\ SenderMoves(c, "commit", sender[c].got)
           /\ ExecutionMoves(c, "provider_terminal_receipt", sender[c].got)
        \/ SenderMoves(c, "done", sender[c].got) /\ UNCHANGED execution
    BY <1>11, SenderRow, ResponseRow
    DEF Safety, StoreReceipt, SenderPoints, ExecutionStates, OneAnswer, SenderHoldsAnswer,
        IsAnswer, Holding
  <2>2. ModelTypeOK'
    BY <1>11, <2>1
    DEF Safety, StoreReceipt, host, bound, ModelTypeOK, Senders, Executions, BrokerCalls,
        Providers, Reconcilers, SenderMoves, ExecutionMoves
  <2>3. Certainty'
    BY <1>11, <2>1
    DEF Safety, StoreReceipt, host, bound, Certainty, SenderUnsent, CertainIsLeaving,
        CertainIsCertain, SenderIsRouted, NothingToLose, ReconcilerHoldsReason, BeforeSend, SenderMoves,
        ExecutionMoves
  <2>4. OneAnswer'
    BY <1>11, <2>1
    DEF Safety, StoreReceipt, host, bound, OneAnswer, SenderHoldsAnswer, RowHoldsAnswer,
        ReconcilerHoldsAnswer, SuccessIsProvidersAnswer, StoredResponse, IsAnswer, Holding,
        Stored, Attested, SenderMoves, ExecutionMoves
  <2> QED BY <2>2, <2>3, <2>4 DEF Safety
<1>12. CASE CommitResult(c)
  <2>1. \/ SenderMoves(c, "success", sender[c].got) /\ ExecutionMoves(c, "result_committed", execution[c].response)
        \/ SenderMoves(c, "done", sender[c].got) /\ UNCHANGED execution
    BY <1>12, SenderRow, ExecutionRow DEF CommitResult, Safety, SenderPoints, ExecutionStates
  <2>2. ModelTypeOK'
    BY <1>12, <2>1
    DEF Safety, CommitResult, host, bound, ModelTypeOK, Senders, Executions, BrokerCalls,
        Providers, Reconcilers, SenderMoves, ExecutionMoves
  <2>3. Certainty'
    BY <1>12, <2>1
    DEF Safety, CommitResult, host, bound, Certainty, SenderUnsent, CertainIsLeaving,
        CertainIsCertain, SenderIsRouted, NothingToLose, ReconcilerHoldsReason, BeforeSend, SenderMoves,
        ExecutionMoves
  <2>4. OneAnswer'
    BY <1>12, <2>1
    DEF Safety, CommitResult, host, bound, OneAnswer, SenderHoldsAnswer, RowHoldsAnswer,
        ReconcilerHoldsAnswer, SuccessIsProvidersAnswer, StoredResponse, IsAnswer, Holding,
        Stored, SenderMoves, ExecutionMoves
  <2> QED BY <2>2, <2>3, <2>4 DEF Safety
<1>13. CASE RecordSuccess(c)
  <2>1. /\ SenderMoves(c, "check", sender[c].got) /\ JournalMoves(c, "succeeded")
        /\ journal'[c].response = sender[c].got /\ journal'[c].usage = "reported"
    BY <1>13, SenderRow, SucceededRow
    DEF RecordSuccess, Safety, SenderPoints, OneAnswer, SenderHoldsAnswer, RowHoldsAnswer,
        ReconcilerHoldsAnswer, SuccessIsProvidersAnswer, StoredResponse, IsAnswer, Holding, Stored
  <2>2. ModelTypeOK'
    BY <1>13, <2>1
    DEF Safety, RecordSuccess, host, bound, ModelTypeOK, Senders, Executions, BrokerCalls,
        Providers, Reconcilers, SenderMoves, JournalMoves
  <2>3. Certainty'
    BY <1>13, <2>1
    DEF Safety, RecordSuccess, host, bound, Certainty, SenderUnsent, CertainIsLeaving,
        CertainIsCertain, SenderIsRouted, NothingToLose, ReconcilerHoldsReason, BeforeSend, SenderMoves,
        JournalMoves
  <2>4. OneAnswer'
    BY <1>13, <2>1
    DEF Safety, RecordSuccess, host, bound, OneAnswer, SenderHoldsAnswer, RowHoldsAnswer,
        ReconcilerHoldsAnswer, SuccessIsProvidersAnswer, StoredResponse, IsAnswer, Holding,
        Stored, SenderMoves, JournalMoves
  <2> QED BY <2>2, <2>3, <2>4 DEF Safety
<1>14. CASE RecordFailedCall(c)
  <2>1. SenderMoves(c, "done", sender[c].got) /\ JournalMoves(c, "failed")
    BY <1>14, SenderRow, UnsuccessfulRow DEF RecordFailedCall, Safety, SenderPoints
  <2>2. ModelTypeOK'
    BY <1>14, <2>1
    DEF Safety, RecordFailedCall, host, bound, ModelTypeOK, Senders, Executions, BrokerCalls,
        Providers, Reconcilers, SenderMoves, JournalMoves
  <2>3. Certainty'
    BY <1>14, <2>1
    DEF Safety, RecordFailedCall, host, bound, Certainty, SenderUnsent, CertainIsLeaving,
        CertainIsCertain, SenderIsRouted, NothingToLose, ReconcilerHoldsReason, BeforeSend, SenderMoves,
        JournalMoves
  <2>4. OneAnswer'
    BY <1>14, <2>1
    DEF Safety, RecordFailedCall, host, bound, OneAnswer, SenderHoldsAnswer, RowHoldsAnswer,
        ReconcilerHoldsAnswer, SuccessIsProvidersAnswer, StoredResponse, IsAnswer, Holding,
        Stored, SenderMoves, JournalMoves
  <2> QED BY <2>2, <2>3, <2>4 DEF Safety
<1>15. CASE CheckUsage(c)
  <2>1. /\ SenderMoves(c, "done", sender[c].got)
        /\ JournalMoves(c, "failed") \/ UNCHANGED journal
    BY <1>15, SenderRow, Rows DEF CheckUsage, Safety, SenderPoints, BrokerCalls, JournalMoves
  <2>2. ModelTypeOK'
    BY <1>15, <2>1
    DEF Safety, CheckUsage, host, bound, ModelTypeOK, Senders, Executions, BrokerCalls,
        Providers, Reconcilers, SenderMoves, JournalMoves
  <2>3. Certainty'
    BY <1>15, <2>1
    DEF Safety, CheckUsage, host, bound, Certainty, SenderUnsent, CertainIsLeaving,
        CertainIsCertain, SenderIsRouted, NothingToLose, ReconcilerHoldsReason, BeforeSend, SenderMoves,
        JournalMoves
  <2>4. OneAnswer'
    BY <1>15, <2>1
    DEF Safety, CheckUsage, host, bound, OneAnswer, SenderHoldsAnswer, RowHoldsAnswer,
        ReconcilerHoldsAnswer, SuccessIsProvidersAnswer, StoredResponse, IsAnswer, Holding,
        Stored, SenderMoves, JournalMoves
  <2> QED BY <2>2, <2>3, <2>4 DEF Safety
<1>16. CASE TransportRaises(c)
  <2>1. /\ SenderMoves(c, "certain", sender[c].got) \/ SenderMoves(c, "drift", sender[c].got)
        /\ route[c].profile = "gateway"
    BY <1>16, SenderRow DEF TransportRaises, Safety, SenderPoints
  <2>2. ModelTypeOK'
    BY <1>16, <2>1
    DEF Safety, TransportRaises, host, bound, ModelTypeOK, Senders, Executions, BrokerCalls,
        Providers, Reconcilers, SenderMoves
  <2>3. Certainty'
    BY <1>16, <2>1
    DEF Safety, TransportRaises, host, bound, Certainty, SenderUnsent, CertainIsLeaving,
        CertainIsCertain, SenderIsRouted, NothingToLose, ReconcilerHoldsReason, BeforeSend,
        SenderMoves
  <2>4. OneAnswer'
    BY <1>16, <2>1
    DEF Safety, TransportRaises, host, bound, OneAnswer, SenderHoldsAnswer, RowHoldsAnswer,
        ReconcilerHoldsAnswer, SuccessIsProvidersAnswer, StoredResponse, IsAnswer, Holding,
        Stored, SenderMoves
  <2> QED BY <2>2, <2>3, <2>4 DEF Safety
<1> QED BY <1>1, <1>2, <1>3, <1>4, <1>5, <1>6, <1>7, <1>8, <1>9, <1>10, <1>11, <1>12, <1>13,
   <1>14, <1>15, <1>16
DEF Send

\* Bindings, withdrawal and the provider.
LEMMA EnvironmentSafe ==
  ASSUME Safety, NEW c \in Call, Environment(c)
  PROVE  Safety'
<1>1. CASE \E profile \in Profiles : BindRoute(c, profile)
  <2>2. ModelTypeOK'
    BY <1>1
    DEF Safety, BindRoute, host, bound, ModelTypeOK, Senders, Executions, BrokerCalls, Providers,
        Reconcilers, Routes
  <2>3. Certainty'
    BY <1>1
    DEF Safety, BindRoute, host, bound, Certainty, SenderUnsent, CertainIsLeaving,
        CertainIsCertain, SenderIsRouted, NothingToLose, ReconcilerHoldsReason, BeforeSend
  <2>4. OneAnswer'
    BY <1>1
    DEF Safety, BindRoute, host, bound, OneAnswer, SenderHoldsAnswer, RowHoldsAnswer,
        ReconcilerHoldsAnswer, SuccessIsProvidersAnswer, StoredResponse, IsAnswer, Holding, Stored
  <2> QED BY <2>2, <2>3, <2>4 DEF Safety
<1>2. CASE BindSession(c)
  <2>2. ModelTypeOK'
    BY <1>2
    DEF Safety, BindSession, host, bound, ModelTypeOK, Senders, Executions, BrokerCalls,
        Providers, Reconcilers
  <2>3. Certainty'
    BY <1>2
    DEF Safety, BindSession, host, bound, Certainty, SenderUnsent, CertainIsLeaving,
        CertainIsCertain, SenderIsRouted, NothingToLose, ReconcilerHoldsReason, BeforeSend
  <2>4. OneAnswer'
    BY <1>2
    DEF Safety, BindSession, host, bound, OneAnswer, SenderHoldsAnswer, RowHoldsAnswer,
        ReconcilerHoldsAnswer, SuccessIsProvidersAnswer, StoredResponse, IsAnswer, Holding, Stored
  <2> QED BY <2>2, <2>3, <2>4 DEF Safety
<1>3. CASE UnbindSession(c)
  <2>2. ModelTypeOK'
    BY <1>3
    DEF Safety, UnbindSession, host, bound, ModelTypeOK, Senders, Executions, BrokerCalls,
        Providers, Reconcilers
  <2>3. Certainty'
    BY <1>3
    DEF Safety, UnbindSession, host, bound, Certainty, SenderUnsent, CertainIsLeaving,
        CertainIsCertain, SenderIsRouted, NothingToLose, ReconcilerHoldsReason, BeforeSend
  <2>4. OneAnswer'
    BY <1>3
    DEF Safety, UnbindSession, host, bound, OneAnswer, SenderHoldsAnswer, RowHoldsAnswer,
        ReconcilerHoldsAnswer, SuccessIsProvidersAnswer, StoredResponse, IsAnswer, Holding, Stored
  <2> QED BY <2>2, <2>3, <2>4 DEF Safety
<1>4. CASE \E why \in {"expired", "cancelled"} : Withdraw(c, why)
  <2>2. ModelTypeOK'
    BY <1>4
    DEF Safety, Withdraw, host, bound, ModelTypeOK, Senders, Executions, BrokerCalls, Providers,
        Reconcilers
  <2>3. Certainty'
    BY <1>4
    DEF Safety, Withdraw, host, bound, Certainty, SenderUnsent, CertainIsLeaving,
        CertainIsCertain, SenderIsRouted, NothingToLose, ReconcilerHoldsReason, BeforeSend
  <2>4. OneAnswer'
    BY <1>4
    DEF Safety, Withdraw, host, bound, OneAnswer, SenderHoldsAnswer, RowHoldsAnswer,
        ReconcilerHoldsAnswer, SuccessIsProvidersAnswer, StoredResponse, IsAnswer, Holding, Stored
  <2> QED BY <2>2, <2>3, <2>4 DEF Safety
<1>5. CASE SamplingReaches(c)
  <2>1. ProviderMoves(c, "yes", provider[c].answer)
    BY <1>5, AskedRow DEF SamplingReaches, Safety
  <2>2. ModelTypeOK'
    BY <1>5, <2>1
    DEF Safety, SamplingReaches, host, bound, ModelTypeOK, Senders, Executions, BrokerCalls,
        Providers, Reconcilers, ProviderMoves
  <2>3. Certainty'
    BY <1>5, <2>1
    DEF Safety, SamplingReaches, host, bound, Certainty, SenderUnsent, CertainIsLeaving,
        CertainIsCertain, SenderIsRouted, NothingToLose, ReconcilerHoldsReason, BeforeSend, ProviderMoves
  <2>4. OneAnswer'
    BY <1>5, <2>1
    DEF Safety, SamplingReaches, host, bound, OneAnswer, SenderHoldsAnswer, RowHoldsAnswer,
        ReconcilerHoldsAnswer, SuccessIsProvidersAnswer, StoredResponse, IsAnswer, Holding,
        Stored, ProviderMoves
  <2> QED BY <2>2, <2>3, <2>4 DEF Safety
<1>6. CASE \E answer \in Answers \cup {"refused"} : ProviderAnswers(c, answer)
  <2>1. /\ \E answer \in Answers \cup {"refused"} : ProviderMoves(c, provider[c].asked, answer)
        /\ provider[c].answer = "none" /\ provider[c].asked = "yes"
    BY <1>6, AnsweredRow DEF ProviderAnswers, Safety
  <2>2. ModelTypeOK'
    BY <1>6, <2>1
    DEF Safety, ProviderAnswers, host, bound, ModelTypeOK, Senders, Executions, BrokerCalls,
        Providers, Reconcilers, ProviderMoves
  <2>3. Certainty'
    BY <1>6, <2>1
    DEF Safety, ProviderAnswers, host, bound, Certainty, SenderUnsent, CertainIsLeaving,
        CertainIsCertain, SenderIsRouted, NothingToLose, ReconcilerHoldsReason, BeforeSend, ProviderMoves,
        Attested
  <2>4. OneAnswer'
    BY <1>6, <2>1
    DEF Safety, ProviderAnswers, host, bound, OneAnswer, SenderHoldsAnswer, RowHoldsAnswer,
        ReconcilerHoldsAnswer, SuccessIsProvidersAnswer, StoredResponse, IsAnswer, Holding,
        Stored, ProviderMoves, Attested
  <2> QED BY <2>2, <2>3, <2>4 DEF Safety
<1> QED BY <1>1, <1>2, <1>3, <1>4, <1>5, <1>6 DEF Environment

\* The reconcilers.
LEMMA ReconcileSafe ==
  ASSUME Safety, NEW r \in Reconciler, NEW c \in Call, Reconcile(r, c)
  PROVE  Safety'
<1>1. CASE BeginReconcile(r, c)
  <2>1. \E pc \in {"read", "quarantine"} : ReconcilerMoves(r, pc, c, "none")
    BY <1>1, Rows DEF BeginReconcile, Safety, Reconcilers, ReconcilerPoints, ReconcilerMoves
  <2>2. ModelTypeOK'
    BY <1>1, <2>1
    DEF Safety, BeginReconcile, host, bound, ModelTypeOK, Senders, Executions, BrokerCalls,
        Providers, Reconcilers, ReconcilerMoves
  <2>3. Certainty'
    BY <1>1, <2>1
    DEF Safety, BeginReconcile, host, bound, Certainty, SenderUnsent, CertainIsLeaving,
        CertainIsCertain, SenderIsRouted, NothingToLose, ReconcilerHoldsReason, BeforeSend, ReconcilerMoves
  <2>4. OneAnswer'
    BY <1>1, <2>1
    DEF Safety, BeginReconcile, host, bound, OneAnswer, SenderHoldsAnswer, RowHoldsAnswer,
        ReconcilerHoldsAnswer, SuccessIsProvidersAnswer, StoredResponse, IsAnswer, Holding,
        Stored, ReconcilerMoves
  <2> QED BY <2>2, <2>3, <2>4 DEF Safety
<1>2. CASE ReadExecution(r, c)
  <2>1. \/ ReconcilerMoves(r, "settle", c, execution[c].response) /\ IsAnswer(c, execution[c].response)
        \/ ReconcilerMoves(r, "promote", c, reconciler[r].got)
        \/ ReconcilerMoves(r, "lookup", c, reconciler[r].got)
        \/ ReconcilerMoves(r, "idle", "none", "none")
    BY <1>2, Rows, ReconcilerRow
    DEF ReadExecution, Safety, ReconcilerPoints, StoredResponse, Executions, OneAnswer,
        RowHoldsAnswer, IsAnswer, Attested
  <2>2. ModelTypeOK'
    BY <1>2, <2>1
    DEF Safety, ReadExecution, host, bound, ModelTypeOK, Senders, Executions, BrokerCalls,
        Providers, Reconcilers, ReconcilerMoves
  <2>3. Certainty'
    BY <1>2, <2>1
    DEF Safety, ReadExecution, host, bound, Certainty, SenderUnsent, CertainIsLeaving,
        CertainIsCertain, SenderIsRouted, NothingToLose, ReconcilerHoldsReason, BeforeSend, ReconcilerMoves,
        Attested
  <2>4. OneAnswer'
    <3>1. SenderHoldsAnswer'
      BY <1>2, <2>1
      DEF Safety, ReadExecution, host, bound, OneAnswer, SenderHoldsAnswer, ReconcilerMoves,
          Attested, Holding, Stored, IsAnswer
    <3>2. RowHoldsAnswer'
      BY <1>2, <2>1
      DEF Safety, ReadExecution, host, bound, OneAnswer, RowHoldsAnswer, ReconcilerMoves, Attested
    <3>3. ReconcilerHoldsAnswer'
      BY <1>2, <2>1
      DEF Safety, ReadExecution, host, bound, OneAnswer, ReconcilerHoldsAnswer, ReconcilerMoves,
          Attested, RowHoldsAnswer, IsAnswer
    <3>4. SuccessIsProvidersAnswer'
      BY <1>2, <2>1
      DEF Safety, ReadExecution, host, bound, OneAnswer, SuccessIsProvidersAnswer,
          ReconcilerMoves, Attested, StoredResponse, ReconcilerHoldsAnswer, IsAnswer
    <3> QED BY <3>1, <3>2, <3>3, <3>4 DEF OneAnswer
  <2> QED BY <2>2, <2>3, <2>4 DEF Safety
<1>3. CASE PromoteReceipt(r, c)
  <2>1. \/ /\ ReconcilerMoves(r, "settle", c, execution[c].response)
           /\ ExecutionMoves(c, "result_committed", execution[c].response)
           /\ IsAnswer(c, execution[c].response)
        \/ ReconcilerMoves(r, "idle", "none", "none") /\ UNCHANGED execution
    BY <1>3, Rows, ReconcilerRow, ExecutionRow
    DEF PromoteReceipt, Safety, ReconcilerPoints, StoredResponse, Executions, ExecutionStates,
        OneAnswer, RowHoldsAnswer, IsAnswer, Attested
  <2>2. ModelTypeOK'
    BY <1>3, <2>1
    DEF Safety, PromoteReceipt, host, bound, ModelTypeOK, Senders, Executions, BrokerCalls,
        Providers, Reconcilers, ReconcilerMoves, ExecutionMoves
  <2>3. Certainty'
    BY <1>3, <2>1
    DEF Safety, PromoteReceipt, host, bound, Certainty, SenderUnsent, CertainIsLeaving,
        CertainIsCertain, SenderIsRouted, NothingToLose, ReconcilerHoldsReason, BeforeSend, ReconcilerMoves,
        ExecutionMoves, Attested
  <2>4. OneAnswer'
    <3>1. SenderHoldsAnswer'
      BY <1>3, <2>1
      DEF Safety, PromoteReceipt, host, bound, OneAnswer, SenderHoldsAnswer, ReconcilerMoves,
          ExecutionMoves, Attested, Holding, Stored, IsAnswer
    <3>2. RowHoldsAnswer'
      BY <1>3, <2>1
      DEF Safety, PromoteReceipt, host, bound, OneAnswer, RowHoldsAnswer, ReconcilerMoves,
          ExecutionMoves, Attested
    <3>3. ReconcilerHoldsAnswer'
      BY <1>3, <2>1
      DEF Safety, PromoteReceipt, host, bound, OneAnswer, ReconcilerHoldsAnswer, ReconcilerMoves,
          ExecutionMoves, Attested, RowHoldsAnswer, IsAnswer
    <3>4. SuccessIsProvidersAnswer'
      BY <1>3, <2>1
      DEF Safety, PromoteReceipt, host, bound, OneAnswer, SuccessIsProvidersAnswer,
          ReconcilerMoves, ExecutionMoves, Attested, StoredResponse, ReconcilerHoldsAnswer,
          IsAnswer
    <3> QED BY <3>1, <3>2, <3>3, <3>4 DEF OneAnswer
  <2> QED BY <2>2, <2>3, <2>4 DEF Safety
<1>4. CASE LookupClosed(r, c)
  <2>1. ReconcilerMoves(r, "quarantine", c, reconciler[r].got)
    BY <1>4, ReconcilerRow DEF LookupClosed, Safety, ReconcilerPoints, StoredResponse
  <2>2. ModelTypeOK'
    BY <1>4, <2>1
    DEF Safety, LookupClosed, host, bound, ModelTypeOK, Senders, Executions, BrokerCalls,
        Providers, Reconcilers, ReconcilerMoves
  <2>3. Certainty'
    BY <1>4, <2>1
    DEF Safety, LookupClosed, host, bound, Certainty, SenderUnsent, CertainIsLeaving,
        CertainIsCertain, SenderIsRouted, NothingToLose, ReconcilerHoldsReason, BeforeSend, ReconcilerMoves
  <2>4. OneAnswer'
    BY <1>4, <2>1
    DEF Safety, LookupClosed, host, bound, OneAnswer, SenderHoldsAnswer, RowHoldsAnswer,
        ReconcilerHoldsAnswer, SuccessIsProvidersAnswer, StoredResponse, IsAnswer, Holding,
        Stored, ReconcilerMoves
  <2> QED BY <2>2, <2>3, <2>4 DEF Safety
<1>5. CASE Lookup(r, c)
  <2>1. \/ ReconcilerMoves(r, "idle", "none", "none")
        \/ \E got \in Attested : ReconcilerMoves(r, "store", c, got) /\ got = provider[c].answer
        \/ \E got \in Quarantined : ReconcilerMoves(r, "set_aside", c, got)
    BY <1>5, ReconcilerRow DEF Lookup, Safety, ReconcilerPoints, LookupEnds, Attested, Quarantined
  <2>2. ModelTypeOK'
    BY <1>5, <2>1
    DEF Safety, Lookup, host, bound, ModelTypeOK, Senders, Executions, BrokerCalls, Providers,
        Reconcilers, ReconcilerMoves
  <2>3. Certainty'
    BY <1>5, <2>1
    DEF Safety, Lookup, host, bound, Certainty, SenderUnsent, CertainIsLeaving, CertainIsCertain,
        SenderIsRouted, NothingToLose, ReconcilerHoldsReason, BeforeSend, ReconcilerMoves
  <2>4. OneAnswer'
    BY <1>5, <2>1
    DEF Safety, Lookup, host, bound, OneAnswer, SenderHoldsAnswer, RowHoldsAnswer,
        ReconcilerHoldsAnswer, SuccessIsProvidersAnswer, StoredResponse, IsAnswer, Holding,
        Stored, ReconcilerMoves
  <2> QED BY <2>2, <2>3, <2>4 DEF Safety
<1>6. CASE QuarantineExecution(r, c)
  <2>1. /\ ReconcilerMoves(r, "quarantine", c, "none")
        /\ \/ UNCHANGED execution
           \/ \E state \in Quarantined : ExecutionMoves(c, state, execution[c].response)
    BY <1>6, ReconcilerRow, ExecutionRow
    DEF QuarantineExecution, Safety, ReconcilerPoints, ExecutionStates, Certainty,
        ReconcilerHoldsReason
  <2>2. ModelTypeOK'
    BY <1>6, <2>1
    DEF Safety, QuarantineExecution, host, bound, ModelTypeOK, Senders, Executions, BrokerCalls,
        Providers, Reconcilers, ReconcilerMoves, ExecutionMoves
  <2>3. Certainty'
    BY <1>6, <2>1
    DEF Safety, QuarantineExecution, host, bound, Certainty, SenderUnsent, CertainIsLeaving,
        CertainIsCertain, SenderIsRouted, NothingToLose, ReconcilerHoldsReason, BeforeSend, ReconcilerMoves,
        ExecutionMoves, Quarantined
  <2>4. OneAnswer'
    <3>1. SenderHoldsAnswer'
      BY <1>6, <2>1
      DEF Safety, QuarantineExecution, host, bound, OneAnswer, SenderHoldsAnswer,
          ReconcilerMoves, ExecutionMoves, Quarantined, Holding, Stored, IsAnswer
    <3>2. RowHoldsAnswer'
      BY <1>6, <2>1
      DEF Safety, QuarantineExecution, host, bound, OneAnswer, RowHoldsAnswer, ReconcilerMoves,
          ExecutionMoves, Quarantined
    <3>3. ReconcilerHoldsAnswer'
      BY <1>6, <2>1
      DEF Safety, QuarantineExecution, host, bound, OneAnswer, ReconcilerHoldsAnswer,
          ReconcilerMoves, ExecutionMoves, Quarantined, RowHoldsAnswer, IsAnswer
    <3>4. SuccessIsProvidersAnswer'
      BY <1>6, <2>1
      DEF Safety, QuarantineExecution, host, bound, OneAnswer, SuccessIsProvidersAnswer,
          ReconcilerMoves, ExecutionMoves, Quarantined, StoredResponse, ReconcilerHoldsAnswer,
          IsAnswer
    <3> QED BY <3>1, <3>2, <3>3, <3>4 DEF OneAnswer
  <2> QED BY <2>2, <2>3, <2>4 DEF Safety
<1>7. CASE StoreRecovered(r, c)
  <2>1. \/ ReconcilerMoves(r, "settle", c, reconciler[r].got) /\ ExecutionMoves(c, "result_committed", reconciler[r].got)
        \/ ReconcilerMoves(r, "settle", c, reconciler[r].got) /\ UNCHANGED execution /\ execution[c].response = reconciler[r].got
        \/ ReconcilerMoves(r, "quarantine", c, "none") /\ UNCHANGED execution
        \/ ReconcilerMoves(r, "idle", "none", "none") /\ UNCHANGED execution
    BY <1>7, Rows, ReconcilerRow, ResponseRow
    DEF StoreRecovered, Safety, ReconcilerPoints, ExecutionStates, Executions, OneAnswer,
        ReconcilerHoldsAnswer, IsAnswer
  <2>2. ModelTypeOK'
    BY <1>7, <2>1
    DEF Safety, StoreRecovered, host, bound, ModelTypeOK, Senders, Executions, BrokerCalls,
        Providers, Reconcilers, ReconcilerMoves, ExecutionMoves
  <2>3. Certainty'
    BY <1>7, <2>1
    DEF Safety, StoreRecovered, host, bound, Certainty, SenderUnsent, CertainIsLeaving,
        CertainIsCertain, SenderIsRouted, NothingToLose, ReconcilerHoldsReason, BeforeSend, ReconcilerMoves,
        ExecutionMoves, Attested
  <2>4. OneAnswer'
    BY <1>7, <2>1
    DEF Safety, StoreRecovered, host, bound, OneAnswer, SenderHoldsAnswer, RowHoldsAnswer,
        ReconcilerHoldsAnswer, SuccessIsProvidersAnswer, StoredResponse, IsAnswer, Holding,
        Stored, ReconcilerMoves, ExecutionMoves, Attested
  <2> QED BY <2>2, <2>3, <2>4 DEF Safety
<1>8. CASE SettleCall(r, c)
  <2> DEFINE got == reconciler[r].got
  <2>a. IsAnswer(c, got) /\ execution[c].response = got
    BY <1>8 DEF SettleCall, Safety, OneAnswer, ReconcilerHoldsAnswer
  <2>b. \/ UNCHANGED journal
        \/ JournalMoves(c, "failed")
        \/ /\ JournalMoves(c, "succeeded")
           /\ journal'[c].response = got /\ journal'[c].usage = "reported"
    <3>1. CASE journal[c].state # "started"
      BY <1>8, <3>1 DEF SettleCall
    <3>2. CASE journal[c].state = "started" /\ got = "over"
      <4>1. journal' = [journal EXCEPT ![c].state = "failed", ![c].usage = "reported"]
        BY <1>8, <3>2 DEF SettleCall
      <4> QED BY <4>1, UnsuccessfulRow DEF Safety
    <3>3. CASE journal[c].state = "started" /\ got # "over"
      <4>1. journal' = [journal EXCEPT ![c] =
                          [state |-> "succeeded", response |-> got, usage |-> "reported"]]
        BY <1>8, <3>3 DEF SettleCall
      <4> QED BY <4>1, <2>a, SucceededRow DEF Safety, IsAnswer
    <3> QED BY <3>1, <3>2, <3>3
  <2>1. /\ ReconcilerMoves(r, "idle", "none", "none")
        /\ IsAnswer(c, got) /\ execution[c].response = got
        /\ \/ UNCHANGED journal
           \/ JournalMoves(c, "failed")
           \/ /\ JournalMoves(c, "succeeded")
              /\ journal'[c].response = got /\ journal'[c].usage = "reported"
    BY <1>8, <2>a, <2>b, ReconcilerRow DEF SettleCall, Safety
  <2>2. ModelTypeOK'
    BY <1>8, <2>1
    DEF Safety, SettleCall, host, bound, ModelTypeOK, Senders, Executions, BrokerCalls,
        Providers, Reconcilers, ReconcilerMoves, JournalMoves
  <2>3. Certainty'
    BY <1>8, <2>1
    DEF Safety, SettleCall, host, bound, Certainty, SenderUnsent, CertainIsLeaving,
        CertainIsCertain, SenderIsRouted, NothingToLose, ReconcilerHoldsReason, BeforeSend, ReconcilerMoves,
        JournalMoves
  <2>4. OneAnswer'
    <3>1. SenderHoldsAnswer'
      BY <1>8, <2>1
      DEF Safety, SettleCall, host, bound, OneAnswer, SenderHoldsAnswer, ReconcilerMoves,
          JournalMoves, Holding, Stored, IsAnswer
    <3>2. RowHoldsAnswer'
      BY <1>8, <2>1
      DEF Safety, SettleCall, host, bound, OneAnswer, RowHoldsAnswer, ReconcilerMoves,
          JournalMoves
    <3>3. ReconcilerHoldsAnswer'
      BY <1>8, <2>1
      DEF Safety, SettleCall, host, bound, OneAnswer, ReconcilerHoldsAnswer, ReconcilerMoves,
          JournalMoves, RowHoldsAnswer, IsAnswer
    <3>4. SuccessIsProvidersAnswer'
      <4>1. UNCHANGED <<execution, provider>>
        BY <1>8 DEF SettleCall
      <4>2. SuccessIsProvidersAnswer
        BY DEF Safety, OneAnswer
      <4> QED BY <4>1, <4>2, <2>1
      DEF SuccessIsProvidersAnswer, StoredResponse, IsAnswer, JournalMoves
    <3> QED BY <3>1, <3>2, <3>3, <3>4 DEF OneAnswer
  <2> QED BY <2>2, <2>3, <2>4 DEF Safety
<1>9. CASE QuarantineCall(r, c)
  <2>1. /\ ReconcilerMoves(r, "idle", "none", "none")
        /\ UNCHANGED journal \/ JournalMoves(c, "failed")
    BY <1>9, ReconcilerRow, UnsuccessfulRow DEF QuarantineCall, Safety
  <2>2. ModelTypeOK'
    BY <1>9, <2>1
    DEF Safety, QuarantineCall, host, bound, ModelTypeOK, Senders, Executions, BrokerCalls,
        Providers, Reconcilers, ReconcilerMoves, JournalMoves
  <2>3. Certainty'
    BY <1>9, <2>1
    DEF Safety, QuarantineCall, host, bound, Certainty, SenderUnsent, CertainIsLeaving,
        CertainIsCertain, SenderIsRouted, NothingToLose, ReconcilerHoldsReason, BeforeSend, ReconcilerMoves,
        JournalMoves
  <2>4. OneAnswer'
    <3>1. SenderHoldsAnswer'
      BY <1>9, <2>1
      DEF Safety, QuarantineCall, host, bound, OneAnswer, SenderHoldsAnswer, ReconcilerMoves,
          JournalMoves, Holding, Stored, IsAnswer
    <3>2. RowHoldsAnswer'
      BY <1>9, <2>1
      DEF Safety, QuarantineCall, host, bound, OneAnswer, RowHoldsAnswer, ReconcilerMoves,
          JournalMoves
    <3>3. ReconcilerHoldsAnswer'
      BY <1>9, <2>1
      DEF Safety, QuarantineCall, host, bound, OneAnswer, ReconcilerHoldsAnswer, ReconcilerMoves,
          JournalMoves, RowHoldsAnswer, IsAnswer
    <3>4. SuccessIsProvidersAnswer'
      BY <1>9, <2>1
      DEF Safety, QuarantineCall, host, bound, OneAnswer, SuccessIsProvidersAnswer,
          ReconcilerMoves, JournalMoves, StoredResponse, ReconcilerHoldsAnswer, IsAnswer
    <3> QED BY <3>1, <3>2, <3>3, <3>4 DEF OneAnswer
  <2> QED BY <2>2, <2>3, <2>4 DEF Safety
<1> QED BY <1>1, <1>2, <1>3, <1>4, <1>5, <1>6, <1>7, <1>8, <1>9 DEF Reconcile

\* The shutdown, and a crash that leaves the tables and forgets the threads.
LEMMA HostSafe ==
  ASSUME Safety, CloseRegistry \/ CloseBrokers \/ \E next \in Catalog : Crash(next)
  PROVE  Safety'
<1>1. CASE CloseRegistry \/ CloseBrokers
  <2>1. ModelTypeOK'
    BY <1>1 DEF Safety, CloseRegistry, CloseBrokers, bound, ModelTypeOK
  <2>2. Certainty'
    BY <1>1
    DEF Safety, CloseRegistry, CloseBrokers, bound, Certainty, SenderUnsent, CertainIsLeaving,
                CertainIsCertain, SenderIsRouted, NothingToLose, ReconcilerHoldsReason
  <2>3. OneAnswer'
    BY <1>1
    DEF Safety, CloseRegistry, CloseBrokers, bound, OneAnswer, SenderHoldsAnswer, RowHoldsAnswer,
                ReconcilerHoldsAnswer, SuccessIsProvidersAnswer, StoredResponse, IsAnswer
  <2> QED BY <2>1, <2>2, <2>3 DEF Safety
<1>2. CASE \E next \in Catalog : Crash(next)
  <2>1. \A c \in Call : /\ sender'[c] \in Senders
                        /\ sender'[c] = sender[c] \/ sender'[c].pc = "done"
                        /\ sender[c].pc = "new" => sender'[c] = sender[c]
    BY <1>2, Rows DEF Crash, Safety, Senders, SenderPoints
  <2>2. \A c \in Call : /\ provider'[c] \in Providers
                        /\ provider'[c].answer = provider[c].answer
                        /\ provider'[c].asked = provider[c].asked \/ provider'[c].asked = "no"
    BY <1>2, Rows DEF Crash, Safety, Providers
  <2>3. \A r \in Reconciler : reconciler'[r] \in Reconcilers /\ reconciler'[r].pc = "idle"
    BY <1>2 DEF Crash, Idle, Reconcilers, ReconcilerPoints
  <2>4. ModelTypeOK'
    <3>1. /\ sender' \in [Call -> Senders]
          /\ provider' \in [Call -> Providers]
          /\ reconciler' \in [Reconciler -> Reconcilers]
      BY <1>2, <2>1, <2>2, <2>3 DEF Crash
    <3>2. crashes' \in 0..MaxCrashes
      BY <1>2, ModelExecutionAssumption DEF Crash, Safety, ModelTypeOK
    <3> QED BY <1>2, <3>1, <3>2 DEF Crash, Safety, ModelTypeOK, Senders, Providers, Reconcilers
  <2>5. Certainty'
    BY <1>2, <2>1, <2>2, <2>3
    DEF Crash, Safety, Certainty, SenderUnsent, CertainIsLeaving, CertainIsCertain, SenderIsRouted, NothingToLose,
        ReconcilerHoldsReason, BeforeSend
  <2>6. OneAnswer'
    BY <1>2, <2>1, <2>2, <2>3
    DEF Crash, Safety, OneAnswer, SenderHoldsAnswer, RowHoldsAnswer, ReconcilerHoldsAnswer,
        SuccessIsProvidersAnswer, StoredResponse, IsAnswer, Holding, Stored
  <2> QED BY <2>4, <2>5, <2>6 DEF Safety
<1> QED BY <1>1, <1>2

LEMMA SafetyInit == Init => Safety
<1> SUFFICES ASSUME Init PROVE Safety
  OBVIOUS
<1>1. ModelTypeOK
  BY ModelExecutionAssumption
  DEF Init, ModelTypeOK, ExecutionStates, SenderPoints, ReconcilerPoints, Idle
<1>2. Certainty
  BY
  DEF Init, Certainty, SenderUnsent, CertainIsLeaving, CertainIsCertain, SenderIsRouted, ReconcilerHoldsReason,
      Idle
<1>3. OneAnswer
  BY DEF Init, OneAnswer, SenderHoldsAnswer, RowHoldsAnswer, ReconcilerHoldsAnswer,
         SuccessIsProvidersAnswer, Holding, Stored, Idle
<1> QED BY <1>1, <1>2, <1>3 DEF Safety

LEMMA SafetyStep == Safety /\ [Next]_vars => Safety'
<1> SUFFICES ASSUME Safety, [Next]_vars PROVE Safety'
  OBVIOUS
<1>1. CASE Next
  BY <1>1, EnvironmentSafe, SendSafe, ReconcileSafe, HostSafe DEF Next
<1>2. CASE UNCHANGED vars
  <2>1. ModelTypeOK'
    BY <1>2 DEF Safety, vars, host, bound, ModelTypeOK
  <2>2. Certainty'
    BY <1>2 DEF Safety, vars, host, bound, Certainty, SenderUnsent, CertainIsLeaving,
                CertainIsCertain, SenderIsRouted, NothingToLose, ReconcilerHoldsReason
  <2>3. OneAnswer'
    BY <1>2 DEF Safety, vars, host, bound, OneAnswer, SenderHoldsAnswer, RowHoldsAnswer,
                ReconcilerHoldsAnswer, SuccessIsProvidersAnswer, StoredResponse, IsAnswer
  <2> QED BY <2>1, <2>2, <2>3 DEF Safety
<1> QED BY <1>1, <1>2

-----------------------------------------------------------------------------
\* The inductive invariant: types, where a request may be, and whose answer every copy is.
THEOREM SafetyInvariant == Spec => []Safety
<1> QED BY SafetyInit, SafetyStep, PTL DEF Spec

\* A succeeded broker call carries the provider's own answer, in both
\* journals, whichever of the sender and the reconcilers wrote it.
THEOREM SuccessIsAnswered == Spec => []SuccessIsProvidersAnswer
<1>1. Safety => SuccessIsProvidersAnswer
  BY DEF Safety, OneAnswer
<1> QED BY <1>1, SafetyInvariant, PTL

\* A sampling failure recorded as certain discards no usable answer.
THEOREM SamplingFailureIsSafe == Spec => []SamplingFailureLosesNothing
<1>1. Safety => SamplingFailureLosesNothing
  BY DEF Safety, Certainty, CertainIsCertain, NothingToLose, SamplingFailureLosesNothing
<1> QED BY <1>1, SafetyInvariant, PTL
=============================================================================
