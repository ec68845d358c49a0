--------------------------- MODULE ModelExecution ---------------------------
(***************************************************************************)
(* A routed model call: BoundBrokerFacade.model_request through the broker *)
(* journal (runtime/brokers.py), the model execution journal and the route *)
(* registry (runtime/model_broker.py), the owner gateway broker            *)
(* (providers/gateway.py) and the MCP sampling transport                   *)
(* (providers/mcp_sampling.py), against reconciliations of the same call.  *)
(*                                                                         *)
(* The two journals are two tables written in separate transactions: the   *)
(* intent goes down through both, the outcome comes up through both, and   *)
(* between any two writes a recovery pass of another thread, the session,  *)
(* the shutdown or a crash may step in.  broker_calls admits one thread    *)
(* per idempotency key, so a call has one sender, but any number of        *)
(* reconcilers work on it while that sender still waits for its provider.  *)
(***************************************************************************)
EXTENDS Naturals

CONSTANTS
  Call,         \* model.request calls: an operation and an idempotency key
  Reconciler,   \* threads reconciling unresolved broker calls
  Catalog,      \* the route catalogs a host may be started with
  MaxCrashes    \* bound: host processes lost

ASSUME ModelExecutionAssumption == MaxCrashes \in Nat

VARIABLES
  catalog,      \* the catalog of the running process's StaticModelBrokerRegistry
  service,      \* whether that registry and its brokers are open
  route,        \* model_route_bindings
  execution,    \* model_executions: state and response
  journal,      \* broker_calls: state, response and usage
  session,      \* McpSamplingGatewayTransport._bindings and _retired_operations
  withdrawn,    \* deadline or cancellation of each call's operation
  sender,       \* the thread that owns the call, and what the provider gave it
  reconciler,   \* where each reconciler is, and its local variables
  provider,     \* external: the request the provider got and the answer it made
  crashes

host == <<catalog, service, crashes>>
bound == <<route, session, withdrawn>>
vars == <<host, bound, execution, journal, sender, reconciler, provider>>

Profiles == {"sampling", "gateway"}
NoRoute == [catalog |-> "none", profile |-> "none"]
Routes == [catalog : Catalog, profile : Profiles]

\* What a provider may answer: an attested result, one that reports more
\* output than the route allows, one from another route, one for another
\* request, and one the result schema refuses.
Answers == {"good", "over", "drifted", "foreign", "oversized"}
Attested == {"good", "over"}

Quarantined ==
  {"route_drift_quarantined", "receipt_lookup_unavailable_quarantined",
   "receipt_lookup_failed_quarantined", "receipt_invalid_quarantined"}
Uncertain == {"provider_send_started", "provider_call_indeterminate"}
ExecutionStates ==
  Uncertain \cup Quarantined \cup
  {"none", "provider_terminal_receipt", "result_committed", "provider_failed_certain"}

SenderPoints ==
  {"new", "intent", "resolve", "send", "scheduled", "waiting", "drift", "unknown", "certain",
   "receipt", "commit", "success", "check", "failed", "done"}
ReconcilerPoints ==
  {"idle", "read", "promote", "lookup", "store", "settle", "set_aside", "quarantine"}
Idle == [pc |-> "idle", call |-> "none", got |-> "none"]

ModelTypeOK ==
  /\ catalog \in Catalog
  /\ service \in {"open", "closing", "closed"}
  /\ route \in [Call -> Routes \cup {NoRoute}]
  /\ execution \in [Call -> [state : ExecutionStates, response : Attested \cup {"none"}]]
  /\ journal \in [Call -> [state : {"none", "started", "succeeded", "failed"},
                           response : Attested \cup {"none"},
                           usage : {"zero", "reserved", "reported"}]]
  /\ session \in [Call -> {"unbound", "bound", "retired"}]
  /\ withdrawn \in [Call -> {"no", "expired", "cancelled"}]
  /\ sender \in [Call -> [pc : SenderPoints, got : Attested \cup {"none"}]]
  /\ reconciler \in [Reconciler -> [pc : ReconcilerPoints, call : Call \cup {"none"},
                                    got : Attested \cup Quarantined \cup {"none"}]]
  /\ provider \in [Call -> [asked : {"no", "scheduled", "yes"}, answer : Answers \cup {"none", "refused"}]]
  /\ crashes \in 0..MaxCrashes

Init ==
  /\ catalog \in Catalog
  /\ service = "open"
  /\ route = [c \in Call |-> NoRoute]
  /\ execution = [c \in Call |-> [state |-> "none", response |-> "none"]]
  /\ journal = [c \in Call |-> [state |-> "none", response |-> "none", usage |-> "zero"]]
  /\ session = [c \in Call |-> "unbound"]
  /\ withdrawn = [c \in Call |-> "no"]
  /\ sender = [c \in Call |-> [pc |-> "new", got |-> "none"]]
  /\ reconciler = [r \in Reconciler |-> Idle]
  /\ provider = [c \in Call |-> [asked |-> "no", answer |-> "none"]]
  /\ crashes = 0

-----------------------------------------------------------------------------
(* Submission binds the route with the operation; the MCP tool call then   *)
(* lends its session to the operation until it returns.                    *)

\* StaticModelBrokerRegistry.bind and bind_operation_in_transaction.
BindRoute(c, profile) ==
  /\ service = "open"
  /\ route[c] = NoRoute
  /\ route' = [route EXCEPT ![c] = [catalog |-> catalog, profile |-> profile]]
  /\ UNCHANGED <<host, execution, journal, session, withdrawn, sender, reconciler, provider>>

BindSession(c) ==
  /\ service # "closed"
  /\ route[c].profile = "sampling"
  /\ session[c] = "unbound"
  /\ session' = [session EXCEPT ![c] = "bound"]
  /\ UNCHANGED <<host, route, execution, journal, withdrawn, sender, reconciler, provider>>

\* The tool call returned, timed out or was abandoned by its client.
UnbindSession(c) ==
  /\ session[c] = "bound"
  /\ session' = [session EXCEPT ![c] = "retired"]
  /\ UNCHANGED <<host, route, execution, journal, withdrawn, sender, reconciler, provider>>

Withdraw(c, why) ==
  /\ withdrawn[c] = "no"
  /\ withdrawn' = [withdrawn EXCEPT ![c] = why]
  /\ UNCHANGED <<host, route, execution, journal, session, sender, reconciler, provider>>

\* StaticModelBrokerRegistry.close refuses new routes before it closes the
\* brokers; closing the transport forgets every session.
CloseRegistry ==
  /\ service = "open"
  /\ service' = "closing"
  /\ UNCHANGED <<bound, catalog, execution, journal, sender, reconciler, provider, crashes>>

CloseBrokers ==
  /\ service = "closing"
  /\ service' = "closed"
  /\ session' = [c \in Call |-> IF session[c] = "bound" THEN "unbound" ELSE session[c]]
  /\ UNCHANGED <<catalog, crashes, route, withdrawn, execution, journal, sender, reconciler,
                 provider>>

-----------------------------------------------------------------------------
(* The sender, on the way down.                                            *)

Continue(c, pc) == sender' = [sender EXCEPT ![c].pc = pc]

\* BoundBrokerFacade._prepare and the admission of BrokerJournal.invoke: a key
\* that has a row is answered from it, or refused.
AdmitCall(c) ==
  /\ sender[c].pc = "new"
  /\ route[c] # NoRoute
  /\ withdrawn[c] # "expired"
  /\ journal[c].state = "none"
  /\ journal' = [journal EXCEPT ![c] = [@ EXCEPT !.state = "started", !.usage = "reserved"]]
  /\ Continue(c, "intent")
  /\ UNCHANGED <<host, bound, execution, reconciler, provider>>

\* ModelExecutionJournal.invoke writes its intent before anything is sent.
WriteIntent(c) ==
  /\ sender[c].pc = "intent"
  /\ execution[c].state = "none"
  /\ execution' = [execution EXCEPT ![c].state = "provider_send_started"]
  /\ Continue(c, "resolve")
  /\ UNCHANGED <<host, bound, journal, reconciler, provider>>

\* StaticModelBrokerRegistry.resolve: the registry is open, and the bound route
\* is the one its catalog would bind today.
Resolves(c) == service = "open" /\ route[c].catalog = catalog

ResolveRoute(c) ==
  /\ sender[c].pc = "resolve"
  /\ Continue(c, IF Resolves(c) THEN "send" ELSE "certain")
  /\ UNCHANGED <<host, bound, execution, journal, reconciler, provider>>

\* OwnerGatewayModelBroker.request refuses once closed; the owner's resolver may
\* have no credential: nothing is sent.
RefuseUnsent(c) ==
  /\ sender[c].pc = "send"
  /\ service = "closed" \/ route[c].profile = "gateway"
  /\ Continue(c, "certain")
  /\ UNCHANGED <<host, bound, execution, journal, reconciler, provider>>

\* An owner's transport hands the request to its provider.
GatewaySend(c) ==
  /\ sender[c].pc = "send"
  /\ service # "closed"
  /\ route[c].profile = "gateway"
  /\ provider' = [provider EXCEPT ![c].asked = "yes"]
  /\ Continue(c, "waiting")
  /\ UNCHANGED <<host, bound, execution, journal, reconciler>>

\* McpSamplingGatewayTransport.send: without a session, or too late to leave
\* room for a cancellation, nothing is scheduled; scheduling the coroutine on
\* the session's loop is the last step the transport controls.
ScheduleSampling(c) ==
  /\ sender[c].pc = "send"
  /\ service # "closed"
  /\ route[c].profile = "sampling"
  /\ IF session[c] = "bound" /\ withdrawn[c] # "expired"
     THEN Continue(c, "scheduled") /\ provider' = [provider EXCEPT ![c].asked = "scheduled"]
     ELSE Continue(c, "certain") /\ UNCHANGED provider
  /\ UNCHANGED <<host, bound, execution, journal, reconciler>>

\* Bug: losing the session before the future is registered counts as unsent.
OwnFutureOrFail(c) ==
  /\ sender[c].pc = "scheduled"
  /\ Continue(c, IF service # "closed" /\ session[c] = "bound" THEN "waiting" ELSE "certain")
  /\ UNCHANGED <<host, bound, execution, journal, reconciler, provider>>

\* The future is registered if the session is still this operation's; if not it
\* is cancelled, and the request may have gone out.
OwnFuture(c) ==
  /\ sender[c].pc = "scheduled"
  /\ Continue(c, IF service # "closed" /\ session[c] = "bound" THEN "waiting" ELSE "unknown")
  /\ UNCHANGED <<host, bound, execution, journal, reconciler, provider>>

-----------------------------------------------------------------------------
(* The provider, external.  A scheduled coroutine writes its request when  *)
(* the loop gets to it; cancelling it afterwards recalls nothing.          *)

SamplingReaches(c) ==
  /\ provider[c].asked = "scheduled"
  /\ provider' = [provider EXCEPT ![c].asked = "yes"]
  /\ UNCHANGED <<host, bound, execution, journal, sender, reconciler>>

ProviderAnswers(c, answer) ==
  /\ provider[c].asked = "yes"
  /\ provider[c].answer = "none"
  /\ provider' = [provider EXCEPT ![c].answer = answer]
  /\ UNCHANGED <<host, bound, execution, journal, sender, reconciler>>

-----------------------------------------------------------------------------
(* The sender, on the way up.                                              *)

\* parse_sampling_gateway_result, OwnerGatewayModelBroker._response and the
\* registry's own check of the receipt: what an answer is taken for.
Verdict(c, answer) ==
  CASE answer \in Attested -> "receipt"
    [] answer = "drifted" -> "drift"
    [] answer = "foreign" -> IF route[c].profile = "sampling" THEN "drift" ELSE "certain"
    [] answer \in {"oversized", "refused"} -> "certain"

ReceiveAnswer(c) ==
  /\ sender[c].pc = "waiting"
  /\ provider[c].answer # "none"
  /\ route[c].profile = "gateway" \/ provider[c].answer # "refused"
  /\ sender' = [sender EXCEPT ![c] =
       [pc |-> Verdict(c, provider[c].answer),
        got |-> IF provider[c].answer \in Attested THEN provider[c].answer ELSE "none"]]
  /\ UNCHANGED <<host, bound, execution, journal, reconciler, provider>>

\* GatewayCallOutcomeUnknown: whether the request was answered is not known.  The
\* sampling transport raises it for a timeout, a cancelled future, a lost connection
\* and any other error once the coroutine is scheduled; an owner's transport may.
LoseAnswer(c) ==
  /\ sender[c].pc = "waiting"
  /\ Continue(c, "unknown")
  /\ UNCHANGED <<host, bound, execution, journal, reconciler, provider>>

\* Whatever else an owner's transport raises, a timeout or a lost connection too, is
\* GatewayProviderFailure, a certain failure, unless the transport reports a drift.
TransportRaises(c) ==
  /\ sender[c].pc = "waiting"
  /\ route[c].profile = "gateway"
  /\ \E outcome \in {"certain", "drift"} : Continue(c, outcome)
  /\ UNCHANGED <<host, bound, execution, journal, reconciler, provider>>

FailureState ==
  [drift |-> "route_drift_quarantined", unknown |-> "provider_call_indeterminate",
   certain |-> "provider_failed_certain"]

\* The except branches of ModelExecutionJournal.invoke: whatever state the row is
\* in.  An unknown outcome leaves the broker call started.
RecordFailure(c) ==
  /\ sender[c].pc \in DOMAIN FailureState
  /\ execution' = [execution EXCEPT ![c].state = FailureState[sender[c].pc]]
  /\ Continue(c, IF sender[c].pc = "unknown" THEN "done" ELSE "failed")
  /\ UNCHANGED <<host, bound, journal, reconciler, provider>>

\* Bug: how many rows the receipt was written to is not looked at.
StoreReceiptUnchecked(c) ==
  /\ sender[c].pc = "receipt"
  /\ execution' = IF execution[c].state = "provider_send_started"
                  THEN [execution EXCEPT ![c] = [state |-> "provider_terminal_receipt",
                                                 response |-> sender[c].got]]
                  ELSE execution
  /\ Continue(c, "success")
  /\ UNCHANGED <<host, bound, journal, reconciler, provider>>

\* The receipt goes into the row only while nobody else has decided it.
StoreReceipt(c) ==
  /\ sender[c].pc = "receipt"
  /\ IF execution[c].state = "provider_send_started"
     THEN /\ execution' = [execution EXCEPT ![c] = [state |-> "provider_terminal_receipt",
                                                    response |-> sender[c].got]]
          /\ Continue(c, "commit")
     ELSE UNCHANGED execution /\ Continue(c, "done")
  /\ UNCHANGED <<host, bound, journal, reconciler, provider>>

CommitResult(c) ==
  /\ sender[c].pc = "commit"
  /\ IF execution[c].state = "provider_terminal_receipt"
     THEN /\ execution' = [execution EXCEPT ![c].state = "result_committed"]
          /\ Continue(c, "success")
     ELSE UNCHANGED execution /\ Continue(c, "done")
  /\ UNCHANGED <<host, bound, journal, reconciler, provider>>

\* BrokerJournal.invoke writes the outcome over whatever the row holds.
RecordSuccess(c) ==
  /\ sender[c].pc = "success"
  /\ journal' = [journal EXCEPT ![c] = [state |-> "succeeded", response |-> sender[c].got,
                                        usage |-> "reported"]]
  /\ Continue(c, "check")
  /\ UNCHANGED <<host, bound, execution, reconciler, provider>>

RecordFailedCall(c) ==
  /\ sender[c].pc = "failed"
  /\ journal' = [journal EXCEPT ![c].state = "failed", ![c].usage = "zero"]
  /\ Continue(c, "done")
  /\ UNCHANGED <<host, bound, execution, reconciler, provider>>

\* The budget and the route's maximum are checked once the usage is written.
CheckUsage(c) ==
  /\ sender[c].pc = "check"
  /\ journal' = IF sender[c].got = "over" /\ journal[c].state = "succeeded"
                THEN [journal EXCEPT ![c].state = "failed"] ELSE journal
  /\ Continue(c, "done")
  /\ UNCHANGED <<host, bound, execution, reconciler, provider>>

-----------------------------------------------------------------------------
(* Reconciliation of a started call, by a recovery pass or on request.     *)

Go(r, pc) == reconciler' = [reconciler EXCEPT ![r].pc = pc]
GoWith(r, pc, got) == reconciler' = [reconciler EXCEPT ![r].pc = pc, ![r].got = got]
Stop(r) == reconciler' = [reconciler EXCEPT ![r] = Idle]

\* A cancelled or expired operation is not looked up, only set aside.
BeginReconcile(r, c) ==
  /\ reconciler[r] = Idle
  /\ journal[c].state = "started"
  /\ reconciler' = [reconciler EXCEPT ![r] =
       [pc |-> IF withdrawn[c] = "no" THEN "read" ELSE "quarantine", call |-> c,
        got |-> "none"]]
  /\ UNCHANGED <<host, bound, execution, journal, sender, provider>>

\* _validated_response_row: a stored response whose digest, route and usage agree
\* with its row, as every response written here does.
StoredResponse(c) == execution[c].response

\* ModelExecutionJournal.reconcile: a row in no state it can act on leaves the
\* call pending.
ReadExecution(r, c) ==
  /\ reconciler[r].pc = "read" /\ reconciler[r].call = c
  /\ CASE execution[c].state = "result_committed" -> GoWith(r, "settle", StoredResponse(c))
       [] execution[c].state = "provider_terminal_receipt" -> Go(r, "promote")
       [] execution[c].state \in Uncertain -> Go(r, "lookup")
       [] OTHER -> Stop(r)
  /\ UNCHANGED <<host, bound, execution, journal, sender, provider>>

\* Commit a receipt its sender stored, or take what the sender has committed.
PromoteReceipt(r, c) ==
  /\ reconciler[r].pc = "promote" /\ reconciler[r].call = c
  /\ IF execution[c].state \in {"provider_terminal_receipt", "result_committed"}
     THEN /\ execution' = [execution EXCEPT ![c].state = "result_committed"]
          /\ GoWith(r, "settle", StoredResponse(c))
     ELSE UNCHANGED execution /\ Stop(r)
  /\ UNCHANGED <<host, bound, journal, sender, provider>>

\* The registry or its brokers are closed: no answer, and no quarantine of the
\* execution, but the broker call is set aside.
LookupClosed(r, c) ==
  /\ reconciler[r].pc = "lookup" /\ reconciler[r].call = c
  /\ service # "open"
  /\ Go(r, "quarantine")
  /\ UNCHANGED <<host, bound, execution, journal, sender, provider>>

\* What a receipt lookup can end in: the sampling driver has none, the owner's
\* lookup may fail, and a receipt is judged like an answer.
LookupEnds(c) ==
  IF route[c].catalog # catalog THEN {"route_drift_quarantined"}
  ELSE IF route[c].profile = "sampling" THEN {"receipt_lookup_unavailable_quarantined"}
  ELSE {"receipt_lookup_failed_quarantined"} \cup
    CASE provider[c].answer \in Attested -> {provider[c].answer}
      [] provider[c].answer = "drifted" -> {"route_drift_quarantined"}
      [] provider[c].answer = "foreign" -> {"receipt_invalid_quarantined"}
      [] provider[c].answer = "oversized" -> {}
      [] OTHER -> {"none"}

Lookup(r, c) ==
  /\ reconciler[r].pc = "lookup" /\ reconciler[r].call = c
  /\ service = "open"
  /\ \E end \in LookupEnds(c) :
       \/ end = "none" /\ Stop(r)
       \/ end \in Attested /\ GoWith(r, "store", end)
       \/ end \in Quarantined /\ GoWith(r, "set_aside", end)
  /\ UNCHANGED <<host, bound, execution, journal, sender, provider>>

\* ModelExecutionJournal._quarantine: anything but a committed result.
QuarantineExecution(r, c) ==
  /\ reconciler[r].pc = "set_aside" /\ reconciler[r].call = c
  /\ execution' = IF execution[c].state = "result_committed" THEN execution
                  ELSE [execution EXCEPT ![c].state = reconciler[r].got]
  /\ GoWith(r, "quarantine", "none")
  /\ UNCHANGED <<host, bound, journal, sender, provider>>

\* A recovered receipt is committed while the outcome is still open; a result
\* committed meanwhile must be the same.
StoreRecovered(r, c) ==
  /\ reconciler[r].pc = "store" /\ reconciler[r].call = c
  /\ IF execution[c].state \in Uncertain
     THEN /\ execution' = [execution EXCEPT ![c] = [state |-> "result_committed",
                                                    response |-> reconciler[r].got]]
          /\ Go(r, "settle")
     ELSE /\ UNCHANGED execution
          /\ CASE execution[c].state # "result_committed" -> Stop(r)
               [] execution[c] = [state |-> "result_committed",
                                  response |-> reconciler[r].got] -> Go(r, "settle")
               [] OTHER -> GoWith(r, "quarantine", "none")
  /\ UNCHANGED <<host, bound, journal, sender, provider>>

\* BrokerJournal.resolve_started_call, or for usage above what is allowed
\* record_unresolved_reconciliation with the usage: only a call still started.
SettleCall(r, c) ==
  /\ reconciler[r].pc = "settle" /\ reconciler[r].call = c
  /\ journal' =
       IF journal[c].state # "started" THEN journal
       ELSE IF reconciler[r].got = "over"
       THEN [journal EXCEPT ![c].state = "failed", ![c].usage = "reported"]
       ELSE [journal EXCEPT ![c] = [state |-> "succeeded", response |-> reconciler[r].got,
                                    usage |-> "reported"]]
  /\ Stop(r)
  /\ UNCHANGED <<host, bound, execution, sender, provider>>

QuarantineCall(r, c) ==
  /\ reconciler[r].pc = "quarantine" /\ reconciler[r].call = c
  /\ journal' = IF journal[c].state # "started" THEN journal
                ELSE [journal EXCEPT ![c].state = "failed", ![c].usage = "zero"]
  /\ Stop(r)
  /\ UNCHANGED <<host, bound, execution, sender, provider>>

-----------------------------------------------------------------------------
\* The process dies and a host starts again, perhaps with another catalog.
Crash(next) ==
  /\ crashes < MaxCrashes
  /\ crashes' = crashes + 1
  /\ catalog' = next
  /\ service' = "open"
  /\ session' = [c \in Call |-> "unbound"]
  /\ sender' = [c \in Call |-> IF sender[c].pc = "new" THEN sender[c]
                               ELSE [pc |-> "done", got |-> "none"]]
  /\ reconciler' = [r \in Reconciler |-> Idle]
  /\ provider' = [c \in Call |-> IF provider[c].asked = "scheduled"
                                 THEN [provider[c] EXCEPT !.asked = "no"] ELSE provider[c]]
  /\ UNCHANGED <<route, execution, journal, withdrawn>>

Environment(c) ==
  \/ \E profile \in Profiles : BindRoute(c, profile)
  \/ BindSession(c)
  \/ UnbindSession(c)
  \/ \E why \in {"expired", "cancelled"} : Withdraw(c, why)
  \/ SamplingReaches(c)
  \/ \E answer \in Answers \cup {"refused"} : ProviderAnswers(c, answer)

Send(c) ==
  \/ AdmitCall(c)
  \/ WriteIntent(c)
  \/ ResolveRoute(c)
  \/ RefuseUnsent(c)
  \/ GatewaySend(c)
  \/ ScheduleSampling(c)
  \/ OwnFuture(c)
  \/ ReceiveAnswer(c)
  \/ LoseAnswer(c)
  \/ TransportRaises(c)
  \/ RecordFailure(c)
  \/ StoreReceipt(c)
  \/ CommitResult(c)
  \/ RecordSuccess(c)
  \/ RecordFailedCall(c)
  \/ CheckUsage(c)

Reconcile(r, c) ==
  \/ BeginReconcile(r, c)
  \/ ReadExecution(r, c)
  \/ PromoteReceipt(r, c)
  \/ LookupClosed(r, c)
  \/ Lookup(r, c)
  \/ QuarantineExecution(r, c)
  \/ StoreRecovered(r, c)
  \/ SettleCall(r, c)
  \/ QuarantineCall(r, c)

Next ==
  \/ \E c \in Call : Environment(c) \/ Send(c)
  \/ \E r \in Reconciler, c \in Call : Reconcile(r, c)
  \/ CloseRegistry
  \/ CloseBrokers
  \/ \E next \in Catalog : Crash(next)

Spec == Init /\ [][Next]_vars

-----------------------------------------------------------------------------
(* Properties.                                                             *)

\* A broker call that counts as succeeded carries the answer the provider made
\* to that very request over the bound route, with the usage it reported, and
\* the model journal holds the same answer: whichever of the sender and the
\* reconcilers of the call came first, and whatever a late one wrote after.
SuccessIsProvidersAnswer ==
  \A c \in Call : journal[c].state = "succeeded" =>
    /\ journal[c].response \in Attested
    /\ journal[c].response = provider[c].answer
    /\ journal[c].response = StoredResponse(c)
    /\ journal[c].usage = "reported"

\* A sampling call recorded as failed for certain loses no work: the client was never
\* asked, or what it answered could not be used.  Only an outcome the transport can still
\* prove is called certain; a session lost between scheduling the request and waiting for
\* it, a timeout or a shutdown once the request may be out is not.  An owner's gateway
\* transport gives no such guarantee (TransportRaises).
SamplingFailureLosesNothing ==
  \A c \in Call :
    /\ route[c].profile = "sampling"
    /\ execution[c].state = "provider_failed_certain"
    /\ provider[c].asked = "yes"
    => provider[c].answer \notin Attested \cup {"none"}

=============================================================================
