----------------------------- MODULE Activation -----------------------------
(***************************************************************************)
(* What happens at an installed runtime home: hosts start on it, each      *)
(* publishes the grant set of its generation (_activation_store.py), keeps *)
(* session grants in memory (_session_grants.py), and issues and revokes   *)
(* them for clients over the supervisor's private socket (supervisor.py,   *)
(* supervisor_client.py).  Installation goes on beside it.                 *)
(*                                                                         *)
(* Neither ReferenceHost nor the store takes a lock: the ownership lock is *)
(* the supervisor's (module Supervision), and the store has to fence two   *)
(* hosts without it.  A generation directory holds a temporary file, the   *)
(* grant-set file, both or neither; the set itself is a function of the    *)
(* generation and the installation.  Principals, sessions, capabilities    *)
(* and budgets of a grant are not told apart; that a grant has expired is. *)
(***************************************************************************)
EXTENDS Installation, FiniteSetsExt

CONSTANTS Host,             \* processes that start a host on the home
          Client,           \* grant-control requests
          Grant,            \* grant identifiers
          MaxGenerations    \* runtime generations

ASSUME ActivationAssumption == MaxGenerations \in Nat

Generation == 1..MaxGenerations

VARIABLES generation,   \* the registry's generation counter
          gens,         \* gens[g]: the directory of generation g
          host,         \* host[h]: a host process and its memory
          client,       \* client[c]: one grant-control request
          admissions    \* history: what was true when a grant was accepted
activeVars == <<generation, gens, host, client, admissions>>
vars == <<installVars, activeVars>>

NoGrants == [x \in Grant |-> [status |-> "none", gen |-> 0]]
NoHost == [pc |-> "off", gen |-> 0, current |-> 0, observed |-> 0, grants |-> NoGrants]
NoClient == [pc |-> "idle", kind |-> "none", grant |-> "none", host |-> "none", gen |-> 0,
             reply |-> "none", applied |-> FALSE]

Init ==
  /\ InstallInit
  /\ generation = 0
  /\ gens = [g \in Generation |-> Absent]
  /\ host = [h \in Host |-> NoHost]
  /\ client = [c \in Client |-> NoClient]
  /\ admissions = {}

(***************************************************************************)
(* A bound: hosts start while no other installer has a stage open (its     *)
(* steps touch nothing but the stage), and grants are controlled at homes  *)
(* whose one installer is done, with no intrusion and no power loss yet.   *)
(***************************************************************************)
AtRest == \A i \in Installer : work[i].pc \notin Staging \union {"checked", "bound"}
Undisturbed ==
  /\ intrusions = 0
  /\ losses = 0
  /\ \A i \in Installer : work[i].pc \in {"refused", "installed"}
  /\ \A e \in Epoch : ~stages[e].exists

(***************************************************************************)
(* ProviderReadyStartup.preflight: the installation is read back whole     *)
(* before anything is written; a runtime's own files are allowed.          *)
(***************************************************************************)
Preflight(h) ==
  /\ host[h].pc = "off"
  /\ AtRest
  /\ \E i \in Installer : ReadBack(i, {Runtime})
  /\ host' = [host EXCEPT ![h] = [NoHost EXCEPT !.pc = "checked"]]
  /\ UNCHANGED <<installVars, generation, gens, client, admissions>>

\* ReferenceHost: the registry is opened and gives this host its generation.
StartRuntime(h) ==
  /\ host[h].pc = "checked"
  /\ generation < MaxGenerations
  /\ generation' = generation + 1
  /\ target' = [target EXCEPT !.dir.now = @ \union {Runtime}]
  /\ host' = [host EXCEPT ![h].pc = "started", ![h].gen = generation + 1]
  /\ UNCHANGED <<stages, work, intrusions, losses, gens, client, admissions>>

(***************************************************************************)
(* The durable history.  A scan refuses unless every generation directory  *)
(* holds its grant-set file and nothing else; the fence is the highest.    *)
(***************************************************************************)
Present == {g \in Generation : gens[g].exists}
Inspected(g) == gens[g].now = {"file"}
Scannable == \A g \in Present : Inspected(g)
Highest == Max({0} \union Present)
Fence(current) == Max({current, Highest})

(***************************************************************************)
(* ActivationGenerationStore.publish, step by step.                        *)
(***************************************************************************)
ScanGenerations(h) ==
  /\ host[h].pc = "started"
  /\ Scannable
  /\ Fence(host[h].current) <= host[h].gen
  /\ host' = [host EXCEPT ![h].pc = "fenced", ![h].current = Fence(@)]
  /\ UNCHANGED <<installVars, generation, gens, client, admissions>>

Write(h, from, to, content, synced) ==
  /\ host[h].pc = from
  /\ gens' = [gens EXCEPT ![host[h].gen] =
                [exists |-> TRUE, now |-> content, disk |-> IF synced THEN content ELSE @.disk]]
  /\ host' = [host EXCEPT ![h].pc = to]
  /\ UNCHANGED <<installVars, generation, client, admissions>>

\* A directory of this generation that was there already is refused.
MakeGeneration(h) ==
  /\ host[h].pc = "fenced"
  /\ ~gens[host[h].gen].exists
  /\ Write(h, "fenced", "made", {}, FALSE)
WriteTemp(h) == Write(h, "made", "written", {"temp"}, FALSE)
LinkGrantSet(h) == Write(h, "written", "linked", {"temp", "file"}, FALSE)
UnlinkTemp(h) == Write(h, "linked", "unlinked", {"file"}, FALSE)
SyncGeneration(h) == Write(h, "unlinked", "synced", {"file"}, TRUE)

\* The file is read back, and the generation is the store's current one;
\* the session owner starts empty (observe_activation).
SetCurrent(h) ==
  /\ host[h].pc = "synced"
  /\ Inspected(host[h].gen)
  /\ host[h].current <= host[h].gen
  /\ host' = [host EXCEPT ![h] = [@ EXCEPT !.pc = "current", !.current = host[h].gen,
                                           !.observed = host[h].gen, !.grants = NoGrants]]
  /\ UNCHANGED <<installVars, generation, gens, client, admissions>>

\* ProviderReadyStartup.activate reads it once more, scanning the history.
Activate(h) ==
  /\ host[h].pc = "current"
  /\ Scannable
  /\ host' = [host EXCEPT ![h].pc = "active"]
  /\ UNCHANGED <<installVars, generation, gens, client, admissions>>

(***************************************************************************)
(* The activation fails: the temporary name is removed (which may fail     *)
(* silently), and so is the directory it made if that is empty and nothing *)
(* was published; the host is closed.                                      *)
(***************************************************************************)
Undone(h) ==
  CASE host[h].pc \in {"made", "written"} -> {Absent, gens[host[h].gen]}
    [] host[h].pc = "linked" -> {[gens[host[h].gen] EXCEPT !.now = {"file"}], gens[host[h].gen]}
    [] OTHER -> {gens[host[h].gen]}

ActivationFails(h) ==
  /\ host[h].pc \in {"started", "fenced", "made", "written", "linked", "unlinked", "synced", "current"}
  /\ \E dir \in Undone(h) : gens' = [gens EXCEPT ![host[h].gen] = dir]
  /\ host' = [host EXCEPT ![h] = NoHost]
  /\ UNCHANGED <<installVars, generation, client, admissions>>

\* The host closes or dies; its session grants were only in its memory.
HostEnds(h) ==
  /\ host[h].pc # "off"
  /\ host' = [host EXCEPT ![h] = NoHost]
  /\ UNCHANGED <<installVars, generation, gens, client, admissions>>

(***************************************************************************)
(* SessionGrantOwner.  Every use of a grant looks at the fence again: a    *)
(* host that finds a higher generation forgets its grants.                 *)
(***************************************************************************)
Serving(h) == host[h].pc = "active"

Fenced(h) ==
  LET current == IF Scannable THEN Fence(host[h].current) ELSE host[h].current
  IN [host[h] EXCEPT !.current = current, !.observed = current,
                     !.grants = IF host[h].observed = current THEN @ ELSE NoGrants]

\* Bug: the memory alone decides.
VerifiedInMemory(h) == host[h].current \in Generation

\* _verify_current_persisted: the store, read again, still agrees.
Verified(h) ==
  /\ Scannable
  /\ Fence(host[h].current) = host[h].current
  /\ gens[host[h].current].exists

\* issue_session_grant: the identifier is not live in this activation.
Issuable(h, x) == Verified(h) /\ Fenced(h).grants[x].status = "none"

\* revoke_session_grant looks at the memory only.
Revocable(h, x) == host[h].grants[x].status # "none"

\* accept_session_grant, for a request of the host's own generation.
Acceptable(h, x) ==
  /\ host[h].grants[x].status = "live"
  /\ Verified(h)
  /\ host[h].gen = host[h].current
  /\ host[h].grants[x].gen = host[h].gen

\* The host after it has carried out a request.
Stamp(h, x, kind) ==
  IF kind = "issue"
  THEN [Fenced(h) EXCEPT !.grants[x] = [status |-> "live", gen |-> Fenced(h).current]]
  ELSE [host[h] EXCEPT !.grants[x].status = "revoked"]

Expire(h, x) ==
  /\ Serving(h)
  /\ host[h].grants[x].status = "live"
  /\ host' = [host EXCEPT ![h].grants[x].status = "expired"]
  /\ UNCHANGED <<installVars, generation, gens, client, admissions>>

Told(kind, h, x) ==
  \E c \in Client : /\ client[c].pc = "told" /\ client[c].reply = "done"
                    /\ client[c].kind = kind /\ client[c].grant = x
                    /\ client[c].host = h /\ client[c].gen = host[h].gen

\* resolve_session_grants admits a request of a session.
Admit(h, x) ==
  /\ Serving(h)
  /\ Acceptable(h, x)
  /\ host' = [host EXCEPT ![h] = Fenced(h)]
  /\ admissions' = admissions \union
       {[behind |-> Highest # host[h].gen, revoked |-> Told("revoke", h, x),
         foreign |-> Foreign \in target.dir.now]}
  /\ UNCHANGED <<installVars, generation, gens, client>>

\* ... or denies it, having looked at the fence.
Deny(h, x) ==
  /\ Serving(h)
  /\ ~Acceptable(h, x)
  /\ host' = [host EXCEPT ![h] =
                IF host[h].grants[x].status \in {"none", "revoked"} THEN @ ELSE Fenced(h)]
  /\ UNCHANGED <<installVars, generation, gens, client, admissions>>

(***************************************************************************)
(* Grant control.  A client finds a host through its discovery record and  *)
(* reads the host's grant set from the store before it sends.              *)
(***************************************************************************)
CurrentlyPublished(g) == Scannable /\ Highest = g

LoadGrantSet(c) ==
  /\ client[c].pc = "idle"
  /\ Undisturbed
  /\ \E h \in Host, x \in Grant, kind \in {"issue", "revoke"} :
       /\ Serving(h)
       /\ CurrentlyPublished(host[h].gen)
       /\ client' = [client EXCEPT ![c] = [NoClient EXCEPT
                       !.pc = "loaded", !.kind = kind, !.grant = x,
                       !.host = h, !.gen = host[h].gen]]
  /\ UNCHANGED <<installVars, generation, gens, host, admissions>>

Reaches(c) == Serving(client[c].host) /\ host[client[c].host].gen = client[c].gen

\* A connection that cannot be made or authenticated is an error of its own:
\* nothing was sent.
Send(c) ==
  /\ client[c].pc = "loaded"
  /\ client' = [client EXCEPT ![c].pc = IF Reaches(c) THEN "sent" ELSE "unsent"]
  /\ UNCHANGED <<installVars, generation, gens, host, admissions>>

(***************************************************************************)
(* _run_grant_control: the grant is issued or revoked, and the answer sent *)
(* or lost; a request that raises is answered with an error.               *)
(***************************************************************************)
Control(h, c) ==
  LET x == client[c].grant
      done == IF client[c].kind = "issue" THEN Issuable(h, x) ELSE Revocable(h, x)
  IN /\ client[c].pc = "sent"
     /\ client[c].host = h
     /\ Reaches(c)
     /\ host' = [host EXCEPT ![h] = IF done THEN Stamp(h, x, client[c].kind)
                                    ELSE IF client[c].kind = "issue" THEN Fenced(h) ELSE @]
     /\ \E reply \in {IF done THEN "done" ELSE "error", "lost"} :
          client' = [client EXCEPT ![c].pc = "answered", ![c].reply = reply, ![c].applied = done]
     /\ UNCHANGED <<installVars, generation, gens, admissions>>

\* The connection ends without an answer.
Unanswered(c) ==
  /\ client[c].pc = "sent"
  /\ ~Reaches(c)
  /\ client' = [client EXCEPT ![c].pc = "answered", ![c].reply = "lost"]
  /\ UNCHANGED <<installVars, generation, gens, host, admissions>>

(***************************************************************************)
(* What the client is told: a rejection is final; a success only counts if *)
(* the store still has the grant set it was sent under; everything else is *)
(* indeterminate.                                                          *)
(***************************************************************************)
Conclude(c) ==
  /\ client[c].pc = "answered"
  /\ client' = [client EXCEPT ![c].pc = "told", ![c].reply =
       CASE client[c].reply = "error" -> "rejected"
         [] client[c].reply = "done" /\ CurrentlyPublished(client[c].gen) -> "done"
         [] OTHER -> "indeterminate"]
  /\ UNCHANGED <<installVars, generation, gens, host, admissions>>

(***************************************************************************)
(* Power loss: every process is gone.  A home whose rename is undone takes *)
(* its generations along; otherwise each generation directory is there     *)
(* with what was synced and perhaps what was not.                          *)
(***************************************************************************)
LosePower ==
  /\ PowerLoss
  /\ host' = [h \in Host |-> NoHost]
  /\ client' = [c \in Client |-> NoClient]
  /\ IF target'.dir.exists
     THEN /\ UNCHANGED generation
          /\ gens' \in [Generation -> {Absent} \union
                {Rebooted(Absent, now) : now \in SUBSET {"temp", "file"}}]
          /\ \A g \in Generation :
               IF ~gens[g].exists THEN gens'[g] = Absent
               ELSE IF gens[g].disk # {} THEN gens'[g].exists /\ Survives(gens[g], gens'[g].now)
               ELSE gens'[g].now \subseteq gens[g].now
     ELSE /\ generation' = 0
          /\ gens' = [g \in Generation |-> Absent]
  /\ UNCHANGED admissions

Next ==
  \/ InstallNext /\ UNCHANGED activeVars
  \/ \E h \in Host :
       \/ Preflight(h) \/ StartRuntime(h) \/ ScanGenerations(h) \/ MakeGeneration(h)
       \/ WriteTemp(h) \/ LinkGrantSet(h) \/ UnlinkTemp(h) \/ SyncGeneration(h)
       \/ SetCurrent(h) \/ Activate(h) \/ ActivationFails(h) \/ HostEnds(h)
       \/ \E x \in Grant : Expire(h, x) \/ Admit(h, x) \/ Deny(h, x)
       \/ \E c \in Client : Control(h, c)
  \/ \E c \in Client : LoadGrantSet(c) \/ Send(c) \/ Unanswered(c) \/ Conclude(c)
  \/ LosePower

Spec == Init /\ [][Next]_vars

(***************************************************************************)
(* Grants mean what they say.  A session is only admitted by the host of   *)
(* the highest published generation, never on a grant whose revocation a   *)
(* client has been told of, and never at a home an intruder has touched;   *)
(* a client that was told of a rejection changed nothing; and a client     *)
(* that was told of a grant can rely on the host to know it while no       *)
(* higher generation has been published.  (_session_grants.py:138,         *)
(* supervisor.py:432 and supervisor_client.py:208: grants live in memory,  *)
(* the fence on the disk, and the answer on a socket that may break.)      *)
(***************************************************************************)
GrantsAreCurrent ==
  /\ \A a \in admissions : ~a.behind /\ ~a.revoked /\ ~a.foreign
  /\ \A c \in Client :
       client[c].pc = "told" /\ client[c].reply = "rejected" => ~client[c].applied
  /\ \A h \in Host, x \in Grant :
       Serving(h) /\ Highest = host[h].gen /\ Told("issue", h, x)
         => host[h].grants[x].status # "none" /\ host[h].grants[x].gen = host[h].gen

=============================================================================
