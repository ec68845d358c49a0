------------------------- MODULE OperationLifecycle -------------------------
(***************************************************************************)
(* What the operation registry promises about one logical operation, with  *)
(* no leases, generations, queue or clock: work waits, is executed by one  *)
(* owner at a time, may become uncertain, may go back to waiting only from *)
(* uncertainty, and settles once.  Ownerships are numbered; an operation   *)
(* settled by an owner was settled by its last one, and while it executed. *)
(*                                                                         *)
(* One registry transaction may move several operations, so a step is any  *)
(* combination of per-operation moves.                                     *)
(***************************************************************************)
EXTENDS Naturals

CONSTANT Op

VARIABLES
  phase,   \* per operation
  owners,  \* how many ownerships the operation has had
  settler  \* the ownership that settled it with success, 0 when none did

vars == <<phase, owners, settler>>

Phases == {"absent", "waiting", "executing", "uncertain", "succeeded", "failed",
           "cancelled", "timed_out"}
Settled == {"succeeded", "failed", "cancelled", "timed_out"}

TypeOK ==
  /\ phase \in [Op -> Phases]
  /\ owners \in [Op -> Nat]
  /\ settler \in [Op -> Nat]

Init ==
  /\ phase = [o \in Op |-> "absent"]
  /\ owners = [o \in Op |-> 0]
  /\ settler = [o \in Op |-> 0]

Stays(o) == UNCHANGED <<phase[o], owners[o], settler[o]>>

Moves(o, from, to) ==
  /\ phase[o] \in from
  /\ phase'[o] = to

Submit(o) == Moves(o, {"absent"}, "waiting") /\ UNCHANGED <<owners[o], settler[o]>>

\* a new ownership, or an inline execution without one
Execute(o) ==
  /\ Moves(o, {"waiting"}, "executing")
  /\ owners'[o] \in {owners[o], owners[o] + 1}
  /\ UNCHANGED settler[o]

LoseCertainty(o) ==
  Moves(o, {"executing"}, "uncertain") /\ UNCHANGED <<owners[o], settler[o]>>

\* the only way back to the queue
Resume(o) ==
  Moves(o, {"uncertain"}, "waiting") /\ UNCHANGED <<owners[o], settler[o]>>

\* success needs an execution, or evidence of one
Succeed(o) ==
  /\ Moves(o, {"executing", "uncertain"}, "succeeded")
  /\ settler'[o] \in {0, owners[o]}
  /\ UNCHANGED owners[o]

Abandon(o) ==
  /\ \E to \in Settled \ {"succeeded"} :
       Moves(o, {"waiting", "executing", "uncertain"}, to)
  /\ UNCHANGED <<owners[o], settler[o]>>

Move(o) ==
  \/ Stays(o)
  \/ Submit(o)
  \/ Execute(o)
  \/ LoseCertainty(o)
  \/ Resume(o)
  \/ Succeed(o)
  \/ Abandon(o)

Next ==
  /\ phase' \in [Op -> Phases]
  /\ owners' \in [Op -> Nat]
  /\ settler' \in [Op -> Nat]
  /\ \A o \in Op : Move(o)

Spec == Init /\ [][Next]_vars

=============================================================================
