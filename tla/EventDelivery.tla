---------------------------- MODULE EventDelivery ----------------------------
(***************************************************************************)
(* What the outbox promises of the domain events it carries: an event that *)
(* counts as published has had its effect, the effect happens once and     *)
(* stays, what nobody can consume is never published, and an event that    *)
(* was published or buried leaves that state only as an operator decides.  *)
(***************************************************************************)
CONSTANTS
  Events,      \* domain events, one per idempotency key
  Supported,   \* those whose topic the consumer knows
  Effective    \* those whose topic has a notification or a job as its effect

VARIABLES
  status,      \* "ABSENT", "PENDING", "PUBLISHED" or "DEAD_LETTER"
  effects      \* the events that have their notification or job

vars == <<status, effects>>

Init == status = [e \in Events |-> "ABSENT"] /\ effects = {}

Turn(e, from, to) ==
  status[e] = from /\ status' = [status EXCEPT ![e] = to] /\ UNCHANGED effects

Emit(e) == Turn(e, "ABSENT", "PENDING")

\* A publisher that has lost the event may still apply it: even after another
\* one has given it up, but never after it counts as published.
Apply(e) ==
  /\ e \in Effective \ effects /\ status[e] \in {"PENDING", "DEAD_LETTER"}
  /\ effects' = effects \cup {e}
  /\ UNCHANGED status

Publish(e) ==
  /\ e \in Supported /\ (e \in Effective => e \in effects)
  /\ Turn(e, "PENDING", "PUBLISHED")

Bury(e) == Turn(e, "PENDING", "DEAD_LETTER")
Revive(e) == Turn(e, "DEAD_LETTER", "PENDING")

Next == \E e \in Events : Emit(e) \/ Apply(e) \/ Publish(e) \/ Bury(e) \/ Revive(e)

Spec == Init /\ [][Next]_vars
=============================================================================
