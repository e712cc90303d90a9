-------------------------- MODULE MemoryOutboxQueue --------------------------
(***************************************************************************)
(* The outbox queue the repository's tests run the publisher against       *)
(* (src/outbox/memory-outbox-queue.ts).  Each call is one step.  It is the *)
(* abstract specification of the queue: what the publisher may rely on     *)
(* whichever OutboxQueue it is given.  A worker may call any operation at  *)
(* any time; time passes in the steps of the clock.                        *)
(***************************************************************************)
EXTENDS Naturals

CONSTANTS Events, Workers, MaxAttempts, NoWorker

VARIABLE events   \* the Map; an event that was never added is "ABSENT"

MemoryEvent ==
  [status : {"ABSENT", "PENDING", "PUBLISHED", "DEAD_LETTER"}, attempts : Nat,
   due : BOOLEAN,                      \* availableAt <= now
   lockedBy : Workers \cup {NoWorker},
   leased : BOOLEAN]                   \* leaseExpiresAt > now

Init == events = [e \in Events |-> [status |-> "ABSENT", attempts |-> 0, due |-> TRUE,
                                    lockedBy |-> NoWorker, leased |-> FALSE]]

Set(e, event) == events' = [events EXCEPT ![e] = event]

\* add() sets the entry anew, also that of an event that was dead-lettered.
add(e) ==
  /\ events[e].status \in {"ABSENT", "DEAD_LETTER"}
  /\ Set(e, [status |-> "PENDING", attempts |-> 0, due |-> TRUE, lockedBy |-> NoWorker, leased |-> FALSE])

claim(e, w) ==
  /\ events[e].status = "PENDING"
  /\ \/ events[e].lockedBy = NoWorker /\ events[e].attempts < MaxAttempts /\ events[e].due
     \/ events[e].lockedBy # NoWorker /\ events[e].attempts <= MaxAttempts /\ ~events[e].leased
  /\ Set(e, [events[e] EXCEPT !.attempts = @ + 1, !.lockedBy = w, !.leased = TRUE])

owned(e, w) == events[e].status = "PENDING" /\ events[e].lockedBy = w

Unlocked(e) == [events[e] EXCEPT !.lockedBy = NoWorker, !.leased = FALSE]

markPublished(e, w) == owned(e, w) /\ Set(e, [Unlocked(e) EXCEPT !.status = "PUBLISHED"])

retry(e, w) == owned(e, w) /\ Set(e, [Unlocked(e) EXCEPT !.due = FALSE])

deadLetter(e, w) == owned(e, w) /\ Set(e, [Unlocked(e) EXCEPT !.status = "DEAD_LETTER"])

LeaseRunsOut(e) == events[e].leased /\ Set(e, [events[e] EXCEPT !.leased = FALSE])
BackOffPasses(e) == ~events[e].due /\ Set(e, [events[e] EXCEPT !.due = TRUE])

Next ==
  \E e \in Events :
    \/ add(e) \/ LeaseRunsOut(e) \/ BackOffPasses(e)
    \/ \E w \in Workers : claim(e, w) \/ markPublished(e, w) \/ retry(e, w) \/ deadLetter(e, w)

Spec == Init /\ [][Next]_events
=============================================================================
