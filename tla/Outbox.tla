-------------------------------- MODULE Outbox --------------------------------
(***************************************************************************)
(* The transactional outbox: the outbox_events table and its store calls   *)
(* (src/outbox/postgres-outbox-queue.ts), the publisher processes          *)
(* (publisher.ts), the two sinks they deliver to, and the operator's       *)
(* requeue (operations.ts).  A publisher's calls to the database can fail, *)
(* with or without having taken effect.                                    *)
(***************************************************************************)
EXTENDS Naturals

CONSTANTS
  Events, Supported, Effective,   \* as in EventDelivery
  Publishers,                     \* outbox worker processes
  MaxAttempts,                    \* OUTBOX_MAX_ATTEMPTS
  MaxRequeues,                    \* bound: requeues of one event
  NoEvent, NoPublisher

ASSUME SetsAssumption == Effective \subseteq Supported /\ Supported \subseteq Events
ASSUME NoneAssumption == NoEvent \notin Events /\ NoPublisher \notin Publishers
ASSUME BoundAssumption == MaxAttempts \in Nat \ {0} /\ MaxRequeues \in Nat

VARIABLES
  row,        \* outbox_events, one row per event
  consumed,   \* event_consumptions of storzy-domain-events.v1
  effects,    \* source_event_id of operator_notifications and product_candidate_jobs
  logged,     \* what the log sink has been given
  audit,      \* outbox_event_actions, per event
  publisher   \* the processOne call each publisher is in

vars == <<row, consumed, effects, logged, audit, publisher>>

-----------------------------------------------------------------------------
Row == [status : {"ABSENT", "PENDING", "PUBLISHED", "DEAD_LETTER"},
        attempts : 0 .. MaxAttempts + 1,
        due : BOOLEAN,                             \* available_at <= now()
        lockedBy : Publishers \cup {NoPublisher},
        leased : BOOLEAN]                          \* lease_expires_at > now()

Call == [pc : {"idle", "exhausted", "domain", "log", "mark", "transient", "permanent"},
         event : Events \cup {NoEvent},
         attempt : 0 .. MaxAttempts + 1]

\* Every column holds a value of its type and every publisher is at a known step.
TypeOK ==
  /\ row \in [Events -> Row]
  /\ consumed \subseteq Events /\ effects \subseteq Events /\ logged \subseteq Events
  /\ audit \in [Events -> 0 .. MaxRequeues]
  /\ publisher \in [Publishers -> Call]

NoRow == [status |-> "ABSENT", attempts |-> 0, due |-> TRUE,
          lockedBy |-> NoPublisher, leased |-> FALSE]
NewRow == [NoRow EXCEPT !.status = "PENDING"]
Idle == [pc |-> "idle", event |-> NoEvent, attempt |-> 0]

Init ==
  /\ row = [e \in Events |-> NoRow]
  /\ consumed = {} /\ effects = {} /\ logged = {}
  /\ audit = [e \in Events |-> 0]
  /\ publisher = [p \in Publishers |-> Idle]

EventOf(p) == publisher[p].event
GoTo(p, pc) == publisher' = [publisher EXCEPT ![p].pc = pc]
Return(p) == publisher' = [publisher EXCEPT ![p] = Idle]

-----------------------------------------------------------------------------
\* The transaction of the brand store that causes the event inserts its row.
Emit(e) ==
  /\ row[e].status = "ABSENT"
  /\ row' = [row EXCEPT ![e] = NewRow]
  /\ UNCHANGED <<consumed, effects, logged, audit, publisher>>

\* Mutant: the attempts of a lost lease are not bounded.
ClaimableForever(r) ==
  /\ r.status = "PENDING"
  /\ \/ r.lockedBy = NoPublisher /\ r.attempts < MaxAttempts /\ r.due
     \/ r.lockedBy # NoPublisher /\ ~r.leased

\* Mutant: an event whose publisher died at the last attempt is not taken over.
ClaimableBelow(r) ==
  /\ r.status = "PENDING" /\ r.attempts < MaxAttempts
  /\ \/ r.lockedBy = NoPublisher /\ r.due
     \/ r.lockedBy # NoPublisher /\ ~r.leased

Claimable(r) ==
  /\ r.status = "PENDING"
  /\ \/ r.lockedBy = NoPublisher /\ r.attempts < MaxAttempts /\ r.due
     \/ r.lockedBy # NoPublisher /\ r.attempts <= MaxAttempts /\ ~r.leased

Claim(p, e) ==
  /\ publisher[p].pc = "idle"
  /\ Claimable(row[e])
  /\ row' = [row EXCEPT ![e] = [row[e] EXCEPT !.attempts = row[e].attempts + 1,
                                              !.lockedBy = p, !.leased = TRUE]]
  /\ publisher' = [publisher EXCEPT ![p] =
       [pc |-> IF row[e].attempts < MaxAttempts THEN "domain" ELSE "exhausted",
        event |-> e, attempt |-> row[e].attempts + 1]]
  /\ UNCHANGED <<consumed, effects, logged, audit>>

-----------------------------------------------------------------------------
\* Mutant: the consumption key is committed before the effect is written.
ConsumeKeyOnly(p) ==
  consumed' = consumed \cup {EventOf(p)} /\ UNCHANGED effects

\* The domain sink: consumption key and effect in one transaction.  It may fail
\* and be rolled back, or commit without the publisher learning of it.
Consume(p) ==
  LET e == EventOf(p)
  IN  /\ consumed' = consumed \cup {e}
      /\ effects' = IF e \notin consumed /\ e \in Effective THEN effects \cup {e} ELSE effects

DomainSink(p) ==
  /\ publisher[p].pc = "domain"
  /\ \/ EventOf(p) \in Supported /\ Consume(p) /\ (GoTo(p, "log") \/ GoTo(p, "transient"))
     \/ EventOf(p) \notin Supported /\ GoTo(p, "permanent") /\ UNCHANGED <<consumed, effects>>
     \/ EventOf(p) \in Supported /\ GoTo(p, "transient") /\ UNCHANGED <<consumed, effects>>
  /\ UNCHANGED <<row, logged, audit>>

LogSink(p) ==
  /\ publisher[p].pc = "log"
  /\ logged' = logged \cup {EventOf(p)}
  /\ GoTo(p, "mark")
  /\ UNCHANGED <<row, consumed, effects, audit>>

-----------------------------------------------------------------------------
\* Mutant: the row is matched by its status, not by its owner.
OwnsPending(p) == row[EventOf(p)].status = "PENDING"

\* markPublished, retry and deadLetter match a pending row by its owner.
Owns(p) == row[EventOf(p)].status = "PENDING" /\ row[EventOf(p)].lockedBy = p

Release(r, status, due) ==
  [r EXCEPT !.status = status, !.due = due, !.lockedBy = NoPublisher, !.leased = FALSE]

SetRow(p, status, due) ==
  row' = [row EXCEPT ![EventOf(p)] = Release(row[EventOf(p)], status, due)]

\* Mutant: markPublished matches the row by its id alone.
MarkById(p) ==
  /\ publisher[p].pc = "mark"
  /\ SetRow(p, "PUBLISHED", row[EventOf(p)].due)
  /\ Return(p)
  /\ UNCHANGED <<consumed, effects, logged, audit>>

\* A mark that matched no row, or whose answer was an error, is an error of the
\* try block and goes through the catch block like a failed delivery.
Mark(p) ==
  /\ publisher[p].pc = "mark"
  /\ \/ Owns(p) /\ SetRow(p, "PUBLISHED", row[EventOf(p)].due)
        /\ (Return(p) \/ GoTo(p, "transient"))
     \/ GoTo(p, "transient") /\ UNCHANGED row
  /\ UNCHANGED <<consumed, effects, logged, audit>>

Retries(p) == publisher[p].pc = "transient" /\ publisher[p].attempt < MaxAttempts

\* The catch block, and the dead-lettering of a row found exhausted.  What it
\* throws itself is logged by run(), whether the row was changed or not.
Settle(p) ==
  /\ publisher[p].pc \in {"exhausted", "transient", "permanent"}
  /\ \/ Owns(p) /\ Retries(p) /\ SetRow(p, "PENDING", FALSE)
     \/ Owns(p) /\ ~Retries(p) /\ SetRow(p, "DEAD_LETTER", row[EventOf(p)].due)
     \/ UNCHANGED row
  /\ Return(p)
  /\ UNCHANGED <<consumed, effects, logged, audit>>

-----------------------------------------------------------------------------
Crash(p) ==
  /\ publisher[p].pc # "idle"
  /\ Return(p)
  /\ UNCHANGED <<row, consumed, effects, logged, audit>>

ExpireLease(e) ==
  /\ row[e].leased
  /\ row' = [row EXCEPT ![e] = [@ EXCEPT !.leased = FALSE]]
  /\ UNCHANGED <<consumed, effects, logged, audit, publisher>>

\* The back-off of a retry has passed.
FallDue(e) ==
  /\ ~row[e].due
  /\ row' = [row EXCEPT ![e] = [@ EXCEPT !.due = TRUE]]
  /\ UNCHANGED <<consumed, effects, logged, audit, publisher>>

\* Mutant: an event that is still being tried can be requeued, lock and all.
RequeuePending(e) ==
  /\ row[e].status \in {"PENDING", "DEAD_LETTER"} /\ audit[e] < MaxRequeues
  /\ row' = [row EXCEPT ![e] = [@ EXCEPT !.status = "PENDING", !.attempts = 0]]
  /\ audit' = [audit EXCEPT ![e] = @ + 1]
  /\ UNCHANGED <<consumed, effects, logged, publisher>>

\* The operator's requeue writes the row and its audit record together.
Requeue(e) ==
  /\ row[e].status = "DEAD_LETTER" /\ audit[e] < MaxRequeues
  /\ row' = [row EXCEPT ![e] = NewRow]
  /\ audit' = [audit EXCEPT ![e] = @ + 1]
  /\ UNCHANGED <<consumed, effects, logged, publisher>>

PublisherStep(p) == DomainSink(p) \/ LogSink(p) \/ Mark(p) \/ Settle(p)

Next ==
  \/ \E e \in Events : Emit(e) \/ ExpireLease(e) \/ FallDue(e) \/ Requeue(e)
  \/ \E p \in Publishers : PublisherStep(p) \/ Crash(p) \/ \E e \in Events : Claim(p, e)

Spec == Init /\ [][Next]_vars

(***************************************************************************)
(* Publishers poll as long as they are deployed, the calls they make       *)
(* return, events are claimed in the order they fall due, and time passes. *)
(* Nothing is assumed of crashes, of the database's errors or of the       *)
(* operator.                                                               *)
(***************************************************************************)
OrphanExpires(e) == ExpireLease(e) /\ \A p \in Publishers : EventOf(p) # e

Fairness ==
  /\ \A p \in Publishers : WF_vars(PublisherStep(p))
  /\ \A e \in Events : /\ SF_vars(\E p \in Publishers : Claim(p, e))
                       /\ WF_vars(OrphanExpires(e))
                       /\ WF_vars(FallDue(e))

FairSpec == Spec /\ Fairness

-----------------------------------------------------------------------------
\* An event counts as published only when both sinks have had it, whichever
\* publisher delivered it and whichever marked it.
PublishedWasDelivered ==
  \A e \in Events :
    row[e].status = "PUBLISHED" =>
      /\ e \in Supported /\ e \in consumed /\ e \in logged
      /\ e \in Effective => e \in effects

\* The decision to retry or to give up is taken from the attempt a publisher
\* read when it claimed the row: while it owns the row that is still its count.
OwnerCountsFresh ==
  \A p \in Publishers :
    publisher[p].pc # "idle" /\ row[EventOf(p)].lockedBy = p =>
      /\ row[EventOf(p)].status = "PENDING"
      /\ row[EventOf(p)].attempts = publisher[p].attempt

\* No event that can be delivered is given up before its last attempt, the
\* attempts of publishers that lost the event to another one included.
DeadLettersWereTried ==
  \A e \in Events :
    row[e].status = "DEAD_LETTER" /\ e \in Supported => row[e].attempts >= MaxAttempts

\* The outbox keeps the promises of EventDelivery.
Delivery == INSTANCE EventDelivery WITH status <- [e \in Events |-> row[e].status]
Delivers == Delivery!Spec

\* The table, its store calls and the operator's requeue do to the events only
\* what the queue of the tests can do: what the tests of the publisher show with
\* that queue is not lost with several publishers on one table.
TestQueue == INSTANCE MemoryOutboxQueue
  WITH events <- row, Workers <- Publishers, NoWorker <- NoPublisher
ActsAsTestQueue == TestQueue!Spec

\* Lost while it was being dead-lettered, attempt MaxAttempts + 1: no publisher
\* claims the row again, and no requeue finds it.
Stranded(e) == row[e].status = "PENDING" /\ row[e].attempts > MaxAttempts

\* Every event is published or given up to the operator in the end, through any
\* number of crashes, lost leases and database errors.
EventsSettle ==
  \A e \in Events :
    row[e].status = "PENDING" ~> row[e].status \in {"PUBLISHED", "DEAD_LETTER"} \/ Stranded(e)
=============================================================================
