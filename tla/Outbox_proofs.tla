---------------------------- MODULE Outbox_proofs ----------------------------
(***************************************************************************)
(* Safety of the outbox for any events, publishers, attempts and requeues, *)
(* and the proof that it implements EventDelivery.                         *)
(***************************************************************************)
EXTENDS Outbox, TLAPS

Busy(p) == publisher[p].pc # "idle"

\* A call is about an event that was emitted; past the domain sink the event is
\* one the consumer knows and has consumed, past the log sink it was logged.
CallsWellFormed ==
  \A p \in Publishers : Busy(p) =>
    /\ EventOf(p) \in Events /\ row[EventOf(p)].status # "ABSENT"
    /\ publisher[p].pc \in {"log", "mark"} => EventOf(p) \in Supported /\ EventOf(p) \in consumed
    /\ publisher[p].pc = "mark" => EventOf(p) \in logged
    /\ publisher[p].pc = "permanent" => EventOf(p) \notin Supported
    /\ publisher[p].pc = "exhausted" => publisher[p].attempt > MaxAttempts

LocksPending == \A e \in Events : row[e].lockedBy # NoPublisher => row[e].status = "PENDING"

ConsumedHasEffect == \A e \in Effective : e \in consumed => e \in effects

IInv == /\ TypeOK /\ CallsWellFormed /\ LocksPending /\ ConsumedHasEffect
        /\ PublishedWasDelivered /\ OwnerCountsFresh /\ DeadLettersWereTried

-----------------------------------------------------------------------------
\* The initial row, an emitted row and the idle call have their types.
LEMMA Records == NoRow \in Row /\ NewRow \in Row /\ Idle \in Call
<1>1. 0 \in 0 .. MaxAttempts + 1
  BY BoundAssumption
<1> QED  BY <1>1 DEF NoRow, NewRow, Idle, Row, Call

\* What giving a row up changes in it.
LEMMA Releases ==
  ASSUME NEW r \in Row, NEW status \in {"PENDING", "PUBLISHED", "DEAD_LETTER"}, NEW due \in BOOLEAN
  PROVE  LET s == Release(r, status, due)
         IN  s \in Row /\ s.status = status /\ s.lockedBy = NoPublisher /\ s.attempts = r.attempts
  BY DEF Release, Row

Claimed(r, n, p) == [r EXCEPT !.attempts = n, !.lockedBy = p, !.leased = TRUE]

\* What claiming a row changes in it.
LEMMA Claims ==
  ASSUME NEW r \in Row, NEW n \in 0 .. MaxAttempts + 1, NEW p \in Publishers
  PROVE  LET s == Claimed(r, n, p)
         IN  s \in Row /\ s.status = r.status /\ s.lockedBy = p /\ s.attempts = n
  BY DEF Claimed, Row

\* A step that moves one publisher on, with its event and attempt.
Moved(p) ==
  /\ publisher' \in [Publishers -> Call]
  /\ \A q \in Publishers : q # p => publisher'[q] = publisher[q]
  /\ publisher'[p].pc = "idle" \/ (publisher'[p].event = publisher[p].event
                                   /\ publisher'[p].attempt = publisher[p].attempt)

\* What a step that only advances a publisher changes.
LEMMA GoToMoves ==
  ASSUME TypeOK, NEW p \in Publishers, NEW pc \in {"log", "mark", "transient", "permanent"},
         GoTo(p, pc)
  PROVE  Moved(p) /\ publisher'[p].pc = pc
<1>1. publisher[p] \in Call
  BY DEF TypeOK
<1>2. publisher' = [publisher EXCEPT ![p] = [publisher[p] EXCEPT !.pc = pc]]
  BY DEF GoTo, TypeOK
<1>3. [publisher[p] EXCEPT !.pc = pc] \in Call
  BY <1>1 DEF Call
<1> QED  BY <1>1, <1>2, <1>3 DEF Moved, TypeOK, Call

\* What a step that ends a publisher's call changes.
LEMMA ReturnMoves ==
  ASSUME TypeOK, NEW p \in Publishers, Return(p)
  PROVE  Moved(p) /\ publisher'[p].pc = "idle"
  BY Records DEF Return, Moved, TypeOK, Idle

-----------------------------------------------------------------------------
\* Steps of a publisher that leave the table alone.
LEMMA SinkStep ==
  ASSUME IInv, NEW p \in Publishers, Busy(p), Moved(p), UNCHANGED <<row, audit>>,
         consumed \subseteq consumed', consumed' \subseteq Events,
         effects \subseteq effects', effects' \subseteq Events,
         logged \subseteq logged', logged' \subseteq Events,
         \A e \in Effective : e \in consumed' => e \in effects',
         publisher'[p].pc # "exhausted",
         publisher'[p].pc \in {"log", "mark"} =>
           EventOf(p) \in Supported /\ EventOf(p) \in consumed',
         publisher'[p].pc = "mark" => EventOf(p) \in logged',
         publisher'[p].pc = "permanent" => EventOf(p) \notin Supported
  PROVE  IInv'
<1> USE DEF IInv
<1>1. TypeOK'
  BY DEF TypeOK, Moved
<1>2. CallsWellFormed'
  BY DEF CallsWellFormed, Busy, EventOf, Moved
<1>3. LocksPending' /\ ConsumedHasEffect' /\ DeadLettersWereTried'
  BY DEF LocksPending, ConsumedHasEffect, DeadLettersWereTried
<1>4. PublishedWasDelivered'
  BY DEF PublishedWasDelivered
<1>5. OwnerCountsFresh'
  BY DEF OwnerCountsFresh, Busy, EventOf, Moved
<1> QED  BY <1>1, <1>2, <1>3, <1>4, <1>5

\* The domain sink preserves the invariant.
LEMMA DomainStep == ASSUME IInv, NEW p \in Publishers, DomainSink(p) PROVE IInv'
<1> USE DEF IInv
<1>1. Busy(p) /\ EventOf(p) \in Events /\ publisher[p].pc = "domain"
  BY DEF DomainSink, Busy, CallsWellFormed
<1>2. UNCHANGED <<row, audit, logged>>
  BY DEF DomainSink
<1>3. CASE EventOf(p) \in Supported /\ Consume(p) /\ (GoTo(p, "log") \/ GoTo(p, "transient"))
  <2>1. Moved(p) /\ publisher'[p].pc \in {"log", "transient"}
    BY <1>3, GoToMoves
  <2>2. /\ consumed \subseteq consumed' /\ consumed' \subseteq Events /\ EventOf(p) \in consumed'
        /\ effects \subseteq effects' /\ effects' \subseteq Events
        /\ \A e \in Effective : e \in consumed' => e \in effects'
    BY <1>1, <1>3 DEF Consume, TypeOK, ConsumedHasEffect
  <2> QED  BY <1>1, <1>2, <1>3, <2>1, <2>2, SinkStep DEF TypeOK
<1>4. CASE /\ UNCHANGED <<consumed, effects>>
           /\ \/ EventOf(p) \notin Supported /\ GoTo(p, "permanent")
              \/ GoTo(p, "transient")
  <2>1. /\ Moved(p)
        /\ \/ publisher'[p].pc = "permanent" /\ EventOf(p) \notin Supported
           \/ publisher'[p].pc = "transient"
    BY <1>4, GoToMoves
  <2> QED  BY <1>1, <1>2, <1>4, <2>1, SinkStep DEF TypeOK, ConsumedHasEffect
<1> QED  BY <1>3, <1>4 DEF DomainSink

\* The log sink preserves the invariant.
LEMMA LogStep == ASSUME IInv, NEW p \in Publishers, LogSink(p) PROVE IInv'
<1> USE DEF IInv
<1>1. Busy(p) /\ EventOf(p) \in Events /\ EventOf(p) \in Supported /\ EventOf(p) \in consumed
  BY DEF LogSink, Busy, CallsWellFormed
<1>2. Moved(p) /\ publisher'[p].pc = "mark"
  BY GoToMoves DEF LogSink
<1> QED  BY <1>1, <1>2, SinkStep DEF LogSink, TypeOK, ConsumedHasEffect

\* The death of a publisher preserves the invariant.
LEMMA CrashStep == ASSUME IInv, NEW p \in Publishers, Crash(p) PROVE IInv'
<1> USE DEF IInv
<1>1. Moved(p) /\ publisher'[p].pc = "idle" /\ Busy(p)
  BY ReturnMoves DEF Crash, Busy
<1> QED  BY <1>1, SinkStep DEF Crash, TypeOK, ConsumedHasEffect

-----------------------------------------------------------------------------
\* Steps that rewrite one row and leave it without an owner.
LEMMA RowStep ==
  ASSUME IInv, NEW e \in Events, NEW r \in Row, row' = [row EXCEPT ![e] = r],
         r.lockedBy = NoPublisher, r.status # "ABSENT",
         UNCHANGED <<consumed, effects, logged>>, audit' \in [Events -> 0 .. MaxRequeues],
         \/ UNCHANGED publisher
         \/ \E p \in Publishers : Busy(p) /\ Moved(p) /\ publisher'[p].pc \in {"idle", "transient"},
         r.status = "PUBLISHED" =>
           e \in Supported /\ e \in consumed /\ e \in logged /\ (e \in Effective => e \in effects),
         r.status = "DEAD_LETTER" /\ e \in Supported => r.attempts >= MaxAttempts
  PROVE  IInv'
<1> USE DEF IInv
<1>1. \A f \in Events : row'[f] = IF f = e THEN r ELSE row[f]
  BY DEF TypeOK
<1>2. TypeOK'
  BY DEF TypeOK, Moved
<1>3. CallsWellFormed'
  BY <1>1 DEF CallsWellFormed, Busy, EventOf, Moved
<1>4. LocksPending' /\ ConsumedHasEffect' /\ DeadLettersWereTried'
  BY <1>1 DEF LocksPending, ConsumedHasEffect, DeadLettersWereTried
<1>5. PublishedWasDelivered'
  BY <1>1 DEF PublishedWasDelivered
<1>6. OwnerCountsFresh'
  BY <1>1, NoneAssumption DEF OwnerCountsFresh, CallsWellFormed, Busy, EventOf, Moved
<1> QED  BY <1>2, <1>3, <1>4, <1>5, <1>6

\* An emitted event preserves the invariant.
LEMMA EmitStep == ASSUME IInv, NEW e \in Events, Emit(e) PROVE IInv'
<1>1. NewRow.lockedBy = NoPublisher /\ NewRow.status = "PENDING"
  BY DEF NewRow, NoRow
<1> QED  BY <1>1, Records, RowStep DEF Emit, IInv, TypeOK

\* The operator's requeue preserves the invariant.
LEMMA RequeueStep == ASSUME IInv, NEW e \in Events, Requeue(e) PROVE IInv'
<1> USE DEF IInv
<1>1. NewRow.lockedBy = NoPublisher /\ NewRow.status = "PENDING"
  BY DEF NewRow, NoRow
<1>2. audit' \in [Events -> 0 .. MaxRequeues]
  BY BoundAssumption DEF Requeue, TypeOK
<1> QED  BY <1>1, <1>2, Records, RowStep DEF Requeue

\* markPublished preserves the invariant.
LEMMA MarkStep == ASSUME IInv, NEW p \in Publishers, Mark(p) PROVE IInv'
<1> USE DEF IInv
<1> DEFINE e == EventOf(p)
<1>1. /\ Busy(p) /\ e \in Events /\ e \in Supported /\ e \in consumed /\ e \in logged
      /\ e \in Effective => e \in effects
  BY DEF Mark, Busy, CallsWellFormed, ConsumedHasEffect
<1>2. UNCHANGED <<consumed, effects, logged, audit>>
  BY DEF Mark
<1>3. CASE SetRow(p, "PUBLISHED", row[e].due) /\ (Return(p) \/ GoTo(p, "transient"))
  <2> DEFINE r == Release(row[e], "PUBLISHED", row[e].due)
  <2>1. row[e] \in Row /\ row[e].due \in BOOLEAN
    BY <1>1 DEF TypeOK, Row
  <2>2. r \in Row /\ r.lockedBy = NoPublisher /\ r.status = "PUBLISHED"
    BY <2>1, Releases
  <2>3. row' = [row EXCEPT ![e] = r]
    BY <1>3 DEF SetRow
  <2>4. Moved(p) /\ publisher'[p].pc \in {"idle", "transient"}
    BY <1>3, GoToMoves, ReturnMoves
  <2>5. audit' \in [Events -> 0 .. MaxRequeues]
    BY <1>2 DEF TypeOK
  <2> HIDE DEF r, e
  <2> QED  BY <1>1, <1>2, <2>2, <2>3, <2>4, <2>5, RowStep
<1>4. CASE GoTo(p, "transient") /\ UNCHANGED row
  <2>1. Moved(p) /\ publisher'[p].pc = "transient"
    BY <1>4, GoToMoves
  <2> QED  BY <1>1, <1>2, <1>4, <2>1, SinkStep DEF TypeOK, ConsumedHasEffect
<1> QED  BY <1>3, <1>4 DEF Mark

\* retry and deadLetter preserve the invariant.
LEMMA SettleStep == ASSUME IInv, NEW p \in Publishers, Settle(p) PROVE IInv'
<1> USE DEF IInv
<1> DEFINE e == EventOf(p)
<1>1. /\ Busy(p) /\ e \in Events /\ row[e] \in Row /\ row[e].due \in BOOLEAN
      /\ publisher[p] \in Call /\ publisher[p].pc \in {"exhausted", "transient", "permanent"}
  BY DEF Settle, Busy, CallsWellFormed, TypeOK, Row
<1>2. /\ UNCHANGED <<consumed, effects, logged, audit>>
      /\ Moved(p) /\ publisher'[p].pc = "idle"
  BY ReturnMoves DEF Settle
<1>3. audit' \in [Events -> 0 .. MaxRequeues]
  BY <1>2 DEF TypeOK
<1>4. CASE SetRow(p, "PENDING", FALSE)
  <2> DEFINE r == Release(row[e], "PENDING", FALSE)
  <2>1. r \in Row /\ r.lockedBy = NoPublisher /\ r.status = "PENDING"
    BY <1>1, Releases
  <2>2. row' = [row EXCEPT ![e] = r]
    BY <1>4 DEF SetRow
  <2> HIDE DEF r, e
  <2> QED  BY <1>1, <1>2, <1>3, <2>1, <2>2, RowStep
<1>5. CASE Owns(p) /\ ~Retries(p) /\ SetRow(p, "DEAD_LETTER", row[e].due)
  <2> DEFINE r == Release(row[e], "DEAD_LETTER", row[e].due)
  <2>1. /\ r \in Row /\ r.lockedBy = NoPublisher /\ r.status = "DEAD_LETTER"
        /\ r.attempts = row[e].attempts
    BY <1>1, Releases
  <2>2. row' = [row EXCEPT ![e] = r]
    BY <1>5 DEF SetRow
  <2>3. row[e].attempts = publisher[p].attempt
    BY <1>1, <1>5 DEF OwnerCountsFresh, Owns, Busy
  <2>4. e \in Supported => publisher[p].attempt >= MaxAttempts
    BY <1>1, <1>5, BoundAssumption DEF CallsWellFormed, Retries, Busy, Call
  <2> HIDE DEF r, e
  <2> QED  BY <1>1, <1>2, <1>3, <2>1, <2>2, <2>3, <2>4, RowStep
<1>6. CASE UNCHANGED row
  BY <1>1, <1>2, <1>6, SinkStep DEF TypeOK, ConsumedHasEffect
<1> QED  BY <1>4, <1>5, <1>6 DEF Settle

-----------------------------------------------------------------------------
\* Time passing changes nothing the invariant speaks of.
LEMMA TimeStep == ASSUME IInv, NEW e \in Events, ExpireLease(e) \/ FallDue(e) PROVE IInv'
<1> USE DEF IInv
<1>1. UNCHANGED <<consumed, effects, logged, audit, publisher>>
  BY DEF ExpireLease, FallDue
<1>2. /\ row' \in [Events -> Row]
      /\ \A f \in Events : /\ row'[f].status = row[f].status
                            /\ row'[f].attempts = row[f].attempts
                            /\ row'[f].lockedBy = row[f].lockedBy
  <2> DEFINE expired == [row[e] EXCEPT !.leased = FALSE]
             due == [row[e] EXCEPT !.due = TRUE]
             SameBut(r) == /\ r \in Row /\ r.status = row[e].status
                           /\ r.attempts = row[e].attempts /\ r.lockedBy = row[e].lockedBy
  <2>1. SameBut(expired) /\ SameBut(due)
    <3>1. row[e] \in Row
      BY DEF TypeOK
    <3> QED  BY <3>1 DEF Row
  <2>2. row' = [row EXCEPT ![e] = expired] \/ row' = [row EXCEPT ![e] = due]
    BY DEF ExpireLease, FallDue, TypeOK
  <2> HIDE DEF expired, due
  <2>3. ASSUME NEW r, SameBut(r), row' = [row EXCEPT ![e] = r]
        PROVE  /\ row' \in [Events -> Row]
               /\ \A f \in Events : /\ row'[f].status = row[f].status
                                     /\ row'[f].attempts = row[f].attempts
                                     /\ row'[f].lockedBy = row[f].lockedBy
    BY <2>3 DEF TypeOK
  <2> QED  BY <2>1, <2>2, <2>3
<1>3. TypeOK'
  BY <1>1, <1>2 DEF TypeOK
<1>4. CallsWellFormed' /\ OwnerCountsFresh'
  BY <1>1, <1>2 DEF CallsWellFormed, OwnerCountsFresh, Busy, EventOf
<1>5. LocksPending' /\ ConsumedHasEffect' /\ PublishedWasDelivered' /\ DeadLettersWereTried'
  BY <1>1, <1>2 DEF LocksPending, ConsumedHasEffect, PublishedWasDelivered, DeadLettersWereTried
<1> QED  BY <1>3, <1>4, <1>5

\* A claim preserves the invariant.
LEMMA ClaimStep == ASSUME IInv, NEW p \in Publishers, NEW e \in Events, Claim(p, e) PROVE IInv'
<1> USE DEF IInv
<1> DEFINE r == Claimed(row[e], row[e].attempts + 1, p)
           call == [pc |-> IF row[e].attempts < MaxAttempts THEN "domain" ELSE "exhausted",
                    event |-> e, attempt |-> row[e].attempts + 1]
<1>1. /\ row[e] \in Row /\ row[e].status = "PENDING" /\ row[e].attempts \in 0 .. MaxAttempts
      /\ publisher[p].pc = "idle"
  BY BoundAssumption DEF Claim, Claimable, TypeOK, Row
<1>2. /\ r \in Row /\ r.status = "PENDING" /\ r.attempts = row[e].attempts + 1 /\ r.lockedBy = p
      /\ call \in Call /\ call.pc \in {"domain", "exhausted"} /\ call.event = e
      /\ call.attempt = row[e].attempts + 1 /\ (call.pc = "exhausted" => call.attempt > MaxAttempts)
  <2>1. row[e].attempts + 1 \in 0 .. MaxAttempts + 1
    BY <1>1, BoundAssumption
  <2>2. r \in Row /\ r.status = "PENDING" /\ r.attempts = row[e].attempts + 1 /\ r.lockedBy = p
    BY <1>1, <2>1, Claims
  <2>3. call \in Call
    BY <2>1 DEF Call
  <2>4. call.pc = "exhausted" => call.attempt > MaxAttempts
    BY <1>1, BoundAssumption
  <2> QED  BY <2>2, <2>3, <2>4
<1>3. /\ row' = [row EXCEPT ![e] = r] /\ publisher' = [publisher EXCEPT ![p] = call]
      /\ UNCHANGED <<consumed, effects, logged, audit>>
  <2>1. row' = [row EXCEPT ![e] = r]
    BY DEF Claim, Claimed
  <2>2. publisher' = [publisher EXCEPT ![p] = call]
    BY DEF Claim
  <2> QED  BY <2>1, <2>2 DEF Claim
<1> HIDE DEF r, call
<1>4. /\ \A f \in Events : row'[f] = IF f = e THEN r ELSE row[f]
      /\ \A q \in Publishers : publisher'[q] = IF q = p THEN call ELSE publisher[q]
  BY <1>3 DEF TypeOK
<1>5. TypeOK'
  BY <1>2, <1>3 DEF TypeOK
<1>6. CallsWellFormed'
  BY <1>2, <1>3, <1>4 DEF CallsWellFormed, Busy, EventOf
<1>7. LocksPending' /\ ConsumedHasEffect' /\ PublishedWasDelivered' /\ DeadLettersWereTried'
  BY <1>2, <1>3, <1>4
  DEF LocksPending, ConsumedHasEffect, PublishedWasDelivered, DeadLettersWereTried
<1>8. OwnerCountsFresh'
  BY <1>2, <1>4 DEF OwnerCountsFresh, CallsWellFormed, Busy, EventOf
<1> QED  BY <1>5, <1>6, <1>7, <1>8

-----------------------------------------------------------------------------
\* The initial state satisfies the invariant.
LEMMA InvInit == Init => IInv
<1> SUFFICES ASSUME Init PROVE IInv
  OBVIOUS
<1>1. TypeOK
  BY Records, BoundAssumption DEF Init, TypeOK
<1> QED  BY <1>1 DEF Init, IInv, CallsWellFormed, LocksPending, ConsumedHasEffect, Busy,
                     PublishedWasDelivered, OwnerCountsFresh, DeadLettersWereTried, NoRow, Idle

\* Every step of the outbox preserves the invariant.
LEMMA InvNext == IInv /\ [Next]_vars => IInv'
<1> SUFFICES ASSUME IInv, [Next]_vars PROVE IInv'
  OBVIOUS
<1>1. CASE \E e \in Events : Emit(e) \/ ExpireLease(e) \/ FallDue(e) \/ Requeue(e)
  BY <1>1, EmitStep, TimeStep, RequeueStep
<1>2. CASE \E p \in Publishers : PublisherStep(p) \/ Crash(p) \/ \E e \in Events : Claim(p, e)
  BY <1>2, DomainStep, LogStep, MarkStep, SettleStep, CrashStep, ClaimStep DEF PublisherStep
<1>3. CASE UNCHANGED vars
  BY <1>3 DEF vars, IInv, TypeOK, CallsWellFormed, LocksPending, ConsumedHasEffect, Busy, EventOf,
              PublishedWasDelivered, OwnerCountsFresh, DeadLettersWereTried
<1> QED  BY <1>1, <1>2, <1>3 DEF Next

\* The strengthened invariant holds throughout.
THEOREM Invariance == Spec => []IInv
  BY InvInit, InvNext, PTL DEF Spec

\* Every row and call keeps its type.
THEOREM TypeCorrect == Spec => []TypeOK
<1>1. IInv => TypeOK
  BY DEF IInv
<1> QED  BY <1>1, Invariance, PTL

\* PUBLISHED means consumed, with its effect, and logged.
THEOREM PublishedIsDelivered == Spec => []PublishedWasDelivered
<1>1. IInv => PublishedWasDelivered
  BY DEF IInv
<1> QED  BY <1>1, Invariance, PTL

\* While a publisher owns a row, the row has the attempt the publisher counts by.
THEOREM CountsFresh == Spec => []OwnerCountsFresh
<1>1. IInv => OwnerCountsFresh
  BY DEF IInv
<1> QED  BY <1>1, Invariance, PTL

\* No deliverable event is buried early.
THEOREM BuriedWasTried == Spec => []DeadLettersWereTried
<1>1. IInv => DeadLettersWereTried
  BY DEF IInv
<1> QED  BY <1>1, Invariance, PTL

-----------------------------------------------------------------------------
\* A row written by a step turns the event's abstract status.
LEMMA Turns ==
  ASSUME TypeOK, NEW e \in Events, NEW r \in Row, row' = [row EXCEPT ![e] = r], UNCHANGED effects
  PROVE  Delivery!Turn(e, row[e].status, r.status)
<1>1. [f \in Events |-> row'[f].status]
        = [[f \in Events |-> row[f].status] EXCEPT ![e] = r.status]
  BY DEF TypeOK
<1> QED  BY <1>1 DEF Delivery!Turn

\* Every step of the outbox is a step of EventDelivery, or none.
LEMMA StepImplements ==
  ASSUME IInv, [Next]_vars
  PROVE  \/ Delivery!Next
         \/ UNCHANGED <<[e \in Events |-> row[e].status], effects>>
<1> USE DEF IInv
<1> DEFINE Same == UNCHANGED <<[e \in Events |-> row[e].status], effects>>
<1>1. ASSUME UNCHANGED <<row, effects>> PROVE Same
  BY <1>1
<1>2. ASSUME NEW e \in Events, NEW r \in Row, row' = [row EXCEPT ![e] = r],
             r.status = row[e].status, UNCHANGED effects
      PROVE  Same
  <2>1. [f \in Events |-> row'[f].status] = [f \in Events |-> row[f].status]
    BY <1>2 DEF TypeOK
  <2> QED  BY <1>2, <2>1
<1> HIDE DEF Same
<1>3. ASSUME NEW e \in Events, Emit(e) \/ Requeue(e) PROVE Delivery!Next
  <2>1. row' = [row EXCEPT ![e] = NewRow] /\ UNCHANGED effects /\ NewRow.status = "PENDING"
    BY <1>3 DEF Emit, Requeue, NewRow, NoRow
  <2>2. Delivery!Turn(e, row[e].status, "PENDING")
    BY <2>1, Records, Turns
  <2>3. Delivery!Emit(e) \/ Delivery!Revive(e)
    BY <1>3, <2>2 DEF Emit, Requeue, Delivery!Emit, Delivery!Revive
  <2> QED  BY <2>3 DEF Delivery!Next
<1>4. ASSUME NEW e \in Events, ExpireLease(e) \/ FallDue(e) PROVE Same
  <2>1. row[e] \in Row /\ UNCHANGED effects
    BY <1>4 DEF TypeOK, ExpireLease, FallDue
  <2>2. CASE ExpireLease(e)
    <3> DEFINE r == [row[e] EXCEPT !.leased = FALSE]
    <3>1. r \in Row /\ r.status = row[e].status
      BY <2>1 DEF Row
    <3>2. row' = [row EXCEPT ![e] = r]
      BY <2>2 DEF ExpireLease, TypeOK
    <3> HIDE DEF r
    <3> QED  BY <1>2, <2>1, <3>1, <3>2
  <2>3. CASE FallDue(e)
    <3> DEFINE r == [row[e] EXCEPT !.due = TRUE]
    <3>1. r \in Row /\ r.status = row[e].status
      BY <2>1 DEF Row
    <3>2. row' = [row EXCEPT ![e] = r]
      BY <2>3 DEF FallDue, TypeOK
    <3> HIDE DEF r
    <3> QED  BY <1>2, <2>1, <3>1, <3>2
  <2> QED  BY <1>4, <2>2, <2>3
<1>5. ASSUME NEW p \in Publishers, NEW e \in Events, Claim(p, e) PROVE Same
  <2> DEFINE r == Claimed(row[e], row[e].attempts + 1, p)
  <2>1. row[e] \in Row /\ row[e].attempts \in 0 .. MaxAttempts
    BY <1>5, BoundAssumption DEF Claim, Claimable, TypeOK, Row
  <2>2. r \in Row /\ r.status = row[e].status
    <3>1. row[e].attempts + 1 \in 0 .. MaxAttempts + 1
      BY <2>1, BoundAssumption
    <3> QED  BY <2>1, <3>1, Claims
  <2>3. row' = [row EXCEPT ![e] = r] /\ UNCHANGED effects
    BY <1>5 DEF Claim, Claimed
  <2> HIDE DEF r
  <2> QED  BY <1>2, <2>2, <2>3
<1>6. ASSUME NEW p \in Publishers, LogSink(p) \/ Crash(p) PROVE Same
  BY <1>1, <1>6 DEF LogSink, Crash
<1>7. ASSUME NEW p \in Publishers, DomainSink(p) PROVE Delivery!Next \/ Same
  <2> DEFINE e == EventOf(p)
  <2>1. e \in Events /\ row[e].status \in {"PENDING", "PUBLISHED", "DEAD_LETTER"} /\ UNCHANGED row
    BY <1>7 DEF DomainSink, CallsWellFormed, Busy, TypeOK, Row
  <2>2. CASE Consume(p) /\ e \notin consumed /\ e \in Effective /\ e \notin effects
    <3>1. row[e].status # "PUBLISHED"
      BY <2>1, <2>2 DEF PublishedWasDelivered
    <3>2. UNCHANGED [f \in Events |-> row[f].status]
      BY <2>1
    <3>3. Delivery!Apply(e)
      BY <2>1, <2>2, <3>1, <3>2 DEF Delivery!Apply, Consume
    <3> QED  BY <2>1, <3>3 DEF Delivery!Next
  <2>3. CASE UNCHANGED effects
    BY <1>1, <2>1, <2>3
  <2> QED  BY <1>7, <2>2, <2>3 DEF DomainSink, Consume
<1>8. ASSUME NEW p \in Publishers, Mark(p) PROVE Delivery!Next \/ Same
  <2>0. PICK e \in Events : e = EventOf(p)
    BY <1>8 DEF Mark, CallsWellFormed, Busy
  <2> DEFINE r == Release(row[e], "PUBLISHED", row[e].due)
  <2>1. /\ e \in Supported /\ (e \in Effective => e \in effects)
        /\ row[e] \in Row /\ row[e].due \in BOOLEAN /\ UNCHANGED effects
    BY <1>8, <2>0 DEF Mark, CallsWellFormed, Busy, ConsumedHasEffect, TypeOK, Row
  <2>2. CASE Owns(p) /\ SetRow(p, "PUBLISHED", row[e].due)
    <3>1. r \in Row /\ r.status = "PUBLISHED"
      BY <2>1, Releases
    <3>2. row' = [row EXCEPT ![e] = r] /\ row[e].status = "PENDING"
      BY <2>0, <2>2 DEF SetRow, Owns
    <3> HIDE DEF r
    <3>3. Delivery!Turn(e, "PENDING", "PUBLISHED")
      BY <2>1, <3>1, <3>2, Turns
    <3>4. Delivery!Publish(e)
      BY <2>1, <3>3 DEF Delivery!Publish
    <3> QED  BY <2>1, <3>4 DEF Delivery!Next
  <2>3. CASE UNCHANGED row
    BY <1>1, <2>1, <2>3
  <2> QED  BY <1>8, <2>0, <2>2, <2>3 DEF Mark
<1>9. ASSUME NEW p \in Publishers, Settle(p) PROVE Delivery!Next \/ Same
  <2>0. PICK e \in Events : e = EventOf(p)
    BY <1>9 DEF Settle, CallsWellFormed, Busy
  <2>1. row[e] \in Row /\ row[e].due \in BOOLEAN /\ UNCHANGED effects
    BY <1>9, <2>0 DEF Settle, TypeOK, Row
  <2>2. CASE Owns(p) /\ SetRow(p, "PENDING", FALSE)
    <3> DEFINE r == Release(row[e], "PENDING", FALSE)
    <3>1. r \in Row /\ r.status = "PENDING"
      BY <2>1, Releases
    <3>2. row' = [row EXCEPT ![e] = r] /\ row[e].status = "PENDING"
      BY <2>0, <2>2 DEF SetRow, Owns
    <3> HIDE DEF r
    <3> QED  BY <1>2, <2>1, <3>1, <3>2
  <2>3. CASE Owns(p) /\ SetRow(p, "DEAD_LETTER", row[e].due)
    <3> DEFINE r == Release(row[e], "DEAD_LETTER", row[e].due)
    <3>1. r \in Row /\ r.status = "DEAD_LETTER"
      BY <2>1, Releases
    <3>2. row' = [row EXCEPT ![e] = r] /\ row[e].status = "PENDING"
      BY <2>0, <2>3 DEF SetRow, Owns
    <3> HIDE DEF r
    <3>3. Delivery!Turn(e, "PENDING", "DEAD_LETTER")
      BY <2>1, <3>1, <3>2, Turns
    <3>4. Delivery!Bury(e)
      BY <3>3 DEF Delivery!Bury
    <3> QED  BY <2>1, <3>4 DEF Delivery!Next
  <2>4. CASE UNCHANGED row
    BY <1>1, <2>1, <2>4
  <2> QED  BY <1>9, <2>0, <2>2, <2>3, <2>4 DEF Settle
<1>10. ASSUME UNCHANGED vars PROVE Same
  BY <1>1, <1>10 DEF vars
<1>11. ASSUME \E e \in Events : Emit(e) \/ ExpireLease(e) \/ FallDue(e) \/ Requeue(e)
       PROVE  Delivery!Next \/ Same
  BY <1>3, <1>4, <1>11
<1>12. ASSUME \E p \in Publishers : PublisherStep(p) \/ Crash(p) \/ \E e \in Events : Claim(p, e)
       PROVE  Delivery!Next \/ Same
  BY <1>5, <1>6, <1>7, <1>8, <1>9, <1>12 DEF PublisherStep
<1> QED  BY <1>10, <1>11, <1>12 DEF Next, Same

\* The outbox implements EventDelivery: whatever publishers, crashes, lost
\* leases, database errors and requeues do, every step is one EventDelivery
\* allows, or no step of it.
THEOREM Refinement == Spec => Delivers
<1>1. Init => Delivery!Init
  BY DEF Init, Delivery!Init, NoRow
<1>2. IInv /\ [Next]_vars => [Delivery!Next]_Delivery!vars
  BY StepImplements DEF Delivery!vars
<1> QED  BY <1>1, <1>2, Invariance, PTL DEF Spec, Delivers, Delivery!Spec
-----------------------------------------------------------------------------
\* The row of an event that is added, field by field.
LEMMA AddedRow ==
  NewRow = [status |-> "PENDING", attempts |-> 0, due |-> TRUE, lockedBy |-> NoPublisher, leased |-> FALSE]
<1>1. /\ NewRow.status = "PENDING" /\ NewRow.attempts = 0 /\ NewRow.due = TRUE
      /\ NewRow.lockedBy = NoPublisher /\ NewRow.leased = FALSE
  BY DEF NewRow, NoRow
<1> QED  BY <1>1, Records DEF Row

\* What the operations of the tests' queue make of a row, as the outbox writes it.
LEMMA RowsOfTestQueue ==
  ASSUME NEW r \in Row, r.status = "PENDING"
  PROVE  LET free == [r EXCEPT !.lockedBy = NoPublisher, !.leased = FALSE]
         IN  /\ [free EXCEPT !.due = FALSE] = Release(r, "PENDING", FALSE)
             /\ [free EXCEPT !.status = "PUBLISHED"] = Release(r, "PUBLISHED", r.due)
             /\ [free EXCEPT !.status = "DEAD_LETTER"] = Release(r, "DEAD_LETTER", r.due)
BY DEF Row, Release

\* A publisher that gives up a row it owns calls one of the queue's three operations.
LEMMA GivesUp ==
  ASSUME TypeOK, NEW p \in Publishers, EventOf(p) \in Events, Owns(p),
         \/ SetRow(p, "PENDING", FALSE)
         \/ \E status \in {"PUBLISHED", "DEAD_LETTER"} : SetRow(p, status, row[EventOf(p)].due)
  PROVE  TestQueue!Next
<1> DEFINE e == EventOf(p)
<1>1. row[e] \in Row /\ row[e].status = "PENDING" /\ TestQueue!owned(e, p)
  BY DEF TypeOK, Owns, TestQueue!owned
<1>2. CASE SetRow(p, "PENDING", FALSE)
  <2>1. TestQueue!retry(e, p)
    BY <1>1, <1>2, RowsOfTestQueue DEF SetRow, TestQueue!retry, TestQueue!Set, TestQueue!Unlocked
  <2> QED  BY <2>1 DEF TestQueue!Next
<1>3. CASE SetRow(p, "PUBLISHED", row[e].due)
  <2>1. TestQueue!markPublished(e, p)
    BY <1>1, <1>3, RowsOfTestQueue
    DEF SetRow, TestQueue!markPublished, TestQueue!Set, TestQueue!Unlocked
  <2> QED  BY <2>1 DEF TestQueue!Next
<1>4. CASE SetRow(p, "DEAD_LETTER", row[e].due)
  <2>1. TestQueue!deadLetter(e, p)
    BY <1>1, <1>4, RowsOfTestQueue
    DEF SetRow, TestQueue!deadLetter, TestQueue!Set, TestQueue!Unlocked
  <2> QED  BY <2>1 DEF TestQueue!Next
<1> QED  BY <1>2, <1>3, <1>4

\* Every step of the outbox is an operation of the tests' queue, or leaves it alone.
LEMMA StepOfTestQueue == ASSUME IInv, [Next]_vars PROVE TestQueue!Next \/ UNCHANGED row
<1> USE DEF IInv
<1>1. ASSUME NEW e \in Events, Emit(e) \/ Requeue(e) PROVE TestQueue!Next
  <2>1. row' = [row EXCEPT ![e] = NewRow] /\ row[e].status \in {"ABSENT", "DEAD_LETTER"}
    BY <1>1 DEF Emit, Requeue
  <2>2. TestQueue!add(e)
    BY <2>1, AddedRow DEF TestQueue!add, TestQueue!Set
  <2> QED  BY <2>2 DEF TestQueue!Next
<1>2. ASSUME NEW e \in Events, ExpireLease(e) \/ FallDue(e) PROVE TestQueue!Next
  <2>1. TestQueue!LeaseRunsOut(e) \/ TestQueue!BackOffPasses(e)
    BY <1>2 DEF ExpireLease, FallDue, TestQueue!LeaseRunsOut, TestQueue!BackOffPasses,
                TestQueue!Set, TypeOK
  <2> QED  BY <2>1 DEF TestQueue!Next
<1>3. ASSUME NEW p \in Publishers, NEW e \in Events, Claim(p, e) PROVE TestQueue!Next
  <2>1. TestQueue!claim(e, p)
    BY <1>3 DEF Claim, Claimable, TestQueue!claim, TestQueue!Set
  <2> QED  BY <2>1 DEF TestQueue!Next
<1>4. ASSUME NEW p \in Publishers, DomainSink(p) \/ LogSink(p) \/ Crash(p) PROVE UNCHANGED row
  BY <1>4 DEF DomainSink, LogSink, Crash
<1>5. ASSUME NEW p \in Publishers, Mark(p) \/ Settle(p) PROVE TestQueue!Next \/ UNCHANGED row
  <2>1. EventOf(p) \in Events
    BY <1>5 DEF Mark, Settle, CallsWellFormed, Busy
  <2> QED  BY <1>5, <2>1, GivesUp DEF Mark, Settle
<1>6. CASE \E e \in Events : Emit(e) \/ ExpireLease(e) \/ FallDue(e) \/ Requeue(e)
  BY <1>1, <1>2, <1>6
<1>7. CASE \E p \in Publishers : PublisherStep(p) \/ Crash(p) \/ \E e \in Events : Claim(p, e)
  BY <1>3, <1>4, <1>5, <1>7 DEF PublisherStep
<1>8. CASE UNCHANGED vars
  BY <1>8 DEF vars
<1> QED  BY <1>6, <1>7, <1>8 DEF Next

\* The table with its store calls, for any number of publishers and requeues, is
\* an implementation of the in-memory queue that the publisher's tests run with.
THEOREM ImplementsTestQueue == Spec => ActsAsTestQueue
<1>1. Init => TestQueue!Init
  BY DEF Init, NoRow, TestQueue!Init
<1>2. IInv /\ [Next]_vars => [TestQueue!Next]_row
  BY StepOfTestQueue
<1> QED  BY <1>1, <1>2, Invariance, PTL DEF Spec, ActsAsTestQueue, TestQueue!Spec
=============================================================================
