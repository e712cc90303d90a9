----------------------------- MODULE Products_proofs -----------------------------
(***************************************************************************)
(* The safety of a product from the catalogue to the shipment.  First the  *)
(* fulfilment of any shipments by any workers: rows, calls and Shopify's   *)
(* side keep their types, every sent shipment is queued and nothing is     *)
(* done that Shopify does not have.  Last the composition: every part of   *)
(* the run of MCProducts is a behaviour of each component, so what is      *)
(* proved of the components holds of it.                                   *)
(***************************************************************************)
EXTENDS MCProducts, Candidates_proofs, Catalogue_proofs

(* The fulfilment.                                                          *)

ShipRow == JobRow({"ABSENT", "PENDING", "RUNNING", "SUCCEEDED", "FAILED"}, ShipWorkers, MaxShipAttempts)

\* What a call has found out by the step it is at.
CallsKnow ==
  \A w \in ShipWorkers :
    /\ shipWorker[w].pc # "idle" => shipWorker[w].of \in Shipments
    /\ shipWorker[w].pc \in {"renew", "lookup", "create"} => shipWorker[w].quantity # 0
    /\ shipWorker[w].pc = "done" => made[shipWorker[w].of] # <<>>

ShipInv == FulfilmentTypeOK /\ CallsKnow /\ SentIsQueued /\ DoneIsFulfilled

-----------------------------------------------------------------------------
(* Rows and calls.                                                          *)

LEMMA ShipNewRows == NewRow("ABSENT") \in ShipRow /\ NewRow("PENDING") \in ShipRow
                 /\ NewRow("ABSENT").status = "ABSENT" /\ NewRow("PENDING").status = "PENDING"
BY ShipBounds DEF NewRow, ShipRow, JobRow

LEMMA ShipTakenRow ==
  ASSUME NEW j \in ShipRow, NEW w \in ShipWorkers, j.attempts <= MaxShipAttempts
  PROVE  Taken(j, w) \in ShipRow /\ Taken(j, w).status = "RUNNING"
<1>1. j.attempts + 1 \in 0 .. MaxShipAttempts + 1
  BY ShipBounds DEF ShipRow, JobRow
<1> QED  BY <1>1 DEF Taken, ShipRow, JobRow

LEMMA ShipFreedRow ==
  ASSUME NEW j \in ShipRow, NEW status \in {"PENDING", "SUCCEEDED", "FAILED"}
  PROVE  Freed(j, status) \in ShipRow /\ Freed(j, status).status = status
BY DEF Freed, ShipRow, JobRow

LEMMA ShipLaterRow ==
  ASSUME NEW j \in ShipRow
  PROVE  Later(j, "PENDING") \in ShipRow /\ Later(j, "PENDING").status = "PENDING"
<1> DEFINE f == Freed(j, "PENDING")
<1>1. f \in ShipRow /\ f.status = "PENDING"
  BY ShipFreedRow
<1>2. Later(j, "PENDING") = [f EXCEPT !.due = FALSE]
  BY DEF Later
<1> HIDE DEF f
<1> QED  BY <1>1, <1>2 DEF ShipRow, JobRow

LEMMA ShipGivenBackRow ==
  ASSUME NEW j \in ShipRow
  PROVE  GivenBack(j) \in ShipRow /\ GivenBack(j).status = j.status
<1>1. j.attempts \in 0 .. MaxShipAttempts + 1
  BY DEF ShipRow, JobRow
<1>2. (IF j.attempts = 0 THEN 0 ELSE j.attempts - 1) \in 0 .. MaxShipAttempts + 1
  BY <1>1, ShipBounds
<1> QED  BY <1>2 DEF GivenBack, ShipRow, JobRow

LEMMA ShipRenewedRow ==
  ASSUME NEW j \in ShipRow
  PROVE  Renewed(j) \in ShipRow /\ Renewed(j).status = "PENDING"
<1>1. 0 \in 0 .. MaxShipAttempts + 1
  BY ShipBounds
<1> QED  BY <1>1 DEF Renewed, ShipRow, JobRow

\* What a failed call makes of its row.
LEMMA AfterErrorRow ==
  ASSUME NEW w \in ShipWorkers, shipJob[shipWorker[w].of] \in ShipRow
  PROVE  AfterError(w) \in ShipRow /\ AfterError(w).status \in {"PENDING", "FAILED"}
BY ShipFreedRow, ShipLaterRow, ShipGivenBackRow DEF AfterError

LEMMA ShipNoCall == NoShipCall \in ShipCall /\ NoShipCall.pc = "idle"
BY ShipBounds DEF NoShipCall, ShipCall, Quantities

\* The next step of a call, its failure, and the quantity it has read.
LEMMA ShipCallGoes ==
  ASSUME NEW c \in ShipCall, NEW p \in {"lookup", "create", "done"}
  PROVE  LET d == [c EXCEPT !.pc = p]
         IN  d \in ShipCall /\ d.pc = p /\ d.of = c.of /\ d.quantity = c.quantity
BY DEF ShipCall

LEMMA ShipCallFails ==
  ASSUME NEW c \in ShipCall, NEW e \in {"deferred", "transient", "permanent"}
  PROVE  LET d == [c EXCEPT !.pc = "error", !.error = e]
         IN  d \in ShipCall /\ d.pc = "error" /\ d.of = c.of
BY DEF ShipCall

LEMMA CallReads ==
  ASSUME NEW c \in ShipCall, NEW q \in Quantities
  PROVE  LET d == [c EXCEPT !.pc = "renew", !.quantity = q]
         IN  d \in ShipCall /\ d.pc = "renew" /\ d.of = c.of /\ d.quantity = q
BY DEF ShipCall

\* The type invariant, with its sets named.
LEMMA ShipTyped ==
  FulfilmentTypeOK =>
    /\ shipJob \in [Shipments -> ShipRow] /\ shipWorker \in [ShipWorkers -> ShipCall]
    /\ shipment \in [Shipments -> [status : {"NONE", "shipped", "returned"}, quantity : Quantities]]
    /\ made \in [Shipments -> Seq(Quantities \ {0})] /\ remaining \in Quantities
BY DEF FulfilmentTypeOK, ShipRow

-----------------------------------------------------------------------------
LEMMA ShipInitInv == ShipInit => ShipInv
<1> SUFFICES ASSUME ShipInit PROVE ShipInv
  OBVIOUS
<1>1. FulfilmentTypeOK
  <2>1. shipJob \in [Shipments -> ShipRow] /\ shipWorker \in [ShipWorkers -> ShipCall]
    BY ShipNewRows, ShipNoCall DEF ShipInit
  <2>2. made \in [Shipments -> Seq(Quantities \ {0})] /\ remaining \in Quantities
    BY ShipBounds DEF ShipInit, Quantities
  <2>3. shipment \in [Shipments -> [status : {"NONE", "shipped", "returned"}, quantity : Quantities]]
    BY ShipBounds DEF ShipInit, Quantities
  <2> QED  BY <2>1, <2>2, <2>3 DEF ShipInit, FulfilmentTypeOK, ShipRow, CaseStatus
<1>2. CallsKnow
  BY ShipNoCall DEF ShipInit, CallsKnow
<1>3. SentIsQueued /\ DoneIsFulfilled
  BY ShipNewRows DEF ShipInit, SentIsQueued, DoneIsFulfilled
<1> QED  BY <1>1, <1>2, <1>3 DEF ShipInv

-----------------------------------------------------------------------------
(* The webhooks and the operators: no call of a worker is touched.          *)

LEMMA ReceiveStep ==
  ASSUME ShipInv, NEW p \in Payload, ReceiveSent(p) \/ ReceiveReturned(p)
  PROVE  ShipInv'
<1> USE DEF ShipInv
<1>1. UNCHANGED <<requeued, made, remaining, shipWorker, caseActions>> /\ SaveShipment(p)
  BY DEF ReceiveSent, ReceiveReturned, shopify, returnFrame
<1>2. p.of \in Shipments /\ p.quantity \in Quantities /\ p.type \in {"sent", "returned"}
  BY DEF Payload
<1>3. received' = received \cup {p}
  BY <1>1 DEF SaveShipment
<1>4. shipment' \in [Shipments -> [status : {"NONE", "shipped", "returned"}, quantity : Quantities]]
  BY <1>1, <1>2, ShipTyped DEF SaveShipment
<1>5. CallsKnow'
  BY <1>1 DEF CallsKnow
<1>6. CASE ReceiveSent(p)
  <2>1. PICK row \in ShipRow : /\ shipJob' = [shipJob EXCEPT ![p.of] = row]
                               /\ row.status # "ABSENT"
                               /\ row.status # "SUCCEEDED" \/ row = shipJob[p.of]
    BY <1>2, <1>6, ShipNewRows, ShipTyped DEF ReceiveSent
  <2>2. /\ shipJob' \in [Shipments -> ShipRow] /\ shipJob'[p.of] = row
        /\ \A s \in Shipments : s # p.of => shipJob'[s] = shipJob[s]
    BY <1>2, <2>1, ShipTyped
  <2>3. UNCHANGED <<orderStatus, returnCase>> /\ p.type = "sent"
    BY <1>6 DEF ReceiveSent, returnFrame
  <2>4. FulfilmentTypeOK'
    BY <1>1, <1>3, <1>4, <2>2, <2>3 DEF FulfilmentTypeOK, ShipRow
  <2>5. SentIsQueued'
    BY <1>3, <2>1, <2>2, <2>3 DEF SentIsQueued
  <2>6. DoneIsFulfilled'
    BY <1>1, <2>1, <2>2, <2>3 DEF DoneIsFulfilled
  <2> QED  BY <1>5, <2>4, <2>5, <2>6
<1>7. CASE ReceiveReturned(p)
  <2>1. /\ orderStatus' = "RETURNED" /\ returnCase' = (IF returnCase = "NONE" THEN "OPEN" ELSE returnCase)
        /\ shipJob' = shipJob /\ p.type = "returned"
    BY <1>7 DEF ReceiveReturned
  <2>2. FulfilmentTypeOK'
    BY <1>1, <1>3, <1>4, <2>1 DEF FulfilmentTypeOK, CaseStatus
  <2>3. SentIsQueued'
    BY <1>3, <2>1 DEF SentIsQueued
  <2>4. DoneIsFulfilled'
    BY <1>1, <2>1 DEF DoneIsFulfilled
  <2> QED  BY <1>5, <2>2, <2>3, <2>4
<1> QED  BY <1>6, <1>7

LEMMA ActOnCaseStep ==
  ASSUME ShipInv, NEW k \in ActionKeys, NEW a \in DOMAIN AfterAction, ActOnCase(k, a)
  PROVE  ShipInv'
<1> USE DEF ShipInv
<1>1. UNCHANGED <<received, shipment, shipJob, requeued, made, remaining, shipWorker>>
  BY DEF ActOnCase, shopify
<1>2. /\ AfterAction[a] \in {"REFUND_REQUIRED", "RESHIPMENT_REVIEW", "RESOLVED"}
      /\ a = "RESOLVE" => AfterAction[a] = "RESOLVED"
  BY DEF AfterAction
<1>3. /\ returnCase \notin {"NONE", "RESOLVED"} /\ returnCase' = AfterAction[a]
      /\ caseActions' = [caseActions EXCEPT ![k] = AfterAction[a]]
      /\ orderStatus' = IF a = "RESOLVE" /\ orderStatus = "RETURNED" THEN "RETURN_RESOLVED" ELSE orderStatus
  BY DEF ActOnCase
<1>4. FulfilmentTypeOK'
  BY <1>1, <1>2, <1>3 DEF FulfilmentTypeOK, CaseStatus
<1>5. CallsKnow' /\ SentIsQueued'
  BY <1>1 DEF CallsKnow, SentIsQueued
<1>6. DoneIsFulfilled'
  BY <1>1, <1>2, <1>3 DEF DoneIsFulfilled
<1> QED  BY <1>4, <1>5, <1>6

-----------------------------------------------------------------------------
(* Steps on one row, of a worker, an operator or the clock.                 *)

\* A job that stays queued, running or ended, and done only with a fulfillment.
LEMMA ShipRowStep ==
  ASSUME ShipInv, NEW s \in Shipments, NEW row \in ShipRow,
         shipJob' = [shipJob EXCEPT ![s] = row], shipJob[s].status # "ABSENT",
         row.status # "ABSENT", row.status = "SUCCEEDED" => made[s] # <<>>,
         shipWorker' \in [ShipWorkers -> ShipCall], CallsKnow',
         requeued' \subseteq ActionKeys, UNCHANGED <<received, shipment, made, remaining, returnFrame>>
  PROVE  ShipInv'
<1> USE DEF ShipInv
<1>1. /\ shipJob' \in [Shipments -> ShipRow] /\ shipJob'[s] = row
      /\ \A t \in Shipments : t # s => shipJob'[t] = shipJob[t]
  BY ShipTyped
<1>2. UNCHANGED <<orderStatus, returnCase, caseActions>>
  BY DEF returnFrame
<1>3. FulfilmentTypeOK'
  BY <1>1, <1>2 DEF FulfilmentTypeOK, ShipRow
<1>4. SentIsQueued'
  BY <1>1 DEF SentIsQueued
<1>5. DoneIsFulfilled'
  BY <1>1, <1>2 DEF DoneIsFulfilled
<1> QED  BY <1>3, <1>4, <1>5

LEMMA ShipRequeueStep ==
  ASSUME ShipInv, NEW k \in ActionKeys, NEW s \in Shipments, RequeueFulfilment(k, s)
  PROVE  ShipInv'
<1> USE DEF ShipInv
<1>1. CallsKnow'
  BY DEF RequeueFulfilment, CallsKnow, shopify
<1>2. Renewed(shipJob[s]) \in ShipRow /\ Renewed(shipJob[s]).status = "PENDING"
  BY ShipTyped, ShipRenewedRow
<1>3. /\ shipJob' = [shipJob EXCEPT ![s] = Renewed(shipJob[s])] /\ shipJob[s].status = "FAILED"
      /\ requeued' = requeued \cup {k}
      /\ UNCHANGED <<received, shipment, made, remaining, shipWorker, returnFrame>>
  BY DEF RequeueFulfilment, shopify
<1>4. requeued' \subseteq ActionKeys /\ shipWorker' \in [ShipWorkers -> ShipCall]
  BY <1>3, ShipTyped DEF FulfilmentTypeOK
<1> QED  BY <1>1, <1>2, <1>3, <1>4, ShipRowStep

\* A lease lapses or a back-off passes; the clock may also touch an absent row.
LEMMA ShipClockStep ==
  ASSUME ShipInv, NEW s \in Shipments, ShipLeaseExpires(s) \/ ShipFallsDue(s)
  PROVE  ShipInv'
<1> USE DEF ShipInv
<1>1. UNCHANGED <<received, shipment, requeued, made, remaining, shipWorker, orderStatus, returnCase, caseActions>>
  BY DEF ShipLeaseExpires, ShipFallsDue, shopify, shipFrame, returnFrame
<1>2. PICK row \in ShipRow : shipJob' = [shipJob EXCEPT ![s] = row] /\ row.status = shipJob[s].status
  <2>1. CASE ShipLeaseExpires(s)
    <3> DEFINE row == [shipJob[s] EXCEPT !.leased = FALSE]
    <3>1. row \in ShipRow /\ row.status = shipJob[s].status
      BY ShipTyped DEF ShipRow, JobRow
    <3>2. shipJob' = [shipJob EXCEPT ![s] = row]
      BY <2>1 DEF ShipLeaseExpires
    <3> QED  BY <3>1, <3>2
  <2>2. CASE ShipFallsDue(s)
    <3> DEFINE row == [shipJob[s] EXCEPT !.due = TRUE]
    <3>1. row \in ShipRow /\ row.status = shipJob[s].status
      BY ShipTyped DEF ShipRow, JobRow
    <3>2. shipJob' = [shipJob EXCEPT ![s] = row]
      BY <2>2 DEF ShipFallsDue
    <3> QED  BY <3>1, <3>2
  <2> QED  BY <2>1, <2>2
<1>3. shipJob' \in [Shipments -> ShipRow] /\ \A t \in Shipments : shipJob'[t].status = shipJob[t].status
  BY <1>2, ShipTyped
<1>4. FulfilmentTypeOK'
  BY <1>1, <1>3 DEF FulfilmentTypeOK, ShipRow
<1>5. CallsKnow'
  BY <1>1 DEF CallsKnow
<1>6. SentIsQueued' /\ DoneIsFulfilled'
  BY <1>1, <1>3 DEF SentIsQueued, DoneIsFulfilled
<1> QED  BY <1>4, <1>5, <1>6

\* A call moves on: what its new step presupposes is known.
LEMMA ShipCallStep ==
  ASSUME ShipInv, NEW w \in ShipWorkers, NEW c \in ShipCall, shipWorker' = [shipWorker EXCEPT ![w] = c],
         c.pc # "idle" => c.of \in Shipments,
         c.pc \in {"renew", "lookup", "create"} => c.quantity # 0,
         c.pc = "done" => made'[c.of] # <<>>,
         \A s \in Shipments : made[s] # <<>> => made'[s] # <<>>
  PROVE  shipWorker' \in [ShipWorkers -> ShipCall] /\ CallsKnow'
<1>1. /\ shipWorker' \in [ShipWorkers -> ShipCall] /\ shipWorker'[w] = c
      /\ \A v \in ShipWorkers : v # w => shipWorker'[v] = shipWorker[v]
  BY ShipTyped DEF ShipInv
<1> QED  BY <1>1 DEF ShipInv, CallsKnow

\* A step that moves one call and leaves the rows alone.
LEMMA ShipOnlyCallStep ==
  ASSUME ShipInv, shipWorker' \in [ShipWorkers -> ShipCall], CallsKnow', UNCHANGED <<shipJob, shopify, shipFrame>>
  PROVE  ShipInv'
<1>1. UNCHANGED <<received, shipment, shipJob, requeued, made, remaining, orderStatus, returnCase, caseActions>>
  BY DEF shopify, shipFrame, returnFrame
<1>2. FulfilmentTypeOK'
  BY <1>1 DEF ShipInv, FulfilmentTypeOK
<1>3. SentIsQueued' /\ DoneIsFulfilled'
  BY <1>1 DEF ShipInv, SentIsQueued, DoneIsFulfilled
<1> QED  BY <1>2, <1>3 DEF ShipInv

-----------------------------------------------------------------------------
(* The workers.                                                             *)

\* A call ends without having touched a row.
LEMMA ShipRestsStep ==
  ASSUME ShipInv, NEW w \in ShipWorkers, ShipRests(w), UNCHANGED <<shipJob, shopify, shipFrame>>
  PROVE  ShipInv'
<1>1. shipWorker' = [shipWorker EXCEPT ![w] = NoShipCall] /\ made' = made
  BY DEF ShipRests, shopify
<1>2. shipWorker' \in [ShipWorkers -> ShipCall] /\ CallsKnow'
  BY <1>1, ShipNoCall, ShipCallStep
<1> QED  BY <1>2, ShipOnlyCallStep

\* A call goes to its next step, or to its error, without having touched a row.
LEMMA GoesStep ==
  ASSUME ShipInv, NEW w \in ShipWorkers, NEW p \in {"lookup", "create", "done", "error"},
         \/ p = "error" /\ \E e \in {"deferred", "transient", "permanent"} : ShipFails(w, e)
         \/ p # "error" /\ ShipGoes(w, p),
         shipWorker[w].pc # "idle",
         p \in {"lookup", "create"} => shipWorker[w].pc \in {"renew", "lookup", "create"},
         p = "done" => made'[shipWorker[w].of] # <<>>,
         \A s \in Shipments : made[s] # <<>> => made'[s] # <<>>
  PROVE  shipWorker' \in [ShipWorkers -> ShipCall] /\ CallsKnow'
<1> DEFINE c == shipWorker[w]
<1>1. c \in ShipCall /\ c.of \in Shipments /\ (c.pc \in {"renew", "lookup", "create"} => c.quantity # 0)
  BY ShipTyped DEF ShipInv, CallsKnow
<1>2. PICK d \in ShipCall : /\ shipWorker' = [shipWorker EXCEPT ![w] = d] /\ d.pc = p /\ d.of = c.of
                            /\ p # "error" => d.quantity = c.quantity
  <2>1. CASE p = "error" /\ \E e \in {"deferred", "transient", "permanent"} : ShipFails(w, e)
    <3>1. PICK e \in {"deferred", "transient", "permanent"} : ShipFails(w, e)
      BY <2>1
    <3>2. shipWorker' = [shipWorker EXCEPT ![w] = [c EXCEPT !.pc = "error", !.error = e]]
      BY <3>1, ShipTyped DEF ShipFails, ShipInv
    <3> DEFINE d == [c EXCEPT !.pc = "error", !.error = e]
    <3>3. d \in ShipCall /\ d.pc = "error" /\ d.of = c.of
      <4> HIDE DEF c
      <4> QED  BY <1>1, ShipCallFails
    <3>4. shipWorker' = [shipWorker EXCEPT ![w] = d]
      BY <3>2
    <3> HIDE DEF d
    <3> QED  BY <2>1, <3>3, <3>4
  <2>2. CASE p # "error" /\ ShipGoes(w, p)
    <3>1. shipWorker' = [shipWorker EXCEPT ![w] = [c EXCEPT !.pc = p]]
      BY <2>2, ShipTyped DEF ShipGoes, ShipInv
    <3> DEFINE d == [c EXCEPT !.pc = p]
    <3>2. d \in ShipCall /\ d.pc = p /\ d.of = c.of /\ d.quantity = c.quantity
      <4>1. p \in {"lookup", "create", "done"}
        BY <2>2
      <4> HIDE DEF c
      <4> QED  BY <1>1, <4>1, ShipCallGoes
    <3>3. shipWorker' = [shipWorker EXCEPT ![w] = d]
      BY <3>1
    <3> HIDE DEF d
    <3> QED  BY <3>2, <3>3
  <2> QED  BY <2>1, <2>2
<1> QED  BY <1>1, <1>2, ShipCallStep

LEMMA ShipClaimStep ==
  ASSUME ShipInv, NEW w \in ShipWorkers, NEW s \in Shipments, ClaimShip(w, s)
  PROVE  ShipInv'
<1>1. /\ shipJob' = [shipJob EXCEPT ![s] = Taken(shipJob[s], w)] /\ ShipClaimable(shipJob[s])
      /\ UNCHANGED <<received, shipment, requeued, made, remaining, returnFrame>>
  BY DEF ClaimShip, shopify, shipFrame
<1>2. shipJob[s] \in ShipRow /\ shipJob[s].attempts \in Nat /\ shipJob[s].attempts <= MaxShipAttempts
  BY <1>1, ShipTyped, ShipBounds DEF ShipInv, ShipClaimable, ShipRow, JobRow
<1>3. Taken(shipJob[s], w) \in ShipRow /\ Taken(shipJob[s], w).status = "RUNNING"
  BY <1>2, ShipTakenRow
<1> DEFINE c == [NoShipCall EXCEPT !.pc = "context", !.of = s, !.attempt = shipJob[s].attempts + 1]
<1>4. c \in ShipCall /\ c.pc = "context" /\ c.of = s
  <2>1. shipJob[s].attempts + 1 \in 0 .. MaxShipAttempts + 1
    BY <1>2, ShipBounds
  <2> QED  BY <2>1, ShipNoCall DEF ShipCall
<1>5. shipWorker' = [shipWorker EXCEPT ![w] = c]
  BY DEF ClaimShip
<1> HIDE DEF c
<1>6. shipWorker' \in [ShipWorkers -> ShipCall] /\ CallsKnow'
  BY <1>1, <1>4, <1>5, ShipCallStep
<1>7. shipJob[s].status # "ABSENT"
  BY <1>1 DEF ShipClaimable
<1>8. requeued' \subseteq ActionKeys
  BY <1>1 DEF ShipInv, FulfilmentTypeOK
<1> QED  BY <1>1, <1>3, <1>6, <1>7, <1>8, ShipRowStep

\* The shipment's quantity is read; one without an order line is refused.
LEMMA ShipReadStep == ASSUME ShipInv, NEW w \in ShipWorkers, ReadShipment(w) PROVE ShipInv'
<1> DEFINE c == shipWorker[w]  q == shipment[c.of].quantity
<1>1. c \in ShipCall /\ c.of \in Shipments /\ q \in Quantities
  BY ShipTyped DEF ShipInv, CallsKnow, ReadShipment
<1>2. UNCHANGED <<shipJob, shopify, shipFrame>> /\ made' = made /\ c.pc = "context"
  BY DEF ReadShipment, shopify
<1>3. CASE \E e \in {"permanent", "transient"} : ShipFails(w, e)
  BY <1>2, <1>3, GoesStep, ShipOnlyCallStep
<1>4. CASE q > 0 /\ shipWorker' = [shipWorker EXCEPT ![w].pc = "renew", ![w].quantity = q]
  <2>1. shipWorker' = [shipWorker EXCEPT ![w] = [c EXCEPT !.pc = "renew", !.quantity = q]]
    BY <1>4, ShipTyped DEF ShipInv
  <2> DEFINE d == [c EXCEPT !.pc = "renew", !.quantity = q]
  <2>2. d \in ShipCall /\ d.pc = "renew" /\ d.of = c.of /\ d.quantity = q
    <3> HIDE DEF c, q
    <3> QED  BY <1>1, CallReads
  <2>3. shipWorker' = [shipWorker EXCEPT ![w] = d]
    BY <2>1
  <2>4. q \in Quantities \ {0}
    BY <1>1, <1>4, ShipBounds DEF Quantities
  <2> HIDE DEF d, q
  <2> QED  BY <1>1, <1>2, <2>2, <2>3, <2>4, ShipCallStep, ShipOnlyCallStep
<1> QED  BY <1>3, <1>4 DEF ReadShipment

LEMMA RenewStep == ASSUME ShipInv, NEW w \in ShipWorkers, RenewShip(w) PROVE ShipInv'
<1>1. UNCHANGED <<shipJob, shopify, shipFrame>> /\ made' = made /\ shipWorker[w].pc = "renew"
  BY DEF RenewShip, shopify
<1>2. CASE ShipGoes(w, "lookup")
  BY <1>1, <1>2, GoesStep, ShipOnlyCallStep
<1>3. CASE ShipRests(w)
  BY <1>1, <1>3, ShipRestsStep
<1>4. CASE ShipFails(w, "transient")
  BY <1>1, <1>4, GoesStep, ShipOnlyCallStep
<1> QED  BY <1>2, <1>3, <1>4 DEF RenewShip

\* What is found at Shopify is the shipment's own.
LEMMA LookUpStep == ASSUME ShipInv, NEW w \in ShipWorkers, LookUp(w) PROVE ShipInv'
<1>1. UNCHANGED <<shipJob, shopify, shipFrame>> /\ made' = made /\ shipWorker[w].pc = "lookup"
  BY DEF LookUp, shopify
<1>2. CASE ShipGoes(w, "done") /\ made[shipWorker[w].of] # <<>>
  BY <1>1, <1>2, GoesStep, ShipOnlyCallStep
<1>3. CASE ShipGoes(w, "create")
  BY <1>1, <1>3, GoesStep, ShipOnlyCallStep
<1>4. CASE \E e \in {"deferred", "transient", "permanent"} : ShipFails(w, e)
  BY <1>1, <1>4, GoesStep, ShipOnlyCallStep
<1>5. \A s \in Shipments : \A q \in {made[s][i] : i \in DOMAIN made[s]} : made[s] # <<>>
  BY DOMAIN <<>> = {}
<1>6. shipWorker[w].of \in Shipments
  BY <1>1 DEF ShipInv, CallsKnow
<1> QED  BY <1>2, <1>3, <1>4, <1>5, <1>6 DEF LookUp

\* Shopify makes the fulfillment, whether or not its answer arrives.
LEMMA CreateStep == ASSUME ShipInv, NEW w \in ShipWorkers, CreateFulfilment(w) PROVE ShipInv'
<1> DEFINE s == shipWorker[w].of  q == shipWorker[w].quantity
<1>1. /\ UNCHANGED <<shipJob, shipFrame>> /\ shipWorker[w].pc = "create"
      /\ s \in Shipments /\ q \in Quantities \ {0}
  BY ShipTyped DEF CreateFulfilment, ShipInv, CallsKnow, ShipCall
<1>2. CASE UNCHANGED shopify /\ \E e \in {"deferred", "transient", "permanent"} : ShipFails(w, e)
  <2>1. made' = made
    BY <1>2 DEF shopify
  <2> QED  BY <1>1, <1>2, <2>1, GoesStep, ShipOnlyCallStep
<1>3. CASE /\ q <= remaining /\ made' = [made EXCEPT ![s] = Append(@, q)] /\ remaining' = remaining - q
           /\ ShipGoes(w, "done") \/ ShipFails(w, "transient")
  <2>1. made \in [Shipments -> Seq(Quantities \ {0})] /\ remaining \in Quantities
    BY ShipTyped DEF ShipInv
  <2> HIDE DEF s, q
  <2>2. Append(made[s], q) \in Seq(Quantities \ {0}) /\ Append(made[s], q) # <<>>
    BY <1>1, <2>1
  <2>3. made' \in [Shipments -> Seq(Quantities \ {0})] /\ remaining' \in Quantities
    BY <1>1, <1>3, <2>1, <2>2, ShipBounds DEF Quantities
  <2>4. made'[s] # <<>> /\ \A t \in Shipments : made[t] # <<>> => made'[t] # <<>>
    BY <1>1, <1>3, <2>1, <2>2
  <2>5. shipWorker' \in [ShipWorkers -> ShipCall] /\ CallsKnow'
    BY <1>1, <1>3, <2>4, GoesStep DEF s
  <2>6. UNCHANGED <<received, shipment, shipJob, requeued, orderStatus, returnCase, caseActions>>
    BY <1>1 DEF shipFrame, returnFrame
  <2>7. FulfilmentTypeOK'
    BY <2>3, <2>5, <2>6 DEF ShipInv, FulfilmentTypeOK
  <2>8. SentIsQueued' /\ DoneIsFulfilled'
    BY <2>4, <2>6 DEF ShipInv, SentIsQueued, DoneIsFulfilled
  <2> QED  BY <2>5, <2>7, <2>8 DEF ShipInv
<1> QED  BY <1>2, <1>3 DEF CreateFulfilment

\* A worker ends a job it owns: done, failed or for later.
LEMMA EndsStep ==
  ASSUME ShipInv, NEW w \in ShipWorkers, ShipSucceeds(w) \/ HandleShipError(w)
  PROVE  ShipInv'
<1> DEFINE s == shipWorker[w].of
<1>1. s \in Shipments /\ shipJob[s] \in ShipRow /\ UNCHANGED <<shopify, shipFrame>> /\ made' = made
  BY ShipTyped DEF ShipInv, CallsKnow, ShipSucceeds, HandleShipError, shopify
<1>2. CASE ShipRests(w) /\ UNCHANGED shipJob
  BY <1>1, <1>2, ShipRestsStep
<1>3. CASE ShipSucceeds(w) /\ ShipFails(w, "transient") /\ UNCHANGED shipJob
  <2>1. shipWorker[w].pc = "done"
    BY <1>3 DEF ShipSucceeds
  <2> QED  BY <1>1, <1>3, <2>1, GoesStep, ShipOnlyCallStep
<1>4. CASE /\ OwnsShip(w) /\ ShipRests(w)
           /\ \E row \in ShipRow : /\ shipJob' = [shipJob EXCEPT ![s] = row] /\ row.status # "ABSENT"
                                   /\ row.status = "SUCCEEDED" => made[s] # <<>>
  <2>1. shipWorker' = [shipWorker EXCEPT ![w] = NoShipCall]
    BY <1>4 DEF ShipRests
  <2>2. shipWorker' \in [ShipWorkers -> ShipCall] /\ CallsKnow'
    BY <1>1, <2>1, ShipNoCall, ShipCallStep
  <2>3. shipJob[s].status # "ABSENT"
    BY <1>4 DEF OwnsShip, Holds
  <2>4. requeued' \subseteq ActionKeys /\ UNCHANGED <<received, shipment, made, remaining, returnFrame>>
    BY <1>1 DEF shopify, shipFrame, ShipInv, FulfilmentTypeOK
  <2> HIDE DEF s
  <2> QED  BY <1>1, <1>4, <2>2, <2>3, <2>4, ShipRowStep
<1>5. CASE ShipSucceeds(w)
  <2>1. made[s] # <<>>
    BY <1>5 DEF ShipInv, CallsKnow, ShipSucceeds
  <2>2. Freed(shipJob[s], "SUCCEEDED") \in ShipRow /\ Freed(shipJob[s], "SUCCEEDED").status = "SUCCEEDED"
    BY <1>1, ShipFreedRow
  <2> QED  BY <1>2, <1>3, <1>4, <1>5, <2>1, <2>2 DEF ShipSucceeds
<1>6. CASE HandleShipError(w)
  <2>1. AfterError(w) \in ShipRow /\ AfterError(w).status \in {"PENDING", "FAILED"}
    BY <1>1, AfterErrorRow
  <2> QED  BY <1>2, <1>4, <1>6, <2>1 DEF HandleShipError
<1> QED  BY <1>5, <1>6

LEMMA ShipNextInv == ShipInv /\ [ShipNext]_shipVars => ShipInv'
<1> SUFFICES ASSUME ShipInv, [ShipNext]_shipVars PROVE ShipInv'
  OBVIOUS
<1>1. CASE \E p \in Payload : ReceiveSent(p) \/ ReceiveReturned(p)
  BY <1>1, ReceiveStep
<1>2. CASE \E k \in ActionKeys, a \in DOMAIN AfterAction : ActOnCase(k, a)
  BY <1>2, ActOnCaseStep
<1>3. CASE \E k \in ActionKeys, s \in Shipments : RequeueFulfilment(k, s)
  BY <1>3, ShipRequeueStep
<1>4. CASE \E w \in ShipWorkers : ShipWorkerStep(w)
  BY <1>4, ShipReadStep, RenewStep, LookUpStep, CreateStep, EndsStep DEF ShipWorkerStep
<1>5. CASE \E w \in ShipWorkers : ShipWorkerDies(w)
  BY <1>5, ShipRestsStep DEF ShipWorkerDies
<1>6. CASE \E w \in ShipWorkers, s \in Shipments : ClaimShip(w, s)
  BY <1>6, ShipClaimStep
<1>7. CASE \E s \in Shipments : ShipLeaseExpires(s) \/ ShipFallsDue(s)
  BY <1>7, ShipClockStep
<1>8. CASE UNCHANGED shipVars
  <2>1. UNCHANGED <<shipJob, shopify, shipFrame, shipWorker>>
    BY <1>8 DEF shipVars, shipFrame
  <2>2. shipWorker' \in [ShipWorkers -> ShipCall] /\ CallsKnow'
    BY <2>1, ShipTyped DEF ShipInv, CallsKnow, shopify
  <2> QED  BY <2>1, <2>2, ShipOnlyCallStep
<1> QED  BY <1>1, <1>2, <1>3, <1>4, <1>5, <1>6, <1>7, <1>8 DEF ShipNext

\* The invariant holds whatever Printful, Shopify, the workers and the operators do.
LEMMA ShipInvHolds == ShipSpec => []ShipInv
BY ShipInitInv, ShipNextInv, PTL DEF ShipSpec

-----------------------------------------------------------------------------
\* The tables, the calls and Shopify's side keep their types; what is left of the
\* line never falls below zero, whoever fulfils it.
THEOREM FulfilmentTypes == ShipSpec => []FulfilmentTypeOK
<1>1. ShipInv => FulfilmentTypeOK
  BY DEF ShipInv
<1> QED  BY <1>1, ShipInvHolds, PTL

\* A shipment has a job exactly when Printful said it was sent.
THEOREM SentShipmentsQueued == ShipSpec => []SentIsQueued
<1>1. ShipInv => SentIsQueued
  BY DEF ShipInv
<1> QED  BY <1>1, ShipInvHolds, PTL

\* Nothing is done that Shopify does not have; order and return case agree.
THEOREM DoneShipmentsFulfilled == ShipSpec => []DoneIsFulfilled
<1>1. ShipInv => DoneIsFulfilled
  BY DEF ShipInv
<1> QED  BY <1>1, ShipInvHolds, PTL

-----------------------------------------------------------------------------
(* The composition.                                                         *)

LEMMA SnapshotParts == SnapshotPart => SnapshotNext
BY ProductParts DEF SnapshotPart, SnapshotNext, Replies, Listings

LEMMA CandidateParts == CandidatePart => CandidateNext
BY ProductParts DEF CandidatePart, CandidateNext

LEMMA CatalogueParts ==
  ContentStep \/ EditorStep \/ DesignPart \/ MockupPart \/ PublicationPart => CatalogueNext
<1>1. FirstContent => CatalogueNext
  BY ProductParts DEF FirstContent, CatalogueNext, ContentStep
<1>2. /\ RendererStep(r1) \/ RendererStep(r2) \/ RendererCrash(r1) => CatalogueNext
      /\ \A w \in Renderers, n \in Contents :
           ClaimMockup(w, n) \/ MockupLeaseExpires(n) \/ MockupFallsDue(n) => CatalogueNext
  BY ProductParts DEF CatalogueNext, MockupStep
<1>3. FirstMockup => CatalogueNext
  BY <1>2, ProductParts DEF FirstMockup, RendererStep
<1>4. \A n \in Contents : Approval(e1, n) \/ ReviseContent(n) => CatalogueNext
  BY ProductParts DEF Approval, CatalogueNext, EditorStep
<1>5. \A e \in Editors : \A gate \in {"PASSED", "GUIDELINE_MISSING"} : NewDesign(e, gate) => CatalogueNext
  BY DEF NewDesign, CatalogueNext, DesignStep
<1>6. RequeueMockup \/ OverrideResolution => CatalogueNext
  BY DEF CatalogueNext, DesignStep
<1>7. DesignPart => CatalogueNext
  BY <1>1, <1>2, <1>4, <1>5, <1>6, ProductParts DEF DesignPart
<1>8. MockupPart => CatalogueNext
  BY <1>1, <1>2, <1>4, <1>5, <1>6, ProductParts DEF MockupPart
<1>9. PublicationPart => CatalogueNext
  BY <1>1, <1>3, <1>4, <1>5, ProductParts DEF PublicationPart, CatalogueNext
<1> QED  BY <1>7, <1>8, <1>9 DEF CatalogueNext

LEMMA ShipParts == ShipPart \/ ReturnPart => ShipNext
<1>1. Sent(a2, 1) \in Payload /\ \A q \in Quantities : Sent(a1, q) \in Payload
  BY ProductParts, ShipBounds DEF Sent, Payload, Quantities
<1>2. ShipPart => ShipNext
  BY <1>1, ProductParts DEF ShipPart, ShipNext
<1>3. ReturnPart => ShipNext
  BY DEF ReturnPart, ShipNext
<1> QED  BY <1>2, <1>3

\* A step of a part is a step of its component, and the other components wait.
LEMMA PartsAreSteps ==
  ASSUME [MCNext]_mcVars
  PROVE  /\ [CatalogueNext]_catalogueVars /\ [CandidateNext]_candidateVars
         /\ [ShipNext]_shipVars /\ [SnapshotNext]_snapshotVars
<1>1. CASE UNCHANGED mcVars
  BY <1>1 DEF mcVars
<1>2. CASE MCNext
  BY <1>2, SnapshotParts, CandidateParts, CatalogueParts, ShipParts DEF MCNext
<1> QED  BY <1>1, <1>2

\* The run of the products runs each of its components: what holds of every
\* behaviour of a component holds of the component in the run.
THEOREM ProductsRunComponents == MCSpec => CatalogueSpec /\ CandidateSpec /\ ShipSpec /\ SnapshotSpec
<1>1. MCInit => CatalogueInit /\ CandidateInit /\ ShipInit /\ SnapshotInit
  BY DEF MCInit
<1> QED  BY <1>1, PartsAreSteps, PTL DEF MCSpec, CatalogueSpec, CandidateSpec, ShipSpec, SnapshotSpec

\* Every variable of the four components keeps its type.
THEOREM ProductsKeepTypes == MCSpec => []ProductTypes
<1>1. CatalogueTypeOK /\ CandidateTypeOK /\ FulfilmentTypeOK /\ SnapshotTypeOK => ProductTypes
  BY DEF ProductTypes
<1> QED  BY <1>1, ProductsRunComponents, CatalogueTypes, CandidateTypes, FulfilmentTypes, SnapshotTypes, PTL
=============================================================================
