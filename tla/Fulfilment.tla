------------------------------ MODULE Fulfilment ------------------------------
(***************************************************************************)
(* The shipments of one submitted order: Printful's webhooks, which may    *)
(* come twice and out of order (src/fulfillment/printful-handler.ts), the  *)
(* workers that turn each shipment into a Shopify fulfillment              *)
(* (shopify-job-store.ts, worker.ts, shopify-publisher.ts), the operator's *)
(* requeue (src/orders/exception-service.ts) and the return case           *)
(* (src/orders/return-case-service.ts).  The order has one line.           *)
(***************************************************************************)
EXTENDS JobQueue, FiniteSets, Sequences

CONSTANTS
  Shipments,
  Tracked,           \* those with a tracking number, each its own
  Ordered,           \* quantity of the line
  MaxReceipts,       \* bound: webhooks accepted
  MaxShipAttempts,   \* the attempt limit
  ShipWorkers,
  ActionKeys         \* idempotency keys of the operators' requests

Quantities == 0 .. Ordered    \* 0: no item of the shipment maps to an order line

ASSUME ShipBounds == Ordered \in Nat \ {0} /\ MaxReceipts \in Nat /\ MaxShipAttempts \in Nat \ {0}
ASSUME NilIsNoShipWorker == Nil \notin ShipWorkers
ASSUME TrackedAreShipments == Tracked \subseteq Shipments

VARIABLES
  received,     \* printful_fulfillment_events: payloads by digest
  shipment,     \* fulfillment_shipments and their items
  shipJob,      \* shopify_fulfillment_jobs, by shipment
  requeued,     \* shopify_fulfillment_requeue_actions: keys used
  made,         \* Shopify: the quantities of each shipment's fulfillments
  remaining,    \* Shopify: what is left of the line
  shipWorker,   \* the call each worker is in
  orderStatus,  \* commerce_orders.status
  returnCase,   \* return_cases.status
  caseActions   \* return_case_actions: the status each key was answered with

shopify == <<made, remaining>>
returnFrame == <<orderStatus, returnCase, caseActions>>
shipVars == <<received, shipment, shipJob, requeued, shopify, shipWorker, returnFrame>>
shipFrame == <<received, shipment, requeued, returnFrame>>

-----------------------------------------------------------------------------
\* Two bodies with the same content differ in when they occurred.
Payload == [type : {"sent", "returned"}, of : Shipments, quantity : Quantities, at : 1 .. 2]
ShipCall == [pc : {"idle", "context", "renew", "lookup", "create", "done", "error"},
             of : Shipments \cup {Nil}, quantity : Quantities, attempt : 0 .. MaxShipAttempts + 1,
             error : {"none", "deferred", "transient", "permanent"}]
NoShipCall == [pc |-> "idle", of |-> Nil, quantity |-> 0, attempt |-> 0, error |-> "none"]
CaseStatus == {"OPEN", "REFUND_REQUIRED", "RESHIPMENT_REVIEW", "RESOLVED"}

\* Every column holds a value of its type; every worker is at a known step.
FulfilmentTypeOK ==
  /\ received \subseteq Payload
  /\ shipment \in [Shipments -> [status : {"NONE", "shipped", "returned"}, quantity : Quantities]]
  /\ shipJob \in [Shipments -> JobRow({"ABSENT", "PENDING", "RUNNING", "SUCCEEDED", "FAILED"},
                                      ShipWorkers, MaxShipAttempts)]
  /\ requeued \subseteq ActionKeys
  /\ made \in [Shipments -> Seq(Quantities \ {0})] /\ remaining \in Quantities
  /\ shipWorker \in [ShipWorkers -> ShipCall]
  /\ orderStatus \in {"SUBMITTED", "RETURNED", "RETURN_RESOLVED"}
  /\ returnCase \in CaseStatus \cup {"NONE"}
  /\ caseActions \in [ActionKeys -> CaseStatus \cup {"NONE"}]

ShipInit ==
  /\ received = {} /\ requeued = {}
  /\ shipment = [s \in Shipments |-> [status |-> "NONE", quantity |-> 0]]
  /\ shipJob = [s \in Shipments |-> NewRow("ABSENT")]
  /\ made = [s \in Shipments |-> <<>>] /\ remaining = Ordered
  /\ shipWorker = [w \in ShipWorkers |-> NoShipCall]
  /\ orderStatus = "SUBMITTED" /\ returnCase = "NONE"
  /\ caseActions = [k \in ActionKeys |-> "NONE"]

-----------------------------------------------------------------------------
(* The webhook: one transaction per body; a body seen before is answered    *)
(* and changes nothing.                                                     *)

SaveShipment(p) ==
  /\ received' = received \cup {p}
  /\ shipment' = [shipment EXCEPT ![p.of] =
       [status |-> IF p.type = "sent" THEN "shipped" ELSE "returned", quantity |-> p.quantity]]

\* Mutant: the job is made only with the shipment's first row.
ReceiveSentOnInsert(p) ==
  /\ p.type = "sent" /\ p \notin received /\ Cardinality(received) < MaxReceipts
  /\ SaveShipment(p)
  /\ shipJob' = IF shipment[p.of].status = "NONE" THEN [shipJob EXCEPT ![p.of] = NewRow("PENDING")] ELSE shipJob
  /\ UNCHANGED <<requeued, shopify, shipWorker, returnFrame>>

ReceiveSent(p) ==
  /\ p.type = "sent" /\ p \notin received /\ Cardinality(received) < MaxReceipts
  /\ SaveShipment(p)
  /\ shipJob' = [shipJob EXCEPT ![p.of] = IF @.status = "ABSENT" THEN NewRow("PENDING") ELSE @]
  /\ UNCHANGED <<requeued, shopify, shipWorker, returnFrame>>

\* The order is marked whatever its status; the case is opened once.
ReceiveReturned(p) ==
  /\ p.type = "returned" /\ p \notin received /\ Cardinality(received) < MaxReceipts
  /\ SaveShipment(p)
  /\ orderStatus' = "RETURNED"
  /\ returnCase' = IF returnCase = "NONE" THEN "OPEN" ELSE returnCase
  /\ UNCHANGED <<shipJob, requeued, shopify, shipWorker, caseActions>>

-----------------------------------------------------------------------------
(* Operators.                                                               *)

AfterAction == [REQUIRE_REFUND |-> "REFUND_REQUIRED", REVIEW_RESHIPMENT |-> "RESHIPMENT_REVIEW",
                RESOLVE |-> "RESOLVED"]

\* A key that was used is answered with what it did; a resolved case refuses.
ActOnCase(k, a) ==
  /\ returnCase \notin {"NONE", "RESOLVED"} /\ caseActions[k] = "NONE"
  /\ returnCase' = AfterAction[a] /\ caseActions' = [caseActions EXCEPT ![k] = AfterAction[a]]
  /\ orderStatus' = IF a = "RESOLVE" /\ orderStatus = "RETURNED" THEN "RETURN_RESOLVED" ELSE orderStatus
  /\ UNCHANGED <<received, shipment, shipJob, requeued, shopify, shipWorker>>

\* One failed job of the order (the code takes the one that failed last).
RequeueFulfilment(k, s) ==
  /\ k \notin requeued /\ shipJob[s].status = "FAILED"
  /\ shipJob' = [shipJob EXCEPT ![s] = Renewed(@)] /\ requeued' = requeued \cup {k}
  /\ UNCHANGED <<received, shipment, shopify, shipWorker, returnFrame>>

-----------------------------------------------------------------------------
(* Workers.  Every statement asks for the owner and a live lease; a worker  *)
(* that finds its lease lost stops without a word.                          *)

ShipRests(w) == shipWorker' = [shipWorker EXCEPT ![w] = NoShipCall]
ShipGoes(w, pc) == shipWorker' = [shipWorker EXCEPT ![w].pc = pc]
ShipFails(w, e) == shipWorker' = [shipWorker EXCEPT ![w].pc = "error", ![w].error = e]
OwnsShip(w) == LET j == shipJob[shipWorker[w].of] IN Holds(j, w) /\ j.leased

ShipClaimable(j) ==
  \/ j.status = "PENDING" /\ j.due /\ j.attempts < MaxShipAttempts
  \/ j.status = "RUNNING" /\ ~j.leased /\ j.attempts <= MaxShipAttempts

ClaimShip(w, s) ==
  /\ shipWorker[w].pc = "idle" /\ ShipClaimable(shipJob[s])
  /\ shipJob' = [shipJob EXCEPT ![s] = Taken(@, w)]
  /\ shipWorker' = [shipWorker EXCEPT ![w] =
       [NoShipCall EXCEPT !.pc = "context", !.of = s, !.attempt = shipJob[s].attempts + 1]]
  /\ UNCHANGED <<shopify, shipFrame>>

ReadShipment(w) ==
  LET q == shipment[shipWorker[w].of].quantity
  IN  /\ shipWorker[w].pc = "context"
      /\ \/ q = 0 /\ ShipFails(w, "permanent")
         \/ q > 0 /\ shipWorker' = [shipWorker EXCEPT ![w].pc = "renew", ![w].quantity = q]
         \/ ShipFails(w, "transient")
      /\ UNCHANGED <<shipJob, shopify, shipFrame>>

RenewShip(w) ==
  /\ shipWorker[w].pc = "renew"
  /\ \/ OwnsShip(w) /\ ShipGoes(w, "lookup")
     \/ ~OwnsShip(w) /\ ShipRests(w)
     \/ ShipFails(w, "transient")
  /\ UNCHANGED <<shipJob, shopify, shipFrame>>

\* Mutant: any fulfillment of the order is taken for this shipment's.
LookUpAny(w) ==
  /\ shipWorker[w].pc = "lookup"
  /\ IF \E s \in Shipments : made[s] # <<>> THEN ShipGoes(w, "done") ELSE ShipGoes(w, "create")
  /\ UNCHANGED <<shipJob, shopify, shipFrame>>

\* A tracked shipment whose fulfillment is there, line for line, is recovered; one
\* that differs is a conflict; a quantity above what is left is refused.
LookUp(w) ==
  LET s == shipWorker[w].of  q == shipWorker[w].quantity
      mine == IF s \in Tracked THEN {made[s][i] : i \in DOMAIN made[s]} ELSE {}
  IN  /\ shipWorker[w].pc = "lookup"
      /\ \/ q \in mine /\ ShipGoes(w, "done")
         \/ mine # {} /\ q \notin mine /\ ShipFails(w, "permanent")
         \/ mine = {} /\ q > remaining /\ ShipFails(w, "permanent")
         \/ mine = {} /\ q <= remaining /\ ShipGoes(w, "create")
         \/ \E e \in {"deferred", "transient", "permanent"} : ShipFails(w, e)
      /\ UNCHANGED <<shipJob, shopify, shipFrame>>

\* fulfillmentCreate: Shopify refuses more than what is left; its answer may be lost.
CreateFulfilment(w) ==
  LET s == shipWorker[w].of  q == shipWorker[w].quantity
  IN  /\ shipWorker[w].pc = "create"
      /\ \/ /\ q <= remaining
            /\ made' = [made EXCEPT ![s] = Append(@, q)] /\ remaining' = remaining - q
            /\ ShipGoes(w, "done") \/ ShipFails(w, "transient")
         \/ \E e \in {"deferred", "transient", "permanent"} : ShipFails(w, e) /\ UNCHANGED shopify
      /\ UNCHANGED <<shipJob, shipFrame>>

ShipSucceeds(w) ==
  /\ shipWorker[w].pc = "done"
  /\ \/ OwnsShip(w) /\ shipJob' = [shipJob EXCEPT ![shipWorker[w].of] = Freed(@, "SUCCEEDED")] /\ ShipRests(w)
     \/ ~OwnsShip(w) /\ ShipRests(w) /\ UNCHANGED shipJob
     \/ ShipFails(w, "transient") /\ UNCHANGED shipJob
  /\ UNCHANGED <<shopify, shipFrame>>

AfterError(w) ==
  LET j == shipJob[shipWorker[w].of]
  IN  IF shipWorker[w].error = "deferred" THEN GivenBack(Later(j, "PENDING"))
      ELSE IF shipWorker[w].error = "transient" /\ shipWorker[w].attempt < MaxShipAttempts THEN Later(j, "PENDING")
      ELSE Freed(j, "FAILED")

HandleShipError(w) ==
  /\ shipWorker[w].pc = "error"
  /\ shipJob' = IF OwnsShip(w) THEN [shipJob EXCEPT ![shipWorker[w].of] = AfterError(w)] ELSE shipJob
  /\ ShipRests(w) /\ UNCHANGED <<shopify, shipFrame>>

\* The heartbeat keeps a live lease; it lapses when the process or its database stalls.
ShipLeaseExpires(s) ==
  /\ shipJob[s].leased /\ shipJob' = [shipJob EXCEPT ![s].leased = FALSE]
  /\ UNCHANGED <<shopify, shipWorker, shipFrame>>

ShipFallsDue(s) ==
  /\ ~shipJob[s].due /\ shipJob' = [shipJob EXCEPT ![s].due = TRUE]
  /\ UNCHANGED <<shopify, shipWorker, shipFrame>>

ShipWorkerDies(w) ==
  /\ shipWorker[w].pc # "idle" /\ ShipRests(w) /\ UNCHANGED <<shipJob, shopify, shipFrame>>

-----------------------------------------------------------------------------
ShipWorkerStep(w) ==
  \/ ReadShipment(w) \/ RenewShip(w) \/ LookUp(w) \/ CreateFulfilment(w)
  \/ ShipSucceeds(w) \/ HandleShipError(w)

ShipNext ==
  \/ \E p \in Payload : ReceiveSent(p) \/ ReceiveReturned(p)
  \/ \E k \in ActionKeys : \/ \E a \in DOMAIN AfterAction : ActOnCase(k, a)
                           \/ \E s \in Shipments : RequeueFulfilment(k, s)
  \/ \E w \in ShipWorkers : \/ ShipWorkerStep(w) \/ ShipWorkerDies(w)
                            \/ \E s \in Shipments : ClaimShip(w, s)
  \/ \E s \in Shipments : ShipLeaseExpires(s) \/ ShipFallsDue(s)

ShipSpec == ShipInit /\ [][ShipNext]_shipVars

\* Workers poll, their calls return, time passes; nothing is assumed of Shopify,
\* Printful, crashes or the operators.
ShipFairness ==
  /\ \A w \in ShipWorkers : WF_shipVars(ShipWorkerStep(w))
  /\ \A s \in Shipments :
       /\ WF_shipVars(\E w \in ShipWorkers : ClaimShip(w, s))
       /\ WF_shipVars((\A w \in ShipWorkers : shipWorker[w].of # s) /\ ShipLeaseExpires(s))

-----------------------------------------------------------------------------
\* A shipment has a job exactly when Printful said it was sent, in whatever order
\* and however often its webhooks come; a return alone makes none.
SentIsQueued ==
  \A s \in Shipments :
    shipJob[s].status # "ABSENT" <=> \E p \in received : p.type = "sent" /\ p.of = s

\* A job counts as done only when Shopify has a fulfillment of that shipment, made
\* by this attempt or by an earlier one whose answer was lost.  The order and its
\* return case agree: no case without a return, and an order leaves the return
\* queue only with its case resolved.
DoneIsFulfilled ==
  /\ \A s \in Shipments : shipJob[s].status = "SUCCEEDED" => made[s] # <<>>
  /\ returnCase # "NONE" <=> orderStatus # "SUBMITTED"
  /\ orderStatus = "RETURN_RESOLVED" => returnCase = "RESOLVED"

\* A running job ends or goes back to the queue, whatever becomes of its worker;
\* after the last attempt its lease may lapse for good.
ShipmentsSettle ==
  \A s \in Shipments :
    shipJob[s].status = "RUNNING" ~> shipJob[s].status # "RUNNING" \/ shipJob[s].attempts > MaxShipAttempts
=============================================================================
