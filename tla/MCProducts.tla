------------------------------ MODULE MCProducts ------------------------------
(***************************************************************************)
(* A product from the catalogue to the shipment, in one run of several     *)
(* parts: the component a part names runs, the others wait in their        *)
(* initial state, where nothing of theirs is fair to happen.               *)
(*   "snapshot"    one fetch of two variants and its evaluation            *)
(*   "candidates"  a candidate job, its workers and two reviewers          *)
(*   "content"     two writers, two editors and two revisions              *)
(*   "design"      editors, operators and a renderer, two designs          *)
(*   "mockup"      two renderers with every fault                          *)
(*   "publication" two publishers with every fault                         *)
(*   "ship"        two shipments, both sent, and their workers             *)
(*   "return"      their webhooks in any order, and the return case        *)
(* A stage runs with every fault; the stages before it only as far as it   *)
(* needs them.                                                             *)
(***************************************************************************)
EXTENDS Catalogue, Candidates, Fulfilment, CatalogSnapshot

CONSTANTS w1, r1, r2, e1, j1, c1, c2, f1, f2, a1, a2, k1, x1, x2

\* The processes and the rows that the parts name are those of the components.
ASSUME ProductParts ==
  /\ w1 \in Writers /\ {r1, r2} \subseteq Renderers /\ e1 \in Editors /\ {1, 2} \subseteq Contents
  /\ j1 \in CandidateJobs /\ {c1, c2} \subseteq CandidateWorkers
  /\ {f1, f2} \subseteq ShipWorkers /\ {a1, a2} \subseteq Shipments /\ k1 \in ActionKeys
  /\ {x1, x2} \subseteq Variants

VARIABLE part

mcVars == <<catalogueVars, candidateVars, shipVars, snapshotVars, part>>

-----------------------------------------------------------------------------
\* The values of the snapshot's constants.
Price(whole, fraction) == [whole |-> whole, fraction |-> fraction]
mcPrices == {Price(10, <<5>>), Price(12, <<>>), Price(9, <<0, 1, 5>>)}
mcSeed == [cost |-> 1000, reserve |-> 300, ships |-> {"US", "JP"}, placements |-> {"front"},
           returnRisk |-> "MEDIUM"]
mcRegion == [m \in {"US", "JP"} |-> IF m = "US" THEN "north_america" ELSE "japan"]
Profile == [markets |-> {"US", "JP"}, currency |-> TRUE, excluded |-> FALSE, ranged |-> TRUE,
            preferred |-> TRUE, min |-> 1900, max |-> 2200, target |-> 35]
mcProfiles == {Profile, [Profile EXCEPT !.markets = {}, !.target = 0, !.min = 2100],
               [Profile EXCEPT !.markets = {"US"}, !.target = 10, !.min = 2150]}

MCInit ==
  /\ CatalogueInit /\ CandidateInit /\ ShipInit
  /\ part \in {"snapshot", "candidates", "content", "design", "mockup", "publication", "ship", "return"}
  /\ SnapshotInit /\ catalogue = <<x1, x2>> /\ stock["japan"] = {x2} 
  /\ price = [v \in Variants |-> IF v = x1 THEN Price(10, <<5>>) ELSE Price(12, <<>>)]
  /\ part # "snapshot" => stock["north_america"] = {x1} /\ profileOf = Profile

-----------------------------------------------------------------------------
\* The first revision is written by w1, which neither fails nor stalls.
FirstContent == (ClaimContent(w1) \/ WriterStep(w1)) /\ writer'[w1].pc # "error"
FirstMockup ==
  /\ ClaimMockup(r1, 1) \/ ReadDesign(r1) \/ CreateTask(r1) \/ CompleteMockup(r1) \/ MockupFallsDue(1)
  /\ renderer'[r1].pc # "error"
Approval(e, n) == ReadForApproval(e, n) \/ (CommitContentApproval(e) /\ content' # content)
NewDesign(e, gate) == ReadForDesign(e) \/ (CommitDesign(e, gate) /\ design' # design)

\* Requests for one listing after the other, as their answers overlap only in
\* what the catalogue becomes meanwhile; the price of x1 may change.
SnapshotPart ==
  \/ Withdraw(x2) \/ \E p \in DecimalPrices : Reprice(x1, p)
  \/ \E l \in Replies : Reply(l) \/ RequestFails(l, TRUE)
  \/ \E status \in BOOLEAN : RequestFails("prices", status)
  \/ \E l \in Listings, n \in 0 .. PageLimit, total \in BOOLEAN :
       (l # "styles" \/ n = 1) /\ (open \cap Replies = {}) /\ FetchPage(l, n, total)
  \/ Evaluate

DesignPart ==
  \/ FirstContent \/ ReviseContent(2)
  \/ \E n \in Contents : Approval(e1, n)
  \/ \E e \in Editors, gate \in {"PASSED", "GUIDELINE_MISSING"} : NewDesign(e, gate)
  \/ RequeueMockup \/ OverrideResolution
  \/ (RendererStep(r1) /\ renderer'[r1].error \in {"none", "permanent"})
  \/ \E n \in Contents : ClaimMockup(r1, n) \/ MockupFallsDue(n)

MockupPart ==
  \/ FirstContent \/ Approval(e1, 1) \/ \E gate \in {"PASSED", "GUIDELINE_MISSING"} : NewDesign(e1, gate)
  \/ RequeueMockup \/ RendererStep(r1) \/ RendererCrash(r1)
  \/ (RendererStep(r2) /\ renderer'[r2].error = "none")
  \/ \E w \in Renderers : ClaimMockup(w, 1)
  \/ MockupLeaseExpires(1) \/ MockupFallsDue(1)

PublicationPart ==
  \/ FirstContent \/ ReviseContent(2) \/ \E n \in Contents : Approval(e1, n)
  \/ NewDesign(e1, "PASSED")
  \/ FirstMockup
  \/ PublicationStep

\* c2 meets no error; each reviewer decides with every key.
CandidatePart ==
  \/ EnqueueCandidates(j1) \/ SupersedeProfile(j1) \/ CandidateLeaseExpires(j1) \/ CandidateFallsDue(j1)
  \/ CandidateWorkerStep(c1) \/ CandidateWorkerCrash(c1)
  \/ (CandidateWorkerStep(c2) /\ catWorker'[c2].pc # "error")
  \/ \E w \in CandidateWorkers : ClaimCandidates(w, j1)
  \/ \E v \in Reviewers : Decide(v) \/ \E k \in DecisionKeys, d \in Decisions : ReadKey(v, j1, k, d)

Sent(s, q) == [type |-> "sent", of |-> s, quantity |-> q, at |-> 1]

\* a1 may be sent again with other items; its job has every fault.
ShipPart ==
  \/ received = {} /\ ReceiveSent(Sent(a2, 1))
  \/ \E q \in Quantities : Cardinality(received) < 2 /\ ReceiveSent(Sent(a1, q))
  \/ ShipWorkerStep(f1) \/ ShipWorkerDies(f1) \/ ClaimShip(f1, a1)
  \/ (ShipWorkerStep(f2) /\ shipWorker'[f2].error = "none") \/ ClaimShip(f2, a1) \/ ClaimShip(f2, a2)
  \/ RequeueFulfilment(k1, a1)
  \/ ShipLeaseExpires(a1) \/ ShipFallsDue(a1)

ReturnPart ==
  \/ \E p \in Payload : p.quantity = 1 /\ (ReceiveSent(p) \/ ReceiveReturned(p))
  \/ \E k \in ActionKeys : \E a \in DOMAIN AfterAction : ActOnCase(k, a)

MCNext ==
  /\ \/ part = "snapshot" /\ SnapshotPart /\ UNCHANGED <<catalogueVars, candidateVars, shipVars>>
     \/ part = "candidates" /\ CandidatePart /\ UNCHANGED <<catalogueVars, shipVars, snapshotVars>>
     \/ /\ \/ part = "content" /\ (ContentStep \/ EditorStep)
           \/ part = "design" /\ DesignPart
           \/ part = "mockup" /\ MockupPart
           \/ part = "publication" /\ PublicationPart
        /\ UNCHANGED <<candidateVars, shipVars, snapshotVars>>
     \/ part = "ship" /\ ShipPart /\ UNCHANGED <<catalogueVars, candidateVars, snapshotVars>>
     \/ part = "return" /\ ReturnPart /\ UNCHANGED <<catalogueVars, candidateVars, snapshotVars>>
  /\ UNCHANGED part

MCSpec == MCInit /\ [][MCNext]_mcVars /\ CatalogueFairness /\ CandidateFairness /\ ShipFairness

-----------------------------------------------------------------------------
\* Every variable of the components keeps its type.
ProductTypes == CatalogueTypeOK /\ CandidateTypeOK /\ FulfilmentTypeOK /\ SnapshotTypeOK

\* Every candidate, publication and fulfillment job that runs ends or goes back to
\* the queue, through crashes, lost leases and errors.
ProductJobsSettle == CandidatesSettle /\ PublicationSettles /\ ShipmentsSettle
===============================================================================
