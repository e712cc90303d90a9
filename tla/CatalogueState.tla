---------------------------- MODULE CatalogueState ----------------------------
(***************************************************************************)
(* The tables between an approved product candidate and its Shopify        *)
(* product, for one candidate: its content revisions, its design, the      *)
(* mockup and publication jobs of each revision (migrations 008 to 012),   *)
(* and the workers and request handlers that write them.                   *)
(***************************************************************************)
EXTENDS JobQueue, FiniteSets, Sequences

CONSTANTS
  MaxContents,      \* bound: content revisions
  MaxDesigns,       \* bound: design registrations
  MaxTries,         \* the attempt limit of the three queues
  Writers,          \* content workers
  Renderers,        \* mockup workers
  Publishers,       \* Shopify publication workers
  Editors           \* request handlers

Contents == 1 .. MaxContents
Designs == 1 .. MaxDesigns

ASSUME CatalogueBounds ==
  /\ MaxContents \in Nat \ {0} /\ MaxDesigns \in Nat \ {0} /\ MaxTries \in Nat \ {0}
ASSUME NilIsNobody == Nil \notin Writers /\ Nil \notin Renderers /\ Nil \notin Publishers

VARIABLES
  contentJob,   \* product_content_jobs, the candidate's row
  content,      \* product_content_revisions: status by number
  design,       \* design_assets, the candidate's row
  passed,       \* designs that have passed the resolution gate
  mockJob,      \* printful_mockup_jobs, by content revision
  mockOrder,    \* content revisions in the order their mockup job was inserted
  snapshot,     \* mockup_snapshots, by content revision: the design shown, 0 if none
  pubJob,       \* shopify_publication_jobs, by content revision
  product,      \* Shopify: the design its product's images show, 0 if none
  writer, renderer, publisher,      \* the call each worker is in
  editor        \* the transaction each request handler is in

jobVars == <<contentJob, content, design, passed, mockJob, mockOrder, snapshot, pubJob, product>>
catalogueVars == <<jobVars, writer, renderer, publisher, editor>>

-----------------------------------------------------------------------------
JobStatus == {"ABSENT", "WAITING_FOR_MOCKUP", "PENDING", "RUNNING", "WAITING_REMOTE",
              "SUCCEEDED", "FAILED"}

\* id tells apart the rows a revision has had; task is the design the remote
\* task was created with.
MockupRow == [status : JobStatus, attempts : 0 .. MaxTries + 1,
              lockedBy : Renderers \cup {Nil}, leased : BOOLEAN, due : BOOLEAN,
              id : Nat, task : 0 .. MaxDesigns]

PublicationRow == [status : JobStatus, attempts : 0 .. MaxTries + 1,
                   lockedBy : Publishers \cup {Nil}, leased : BOOLEAN, due : BOOLEAN,
                   images : 0 .. MaxDesigns]

Errors == {"none", "connection", "rateLimit", "transient", "permanent"}

Call == [pc : {"idle", "work", "send", "done", "error"}, of : 0 .. MaxContents,
         id : Nat, attempt : 0 .. MaxTries + 1, holds : 0 .. MaxDesigns, error : Errors]

\* before is what the transaction has read: the status of the latest mockup job
\* of the design (register), or whether the candidate has a design (approve).
Edit == [kind : {"none", "approve", "register"}, of : 0 .. MaxContents,
         before : JobStatus, job : 0 .. MaxContents]

\* Every column holds a value of its type; every worker and handler is at a known step.
CatalogueTypeOK ==
  /\ contentJob \in JobRow(JobStatus, Writers, MaxTries)
  /\ content \in [Contents -> {"NONE", "DRAFT", "APPROVED", "SUPERSEDED"}]
  /\ design \in [version : 0 .. MaxDesigns, gate : {"NONE", "PASSED", "GUIDELINE_MISSING"}]
  /\ passed \subseteq Designs
  /\ mockJob \in [Contents -> MockupRow]
  /\ mockOrder \in Seq(Contents)
  /\ snapshot \in [Contents -> 0 .. MaxDesigns]
  /\ pubJob \in [Contents -> PublicationRow]
  /\ product \in [Contents -> 0 .. MaxDesigns]
  /\ writer \in [Writers -> Call] /\ renderer \in [Renderers -> Call]
  /\ publisher \in [Publishers -> Call] /\ editor \in [Editors -> Edit]

NoCall == [pc |-> "idle", of |-> 0, id |-> 0, attempt |-> 0, holds |-> 0, error |-> "none"]
NoEdit == [kind |-> "none", of |-> 0, before |-> "ABSENT", job |-> 0]

\* The candidate has just been approved, which queued its content job.
CatalogueInit ==
  /\ contentJob = NewRow("PENDING")
  /\ content = [n \in Contents |-> "NONE"]
  /\ design = [version |-> 0, gate |-> "NONE"]
  /\ passed = {} /\ mockOrder = <<>>
  /\ mockJob = [n \in Contents |-> [status |-> "ABSENT", attempts |-> 0, lockedBy |-> Nil,
                                    leased |-> FALSE, due |-> TRUE, id |-> 0, task |-> 0]]
  /\ pubJob = [n \in Contents |-> [status |-> "ABSENT", attempts |-> 0, lockedBy |-> Nil,
                                   leased |-> FALSE, due |-> TRUE, images |-> 0]]
  /\ snapshot = [n \in Contents |-> 0] /\ product = [n \in Contents |-> 0]
  /\ writer = [w \in Writers |-> NoCall] /\ renderer = [w \in Renderers |-> NoCall]
  /\ publisher = [w \in Publishers |-> NoCall] /\ editor = [e \in Editors |-> NoEdit]

-----------------------------------------------------------------------------
CallOn(n, j) == [NoCall EXCEPT !.pc = "work", !.of = n, !.attempt = j.attempts + 1]
Failing(call, e) == [call EXCEPT !.pc = "error", !.error = e]
=============================================================================
