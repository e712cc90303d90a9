------------------------------ MODULE Storefront ------------------------------
(***************************************************************************)
(* The store configuration of one workspace: drafts that are generated     *)
(* from the approved brand profile, edited and approved, and the workers   *)
(* that publish an approved one as Shopify pages and a menu                *)
(* (src/storefront/, migrations 017 to 019).                               *)
(***************************************************************************)
EXTENDS JobQueue

CONSTANTS
  MaxDrafts,         \* bound: draft revisions
  MaxBrands,         \* bound: brand revisions approved one after the other
  MaxStoreAttempts,  \* the attempt limit
  StoreWorkers,
  StoreEditors       \* request handlers

Drafts == 1 .. MaxDrafts
Brands == 1 .. MaxBrands
Resources == {"page", "menu"}

ASSUME StoreBounds == MaxDrafts \in Nat \ {0} /\ MaxBrands \in Nat \ {0} /\ MaxStoreAttempts \in Nat \ {0}
ASSUME NilIsNoStoreWorker == Nil \notin StoreWorkers

VARIABLES
  brand,        \* the approved brand revision
  draft,        \* store_drafts, by revision number
  storeJob,     \* shopify_store_publication_jobs, by draft
  shop,         \* Shopify: the draft each resource shows, 0 if none
  put,          \* the resources Shopify was given of each draft
  storeTx,      \* the transaction each request handler is in
  storeWorker   \* the call each worker is in

storeVars == <<brand, draft, storeJob, shop, put, storeTx, storeWorker>>
draftFrame == <<brand, shop, put, storeWorker>>
workerFrame == <<brand, storeTx>>

-----------------------------------------------------------------------------
NoDraft == [status |-> "NONE", source |-> "NONE", of |-> 0]
StoreTx == [kind : {"none", "generate", "edit", "approve"}, of : 0 .. MaxDrafts + MaxBrands,
            number : 0 .. MaxDrafts + 1]
NoTx == [kind |-> "none", of |-> 0, number |-> 0]
StoreCall == [pc : {"idle", "page", "menu", "done", "error"}, of : 0 .. MaxDrafts,
              attempt : 0 .. MaxStoreAttempts + 1,
              error : {"none", "deferred", "transient", "permanent"}]
NoStoreCall == [pc |-> "idle", of |-> 0, attempt |-> 0, error |-> "none"]

\* Every column holds a value of its type; every worker and handler is at a known step.
StoreTypeOK ==
  /\ brand \in Brands
  /\ draft \in [Drafts -> [status : {"NONE", "DRAFT", "APPROVED", "PUBLISHED", "SUPERSEDED"},
                           source : {"NONE", "GENERATED", "EDITOR"}, of : 0 .. MaxBrands]]
  /\ storeJob \in [Drafts -> JobRow({"ABSENT", "PENDING", "RUNNING", "SUCCEEDED", "FAILED"},
                                    StoreWorkers, MaxStoreAttempts)]
  /\ shop \in [Resources -> 0 .. MaxDrafts] /\ put \in [Drafts -> SUBSET Resources]
  /\ storeTx \in [StoreEditors -> StoreTx] /\ storeWorker \in [StoreWorkers -> StoreCall]

StoreInit ==
  /\ brand = 1
  /\ draft = [d \in Drafts |-> NoDraft]
  /\ storeJob = [d \in Drafts |-> NewRow("ABSENT")]
  /\ shop = [r \in Resources |-> 0] /\ put = [d \in Drafts |-> {}]
  /\ storeTx = [m \in StoreEditors |-> NoTx]
  /\ storeWorker = [w \in StoreWorkers |-> NoStoreCall]

-----------------------------------------------------------------------------
(* Request handlers (config-service.ts).  A transaction holds the rows it   *)
(* has locked until it ends: generate the brand revision, edit its base     *)
(* draft, approve the workspace.                                            *)

Existing == {d \in Drafts : draft[d].status # "NONE"}
NextNumber == IF Existing = {} THEN 1 ELSE 1 + CHOOSE d \in Existing : \A f \in Existing : f <= d

WorkspaceLocked == \E m \in StoreEditors : storeTx[m].kind = "approve"
DraftLocked(d) == \E m \in StoreEditors : storeTx[m].kind = "edit" /\ storeTx[m].of = d
BeginStoreTx(m, kind, of, n) == storeTx' = [storeTx EXCEPT ![m] = [kind |-> kind, of |-> of, number |-> n]]
EndStoreTx(m) == storeTx' = [storeTx EXCEPT ![m] = NoTx]
Insert(n, source, of) == draft' = [draft EXCEPT ![n] = [status |-> "DRAFT", source |-> source, of |-> of]]

\* A brand revision that has its draft already returns that one.
BeginGenerate(m) ==
  /\ storeTx[m].kind = "none" /\ NextNumber <= MaxDrafts
  /\ ~\E k \in StoreEditors : storeTx[k].kind = "generate" /\ storeTx[k].of = brand
  /\ ~\E d \in Drafts : draft[d].source = "GENERATED" /\ draft[d].of = brand
  /\ BeginStoreTx(m, "generate", brand, NextNumber)
  /\ UNCHANGED <<draft, storeJob, draftFrame>>

\* The insert refers to the workspace, so it waits for a lock on that row; a
\* number that was taken meanwhile is a unique violation and rolls back.
InsertGenerated(m) ==
  LET n == storeTx[m].number
  IN  /\ storeTx[m].kind = "generate" /\ ~WorkspaceLocked
      /\ IF draft[n].status = "NONE" THEN Insert(n, "GENERATED", storeTx[m].of) ELSE UNCHANGED draft
      /\ EndStoreTx(m) /\ UNCHANGED <<storeJob, draftFrame>>

LockBase(m, d) ==
  /\ storeTx[m].kind = "none" /\ ~DraftLocked(d)
  /\ draft[d].status \notin {"NONE", "PUBLISHED"}
  /\ BeginStoreTx(m, "edit", d, 0) /\ UNCHANGED <<draft, storeJob, draftFrame>>

CommitStoreEdit(m) ==
  LET base == storeTx[m].of
  IN  /\ storeTx[m].kind = "edit" /\ ~WorkspaceLocked
      /\ IF NextNumber <= MaxDrafts THEN Insert(NextNumber, "EDITOR", draft[base].of) ELSE UNCHANGED draft
      /\ EndStoreTx(m) /\ UNCHANGED <<storeJob, draftFrame>>

LockStore(m, d) ==
  /\ storeTx[m].kind = "none" /\ ~WorkspaceLocked /\ draft[d].status # "NONE"
  /\ BeginStoreTx(m, "approve", d, 0) /\ UNCHANGED <<draft, storeJob, draftFrame>>

ApprovedDrafts == {d \in Drafts : draft[d].status = "APPROVED"}

\* Only a DRAFT; its publication is queued in the same transaction, once.
ApproveDraft(m) ==
  LET d == storeTx[m].of
  IN  /\ storeTx[m].kind = "approve" /\ ~DraftLocked(d)
      /\ \/ /\ draft[d].status = "DRAFT" /\ \A f \in ApprovedDrafts : ~DraftLocked(f)
            /\ draft' = [f \in Drafts |->
                 [draft[f] EXCEPT !.status = IF f = d THEN "APPROVED"
                                             ELSE IF @ = "APPROVED" THEN "SUPERSEDED" ELSE @]]
            /\ storeJob' = [storeJob EXCEPT ![d] = IF @.status = "ABSENT" THEN NewRow("PENDING") ELSE @]
         \/ draft[d].status # "DRAFT" /\ UNCHANGED <<draft, storeJob>>
      /\ EndStoreTx(m) /\ UNCHANGED draftFrame

\* Edit and approve lock draft and workspace in opposite orders; PostgreSQL ends
\* one of the two transactions.
WaitsFor(m, k) ==
  \/ storeTx[m].kind = "edit" /\ storeTx[k].kind = "approve"
  \/ /\ storeTx[m].kind = "approve" /\ storeTx[k].kind = "edit"
     /\ \/ storeTx[k].of = storeTx[m].of
        \/ draft[storeTx[m].of].status = "DRAFT" /\ storeTx[k].of \in ApprovedDrafts

\* Mutant: nobody breaks the cycle.
NeverBroken(m) == FALSE /\ UNCHANGED storeVars

BreakDeadlock(m) ==
  /\ \E k \in StoreEditors : WaitsFor(m, k) /\ WaitsFor(k, m)
  /\ EndStoreTx(m) /\ UNCHANGED <<draft, storeJob, draftFrame>>

HandlerDies(m) ==
  /\ storeTx[m].kind # "none" /\ EndStoreTx(m) /\ UNCHANGED <<draft, storeJob, draftFrame>>

\* Mutant: the operator may queue any publication again.
RequeueAnyStore(d) ==
  /\ storeJob[d].status \notin {"ABSENT", "RUNNING"} /\ storeJob' = [storeJob EXCEPT ![d] = Renewed(@)]
  /\ UNCHANGED <<draft, storeTx, draftFrame>>

RequeueStore(d) ==
  /\ storeJob[d].status = "FAILED" /\ storeJob' = [storeJob EXCEPT ![d] = Renewed(@)]
  /\ UNCHANGED <<draft, storeTx, draftFrame>>

\* Another brand revision is approved (BrandRevisions); its row is locked while
\* a draft is generated from it.
BrandMoves ==
  /\ brand < MaxBrands /\ ~\E m \in StoreEditors : storeTx[m].kind = "generate"
  /\ brand' = brand + 1 /\ UNCHANGED <<draft, storeJob, shop, put, storeTx, storeWorker>>

-----------------------------------------------------------------------------
(* Publication workers (publication-job-store.ts, publication-worker.ts,    *)
(* shopify-publisher.ts): no heartbeat, so a slow call outlives its lease.   *)

StoreFails(w, e) == storeWorker' = [storeWorker EXCEPT ![w].pc = "error", ![w].error = e]
StoreRests(w) == storeWorker' = [storeWorker EXCEPT ![w] = NoStoreCall]
OwnsStore(w) == Holds(storeJob[storeWorker[w].of], w)

\* Mutant: a publication whose last attempt lost its lease is left alone.
StoreClaimableBelow(j) ==
  /\ j.attempts < MaxStoreAttempts
  /\ \/ j.status = "PENDING" /\ j.due
     \/ j.status = "RUNNING" /\ ~j.leased

StoreClaimable(j) ==
  \/ j.status = "PENDING" /\ j.due /\ j.attempts < MaxStoreAttempts
  \/ j.status = "RUNNING" /\ ~j.leased /\ j.attempts <= MaxStoreAttempts

ClaimStore(w, d) ==
  /\ storeWorker[w].pc = "idle" /\ StoreClaimable(storeJob[d])
  /\ storeJob' = [storeJob EXCEPT ![d] = Taken(@, w)]
  /\ storeWorker' = [storeWorker EXCEPT ![w] =
       [pc |-> "page", of |-> d, attempt |-> storeJob[d].attempts + 1, error |-> "none"]]
  /\ UNCHANGED <<draft, shop, put, workerFrame>>

\* Mutant: the plan counts as published when its pages are.
PutPagesOnly(w) ==
  LET r == storeWorker[w].pc  d == storeWorker[w].of
  IN  /\ r \in Resources
      /\ shop' = [shop EXCEPT ![r] = d] /\ put' = [put EXCEPT ![d] = @ \cup {r}]
      /\ storeWorker' = [storeWorker EXCEPT ![w].pc = "done"]
      /\ UNCHANGED <<draft, storeJob, workerFrame>>

\* The pages, then the menu, each found by its handle and created or updated;
\* a failure in between, or an answer that is lost, leaves the shop half changed.
PutResource(w) ==
  LET r == storeWorker[w].pc  d == storeWorker[w].of
  IN  /\ r \in Resources
      /\ \/ /\ shop' = [shop EXCEPT ![r] = d] /\ put' = [put EXCEPT ![d] = @ \cup {r}]
            /\ \/ storeWorker' = [storeWorker EXCEPT ![w].pc = IF r = "page" THEN "menu" ELSE "done"]
               \/ StoreFails(w, "transient")
         \/ /\ \E e \in {"deferred", "transient", "permanent"} : StoreFails(w, e)
            /\ UNCHANGED <<shop, put>>
      /\ UNCHANGED <<draft, storeJob, workerFrame>>

\* One transaction: the job by its owner, and its draft if it is still approved.
StoreSucceeds(w) ==
  LET d == storeWorker[w].of
  IN  /\ storeWorker[w].pc = "done" /\ (draft[d].status = "APPROVED" => ~DraftLocked(d))
      /\ \/ /\ OwnsStore(w) /\ storeJob' = [storeJob EXCEPT ![d] = Freed(@, "SUCCEEDED")]
            /\ draft' = [draft EXCEPT ![d].status = IF @ = "APPROVED" THEN "PUBLISHED" ELSE @]
            /\ StoreRests(w)
         \/ StoreFails(w, "transient") /\ UNCHANGED <<draft, storeJob>>
      /\ UNCHANGED <<shop, put, workerFrame>>

\* Each of the statements of the catch block matches the job by its owner.
HandleStoreError(w) ==
  LET d == storeWorker[w].of  e == storeWorker[w].error  j == storeJob[d]
      row == IF e = "deferred" THEN GivenBack(Later(j, "PENDING"))
             ELSE IF e = "transient" /\ storeWorker[w].attempt < MaxStoreAttempts THEN Later(j, "PENDING")
             ELSE Freed(j, "FAILED")
  IN  /\ storeWorker[w].pc = "error"
      /\ storeJob' = IF OwnsStore(w) THEN [storeJob EXCEPT ![d] = row] ELSE storeJob
      /\ StoreRests(w) /\ UNCHANGED <<draft, shop, put, workerFrame>>

StoreLeaseExpires(d) ==
  /\ storeJob[d].leased /\ storeJob' = [storeJob EXCEPT ![d].leased = FALSE]
  /\ UNCHANGED <<draft, shop, put, storeWorker, workerFrame>>

StoreFallsDue(d) ==
  /\ ~storeJob[d].due /\ storeJob' = [storeJob EXCEPT ![d].due = TRUE]
  /\ UNCHANGED <<draft, shop, put, storeWorker, workerFrame>>

StoreWorkerDies(w) ==
  /\ storeWorker[w].pc # "idle" /\ StoreRests(w)
  /\ UNCHANGED <<draft, storeJob, shop, put, workerFrame>>

-----------------------------------------------------------------------------
StoreEditorStep(m) ==
  \/ BeginGenerate(m) \/ InsertGenerated(m) \/ CommitStoreEdit(m) \/ ApproveDraft(m)
  \/ BreakDeadlock(m) \/ HandlerDies(m)
  \/ \E d \in Drafts : LockBase(m, d) \/ LockStore(m, d)

StoreWorkerStep(w) == PutResource(w) \/ StoreSucceeds(w) \/ HandleStoreError(w)

StoreNext ==
  \/ \E m \in StoreEditors : StoreEditorStep(m)
  \/ \E w \in StoreWorkers : \/ StoreWorkerStep(w) \/ StoreWorkerDies(w)
                             \/ \E d \in Drafts : ClaimStore(w, d)
  \/ \E d \in Drafts : RequeueStore(d) \/ StoreLeaseExpires(d) \/ StoreFallsDue(d)
  \/ BrandMoves

StoreSpec == StoreInit /\ [][StoreNext]_storeVars

\* Statements return, PostgreSQL breaks deadlocks and serves those who wait for a
\* lock in turn, workers poll and time passes; nothing is assumed of Shopify, of
\* crashes or of the operators.
Finish(m) == InsertGenerated(m) \/ CommitStoreEdit(m) \/ ApproveDraft(m) \/ BreakDeadlock(m)

StoreFairness ==
  /\ \A m \in StoreEditors : SF_storeVars(Finish(m))
  /\ \A w \in StoreWorkers : SF_storeVars(StoreWorkerStep(w))
  /\ \A d \in Drafts :
       /\ WF_storeVars(\E w \in StoreWorkers : ClaimStore(w, d))
       /\ WF_storeVars((\A w \in StoreWorkers : storeWorker[w].of # d) /\ StoreLeaseExpires(d))

-----------------------------------------------------------------------------
\* One draft at most is approved and each brand revision has one generated
\* draft, whatever transactions of the handlers and the workers overlap.
OneApprovedDraft ==
  /\ \A d, f \in ApprovedDrafts : d = f
  /\ \A d, f \in Drafts : draft[d].source = "GENERATED" /\ draft[d].of = draft[f].of
                          /\ draft[f].source = "GENERATED" => d = f

\* A draft that has once been approved has its one job; it is published exactly
\* when that job has succeeded, unless another draft took its place first.
DraftAndJobAgree ==
  /\ OneApprovedDraft
  /\ \A d \in Drafts :
       /\ draft[d].status \in {"APPROVED", "PUBLISHED", "SUPERSEDED"} <=> storeJob[d].status # "ABSENT"
       /\ draft[d].status = "PUBLISHED" => storeJob[d].status = "SUCCEEDED"
       /\ storeJob[d].status = "SUCCEEDED" => draft[d].status \in {"PUBLISHED", "SUPERSEDED"}

\* What counts as published has reached Shopify whole, however many attempts it took.
PublishedIsComplete ==
  \A d \in Drafts : storeJob[d].status = "SUCCEEDED" => put[d] = Resources

\* Every transaction ends, though edit and approve lock in opposite orders.
StoreLockEnds(m) == storeTx[m].kind # "none" ~> storeTx[m].kind = "none"

\* A running publication ends or goes back to the queue, whatever becomes of its
\* worker; after the last attempt its lease may lapse for good.
StorePublicationSettles ==
  \A d \in Drafts :
    storeJob[d].status = "RUNNING" ~>
      storeJob[d].status # "RUNNING" \/ storeJob[d].attempts > MaxStoreAttempts
=============================================================================
