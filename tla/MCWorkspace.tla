------------------------------ MODULE MCWorkspace ------------------------------
(***************************************************************************)
(* What a workspace sets up before it sells, in one run of several parts:  *)
(* the component a part names runs, the others wait in their initial       *)
(* state, where nothing of theirs is fair to happen.                       *)
(*   "jobs"     two generation workers race over the job of one request,   *)
(*              with every fault                                           *)
(*   "review"   two handlers race over the locks of two brand revisions,   *)
(*              which one worker generates without a fault                 *)
(*   "drafts"   two handlers over two storefront drafts and two brand      *)
(*              revisions, and a worker whose calls succeed                *)
(*   "store"    two workers publish the two drafts, the first one with     *)
(*              every fault                                                *)
(*   "shop"     two workspaces connect one shop, one process rotates       *)
(*   "rotation" one workspace, whose token two processes rotate             *)
(*   "uploads"  the preview server                                         *)
(***************************************************************************)
EXTENDS BrandRevisions, Storefront, Connections, PreviewUploads

CONSTANTS s1, s2, k1, k2, g1, g2, w1, w2, m1, m2, wa, wb, o1, o2, c1, r1, r2

\* The processes that the parts name are processes of the components.
ASSUME WorkspaceParts ==
  /\ {s1, s2} \subseteq Sessions /\ {k1, k2} \subseteq Keys /\ g1 \in Generators
  /\ {w1, w2} \subseteq StoreWorkers /\ m1 \in StoreEditors /\ {1, 2} \subseteq Drafts
  /\ {wa, wb} \subseteq Workspaces /\ {o1, o2} \subseteq Grants /\ c1 \in Callbacks /\ r1 \in Resolvers

VARIABLE part

rest == <<storeVars, connVars, uploadVars>>
mcVars == <<brandVars, storeVars, connVars, uploadVars, part>>

MCInit ==
  /\ BrandInit /\ StoreInit /\ ConnectionInit /\ UploadInit
  /\ part \in {"jobs", "review", "drafts", "store", "shop", "rotation", "uploads"}

JobsStep ==
  \/ SessionStep(s1) \/ Rollback(s1) \/ LockWorkspace(s1, k1)
  \/ \E r \in Revisions : LockForEdit(s1, r) \/ LockForApproval(s1, r)
  \/ \E g \in Generators : \/ GeneratorStep(g) \/ GeneratorCrash(g)
                           \/ \E r \in Revisions : ClaimGeneration(g, r)
  \/ \E r \in Revisions : GenerationLeaseExpires(r) \/ GenerationFallsDue(r)

ReviewStep ==
  \/ LockWorkspace(s1, k1) \/ LockWorkspace(s2, k2)
  \/ \E s \in Sessions : \/ SessionStep(s) \/ Rollback(s)
                         \/ \E r \in Revisions : LockForEdit(s, r) \/ LockForApproval(s, r)
  \/ GeneratorStep(g1) /\ generator'[g1].pc # "fail"
  \/ \E r \in Revisions : ClaimGeneration(g1, r)

StoreWorkerSucceeds(w) == StoreWorkerStep(w) /\ storeWorker'[w].pc # "error"

DraftsStep ==
  \/ \E m \in StoreEditors : StoreEditorStep(m)
  \/ BrandMoves \/ StoreWorkerSucceeds(w1) \/ \E d \in Drafts : ClaimStore(w1, d)

\* m1 generates draft 1, edits it to draft 2, and approves each of the two.
FirstDrafts ==
  \/ BeginGenerate(m1) \/ InsertGenerated(m1) \/ CommitStoreEdit(m1) \/ ApproveDraft(m1)
  \/ LockBase(m1, 1) /\ Existing = {1} /\ draft[1].status = "DRAFT"
  \/ \E d \in Drafts : LockStore(m1, d) /\ draft[d].status = "DRAFT" /\ Existing = {1, 2}

StoreStep ==
  \/ FirstDrafts
  \/ StoreWorkerStep(w1) \/ StoreWorkerDies(w1)
  \/ StoreWorkerSucceeds(w2) \/ (StoreWorkerStep(w2) /\ storeWorker[w2].of = 1)
  \/ ClaimStore(w2, 2) \/ \E w \in StoreWorkers : ClaimStore(w, 1)
  \/ RequeueStore(1) \/ StoreLeaseExpires(1) \/ StoreFallsDue(1)

ShopStep ==
  \/ \E s \in Shops : BeginOAuth(o1, wa, s) \/ BeginOAuth(o2, wb, s)
  \/ \E g \in Grants : GrantExpires(g) \/ ClaimGrant(c1, g)
  \/ ExchangeCode(c1) \/ SeekOwner(c1) \/ SaveGrant(c1) \/ CallbackDies(c1)
  \/ LockRotation(r1) \/ RefreshToken(r1) \/ SeekOwnerAgain(r1) \/ SaveRotation(r1)
  \/ MarkReauth(r1) \/ ResolverDies(r1)
  \/ \E w \in Workspaces : Resolve(r1, w) \/ Disconnect(w) \/ TokenAges(w)
  \/ \E h \in 1 .. MaxUninstalls : ReceiveUninstall(h) \/ \E s \in Shops : Uninstall(h, s)

RotationStep ==
  \/ \E g \in Grants, s \in Shops : BeginOAuth(g, wa, s)
  \/ \E c \in Callbacks : \/ ExchangeCode(c) \/ SeekOwner(c) \/ SaveGrant(c) \/ CallbackDies(c)
                          \/ \E g \in Grants : ClaimGrant(c, g)
  \/ \E r \in Resolvers : \/ LockRotation(r) \/ RefreshToken(r) \/ SeekOwnerAgain(r) \/ SaveRotation(r)
                          \/ MarkReauth(r) \/ ResolverDies(r) \/ Resolve(r, wa)
  \/ Disconnect(wa) \/ TokenAges(wa)

MCNext ==
  /\ \/ part = "jobs" /\ JobsStep /\ UNCHANGED rest
     \/ part = "review" /\ ReviewStep /\ UNCHANGED rest
     \/ part = "drafts" /\ DraftsStep /\ UNCHANGED <<brandVars, connVars, uploadVars>>
     \/ part = "store" /\ StoreStep /\ UNCHANGED <<brandVars, connVars, uploadVars>>
     \/ part = "shop" /\ ShopStep /\ UNCHANGED <<brandVars, storeVars, uploadVars>>
     \/ part = "rotation" /\ RotationStep /\ UNCHANGED <<brandVars, storeVars, uploadVars>>
     \/ part = "uploads" /\ UploadNext /\ UNCHANGED <<brandVars, storeVars, connVars>>
  /\ UNCHANGED part

MCSpec == MCInit /\ [][MCNext]_mcVars /\ BrandFairness({s1}) /\ StoreFairness

-----------------------------------------------------------------------------
\* Every variable of the four components keeps its type.
WorkspaceTypes == BrandTypeOK /\ StoreTypeOK /\ ConnectionTypeOK /\ UploadTypeOK

\* Every brand revision leaves GENERATING, and every publication of a draft ends
\* or goes back to the queue, through crashes, lost leases and errors.
JobsSettle == GenerationSettles /\ StorePublicationSettles

\* No request waits for a lock for ever, though approving and editing lock brand
\* revisions, and drafts and their workspace, in opposite orders.  Every part
\* treats the handlers of a component alike, so one of each stands for all.
LocksEnd == TransactionEnds(s1) /\ StoreLockEnds(m1)
=============================================================================
