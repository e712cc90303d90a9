------------------------------ MODULE Catalogue ------------------------------
(***************************************************************************)
(* The catalogue pipeline: content, mockup and publication of one product  *)
(* candidate, with the editors, operators and workers of each stage.       *)
(***************************************************************************)
EXTENDS ProductPublication

WriterStep(w) == GenerateContent(w) \/ CompleteContent(w) \/ HandleContentError(w)
RendererStep(w) ==
  ReadDesign(w) \/ CreateTask(w) \/ PollTask(w) \/ CompleteMockup(w) \/ HandleMockupError(w)
PublisherStep(w) == ReadPayload(w) \/ Publish(w) \/ RecordSuccess(w) \/ HandlePublishError(w)

ContentStep ==
  \/ \E w \in Writers : ClaimContent(w) \/ WriterStep(w) \/ WriterCrash(w)
  \/ ContentLeaseExpires \/ ContentFallsDue

EditorStep ==
  \/ \E n \in Contents : ReviseContent(n)
  \/ \E e \in Editors : CommitContentApproval(e) \/ \E n \in Contents : ReadForApproval(e, n)

MockupStep ==
  \/ \E w \in Renderers : \/ RendererStep(w) \/ RendererCrash(w)
                          \/ \E n \in Contents : ClaimMockup(w, n)
  \/ \E n \in Contents : MockupLeaseExpires(n) \/ MockupFallsDue(n)

DesignStep ==
  \/ \E e \in Editors : \/ ReadForDesign(e)
                        \/ \E gate \in {"PASSED", "GUIDELINE_MISSING"} : CommitDesign(e, gate)
  \/ RequeueMockup \/ OverrideResolution

PublicationStep ==
  \/ \E w \in Publishers : \/ PublisherStep(w) \/ PublisherCrash(w)
                           \/ \E n \in Contents : ClaimPublication(w, n)
  \/ \E n \in Contents : PublicationLeaseExpires(n) \/ PublicationFallsDue(n)

CatalogueNext == ContentStep \/ EditorStep \/ MockupStep \/ DesignStep \/ PublicationStep

CatalogueSpec == CatalogueInit /\ [][CatalogueNext]_catalogueVars

\* Publication workers poll, their calls return, time passes; nothing is assumed
\* of crashes, of Shopify or of the operators.
CatalogueFairness ==
  /\ \A w \in Publishers : WF_catalogueVars(PublisherStep(w))
  /\ \A n \in Contents :
       /\ WF_catalogueVars(\E w \in Publishers : ClaimPublication(w, n))
       /\ WF_catalogueVars(PublicationFallsDue(n))
       /\ WF_catalogueVars((\A w \in Publishers : publisher[w].of # n) /\ PublicationLeaseExpires(n))

-----------------------------------------------------------------------------
\* The content of a candidate is stored once, by the worker that held the job,
\* and exactly when the job has succeeded.
ContentOnce == contentJob.status = "SUCCEEDED" <=> content[1] # "NONE"

\* At most one revision is approved, whatever approvals overlap, and each
\* revision that ever was has its publication job.
OneApprovedContent ==
  /\ \A m, n \in Contents : content[m] = "APPROVED" /\ content[n] = "APPROVED" => m = n
  /\ \A n \in Contents : content[n] \in {"APPROVED", "SUPERSEDED"} <=> pubJob[n].status # "ABSENT"

\* A publication is released together with its mockup and never without one, by
\* whichever worker finishes it: none waits for a mockup that is there.
MockupReleasesPublication ==
  \A n \in Contents :
    /\ snapshot[n] # 0 <=> pubJob[n].status \in {"PENDING", "RUNNING", "SUCCEEDED", "FAILED"}
    /\ mockJob[n].status = "SUCCEEDED" => snapshot[n] # 0

\* Printful is never asked to render, and no mockup shows, a design that has not
\* passed the resolution gate, though designs change while workers run.
OnlyVettedDesigns ==
  \A n \in Contents : {mockJob[n].task, snapshot[n]} \subseteq passed \cup {0}

\* Only an attempt that published ends a publication as a success, and the
\* product shows the images of the revision's one mockup.
ProductShowsMockup ==
  \A n \in Contents :
    /\ pubJob[n].status = "SUCCEEDED" => product[n] # 0
    /\ product[n] # 0 => product[n] = snapshot[n]

\* The stages of a product agree on what is approved, rendered and published.
StagesAgree == ContentOnce /\ OneApprovedContent /\ MockupReleasesPublication /\ ProductShowsMockup

\* A publication that has ended never runs again: a worker that lost its lease
\* does not put it back.
PublicationStaysEnded ==
  [][\A n \in Contents : pubJob[n].status \in {"SUCCEEDED", "FAILED"} =>
       pubJob'[n].status = pubJob[n].status]_catalogueVars

\* Closed by no worker: attempt MaxTries + 1 has lost its lease as well.
PublicationStranded(n) == pubJob[n].status = "RUNNING" /\ pubJob[n].attempts > MaxTries

\* A running publication ends or goes back to the queue, whatever becomes of its worker.
PublicationSettles ==
  \A n \in Contents :
    pubJob[n].status = "RUNNING" ~> pubJob[n].status # "RUNNING" \/ PublicationStranded(n)
=============================================================================
