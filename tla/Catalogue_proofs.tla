--------------------------- MODULE Catalogue_proofs ---------------------------
(***************************************************************************)
(* Safety of the catalogue pipeline for any revisions, designs, workers    *)
(* and handlers: the stages of a product agree on what is approved,        *)
(* rendered and published, no design is rendered that has not passed the   *)
(* gate, and a publication that has ended stays so.                        *)
(***************************************************************************)
EXTENDS Catalogue, NaturalsInduction, WellFoundedInduction, FiniteSetTheorems, TLAPS

ContentRow == JobRow(JobStatus, Writers, MaxTries)
ContentStatus == {"NONE", "DRAFT", "APPROVED", "SUPERSEDED"}
Design == [version : 0 .. MaxDesigns, gate : {"NONE", "PASSED", "GUIDELINE_MISSING"}]
WasApproved(n) == content[n] \in {"APPROVED", "SUPERSEDED"}

\* The statuses of a publication whose mockup is there.
Live == {"PENDING", "RUNNING", "SUCCEEDED", "FAILED"}

\* What an open transaction may rely on: the draft it approves is its own; the
\* revision it supersedes, or has found the job of, has been approved; there is one
\* registration at a time, and a number left for it.
EditorsKnow ==
  \A e \in Editors :
    /\ editor[e].kind = "approve" =>
         /\ editor[e].of \in Contents /\ content[editor[e].of] = "DRAFT"
         /\ editor[e].job # 0 => WasApproved(editor[e].job)
         /\ \A f \in Editors \ {e} : editor[f].kind = "approve" => editor[f].of # editor[e].of
    /\ editor[e].kind = "register" =>
         /\ design.version < MaxDesigns /\ \A f \in Editors \ {e} : editor[f].kind # "register"
         /\ editor[e].before \in {"PENDING", "FAILED"} =>
              editor[e].job \in Contents /\ WasApproved(editor[e].job)

\* A renderer holds no design but a vetted one, and one from its request on.
RenderersKnow ==
  \A w \in Renderers :
    /\ renderer[w].pc # "idle" => renderer[w].of \in Contents
    /\ renderer[w].holds \in passed \cup {0}
    /\ renderer[w].pc \in {"done", "send"} => renderer[w].holds # 0

\* A publisher works on a revision whose mockup is there, and sends that one.
PublishersKnow ==
  \A w \in Publishers :
    /\ publisher[w].pc # "idle" => publisher[w].of \in Contents /\ snapshot[publisher[w].of] # 0
    /\ publisher[w].pc = "send" => publisher[w].holds = snapshot[publisher[w].of]
    /\ publisher[w].pc = "done" => product[publisher[w].of] # 0

DesignVetted ==
  /\ design.gate = "PASSED" => design.version \in passed
  /\ design.gate # "NONE" => design.version # 0

\* Mockups are made of approved revisions, publications get the mockup's images.
CatalogueRowsAgree ==
  \A n \in Contents :
    /\ mockJob[n].status # "ABSENT" => WasApproved(n)
    /\ pubJob[n].status # "WAITING_REMOTE"
    /\ snapshot[n] # 0 => pubJob[n].images = snapshot[n]

CatalogueInv == /\ CatalogueTypeOK /\ StagesAgree /\ OnlyVettedDesigns
        /\ EditorsKnow /\ RenderersKnow /\ PublishersKnow /\ DesignVetted /\ CatalogueRowsAgree

-----------------------------------------------------------------------------
(* Sequences, rows and calls.                                               *)

\* A set of naturals that has an element has a least one.
LEMMA LeastOf ==
  ASSUME NEW S, S \subseteq Nat, S # {}
  PROVE  Min(S) \in S
<1>1. PICK x \in S : \A y \in S : ~(<<y, x>> \in OpToRel(<, Nat))
  BY NatLessThanWellFounded, WFMin
<1>2. \A y \in S : ~(<<y, x>> \in {ss \in Nat \X Nat : ss[1] < ss[2]})
  BY <1>1, Zenon DEF OpToRel
<1>3. \A y \in S : x <= y
  <2> SUFFICES ASSUME NEW y \in S, y < x PROVE FALSE
    OBVIOUS
  <2> DEFINE p == <<y, x>>
  <2>1. p \in Nat \X Nat /\ p[1] < p[2]
    OBVIOUS
  <2>2. p \notin {ss \in Nat \X Nat : ss[1] < ss[2]}
    BY <1>2
  <2> HIDE DEF p
  <2> QED  BY <2>1, <2>2
<1> QED  BY <1>3 DEF Min

\* Without a job, the order of the others is a sequence of revisions still.
LEMMA WithoutTyped ==
  ASSUME mockOrder \in Seq(Contents), NEW n
  PROVE  Without(n) \in Seq(Contents)
<1> DEFINE I == {i \in 1 .. Len(mockOrder) : mockOrder[i] = n}
<1>1. CASE I = {}
  BY <1>1 DEF Without, RemoveFirst
<1>2. CASE I # {}
  <2>1. I \subseteq Nat
    OBVIOUS
  <2>2. Min(I) \in 1 .. Len(mockOrder)
    BY <1>2, <2>1, LeastOf
  <2>3. Without(n) = SubSeq(mockOrder, 1, Min(I) - 1) \o SubSeq(mockOrder, Min(I) + 1, Len(mockOrder))
    BY <1>2 DEF Without, RemoveFirst, RemoveAt, SelectInSeq
  <2> DEFINE m == Min(I)
  <2> HIDE DEF I
  <2>4. m \in 1 .. Len(mockOrder) /\ Len(mockOrder) \in Nat
    BY <2>2
  <2> HIDE DEF m
  <2>5. SubSeq(mockOrder, 1, m - 1) \in Seq(Contents) /\ SubSeq(mockOrder, m + 1, Len(mockOrder)) \in Seq(Contents)
    BY <2>4
  <2> QED  BY <2>3, <2>5 DEF m
<1> QED  BY <1>1, <1>2

\* Rows of the mockup queue.
LEMMA TakenMockup ==
  ASSUME NEW j \in MockupRow, NEW w \in Renderers, j.attempts <= MaxTries
  PROVE  LET k == Taken(j, w) IN k \in MockupRow /\ k.status = "RUNNING" /\ k.task = j.task
<1>1. j.attempts + 1 \in 0 .. MaxTries + 1
  BY CatalogueBounds DEF MockupRow
<1> QED  BY <1>1 DEF Taken, MockupRow, JobStatus

LEMMA FreedMockup ==
  ASSUME NEW j \in MockupRow, NEW status \in JobStatus
  PROVE  LET k == Freed(j, status) IN k \in MockupRow /\ k.status = status /\ k.task = j.task
BY DEF Freed, MockupRow

LEMMA LaterMockup ==
  ASSUME NEW j \in MockupRow, NEW status \in JobStatus
  PROVE  LET k == Later(j, status) IN k \in MockupRow /\ k.status = status /\ k.task = j.task
<1> DEFINE f == Freed(j, status)
<1>1. f \in MockupRow /\ f.status = status /\ f.task = j.task
  BY FreedMockup
<1>2. Later(j, status) = [f EXCEPT !.due = FALSE]
  BY DEF Later
<1> HIDE DEF f
<1> QED  BY <1>1, <1>2 DEF MockupRow

LEMMA GivenBackMockup ==
  ASSUME NEW j \in MockupRow
  PROVE  LET k == GivenBack(j) IN k \in MockupRow /\ k.status = j.status /\ k.task = j.task
<1>1. j.attempts \in 0 .. MaxTries + 1
  BY DEF MockupRow
<1>2. (IF j.attempts = 0 THEN 0 ELSE j.attempts - 1) \in 0 .. MaxTries + 1
  BY <1>1, CatalogueBounds
<1> QED  BY <1>2 DEF GivenBack, MockupRow

LEMMA WaitingMockup ==
  ASSUME NEW j \in MockupRow, NEW d \in 0 .. MaxDesigns
  PROVE  LET k == [Later(j, "WAITING_REMOTE") EXCEPT !.task = d]
         IN  k \in MockupRow /\ k.status = "WAITING_REMOTE" /\ k.task = d
<1> DEFINE f == Later(j, "WAITING_REMOTE")  k == [f EXCEPT !.task = d]
<1>1. f \in MockupRow /\ f.status = "WAITING_REMOTE"
  BY LaterMockup DEF JobStatus
<1>2. k \in MockupRow /\ k.status = "WAITING_REMOTE" /\ k.task = d
  <2> HIDE DEF f
  <2> QED  BY <1>1 DEF MockupRow
<1> QED  BY <1>2

LEMMA ResetMockup ==
  ASSUME NEW j \in MockupRow
  PROVE  LET k == Reset(j) IN k \in MockupRow /\ k.status = "PENDING" /\ k.task = 0
<1>1. 0 \in 0 .. MaxTries + 1 /\ 0 \in 0 .. MaxDesigns
  BY CatalogueBounds
<1> QED  BY <1>1 DEF Reset, MockupRow, JobStatus

LEMMA AgainMockup ==
  ASSUME NEW j \in MockupRow
  PROVE  LET k == [Reset(j) EXCEPT !.id = @ + 1] IN k \in MockupRow /\ k.status = "PENDING" /\ k.task = 0
<1> DEFINE r == Reset(j)  k == [r EXCEPT !.id = r.id + 1]
<1>1. r \in MockupRow /\ r.status = "PENDING" /\ r.task = 0 /\ r.id + 1 \in Nat
  BY ResetMockup DEF MockupRow
<1>2. k \in MockupRow /\ k.status = "PENDING" /\ k.task = 0
  <2> HIDE DEF r
  <2> QED  BY <1>1 DEF MockupRow
<1> QED  BY <1>2

LEMMA DroppedMockup ==
  ASSUME NEW j \in MockupRow
  PROVE  LET k == Dropped(j) IN k \in MockupRow /\ k.status = "ABSENT" /\ k.task = 0
<1>1. 0 \in 0 .. MaxTries + 1 /\ 0 \in 0 .. MaxDesigns
  BY CatalogueBounds
<1> QED  BY <1>1 DEF Dropped, MockupRow, JobStatus

\* Rows of the publication queue.
LEMMA TakenPublication ==
  ASSUME NEW j \in PublicationRow, NEW w \in Publishers, j.attempts <= MaxTries
  PROVE  LET k == Taken(j, w) IN k \in PublicationRow /\ k.status = "RUNNING" /\ k.images = j.images
<1>1. j.attempts + 1 \in 0 .. MaxTries + 1
  BY CatalogueBounds DEF PublicationRow
<1> QED  BY <1>1 DEF Taken, PublicationRow, JobStatus

LEMMA FreedPublication ==
  ASSUME NEW j \in PublicationRow, NEW status \in JobStatus
  PROVE  LET k == Freed(j, status) IN k \in PublicationRow /\ k.status = status /\ k.images = j.images
BY DEF Freed, PublicationRow

LEMMA LaterPublication ==
  ASSUME NEW j \in PublicationRow, NEW status \in JobStatus
  PROVE  LET k == Later(j, status) IN k \in PublicationRow /\ k.status = status /\ k.images = j.images
<1> DEFINE f == Freed(j, status)
<1>1. f \in PublicationRow /\ f.status = status /\ f.images = j.images
  BY FreedPublication
<1>2. Later(j, status) = [f EXCEPT !.due = FALSE]
  BY DEF Later
<1> HIDE DEF f
<1> QED  BY <1>1, <1>2 DEF PublicationRow

LEMMA GivenBackPublication ==
  ASSUME NEW j \in PublicationRow
  PROVE  LET k == GivenBack(j) IN k \in PublicationRow /\ k.status = j.status /\ k.images = j.images
<1>1. j.attempts \in 0 .. MaxTries + 1
  BY DEF PublicationRow
<1>2. (IF j.attempts = 0 THEN 0 ELSE j.attempts - 1) \in 0 .. MaxTries + 1
  BY <1>1, CatalogueBounds
<1> QED  BY <1>2 DEF GivenBack, PublicationRow

\* Rows of the content queue.
LEMMA TakenContent ==
  ASSUME NEW j \in ContentRow, NEW w \in Writers, j.attempts <= MaxTries
  PROVE  Taken(j, w) \in ContentRow /\ Taken(j, w).status = "RUNNING"
<1>1. j.attempts + 1 \in 0 .. MaxTries + 1
  BY CatalogueBounds DEF ContentRow, JobRow
<1> QED  BY <1>1 DEF Taken, ContentRow, JobRow, JobStatus

LEMMA FreedContent ==
  ASSUME NEW j \in ContentRow, NEW status \in JobStatus
  PROVE  Freed(j, status) \in ContentRow /\ Freed(j, status).status = status
BY DEF Freed, ContentRow, JobRow

LEMMA LaterContent ==
  ASSUME NEW j \in ContentRow, NEW status \in JobStatus
  PROVE  Later(j, status) \in ContentRow /\ Later(j, status).status = status
<1> DEFINE f == Freed(j, status)
<1>1. f \in ContentRow /\ f.status = status
  BY FreedContent
<1>2. Later(j, status) = [f EXCEPT !.due = FALSE]
  BY DEF Later
<1> HIDE DEF f
<1> QED  BY <1>1, <1>2 DEF ContentRow, JobRow

\* Calls.
LEMMA NoCallTyped == NoCall \in Call /\ NoCall.pc = "idle" /\ NoCall.holds = 0
BY CatalogueBounds DEF NoCall, Call, Errors

LEMMA CallOnTyped ==
  ASSUME NEW n \in Contents, NEW j, j.attempts \in Nat, j.attempts <= MaxTries
  PROVE  LET c == CallOn(n, j) IN c \in Call /\ c.pc = "work" /\ c.of = n /\ c.holds = 0
<1> DEFINE a == j.attempts + 1  idle == NoCall  c == [idle EXCEPT !.pc = "work", !.of = n, !.attempt = a]
<1>1. a \in 0 .. MaxTries + 1 /\ n \in 0 .. MaxContents
  BY CatalogueBounds DEF Contents
<1>2. idle \in Call /\ idle.holds = 0
  BY NoCallTyped
<1>3. CallOn(n, j) = c
  BY DEF CallOn
<1>4. c \in Call /\ c.pc = "work" /\ c.of = n /\ c.holds = 0
  <2> HIDE DEF a, idle
  <2> QED  BY <1>1, <1>2 DEF Call
<1> QED  BY <1>3, <1>4

LEMMA FailingTyped ==
  ASSUME NEW c \in Call, NEW e \in Errors
  PROVE  LET d == Failing(c, e) IN d \in Call /\ d.pc = "error" /\ d.of = c.of /\ d.holds = c.holds
BY DEF Failing, Call

LEMMA CatalogueCallGoes ==
  ASSUME NEW c \in Call, NEW p \in {"work", "send", "done"}
  PROVE  LET d == [c EXCEPT !.pc = p] IN d \in Call /\ d.pc = p /\ d.of = c.of /\ d.holds = c.holds
BY DEF Call

LEMMA CallTakes ==
  ASSUME NEW c \in Call, NEW p \in {"work", "send", "done"}, NEW h \in 0 .. MaxDesigns
  PROVE  LET d == [c EXCEPT !.pc = p, !.holds = h] IN d \in Call /\ d.pc = p /\ d.of = c.of /\ d.holds = h
BY DEF Call

LEMMA NoEditTyped == NoEdit \in Edit /\ NoEdit.kind = "none"
BY CatalogueBounds DEF NoEdit, Edit, JobStatus

\* The type invariant, with its sets named.
LEMMA CatalogueTyped ==
  CatalogueTypeOK =>
    /\ contentJob \in ContentRow /\ content \in [Contents -> ContentStatus] /\ design \in Design
    /\ passed \subseteq Designs /\ mockJob \in [Contents -> MockupRow] /\ mockOrder \in Seq(Contents)
    /\ snapshot \in [Contents -> 0 .. MaxDesigns] /\ pubJob \in [Contents -> PublicationRow]
    /\ product \in [Contents -> 0 .. MaxDesigns]
    /\ writer \in [Writers -> Call] /\ renderer \in [Renderers -> Call]
    /\ publisher \in [Publishers -> Call] /\ editor \in [Editors -> Edit]
BY DEF CatalogueTypeOK, ContentRow, ContentStatus, Design

-----------------------------------------------------------------------------
LEMMA CatalogueInitInv == CatalogueInit => CatalogueInv
<1> SUFFICES ASSUME CatalogueInit PROVE CatalogueInv
  OBVIOUS
<1> DEFINE mock == [status |-> "ABSENT", attempts |-> 0, lockedBy |-> Nil,
                    leased |-> FALSE, due |-> TRUE, id |-> 0, task |-> 0]
           pub == [status |-> "ABSENT", attempts |-> 0, lockedBy |-> Nil,
                   leased |-> FALSE, due |-> TRUE, images |-> 0]
<1>1. /\ mock \in MockupRow /\ mock.status = "ABSENT" /\ mock.task = 0
      /\ pub \in PublicationRow /\ pub.status = "ABSENT" /\ pub.images = 0
  <2>1. 0 \in 0 .. MaxTries + 1 /\ 0 \in 0 .. MaxDesigns /\ 0 \in Nat
    BY CatalogueBounds
  <2> QED  BY <2>1 DEF MockupRow, PublicationRow, JobStatus
<1>2. /\ mockJob = [n \in Contents |-> mock] /\ pubJob = [n \in Contents |-> pub]
      /\ content = [n \in Contents |-> "NONE"]
      /\ snapshot = [n \in Contents |-> 0] /\ product = [n \in Contents |-> 0]
      /\ writer = [w \in Writers |-> NoCall] /\ renderer = [w \in Renderers |-> NoCall]
      /\ publisher = [w \in Publishers |-> NoCall] /\ editor = [e \in Editors |-> NoEdit]
      /\ design = [version |-> 0, gate |-> "NONE"] /\ passed = {} /\ mockOrder = <<>>
      /\ contentJob = NewRow("PENDING")
  BY DEF CatalogueInit
<1> HIDE DEF mock, pub
<1>3. contentJob \in ContentRow /\ contentJob.status = "PENDING"
  BY <1>2, CatalogueBounds DEF NewRow, ContentRow, JobRow, JobStatus
<1>4. design \in Design /\ design.version = 0 /\ design.gate = "NONE"
  BY <1>2, CatalogueBounds DEF Design
<1>5. CatalogueTypeOK
  <2>1. 0 \in 0 .. MaxDesigns
    BY CatalogueBounds
  <2> QED  BY <1>1, <1>2, <1>3, <1>4, <2>1, NoCallTyped, NoEditTyped DEF CatalogueTypeOK, ContentRow, Design
<1>6. ContentOnce /\ OneApprovedContent
  <2>1. 1 \in Contents
    BY CatalogueBounds DEF Contents
  <2> QED  BY <1>1, <1>2, <1>3, <2>1 DEF ContentOnce, OneApprovedContent
<1>7. MockupReleasesPublication /\ ProductShowsMockup /\ OnlyVettedDesigns
  BY <1>1, <1>2 DEF MockupReleasesPublication, ProductShowsMockup, OnlyVettedDesigns
<1>8. EditorsKnow /\ RenderersKnow /\ PublishersKnow
  BY <1>2, NoCallTyped, NoEditTyped DEF EditorsKnow, RenderersKnow, PublishersKnow
<1>9. DesignVetted /\ CatalogueRowsAgree
  BY <1>1, <1>2, <1>4 DEF DesignVetted, CatalogueRowsAgree
<1> QED  BY <1>5, <1>6, <1>7, <1>8, <1>9 DEF CatalogueInv, StagesAgree

-----------------------------------------------------------------------------
(* Content and its editors.                                                 *)

\* Content that is there stays what it is, and none is approved.
LEMMA WriterSide ==
  ASSUME CatalogueInv, UNCHANGED writerFrame, contentJob' \in ContentRow, writer' \in [Writers -> Call],
         content' \in [Contents -> ContentStatus], ContentOnce',
         \A n \in Contents : content[n] # "NONE" \/ content'[n] \notin {"NONE", "DRAFT"} => content'[n] = content[n]
  PROVE  CatalogueInv'
<1>1. UNCHANGED <<design, passed, mockJob, mockOrder, snapshot, pubJob, product, renderer, publisher, editor>>
  BY DEF writerFrame
<1>2. CatalogueTypeOK'
  BY <1>1 DEF CatalogueInv, CatalogueTypeOK, ContentRow, ContentStatus
<1>3. OneApprovedContent'
  BY <1>1 DEF CatalogueInv, StagesAgree, OneApprovedContent
<1>4. (MockupReleasesPublication /\ ProductShowsMockup /\ OnlyVettedDesigns)'
  BY <1>1 DEF CatalogueInv, StagesAgree, MockupReleasesPublication, ProductShowsMockup, OnlyVettedDesigns
<1>5. EditorsKnow'
  <2>1. \A e \in Editors : editor[e].job \in 0 .. MaxContents
    BY CatalogueTyped DEF CatalogueInv, Edit
  <2>2. \A e \in Editors : editor[e].job # 0 => editor[e].job \in Contents
    BY <2>1, CatalogueBounds DEF Contents
  <2>3. \A n \in Contents : content[n] # "NONE" => content'[n] = content[n]
    OBVIOUS
  <2>4. \A e \in Editors : editor[e].kind = "approve" =>
          /\ editor[e].of \in Contents /\ content'[editor[e].of] = "DRAFT"
          /\ editor[e].job # 0 => content'[editor[e].job] \in {"APPROVED", "SUPERSEDED"}
    BY <2>2, <2>3 DEF CatalogueInv, EditorsKnow, WasApproved
  <2>5. \A e \in Editors : editor[e].kind = "register" /\ editor[e].before \in {"PENDING", "FAILED"} =>
          editor[e].job \in Contents /\ content'[editor[e].job] \in {"APPROVED", "SUPERSEDED"}
    BY <2>3 DEF CatalogueInv, EditorsKnow, WasApproved
  <2> QED  BY <1>1, <2>4, <2>5 DEF CatalogueInv, EditorsKnow, WasApproved
<1>6. (RenderersKnow /\ PublishersKnow /\ DesignVetted)'
  BY <1>1 DEF CatalogueInv, RenderersKnow, PublishersKnow, DesignVetted
<1>7. CatalogueRowsAgree'
  BY <1>1 DEF CatalogueInv, CatalogueRowsAgree, WasApproved
<1> QED  BY <1>2, <1>3, <1>4, <1>5, <1>6, <1>7 DEF CatalogueInv, StagesAgree

\* A call of a writer moves on.
LEMMA WriterMoves ==
  ASSUME CatalogueInv, NEW w \in Writers, NEW c \in Call, writer' = [writer EXCEPT ![w] = c]
  PROVE  writer' \in [Writers -> Call]
BY CatalogueTyped DEF CatalogueInv

LEMMA WriterFailing ==
  ASSUME CatalogueInv, NEW w \in Writers, NEW e \in Errors, WriterFails(w, e)
  PROVE  writer' \in [Writers -> Call]
<1>1. writer[w] \in Call /\ writer' = [writer EXCEPT ![w] = Failing(writer[w], e)]
  BY CatalogueTyped DEF CatalogueInv, WriterFails
<1>2. Failing(writer[w], e) \in Call
  BY <1>1, FailingTyped
<1> QED  BY <1>1, <1>2, WriterMoves

LEMMA WriterResting ==
  ASSUME CatalogueInv, NEW w \in Writers, WriterRests(w)
  PROVE  writer' \in [Writers -> Call]
BY NoCallTyped, WriterMoves DEF WriterRests

\* A content row that has not succeeded and does not succeed.
LEMMA ContentRowStep ==
  ASSUME CatalogueInv, contentJob' \in ContentRow, contentJob.status # "SUCCEEDED", contentJob'.status # "SUCCEEDED",
         writer' \in [Writers -> Call], UNCHANGED <<content, writerFrame>>
  PROVE  CatalogueInv'
<1>1. content' \in [Contents -> ContentStatus] /\ UNCHANGED writerFrame
  BY CatalogueTyped DEF CatalogueInv
<1>2. ContentOnce'
  BY DEF CatalogueInv, StagesAgree, ContentOnce
<1> QED  BY <1>1, <1>2, WriterSide

\* A step of a writer that leaves the content's tables alone.
LEMMA WriterOnly ==
  ASSUME CatalogueInv, writer' \in [Writers -> Call], UNCHANGED <<contentJob, content, writerFrame>>
  PROVE  CatalogueInv'
<1>1. content' \in [Contents -> ContentStatus] /\ contentJob' \in ContentRow /\ UNCHANGED writerFrame
  BY CatalogueTyped DEF CatalogueInv
<1>2. ContentOnce'
  BY DEF CatalogueInv, StagesAgree, ContentOnce
<1> QED  BY <1>1, <1>2, WriterSide

LEMMA ClaimContentStep == ASSUME CatalogueInv, NEW w \in Writers, ClaimContent(w) PROVE CatalogueInv'
<1>1. /\ ContentClaimable(contentJob) /\ contentJob' = Taken(contentJob, w) /\ UNCHANGED <<content, writerFrame>>
      /\ writer' = [writer EXCEPT ![w] = IF contentJob.attempts < MaxTries THEN CallOn(1, contentJob)
                                         ELSE Failing(CallOn(1, contentJob), "permanent")]
  BY DEF ClaimContent
<1>2. /\ contentJob \in ContentRow /\ contentJob.attempts \in Nat /\ contentJob.attempts <= MaxTries
      /\ contentJob.status \in {"PENDING", "RUNNING"}
  BY <1>1, CatalogueTyped, CatalogueBounds DEF CatalogueInv, ContentClaimable, ContentRow, JobRow
<1>3. contentJob' \in ContentRow /\ contentJob'.status = "RUNNING"
  BY <1>1, <1>2, TakenContent
<1>4. CallOn(1, contentJob) \in Call
  BY <1>2, CallOnTyped, CatalogueBounds DEF Contents
<1>5. Failing(CallOn(1, contentJob), "permanent") \in Call
  BY <1>4, FailingTyped DEF Errors
<1>6. writer' \in [Writers -> Call]
  BY <1>1, <1>4, <1>5, WriterMoves
<1> QED  BY <1>1, <1>2, <1>3, <1>6, ContentRowStep

LEMMA WriterStepStep == ASSUME CatalogueInv, NEW w \in Writers, WriterStep(w) PROVE CatalogueInv'
<1>1. writer[w] \in Call /\ contentJob \in ContentRow /\ content \in [Contents -> ContentStatus] /\ 1 \in Contents
  BY CatalogueTyped, CatalogueBounds DEF CatalogueInv, Contents
<1>2. CASE GenerateContent(w)
  <2>1. UNCHANGED <<contentJob, content, writerFrame>>
    BY <1>2 DEF GenerateContent
  <2>2. CASE WriterAt(w, "done")
    <3> DEFINE c == [writer[w] EXCEPT !.pc = "done"]
    <3>1. c \in Call
      BY <1>1, CatalogueCallGoes
    <3>2. writer' = [writer EXCEPT ![w] = c]
      BY <2>2, CatalogueTyped DEF CatalogueInv, WriterAt
    <3> HIDE DEF c
    <3> QED  BY <2>1, <3>1, <3>2, WriterMoves, WriterOnly
  <2>3. CASE \E e \in {"transient", "permanent"} : WriterFails(w, e)
    BY <2>1, <2>3, WriterFailing, WriterOnly DEF Errors
  <2> QED  BY <1>2, <2>2, <2>3 DEF GenerateContent
<1>3. CASE CompleteContent(w)
  <2>1. CASE WriterFails(w, "transient") /\ UNCHANGED <<content, contentJob>> /\ UNCHANGED writerFrame
    BY <2>1, WriterFailing, WriterOnly DEF Errors
  <2>2. CASE /\ content[1] = "NONE" /\ content' = [content EXCEPT ![1] = "DRAFT"]
             /\ contentJob' = Freed(contentJob, "SUCCEEDED") /\ (WriterRests(w) \/ WriterFails(w, "transient"))
             /\ UNCHANGED writerFrame
    <3>1. writer' \in [Writers -> Call]
      BY <2>2, WriterResting, WriterFailing DEF Errors
    <3>2. contentJob' \in ContentRow /\ contentJob'.status = "SUCCEEDED"
      BY <1>1, <2>2, FreedContent DEF JobStatus
    <3>3. content' \in [Contents -> ContentStatus] /\ content'[1] = "DRAFT"
      BY <1>1, <2>2 DEF ContentStatus
    <3>4. \A n \in Contents : content[n] # "NONE" \/ content'[n] \notin {"NONE", "DRAFT"} => content'[n] = content[n]
      BY <1>1, <2>2
    <3> QED  BY <2>2, <3>1, <3>2, <3>3, <3>4, WriterSide DEF ContentOnce
  <2> QED  BY <1>3, <2>1, <2>2 DEF CompleteContent
<1>4. CASE HandleContentError(w)
  <2>1. writer' \in [Writers -> Call] /\ UNCHANGED <<content, writerFrame>>
    BY <1>4, WriterResting DEF HandleContentError
  <2>2. CASE UNCHANGED contentJob
    BY <2>1, <2>2, WriterOnly
  <2>3. CASE Holds(contentJob, w) /\ \E row \in {Later(contentJob, "PENDING"), Freed(contentJob, "FAILED")} : contentJob' = row
    <3>1. contentJob' \in ContentRow /\ contentJob'.status \in {"PENDING", "FAILED"}
      BY <1>1, <2>3, LaterContent, FreedContent DEF JobStatus
    <3>2. contentJob.status = "RUNNING"
      BY <2>3 DEF Holds
    <3> QED  BY <2>1, <3>1, <3>2, ContentRowStep
  <2> QED  BY <1>4, <2>2, <2>3 DEF HandleContentError
<1> QED  BY <1>2, <1>3, <1>4 DEF WriterStep

LEMMA ContentClockStep == ASSUME CatalogueInv, ContentLeaseExpires \/ ContentFallsDue PROVE CatalogueInv'
<1>1. UNCHANGED <<content, writer, writerFrame>>
  BY DEF ContentLeaseExpires, ContentFallsDue
<1>2. contentJob' \in ContentRow /\ contentJob'.status = contentJob.status
  BY CatalogueTyped DEF CatalogueInv, ContentLeaseExpires, ContentFallsDue, ContentRow, JobRow
<1>3. content' \in [Contents -> ContentStatus] /\ writer' \in [Writers -> Call] /\ UNCHANGED writerFrame
  BY <1>1, CatalogueTyped DEF CatalogueInv
<1>4. ContentOnce'
  BY <1>1, <1>2 DEF CatalogueInv, StagesAgree, ContentOnce
<1> QED  BY <1>1, <1>2, <1>3, <1>4, WriterSide

LEMMA ReviseStep == ASSUME CatalogueInv, NEW n \in Contents, ReviseContent(n) PROVE CatalogueInv'
<1>1. /\ content' = [content EXCEPT ![n] = "DRAFT"] /\ content[1] # "NONE" /\ content[n] = "NONE"
      /\ UNCHANGED <<contentJob, writer>> /\ UNCHANGED writerFrame
  BY DEF ReviseContent, writerFrame
<1>2. /\ content' \in [Contents -> ContentStatus] /\ contentJob' \in ContentRow /\ writer' \in [Writers -> Call]
      /\ 1 \in Contents
  BY <1>1, CatalogueTyped, CatalogueBounds DEF CatalogueInv, ContentStatus, Contents
<1>3. \A m \in Contents : content[m] # "NONE" \/ content'[m] \notin {"NONE", "DRAFT"} => content'[m] = content[m]
  BY <1>1, CatalogueTyped DEF CatalogueInv
<1>4. ContentOnce'
  BY <1>1, <1>2, <1>3 DEF CatalogueInv, StagesAgree, ContentOnce
<1> QED  BY <1>1, <1>2, <1>3, <1>4, WriterSide

\* A transaction of a handler begins; it has read what its record says.
LEMMA EditorOnly ==
  ASSUME CatalogueInv, editor' \in [Editors -> Edit], EditorsKnow', UNCHANGED <<jobVars, writer, renderer, publisher>>
  PROVE  CatalogueInv'
<1>1. UNCHANGED <<contentJob, content, design, passed, mockJob, mockOrder, snapshot, pubJob, product>>
  BY DEF jobVars
<1>2. CatalogueTypeOK'
  BY <1>1 DEF CatalogueInv, CatalogueTypeOK
<1>3. (StagesAgree /\ OnlyVettedDesigns)'
  BY <1>1 DEF CatalogueInv, StagesAgree, ContentOnce, OneApprovedContent, MockupReleasesPublication, ProductShowsMockup,
     OnlyVettedDesigns
<1>4. (RenderersKnow /\ PublishersKnow /\ DesignVetted /\ CatalogueRowsAgree)'
  BY <1>1 DEF CatalogueInv, RenderersKnow, PublishersKnow, DesignVetted, CatalogueRowsAgree, WasApproved
<1> QED  BY <1>2, <1>3, <1>4 DEF CatalogueInv

LEMMA ReadForApprovalStep == ASSUME CatalogueInv, NEW e \in Editors, NEW n \in Contents, ReadForApproval(e, n) PROVE CatalogueInv'
<1> DEFINE j == IF \E m \in Contents : content[m] = "APPROVED"
                THEN CHOOSE m \in Contents : content[m] = "APPROVED" ELSE 0
           b == IF design.version = 0 THEN "ABSENT" ELSE "PENDING"
           none == NoEdit
           t == [none EXCEPT !.kind = "approve", !.of = n, !.before = b, !.job = j]
<1>1. j \in 0 .. MaxContents /\ (j # 0 => WasApproved(j)) /\ n \in 0 .. MaxContents
  BY CatalogueBounds DEF WasApproved, Contents
<1>2. none \in Edit /\ b \in JobStatus
  BY NoEditTyped DEF JobStatus
<1>3. editor' = [editor EXCEPT ![e] = t] /\ UNCHANGED <<jobVars, writer, renderer, publisher>>
  BY DEF ReadForApproval
<1>4. t \in Edit /\ t.kind = "approve" /\ t.of = n /\ t.job = j
  <2> HIDE DEF j, b, none
  <2> QED  BY <1>1, <1>2 DEF Edit
<1> HIDE DEF t, j
<1>5. /\ editor' \in [Editors -> Edit] /\ editor'[e] = t
      /\ \A f \in Editors : f # e => editor'[f] = editor[f]
  BY <1>3, <1>4, CatalogueTyped DEF CatalogueInv
<1>6. content[n] = "DRAFT" /\ (\A f \in Editors : ~(editor[f].kind = "approve" /\ editor[f].of = n)) /\ n \in Contents
  BY DEF ReadForApproval
<1>7. UNCHANGED <<content, design>>
  BY <1>3 DEF jobVars
<1>8. EditorsKnow'
  BY <1>1, <1>4, <1>5, <1>6, <1>7 DEF CatalogueInv, EditorsKnow, WasApproved
<1> QED  BY <1>3, <1>5, <1>8, EditorOnly

LEMMA ReadForDesignStep == ASSUME CatalogueInv, NEW e \in Editors, ReadForDesign(e) PROVE CatalogueInv'
<1> DEFINE j == IF mockOrder = <<>> THEN 0 ELSE Latest
           b == LatestStatus
           none == NoEdit
           t == [none EXCEPT !.kind = "register", !.before = b, !.job = j]
<1>1. mockOrder # <<>> => Latest \in Contents /\ (mockJob[Latest].status # "ABSENT" => WasApproved(Latest))
  <2>1. mockOrder \in Seq(Contents)
    BY CatalogueTyped DEF CatalogueInv
  <2> QED  BY <2>1 DEF Latest, CatalogueInv, CatalogueRowsAgree
<1>2. /\ j \in 0 .. MaxContents /\ b \in {"ABSENT", "PENDING", "FAILED"}
      /\ b # "ABSENT" => j \in Contents /\ WasApproved(j)
  BY <1>1, CatalogueBounds DEF Contents, ReadForDesign, LatestStatus
<1>3. none \in Edit
  BY NoEditTyped
<1>4. editor' = [editor EXCEPT ![e] = t] /\ UNCHANGED <<jobVars, writer, renderer, publisher>>
  BY DEF ReadForDesign
<1>5. t \in Edit /\ t.kind = "register" /\ t.before = b /\ t.job = j
  <2> HIDE DEF j, b, none
  <2> QED  BY <1>2, <1>3 DEF Edit, JobStatus
<1> HIDE DEF t, j, b
<1>6. /\ editor' \in [Editors -> Edit] /\ editor'[e] = t
      /\ \A f \in Editors : f # e => editor'[f] = editor[f]
  BY <1>4, <1>5, CatalogueTyped DEF CatalogueInv
<1>7. design.version < MaxDesigns /\ \A f \in Editors : editor[f].kind # "register"
  BY DEF ReadForDesign
<1>8. UNCHANGED <<content, design>>
  BY <1>4 DEF jobVars
<1>9. EditorsKnow'
  BY <1>2, <1>5, <1>6, <1>7, <1>8 DEF CatalogueInv, EditorsKnow, WasApproved
<1> QED  BY <1>4, <1>6, <1>9, EditorOnly

\* A mockup job is inserted, unless the revision has one.
LEMMA QueueMockupRow ==
  ASSUME CatalogueInv, NEW n \in Contents, QueueMockup(n)
  PROVE  /\ mockJob' \in [Contents -> MockupRow] /\ mockOrder' \in Seq(Contents)
         /\ \A m \in Contents : m # n => mockJob'[m] = mockJob[m]
         /\ \/ mockJob'[n] = mockJob[n]
            \/ mockJob'[n].status = "PENDING" /\ mockJob'[n].task = 0
<1>1. mockJob \in [Contents -> MockupRow] /\ mockOrder \in Seq(Contents)
  BY CatalogueTyped DEF CatalogueInv
<1>2. CASE UNCHANGED <<mockJob, mockOrder>>
  BY <1>1, <1>2
<1>3. CASE mockJob[n].status = "ABSENT"
  <2> DEFINE row == [status |-> "PENDING", attempts |-> 0, lockedBy |-> Nil,
                     leased |-> FALSE, due |-> TRUE, id |-> mockJob[n].id + 1, task |-> 0]
  <2>1. row \in MockupRow /\ row.status = "PENDING" /\ row.task = 0
    <3>1. mockJob[n].id + 1 \in Nat /\ 0 \in 0 .. MaxTries + 1 /\ 0 \in 0 .. MaxDesigns
      BY <1>1, CatalogueBounds DEF MockupRow
    <3> QED  BY <3>1 DEF MockupRow, JobStatus
  <2>2. mockJob' = [mockJob EXCEPT ![n] = row] /\ mockOrder' = Append(mockOrder, n)
    BY <1>3 DEF QueueMockup
  <2> HIDE DEF row
  <2> QED  BY <1>1, <2>1, <2>2
<1> QED  BY <1>2, <1>3 DEF QueueMockup

\* A draft is approved: it gets its publication job and, if there is a design, its
\* mockup job; the revision approved before is superseded.
LEMMA CommitApprovalStep == ASSUME CatalogueInv, NEW e \in Editors, CommitContentApproval(e) PROVE CatalogueInv'
<1> DEFINE n == editor[e].of  j == editor[e].job
<1>1. /\ n \in Contents /\ content[n] = "DRAFT" /\ (j # 0 => WasApproved(j)) /\ j # n
      /\ editor[e].kind = "approve" /\ j \in 0 .. MaxContents
  <2>1. editor[e].kind = "approve"
    BY DEF CommitContentApproval
  <2>2. j \in 0 .. MaxContents
    BY CatalogueTyped DEF CatalogueInv, Edit
  <2>3. n \in Contents /\ content[n] = "DRAFT" /\ (j # 0 => WasApproved(j))
    BY <2>1 DEF CatalogueInv, EditorsKnow
  <2>4. j # n
    BY <2>3, CatalogueBounds DEF WasApproved, Contents
  <2> QED  BY <2>1, <2>2, <2>3, <2>4
<1>2. /\ editor' = [editor EXCEPT ![e] = NoEdit]
      /\ UNCHANGED <<contentJob, design, passed, snapshot, product, writer, renderer, publisher>>
  BY DEF CommitContentApproval
<1>3. /\ editor' \in [Editors -> Edit] /\ editor'[e].kind = "none"
      /\ \A f \in Editors : f # e => editor'[f] = editor[f]
  BY <1>2, NoEditTyped, CatalogueTyped DEF CatalogueInv
<1>4. CASE UNCHANGED <<content, pubJob, mockJob, mockOrder>>
  <2>1. UNCHANGED <<jobVars, writer, renderer, publisher>>
    BY <1>2, <1>4 DEF jobVars
  <2>2. EditorsKnow'
    BY <1>2, <1>3, <1>4 DEF CatalogueInv, EditorsKnow, WasApproved
  <2> QED  BY <1>3, <2>1, <2>2, EditorOnly
<1>5. CASE /\ ~ApprovedMeanwhile(e)
           /\ content' = [m \in Contents |-> IF m = n THEN "APPROVED"
                                             ELSE IF m = j THEN "SUPERSEDED" ELSE content[m]]
           /\ QueuePublication(n)
           /\ QueueMockup(n) \/ UNCHANGED <<mockJob, mockOrder>>
  <2> HIDE DEF n, j
  <2>1. /\ content' \in [Contents -> ContentStatus] /\ content'[n] = "APPROVED"
        /\ \A m \in Contents : m # n => content'[m] = IF m = j THEN "SUPERSEDED" ELSE content[m]
    BY <1>1, <1>5, CatalogueTyped DEF CatalogueInv, ContentStatus
  <2>2. \A m \in Contents : content'[m] \in {"APPROVED", "SUPERSEDED"} <=> m = n \/ WasApproved(m)
    BY <1>1, <2>1, CatalogueBounds DEF WasApproved, Contents
  <2>3. pubJob[n].status = "ABSENT" /\ mockJob[n].status = "ABSENT"
    BY <1>1 DEF CatalogueInv, StagesAgree, OneApprovedContent, CatalogueRowsAgree, WasApproved
  <2>4. snapshot[n] = 0
    BY <1>1, <2>3 DEF CatalogueInv, StagesAgree, MockupReleasesPublication
  <2>5. /\ pubJob' \in [Contents -> PublicationRow] /\ pubJob'[n].status = "WAITING_FOR_MOCKUP"
        /\ \A m \in Contents : m # n => pubJob'[m] = pubJob[m]
    <3> DEFINE row == [pubJob[n] EXCEPT !.status = "WAITING_FOR_MOCKUP"]
    <3>1. pubJob \in [Contents -> PublicationRow]
      BY CatalogueTyped DEF CatalogueInv
    <3>2. row \in PublicationRow /\ row.status = "WAITING_FOR_MOCKUP"
      BY <1>1, <3>1 DEF PublicationRow, JobStatus
    <3>3. pubJob' = [pubJob EXCEPT ![n] = row]
      BY <1>1, <1>5, <2>3, <3>1 DEF QueuePublication
    <3> HIDE DEF row
    <3> QED  BY <1>1, <3>1, <3>2, <3>3
  <2>6. /\ mockJob' \in [Contents -> MockupRow] /\ mockOrder' \in Seq(Contents)
        /\ \A m \in Contents : m # n => mockJob'[m] = mockJob[m]
        /\ mockJob'[n] = mockJob[n] \/ (mockJob'[n].status = "PENDING" /\ mockJob'[n].task = 0)
    BY <1>1, <1>5, QueueMockupRow, CatalogueTyped DEF CatalogueInv
  <2>7. CatalogueTypeOK'
    BY <1>2, <1>3, <2>1, <2>5, <2>6 DEF CatalogueInv, CatalogueTypeOK, ContentStatus
  <2>8. ContentOnce'
    <3>1. 1 \in Contents
      BY CatalogueBounds DEF Contents
    <3>2. content'[1] # "NONE" <=> content[1] # "NONE"
      BY <1>1, <2>1, <3>1 DEF WasApproved
    <3> QED  BY <1>2, <3>2 DEF CatalogueInv, StagesAgree, ContentOnce
  <2>9. OneApprovedContent'
    <3>1. \A m \in Contents : content'[m] = "APPROVED" => m = n
      BY <1>5, <2>1 DEF ApprovedMeanwhile, j
    <3>2. \A m \in Contents : content'[m] \in {"APPROVED", "SUPERSEDED"} <=> pubJob'[m].status # "ABSENT"
      BY <2>2, <2>5 DEF CatalogueInv, StagesAgree, OneApprovedContent, WasApproved
    <3> QED  BY <3>1, <3>2 DEF OneApprovedContent
  <2>10. MockupReleasesPublication' /\ OnlyVettedDesigns'
    BY <1>2, <2>3, <2>4, <2>5, <2>6 DEF CatalogueInv, StagesAgree, MockupReleasesPublication, OnlyVettedDesigns
  <2>11. ProductShowsMockup'
    BY <1>2, <2>5 DEF CatalogueInv, StagesAgree, ProductShowsMockup
  <2>12. EditorsKnow'
    <3>1. \A f \in Editors \ {e} : editor[f].kind = "approve" =>
            editor[f].of \in Contents /\ content[editor[f].of] = "DRAFT" /\ editor[f].of # n
      BY <1>1 DEF CatalogueInv, EditorsKnow, n
    <3>2. \A f \in Editors \ {e} : editor[f].kind = "approve" => content'[editor[f].of] = "DRAFT"
      BY <1>1, <2>1, <3>1, CatalogueBounds DEF WasApproved, Contents
    <3>3. \A f \in Editors \ {e} : editor[f].kind = "approve" /\ editor[f].job # 0 =>
            editor[f].job \in Contents /\ WasApproved(editor[f].job)
      <4>1. \A f \in Editors : editor[f].job \in 0 .. MaxContents
        BY CatalogueTyped DEF CatalogueInv, Edit
      <4> QED  BY <4>1, CatalogueBounds DEF CatalogueInv, EditorsKnow, Contents
    <3>4. \A f \in Editors \ {e} : editor[f].kind = "approve" /\ editor[f].job # 0 =>
            content'[editor[f].job] \in {"APPROVED", "SUPERSEDED"}
      BY <2>2, <3>3
    <3>5. \A f \in Editors : editor[f].kind = "register" /\ editor[f].before \in {"PENDING", "FAILED"} =>
            editor[f].job \in Contents /\ content'[editor[f].job] \in {"APPROVED", "SUPERSEDED"}
      BY <2>2 DEF CatalogueInv, EditorsKnow
    <3> QED  BY <1>2, <1>3, <3>1, <3>2, <3>4, <3>5 DEF CatalogueInv, EditorsKnow, WasApproved
  <2>13. (RenderersKnow /\ PublishersKnow /\ DesignVetted)'
    BY <1>2 DEF CatalogueInv, RenderersKnow, PublishersKnow, DesignVetted
  <2>14. CatalogueRowsAgree'
    BY <1>2, <2>2, <2>4, <2>5, <2>6 DEF CatalogueInv, CatalogueRowsAgree, WasApproved
  <2> QED  BY <2>7, <2>8, <2>9, <2>10, <2>11, <2>12, <2>13, <2>14 DEF CatalogueInv, StagesAgree
<1> QED  BY <1>4, <1>5 DEF CommitContentApproval

-----------------------------------------------------------------------------
(* Designs and mockups.                                                     *)

\* What the mockup queue, the design and their actors may do to the rows while no
\* snapshot is taken.
LEMMA MockupSide ==
  ASSUME CatalogueInv, UNCHANGED <<contentJob, content, snapshot, pubJob, product, writer, publisher>>,
         mockJob' \in [Contents -> MockupRow], mockOrder' \in Seq(Contents),
         \A n \in Contents : /\ mockJob'[n].status # "ABSENT" => WasApproved(n)
                             /\ mockJob'[n].status = "SUCCEEDED" => snapshot[n] # 0
                             /\ mockJob'[n].task \in passed' \cup {0},
         passed \subseteq passed', passed' \subseteq Designs, design' \in Design, DesignVetted',
         editor' \in [Editors -> Edit], EditorsKnow',
         renderer' \in [Renderers -> Call], RenderersKnow'
  PROVE  CatalogueInv'
<1>1. CatalogueTypeOK'
  BY DEF CatalogueInv, CatalogueTypeOK, Design
<1>2. (ContentOnce /\ OneApprovedContent /\ ProductShowsMockup /\ PublishersKnow)'
  BY DEF CatalogueInv, StagesAgree, ContentOnce, OneApprovedContent, ProductShowsMockup, PublishersKnow
<1>3. (MockupReleasesPublication /\ OnlyVettedDesigns)'
  BY DEF CatalogueInv, StagesAgree, MockupReleasesPublication, OnlyVettedDesigns
<1>4. CatalogueRowsAgree'
  BY DEF CatalogueInv, CatalogueRowsAgree, WasApproved
<1> QED  BY <1>1, <1>2, <1>3, <1>4 DEF CatalogueInv, StagesAgree

\* The design and the handlers stay as they are.
LEMMA SameDesign ==
  ASSUME CatalogueInv, UNCHANGED <<content, design, passed, editor>>
  PROVE  /\ passed' = passed /\ passed' \subseteq Designs /\ design' \in Design /\ DesignVetted'
         /\ editor' \in [Editors -> Edit] /\ EditorsKnow'
BY CatalogueTyped DEF CatalogueInv, DesignVetted, EditorsKnow, WasApproved

LEMMA SameRenderers ==
  ASSUME CatalogueInv, UNCHANGED renderer, passed \subseteq passed'
  PROVE  renderer' \in [Renderers -> Call] /\ RenderersKnow'
BY CatalogueTyped DEF CatalogueInv, RenderersKnow

\* What a row of the queue has to say.
LEMMA SameMockups ==
  ASSUME CatalogueInv
  PROVE  /\ mockJob \in [Contents -> MockupRow] /\ mockOrder \in Seq(Contents)
         /\ \A n \in Contents : /\ mockJob[n].status # "ABSENT" => WasApproved(n)
                                /\ mockJob[n].status = "SUCCEEDED" => snapshot[n] # 0
                                /\ mockJob[n].task \in passed \cup {0}
BY CatalogueTyped DEF CatalogueInv, CatalogueRowsAgree, StagesAgree, MockupReleasesPublication, OnlyVettedDesigns

\* One row of a job that exists changes.
LEMMA MockupRowStep ==
  ASSUME CatalogueInv, NEW n \in Contents, NEW row \in MockupRow, mockJob' = [mockJob EXCEPT ![n] = row],
         mockJob[n].status # "ABSENT" \/ row.status = "ABSENT",
         row.status = "SUCCEEDED" => snapshot[n] # 0, row.task \in passed \cup {0},
         renderer' \in [Renderers -> Call], RenderersKnow',
         UNCHANGED <<contentJob, content, design, passed, mockOrder, snapshot, pubJob, product,
                     writer, publisher, editor>>
  PROVE  CatalogueInv'
<1>1. /\ mockJob' \in [Contents -> MockupRow] /\ mockJob'[n] = row
      /\ \A m \in Contents : m # n => mockJob'[m] = mockJob[m]
  BY SameMockups
<1>2. \A m \in Contents : /\ mockJob'[m].status # "ABSENT" => WasApproved(m)
                          /\ mockJob'[m].status = "SUCCEEDED" => snapshot[m] # 0
                          /\ mockJob'[m].task \in passed' \cup {0}
  BY <1>1, SameMockups
<1>3. mockOrder' \in Seq(Contents)
  BY SameMockups
<1> QED  BY <1>1, <1>2, <1>3, SameDesign, MockupSide

\* A call of a renderer moves on, fails or ends.
LEMMA RendererMoves ==
  ASSUME CatalogueInv, UNCHANGED passed, NEW w \in Renderers, NEW c \in Call, renderer' = [renderer EXCEPT ![w] = c],
         c.pc # "idle" => c.of \in Contents, c.holds \in passed \cup {0}, c.pc \in {"done", "send"} => c.holds # 0
  PROVE  renderer' \in [Renderers -> Call] /\ RenderersKnow'
<1>1. /\ renderer' \in [Renderers -> Call] /\ renderer'[w] = c
      /\ \A v \in Renderers : v # w => renderer'[v] = renderer[v]
  BY CatalogueTyped DEF CatalogueInv
<1> QED  BY <1>1 DEF CatalogueInv, RenderersKnow

LEMMA RendererFailing ==
  ASSUME CatalogueInv, UNCHANGED passed, NEW w \in Renderers, NEW e \in Errors, renderer[w].pc # "idle", RendererFails(w, e)
  PROVE  renderer' \in [Renderers -> Call] /\ RenderersKnow'
<1> DEFINE d == Failing(renderer[w], e)
<1>1. renderer[w] \in Call /\ renderer' = [renderer EXCEPT ![w] = d]
  BY CatalogueTyped DEF CatalogueInv, RendererFails
<1>2. d \in Call /\ d.pc = "error" /\ d.of = renderer[w].of /\ d.holds = renderer[w].holds
  BY <1>1, FailingTyped
<1> HIDE DEF d
<1>3. renderer[w].of \in Contents /\ renderer[w].holds \in passed \cup {0}
  BY DEF CatalogueInv, RenderersKnow
<1> QED  BY <1>1, <1>2, <1>3, RendererMoves

LEMMA RendererResting ==
  ASSUME CatalogueInv, UNCHANGED passed, NEW w \in Renderers, RendererRests(w)
  PROVE  renderer' \in [Renderers -> Call] /\ RenderersKnow'
BY NoCallTyped, RendererMoves DEF RendererRests

LEMMA RendererOnly ==
  ASSUME CatalogueInv, renderer' \in [Renderers -> Call], RenderersKnow',
         UNCHANGED <<mockJob, snapshot, pubJob, rendererFrame>>
  PROVE  CatalogueInv'
<1>1. UNCHANGED <<contentJob, content, design, passed, mockOrder, product, writer, publisher, editor,
                  mockJob, snapshot, pubJob>>
  BY DEF rendererFrame
<1>2. /\ mockJob' \in [Contents -> MockupRow] /\ mockOrder' \in Seq(Contents)
      /\ \A n \in Contents : /\ mockJob'[n].status # "ABSENT" => WasApproved(n)
                             /\ mockJob'[n].status = "SUCCEEDED" => snapshot[n] # 0
                             /\ mockJob'[n].task \in passed' \cup {0}
  BY <1>1, SameMockups
<1> QED  BY <1>1, <1>2, SameDesign, MockupSide

LEMMA ClaimMockupStep == ASSUME CatalogueInv, NEW w \in Renderers, NEW n \in Contents, ClaimMockup(w, n) PROVE CatalogueInv'
<1> DEFINE j == mockJob[n]  k == Taken(j, w)
<1>1. /\ j \in MockupRow /\ j.attempts \in Nat /\ j.attempts <= MaxTries /\ j.status # "ABSENT"
      /\ j.id \in Nat /\ j.task \in 0 .. MaxDesigns /\ j.task \in passed \cup {0}
  BY SameMockups, CatalogueBounds DEF ClaimMockup, MockupClaimable, MockupRow
<1>2. k \in MockupRow /\ k.status = "RUNNING" /\ k.task = j.task
  BY <1>1, TakenMockup
<1>3. /\ mockJob' = [mockJob EXCEPT ![n] = k]
      /\ UNCHANGED <<contentJob, content, design, passed, mockOrder, snapshot, pubJob, product,
                     writer, publisher, editor>>
  BY DEF ClaimMockup, rendererFrame
<1> DEFINE o == CallOn(n, j)  p == IF j.task = 0 THEN "work" ELSE "send"
           c == [o EXCEPT !.id = j.id, !.holds = j.task, !.pc = p]
<1>4. o \in Call /\ o.of = n
  BY <1>1, CallOnTyped
<1>5. p \in {"work", "send"} /\ (p = "send" => j.task # 0)
  OBVIOUS
<1>6. renderer' = [renderer EXCEPT ![w] = c]
  BY DEF ClaimMockup
<1>7. c \in Call /\ c.pc = p /\ c.of = n /\ c.holds = j.task
  <2> HIDE DEF o, p, j
  <2> QED  BY <1>1, <1>4, <1>5 DEF Call
<1> HIDE DEF c, k, p
<1>8. renderer' \in [Renderers -> Call] /\ RenderersKnow'
  BY <1>1, <1>3, <1>5, <1>6, <1>7, RendererMoves
<1> QED  BY <1>1, <1>2, <1>3, <1>8, MockupRowStep

\* Only a design that has passed the gate enters a request.
LEMMA ReadDesignStep == ASSUME CatalogueInv, NEW w \in Renderers, ReadDesign(w) PROVE CatalogueInv'
<1>1. /\ renderer[w].pc = "work" /\ UNCHANGED <<mockJob, snapshot, pubJob, rendererFrame>> /\ UNCHANGED passed
      /\ renderer[w] \in Call /\ renderer[w].of \in Contents
  BY CatalogueTyped DEF ReadDesign, rendererFrame, CatalogueInv, RenderersKnow
<1>2. CASE \E e \in Errors : RendererFails(w, e)
  BY <1>1, <1>2, RendererFailing, RendererOnly
<1>3. CASE SafeDesign /\ renderer' = [renderer EXCEPT ![w].pc = "done", ![w].holds = design.version]
  <2> DEFINE old == renderer[w]  v == design.version  c == [old EXCEPT !.pc = "done", !.holds = v]
  <2>1. v \in passed /\ v # 0 /\ v \in 0 .. MaxDesigns
    BY <1>3, CatalogueTyped DEF CatalogueInv, DesignVetted, SafeDesign, Design
  <2>2. renderer' = [renderer EXCEPT ![w] = c]
    BY <1>3, CatalogueTyped DEF CatalogueInv
  <2>3. c \in Call /\ c.pc = "done" /\ c.of = old.of /\ c.holds = v
    <3>1. old \in Call
      BY <1>1
    <3> HIDE DEF old, v
    <3> QED  BY <2>1, <3>1, CallTakes
  <2> HIDE DEF c
  <2>4. renderer' \in [Renderers -> Call] /\ RenderersKnow'
    BY <1>1, <2>1, <2>2, <2>3, RendererMoves
  <2> QED  BY <1>1, <2>4, RendererOnly
<1> QED  BY <1>2, <1>3 DEF ReadDesign, Errors

\* A task is created or polled: the row of the worker that owns it keeps the task.
LEMMA TaskStep == ASSUME CatalogueInv, NEW w \in Renderers, CreateTask(w) \/ PollTask(w) PROVE CatalogueInv'
<1> DEFINE n == renderer[w].of  j == mockJob[n]
           row == [Later(j, "WAITING_REMOTE") EXCEPT !.task = renderer[w].holds]
<1>1. /\ renderer[w].pc \in {"done", "send"} /\ n \in Contents /\ renderer[w].holds \in passed
      /\ UNCHANGED <<snapshot, pubJob, rendererFrame>> /\ UNCHANGED passed
  BY DEF CreateTask, PollTask, CatalogueInv, RenderersKnow, rendererFrame
<1>2. CASE (\E e \in Errors : RendererFails(w, e)) /\ UNCHANGED mockJob
  BY <1>1, <1>2, RendererFailing, RendererOnly
<1>3. CASE RendererRests(w) /\ UNCHANGED mockJob
  BY <1>1, <1>3, RendererResting, RendererOnly
<1>4. CASE RendererRests(w) /\ OwnsMockup(w) /\ SetMockup(w, row)
  <2>1. renderer' \in [Renderers -> Call] /\ RenderersKnow'
    BY <1>1, <1>4, RendererResting
  <2>2. j \in MockupRow /\ renderer[w].holds \in 0 .. MaxDesigns
    BY <1>1, SameMockups, CatalogueTyped DEF CatalogueInv, Call
  <2>3. row \in MockupRow /\ row.status = "WAITING_REMOTE" /\ row.task = renderer[w].holds
    BY <2>2, WaitingMockup
  <2>4. mockJob' = [mockJob EXCEPT ![n] = row] /\ mockJob[n].status # "ABSENT"
    BY <1>4 DEF SetMockup, OwnsMockup
  <2>5. UNCHANGED <<contentJob, content, design, passed, mockOrder, snapshot, pubJob, product,
                    writer, publisher, editor>>
    BY <1>1 DEF rendererFrame
  <2> HIDE DEF row, n
  <2> QED  BY <1>1, <2>1, <2>3, <2>4, <2>5, MockupRowStep
<1> QED  BY <1>1, <1>2, <1>3, <1>4 DEF CreateTask, PollTask, Errors

\* The snapshot, the job and the waiting publication in one transaction.
LEMMA CompleteMockupStep == ASSUME CatalogueInv, NEW w \in Renderers, CompleteMockup(w) PROVE CatalogueInv'
<1> DEFINE n == renderer[w].of  h == renderer[w].holds
           row == IF OwnsMockup(w) THEN Freed(mockJob[n], "SUCCEEDED") ELSE mockJob[n]
<1>1. /\ renderer[w].pc = "send" /\ n \in Contents /\ h \in passed /\ h # 0 /\ h \in 0 .. MaxDesigns
      /\ UNCHANGED rendererFrame /\ UNCHANGED passed
  BY CatalogueTyped DEF CompleteMockup, CatalogueInv, RenderersKnow, rendererFrame, Call
<1>2. CASE RendererFails(w, "permanent") /\ UNCHANGED <<mockJob, snapshot, pubJob>>
  <2>1. renderer' \in [Renderers -> Call] /\ RenderersKnow'
    BY <1>1, <1>2, RendererFailing DEF Errors
  <2> QED  BY <1>1, <1>2, <2>1, RendererOnly
<1>3. CASE /\ mockJob[n].status # "ABSENT" /\ snapshot[n] = 0
           /\ snapshot' = [snapshot EXCEPT ![n] = h] /\ mockJob' = [mockJob EXCEPT ![n] = row]
           /\ pubJob' = [pubJob EXCEPT ![n] = Released(n, h)]
           /\ RendererRests(w) \/ RendererFails(w, "permanent")
  <2>1. renderer' \in [Renderers -> Call] /\ RenderersKnow'
    BY <1>1, <1>3, RendererResting, RendererFailing DEF Errors
  <2>2. row \in MockupRow /\ row.status # "ABSENT" /\ row.task = mockJob[n].task
    BY <1>1, <1>3, SameMockups, FreedMockup DEF JobStatus
  <2>3. UNCHANGED <<contentJob, content, design, passed, mockOrder, product, writer, publisher, editor>>
    BY <1>1 DEF rendererFrame
  <2> HIDE DEF row, n, h
  <2>4. /\ mockJob' \in [Contents -> MockupRow] /\ mockJob'[n] = row
        /\ \A m \in Contents : m # n => mockJob'[m] = mockJob[m]
    BY <1>1, <1>3, <2>2, SameMockups
  <2>5. /\ snapshot' \in [Contents -> 0 .. MaxDesigns] /\ snapshot'[n] = h
        /\ \A m \in Contents : m # n => snapshot'[m] = snapshot[m]
    BY <1>1, <1>3, CatalogueTyped DEF CatalogueInv
  <2>6. pubJob[n].status = "WAITING_FOR_MOCKUP"
    <3>1. pubJob[n].status # "ABSENT" /\ pubJob[n].status # "WAITING_REMOTE"
      BY <1>1, <1>3 DEF CatalogueInv, CatalogueRowsAgree, WasApproved, StagesAgree, OneApprovedContent
    <3>2. pubJob[n].status \notin {"PENDING", "RUNNING", "SUCCEEDED", "FAILED"}
      BY <1>1, <1>3 DEF CatalogueInv, StagesAgree, MockupReleasesPublication
    <3>3. pubJob[n].status \in JobStatus
      BY <1>1, CatalogueTyped DEF CatalogueInv, PublicationRow
    <3> QED  BY <3>1, <3>2, <3>3 DEF JobStatus
  <2> DEFINE pub == [pubJob[n] EXCEPT !.status = "PENDING", !.images = h, !.due = TRUE]
  <2>7. pub \in PublicationRow /\ pub.status = "PENDING" /\ pub.images = h
    BY <1>1, CatalogueTyped DEF CatalogueInv, PublicationRow, JobStatus
  <2>8. pubJob' = [pubJob EXCEPT ![n] = pub]
    BY <1>3, <2>6 DEF Released
  <2> HIDE DEF pub
  <2>9. /\ pubJob' \in [Contents -> PublicationRow] /\ pubJob'[n] = pub
        /\ \A m \in Contents : m # n => pubJob'[m] = pubJob[m]
    BY <1>1, <2>7, <2>8, CatalogueTyped DEF CatalogueInv
  <2>10. CatalogueTypeOK'
    BY <2>1, <2>3, <2>4, <2>5, <2>9 DEF CatalogueInv, CatalogueTypeOK
  <2>11. (ContentOnce /\ OneApprovedContent)'
    BY <2>3, <2>6, <2>7, <2>9 DEF CatalogueInv, StagesAgree, ContentOnce, OneApprovedContent
  <2>12. MockupReleasesPublication'
    BY <1>1, <2>4, <2>5, <2>7, <2>9 DEF CatalogueInv, StagesAgree, MockupReleasesPublication
  <2>13. ProductShowsMockup'
    BY <1>3, <2>3, <2>5, <2>7, <2>9 DEF CatalogueInv, StagesAgree, ProductShowsMockup
  <2>14. OnlyVettedDesigns'
    BY <1>1, <2>2, <2>3, <2>4, <2>5 DEF CatalogueInv, OnlyVettedDesigns
  <2>15. PublishersKnow'
    <3>1. \A v \in Publishers : publisher[v].pc # "idle" => publisher[v].of \in Contents /\ publisher[v].of # n
      BY <1>3 DEF CatalogueInv, PublishersKnow
    <3> QED  BY <2>3, <2>5, <3>1 DEF CatalogueInv, PublishersKnow
  <2>16. (EditorsKnow /\ DesignVetted)'
    BY <2>3 DEF CatalogueInv, EditorsKnow, DesignVetted, WasApproved
  <2>17. CatalogueRowsAgree'
    BY <1>3, <2>2, <2>3, <2>4, <2>5, <2>7, <2>9 DEF CatalogueInv, CatalogueRowsAgree, WasApproved
  <2> QED  BY <2>1, <2>10, <2>11, <2>12, <2>13, <2>14, <2>15, <2>16, <2>17 DEF CatalogueInv, StagesAgree
<1> QED  BY <1>1, <1>2, <1>3 DEF CompleteMockup, SetMockup

LEMMA MockupErrorStep == ASSUME CatalogueInv, NEW w \in Renderers, HandleMockupError(w) PROVE CatalogueInv'
<1> DEFINE n == renderer[w].of  j == mockJob[n]
<1>1. /\ n \in Contents /\ j \in MockupRow /\ RendererRests(w)
      /\ UNCHANGED <<snapshot, pubJob, rendererFrame>> /\ UNCHANGED passed
  BY SameMockups DEF HandleMockupError, CatalogueInv, RenderersKnow, rendererFrame
<1>2. renderer' \in [Renderers -> Call] /\ RenderersKnow'
  BY <1>1, RendererResting
<1>3. CASE UNCHANGED mockJob
  BY <1>1, <1>2, <1>3, RendererOnly
<1>4. CASE OwnsMockup(w) /\ \E row \in MockupRow :
             SetMockup(w, row) /\ row.status \notin {"ABSENT", "SUCCEEDED"} /\ row.task = j.task
  <2>1. PICK row \in MockupRow :
          SetMockup(w, row) /\ row.status \notin {"ABSENT", "SUCCEEDED"} /\ row.task = j.task
    BY <1>4
  <2>2. mockJob' = [mockJob EXCEPT ![n] = row] /\ mockJob[n].status # "ABSENT"
    BY <1>4, <2>1 DEF SetMockup, OwnsMockup
  <2>3. row.task \in passed \cup {0}
    BY <1>1, <2>1, SameMockups
  <2>4. UNCHANGED <<contentJob, content, design, passed, mockOrder, snapshot, pubJob, product,
                    writer, publisher, editor>>
    BY <1>1 DEF rendererFrame
  <2> HIDE DEF n
  <2> QED  BY <1>1, <1>2, <2>1, <2>2, <2>3, <2>4, MockupRowStep
<1>5. Parked(j) \in {"PENDING", "WAITING_REMOTE"}
  BY DEF Parked
<1>6. \A status \in {"PENDING", "WAITING_REMOTE"} :
        LET k == Later(j, status) IN k \in MockupRow /\ k.status = status /\ k.task = j.task
  BY <1>1, LaterMockup DEF JobStatus
<1>7. \A status \in {"PENDING", "WAITING_REMOTE"} :
        LET k == GivenBack(Later(j, status)) IN k \in MockupRow /\ k.status = status /\ k.task = j.task
  BY <1>6, GivenBackMockup
<1>8. LET k == Freed(j, "FAILED") IN k \in MockupRow /\ k.status = "FAILED" /\ k.task = j.task
  BY <1>1, FreedMockup DEF JobStatus
<1> QED  BY <1>3, <1>4, <1>5, <1>6, <1>7, <1>8 DEF HandleMockupError

LEMMA MockupClockStep == ASSUME CatalogueInv, NEW n \in Contents, MockupLeaseExpires(n) \/ MockupFallsDue(n) PROVE CatalogueInv'
<1>1. UNCHANGED <<contentJob, content, design, passed, mockOrder, snapshot, pubJob, product,
                  writer, renderer, publisher, editor>>
  BY DEF MockupLeaseExpires, MockupFallsDue, rendererFrame
<1>2. mockJob[n] \in MockupRow
  BY SameMockups
<1>3. PICK row \in MockupRow : /\ mockJob' = [mockJob EXCEPT ![n] = row]
                               /\ row.status = mockJob[n].status /\ row.task = mockJob[n].task
  <2>1. CASE MockupLeaseExpires(n)
    <3> DEFINE row == [mockJob[n] EXCEPT !.leased = FALSE]
    <3>1. row \in MockupRow /\ row.status = mockJob[n].status /\ row.task = mockJob[n].task
      BY <1>2 DEF MockupRow
    <3>2. mockJob' = [mockJob EXCEPT ![n] = row]
      BY <2>1 DEF MockupLeaseExpires
    <3> QED  BY <3>1, <3>2
  <2>2. CASE MockupFallsDue(n)
    <3> DEFINE row == [mockJob[n] EXCEPT !.due = TRUE]
    <3>1. row \in MockupRow /\ row.status = mockJob[n].status /\ row.task = mockJob[n].task
      BY <1>2 DEF MockupRow
    <3>2. mockJob' = [mockJob EXCEPT ![n] = row]
      BY <2>2 DEF MockupFallsDue
    <3> QED  BY <3>1, <3>2
  <2> QED  BY <2>1, <2>2
<1>4. renderer' \in [Renderers -> Call] /\ RenderersKnow'
  BY <1>1, SameRenderers
<1> QED  BY <1>1, <1>3, <1>4, SameMockups, MockupRowStep

LEMMA CrashStep ==
  ASSUME CatalogueInv, \/ \E w \in Writers : WriterCrash(w)
               \/ \E w \in Renderers : RendererCrash(w)
  PROVE  CatalogueInv'
<1>1. CASE \E w \in Writers : WriterCrash(w)
  BY <1>1, WriterResting, WriterOnly DEF WriterCrash
<1>2. CASE \E w \in Renderers : RendererCrash(w)
  BY <1>2, RendererResting, RendererOnly DEF RendererCrash, rendererFrame
<1> QED  BY <1>1, <1>2

-----------------------------------------------------------------------------
(* Designs, and the operator's handlers.                                    *)

\* The one registration ends: whatever it did to the design, nobody relies on it.
LEMMA RegistrationEnds ==
  ASSUME CatalogueInv, NEW e \in Editors, editor[e].kind = "register", editor' = [editor EXCEPT ![e] = NoEdit],
         UNCHANGED content
  PROVE  editor' \in [Editors -> Edit] /\ EditorsKnow'
<1>1. /\ editor' \in [Editors -> Edit] /\ editor'[e].kind = "none"
      /\ \A f \in Editors : f # e => editor'[f] = editor[f]
  BY NoEditTyped, CatalogueTyped DEF CatalogueInv
<1>2. \A f \in Editors \ {e} : editor[f].kind # "register"
  BY DEF CatalogueInv, EditorsKnow
<1> QED  BY <1>1, <1>2 DEF CatalogueInv, EditorsKnow, WasApproved

\* The jobs a registration leaves are jobs of approved revisions, and those it has
\* touched have no task.
LEMMA DesignJobsLeave ==
  ASSUME CatalogueInv, NEW e \in Editors, NEW gate, editor[e].kind = "register", DesignJobs(e, gate)
  PROVE  /\ mockJob' \in [Contents -> MockupRow] /\ mockOrder' \in Seq(Contents)
         /\ \A m \in Contents : \/ mockJob'[m] = mockJob[m]
                                \/ mockJob'[m].status = "ABSENT" /\ mockJob'[m].task = 0
                                \/ /\ mockJob'[m].status = "PENDING" /\ mockJob'[m].task = 0
                                   /\ WasApproved(m)
<1> DEFINE n == editor[e].job  before == editor[e].before
           approved == {m \in Contents : content[m] = "APPROVED" /\ mockJob[m].status = "ABSENT"}
<1>1. mockJob \in [Contents -> MockupRow] /\ mockOrder \in Seq(Contents)
  BY SameMockups
<1>2. before = "PENDING" => n \in Contents
  BY DEF CatalogueInv, EditorsKnow
<1>3. CASE UNCHANGED <<mockJob, mockOrder>>
  BY <1>1, <1>3
<1>4. CASE before = "PENDING" /\ mockJob' = [mockJob EXCEPT ![n] = Dropped(@)] /\ mockOrder' = Without(n)
  <2> DEFINE row == Dropped(mockJob[n])
  <2>1. row \in MockupRow /\ row.status = "ABSENT" /\ row.task = 0
    BY <1>1, <1>2, <1>4, DroppedMockup
  <2>2. mockJob' = [mockJob EXCEPT ![n] = row]
    BY <1>4
  <2>3. mockOrder' \in Seq(Contents)
    BY <1>1, <1>4, WithoutTyped
  <2> HIDE DEF row
  <2> QED  BY <1>1, <1>2, <1>4, <2>1, <2>2, <2>3
<1>5. CASE /\ mockJob' = [m \in Contents |->
                IF m \in approved THEN [Reset(mockJob[m]) EXCEPT !.id = @ + 1]
                ELSE IF m = n /\ before = "FAILED" THEN Reset(mockJob[m]) ELSE mockJob[m]]
           /\ mockOrder' = IF approved = {} THEN mockOrder ELSE Append(mockOrder, CHOOSE m \in approved : TRUE)
  <2>1. mockOrder' \in Seq(Contents)
    BY <1>1, <1>5
  <2>2. ASSUME NEW m \in Contents
        PROVE  /\ mockJob'[m] \in MockupRow
               /\ \/ mockJob'[m] = mockJob[m]
                  \/ /\ mockJob'[m].status = "PENDING" /\ mockJob'[m].task = 0
                     /\ WasApproved(m)
    <3> DEFINE again == [Reset(mockJob[m]) EXCEPT !.id = @ + 1]
    <3>1. again \in MockupRow /\ again.status = "PENDING" /\ again.task = 0
      BY <1>1, AgainMockup
    <3>2. Reset(mockJob[m]) \in MockupRow /\ Reset(mockJob[m]).status = "PENDING" /\ Reset(mockJob[m]).task = 0
      BY <1>1, ResetMockup
    <3>3. mockJob'[m] = IF m \in approved THEN again
                       ELSE IF m = n /\ before = "FAILED" THEN Reset(mockJob[m]) ELSE mockJob[m]
      BY <1>5
    <3>4. m \in approved \/ (m = n /\ before = "FAILED") => WasApproved(m)
      BY DEF CatalogueInv, EditorsKnow, WasApproved
    <3> HIDE DEF again
    <3> QED  BY <1>1, <3>1, <3>2, <3>3, <3>4
  <2>3. mockJob' \in [Contents -> MockupRow]
    BY <1>5, <2>2
  <2> QED  BY <2>1, <2>2, <2>3
<1> QED  BY <1>3, <1>4, <1>5 DEF DesignJobs

\* A step of a registration or an operator: it changes jobs of approved revisions
\* and may let a design pass.
LEMMA DesignSide ==
  ASSUME CatalogueInv, UNCHANGED operatorFrame,
         mockJob' \in [Contents -> MockupRow], mockOrder' \in Seq(Contents),
         \A m \in Contents : \/ mockJob'[m] = mockJob[m]
                             \/ mockJob'[m].status = "ABSENT" /\ mockJob'[m].task = 0
                             \/ mockJob'[m].status = "PENDING" /\ mockJob'[m].task = 0 /\ WasApproved(m),
         passed \subseteq passed', passed' \subseteq Designs, design' \in Design, DesignVetted',
         editor' \in [Editors -> Edit], EditorsKnow'
  PROVE  CatalogueInv'
<1>1. UNCHANGED <<contentJob, content, snapshot, pubJob, product, writer, publisher>> /\ UNCHANGED renderer
  BY DEF operatorFrame
<1>2. \A m \in Contents : /\ mockJob'[m].status # "ABSENT" => WasApproved(m)
                          /\ mockJob'[m].status = "SUCCEEDED" => snapshot[m] # 0
                          /\ mockJob'[m].task \in passed' \cup {0}
  BY SameMockups
<1>3. renderer' \in [Renderers -> Call] /\ RenderersKnow'
  BY <1>1, SameRenderers
<1> QED  BY <1>1, <1>2, <1>3, MockupSide

LEMMA CommitDesignStep ==
  ASSUME CatalogueInv, NEW e \in Editors, NEW gate \in {"PASSED", "GUIDELINE_MISSING"}, CommitDesign(e, gate)
  PROVE  CatalogueInv'
<1> DEFINE v == design.version + 1
<1>1. /\ editor[e].kind = "register" /\ editor' = [editor EXCEPT ![e] = NoEdit]
      /\ UNCHANGED operatorFrame /\ UNCHANGED content
  BY DEF CommitDesign, operatorFrame
<1>2. editor' \in [Editors -> Edit] /\ EditorsKnow'
  BY <1>1, RegistrationEnds
<1>3. design \in Design /\ passed \subseteq Designs /\ design.version \in 0 .. MaxDesigns
  BY CatalogueTyped DEF CatalogueInv, Design
<1>4. CASE UNCHANGED <<design, passed, mockJob, mockOrder>>
  <2>1. DesignVetted'
    BY <1>4 DEF CatalogueInv, DesignVetted
  <2>2. mockJob' \in [Contents -> MockupRow] /\ mockOrder' \in Seq(Contents)
    BY <1>4, SameMockups
  <2> QED  BY <1>1, <1>2, <1>3, <1>4, <2>1, <2>2, DesignSide
<1>5. CASE /\ DesignJobs(e, gate) /\ design' = [version |-> v, gate |-> gate]
           /\ passed' = IF gate = "PASSED" THEN passed \cup {v} ELSE passed
  <2>1. v \in Designs /\ v \in 0 .. MaxDesigns /\ v # 0
    <3>1. design.version < MaxDesigns
      BY <1>1 DEF CatalogueInv, EditorsKnow
    <3> QED  BY <1>3, <3>1, CatalogueBounds DEF Designs
  <2> HIDE DEF v
  <2>2. design' \in Design /\ design'.version = v /\ design'.gate = gate
    BY <1>5, <2>1 DEF Design
  <2>3. passed \subseteq passed' /\ passed' \subseteq Designs /\ (gate = "PASSED" => v \in passed')
    BY <1>3, <1>5, <2>1
  <2>4. DesignVetted'
    BY <2>1, <2>2, <2>3 DEF DesignVetted
  <2> QED  BY <1>1, <1>2, <1>5, <2>2, <2>3, <2>4, DesignJobsLeave, DesignSide
<1> QED  BY <1>4, <1>5 DEF CommitDesign

LEMMA CatalogueRequeueStep == ASSUME CatalogueInv, RequeueMockup PROVE CatalogueInv'
<1> DEFINE row == Reset(mockJob[Latest])
<1>1. mockJob \in [Contents -> MockupRow] /\ mockOrder \in Seq(Contents) /\ mockOrder # <<>>
  BY SameMockups DEF RequeueMockup
<1>2. Latest \in Contents
  BY <1>1 DEF Latest
<1>3. row \in MockupRow /\ row.status = "PENDING" /\ row.task = 0
  BY <1>1, <1>2, ResetMockup
<1>4. WasApproved(Latest)
  BY <1>2, SameMockups DEF RequeueMockup
<1>5. mockJob' = [mockJob EXCEPT ![Latest] = row] /\ UNCHANGED <<design, passed, mockOrder, editor, operatorFrame>>
  BY DEF RequeueMockup
<1> HIDE DEF row
<1>6. /\ mockJob' \in [Contents -> MockupRow]
      /\ \A m \in Contents : \/ mockJob'[m] = mockJob[m]
                             \/ mockJob'[m].status = "PENDING" /\ mockJob'[m].task = 0 /\ WasApproved(m)
  BY <1>1, <1>2, <1>3, <1>4, <1>5
<1>7. UNCHANGED <<content, design, passed, editor>> /\ UNCHANGED operatorFrame
  BY <1>5 DEF operatorFrame
<1> QED  BY <1>1, <1>5, <1>6, <1>7, SameDesign, DesignSide

LEMMA OverrideStep == ASSUME CatalogueInv, OverrideResolution PROVE CatalogueInv'
<1> DEFINE approved == {m \in Contents : content[m] = "APPROVED"}
<1>1. /\ design.gate = "GUIDELINE_MISSING" /\ design' = [design EXCEPT !.gate = "PASSED"]
      /\ passed' = passed \cup {design.version} /\ \A e \in Editors : editor[e].kind # "register"
      /\ UNCHANGED editor /\ UNCHANGED operatorFrame /\ UNCHANGED content
  BY DEF OverrideResolution, operatorFrame
<1>2. design \in Design /\ passed \subseteq Designs /\ design.version \in Designs
  BY <1>1, CatalogueTyped, CatalogueBounds DEF CatalogueInv, DesignVetted, Design, Designs
<1>3. /\ design' \in Design /\ design'.version = design.version /\ design'.gate = "PASSED"
      /\ passed \subseteq passed' /\ passed' \subseteq Designs /\ design.version \in passed' /\ design.version # 0
  BY <1>1, <1>2, CatalogueBounds DEF Design, Designs
<1>4. DesignVetted' /\ editor' \in [Editors -> Edit] /\ EditorsKnow'
  BY <1>1, <1>3, CatalogueTyped DEF CatalogueInv, DesignVetted, EditorsKnow, WasApproved
<1>5. /\ mockJob' \in [Contents -> MockupRow] /\ mockOrder' \in Seq(Contents)
      /\ \A m \in Contents : \/ mockJob'[m] = mockJob[m]
                             \/ mockJob'[m].status = "PENDING" /\ mockJob'[m].task = 0 /\ WasApproved(m)
  <2>1. CASE approved = {}
    BY <1>1, <2>1, SameMockups DEF OverrideResolution
  <2>2. CASE approved # {}
    <3> DEFINE n == CHOOSE m \in approved : TRUE
    <3>1. n \in Contents /\ content[n] = "APPROVED"
      BY <2>2
    <3>2. QueueMockup(n)
      BY <2>2 DEF OverrideResolution
    <3> HIDE DEF n
    <3> QED  BY <3>1, <3>2, QueueMockupRow DEF WasApproved
  <2> QED  BY <2>1, <2>2
<1> QED  BY <1>1, <1>3, <1>4, <1>5, DesignSide

-----------------------------------------------------------------------------
(* Publications.                                                            *)

\* What a publication worker may do: jobs whose mockup is there move among the
\* statuses of such jobs, and succeed with a product that shows the mockup.
LEMMA PublicationSide ==
  ASSUME CatalogueInv, UNCHANGED publisherFrame, pubJob' \in [Contents -> PublicationRow],
         product' \in [Contents -> 0 .. MaxDesigns], publisher' \in [Publishers -> Call], PublishersKnow',
         \A n \in Contents : /\ pubJob'[n].images = pubJob[n].images
                             /\ \/ pubJob'[n].status = pubJob[n].status
                                \/ {pubJob[n].status, pubJob'[n].status} \subseteq Live
                             /\ pubJob'[n].status = "SUCCEEDED" => product'[n] # 0
                             /\ product'[n] # 0 => product'[n] = snapshot[n]
  PROVE  CatalogueInv'
<1>1. UNCHANGED <<contentJob, content, design, passed, mockJob, mockOrder, snapshot, writer, renderer, editor>>
  BY DEF publisherFrame
<1>2. CatalogueTypeOK'
  BY <1>1 DEF CatalogueInv, CatalogueTypeOK
<1>3. (ContentOnce /\ OneApprovedContent /\ MockupReleasesPublication)'
  BY <1>1 DEF CatalogueInv, StagesAgree, ContentOnce, OneApprovedContent, MockupReleasesPublication, Live
<1>4. ProductShowsMockup' /\ OnlyVettedDesigns'
  BY <1>1 DEF CatalogueInv, ProductShowsMockup, OnlyVettedDesigns
<1>5. (EditorsKnow /\ RenderersKnow /\ DesignVetted)'
  BY <1>1 DEF CatalogueInv, EditorsKnow, RenderersKnow, DesignVetted, WasApproved
<1>6. CatalogueRowsAgree'
  BY <1>1 DEF CatalogueInv, CatalogueRowsAgree, WasApproved, Live
<1> QED  BY <1>2, <1>3, <1>4, <1>5, <1>6 DEF CatalogueInv, StagesAgree

\* What a publication job and its product have to say.
LEMMA SamePublications ==
  ASSUME CatalogueInv
  PROVE  /\ pubJob \in [Contents -> PublicationRow] /\ product \in [Contents -> 0 .. MaxDesigns]
         /\ publisher \in [Publishers -> Call]
         /\ \A n \in Contents : /\ pubJob[n].status \in Live <=> snapshot[n] # 0
                                /\ snapshot[n] # 0 => pubJob[n].images = snapshot[n]
                                /\ pubJob[n].status = "SUCCEEDED" => product[n] # 0
                                /\ product[n] # 0 => product[n] = snapshot[n]
BY CatalogueTyped DEF CatalogueInv, CatalogueRowsAgree, StagesAgree, MockupReleasesPublication, ProductShowsMockup, Live

\* The job of one publication whose mockup is there changes.
LEMMA PublicationRowStep ==
  ASSUME CatalogueInv, NEW n \in Contents, NEW row \in PublicationRow, pubJob' = [pubJob EXCEPT ![n] = row],
         row.images = pubJob[n].images,
         row.status = pubJob[n].status \/ {pubJob[n].status, row.status} \subseteq Live,
         row.status = "SUCCEEDED" => product[n] # 0,
         publisher' \in [Publishers -> Call], PublishersKnow', UNCHANGED <<product, publisherFrame>>
  PROVE  CatalogueInv'
<1>1. /\ pubJob' \in [Contents -> PublicationRow] /\ pubJob'[n] = row
      /\ \A m \in Contents : m # n => pubJob'[m] = pubJob[m]
  BY SamePublications
<1>2. \A m \in Contents : /\ pubJob'[m].images = pubJob[m].images
                          /\ \/ pubJob'[m].status = pubJob[m].status
                             \/ {pubJob[m].status, pubJob'[m].status} \subseteq Live
                          /\ pubJob'[m].status = "SUCCEEDED" => product'[m] # 0
                          /\ product'[m] # 0 => product'[m] = snapshot[m]
  BY <1>1, SamePublications
<1>3. product' \in [Contents -> 0 .. MaxDesigns] /\ UNCHANGED publisherFrame
  BY SamePublications
<1> QED  BY <1>1, <1>2, <1>3, PublicationSide

\* A call of a publisher moves on, fails or ends.
LEMMA PublisherMoves ==
  ASSUME CatalogueInv, UNCHANGED snapshot, NEW w \in Publishers, NEW c \in Call,
         publisher' = [publisher EXCEPT ![w] = c],
         \A n \in Contents : product[n] # 0 => product'[n] # 0,
         c.pc # "idle" => c.of \in Contents /\ snapshot[c.of] # 0,
         c.pc = "send" => c.holds = snapshot[c.of], c.pc = "done" => product'[c.of] # 0
  PROVE  publisher' \in [Publishers -> Call] /\ PublishersKnow'
<1>1. /\ publisher' \in [Publishers -> Call] /\ publisher'[w] = c
      /\ \A v \in Publishers : v # w => publisher'[v] = publisher[v]
  BY SamePublications
<1> QED  BY <1>1 DEF CatalogueInv, PublishersKnow

LEMMA PublisherFailing ==
  ASSUME CatalogueInv, UNCHANGED snapshot, NEW w \in Publishers, NEW e \in Errors, publisher[w].pc # "idle",
         PublisherFails(w, e), \A n \in Contents : product[n] # 0 => product'[n] # 0
  PROVE  publisher' \in [Publishers -> Call] /\ PublishersKnow'
<1> DEFINE d == Failing(publisher[w], e)
<1>1. publisher[w] \in Call /\ publisher' = [publisher EXCEPT ![w] = d]
  BY CatalogueTyped DEF CatalogueInv, PublisherFails
<1>2. d \in Call /\ d.pc = "error" /\ d.of = publisher[w].of
  BY <1>1, FailingTyped
<1> HIDE DEF d
<1>3. publisher[w].of \in Contents /\ snapshot[publisher[w].of] # 0
  BY DEF CatalogueInv, PublishersKnow
<1> QED  BY <1>1, <1>2, <1>3, PublisherMoves

LEMMA PublisherResting ==
  ASSUME CatalogueInv, UNCHANGED <<snapshot, product>>, NEW w \in Publishers, PublisherRests(w)
  PROVE  publisher' \in [Publishers -> Call] /\ PublishersKnow'
BY NoCallTyped, PublisherMoves DEF PublisherRests

LEMMA PublisherOnly ==
  ASSUME CatalogueInv, publisher' \in [Publishers -> Call], PublishersKnow', UNCHANGED <<pubJob, product, publisherFrame>>
  PROVE  CatalogueInv'
BY SamePublications, PublicationSide

LEMMA ClaimPublicationStep == ASSUME CatalogueInv, NEW w \in Publishers, NEW n \in Contents, ClaimPublication(w, n) PROVE CatalogueInv'
<1> DEFINE j == pubJob[n]  k == Taken(j, w)  c == CallOn(n, j)
<1>1. /\ j \in PublicationRow /\ j.attempts \in Nat /\ j.attempts <= MaxTries /\ j.status \in {"PENDING", "RUNNING"}
      /\ pubJob' = [pubJob EXCEPT ![n] = k] /\ publisher' = [publisher EXCEPT ![w] = c]
      /\ UNCHANGED <<product, publisherFrame>> /\ UNCHANGED snapshot
  BY SamePublications, CatalogueBounds DEF ClaimPublication, PublicationClaimable, PublicationRow, publisherFrame
<1>2. k \in PublicationRow /\ k.status = "RUNNING" /\ k.images = j.images
  BY <1>1, TakenPublication
<1>3. c \in Call /\ c.pc = "work" /\ c.of = n
  BY <1>1, CallOnTyped
<1>4. snapshot[n] # 0
  BY <1>1, SamePublications DEF Live
<1> HIDE DEF c, k
<1>5. publisher' \in [Publishers -> Call] /\ PublishersKnow'
  BY <1>1, <1>3, <1>4, PublisherMoves
<1> QED  BY <1>1, <1>2, <1>5, PublicationRowStep DEF Live

\* The images read are those of the mockup.
LEMMA ReadPayloadStep == ASSUME CatalogueInv, NEW w \in Publishers, ReadPayload(w) PROVE CatalogueInv'
<1>1. /\ publisher[w].pc = "work" /\ UNCHANGED <<pubJob, product, publisherFrame>> /\ UNCHANGED snapshot
      /\ publisher[w] \in Call /\ publisher[w].of \in Contents /\ snapshot[publisher[w].of] # 0
  BY SamePublications DEF ReadPayload, publisherFrame, CatalogueInv, PublishersKnow
<1>2. CASE \E e \in {"permanent", "transient"} : PublisherFails(w, e)
  BY <1>1, <1>2, PublisherFailing, PublisherOnly DEF Errors
<1>3. CASE publisher' = [publisher EXCEPT ![w].pc = "send", ![w].holds = pubJob[publisher[w].of].images]
  <2>1. PICK old \in Call, h \in 0 .. MaxDesigns :
          old = publisher[w] /\ h = pubJob[old.of].images /\ h = snapshot[old.of]
    BY <1>1, SamePublications, CatalogueTyped DEF CatalogueInv
  <2> DEFINE c == [old EXCEPT !.pc = "send", !.holds = h]
  <2>2. publisher' = [publisher EXCEPT ![w] = c]
    BY <1>3, <2>1, SamePublications
  <2>3. c \in Call /\ c.pc = "send" /\ c.of = old.of /\ c.holds = h
    BY DEF Call
  <2> HIDE DEF c
  <2>4. publisher' \in [Publishers -> Call] /\ PublishersKnow'
    BY <1>1, <2>1, <2>2, <2>3, PublisherMoves
  <2> QED  BY <1>1, <2>4, PublisherOnly
<1> QED  BY <1>2, <1>3 DEF ReadPayload

\* The product gets the images of its mockup, whether or not the answer arrives.
LEMMA PublishStep == ASSUME CatalogueInv, NEW w \in Publishers, Publish(w) PROVE CatalogueInv'
<1> DEFINE n == publisher[w].of
<1>1. /\ publisher[w].pc = "send" /\ UNCHANGED <<pubJob, publisherFrame>> /\ UNCHANGED publisherFrame
      /\ UNCHANGED snapshot /\ UNCHANGED pubJob
      /\ publisher[w] \in Call /\ n \in Contents /\ snapshot[n] # 0 /\ publisher[w].holds = snapshot[n]
  BY SamePublications DEF Publish, publisherFrame, CatalogueInv, PublishersKnow
<1>2. CASE (\E e \in Errors : PublisherFails(w, e)) /\ UNCHANGED product
  BY <1>1, <1>2, PublisherFailing, PublisherOnly
<1>3. CASE /\ product' = [product EXCEPT ![n] = snapshot[n]]
           /\ publisher' = [publisher EXCEPT ![w].pc = "done"] \/ PublisherFails(w, "transient")
  <2>1. /\ product' \in [Contents -> 0 .. MaxDesigns] /\ product'[n] = snapshot[n]
        /\ \A m \in Contents : m # n => product'[m] = product[m]
    BY <1>1, <1>3, SamePublications, CatalogueTyped DEF CatalogueInv
  <2>2. \A m \in Contents : product[m] # 0 => product'[m] # 0
    BY <1>1, <2>1
  <2>3. publisher' \in [Publishers -> Call] /\ PublishersKnow'
    <3>1. CASE PublisherFails(w, "transient")
      BY <1>1, <2>2, <3>1, PublisherFailing DEF Errors
    <3>2. CASE publisher' = [publisher EXCEPT ![w].pc = "done"]
      <4> DEFINE c == [publisher[w] EXCEPT !.pc = "done"]
      <4>1. c \in Call /\ c.pc = "done" /\ c.of = n
        BY <1>1, CatalogueCallGoes
      <4>2. publisher' = [publisher EXCEPT ![w] = c]
        BY <3>2, SamePublications
      <4> HIDE DEF c, n
      <4> QED  BY <1>1, <2>1, <2>2, <4>1, <4>2, PublisherMoves
    <3> QED  BY <1>3, <3>1, <3>2
  <2>4. \A m \in Contents : /\ pubJob'[m].status = "SUCCEEDED" => product'[m] # 0
                            /\ product'[m] # 0 => product'[m] = snapshot[m]
    BY <1>1, <2>1, <2>2, SamePublications
  <2>5. pubJob' \in [Contents -> PublicationRow]
    BY <1>1, SamePublications
  <2> QED  BY <1>1, <2>1, <2>3, <2>4, <2>5, PublicationSide
<1> QED  BY <1>1, <1>2, <1>3 DEF Publish, Errors

\* The attempt that published ends the job of the worker that still holds it.
LEMMA RecordSuccessStep == ASSUME CatalogueInv, NEW w \in Publishers, RecordSuccess(w) PROVE CatalogueInv'
<1> DEFINE n == publisher[w].of  row == Freed(pubJob[n], "SUCCEEDED")
<1>1. /\ publisher[w].pc = "done" /\ UNCHANGED <<product, publisherFrame>> /\ UNCHANGED <<snapshot, product>>
      /\ n \in Contents /\ snapshot[n] # 0 /\ product[n] # 0
  BY DEF RecordSuccess, publisherFrame, CatalogueInv, PublishersKnow
<1>2. CASE PublisherFails(w, "transient") /\ UNCHANGED pubJob
  BY <1>1, <1>2, PublisherFailing, PublisherOnly DEF Errors
<1>3. CASE PublisherRests(w) /\ SetPublication(w, row)
  <2>1. publisher' \in [Publishers -> Call] /\ PublishersKnow'
    BY <1>1, <1>3, PublisherResting
  <2>2. row \in PublicationRow /\ row.status = "SUCCEEDED" /\ row.images = pubJob[n].images
    BY <1>1, SamePublications, FreedPublication DEF JobStatus
  <2>3. pubJob' = [pubJob EXCEPT ![n] = row] /\ {pubJob[n].status, "SUCCEEDED"} \subseteq Live
    BY <1>1, <1>3, SamePublications DEF SetPublication, Live
  <2> HIDE DEF row, n
  <2> QED  BY <1>1, <2>1, <2>2, <2>3, PublicationRowStep
<1> QED  BY <1>2, <1>3 DEF RecordSuccess

LEMMA PublishErrorStep == ASSUME CatalogueInv, NEW w \in Publishers, HandlePublishError(w) PROVE CatalogueInv'
<1> DEFINE n == publisher[w].of  j == pubJob[n]
<1>1. /\ n \in Contents /\ j \in PublicationRow /\ j.status \in Live /\ PublisherRests(w)
      /\ UNCHANGED <<product, publisherFrame>> /\ UNCHANGED <<snapshot, product>>
  BY SamePublications DEF HandlePublishError, publisherFrame, CatalogueInv, PublishersKnow
<1>2. publisher' \in [Publishers -> Call] /\ PublishersKnow'
  BY <1>1, PublisherResting
<1>3. CASE UNCHANGED pubJob
  BY <1>1, <1>2, <1>3, PublisherOnly
<1>4. CASE \E row \in PublicationRow :
             SetPublication(w, row) /\ row.status \in {"PENDING", "FAILED"} /\ row.images = j.images
  BY <1>1, <1>2, <1>4, PublicationRowStep DEF SetPublication, Live
<1>5. LET k == Later(j, "PENDING") IN k \in PublicationRow /\ k.status = "PENDING" /\ k.images = j.images
  BY <1>1, LaterPublication DEF JobStatus
<1>6. LET k == GivenBack(Later(j, "PENDING")) IN k \in PublicationRow /\ k.status = "PENDING" /\ k.images = j.images
  BY <1>5, GivenBackPublication
<1>7. LET k == Freed(j, "FAILED") IN k \in PublicationRow /\ k.status = "FAILED" /\ k.images = j.images
  BY <1>1, FreedPublication DEF JobStatus
<1> QED  BY <1>3, <1>4, <1>5, <1>6, <1>7 DEF HandlePublishError

LEMMA PublicationClockStep ==
  ASSUME CatalogueInv, NEW n \in Contents, PublicationLeaseExpires(n) \/ PublicationFallsDue(n)
  PROVE  CatalogueInv'
<1>1. UNCHANGED <<product, publisher, publisherFrame>> /\ UNCHANGED <<snapshot, product, publisher>>
  BY DEF PublicationLeaseExpires, PublicationFallsDue, publisherFrame
<1>2. pubJob[n] \in PublicationRow
  BY SamePublications
<1>3. PICK row \in PublicationRow : /\ pubJob' = [pubJob EXCEPT ![n] = row]
                                    /\ row.status = pubJob[n].status /\ row.images = pubJob[n].images
  <2>1. CASE PublicationLeaseExpires(n)
    <3> DEFINE row == [pubJob[n] EXCEPT !.leased = FALSE]
    <3>1. row \in PublicationRow /\ row.status = pubJob[n].status /\ row.images = pubJob[n].images
      BY <1>2 DEF PublicationRow
    <3>2. pubJob' = [pubJob EXCEPT ![n] = row]
      BY <2>1 DEF PublicationLeaseExpires
    <3> QED  BY <3>1, <3>2
  <2>2. CASE PublicationFallsDue(n)
    <3> DEFINE row == [pubJob[n] EXCEPT !.due = TRUE]
    <3>1. row \in PublicationRow /\ row.status = pubJob[n].status /\ row.images = pubJob[n].images
      BY <1>2 DEF PublicationRow
    <3>2. pubJob' = [pubJob EXCEPT ![n] = row]
      BY <2>2 DEF PublicationFallsDue
    <3> QED  BY <3>1, <3>2
  <2> QED  BY <2>1, <2>2
<1>4. publisher' \in [Publishers -> Call] /\ PublishersKnow'
  BY <1>1, SamePublications DEF CatalogueInv, PublishersKnow
<1> QED  BY <1>1, <1>3, <1>4, SamePublications, PublicationRowStep

LEMMA PublisherCrashStep == ASSUME CatalogueInv, NEW w \in Publishers, PublisherCrash(w) PROVE CatalogueInv'
BY PublisherResting, PublisherOnly DEF PublisherCrash, publisherFrame

-----------------------------------------------------------------------------
LEMMA IdleInv == ASSUME CatalogueInv, UNCHANGED catalogueVars PROVE CatalogueInv'
<1>1. UNCHANGED <<jobVars, writer, renderer, publisher, editor>> /\ UNCHANGED <<content, design>>
  BY DEF catalogueVars, jobVars
<1>2. EditorsKnow' /\ editor' \in [Editors -> Edit]
  BY <1>1, CatalogueTyped DEF CatalogueInv, EditorsKnow, WasApproved
<1> QED  BY <1>1, <1>2, EditorOnly

LEMMA CatalogueNextInv == ASSUME CatalogueInv, CatalogueNext PROVE CatalogueInv'
<1>1. CASE ContentStep
  BY <1>1, ClaimContentStep, WriterStepStep, CrashStep, ContentClockStep DEF ContentStep
<1>2. CASE EditorStep
  BY <1>2, ReviseStep, CommitApprovalStep, ReadForApprovalStep DEF EditorStep
<1>3. CASE MockupStep
  BY <1>3, ClaimMockupStep, ReadDesignStep, TaskStep, CompleteMockupStep, MockupErrorStep, CrashStep,
     MockupClockStep DEF MockupStep, RendererStep
<1>4. CASE DesignStep
  BY <1>4, ReadForDesignStep, CommitDesignStep, CatalogueRequeueStep, OverrideStep DEF DesignStep
<1>5. CASE PublicationStep
  BY <1>5, ClaimPublicationStep, ReadPayloadStep, PublishStep, RecordSuccessStep, PublishErrorStep,
     PublisherCrashStep, PublicationClockStep DEF PublicationStep, PublisherStep
<1> QED  BY <1>1, <1>2, <1>3, <1>4, <1>5 DEF CatalogueNext

LEMMA CatalogueInvHolds == CatalogueSpec => []CatalogueInv
<1>1. CatalogueInv /\ [CatalogueNext]_catalogueVars => CatalogueInv'
  BY IdleInv, CatalogueNextInv
<1> QED  BY <1>1, CatalogueInitInv, PTL DEF CatalogueSpec

-----------------------------------------------------------------------------
\* Every column of the catalogue's tables and every variable of its workers keeps
\* its type, for any number of revisions, designs, workers and handlers: the
\* attempt counters stay within one of the limit, whatever is given back.
THEOREM CatalogueTypes == CatalogueSpec => []CatalogueTypeOK
<1>1. CatalogueInv => CatalogueTypeOK
  BY DEF CatalogueInv
<1> QED  BY <1>1, CatalogueInvHolds, PTL

\* The stages of a product agree on what is approved, rendered and published:
\* content is stored once, one revision is approved at a time and each that was
\* has its publication job, released with its mockup and never without, and a
\* product shows its revision's mockup.
THEOREM StagesStayInStep == CatalogueSpec => []StagesAgree
<1>1. CatalogueInv => StagesAgree
  BY DEF CatalogueInv
<1> QED  BY <1>1, CatalogueInvHolds, PTL

\* No remote task is created for a design that has not passed the resolution gate,
\* and no mockup shows one, though designs change while workers hold them.
THEOREM VettedDesignsOnly == CatalogueSpec => []OnlyVettedDesigns
<1>1. CatalogueInv => OnlyVettedDesigns
  BY DEF CatalogueInv
<1> QED  BY <1>1, CatalogueInvHolds, PTL

-----------------------------------------------------------------------------
(* What a step does to a publication that has ended.                        *)

Ended(n) == pubJob[n].status \in {"SUCCEEDED", "FAILED"}
EndedStay == \A n \in Contents : Ended(n) => pubJob'[n].status = pubJob[n].status

LEMMA OneRowChanges ==
  ASSUME CatalogueInv, NEW n \in Contents, NEW row, pubJob' = [pubJob EXCEPT ![n] = row],
         ~Ended(n) \/ row.status = pubJob[n].status
  PROVE  EndedStay
BY SamePublications DEF EndedStay

LEMMA PublicationsUntouched == ASSUME UNCHANGED pubJob PROVE EndedStay
BY DEF EndedStay

LEMMA EndedInContent ==
  ASSUME CatalogueInv, ContentStep \/ EditorStep \/ MockupStep \/ DesignStep
  PROVE  EndedStay
<1>1. CASE UNCHANGED pubJob
  BY <1>1, PublicationsUntouched
<1>2. ASSUME NEW e \in Editors, CommitContentApproval(e)
      PROVE  EndedStay
  <2> DEFINE n == editor[e].of
  <2>1. n \in Contents /\ content[n] = "DRAFT"
    BY <1>2 DEF CommitContentApproval, CatalogueInv, EditorsKnow
  <2>2. pubJob[n].status = "ABSENT"
    BY <2>1 DEF CatalogueInv, StagesAgree, OneApprovedContent
  <2>3. CASE QueuePublication(n)
    <3>1. pubJob' = [pubJob EXCEPT ![n] = [pubJob[n] EXCEPT !.status = "WAITING_FOR_MOCKUP"]]
      BY <2>2, <2>3 DEF QueuePublication
    <3> QED  BY <2>1, <2>2, <3>1, OneRowChanges DEF Ended
  <2> QED  BY <1>1, <1>2, <2>3 DEF CommitContentApproval
<1>3. ASSUME NEW w \in Renderers, CompleteMockup(w)
      PROVE  EndedStay
  <2> DEFINE n == renderer[w].of
  <2>1. n \in Contents
    BY <1>3 DEF CompleteMockup, CatalogueInv, RenderersKnow
  <2>2. CASE pubJob' = [pubJob EXCEPT ![n] = Released(n, renderer[w].holds)]
    <3>1. ~Ended(n) \/ Released(n, renderer[w].holds).status = pubJob[n].status
      BY DEF Ended, Released
    <3> QED  BY <2>1, <2>2, <3>1, OneRowChanges
  <2> QED  BY <1>1, <1>3, <2>2 DEF CompleteMockup
<1>4. CASE ContentStep
  <2>1. UNCHANGED pubJob
    BY <1>4 DEF ContentStep, ClaimContent, WriterStep, GenerateContent, CompleteContent, HandleContentError,
       WriterCrash, ContentLeaseExpires, ContentFallsDue, writerFrame
  <2> QED  BY <1>1, <2>1
<1>5. CASE EditorStep
  BY <1>1, <1>2, <1>5 DEF EditorStep, ReviseContent, ReadForApproval, jobVars
<1>6. CASE MockupStep
  <2>1. ASSUME NEW w \in Renderers, ReadDesign(w) \/ CreateTask(w) \/ PollTask(w) \/ HandleMockupError(w)
        PROVE  UNCHANGED pubJob
    BY <2>1 DEF ReadDesign, CreateTask, PollTask, HandleMockupError
  <2>2. ASSUME NEW w \in Renderers, NEW n \in Contents,
               ClaimMockup(w, n) \/ RendererCrash(w) \/ MockupLeaseExpires(n) \/ MockupFallsDue(n)
        PROVE  UNCHANGED pubJob
    BY <2>2 DEF ClaimMockup, RendererCrash, MockupLeaseExpires, MockupFallsDue
  <2>3. ASSUME NEW w \in Renderers, RendererCrash(w)
        PROVE  UNCHANGED pubJob
    BY <2>3 DEF RendererCrash
  <2>4. ASSUME NEW n \in Contents, MockupLeaseExpires(n) \/ MockupFallsDue(n)
        PROVE  UNCHANGED pubJob
    BY <2>4 DEF MockupLeaseExpires, MockupFallsDue
  <2> QED  BY <1>1, <1>3, <1>6, <2>1, <2>2, <2>3, <2>4 DEF MockupStep, RendererStep
<1>7. CASE DesignStep
  <2>1. UNCHANGED pubJob
    BY <1>7 DEF DesignStep, ReadForDesign, CommitDesign, RequeueMockup, OverrideResolution, operatorFrame, jobVars
  <2> QED  BY <1>1, <2>1
<1> QED  BY <1>4, <1>5, <1>6, <1>7

LEMMA EndedInPublication == ASSUME CatalogueInv, PublicationStep PROVE EndedStay
<1>1. CASE UNCHANGED pubJob
  BY <1>1, PublicationsUntouched
<1>2. ASSUME NEW w \in Publishers, NEW n \in Contents, ClaimPublication(w, n)
      PROVE  EndedStay
  <2>1. ~Ended(n) /\ pubJob' = [pubJob EXCEPT ![n] = Taken(pubJob[n], w)]
    BY <1>2 DEF ClaimPublication, PublicationClaimable, Ended
  <2> QED  BY <2>1, OneRowChanges
<1>3. ASSUME NEW w \in Publishers, publisher[w].pc # "idle", OwnsPublication(w), NEW row, SetPublication(w, row)
      PROVE  EndedStay
  <2>1. publisher[w].of \in Contents
    BY <1>3 DEF CatalogueInv, PublishersKnow
  <2>2. ~Ended(publisher[w].of)
    BY <1>3 DEF OwnsPublication, Holds, Ended
  <2> QED  BY <1>3, <2>1, <2>2, OneRowChanges DEF SetPublication
<1>4. ASSUME NEW w \in Publishers, PublisherStep(w)
      PROVE  EndedStay
  <2>1. CASE ReadPayload(w) \/ Publish(w)
    BY <1>1, <2>1 DEF ReadPayload, Publish
  <2>2. CASE RecordSuccess(w)
    BY <1>1, <1>3, <2>2 DEF RecordSuccess
  <2>3. CASE HandlePublishError(w)
    BY <1>1, <1>3, <2>3 DEF HandlePublishError
  <2> QED  BY <1>4, <2>1, <2>2, <2>3 DEF PublisherStep
<1>5. ASSUME NEW n \in Contents, PublicationLeaseExpires(n) \/ PublicationFallsDue(n)
      PROVE  EndedStay
  <2>1. pubJob[n] \in PublicationRow
    BY SamePublications
  <2>2. CASE pubJob' = [pubJob EXCEPT ![n].leased = FALSE]
    <3>1. [pubJob[n] EXCEPT !.leased = FALSE].status = pubJob[n].status
      BY <2>1 DEF PublicationRow
    <3> QED  BY <2>2, <3>1, OneRowChanges
  <2>3. CASE pubJob' = [pubJob EXCEPT ![n].due = TRUE]
    <3>1. [pubJob[n] EXCEPT !.due = TRUE].status = pubJob[n].status
      BY <2>1 DEF PublicationRow
    <3> QED  BY <2>3, <3>1, OneRowChanges
  <2> QED  BY <1>5, <2>2, <2>3 DEF PublicationLeaseExpires, PublicationFallsDue
<1> QED  BY <1>1, <1>2, <1>4, <1>5 DEF PublicationStep, PublisherCrash

\* A publication that has ended never runs again: no worker that lost its lease,
\* no approval and no mockup that comes late puts it back into the queue.
THEOREM EndedPublicationsRest == CatalogueSpec => PublicationStaysEnded
<1>1. ASSUME CatalogueInv, [CatalogueNext]_catalogueVars PROVE EndedStay
  <2>1. CASE UNCHANGED catalogueVars
    BY <2>1, PublicationsUntouched DEF catalogueVars, jobVars
  <2> QED  BY <1>1, <2>1, EndedInContent, EndedInPublication DEF CatalogueNext
<1>2. CatalogueInv /\ [CatalogueNext]_catalogueVars =>
        [\A n \in Contents : pubJob[n].status \in {"SUCCEEDED", "FAILED"} =>
           pubJob'[n].status = pubJob[n].status]_catalogueVars
  BY <1>1 DEF EndedStay, Ended
<1> QED  BY <1>2, CatalogueInvHolds, PTL DEF CatalogueSpec, PublicationStaysEnded
=============================================================================
