--------------------------- MODULE Storefront_proofs ---------------------------
(***************************************************************************)
(* Safety of the store configuration for any handlers, workers, drafts and *)
(* brand revisions: rows, transactions and calls keep their types, one     *)
(* draft at most is approved, a draft and its job agree, and what counts   *)
(* as published has reached Shopify whole.                                 *)
(***************************************************************************)
EXTENDS Storefront, TLAPS

DraftStatus == {"NONE", "DRAFT", "APPROVED", "PUBLISHED", "SUPERSEDED"}
DraftRow == [status : DraftStatus, source : {"NONE", "GENERATED", "EDITOR"}, of : 0 .. MaxBrands]
StoreRow == JobRow({"ABSENT", "PENDING", "RUNNING", "SUCCEEDED", "FAILED"}, StoreWorkers, MaxStoreAttempts)

\* Revision numbers have no gap, and a number read by a generating transaction
\* is the next one or taken by now.
StoreNumbered ==
  \E k \in 0 .. MaxDrafts :
    /\ Existing = 1 .. k
    /\ \A m \in StoreEditors : storeTx[m].kind = "generate" => storeTx[m].number \in 1 .. k + 1

\* What an open transaction may rely on: its draft exists, or its brand revision
\* has no generated draft and no second transaction that generates one.
TxsKnow ==
  \A m \in StoreEditors :
    /\ storeTx[m].kind \in {"edit", "approve"} => storeTx[m].of \in Drafts
    /\ storeTx[m].kind = "generate" =>
         /\ storeTx[m].of \in Brands /\ storeTx[m].number \in Drafts
         /\ ~\E d \in Drafts : draft[d].source = "GENERATED" /\ draft[d].of = storeTx[m].of
         /\ ~\E k \in StoreEditors \ {m} : storeTx[k].kind = "generate" /\ storeTx[k].of = storeTx[m].of

\* What Shopify has been given by the step a call is at.
StoreCallsKnow ==
  \A w \in StoreWorkers :
    /\ storeWorker[w].pc # "idle" => storeWorker[w].of \in Drafts
    /\ storeWorker[w].pc = "menu" => "page" \in put[storeWorker[w].of]
    /\ storeWorker[w].pc = "done" => put[storeWorker[w].of] = Resources

StoreInv == StoreTypeOK /\ StoreNumbered /\ TxsKnow /\ DraftAndJobAgree /\ StoreCallsKnow /\ PublishedIsComplete

-----------------------------------------------------------------------------
(* Rows, transactions and calls.                                            *)

LEMMA StoreNewRows == NewRow("ABSENT") \in StoreRow /\ NewRow("PENDING") \in StoreRow
                 /\ NewRow("ABSENT").status = "ABSENT" /\ NewRow("PENDING").status = "PENDING"
BY StoreBounds DEF NewRow, StoreRow, JobRow

LEMMA StoreTakenRow ==
  ASSUME NEW j \in StoreRow, NEW w \in StoreWorkers, j.attempts <= MaxStoreAttempts
  PROVE  Taken(j, w) \in StoreRow /\ Taken(j, w).status = "RUNNING"
<1>1. j.attempts + 1 \in 0 .. MaxStoreAttempts + 1
  BY StoreBounds DEF StoreRow, JobRow
<1> QED  BY <1>1 DEF Taken, StoreRow, JobRow

LEMMA StoreFreedRow ==
  ASSUME NEW j \in StoreRow, NEW status \in {"PENDING", "SUCCEEDED", "FAILED"}
  PROVE  Freed(j, status) \in StoreRow /\ Freed(j, status).status = status
BY DEF Freed, StoreRow, JobRow

LEMMA StoreLaterRow ==
  ASSUME NEW j \in StoreRow
  PROVE  Later(j, "PENDING") \in StoreRow /\ Later(j, "PENDING").status = "PENDING"
<1> DEFINE f == Freed(j, "PENDING")
<1>1. f \in StoreRow /\ f.status = "PENDING"
  BY StoreFreedRow
<1>2. Later(j, "PENDING") = [f EXCEPT !.due = FALSE]
  BY DEF Later
<1> HIDE DEF f
<1> QED  BY <1>1, <1>2 DEF StoreRow, JobRow

LEMMA StoreGivenBackRow ==
  ASSUME NEW j \in StoreRow
  PROVE  GivenBack(j) \in StoreRow /\ GivenBack(j).status = j.status
<1>1. j.attempts \in 0 .. MaxStoreAttempts + 1
  BY DEF StoreRow, JobRow
<1>2. (IF j.attempts = 0 THEN 0 ELSE j.attempts - 1) \in 0 .. MaxStoreAttempts + 1
  BY <1>1, StoreBounds
<1> QED  BY <1>2 DEF GivenBack, StoreRow, JobRow

LEMMA StoreRenewedRow ==
  ASSUME NEW j \in StoreRow
  PROVE  Renewed(j) \in StoreRow /\ Renewed(j).status = "PENDING"
<1>1. 0 \in 0 .. MaxStoreAttempts + 1
  BY StoreBounds
<1> QED  BY <1>1 DEF Renewed, StoreRow, JobRow

LEMMA StoreNoCall == NoStoreCall \in StoreCall /\ NoStoreCall.pc = "idle"
BY StoreBounds DEF NoStoreCall, StoreCall

LEMMA NoStoreTransaction == NoTx \in StoreTx /\ NoTx.kind = "none"
BY StoreBounds DEF NoTx, StoreTx

LEMMA StoreCallGoes ==
  ASSUME NEW c \in StoreCall, NEW p \in {"menu", "done"}
  PROVE  LET d == [c EXCEPT !.pc = p] IN d \in StoreCall /\ d.pc = p /\ d.of = c.of
BY DEF StoreCall

LEMMA StoreCallFails ==
  ASSUME NEW c \in StoreCall, NEW e \in {"deferred", "transient", "permanent"}
  PROVE  LET d == [c EXCEPT !.pc = "error", !.error = e]
         IN  d \in StoreCall /\ d.pc = "error" /\ d.of = c.of
BY DEF StoreCall

\* The type invariant, with its sets named.
LEMMA StoreTyped ==
  StoreTypeOK =>
    /\ brand \in Brands /\ draft \in [Drafts -> DraftRow] /\ storeJob \in [Drafts -> StoreRow]
    /\ shop \in [Resources -> 0 .. MaxDrafts] /\ put \in [Drafts -> SUBSET Resources]
    /\ storeTx \in [StoreEditors -> StoreTx] /\ storeWorker \in [StoreWorkers -> StoreCall]
BY DEF StoreTypeOK, DraftRow, DraftStatus, StoreRow

-----------------------------------------------------------------------------
(* Revision numbers.                                                        *)

\* The number of the next revision is one more than the number of revisions.
LEMMA NextNumberIs ==
  ASSUME NEW k \in 0 .. MaxDrafts, Existing = 1 .. k
  PROVE  NextNumber = k + 1
<1>1. CASE k = 0
  <2>1. Existing = {}
    BY <1>1
  <2> QED  BY <1>1, <2>1 DEF NextNumber
<1>2. CASE k # 0
  <2>1. k \in Existing /\ \A f \in Existing : f <= k
    BY <1>2, StoreBounds
  <2> DEFINE c == CHOOSE d \in Existing : \A f \in Existing : f <= d
  <2>2. c \in Existing /\ \A f \in Existing : f <= c
    BY <2>1
  <2> HIDE DEF c
  <2>3. c = k
    BY <2>1, <2>2, StoreBounds
  <2>4. NextNumber = 1 + c
    BY <2>1 DEF NextNumber, c
  <2> QED  BY <2>3, <2>4
<1> QED  BY <1>1, <1>2

-----------------------------------------------------------------------------
LEMMA StoreInitInv == StoreInit => StoreInv
<1> SUFFICES ASSUME StoreInit PROVE StoreInv
  OBVIOUS
<1>1. draft = [d \in Drafts |-> NoDraft] /\ storeJob = [d \in Drafts |-> NewRow("ABSENT")]
  BY DEF StoreInit
<1>2. storeTx = [m \in StoreEditors |-> NoTx] /\ storeWorker = [w \in StoreWorkers |-> NoStoreCall]
  BY DEF StoreInit
<1>3. StoreTypeOK
  <2>1. NoDraft \in DraftRow
    BY StoreBounds DEF NoDraft, DraftRow, DraftStatus
  <2>2. draft \in [Drafts -> DraftRow] /\ storeJob \in [Drafts -> StoreRow]
    BY <1>1, <2>1, StoreNewRows
  <2>3. storeTx \in [StoreEditors -> StoreTx] /\ storeWorker \in [StoreWorkers -> StoreCall]
    BY <1>2, NoStoreTransaction, StoreNoCall
  <2>4. brand \in Brands /\ shop \in [Resources -> 0 .. MaxDrafts] /\ put \in [Drafts -> SUBSET Resources]
    BY StoreBounds DEF StoreInit, Brands
  <2> QED  BY <2>2, <2>3, <2>4 DEF StoreTypeOK, DraftRow, DraftStatus, StoreRow
<1>4. StoreNumbered
  <2>1. Existing = 1 .. 0 /\ 0 \in 0 .. MaxDrafts
    BY <1>1, StoreBounds DEF Existing, NoDraft
  <2> QED  BY <1>2, <2>1, NoStoreTransaction DEF StoreNumbered
<1>5. TxsKnow /\ StoreCallsKnow
  BY <1>2, NoStoreTransaction, StoreNoCall DEF TxsKnow, StoreCallsKnow
<1>6. DraftAndJobAgree /\ PublishedIsComplete
  BY <1>1, StoreNewRows DEF DraftAndJobAgree, OneApprovedDraft, ApprovedDrafts, PublishedIsComplete, NoDraft
<1> QED  BY <1>3, <1>4, <1>5, <1>6 DEF StoreInv

-----------------------------------------------------------------------------
(* The request handlers.                                                    *)

\* A transaction begins or ends and no table is changed.
LEMMA TxStep ==
  ASSUME StoreInv, NEW m \in StoreEditors, NEW t \in StoreTx, storeTx' = [storeTx EXCEPT ![m] = t],
         UNCHANGED <<draft, storeJob, draftFrame>>,
         t.kind \in {"edit", "approve"} => t.of \in Drafts,
         t.kind = "generate" =>
           /\ t.of \in Brands /\ t.number \in Drafts /\ t.number = NextNumber
           /\ ~\E d \in Drafts : draft[d].source = "GENERATED" /\ draft[d].of = t.of
           /\ ~\E k \in StoreEditors : storeTx[k].kind = "generate" /\ storeTx[k].of = t.of
  PROVE  StoreInv'
<1>1. /\ storeTx' \in [StoreEditors -> StoreTx] /\ storeTx'[m] = t
      /\ \A k \in StoreEditors : k # m => storeTx'[k] = storeTx[k]
  BY StoreTyped DEF StoreInv
<1>2. UNCHANGED <<brand, draft, storeJob, shop, put, storeWorker>>
  BY DEF draftFrame
<1>3. StoreTypeOK'
  BY <1>1, <1>2 DEF StoreInv, StoreTypeOK
<1>4. Existing' = Existing
  BY <1>2 DEF Existing
<1>5. StoreNumbered'
  <2>1. PICK k \in 0 .. MaxDrafts :
          /\ Existing = 1 .. k
          /\ \A h \in StoreEditors : storeTx[h].kind = "generate" => storeTx[h].number \in 1 .. k + 1
    BY DEF StoreInv, StoreNumbered
  <2>2. NextNumber = k + 1
    BY <2>1, NextNumberIs
  <2>3. \A h \in StoreEditors : storeTx'[h].kind = "generate" => storeTx'[h].number \in 1 .. k + 1
    BY <1>1, <2>1, <2>2, StoreBounds DEF Drafts
  <2> QED  BY <1>4, <2>1, <2>3 DEF StoreNumbered
<1>6. TxsKnow'
  BY <1>1, <1>2 DEF StoreInv, TxsKnow
<1>7. (DraftAndJobAgree /\ StoreCallsKnow /\ PublishedIsComplete)'
  BY <1>2 DEF StoreInv, DraftAndJobAgree, OneApprovedDraft, ApprovedDrafts, StoreCallsKnow, PublishedIsComplete
<1> QED  BY <1>3, <1>5, <1>6, <1>7 DEF StoreInv

LEMMA StoreBeginStep ==
  ASSUME StoreInv, NEW m \in StoreEditors,
         BeginGenerate(m) \/ \E d \in Drafts : LockBase(m, d) \/ LockStore(m, d)
  PROVE  StoreInv'
<1>1. brand \in Brands /\ MaxDrafts \in Nat /\ MaxBrands \in Nat
  BY StoreTyped, StoreBounds DEF StoreInv
<1>2. CASE BeginGenerate(m)
  <2> DEFINE t == [kind |-> "generate", of |-> brand, number |-> NextNumber]
  <2>1. NextNumber \in Drafts
    BY <1>2, NextNumberIs, StoreBounds DEF StoreInv, StoreNumbered, BeginGenerate, Drafts
  <2>2. t \in StoreTx /\ t.kind = "generate" /\ t.of = brand /\ t.number = NextNumber
    BY <1>1, <2>1 DEF StoreTx, Brands, Drafts
  <2>3. storeTx' = [storeTx EXCEPT ![m] = t]
    BY <1>2 DEF BeginGenerate, BeginStoreTx
  <2> HIDE DEF t
  <2> QED  BY <1>1, <1>2, <2>1, <2>2, <2>3, TxStep DEF BeginGenerate
<1>3. ASSUME NEW d \in Drafts, LockBase(m, d) \/ LockStore(m, d) PROVE StoreInv'
  <2>1. PICK kind \in {"edit", "approve"} : BeginStoreTx(m, kind, d, 0) /\ UNCHANGED <<draft, storeJob, draftFrame>>
    BY <1>3 DEF LockBase, LockStore
  <2> DEFINE t == [kind |-> kind, of |-> d, number |-> 0]
  <2>2. t \in StoreTx /\ t.kind = kind /\ t.of = d
    BY <1>1 DEF StoreTx, Drafts
  <2>3. storeTx' = [storeTx EXCEPT ![m] = t]
    BY <2>1 DEF BeginStoreTx
  <2> HIDE DEF t
  <2> QED  BY <2>1, <2>2, <2>3, TxStep
<1> QED  BY <1>2, <1>3

\* A transaction that ends without a change.
LEMMA EndStep ==
  ASSUME StoreInv, NEW m \in StoreEditors, EndStoreTx(m), UNCHANGED <<draft, storeJob, draftFrame>>
  PROVE  StoreInv'
BY NoStoreTransaction, TxStep DEF EndStoreTx

\* A revision is inserted with the next number; a generated one by the only
\* transaction that generates its brand revision.
LEMMA InsertStep ==
  ASSUME StoreInv, NEW m \in StoreEditors, EndStoreTx(m), UNCHANGED <<storeJob, draftFrame>>,
         NEW n \in Drafts, NextNumber = n, NEW source \in {"GENERATED", "EDITOR"}, NEW of \in 0 .. MaxBrands,
         Insert(n, source, of),
         source = "GENERATED" => storeTx[m].kind = "generate" /\ storeTx[m].of = of
  PROVE  StoreInv'
<1> DEFINE row == [status |-> "DRAFT", source |-> source, of |-> of]
<1>1. row \in DraftRow /\ row.status = "DRAFT" /\ row.source = source /\ row.of = of
  BY DEF DraftRow, DraftStatus
<1>2. draft' = [draft EXCEPT ![n] = row]
  BY DEF Insert
<1> HIDE DEF row
<1>3. /\ draft' \in [Drafts -> DraftRow] /\ draft'[n] = row
      /\ \A d \in Drafts : d # n => draft'[d] = draft[d]
  BY <1>1, <1>2, StoreTyped DEF StoreInv
<1>4. /\ storeTx' \in [StoreEditors -> StoreTx] /\ storeTx'[m].kind = "none"
      /\ \A k \in StoreEditors : k # m => storeTx'[k] = storeTx[k]
  BY NoStoreTransaction, StoreTyped DEF StoreInv, EndStoreTx
<1>5. UNCHANGED <<brand, storeJob, shop, put, storeWorker>>
  BY DEF draftFrame
<1>6. StoreTypeOK'
  BY <1>3, <1>4, <1>5 DEF StoreInv, StoreTypeOK, DraftRow, DraftStatus
<1>7. PICK k \in 0 .. MaxDrafts :
        /\ Existing = 1 .. k
        /\ \A h \in StoreEditors : storeTx[h].kind = "generate" => storeTx[h].number \in 1 .. k + 1
  BY DEF StoreInv, StoreNumbered
<1>8. n = k + 1 /\ k \in Nat /\ MaxDrafts \in Nat
  BY <1>7, NextNumberIs, StoreBounds
<1>9. draft[n].status = "NONE"
  BY <1>7, <1>8 DEF Existing
<1>10. StoreNumbered'
  <2>1. Existing' = Existing \cup {n}
    BY <1>1, <1>3 DEF Existing
  <2>2. Existing' = 1 .. n /\ n \in 0 .. MaxDrafts
    BY <1>7, <1>8, <2>1 DEF Drafts
  <2>3. \A h \in StoreEditors : storeTx'[h].kind = "generate" => storeTx'[h].number \in 1 .. n + 1
    BY <1>4, <1>7, <1>8
  <2> QED  BY <2>2, <2>3 DEF StoreNumbered
<1>11. TxsKnow'
  <2> SUFFICES ASSUME NEW h \in StoreEditors, h # m
               PROVE  /\ storeTx[h].kind \in {"edit", "approve"} => storeTx[h].of \in Drafts
                      /\ storeTx[h].kind = "generate" =>
                           /\ storeTx[h].of \in Brands /\ storeTx[h].number \in Drafts
                           /\ ~\E d \in Drafts : draft'[d].source = "GENERATED" /\ draft'[d].of = storeTx[h].of
                           /\ ~\E g \in StoreEditors \ {h} :
                                 storeTx'[g].kind = "generate" /\ storeTx'[g].of = storeTx[h].of
    BY <1>4 DEF TxsKnow
  <2>1. storeTx[h].kind = "generate" => ~(source = "GENERATED" /\ of = storeTx[h].of)
    BY DEF StoreInv, TxsKnow
  <2>2. storeTx[h].kind = "generate" =>
          ~\E d \in Drafts : draft'[d].source = "GENERATED" /\ draft'[d].of = storeTx[h].of
    BY <1>1, <1>3, <2>1 DEF StoreInv, TxsKnow
  <2>3. storeTx[h].kind = "generate" =>
          ~\E g \in StoreEditors \ {h} : storeTx'[g].kind = "generate" /\ storeTx'[g].of = storeTx[h].of
    BY <1>4 DEF StoreInv, TxsKnow
  <2> QED  BY <2>2, <2>3 DEF StoreInv, TxsKnow
<1>12. DraftAndJobAgree'
  <2>1. \A d, f \in Drafts : draft'[d].status = "APPROVED" /\ draft'[f].status = "APPROVED" => d = f
    BY <1>1, <1>3 DEF StoreInv, DraftAndJobAgree, OneApprovedDraft, ApprovedDrafts
  <2>2. source = "GENERATED" => ~\E d \in Drafts : draft[d].source = "GENERATED" /\ draft[d].of = of
    BY DEF StoreInv, TxsKnow
  <2>3. \A d, f \in Drafts : draft'[d].source = "GENERATED" /\ draft'[d].of = draft'[f].of
                             /\ draft'[f].source = "GENERATED" => d = f
    BY <1>1, <1>3, <2>2 DEF StoreInv, DraftAndJobAgree, OneApprovedDraft
  <2>4. OneApprovedDraft'
    BY <2>1, <2>3 DEF OneApprovedDraft, ApprovedDrafts
  <2>5. storeJob[n].status = "ABSENT"
    BY <1>9 DEF StoreInv, DraftAndJobAgree
  <2> QED  BY <1>1, <1>3, <1>5, <2>4, <2>5 DEF StoreInv, DraftAndJobAgree
<1>13. (StoreCallsKnow /\ PublishedIsComplete)'
  BY <1>5 DEF StoreInv, StoreCallsKnow, PublishedIsComplete
<1> QED  BY <1>6, <1>10, <1>11, <1>12, <1>13 DEF StoreInv

LEMMA InsertGeneratedStep == ASSUME StoreInv, NEW m \in StoreEditors, InsertGenerated(m) PROVE StoreInv'
<1> DEFINE n == storeTx[m].number
<1>1. /\ storeTx[m].kind = "generate" /\ n \in Drafts /\ storeTx[m].of \in 0 .. MaxBrands
      /\ EndStoreTx(m) /\ UNCHANGED <<storeJob, draftFrame>>
  BY StoreBounds DEF StoreInv, TxsKnow, InsertGenerated, Brands
<1>2. CASE draft[n].status = "NONE"
  <2>1. PICK k \in 0 .. MaxDrafts : Existing = 1 .. k /\ n \in 1 .. k + 1
    BY <1>1 DEF StoreInv, StoreNumbered
  <2>2. n = k + 1
    <3>1. n \notin 1 .. k
      BY <1>2, <2>1 DEF Existing
    <3> QED  BY <2>1, <3>1, StoreBounds
  <2>3. NextNumber = n
    BY <2>1, <2>2, NextNumberIs
  <2>4. Insert(n, "GENERATED", storeTx[m].of)
    BY <1>2 DEF InsertGenerated
  <2> QED  BY <1>1, <2>3, <2>4, InsertStep
<1>3. CASE draft[n].status # "NONE"
  <2>1. UNCHANGED draft
    BY <1>3 DEF InsertGenerated
  <2> QED  BY <1>1, <2>1, EndStep
<1> QED  BY <1>2, <1>3

LEMMA CommitEditStep == ASSUME StoreInv, NEW m \in StoreEditors, CommitStoreEdit(m) PROVE StoreInv'
<1> DEFINE b == storeTx[m].of
<1>1. b \in Drafts /\ draft[b].of \in 0 .. MaxBrands /\ EndStoreTx(m) /\ UNCHANGED <<storeJob, draftFrame>>
  BY StoreTyped DEF StoreInv, TxsKnow, CommitStoreEdit, DraftRow
<1>2. CASE NextNumber <= MaxDrafts
  <2>1. NextNumber \in Drafts
    BY <1>2, NextNumberIs, StoreBounds DEF StoreInv, StoreNumbered, Drafts
  <2>2. Insert(NextNumber, "EDITOR", draft[b].of)
    BY <1>2 DEF CommitStoreEdit
  <2> QED  BY <1>1, <2>1, <2>2, InsertStep
<1>3. CASE ~(NextNumber <= MaxDrafts)
  BY <1>1, <1>3, EndStep DEF CommitStoreEdit
<1> QED  BY <1>2, <1>3

\* A draft is approved, the one approved before is superseded, its job is queued.
LEMMA ApproveStep == ASSUME StoreInv, NEW m \in StoreEditors, ApproveDraft(m) PROVE StoreInv'
<1> DEFINE d == storeTx[m].of
<1>1. d \in Drafts /\ EndStoreTx(m) /\ UNCHANGED draftFrame
  BY DEF StoreInv, TxsKnow, ApproveDraft
<1>2. CASE draft[d].status # "DRAFT" /\ UNCHANGED <<draft, storeJob>>
  BY <1>1, <1>2, EndStep
<1>3. CASE /\ draft[d].status = "DRAFT"
           /\ draft' = [f \in Drafts |->
                [draft[f] EXCEPT !.status = IF f = d THEN "APPROVED"
                                            ELSE IF @ = "APPROVED" THEN "SUPERSEDED" ELSE @]]
           /\ storeJob' = [storeJob EXCEPT ![d] = IF @.status = "ABSENT" THEN NewRow("PENDING") ELSE @]
  <2>1. storeJob[d].status = "ABSENT"
    BY <1>1, <1>3 DEF StoreInv, DraftAndJobAgree
  <2>2. /\ storeJob' \in [Drafts -> StoreRow] /\ storeJob'[d].status = "PENDING"
        /\ \A f \in Drafts : f # d => storeJob'[f] = storeJob[f]
    BY <1>1, <1>3, <2>1, StoreNewRows, StoreTyped DEF StoreInv
  <2> HIDE DEF d
  <2>3. \A f \in Drafts :
          /\ draft'[f] \in DraftRow /\ draft'[f].source = draft[f].source /\ draft'[f].of = draft[f].of
          /\ draft'[f].status = IF f = d THEN "APPROVED"
                                ELSE IF draft[f].status = "APPROVED" THEN "SUPERSEDED" ELSE draft[f].status
    <3> SUFFICES ASSUME NEW f \in Drafts
                 PROVE  /\ draft'[f] \in DraftRow /\ draft'[f].source = draft[f].source
                        /\ draft'[f].of = draft[f].of
                        /\ draft'[f].status = IF f = d THEN "APPROVED"
                                              ELSE IF draft[f].status = "APPROVED" THEN "SUPERSEDED"
                                              ELSE draft[f].status
      OBVIOUS
    <3> DEFINE s == IF f = d THEN "APPROVED"
                    ELSE IF draft[f].status = "APPROVED" THEN "SUPERSEDED" ELSE draft[f].status
    <3>1. draft[f] \in DraftRow
      BY StoreTyped DEF StoreInv
    <3>2. s \in DraftStatus
      BY <3>1 DEF DraftRow, DraftStatus
    <3>3. draft'[f] = [draft[f] EXCEPT !.status = s]
      BY <1>3
    <3> HIDE DEF s
    <3>4. draft'[f] \in DraftRow /\ draft'[f].source = draft[f].source /\ draft'[f].of = draft[f].of
          /\ draft'[f].status = s
      BY <3>1, <3>2, <3>3 DEF DraftRow
    <3> QED  BY <3>4 DEF s
  <2>4. draft' \in [Drafts -> DraftRow]
    BY <1>3, <2>3
  <2>5. /\ storeTx' \in [StoreEditors -> StoreTx] /\ storeTx'[m].kind = "none"
        /\ \A k \in StoreEditors : k # m => storeTx'[k] = storeTx[k]
    BY <1>1, NoStoreTransaction, StoreTyped DEF StoreInv, EndStoreTx
  <2>6. UNCHANGED <<brand, shop, put, storeWorker>>
    BY <1>1 DEF draftFrame
  <2>7. StoreTypeOK'
    BY <2>2, <2>4, <2>5, <2>6 DEF StoreInv, StoreTypeOK, DraftRow, DraftStatus, StoreRow
  <2>8. Existing' = Existing
    BY <1>1, <1>3, <2>3 DEF Existing, d
  <2>9. StoreNumbered'
    BY <2>5, <2>8 DEF StoreInv, StoreNumbered
  <2>10. TxsKnow'
    BY <2>3, <2>5 DEF StoreInv, TxsKnow
  <2>11. DraftAndJobAgree'
    <3>1. OneApprovedDraft'
      BY <2>3 DEF StoreInv, DraftAndJobAgree, OneApprovedDraft, ApprovedDrafts
    <3>2. \A f \in Drafts : f # d =>
            /\ draft'[f].status \in {"APPROVED", "PUBLISHED", "SUPERSEDED"}
                 <=> draft[f].status \in {"APPROVED", "PUBLISHED", "SUPERSEDED"}
            /\ draft'[f].status = "PUBLISHED" => draft[f].status = "PUBLISHED"
            /\ draft[f].status \in {"PUBLISHED", "SUPERSEDED"} => draft'[f].status = draft[f].status
      BY <2>3
    <3>3. draft'[d].status = "APPROVED"
      BY <1>1, <2>3 DEF d
    <3> QED  BY <2>2, <3>1, <3>2, <3>3 DEF StoreInv, DraftAndJobAgree
  <2>12. (StoreCallsKnow /\ PublishedIsComplete)'
    BY <2>2, <2>6 DEF StoreInv, StoreCallsKnow, PublishedIsComplete
  <2> QED  BY <2>7, <2>9, <2>10, <2>11, <2>12 DEF StoreInv
<1> QED  BY <1>2, <1>3 DEF ApproveDraft

LEMMA BrandStep == ASSUME StoreInv, BrandMoves PROVE StoreInv'
<1>1. brand' \in Brands
  BY StoreTyped, StoreBounds DEF StoreInv, BrandMoves, Brands
<1>2. UNCHANGED <<draft, storeJob, shop, put, storeTx, storeWorker>>
  BY DEF BrandMoves
<1>3. StoreTypeOK'
  BY <1>1, <1>2 DEF StoreInv, StoreTypeOK
<1>4. (StoreNumbered /\ TxsKnow)'
  BY <1>2 DEF StoreInv, StoreNumbered, Existing, TxsKnow
<1>5. (DraftAndJobAgree /\ StoreCallsKnow /\ PublishedIsComplete)'
  BY <1>2 DEF StoreInv, DraftAndJobAgree, OneApprovedDraft, ApprovedDrafts, StoreCallsKnow, PublishedIsComplete
<1> QED  BY <1>3, <1>4, <1>5 DEF StoreInv

-----------------------------------------------------------------------------
(* The publication workers, the operator and the clock.                     *)

\* A row that is queued, running or failed stays one of these.
LEMMA StoreRowStep ==
  ASSUME StoreInv, NEW d \in Drafts, NEW row \in StoreRow, storeJob' = [storeJob EXCEPT ![d] = row],
         storeJob[d].status \notin {"ABSENT", "SUCCEEDED"}, row.status \notin {"ABSENT", "SUCCEEDED"},
         storeWorker' \in [StoreWorkers -> StoreCall], StoreCallsKnow',
         UNCHANGED <<brand, draft, shop, put, storeTx>>
  PROVE  StoreInv'
<1>1. /\ storeJob' \in [Drafts -> StoreRow] /\ storeJob'[d] = row
      /\ \A f \in Drafts : f # d => storeJob'[f] = storeJob[f]
  BY StoreTyped DEF StoreInv
<1>2. StoreTypeOK'
  BY <1>1 DEF StoreInv, StoreTypeOK, StoreRow
<1>3. (StoreNumbered /\ TxsKnow)'
  BY DEF StoreInv, StoreNumbered, Existing, TxsKnow
<1>4. OneApprovedDraft'
  BY DEF StoreInv, DraftAndJobAgree, OneApprovedDraft, ApprovedDrafts
<1>5. DraftAndJobAgree'
  BY <1>1, <1>4 DEF StoreInv, DraftAndJobAgree
<1>6. PublishedIsComplete'
  BY <1>1 DEF StoreInv, PublishedIsComplete
<1> QED  BY <1>2, <1>3, <1>5, <1>6 DEF StoreInv

LEMMA StoreRequeueStep == ASSUME StoreInv, NEW d \in Drafts, RequeueStore(d) PROVE StoreInv'
<1>1. UNCHANGED <<brand, draft, shop, put, storeTx, storeWorker>>
  BY DEF RequeueStore, draftFrame
<1>2. StoreCallsKnow' /\ storeWorker' \in [StoreWorkers -> StoreCall]
  BY <1>1, StoreTyped DEF StoreInv, StoreCallsKnow
<1>3. Renewed(storeJob[d]) \in StoreRow /\ Renewed(storeJob[d]).status = "PENDING"
  BY StoreRenewedRow, StoreTyped DEF StoreInv
<1>4. storeJob' = [storeJob EXCEPT ![d] = Renewed(storeJob[d])] /\ storeJob[d].status = "FAILED"
  BY DEF RequeueStore
<1> QED  BY <1>1, <1>2, <1>3, <1>4, StoreRowStep

\* A lease lapses or a back-off passes; the clock may touch any row.
LEMMA StoreClockStep ==
  ASSUME StoreInv, NEW d \in Drafts, StoreLeaseExpires(d) \/ StoreFallsDue(d)
  PROVE  StoreInv'
<1>1. UNCHANGED <<brand, draft, shop, put, storeTx, storeWorker>>
  BY DEF StoreLeaseExpires, StoreFallsDue, workerFrame
<1>2. PICK row \in StoreRow : storeJob' = [storeJob EXCEPT ![d] = row] /\ row.status = storeJob[d].status
  <2>1. CASE StoreLeaseExpires(d)
    <3> DEFINE row == [storeJob[d] EXCEPT !.leased = FALSE]
    <3>1. row \in StoreRow /\ row.status = storeJob[d].status
      BY StoreTyped DEF StoreInv, StoreRow, JobRow
    <3>2. storeJob' = [storeJob EXCEPT ![d] = row]
      BY <2>1 DEF StoreLeaseExpires
    <3> QED  BY <3>1, <3>2
  <2>2. CASE StoreFallsDue(d)
    <3> DEFINE row == [storeJob[d] EXCEPT !.due = TRUE]
    <3>1. row \in StoreRow /\ row.status = storeJob[d].status
      BY StoreTyped DEF StoreInv, StoreRow, JobRow
    <3>2. storeJob' = [storeJob EXCEPT ![d] = row]
      BY <2>2 DEF StoreFallsDue
    <3> QED  BY <3>1, <3>2
  <2> QED  BY <2>1, <2>2
<1>3. storeJob' \in [Drafts -> StoreRow] /\ \A f \in Drafts : storeJob'[f].status = storeJob[f].status
  BY <1>2, StoreTyped DEF StoreInv
<1>4. StoreTypeOK'
  BY <1>1, <1>3 DEF StoreInv, StoreTypeOK, StoreRow
<1>5. (StoreNumbered /\ TxsKnow /\ StoreCallsKnow)'
  BY <1>1 DEF StoreInv, StoreNumbered, Existing, TxsKnow, StoreCallsKnow
<1>6. (DraftAndJobAgree /\ PublishedIsComplete)'
  BY <1>1, <1>3 DEF StoreInv, DraftAndJobAgree, OneApprovedDraft, ApprovedDrafts, PublishedIsComplete
<1> QED  BY <1>4, <1>5, <1>6 DEF StoreInv

\* A call moves on: Shopify has been given what its new step presupposes, and
\* is never deprived of what it was given.
LEMMA StoreCallStep ==
  ASSUME StoreInv, NEW w \in StoreWorkers, NEW c \in StoreCall, storeWorker' = [storeWorker EXCEPT ![w] = c],
         c.pc # "idle" => c.of \in Drafts,
         c.pc = "menu" => "page" \in put'[c.of],
         c.pc = "done" => put'[c.of] = Resources,
         \A d \in Drafts : put[d] \subseteq put'[d] /\ put'[d] \subseteq Resources
  PROVE  storeWorker' \in [StoreWorkers -> StoreCall] /\ StoreCallsKnow'
<1>1. /\ storeWorker' \in [StoreWorkers -> StoreCall] /\ storeWorker'[w] = c
      /\ \A v \in StoreWorkers : v # w => storeWorker'[v] = storeWorker[v]
  BY StoreTyped DEF StoreInv
<1>2. \A v \in StoreWorkers : v # w =>
        /\ storeWorker[v].pc # "idle" => storeWorker[v].of \in Drafts
        /\ storeWorker[v].pc = "menu" => "page" \in put'[storeWorker[v].of]
        /\ storeWorker[v].pc = "done" => put'[storeWorker[v].of] = Resources
  <2> SUFFICES ASSUME NEW v \in StoreWorkers, storeWorker[v].pc # "idle"
               PROVE  /\ storeWorker[v].of \in Drafts
                      /\ storeWorker[v].pc = "menu" => "page" \in put'[storeWorker[v].of]
                      /\ storeWorker[v].pc = "done" => put'[storeWorker[v].of] = Resources
    OBVIOUS
  <2> DEFINE d == storeWorker[v].of
  <2>1. /\ d \in Drafts
        /\ storeWorker[v].pc = "menu" => "page" \in put[d]
        /\ storeWorker[v].pc = "done" => put[d] = Resources
    BY DEF StoreInv, StoreCallsKnow
  <2>2. put[d] \subseteq put'[d] /\ put'[d] \subseteq Resources
    BY <2>1
  <2>3. (put[d] = Resources => put'[d] = Resources) /\ ("page" \in put[d] => "page" \in put'[d])
    BY <2>2
  <2> QED  BY <2>1, <2>3
<1> QED  BY <1>1, <1>2 DEF StoreCallsKnow

\* A step that moves one call and leaves the tables alone.
LEMMA StoreOnlyCallStep ==
  ASSUME StoreInv, storeWorker' \in [StoreWorkers -> StoreCall], StoreCallsKnow',
         UNCHANGED <<brand, draft, storeJob, storeTx>>,
         shop' \in [Resources -> 0 .. MaxDrafts], put' \in [Drafts -> SUBSET Resources],
         \A d \in Drafts : put[d] \subseteq put'[d]
  PROVE  StoreInv'
<1>1. StoreTypeOK'
  BY DEF StoreInv, StoreTypeOK
<1>2. (StoreNumbered /\ TxsKnow /\ DraftAndJobAgree)'
  BY DEF StoreInv, StoreNumbered, Existing, TxsKnow, DraftAndJobAgree, OneApprovedDraft, ApprovedDrafts
<1>3. PublishedIsComplete'
  BY DEF StoreInv, PublishedIsComplete
<1> QED  BY <1>1, <1>2, <1>3 DEF StoreInv

\* Shopify's side, unchanged.
LEMMA SameShop ==
  ASSUME StoreInv, UNCHANGED <<shop, put>>
  PROVE  /\ shop' \in [Resources -> 0 .. MaxDrafts] /\ put' \in [Drafts -> SUBSET Resources]
         /\ \A d \in Drafts : put[d] \subseteq put'[d] /\ put'[d] \subseteq Resources
BY StoreTyped DEF StoreInv

LEMMA StoreRestsStep ==
  ASSUME StoreInv, NEW w \in StoreWorkers, StoreRests(w), UNCHANGED <<brand, draft, storeJob, shop, put, storeTx>>
  PROVE  StoreInv'
<1>1. storeWorker' = [storeWorker EXCEPT ![w] = NoStoreCall]
  BY DEF StoreRests
<1>2. storeWorker' \in [StoreWorkers -> StoreCall] /\ StoreCallsKnow'
  BY <1>1, StoreNoCall, SameShop, StoreCallStep
<1> QED  BY <1>2, SameShop, StoreOnlyCallStep

\* A call fails, having given Shopify something or nothing.
LEMMA FailsStep ==
  ASSUME StoreInv, NEW w \in StoreWorkers, NEW e \in {"deferred", "transient", "permanent"}, StoreFails(w, e),
         storeWorker[w].of \in Drafts,
         \A d \in Drafts : put[d] \subseteq put'[d] /\ put'[d] \subseteq Resources
  PROVE  storeWorker' \in [StoreWorkers -> StoreCall] /\ StoreCallsKnow'
<1> DEFINE c == storeWorker[w]
<1>1. c \in StoreCall
  BY StoreTyped DEF StoreInv
<1>2. storeWorker' = [storeWorker EXCEPT ![w] = [c EXCEPT !.pc = "error", !.error = e]]
  BY StoreTyped DEF StoreInv, StoreFails
<1> DEFINE d == [c EXCEPT !.pc = "error", !.error = e]
<1>3. d \in StoreCall /\ d.pc = "error" /\ d.of = c.of
  <2> HIDE DEF c
  <2> QED  BY <1>1, StoreCallFails
<1>4. storeWorker' = [storeWorker EXCEPT ![w] = d]
  BY <1>2
<1> HIDE DEF d
<1> QED  BY <1>3, <1>4, StoreCallStep

LEMMA StoreClaimStep == ASSUME StoreInv, NEW w \in StoreWorkers, NEW d \in Drafts, ClaimStore(w, d) PROVE StoreInv'
<1>1. /\ storeJob' = [storeJob EXCEPT ![d] = Taken(storeJob[d], w)] /\ StoreClaimable(storeJob[d])
      /\ UNCHANGED <<brand, draft, shop, put, storeTx>>
  BY DEF ClaimStore, workerFrame
<1>2. /\ storeJob[d] \in StoreRow /\ storeJob[d].attempts \in Nat /\ storeJob[d].attempts <= MaxStoreAttempts
      /\ storeJob[d].status \in {"PENDING", "RUNNING"}
  BY <1>1, StoreTyped, StoreBounds DEF StoreInv, StoreClaimable, StoreRow, JobRow
<1>3. Taken(storeJob[d], w) \in StoreRow /\ Taken(storeJob[d], w).status = "RUNNING"
  BY <1>2, StoreTakenRow
<1> DEFINE c == [pc |-> "page", of |-> d, attempt |-> storeJob[d].attempts + 1, error |-> "none"]
<1>4. c \in StoreCall /\ c.pc = "page" /\ c.of = d
  <2>1. storeJob[d].attempts + 1 \in 0 .. MaxStoreAttempts + 1 /\ d \in 0 .. MaxDrafts
    BY <1>2, StoreBounds DEF Drafts
  <2> QED  BY <2>1 DEF StoreCall
<1>5. storeWorker' = [storeWorker EXCEPT ![w] = c]
  BY DEF ClaimStore
<1> HIDE DEF c
<1>6. storeWorker' \in [StoreWorkers -> StoreCall] /\ StoreCallsKnow'
  BY <1>1, <1>4, <1>5, SameShop, StoreCallStep
<1> QED  BY <1>1, <1>2, <1>3, <1>6, StoreRowStep

\* A page or menu is put, or not; the call goes on or fails.
LEMMA PutStep == ASSUME StoreInv, NEW w \in StoreWorkers, PutResource(w) PROVE StoreInv'
<1> DEFINE c == storeWorker[w]  r == c.pc  d == c.of
<1>1. /\ r \in Resources /\ d \in Drafts /\ c \in StoreCall
      /\ r = "menu" => "page" \in put[d]
      /\ UNCHANGED <<brand, draft, storeJob, storeTx>>
  BY StoreTyped DEF StoreInv, StoreCallsKnow, PutResource, Resources, workerFrame
<1>2. CASE UNCHANGED <<shop, put>> /\ \E e \in {"deferred", "transient", "permanent"} : StoreFails(w, e)
  <2>1. storeWorker' \in [StoreWorkers -> StoreCall] /\ StoreCallsKnow'
    BY <1>1, <1>2, SameShop, FailsStep
  <2> QED  BY <1>1, <1>2, <2>1, SameShop, StoreOnlyCallStep
<1>3. CASE /\ shop' = [shop EXCEPT ![r] = d] /\ put' = [put EXCEPT ![d] = @ \cup {r}]
           /\ \/ storeWorker' = [storeWorker EXCEPT ![w].pc = IF r = "page" THEN "menu" ELSE "done"]
              \/ StoreFails(w, "transient")
  <2>1. shop' \in [Resources -> 0 .. MaxDrafts]
    BY <1>1, <1>3, StoreTyped DEF StoreInv, StoreCall
  <2>2. put' \in [Drafts -> SUBSET Resources] /\ put'[d] = put[d] \cup {r}
    <3> HIDE DEF r, d
    <3> QED  BY <1>1, <1>3, StoreTyped DEF StoreInv
  <2>3. \A f \in Drafts : put[f] \subseteq put'[f] /\ put'[f] \subseteq Resources
    <3> HIDE DEF r, d
    <3> QED  BY <1>1, <1>3, <2>2, StoreTyped DEF StoreInv
  <2>4. storeWorker' \in [StoreWorkers -> StoreCall] /\ StoreCallsKnow'
    <3>1. CASE StoreFails(w, "transient")
      BY <1>1, <2>3, <3>1, FailsStep
    <3>2. CASE storeWorker' = [storeWorker EXCEPT ![w].pc = IF r = "page" THEN "menu" ELSE "done"]
      <4> DEFINE p == IF r = "page" THEN "menu" ELSE "done"
      <4>1. p \in {"menu", "done"} /\ (p = "menu" => r = "page") /\ (p = "done" => r = "menu")
        BY <1>1 DEF Resources
      <4>2. storeWorker' = [storeWorker EXCEPT ![w] = [c EXCEPT !.pc = p]]
        BY <3>2, StoreTyped DEF StoreInv
      <4> HIDE DEF p
      <4> DEFINE e == [c EXCEPT !.pc = p]
      <4>3. e \in StoreCall /\ e.pc = p /\ e.of = d
        <5>1. c \in StoreCall
          BY <1>1
        <5>2. LET x == [c EXCEPT !.pc = p] IN x \in StoreCall /\ x.pc = p /\ x.of = c.of
          <6> HIDE DEF c
          <6> QED  BY <4>1, <5>1, StoreCallGoes
        <5> QED  BY <5>2
      <4>4. storeWorker' = [storeWorker EXCEPT ![w] = e]
        BY <4>2
      <4> HIDE DEF e
      <4>5. e.pc = "menu" => "page" \in put'[e.of]
        BY <2>2, <4>1, <4>3
      <4>6. e.pc = "done" => put'[e.of] = Resources
        BY <1>1, <2>2, <2>3, <4>1, <4>3 DEF Resources
      <4> QED  BY <1>1, <2>3, <4>1, <4>3, <4>4, <4>5, <4>6, StoreCallStep
    <3> QED  BY <1>3, <3>1, <3>2
  <2> QED  BY <1>1, <2>1, <2>2, <2>3, <2>4, StoreOnlyCallStep
<1> QED  BY <1>2, <1>3 DEF PutResource

\* The job by its owner, and its draft if it is still approved.
LEMMA SucceedsStep == ASSUME StoreInv, NEW w \in StoreWorkers, StoreSucceeds(w) PROVE StoreInv'
<1> DEFINE d == storeWorker[w].of
<1>1. /\ d \in Drafts /\ put[d] = Resources
      /\ UNCHANGED <<brand, shop, put, storeTx>>
  BY DEF StoreInv, StoreCallsKnow, StoreSucceeds, workerFrame
<1>2. CASE StoreFails(w, "transient") /\ UNCHANGED <<draft, storeJob>>
  <2>1. storeWorker' \in [StoreWorkers -> StoreCall] /\ StoreCallsKnow'
    BY <1>1, <1>2, SameShop, FailsStep
  <2> QED  BY <1>1, <1>2, <2>1, SameShop, StoreOnlyCallStep
<1>3. CASE /\ OwnsStore(w) /\ storeJob' = [storeJob EXCEPT ![d] = Freed(@, "SUCCEEDED")]
           /\ draft' = [draft EXCEPT ![d].status = IF @ = "APPROVED" THEN "PUBLISHED" ELSE @]
           /\ StoreRests(w)
  <2>1. storeWorker' = [storeWorker EXCEPT ![w] = NoStoreCall]
    BY <1>3 DEF StoreRests
  <2>2. storeWorker' \in [StoreWorkers -> StoreCall] /\ StoreCallsKnow'
    BY <1>1, <2>1, StoreNoCall, SameShop, StoreCallStep
  <2>3. storeJob[d].status = "RUNNING"
    BY <1>3 DEF OwnsStore, Holds
  <2> HIDE DEF d
  <2>4. draft[d] \in DraftRow /\ draft[d].status \in {"APPROVED", "SUPERSEDED"}
    BY <1>1, <2>3, StoreTyped DEF StoreInv, DraftAndJobAgree, DraftRow, DraftStatus
  <2>5. Freed(storeJob[d], "SUCCEEDED") \in StoreRow /\ Freed(storeJob[d], "SUCCEEDED").status = "SUCCEEDED"
    BY <1>1, StoreFreedRow, StoreTyped DEF StoreInv
  <2>6. /\ storeJob' \in [Drafts -> StoreRow] /\ storeJob'[d].status = "SUCCEEDED"
        /\ \A f \in Drafts : f # d => storeJob'[f] = storeJob[f]
    BY <1>1, <1>3, <2>5, StoreTyped DEF StoreInv
  <2> DEFINE s == IF draft[d].status = "APPROVED" THEN "PUBLISHED" ELSE draft[d].status
  <2>7. s \in {"PUBLISHED", "SUPERSEDED"}
    BY <2>4
  <2>8. draft' = [draft EXCEPT ![d] = [draft[d] EXCEPT !.status = s]]
    BY <1>1, <1>3, StoreTyped DEF StoreInv
  <2> HIDE DEF s
  <2> DEFINE row == [draft[d] EXCEPT !.status = s]
  <2>9. row \in DraftRow /\ row.status = s /\ row.source = draft[d].source /\ row.of = draft[d].of
    BY <2>4, <2>7 DEF DraftRow, DraftStatus
  <2>10. draft' = [draft EXCEPT ![d] = row]
    BY <2>8
  <2> HIDE DEF row
  <2>11. /\ draft' \in [Drafts -> DraftRow] /\ draft'[d] = row
         /\ \A f \in Drafts : f # d => draft'[f] = draft[f]
    BY <1>1, <2>9, <2>10, StoreTyped DEF StoreInv
  <2>12. StoreTypeOK'
    BY <1>1, <2>2, <2>6, <2>11 DEF StoreInv, StoreTypeOK, DraftRow, DraftStatus, StoreRow
  <2>13. Existing' = Existing
    BY <2>4, <2>7, <2>9, <2>11 DEF Existing
  <2>14. (StoreNumbered /\ TxsKnow)'
    BY <1>1, <2>9, <2>11, <2>13 DEF StoreInv, StoreNumbered, TxsKnow
  <2>15. OneApprovedDraft'
    BY <2>7, <2>9, <2>11 DEF StoreInv, DraftAndJobAgree, OneApprovedDraft, ApprovedDrafts
  <2>16. DraftAndJobAgree'
    BY <2>6, <2>7, <2>9, <2>11, <2>15 DEF StoreInv, DraftAndJobAgree
  <2>17. PublishedIsComplete'
    BY <1>1, <2>6 DEF StoreInv, PublishedIsComplete
  <2> QED  BY <2>2, <2>12, <2>14, <2>16, <2>17 DEF StoreInv
<1> QED  BY <1>2, <1>3 DEF StoreSucceeds

LEMMA StoreErrorStep == ASSUME StoreInv, NEW w \in StoreWorkers, HandleStoreError(w) PROVE StoreInv'
<1> DEFINE d == storeWorker[w].of  j == storeJob[d]
           row == IF storeWorker[w].error = "deferred" THEN GivenBack(Later(j, "PENDING"))
                  ELSE IF storeWorker[w].error = "transient" /\ storeWorker[w].attempt < MaxStoreAttempts
                  THEN Later(j, "PENDING") ELSE Freed(j, "FAILED")
<1>1. /\ d \in Drafts /\ j \in StoreRow /\ StoreRests(w)
      /\ UNCHANGED <<brand, draft, shop, put, storeTx>>
      /\ storeJob' = IF OwnsStore(w) THEN [storeJob EXCEPT ![d] = row] ELSE storeJob
  BY StoreTyped DEF StoreInv, StoreCallsKnow, HandleStoreError, workerFrame
<1>2. CASE ~OwnsStore(w)
  BY <1>1, <1>2, StoreRestsStep
<1>3. CASE OwnsStore(w)
  <2>1. row \in StoreRow /\ row.status \in {"PENDING", "FAILED"}
    <3>1. Later(j, "PENDING") \in StoreRow /\ Later(j, "PENDING").status = "PENDING"
      BY <1>1, StoreLaterRow
    <3>2. GivenBack(Later(j, "PENDING")) \in StoreRow /\ GivenBack(Later(j, "PENDING")).status = "PENDING"
      BY <3>1, StoreGivenBackRow
    <3>3. Freed(j, "FAILED") \in StoreRow /\ Freed(j, "FAILED").status = "FAILED"
      BY <1>1, StoreFreedRow
    <3> QED  BY <3>1, <3>2, <3>3
  <2>2. j.status = "RUNNING" /\ storeJob' = [storeJob EXCEPT ![d] = row]
    BY <1>1, <1>3 DEF OwnsStore, Holds
  <2>3. storeWorker' = [storeWorker EXCEPT ![w] = NoStoreCall]
    BY <1>1 DEF StoreRests
  <2>4. storeWorker' \in [StoreWorkers -> StoreCall] /\ StoreCallsKnow'
    BY <1>1, <2>3, StoreNoCall, SameShop, StoreCallStep
  <2> HIDE DEF d, row
  <2> QED  BY <1>1, <2>1, <2>2, <2>4, StoreRowStep
<1> QED  BY <1>2, <1>3

-----------------------------------------------------------------------------
LEMMA StoreNextInv == StoreInv /\ [StoreNext]_storeVars => StoreInv'
<1> SUFFICES ASSUME StoreInv, [StoreNext]_storeVars PROVE StoreInv'
  OBVIOUS
<1>1. CASE \E m \in StoreEditors : StoreEditorStep(m)
  <2>1. PICK m \in StoreEditors : StoreEditorStep(m)
    BY <1>1
  <2>2. CASE BeginGenerate(m) \/ \E d \in Drafts : LockBase(m, d) \/ LockStore(m, d)
    BY <2>2, StoreBeginStep
  <2>3. CASE InsertGenerated(m) \/ CommitStoreEdit(m) \/ ApproveDraft(m)
    BY <2>3, InsertGeneratedStep, CommitEditStep, ApproveStep
  <2>4. CASE BreakDeadlock(m) \/ HandlerDies(m)
    BY <2>4, EndStep DEF BreakDeadlock, HandlerDies
  <2> QED  BY <2>1, <2>2, <2>3, <2>4 DEF StoreEditorStep
<1>2. CASE \E w \in StoreWorkers : StoreWorkerStep(w)
  BY <1>2, PutStep, SucceedsStep, StoreErrorStep DEF StoreWorkerStep
<1>3. CASE \E w \in StoreWorkers : StoreWorkerDies(w)
  BY <1>3, StoreRestsStep DEF StoreWorkerDies, workerFrame
<1>4. CASE \E w \in StoreWorkers : \E d \in Drafts : ClaimStore(w, d)
  BY <1>4, StoreClaimStep
<1>5. CASE \E d \in Drafts : RequeueStore(d) \/ StoreLeaseExpires(d) \/ StoreFallsDue(d)
  BY <1>5, StoreRequeueStep, StoreClockStep
<1>6. CASE BrandMoves
  BY <1>6, BrandStep
<1>7. CASE UNCHANGED storeVars
  <2>1. UNCHANGED <<brand, draft, storeJob, shop, put, storeTx, storeWorker>>
    BY <1>7 DEF storeVars
  <2>2. storeWorker' \in [StoreWorkers -> StoreCall] /\ StoreCallsKnow'
    BY <2>1, StoreTyped DEF StoreInv, StoreCallsKnow
  <2> QED  BY <2>1, <2>2, SameShop, StoreOnlyCallStep
<1> QED  BY <1>1, <1>2, <1>3, <1>4, <1>5, <1>6, <1>7 DEF StoreNext

\* The invariant holds whatever Shopify, the handlers, the workers and the
\* operators do.
LEMMA StoreInvHolds == StoreSpec => []StoreInv
BY StoreInitInv, StoreNextInv, PTL DEF StoreSpec

-----------------------------------------------------------------------------
\* The tables, the transactions, the calls and Shopify's side keep their types.
THEOREM StoreTypes == StoreSpec => []StoreTypeOK
<1>1. StoreInv => StoreTypeOK
  BY DEF StoreInv
<1> QED  BY <1>1, StoreInvHolds, PTL

\* One draft at most is approved, a brand revision is generated once, and a
\* draft's status says what became of its job (approve in config-service.ts, success in
\* publication-job-store.ts).
THEOREM DraftsAndJobsAgree == StoreSpec => []DraftAndJobAgree
<1>1. StoreInv => DraftAndJobAgree
  BY DEF StoreInv
<1> QED  BY <1>1, StoreInvHolds, PTL

\* A publication that succeeded has given Shopify every page and the menu,
\* though attempts die, lose their lease and overlap.
THEOREM PublishedIsWhole == StoreSpec => []PublishedIsComplete
<1>1. StoreInv => PublishedIsComplete
  BY DEF StoreInv
<1> QED  BY <1>1, StoreInvHolds, PTL
=============================================================================
