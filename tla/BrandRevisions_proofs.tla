------------------------- MODULE BrandRevisions_proofs -------------------------
(***************************************************************************)
(* Safety of the brand store for any sessions, workers and revisions.      *)
(* Carried along: the locks exclude each other, revisions are numbered     *)
(* without a gap, and what a worker knows of the revision it is about.     *)
(***************************************************************************)
EXTENDS BrandRevisions, FiniteSetTheorems, TLAPS

\* What a settled or a running revision says of its job.
Agree(v, j) ==
  /\ v.status = "GENERATING" => j.status \in {"PENDING", "RUNNING"}
  /\ v.status = "GENERATION_FAILED" => j.status = "FAILED"
  /\ v.status \in Completed => j.status \in {None, "SUCCEEDED"}
  /\ v.status = None => j.status = None
  /\ v.failure \in {"TRANSIENT", "EXHAUSTED"} => j.attempts >= MaxGenerations

BrandRowsAgree == \A r \in Revisions : Agree(revision[r], genJob[r])

HasProfile(s) == tx[s].kind # None /\ tx[s].stage = "profile"

LocksExclude ==
  /\ \A s, t \in Sessions : tx[s].base # None /\ tx[s].base = tx[t].base => s = t
  /\ \A s, t \in Sessions : HasProfile(s) /\ HasProfile(t) => s = t
  /\ \A s \in Sessions : tx[s].kind = "approve" => tx[s].base \in Revisions

BrandNumbered == \E m \in 0 .. MaxRevisions : Created = 1 .. m

\* The revision of a call exists, its attempt was counted, and it acknowledges
\* what has been settled.
Knows(c) ==
  c.pc # "idle" =>
    /\ c.of \in Revisions /\ Status(c.of) # None
    /\ c.attempt <= genJob[c.of].attempts
    /\ c.error = "EXHAUSTED" => c.attempt > MaxGenerations
    /\ c.pc = "ackSuccess" => Status(c.of) \in Completed
    /\ c.pc = "ackFailure" => Status(c.of) = "GENERATION_FAILED"

BrandCallsKnow == \A g \in Generators : Knows(generator[g])

BrandInv == /\ BrandTypeOK /\ BrandRowsAgree /\ OneApproved /\ ReadsStayFresh
        /\ LocksExclude /\ BrandNumbered /\ BrandCallsKnow

-----------------------------------------------------------------------------
LEMMA BrandInvImplies == BrandInv => RevisionAndJobAgree
BY DEF BrandInv, BrandRowsAgree, Agree, RevisionAndJobAgree, Status

LEMMA BrandRecords ==
  /\ NoRevision \in RevisionRow /\ NoGeneration \in GenerationRow
  /\ NoTransaction \in Transaction /\ IdleGenerator \in GeneratorCall
BY RevisionBounds DEF NoRevision, RevisionRow, NoGeneration, GenerationRow, NoTransaction, Transaction,
   IdleGenerator, GeneratorCall

LEMMA Count == ASSUME NEW m \in Nat PROVE Cardinality(1 .. m) = m
BY FS_Interval

\* The number that is read is one more than the last.
LEMMA Counted ==
  ASSUME BrandNumbered
  PROVE  MaxRevision \in 0 .. MaxRevisions /\ Created = 1 .. MaxRevision
BY Count, RevisionBounds DEF BrandNumbered, MaxRevision

LEMMA BrandInitInv == BrandInit => BrandInv
<1> SUFFICES ASSUME BrandInit PROVE BrandInv
  OBVIOUS
<1>1. BrandTypeOK
  BY BrandRecords DEF BrandInit, BrandTypeOK
<1>2. \A r \in Revisions : Status(r) = None /\ genJob[r].status = None /\ revision[r].failure = None
  BY DEF BrandInit, NoRevision, NoGeneration, Status
<1>3. BrandRowsAgree
  BY <1>2, NoneIsNothing DEF BrandRowsAgree, Agree, Status, Completed, BrandInit, NoRevision
<1>4. OneApproved
  BY <1>2, NoneIsNothing DEF OneApproved
<1>5. ReadsStayFresh /\ LocksExclude
  BY NoneIsNothing DEF BrandInit, ReadsStayFresh, LocksExclude, NoTransaction, HasProfile
<1>6. BrandNumbered
  <2>1. Created = 1 .. 0 /\ 0 \in 0 .. MaxRevisions
    BY <1>2, RevisionBounds DEF Created
  <2> QED  BY <2>1 DEF BrandNumbered
<1>7. BrandCallsKnow
  BY DEF BrandInit, BrandCallsKnow, Knows, IdleGenerator
<1> QED  BY <1>1, <1>3, <1>4, <1>5, <1>6, <1>7 DEF BrandInv

-----------------------------------------------------------------------------
(* Steps of the sessions that write no row.                                 *)

\* The other sessions stay where they are; what this one holds, no other holds.
LEMMA BrandLockStep ==
  ASSUME BrandInv, NEW s \in Sessions, NEW c \in Transaction, tx' = [tx EXCEPT ![s] = c],
         UNCHANGED <<revision, genJob, emitted, generator>>,
         c.base # None => \A t \in Sessions \ {s} : tx[t].base # c.base,
         c.kind # None /\ c.stage = "profile" => c.number = MaxRevision + 1 /\ \A t \in Sessions \ {s} : ~HasProfile(t),
         c.kind = "approve" => c.base \in Revisions /\ Status(c.base) = "REVIEW_REQUIRED"
  PROVE  BrandInv'
<1> USE DEF BrandInv
<1>1. /\ tx' \in [Sessions -> Transaction] /\ tx'[s] = c
      /\ \A t \in Sessions : t # s => tx'[t] = tx[t]
  BY DEF BrandTypeOK
<1>2. BrandTypeOK'
  BY <1>1 DEF BrandTypeOK
<1>3. BrandRowsAgree' /\ OneApproved' /\ BrandNumbered' /\ BrandCallsKnow'
  BY DEF BrandRowsAgree, OneApproved, BrandNumbered, BrandCallsKnow, Knows, Status, Created
<1>4. MaxRevision' = MaxRevision /\ \A r : Status(r)' = Status(r)
  BY DEF MaxRevision, Created, Status
<1>5. ReadsStayFresh'
  BY <1>1, <1>4 DEF ReadsStayFresh, HasProfile
<1>6. LocksExclude'
  <2>1. \A t \in Sessions : t # s => (HasProfile(t)' <=> HasProfile(t))
    BY <1>1 DEF HasProfile
  <2>2. HasProfile(s)' => \A t \in Sessions \ {s} : ~HasProfile(t)
    BY <1>1 DEF HasProfile
  <2>3. \A t, u \in Sessions : tx'[t].base # None /\ tx'[t].base = tx'[u].base => t = u
    BY <1>1 DEF LocksExclude
  <2>4. \A t, u \in Sessions : HasProfile(t)' /\ HasProfile(u)' => t = u
    BY <2>1, <2>2 DEF LocksExclude
  <2>5. \A t \in Sessions : tx'[t].kind = "approve" => tx'[t].base \in Revisions
    BY <1>1 DEF LocksExclude
  <2> QED  BY <2>3, <2>4, <2>5 DEF LocksExclude
<1> QED  BY <1>2, <1>3, <1>5, <1>6

\* A transaction begins with its first lock.
LEMMA BrandBeginStep ==
  ASSUME BrandInv, NEW s \in Sessions,
         \/ \E k \in Keys : LockWorkspace(s, k)
         \/ \E r \in Revisions : LockForEdit(s, r) \/ LockForApproval(s, r)
  PROVE  BrandInv'
<1>1. CASE \E k \in Keys : LockWorkspace(s, k)
  <2>1. PICK k \in Keys : LockWorkspace(s, k)
    BY <1>1
  <2> DEFINE c == [NoTransaction EXCEPT !.kind = "create", !.key = k]
  <2>2. c \in Transaction /\ c.kind = "create" /\ c.stage = "row" /\ c.base = None
    BY BrandRecords DEF Transaction, NoTransaction
  <2>3. tx' = [tx EXCEPT ![s] = c] /\ UNCHANGED <<revision, genJob, emitted, generator>>
    BY <2>1 DEF LockWorkspace
  <2> HIDE DEF c
  <2> QED  BY <2>2, <2>3, BrandLockStep
<1>2. CASE \E r \in Revisions : LockForEdit(s, r)
  <2>1. PICK r \in Revisions : LockForEdit(s, r)
    BY <1>2
  <2> DEFINE c == [NoTransaction EXCEPT !.kind = "edit", !.base = r]
  <2>2. c \in Transaction /\ c.kind = "edit" /\ c.stage = "row" /\ c.base = r
    BY BrandRecords DEF Transaction, NoTransaction
  <2>3. tx' = [tx EXCEPT ![s] = c] /\ UNCHANGED <<revision, genJob, emitted, generator>>
        /\ \A t \in Sessions : tx[t].base # r
    BY <2>1 DEF LockForEdit, RowLocked
  <2> HIDE DEF c
  <2> QED  BY <2>2, <2>3, BrandLockStep
<1>3. CASE \E r \in Revisions : LockForApproval(s, r)
  <2>1. PICK r \in Revisions : LockForApproval(s, r)
    BY <1>3
  <2> DEFINE c == [NoTransaction EXCEPT !.kind = "approve", !.base = r]
  <2>2. c \in Transaction /\ c.kind = "approve" /\ c.stage = "row" /\ c.base = r
    BY BrandRecords DEF Transaction, NoTransaction
  <2>3. tx' = [tx EXCEPT ![s] = c] /\ UNCHANGED <<revision, genJob, emitted, generator>>
        /\ \A t \in Sessions : tx[t].base # r
    BY <2>1 DEF LockForApproval, RowLocked
  <2>4. Status(r) = "REVIEW_REQUIRED"
    BY <2>1 DEF LockForApproval
  <2> HIDE DEF c
  <2> QED  BY <2>2, <2>3, <2>4, BrandLockStep
<1> QED  BY <1>1, <1>2, <1>3

\* The profile is locked and the next number read.
LEMMA ProfileStep == ASSUME BrandInv, NEW s \in Sessions, LockProfile(s) PROVE BrandInv'
<1>1. /\ tx[s] \in Transaction /\ MaxRevision + 1 \in 0 .. MaxRevisions + 1
  BY Counted, RevisionBounds DEF BrandInv, BrandTypeOK
<1> DEFINE c == [tx[s] EXCEPT !.stage = "profile", !.number = MaxRevision + 1]
<1>2. /\ c \in Transaction /\ c.stage = "profile" /\ c.number = MaxRevision + 1
      /\ c.kind = tx[s].kind /\ c.base = tx[s].base
  BY <1>1 DEF Transaction
<1>3. tx' = [tx EXCEPT ![s] = c] /\ UNCHANGED <<revision, genJob, emitted, generator>>
  BY DEF LockProfile, BrandInv, BrandTypeOK
<1> HIDE DEF c
<1>4. \A t \in Sessions : ~HasProfile(t)
  BY DEF LockProfile, ProfileLocked, HasProfile
<1>5. c.base # None => \A t \in Sessions \ {s} : tx[t].base # c.base
  BY <1>2 DEF BrandInv, LocksExclude
<1>6. c.kind = "approve" => c.base \in Revisions /\ Status(c.base) = "REVIEW_REQUIRED"
  BY <1>2 DEF BrandInv, LocksExclude, ReadsStayFresh
<1> QED  BY <1>2, <1>3, <1>4, <1>5, <1>6, BrandLockStep

\* A transaction ends without having written.
LEMMA CloseStep ==
  ASSUME BrandInv, NEW s \in Sessions, Close(s), UNCHANGED <<revision, genJob, emitted, generator>>
  PROVE  BrandInv'
<1>1. NoTransaction.kind = None /\ NoTransaction.base = None /\ NoTransaction \in Transaction
  BY BrandRecords DEF NoTransaction
<1> QED  BY <1>1, BrandLockStep, NoneIsNothing DEF Close

-----------------------------------------------------------------------------
(* Steps that write rows.                                                   *)

\* What a call knows stays true while revisions are created, settled, approved or
\* superseded and attempts are counted.
LEMMA CallsStay ==
  ASSUME BrandCallsKnow,
         \A r \in Revisions : Status(r) # None =>
           /\ revision'[r].status # None /\ genJob'[r].attempts >= genJob[r].attempts
           /\ Status(r) \in Completed => revision'[r].status \in Completed
           /\ Status(r) = "GENERATION_FAILED" => revision'[r].status = "GENERATION_FAILED",
         genJob \in [Revisions -> GenerationRow], genJob' \in [Revisions -> GenerationRow],
         NEW c \in GeneratorCall, Knows(c)
  PROVE  Knows(c)'
<1>1. CASE c.pc = "idle"
  BY <1>1 DEF Knows
<1>2. CASE c.pc # "idle"
  <2>1. c.of \in Revisions /\ Status(c.of) # None /\ c.attempt <= genJob[c.of].attempts
    BY <1>2 DEF Knows
  <2>2. genJob[c.of].attempts \in Nat /\ genJob'[c.of].attempts \in Nat /\ c.attempt \in Nat
    BY <2>1, RevisionBounds DEF GenerationRow, GeneratorCall
  <2>3. c.attempt <= genJob'[c.of].attempts
    BY <2>1, <2>2
  <2> QED  BY <1>2, <2>1, <2>3 DEF Knows, Status
<1> QED  BY <1>1, <1>2

\* A new revision under the number that was read, the profile being locked.
LEMMA CreatedStep ==
  ASSUME BrandInv, NEW s \in Sessions, HasProfile(s), Close(s), tx[s].number \in Revisions,
         NEW v \in RevisionRow, NEW j \in GenerationRow,
         revision' = [revision EXCEPT ![tx[s].number] = v], genJob' = [genJob EXCEPT ![tx[s].number] = j],
         v.status \in {"GENERATING", "REVIEW_REQUIRED"}, Agree(v, j),
         emitted' \subseteq {"generation-requested", "review-required", "approved"} \X Revisions,
         UNCHANGED generator
  PROVE  BrandInv'
<1> USE DEF BrandInv
<1> DEFINE n == tx[s].number
<1>1. n = MaxRevision + 1 /\ MaxRevision \in 0 .. MaxRevisions /\ Created = 1 .. MaxRevision
  BY Counted DEF ReadsStayFresh, HasProfile
<1>2. n \in Revisions /\ n \notin Created /\ Status(n) = None
  BY <1>1 DEF Created
<1>3. /\ tx' \in [Sessions -> Transaction] /\ tx'[s] = NoTransaction
      /\ \A t \in Sessions : t # s => tx'[t] = tx[t]
  BY BrandRecords DEF BrandTypeOK, Close
<1>4. /\ revision' \in [Revisions -> RevisionRow] /\ revision'[n] = v
      /\ genJob' \in [Revisions -> GenerationRow] /\ genJob'[n] = j
      /\ \A r \in Revisions : r # n => revision'[r] = revision[r] /\ genJob'[r] = genJob[r]
  BY <1>2 DEF BrandTypeOK
<1> HIDE DEF n
<1>5. BrandTypeOK'
  BY <1>3, <1>4 DEF BrandTypeOK
<1>6. BrandRowsAgree'
  BY <1>4 DEF BrandRowsAgree, Agree
<1>7. OneApproved'
  BY <1>4 DEF OneApproved, Status
<1>8. Created' = 1 .. n /\ n \in 0 .. MaxRevisions
  <2>1. v.status # None
    BY NoneIsNothing
  <2>2. Created' = Created \cup {n}
    BY <1>2, <1>4, <2>1 DEF Created, Status
  <2> QED  BY <1>1, <1>2, <2>2 DEF Revisions
<1>9. BrandNumbered'
  BY <1>8 DEF BrandNumbered
<1>10. \A t \in Sessions : ~HasProfile(t)'
  BY <1>3 DEF LocksExclude, HasProfile, NoTransaction
<1>11. ReadsStayFresh'
  <2>1. \A t \in Sessions : tx'[t].kind = "approve" => t # s /\ tx[t].kind = "approve"
    BY <1>3, NoneIsNothing DEF NoTransaction
  <2>2. \A t \in Sessions : tx'[t].kind = "approve" => revision'[tx'[t].base].status = "REVIEW_REQUIRED"
    <3> SUFFICES ASSUME NEW t \in Sessions, tx'[t].kind = "approve"
                 PROVE  revision'[tx'[t].base].status = "REVIEW_REQUIRED"
      OBVIOUS
    <3>1. tx[t].base \in Revisions /\ Status(tx[t].base) = "REVIEW_REQUIRED" /\ tx'[t] = tx[t]
      BY <1>3, <2>1 DEF ReadsStayFresh, LocksExclude
    <3>2. tx[t].base # n
      BY <1>2, <3>1, NoneIsNothing
    <3> QED  BY <1>4, <3>1, <3>2 DEF Status
  <2> QED  BY <1>10, <2>2 DEF ReadsStayFresh, Status, HasProfile
<1>12. LocksExclude'
  BY <1>3, <1>10, NoneIsNothing DEF LocksExclude, NoTransaction
<1>13. BrandCallsKnow'
  <2>1. \A r \in Revisions : Status(r) # None => revision'[r] = revision[r] /\ genJob'[r] = genJob[r]
    BY <1>2, <1>4
  <2>2. \A r \in Revisions : genJob[r].attempts \in Nat
    BY RevisionBounds DEF BrandTypeOK, GenerationRow
  <2>3. \A r \in Revisions : Status(r) # None =>
           /\ revision'[r].status # None /\ genJob'[r].attempts >= genJob[r].attempts
           /\ Status(r) \in Completed => revision'[r].status \in Completed
           /\ Status(r) = "GENERATION_FAILED" => revision'[r].status = "GENERATION_FAILED"
    BY <2>1, <2>2 DEF Status
  <2>4. \A g \in Generators : Knows(generator[g])'
    <3> TAKE g \in Generators
    <3>1. PICK c \in GeneratorCall : c = generator[g] /\ Knows(c)
      BY DEF BrandTypeOK, BrandCallsKnow
    <3>2. Knows(c)'
      BY <1>4, <2>3, <3>1, CallsStay DEF BrandTypeOK
    <3> QED  BY <3>1, <3>2
  <2> QED  BY <2>4 DEF BrandCallsKnow
<1> QED  BY <1>5, <1>6, <1>7, <1>9, <1>11, <1>12, <1>13

LEMMA CommitStep == ASSUME BrandInv, NEW s \in Sessions, CommitCreate(s) \/ CommitEdit(s) PROVE BrandInv'
<1> DEFINE n == tx[s].number
<1>1. HasProfile(s) /\ Close(s) /\ UNCHANGED generator
  BY NoneIsNothing DEF CommitCreate, CommitEdit, HasProfile
<1>2. CASE CommitCreate(s) /\ KeyKnown(tx[s].key)
  BY <1>1, <1>2, CloseStep DEF CommitCreate
<1>3. CASE CommitCreate(s) /\ ~KeyKnown(tx[s].key)
  <2> DEFINE v == [NoRevision EXCEPT !.status = "GENERATING", !.key = tx[s].key]
             j == [NoGeneration EXCEPT !.status = "PENDING"]
  <2>1. tx[s].key \in Keys \cup {None}
    BY DEF BrandInv, BrandTypeOK, Transaction
  <2>2. v \in RevisionRow /\ v.status = "GENERATING" /\ v.failure = None
    BY <2>1, BrandRecords DEF RevisionRow, NoRevision
  <2>3. j \in GenerationRow /\ j.status = "PENDING"
    BY BrandRecords DEF GenerationRow, NoGeneration
  <2>4. /\ n \in Revisions /\ revision' = [revision EXCEPT ![n] = v] /\ genJob' = [genJob EXCEPT ![n] = j]
        /\ emitted' = emitted \cup {<<"generation-requested", n>>}
    BY <1>3 DEF CommitCreate
  <2> HIDE DEF v, j
  <2>5. Agree(v, j)
    BY <2>2, <2>3, NoneIsNothing DEF Agree, Completed
  <2>6. emitted' \subseteq {"generation-requested", "review-required", "approved"} \X Revisions
    BY <2>4 DEF BrandInv, BrandTypeOK
  <2> QED  BY <1>1, <2>2, <2>3, <2>4, <2>5, <2>6, CreatedStep
<1>4. CASE CommitEdit(s)
  <2> DEFINE v == [NoRevision EXCEPT !.status = "REVIEW_REQUIRED"]
  <2>1. /\ n \in Revisions /\ revision' = [revision EXCEPT ![n] = v] /\ UNCHANGED genJob
        /\ emitted' = emitted \cup {<<"review-required", n>>}
    BY <1>4 DEF CommitEdit
  <2>2. v \in RevisionRow /\ v.status = "REVIEW_REQUIRED" /\ v.failure = None
    BY BrandRecords DEF RevisionRow, NoRevision, Completed
  <2> HIDE DEF v
  <2>3. genJob[n] \in GenerationRow /\ genJob' = [genJob EXCEPT ![n] = genJob[n]]
    BY <2>1 DEF BrandInv, BrandTypeOK
  <2>4. Status(n) = None
    BY <1>1, <2>1, Counted DEF BrandInv, ReadsStayFresh, HasProfile, Created
  <2>5. Agree(v, genJob[n])
    BY <2>1, <2>2, <2>4, NoneIsNothing DEF BrandInv, BrandRowsAgree, Agree, Completed, Status
  <2>6. emitted' \subseteq {"generation-requested", "review-required", "approved"} \X Revisions
    BY <2>1 DEF BrandInv, BrandTypeOK
  <2> QED  BY <1>1, <2>1, <2>2, <2>3, <2>5, <2>6, CreatedStep
<1> QED  BY <1>2, <1>3, <1>4

\* One revision is approved and every other approved one superseded.
LEMMA ApprovalStep == ASSUME BrandInv, NEW s \in Sessions, CommitApproval(s) PROVE BrandInv'
<1> USE DEF BrandInv
<1> DEFINE b == tx[s].base
<1>1. /\ HasProfile(s) /\ b \in Revisions /\ Status(b) = "REVIEW_REQUIRED" /\ UNCHANGED <<genJob, generator>>
      /\ emitted' = emitted \cup {<<"approved", b>>}
  BY NoneIsNothing DEF CommitApproval, HasProfile, ReadsStayFresh, LocksExclude
<1>2. /\ tx' \in [Sessions -> Transaction] /\ tx'[s] = NoTransaction
      /\ \A t \in Sessions : t # s => tx'[t] = tx[t]
  BY BrandRecords DEF CommitApproval, BrandTypeOK, Close
<1>3. revision' \in [Revisions -> RevisionRow]
  <2>1. \A r \in Revisions : /\ [revision[r] EXCEPT !.status = "APPROVED"] \in RevisionRow
                             /\ [revision[r] EXCEPT !.status = "SUPERSEDED"] \in RevisionRow
    BY DEF BrandTypeOK, RevisionRow, Completed
  <2> QED  BY <2>1 DEF CommitApproval, BrandTypeOK
<1>4. \A r \in Revisions :
        /\ revision'[r].failure = revision[r].failure
        /\ revision'[r].status = IF r = b THEN "APPROVED" ELSE IF Status(r) = "APPROVED" THEN "SUPERSEDED" ELSE Status(r)
  BY DEF CommitApproval, Superseded, Status, BrandTypeOK, RevisionRow
<1> HIDE DEF b
<1>5. BrandTypeOK'
  BY <1>1, <1>2, <1>3 DEF BrandTypeOK
<1>6. BrandRowsAgree'
  BY <1>1, <1>4, NoneIsNothing DEF BrandRowsAgree, Agree, Completed, Status
<1>7. OneApproved'
  BY <1>4 DEF OneApproved, Status
<1>8. Created' = Created
  BY <1>1, <1>4, NoneIsNothing DEF Created, Status
<1>9. BrandNumbered'
  BY <1>8 DEF BrandNumbered
<1>10. \A t \in Sessions : ~HasProfile(t)'
  BY <1>1, <1>2 DEF LocksExclude, HasProfile, NoTransaction
<1>11. ReadsStayFresh'
  <2>1. \A t \in Sessions : tx'[t].kind = "approve" => revision'[tx'[t].base].status = "REVIEW_REQUIRED"
    <3> SUFFICES ASSUME NEW t \in Sessions, tx'[t].kind = "approve"
                 PROVE  revision'[tx'[t].base].status = "REVIEW_REQUIRED"
      OBVIOUS
    <3>1. t # s /\ tx'[t] = tx[t]
      BY <1>2, NoneIsNothing DEF NoTransaction
    <3>2. tx[t].base \in Revisions /\ Status(tx[t].base) = "REVIEW_REQUIRED" /\ tx[t].base # b
      BY <1>1, <3>1, NoneIsNothing DEF ReadsStayFresh, LocksExclude, b
    <3> QED  BY <1>4, <3>1, <3>2
  <2> QED  BY <1>10, <2>1 DEF ReadsStayFresh, Status, HasProfile
<1>12. LocksExclude'
  BY <1>2, <1>10, NoneIsNothing DEF LocksExclude, NoTransaction
<1>13. BrandCallsKnow'
  <2>1. \A r \in Revisions : genJob[r].attempts \in Nat
    BY RevisionBounds DEF BrandTypeOK, GenerationRow
  <2>2. \A r \in Revisions : Status(r) # None =>
           /\ revision'[r].status # None /\ genJob'[r].attempts >= genJob[r].attempts
           /\ Status(r) \in Completed => revision'[r].status \in Completed
           /\ Status(r) = "GENERATION_FAILED" => revision'[r].status = "GENERATION_FAILED"
    <3>1. \A r \in Revisions : genJob'[r].attempts >= genJob[r].attempts
      BY <1>1, <2>1
    <3>2. \A r \in Revisions : Status(r) # None => revision'[r].status # None
      BY <1>4, NoneIsNothing
    <3>3. \A r \in Revisions : Status(r) \in Completed => revision'[r].status \in Completed
      BY <1>4 DEF Completed
    <3>4. \A r \in Revisions : Status(r) = "GENERATION_FAILED" => revision'[r].status = "GENERATION_FAILED"
      BY <1>1, <1>4
    <3> QED  BY <3>1, <3>2, <3>3, <3>4
  <2>3. \A g \in Generators : Knows(generator[g])'
    <3> TAKE g \in Generators
    <3>1. PICK c \in GeneratorCall : c = generator[g] /\ Knows(c)
      BY DEF BrandTypeOK, BrandCallsKnow
    <3>2. Knows(c)'
      BY <1>1, <2>2, <3>1, CallsStay DEF BrandTypeOK
    <3> QED  BY <1>1, <3>1, <3>2
  <2> QED  BY <2>3 DEF BrandCallsKnow
<1> QED  BY <1>5, <1>6, <1>7, <1>9, <1>11, <1>12, <1>13


-----------------------------------------------------------------------------
(* The workers and the clock.                                               *)

\* One job changes, with its revision at most from GENERATING to settled, and one
\* worker's call.
LEMMA GenerationStep ==
  ASSUME BrandInv, NEW r \in Revisions, NEW v \in RevisionRow, NEW j \in GenerationRow,
         revision' \in [Revisions -> RevisionRow], revision'[r] = v,
         genJob' \in [Revisions -> GenerationRow], genJob'[r] = j,
         \A q \in Revisions : q # r => revision'[q] = revision[q] /\ genJob'[q] = genJob[q],
         \/ v = revision[r]
         \/ Status(r) = "GENERATING" /\ v.status \in {"REVIEW_REQUIRED", "GENERATION_FAILED"},
         j.attempts >= genJob[r].attempts, Agree(v, j),
         emitted' \subseteq {"generation-requested", "review-required", "approved"} \X Revisions,
         UNCHANGED tx, generator' \in [Generators -> GeneratorCall],
         \A h \in Generators : generator'[h] = generator[h] \/ Knows(generator[h])'
  PROVE  BrandInv'
<1> USE DEF BrandInv
<1>2. \A q \in Revisions : /\ Status(q) = None <=> revision'[q].status = None
                           /\ revision'[q].status = "APPROVED" => Status(q) = "APPROVED"
                           /\ Status(q) = "REVIEW_REQUIRED" => revision'[q].status = "REVIEW_REQUIRED"
                           /\ Status(q) \in Completed => revision'[q].status \in Completed
                           /\ Status(q) = "GENERATION_FAILED" => revision'[q].status = "GENERATION_FAILED"
  BY NoneIsNothing DEF Status, Completed
<1>3. BrandTypeOK'
  BY DEF BrandTypeOK
<1>4. BrandRowsAgree'
  BY DEF BrandRowsAgree, Agree
<1>5. OneApproved'
  BY <1>2 DEF OneApproved, Status
<1>6. Created' = Created
  BY <1>2 DEF Created, Status
<1>7. BrandNumbered' /\ LocksExclude'
  BY <1>6 DEF BrandNumbered, LocksExclude, HasProfile
<1>8. ReadsStayFresh'
  <2>1. MaxRevision' = MaxRevision
    BY <1>6 DEF MaxRevision
  <2>2. \A s \in Sessions : tx[s].kind = "approve" => revision'[tx[s].base].status = "REVIEW_REQUIRED"
    BY <1>2 DEF ReadsStayFresh, LocksExclude
  <2> QED  BY <2>1, <2>2 DEF ReadsStayFresh, Status
<1>9. BrandCallsKnow'
  <2>1. \A q \in Revisions : genJob'[q].attempts >= genJob[q].attempts
    <3>1. \A q \in Revisions : genJob[q].attempts \in Nat
      BY RevisionBounds DEF BrandTypeOK, GenerationRow
    <3> QED  BY <3>1
  <2>2. \A h \in Generators : Knows(generator[h])'
    <3> TAKE h \in Generators
    <3>1. CASE generator'[h] = generator[h]
      <4>1. PICK c \in GeneratorCall : c = generator[h] /\ Knows(c)
        BY DEF BrandTypeOK, BrandCallsKnow
      <4>2. Knows(c)'
        BY <1>2, <2>1, <4>1, CallsStay DEF BrandTypeOK
      <4> QED  BY <3>1, <4>1, <4>2
    <3>2. CASE Knows(generator[h])'
      BY <3>2
    <3> QED  BY <3>1, <3>2
  <2> QED  BY <2>2 DEF BrandCallsKnow
<1> QED  BY <1>3, <1>4, <1>5, <1>7, <1>8, <1>9

\* One worker's call changes.
LEMMA CallMoves ==
  ASSUME BrandInv, NEW g \in Generators, NEW c \in GeneratorCall, generator' = [generator EXCEPT ![g] = c],
         Knows(c)'
  PROVE  /\ generator' \in [Generators -> GeneratorCall]
         /\ \A h \in Generators : generator'[h] = generator[h] \/ Knows(generator[h])'
<1>1. /\ generator' \in [Generators -> GeneratorCall] /\ generator'[g] = c
      /\ \A h \in Generators : h # g => generator'[h] = generator[h]
  BY DEF BrandInv, BrandTypeOK
<1>2. Knows(generator[g])'
  BY <1>1
<1> QED  BY <1>1, <1>2

LEMMA Idles == ASSUME BrandInv, NEW g \in Generators, GeneratorReturns(g)
  PROVE  /\ generator' \in [Generators -> GeneratorCall]
         /\ \A h \in Generators : generator'[h] = generator[h] \/ Knows(generator[h])'
<1>1. Knows(IdleGenerator)'
  BY DEF Knows, IdleGenerator
<1> QED  BY <1>1, BrandRecords, CallMoves DEF GeneratorReturns

\* Nothing but calls changes.
LEMMA BrandOnlyCallStep ==
  ASSUME BrandInv, UNCHANGED <<revision, genJob, emitted, tx>>, generator' \in [Generators -> GeneratorCall],
         \A h \in Generators : generator'[h] = generator[h] \/ Knows(generator[h])'
  PROVE  BrandInv'
<1> USE DEF BrandInv
<1>1. BrandTypeOK' /\ BrandRowsAgree' /\ OneApproved' /\ LocksExclude' /\ BrandNumbered'
  BY DEF BrandTypeOK, BrandRowsAgree, OneApproved, LocksExclude, BrandNumbered, HasProfile, Status, Created
<1>2. ReadsStayFresh'
  BY DEF ReadsStayFresh, Status, MaxRevision, Created
<1>3. \A h \in Generators : Knows(generator[h])'
  <2> TAKE h \in Generators
  <2>1. CASE generator'[h] = generator[h]
    <3>1. Knows(generator[h])
      BY DEF BrandCallsKnow
    <3> QED  BY <2>1, <3>1 DEF Knows, Status
  <2> QED  BY <2>1
<1> QED  BY <1>1, <1>2, <1>3 DEF BrandCallsKnow

\* A worker goes on with the revision it is about, which is as it was.
LEMMA GoesOnStep ==
  ASSUME BrandInv, NEW g \in Generators, UNCHANGED <<revision, genJob, emitted, tx>>,
         generator[g].pc \notin {"idle", "fail"},
         Goto(g, "model") \/ \E e \in {"TRANSIENT", "PERMANENT"} : Fail(g, e)
  PROVE  BrandInv'
<1> DEFINE c == generator[g]
<1>1. c \in GeneratorCall /\ Knows(c) /\ c.pc # "idle"
  BY DEF BrandInv, BrandTypeOK, BrandCallsKnow
<1>2. CASE Goto(g, "model")
  <2> DEFINE d == [c EXCEPT !.pc = "model"]
  <2>1. generator' = [generator EXCEPT ![g] = d]
    BY <1>2 DEF Goto, BrandInv, BrandTypeOK
  <2> HIDE DEF c
  <2>2. d \in GeneratorCall /\ d.pc = "model" /\ d.of = c.of /\ d.attempt = c.attempt /\ d.error = c.error
    BY <1>1 DEF GeneratorCall
  <2>3. PICK x \in GeneratorCall : x = d
    BY <2>2
  <2> HIDE DEF d
  <2>4. Knows(x)'
    BY <1>1, <2>2, <2>3 DEF Knows, Status
  <2> QED  BY <2>1, <2>3, <2>4, CallMoves, BrandOnlyCallStep
<1>3. CASE \E e \in {"TRANSIENT", "PERMANENT"} : Fail(g, e)
  <2>1. PICK e \in {"TRANSIENT", "PERMANENT"} : Fail(g, e)
    BY <1>3
  <2> DEFINE d == [c EXCEPT !.pc = "fail", !.error = e]
  <2>2. generator' = [generator EXCEPT ![g] = d]
    BY <2>1 DEF Fail, BrandInv, BrandTypeOK
  <2> HIDE DEF c
  <2>3. d \in GeneratorCall /\ d.pc = "fail" /\ d.of = c.of /\ d.attempt = c.attempt /\ d.error = e
    BY <1>1 DEF GeneratorCall
  <2>4. PICK x \in GeneratorCall : x = d
    BY <2>3
  <2> HIDE DEF d
  <2>5. Knows(x)'
    BY <1>1, <2>3, <2>4, NoneIsNothing DEF Knows, Status
  <2> QED  BY <2>2, <2>4, <2>5, CallMoves, BrandOnlyCallStep
<1> QED  BY <1>2, <1>3

LEMMA BrandReadStep == ASSUME BrandInv, NEW g \in Generators, ReadRevision(g) \/ GeneratorCrash(g) PROVE BrandInv'
<1>1. UNCHANGED <<revision, genJob, emitted, tx>>
  BY DEF ReadRevision, GeneratorCrash
<1>2. CASE GeneratorReturns(g)
  BY <1>1, <1>2, Idles, BrandOnlyCallStep
<1>3. CASE generator[g].pc = "begin" /\ (Goto(g, "model") \/ \E e \in {"TRANSIENT", "PERMANENT"} : Fail(g, e))
  BY <1>1, <1>3, GoesOnStep
<1> QED  BY <1>2, <1>3 DEF ReadRevision, GeneratorCrash

\* A job is taken over, one attempt later.
LEMMA BrandClaimStep == ASSUME BrandInv, NEW g \in Generators, NEW r \in Revisions, ClaimGeneration(g, r) PROVE BrandInv'
<1> DEFINE old == genJob[r]
<1>1. old \in GenerationRow /\ revision[r] \in RevisionRow /\ Agree(revision[r], old) /\ ClaimableGeneration(old)
  BY DEF BrandInv, BrandTypeOK, BrandRowsAgree, ClaimGeneration
<1>2. old.attempts \in Nat /\ old.attempts <= MaxGenerations /\ old.status \in {"PENDING", "RUNNING"}
  BY <1>1, RevisionBounds DEF GenerationRow, ClaimableGeneration
<1>3. PICK n : n = old.attempts + 1
  OBVIOUS
<1>4. n \in 0 .. MaxGenerations + 1 /\ n >= old.attempts /\ n \in Nat
  BY <1>2, <1>3, RevisionBounds
<1> DEFINE j == [old EXCEPT !.status = "RUNNING", !.attempts = n, !.lockedBy = g, !.leased = TRUE]
           c == IF old.attempts < MaxGenerations
                  THEN [pc |-> "begin", of |-> r, attempt |-> n, error |-> None]
                  ELSE [pc |-> "fail", of |-> r, attempt |-> n, error |-> "EXHAUSTED"]
<1>5. genJob' = [genJob EXCEPT ![r] = j] /\ UNCHANGED <<revision, emitted, tx>>
  BY <1>3 DEF ClaimGeneration, BrandInv, BrandTypeOK
<1>6. generator' = [generator EXCEPT ![g] = c]
  BY <1>3 DEF ClaimGeneration
<1>7. Status(r) = "GENERATING"
  BY <1>1, <1>2, NoneIsNothing DEF Agree, RevisionRow, Status
<1> HIDE DEF old
<1>8. j \in GenerationRow /\ j.status = "RUNNING" /\ j.attempts = n
  BY <1>1, <1>4 DEF GenerationRow
<1>9. /\ c \in GeneratorCall /\ c.of = r /\ c.attempt = n /\ c.pc \in {"begin", "fail"}
      /\ c.error = "EXHAUSTED" => n > MaxGenerations
  <2>1. CASE old.attempts < MaxGenerations
    BY <1>4, <2>1, NoneIsNothing DEF GeneratorCall
  <2>2. CASE ~(old.attempts < MaxGenerations)
    BY <1>2, <1>3, <1>4, <2>2, RevisionBounds DEF GeneratorCall
  <2> QED  BY <2>1, <2>2
<1>15. PICK x \in GeneratorCall : x = c
  BY <1>9
<1> HIDE DEF j, c
<1>10. /\ genJob' \in [Revisions -> GenerationRow] /\ genJob'[r] = j
       /\ \A q \in Revisions : q # r => revision'[q] = revision[q] /\ genJob'[q] = genJob[q]
  BY <1>5, <1>8 DEF BrandInv, BrandTypeOK
<1>11. Knows(x)'
  BY <1>4, <1>5, <1>7, <1>8, <1>9, <1>10, <1>15, NoneIsNothing DEF Knows, Status
<1>12. Agree(revision[r], j)
  BY <1>1, <1>4, <1>7, <1>8, <1>2, RevisionBounds, NoneIsNothing DEF Agree, Completed, Status
<1>13. /\ emitted' \subseteq {"generation-requested", "review-required", "approved"} \X Revisions
       /\ revision' \in [Revisions -> RevisionRow] /\ revision'[r] = revision[r]
  BY <1>5 DEF BrandInv, BrandTypeOK
<1>14. /\ generator' \in [Generators -> GeneratorCall]
       /\ \A h \in Generators : generator'[h] = generator[h] \/ Knows(generator[h])'
  BY <1>6, <1>11, <1>15, CallMoves
<1> QED  BY <1>1, <1>4, <1>5, <1>8, <1>10, <1>12, <1>13, <1>14, GenerationStep DEF old

\* A job whose attempts and revision are left as they are.
LEMMA JobOnlyStep ==
  ASSUME BrandInv, NEW r \in Revisions, NEW j \in GenerationRow, genJob' = [genJob EXCEPT ![r] = j],
         UNCHANGED <<revision, emitted, tx>>, j.attempts = genJob[r].attempts,
         \/ j.status = genJob[r].status
         \/ genJob[r].status = "RUNNING" /\ j.status = "PENDING",
         generator' \in [Generators -> GeneratorCall],
         \A h \in Generators : generator'[h] = generator[h] \/ Knows(generator[h])'
  PROVE  BrandInv'
<1>1. /\ genJob' \in [Revisions -> GenerationRow] /\ genJob'[r] = j
      /\ \A q \in Revisions : q # r => revision'[q] = revision[q] /\ genJob'[q] = genJob[q]
  BY DEF BrandInv, BrandTypeOK
<1>2. /\ emitted' \subseteq {"generation-requested", "review-required", "approved"} \X Revisions
      /\ revision' \in [Revisions -> RevisionRow] /\ revision'[r] = revision[r] /\ revision[r] \in RevisionRow
  BY DEF BrandInv, BrandTypeOK
<1>3. Agree(revision[r], genJob[r])
  BY DEF BrandInv, BrandRowsAgree
<1>4. Agree(revision[r], j)
  BY <1>3, NoneIsNothing DEF Agree, Completed
<1>5. j.attempts >= genJob[r].attempts
  <2>1. j.attempts \in Nat
    BY RevisionBounds DEF GenerationRow
  <2> QED  BY <2>1
<1> QED  BY <1>1, <1>2, <1>4, <1>5, GenerationStep

LEMMA BrandClockStep ==
  ASSUME BrandInv, NEW r \in Revisions, GenerationLeaseExpires(r) \/ GenerationFallsDue(r)
  PROVE  BrandInv'
<1>1. genJob[r] \in GenerationRow
  BY DEF BrandInv, BrandTypeOK
<1>2. /\ generator' \in [Generators -> GeneratorCall] /\ UNCHANGED <<revision, emitted, tx>>
      /\ \A h \in Generators : generator'[h] = generator[h]
  BY DEF BrandInv, BrandTypeOK, GenerationLeaseExpires, GenerationFallsDue
<1>3. CASE GenerationLeaseExpires(r)
  <2> DEFINE j == [genJob[r] EXCEPT !.leased = FALSE]
  <2>1. j \in GenerationRow /\ j.status = genJob[r].status /\ j.attempts = genJob[r].attempts
    BY <1>1 DEF GenerationRow
  <2>2. genJob' = [genJob EXCEPT ![r] = j]
    BY <1>3 DEF GenerationLeaseExpires
  <2> HIDE DEF j
  <2> QED  BY <1>2, <2>1, <2>2, JobOnlyStep
<1>4. CASE GenerationFallsDue(r)
  <2> DEFINE j == [genJob[r] EXCEPT !.due = TRUE]
  <2>1. j \in GenerationRow /\ j.status = genJob[r].status /\ j.attempts = genJob[r].attempts
    BY <1>1 DEF GenerationRow
  <2>2. genJob' = [genJob EXCEPT ![r] = j]
    BY <1>4 DEF GenerationFallsDue
  <2> HIDE DEF j
  <2> QED  BY <1>2, <2>1, <2>2, JobOnlyStep
<1> QED  BY <1>3, <1>4

\* Settling a job keeps its attempts.
LEMMA SettledRow ==
  ASSUME NEW j \in GenerationRow, NEW status \in {"PENDING", "SUCCEEDED", "FAILED"}
  PROVE  LET k == [j EXCEPT !.status = status, !.lockedBy = None, !.leased = FALSE]
         IN  k \in GenerationRow /\ k.status = status /\ k.attempts = j.attempts
BY DEF GenerationRow

\* A job is given back by its owner, or acknowledged as what it already is.
LEMMA GivenBackStep ==
  ASSUME BrandInv, NEW g \in Generators,
         RetryGeneration(g) \/ AcknowledgeSuccess(g) \/ AcknowledgeFailure(g)
  PROVE  BrandInv'
<1> DEFINE r == generator[g].of
<1>1. /\ r \in Revisions /\ genJob[r] \in GenerationRow /\ Agree(revision[r], genJob[r])
      /\ generator[g].pc = "ackSuccess" => Status(r) \in Completed
      /\ generator[g].pc = "ackFailure" => Status(r) = "GENERATION_FAILED"
  BY DEF BrandInv, BrandTypeOK, BrandCallsKnow, Knows, BrandRowsAgree, RetryGeneration, AcknowledgeSuccess, AcknowledgeFailure
<1>2. /\ generator' \in [Generators -> GeneratorCall] /\ UNCHANGED <<revision, emitted, tx>>
      /\ \A h \in Generators : generator'[h] = generator[h] \/ Knows(generator[h])'
  BY Idles DEF RetryGeneration, AcknowledgeSuccess, AcknowledgeFailure
<1>3. CASE UNCHANGED genJob
  BY <1>2, <1>3, BrandOnlyCallStep
<1>4. CASE RetryGeneration(g) /\ genJob' # genJob
  <2> DEFINE k == [genJob[r] EXCEPT !.status = "PENDING", !.lockedBy = None, !.leased = FALSE]
             j == [k EXCEPT !.due = FALSE]
  <2>1. genJob' = [genJob EXCEPT ![r] = j] /\ genJob[r].status = "RUNNING"
    BY <1>1, <1>4 DEF RetryGeneration, OwnsGeneration, JobOf, BrandInv, BrandTypeOK
  <2> HIDE DEF r
  <2>2. k \in GenerationRow /\ k.status = "PENDING" /\ k.attempts = genJob[r].attempts
    BY <1>1, SettledRow
  <2> HIDE DEF k
  <2>3. j \in GenerationRow /\ j.status = "PENDING" /\ j.attempts = genJob[r].attempts
    BY <2>2 DEF GenerationRow
  <2> HIDE DEF j
  <2> QED  BY <1>1, <1>2, <2>1, <2>3, JobOnlyStep
<1>5. CASE AcknowledgeSuccess(g) /\ genJob' # genJob
  <2> DEFINE k == [genJob[r] EXCEPT !.status = "SUCCEEDED", !.lockedBy = None, !.leased = FALSE]
  <2>1. genJob' = [genJob EXCEPT ![r] = k] /\ genJob[r].status \in {"SUCCEEDED", "RUNNING"}
        /\ generator[g].pc = "ackSuccess"
    BY <1>1, <1>5 DEF AcknowledgeSuccess, Settle, OwnsGeneration, JobOf, BrandInv, BrandTypeOK
  <2>2. genJob[r].status = "SUCCEEDED"
    BY <1>1, <2>1, NoneIsNothing DEF Agree, Status
  <2> HIDE DEF r
  <2>3. k \in GenerationRow /\ k.status = "SUCCEEDED" /\ k.attempts = genJob[r].attempts
    BY <1>1, SettledRow
  <2> HIDE DEF k
  <2> QED  BY <1>1, <1>2, <2>1, <2>2, <2>3, JobOnlyStep
<1>6. CASE AcknowledgeFailure(g) /\ genJob' # genJob
  <2> DEFINE k == [genJob[r] EXCEPT !.status = "FAILED", !.lockedBy = None, !.leased = FALSE]
  <2>1. genJob' = [genJob EXCEPT ![r] = k] /\ genJob[r].status \in {"FAILED", "RUNNING"}
        /\ generator[g].pc = "ackFailure"
    BY <1>1, <1>6 DEF AcknowledgeFailure, Settle, OwnsGeneration, JobOf, BrandInv, BrandTypeOK
  <2>2. genJob[r].status = "FAILED"
    BY <1>1, <2>1, NoneIsNothing DEF Agree, Status
  <2> HIDE DEF r
  <2>3. k \in GenerationRow /\ k.status = "FAILED" /\ k.attempts = genJob[r].attempts
    BY <1>1, SettledRow
  <2> HIDE DEF k
  <2> QED  BY <1>1, <1>2, <2>1, <2>2, <2>3, JobOnlyStep
<1> QED  BY <1>3, <1>4, <1>5, <1>6

\* A revision and its job are settled together, and the worker goes on to
\* acknowledge what it has settled, or to its error.
LEMMA SettlesStep ==
  ASSUME BrandInv, NEW g \in Generators, NEW r \in Revisions, generator[g].pc # "idle", generator[g].of = r,
         Status(r) = "GENERATING", NEW v \in RevisionRow, revision' = [revision EXCEPT ![r] = v],
         NEW status \in {"SUCCEEDED", "FAILED"}, Settle(r, status),
         \/ v.status = "REVIEW_REQUIRED" /\ v.failure = revision[r].failure /\ status = "SUCCEEDED"
         \/ /\ v.status = "GENERATION_FAILED" /\ status = "FAILED"
            /\ v.failure \in {"TRANSIENT", "EXHAUSTED"} => genJob[r].attempts >= MaxGenerations,
         emitted' \subseteq {"generation-requested", "review-required", "approved"} \X Revisions,
         UNCHANGED tx,
         NEW c \in GeneratorCall, generator' = [generator EXCEPT ![g] = c],
         c.of = r, c.attempt = generator[g].attempt, c.error \in {generator[g].error, "TRANSIENT", "PERMANENT"},
         c.pc = "ackSuccess" => v.status = "REVIEW_REQUIRED",
         c.pc = "ackFailure" => v.status = "GENERATION_FAILED"
  PROVE  BrandInv'
<1>1. genJob[r] \in GenerationRow /\ Agree(revision[r], genJob[r]) /\ Knows(generator[g])
  BY DEF BrandInv, BrandTypeOK, BrandRowsAgree, BrandCallsKnow
<1> DEFINE j == [genJob[r] EXCEPT !.status = status, !.lockedBy = None, !.leased = FALSE]
<1>2. genJob' = [genJob EXCEPT ![r] = j]
  BY DEF Settle, BrandInv, BrandTypeOK
<1>3. j \in GenerationRow /\ j.status = status /\ j.attempts = genJob[r].attempts
  BY <1>1, SettledRow
<1> HIDE DEF j
<1>4. /\ revision' \in [Revisions -> RevisionRow] /\ revision'[r] = v
      /\ genJob' \in [Revisions -> GenerationRow] /\ genJob'[r] = j
      /\ \A q \in Revisions : q # r => revision'[q] = revision[q] /\ genJob'[q] = genJob[q]
  BY <1>2, <1>3 DEF BrandInv, BrandTypeOK
<1>5. Agree(v, j)
  BY <1>1, <1>3, NoneIsNothing DEF Agree, Completed
<1>6. j.attempts >= genJob[r].attempts /\ genJob[r].attempts \in Nat
  <2>1. genJob[r].attempts \in Nat
    BY <1>1, RevisionBounds DEF GenerationRow
  <2> QED  BY <1>3, <2>1
<1>7. Knows(c)'
  <2>1. /\ generator[g].attempt <= genJob[r].attempts
        /\ generator[g].error = "EXHAUSTED" => generator[g].attempt > MaxGenerations
    BY <1>1 DEF Knows
  <2>2. v.status # None /\ (v.status = "REVIEW_REQUIRED" => v.status \in Completed)
    BY NoneIsNothing DEF Completed
  <2> QED  BY <1>3, <1>4, <2>1, <2>2 DEF Knows, Status
<1>8. /\ generator' \in [Generators -> GeneratorCall]
      /\ \A h \in Generators : generator'[h] = generator[h] \/ Knows(generator[h])'
  BY <1>7, CallMoves
<1> QED  BY <1>3, <1>4, <1>5, <1>6, <1>8, GenerationStep

\* The model's answer is stored, unless the revision or the database refuses it.
LEMMA BrandCompleteStep == ASSUME BrandInv, NEW g \in Generators, CompleteGeneration(g) PROVE BrandInv'
<1> DEFINE r == generator[g].of
<1>1. generator[g].pc = "model" /\ UNCHANGED tx /\ r \in Revisions /\ revision[r] \in RevisionRow
  BY DEF CompleteGeneration, BrandInv, BrandCallsKnow, Knows, BrandTypeOK
<1>2. CASE UNCHANGED <<revision, genJob, emitted>> /\ GeneratorReturns(g)
  BY <1>1, <1>2, Idles, BrandOnlyCallStep
<1>3. CASE UNCHANGED <<revision, genJob, emitted>> /\ \E e \in {"TRANSIENT", "PERMANENT"} : Fail(g, e)
  BY <1>1, <1>3, GoesOnStep
<1>4. CASE /\ Status(r) = "GENERATING" /\ revision' = [revision EXCEPT ![r].status = "REVIEW_REQUIRED"]
           /\ Settle(r, "SUCCEEDED") /\ emitted' = emitted \cup {<<"review-required", r>>}
           /\ Goto(g, "ackSuccess") \/ \E e \in {"TRANSIENT", "PERMANENT"} : Fail(g, e)
  <2>1. PICK v \in RevisionRow : /\ revision' = [revision EXCEPT ![r] = v]
                                 /\ v.status = "REVIEW_REQUIRED" /\ v.failure = revision[r].failure
    <3> DEFINE v == [revision[r] EXCEPT !.status = "REVIEW_REQUIRED"]
    <3>1. v \in RevisionRow /\ v.status = "REVIEW_REQUIRED" /\ v.failure = revision[r].failure
      BY <1>1 DEF RevisionRow, Completed
    <3>2. revision' = [revision EXCEPT ![r] = v]
      BY <1>4
    <3> HIDE DEF v
    <3> QED  BY <3>1, <3>2
  <2>2. PICK c \in GeneratorCall : /\ generator' = [generator EXCEPT ![g] = c]
                                   /\ c.of = r /\ c.attempt = generator[g].attempt
                                   /\ c.error \in {generator[g].error, "TRANSIENT", "PERMANENT"}
                                   /\ c.pc \in {"ackSuccess", "fail"}
    <3>1. generator[g] \in GeneratorCall
      BY DEF BrandInv, BrandTypeOK
    <3>2. CASE Goto(g, "ackSuccess")
      <4> DEFINE d == [generator[g] EXCEPT !.pc = "ackSuccess"]
      <4>1. d \in GeneratorCall /\ d.pc = "ackSuccess" /\ d.of = r /\ d.attempt = generator[g].attempt
            /\ d.error = generator[g].error
        BY <3>1 DEF GeneratorCall
      <4>2. generator' = [generator EXCEPT ![g] = d]
        BY <3>2 DEF Goto
      <4> HIDE DEF d
      <4> QED  BY <4>1, <4>2
    <3>3. CASE \E e \in {"TRANSIENT", "PERMANENT"} : Fail(g, e)
      <4>1. PICK e \in {"TRANSIENT", "PERMANENT"} : Fail(g, e)
        BY <3>3
      <4> DEFINE d == [generator[g] EXCEPT !.pc = "fail", !.error = e]
      <4>2. d \in GeneratorCall /\ d.pc = "fail" /\ d.of = r /\ d.attempt = generator[g].attempt /\ d.error = e
        BY <3>1 DEF GeneratorCall
      <4>3. generator' = [generator EXCEPT ![g] = d]
        BY <4>1 DEF Fail, BrandInv, BrandTypeOK
      <4> HIDE DEF d
      <4> QED  BY <4>2, <4>3
    <3> QED  BY <1>4, <3>2, <3>3
  <2>3. emitted' \subseteq {"generation-requested", "review-required", "approved"} \X Revisions
    BY <1>1, <1>4 DEF BrandInv, BrandTypeOK
  <2> HIDE DEF r
  <2>4. generator[g].of = r /\ generator[g].pc # "idle"
    BY <1>1 DEF r
  <2> QED  BY <1>1, <1>4, <2>1, <2>2, <2>3, <2>4, SettlesStep
<1> QED  BY <1>2, <1>3, <1>4 DEF CompleteGeneration

\* The last failure is recorded; one that could have passed was the last attempt.
LEMMA BrandFailStep == ASSUME BrandInv, NEW g \in Generators, FailGeneration(g) PROVE BrandInv'
<1> DEFINE r == generator[g].of  e == generator[g].error
<1>1. /\ generator[g].pc = "fail" /\ ~Retries(g) /\ UNCHANGED <<emitted, tx>>
      /\ r \in Revisions /\ revision[r] \in RevisionRow /\ generator[g] \in GeneratorCall
      /\ genJob[r] \in GenerationRow /\ Knows(generator[g])
  BY DEF FailGeneration, BrandInv, BrandCallsKnow, Knows, BrandTypeOK
<1>2. CASE GeneratorReturns(g) /\ UNCHANGED <<revision, genJob>>
  BY <1>1, <1>2, Idles, BrandOnlyCallStep
<1>3. CASE /\ Status(r) = "GENERATING"
           /\ revision' = [revision EXCEPT ![r].status = "GENERATION_FAILED", ![r].failure = e]
           /\ Settle(r, "FAILED") /\ Goto(g, "ackFailure")
  <2>1. e \in {"TRANSIENT", "EXHAUSTED"} => genJob[r].attempts >= MaxGenerations
    <3>1. /\ genJob[r].attempts \in Nat /\ generator[g].attempt \in Nat
          /\ generator[g].attempt <= genJob[r].attempts
          /\ e = "EXHAUSTED" => generator[g].attempt > MaxGenerations
      BY <1>1, RevisionBounds DEF Knows, GenerationRow, GeneratorCall
    <3>2. e = "TRANSIENT" => generator[g].attempt >= MaxGenerations
      BY <1>1, <3>1, RevisionBounds DEF Retries
    <3> QED  BY <3>1, <3>2, RevisionBounds
  <2>2. PICK v \in RevisionRow : /\ revision' = [revision EXCEPT ![r] = v]
                                 /\ v.status = "GENERATION_FAILED" /\ v.failure = e
    <3> DEFINE v == [revision[r] EXCEPT !.status = "GENERATION_FAILED", !.failure = e]
    <3>1. v \in RevisionRow /\ v.status = "GENERATION_FAILED" /\ v.failure = e
      BY <1>1 DEF RevisionRow, GeneratorCall
    <3>2. revision' = [revision EXCEPT ![r] = v]
      BY <1>3 DEF BrandInv, BrandTypeOK
    <3> HIDE DEF v
    <3> QED  BY <3>1, <3>2
  <2>3. PICK c \in GeneratorCall : /\ generator' = [generator EXCEPT ![g] = c]
                                   /\ c.of = r /\ c.attempt = generator[g].attempt
                                   /\ c.error = generator[g].error /\ c.pc = "ackFailure"
    <3> DEFINE d == [generator[g] EXCEPT !.pc = "ackFailure"]
    <3>1. d \in GeneratorCall /\ d.pc = "ackFailure" /\ d.of = r /\ d.attempt = generator[g].attempt
          /\ d.error = generator[g].error
      BY <1>1 DEF GeneratorCall
    <3>2. generator' = [generator EXCEPT ![g] = d]
      BY <1>3 DEF Goto
    <3> HIDE DEF d
    <3> QED  BY <3>1, <3>2
  <2>4. emitted' \subseteq {"generation-requested", "review-required", "approved"} \X Revisions
    BY <1>1 DEF BrandInv, BrandTypeOK
  <2> HIDE DEF r, e
  <2>5. generator[g].of = r /\ generator[g].pc # "idle"
    BY <1>1 DEF r
  <2>6. v.status = "GENERATION_FAILED" /\ (v.failure \in {"TRANSIENT", "EXHAUSTED"} => genJob[r].attempts >= MaxGenerations)
    BY <2>1, <2>2
  <2>7. /\ c.error \in {generator[g].error, "TRANSIENT", "PERMANENT"}
        /\ c.pc = "ackSuccess" => v.status = "REVIEW_REQUIRED"
    BY <2>3
  <2>8. Status(r) = "GENERATING" /\ Settle(r, "FAILED") /\ UNCHANGED tx /\ r \in Revisions
    BY <1>1, <1>3
  <2> QED  BY <2>2, <2>3, <2>4, <2>5, <2>6, <2>7, <2>8, SettlesStep
<1> QED  BY <1>2, <1>3 DEF FailGeneration

\* Every step preserves the invariant.
LEMMA BrandNextInv == BrandInv /\ [BrandNext]_brandVars => BrandInv'
<1> SUFFICES ASSUME BrandInv, [BrandNext]_brandVars PROVE BrandInv'
  OBVIOUS
<1>1. CASE \E s \in Sessions : LockProfile(s)
  BY <1>1, ProfileStep
<1>2. CASE \E s \in Sessions : CommitCreate(s) \/ CommitEdit(s)
  BY <1>2, CommitStep
<1>3. CASE \E s \in Sessions : CommitApproval(s)
  BY <1>3, ApprovalStep
<1>4. CASE \E s \in Sessions : Rollback(s)
  BY <1>4, CloseStep DEF Rollback
<1>5. CASE \E s \in Sessions : \/ \E k \in Keys : LockWorkspace(s, k)
                               \/ \E r \in Revisions : LockForEdit(s, r) \/ LockForApproval(s, r)
  BY <1>5, BrandBeginStep
<1>6. CASE \E g \in Generators : ReadRevision(g) \/ GeneratorCrash(g)
  BY <1>6, BrandReadStep
<1>7. CASE \E g \in Generators : CompleteGeneration(g)
  BY <1>7, BrandCompleteStep
<1>8. CASE \E g \in Generators : FailGeneration(g)
  BY <1>8, BrandFailStep
<1>9. CASE \E g \in Generators : RetryGeneration(g) \/ AcknowledgeSuccess(g) \/ AcknowledgeFailure(g)
  BY <1>9, GivenBackStep
<1>10. CASE \E g \in Generators, r \in Revisions : ClaimGeneration(g, r)
  BY <1>10, BrandClaimStep
<1>11. CASE \E r \in Revisions : GenerationLeaseExpires(r) \/ GenerationFallsDue(r)
  BY <1>11, BrandClockStep
<1>12. CASE UNCHANGED brandVars
  <2>1. /\ UNCHANGED <<revision, genJob, emitted, tx>> /\ generator' \in [Generators -> GeneratorCall]
        /\ \A h \in Generators : generator'[h] = generator[h]
    BY <1>12 DEF brandVars, BrandInv, BrandTypeOK
  <2> QED  BY <2>1, BrandOnlyCallStep
<1> QED  BY <1>1, <1>2, <1>3, <1>4, <1>5, <1>6, <1>7, <1>8, <1>9, <1>10, <1>11, <1>12
     DEF BrandNext, SessionStep, GeneratorStep

\* The invariant holds whatever the sessions and the workers do.
LEMMA BrandInvHolds == BrandSpec => []BrandInv
BY BrandInitInv, BrandNextInv, PTL DEF BrandSpec

-----------------------------------------------------------------------------
\* Revisions, jobs, transactions and calls keep their types.
THEOREM BrandTypes == BrandSpec => []BrandTypeOK
<1>1. BrandInv => BrandTypeOK
  BY DEF BrandInv
<1> QED  BY <1>1, BrandInvHolds, PTL

\* A revision and its generation job are settled together.
THEOREM RevisionsAndJobsAgree == BrandSpec => []RevisionAndJobAgree
BY BrandInvImplies, BrandInvHolds, PTL

\* At most one revision is approved.
THEOREM OneApprovedRevision == BrandSpec => []OneApproved
<1>1. BrandInv => OneApproved
  BY DEF BrandInv
<1> QED  BY <1>1, BrandInvHolds, PTL

\* What a transaction read under its locks is still so when it writes.
THEOREM LockedReadsStayFresh == BrandSpec => []ReadsStayFresh
<1>1. BrandInv => ReadsStayFresh
  BY DEF BrandInv
<1> QED  BY <1>1, BrandInvHolds, PTL

-----------------------------------------------------------------------------
(* The store implements the in-memory one: every commit is one step of it,  *)
(* and everything else is none.                                             *)

\* A key names one revision; what a session was asked for stays valid.
RequestsKept ==
  /\ \A q, r \in Revisions : revision[q].key # None /\ revision[q].key = revision[r].key => q = r
  /\ \A s \in Sessions : tx[s].kind = "create" => tx[s].key \in Keys
  /\ \A s \in Sessions : tx[s].kind = "edit" => tx[s].base \in Revisions /\ Status(tx[s].base) \in Completed
  /\ \A r \in Revisions : Status(r) = None => revision[r].key = None

\* The revision that the mapping gives a request.
RequestOf(k) == IF KeyKnown(k) THEN CHOOSE r \in Revisions : revision[r].key = k ELSE None

LEMMA Chosen ==
  ASSUME NEW k, KeyKnown(k)
  PROVE  RequestOf(k) \in Revisions /\ revision[RequestOf(k)].key = k
BY DEF KeyKnown, RequestOf

LEMMA Unasked == ASSUME NEW k, ~KeyKnown(k) PROVE RequestOf(k) = None
BY DEF RequestOf

\* The steps that touch no key and settle no completed revision.
KeysStay ==
  /\ \A r \in Revisions : revision'[r].key = revision[r].key
  /\ \A r \in Revisions : revision'[r].status = None => Status(r) = None
  /\ \A r \in Revisions : Status(r) \in Completed => revision'[r].status \in Completed

LEMMA KeysOfStep ==
  ASSUME BrandTypeOK, BrandNext,
         \A s \in Sessions : ~CommitCreate(s) /\ ~CommitEdit(s)
  PROVE  KeysStay
<1> USE DEF BrandTypeOK
<1>1. CASE UNCHANGED revision
  BY <1>1 DEF KeysStay, Status
<1>2. CASE \E s \in Sessions : CommitApproval(s)
  <2>1. PICK s \in Sessions : CommitApproval(s)
    BY <1>2
  <2>2. \A r \in Revisions :
          /\ revision'[r].key = revision[r].key
          /\ revision'[r].status = revision[r].status \/ revision'[r].status \in {"APPROVED", "SUPERSEDED"}
    BY <2>1 DEF CommitApproval, RevisionRow
  <2> QED  BY <2>2, NoneIsNothing DEF KeysStay, Status, Completed
<1>3. CASE \E g \in Generators : CompleteGeneration(g) \/ FailGeneration(g)
  <2>1. PICK g \in Generators : CompleteGeneration(g) \/ FailGeneration(g)
    BY <1>3
  <2> DEFINE r == generator[g].of
  <2>2. CASE UNCHANGED revision
    BY <2>2 DEF KeysStay, Status
  <2>3. CASE Status(r) = "GENERATING" /\ revision' # revision
    <3>1. \A q \in Revisions : q # r => revision'[q] = revision[q]
      BY <2>1 DEF CompleteGeneration, FailGeneration
    <3>2. r \in Revisions => revision'[r].key = revision[r].key
      BY <2>1 DEF CompleteGeneration, FailGeneration, RevisionRow
    <3>3. r \in Revisions => revision'[r].status \in {"REVIEW_REQUIRED", "GENERATION_FAILED"}
      BY <2>1, <2>3 DEF CompleteGeneration, FailGeneration, RevisionRow
    <3> QED  BY <2>3, NoneIsNothing, <3>1, <3>2, <3>3 DEF KeysStay, Status, Completed
  <2> QED  BY <2>1, <2>2, <2>3 DEF CompleteGeneration, FailGeneration
<1>4. UNCHANGED revision \/ (\E s \in Sessions : CommitApproval(s))
      \/ (\E g \in Generators : CompleteGeneration(g) \/ FailGeneration(g))
  BY DEF BrandNext, SessionStep, LockWorkspace, LockForEdit, LockForApproval, LockProfile, Rollback,
         GeneratorStep, ReadRevision, RetryGeneration, AcknowledgeSuccess, AcknowledgeFailure,
         GeneratorCrash, ClaimGeneration, GenerationLeaseExpires, GenerationFallsDue
<1> QED  BY <1>1, <1>2, <1>3, <1>4

\* A transaction begins as its request says, and keeps what it is about.
LEMMA Begins ==
  ASSUME BrandTypeOK, BrandNext, NEW s \in Sessions
  PROVE  \/ tx'[s].kind = None
         \/ tx'[s].kind = tx[s].kind /\ tx'[s].key = tx[s].key /\ tx'[s].base = tx[s].base
         \/ tx'[s].kind = "create" /\ tx'[s].key \in Keys
         \/ /\ tx'[s].kind = "edit" /\ tx'[s].base \in Revisions /\ Status(tx'[s].base) \in Completed
            /\ UNCHANGED revision
         \/ tx'[s].kind = "approve"
<1> USE DEF BrandTypeOK
<1>1. CASE UNCHANGED tx
  BY <1>1
<1>2. CASE \E t \in Sessions : Close(t)
  BY <1>2 DEF Close, NoTransaction
<1>3. CASE \E t \in Sessions, k \in Keys : LockWorkspace(t, k)
  <2>1. PICK t \in Sessions, k \in Keys : LockWorkspace(t, k)
    BY <1>3
  <2> DEFINE c == [NoTransaction EXCEPT !.kind = "create", !.key = k]
  <2>2. c.kind = "create" /\ c.key = k
    BY DEF NoTransaction
  <2>3. tx' = [tx EXCEPT ![t] = c]
    BY <2>1 DEF LockWorkspace
  <2> HIDE DEF c
  <2>4. tx'[s] = IF s = t THEN c ELSE tx[s]
    BY <2>3
  <2> QED  BY <2>2, <2>4
<1>4. CASE \E t \in Sessions, r \in Revisions : LockForEdit(t, r)
  <2>1. PICK t \in Sessions, r \in Revisions : LockForEdit(t, r)
    BY <1>4
  <2> DEFINE c == [NoTransaction EXCEPT !.kind = "edit", !.base = r]
  <2>2. c.kind = "edit" /\ c.base = r
    BY DEF NoTransaction
  <2>3. tx' = [tx EXCEPT ![t] = c] /\ Status(r) \in Completed /\ UNCHANGED revision
    BY <2>1 DEF LockForEdit
  <2> HIDE DEF c
  <2>4. tx'[s] = IF s = t THEN c ELSE tx[s]
    BY <2>3
  <2> QED  BY <2>2, <2>3, <2>4
<1>5. CASE \E t \in Sessions, r \in Revisions : LockForApproval(t, r)
  <2>1. PICK t \in Sessions, r \in Revisions : LockForApproval(t, r)
    BY <1>5
  <2> DEFINE c == [NoTransaction EXCEPT !.kind = "approve", !.base = r]
  <2>2. c.kind = "approve"
    BY DEF NoTransaction
  <2>3. tx' = [tx EXCEPT ![t] = c]
    BY <2>1 DEF LockForApproval
  <2> HIDE DEF c
  <2>4. tx'[s] = IF s = t THEN c ELSE tx[s]
    BY <2>3
  <2> QED  BY <2>2, <2>4
<1>6. CASE \E t \in Sessions : LockProfile(t)
  BY <1>6 DEF LockProfile, Transaction
<1> QED  BY <1>1, <1>2, <1>3, <1>4, <1>5, <1>6
     DEF BrandNext, SessionStep, CommitCreate, CommitEdit, CommitApproval, Rollback,
         GeneratorStep, ReadRevision, CompleteGeneration, FailGeneration, RetryGeneration, AcknowledgeSuccess,
         AcknowledgeFailure, GeneratorCrash, ClaimGeneration, GenerationLeaseExpires, GenerationFallsDue

\* What a commit writes under the number that was read.
LEMMA CommitWrites ==
  ASSUME BrandInv, RequestsKept, NEW s \in Sessions, CommitCreate(s) \/ CommitEdit(s)
  PROVE  \/ UNCHANGED <<revision, emitted>>
         \/ /\ tx[s].number \in Revisions /\ tx[s].number = MaxRevision + 1
            /\ \A r \in Revisions : r # tx[s].number => revision'[r] = revision[r]
            /\ revision[tx[s].number].status = None
            /\ \/ /\ tx[s].kind = "create" /\ tx[s].key \in Keys /\ ~KeyKnown(tx[s].key)
                  /\ revision'[tx[s].number].status = "GENERATING"
                  /\ revision'[tx[s].number].key = tx[s].key
                  /\ emitted' = emitted \cup {<<"generation-requested", tx[s].number>>}
               \/ /\ tx[s].kind = "edit" /\ tx[s].base \in Revisions /\ Status(tx[s].base) \in Completed
                  /\ revision'[tx[s].number].status = "REVIEW_REQUIRED"
                  /\ revision'[tx[s].number].key = None
                  /\ emitted' = emitted \cup {<<"review-required", tx[s].number>>}
<1> DEFINE n == tx[s].number
<1>1. HasProfile(s)
  BY NoneIsNothing DEF CommitCreate, CommitEdit, HasProfile
<1>2. n = MaxRevision + 1 /\ (n \in Revisions => revision[n].status = None)
  BY <1>1, Counted DEF BrandInv, ReadsStayFresh, HasProfile, Created, Status
<1>3. CASE CommitCreate(s) /\ KeyKnown(tx[s].key)
  BY <1>3 DEF CommitCreate
<1>4. CASE CommitCreate(s) /\ ~KeyKnown(tx[s].key)
  <2> DEFINE v == [NoRevision EXCEPT !.status = "GENERATING", !.key = tx[s].key]
  <2>1. v.status = "GENERATING" /\ v.key = tx[s].key
    BY DEF NoRevision
  <2>2. /\ n \in Revisions /\ revision' = [revision EXCEPT ![n] = v] /\ tx[s].kind = "create"
        /\ emitted' = emitted \cup {<<"generation-requested", n>>}
    BY <1>4 DEF CommitCreate
  <2> HIDE DEF v, n
  <2>3. revision'[n] = v /\ \A r \in Revisions : r # n => revision'[r] = revision[r]
    BY <2>2 DEF BrandInv, BrandTypeOK
  <2>4. tx[s].key \in Keys
    BY <2>2 DEF RequestsKept
  <2> QED  BY <1>2, <1>4, <2>1, <2>2, <2>3, <2>4 DEF n
<1>5. CASE CommitEdit(s)
  <2> DEFINE v == [NoRevision EXCEPT !.status = "REVIEW_REQUIRED"]
  <2>1. v.status = "REVIEW_REQUIRED" /\ v.key = None
    BY DEF NoRevision
  <2>2. /\ n \in Revisions /\ revision' = [revision EXCEPT ![n] = v] /\ tx[s].kind = "edit"
        /\ emitted' = emitted \cup {<<"review-required", n>>}
    BY <1>5 DEF CommitEdit
  <2> HIDE DEF v, n
  <2>3. revision'[n] = v /\ \A r \in Revisions : r # n => revision'[r] = revision[r]
    BY <2>2 DEF BrandInv, BrandTypeOK
  <2>4. tx[s].base \in Revisions /\ Status(tx[s].base) \in Completed
    BY <2>2 DEF RequestsKept
  <2> QED  BY <1>2, <2>1, <2>2, <2>3, <2>4 DEF n
<1> QED  BY <1>3, <1>4, <1>5

\* A key names one revision after every step.
LEMMA RequestsStep == BrandInv /\ RequestsKept /\ [BrandNext]_brandVars => RequestsKept'
<1> SUFFICES ASSUME BrandInv, RequestsKept, [BrandNext]_brandVars PROVE RequestsKept'
  OBVIOUS
<1>1. CASE UNCHANGED brandVars
  BY <1>1 DEF brandVars, RequestsKept, Status
<1>2. CASE BrandNext
  <2>1. /\ \A q, r \in Revisions : revision'[q].key # None /\ revision'[q].key = revision'[r].key => q = r
        /\ \A r \in Revisions : Status(r) \in Completed => revision'[r].status \in Completed
        /\ \A r \in Revisions : revision'[r].status = None => revision'[r].key = None
    <3>1. CASE KeysStay
      BY <3>1 DEF KeysStay, RequestsKept
    <3>2. CASE \E s \in Sessions : CommitCreate(s) \/ CommitEdit(s)
      <4>1. PICK s \in Sessions : CommitCreate(s) \/ CommitEdit(s)
        BY <3>2
      <4>2. CASE UNCHANGED revision
        BY <4>2 DEF RequestsKept, Status
      <4>3. CASE /\ \A r \in Revisions : r # tx[s].number => revision'[r] = revision[r]
                 /\ revision[tx[s].number].status = None /\ revision'[tx[s].number].status # None
                 /\ \/ ~KeyKnown(tx[s].key) /\ revision'[tx[s].number].key = tx[s].key
                    \/ revision'[tx[s].number].key = None
        BY <4>3, NoneIsNothing DEF RequestsKept, KeyKnown, Status, Completed
      <4> QED  BY <4>1, <4>2, <4>3, CommitWrites, NoneIsNothing
    <3> QED  BY <1>2, <3>1, <3>2, KeysOfStep DEF BrandInv
  <2>2. \A s \in Sessions : tx'[s].kind = "create" => tx'[s].key \in Keys
    <3> TAKE s \in Sessions
    <3> QED  BY <1>2, Begins, NoneIsNothing DEF BrandInv, RequestsKept
  <2>3. \A s \in Sessions : tx'[s].kind = "edit" =>
          tx'[s].base \in Revisions /\ revision'[tx'[s].base].status \in Completed
    <3> TAKE s \in Sessions
    <3>1. CASE tx'[s].kind = tx[s].kind /\ tx'[s].base = tx[s].base
      BY <2>1, <3>1 DEF RequestsKept
    <3>2. CASE tx'[s].kind = "edit" => /\ tx'[s].base \in Revisions /\ Status(tx'[s].base) \in Completed
                                       /\ UNCHANGED revision
      BY <3>2 DEF Status
    <3> QED  BY <1>2, <3>1, <3>2, Begins, NoneIsNothing DEF BrandInv
  <2> QED  BY <2>1, <2>2, <2>3 DEF RequestsKept, Status
<1> QED  BY <1>1, <1>2

\* The requests of the mapping change only where a key is taken.
LEMMA RequestStays ==
  ASSUME RequestsKept, NEW k \in Keys,
         \A r \in Revisions : revision'[r].key = k <=> revision[r].key = k
  PROVE  RequestOf(k)' = RequestOf(k)
<1>1. (KeyKnown(k)' <=> KeyKnown(k)) /\ k # None
  BY NoneIsNothing DEF KeyKnown
<1>2. CASE KeyKnown(k)
  <2>1. PICK r \in Revisions : revision[r].key = k
    BY <1>2 DEF KeyKnown
  <2>2. \A q \in Revisions : revision[q].key = k => q = r
    BY <1>1, <2>1 DEF RequestsKept
  <2>3. RequestOf(k) = r
    BY <1>2, <2>2, Chosen
  <2>4. RequestOf(k)' = CHOOSE q \in Revisions : revision'[q].key = k
    BY <1>1, <1>2 DEF RequestOf
  <2>5. (CHOOSE q \in Revisions : revision'[q].key = k) = r
    BY <2>1, <2>2
  <2> QED  BY <2>3, <2>4, <2>5
<1>3. CASE ~KeyKnown(k)
  BY <1>1, <1>3 DEF RequestOf
<1> QED  BY <1>2, <1>3

\* The request of a new key is answered with its revision.
LEMMA RequestTaken ==
  ASSUME NEW k \in Keys, NEW n \in Revisions, revision'[n].key = k, ~KeyKnown(k),
         \A r \in Revisions : r # n => revision'[r] = revision[r]
  PROVE  RequestOf(k) = None /\ RequestOf(k)' = n
<1>1. KeyKnown(k)'
  BY DEF KeyKnown
<1>2. \A q \in Revisions : revision'[q].key = k => q = n
  BY DEF KeyKnown
<1>3. RequestOf(k)' = CHOOSE q \in Revisions : revision'[q].key = k
  BY <1>1 DEF RequestOf
<1>4. (CHOOSE q \in Revisions : revision'[q].key = k) = n
  BY <1>2
<1> QED  BY <1>3, <1>4 DEF RequestOf

\* What the mapping makes of the revisions and of the requests.
Statuses == [r \in Revisions |-> Status(r)]
Requests == [k \in Keys |-> RequestOf(k)]

\* Where neither a status, a key nor an event changes, the history stutters.
LEMMA Stutters ==
  ASSUME RequestsKept, emitted' = emitted,
         \A r \in Revisions : revision'[r].key = revision[r].key /\ revision'[r].status = revision[r].status
  PROVE  UNCHANGED History!historyVars
<1>1. \A k \in Keys : RequestOf(k)' = RequestOf(k)
  BY RequestStays
<1>2. [r \in Revisions |-> revision'[r].status] = [r \in Revisions |-> revision[r].status]
  OBVIOUS
<1>3. [k \in Keys |-> RequestOf(k)'] = [k \in Keys |-> RequestOf(k)]
  BY <1>1
<1> QED  BY <1>2, <1>3 DEF History!historyVars, Status, RequestOf

\* The number read under the profile's lock is the in-memory store's next one.
LEMMA BrandNextNumber == History!NextRevision = MaxRevision + 1
<1>1. {r \in Revisions : Statuses[r] # None} = Created
  BY DEF Created, Statuses
<1> QED  BY <1>1 DEF History!NextRevision, History!Existing, MaxRevision, Statuses, History!Cardinality, Cardinality

\* One status changes.
LEMMA OneStatus ==
  ASSUME NEW n \in Revisions, NEW v, revision'[n].status = v,
         \A r \in Revisions : r # n => revision'[r] = revision[r]
  PROVE  Statuses' = [Statuses EXCEPT ![n] = v]
BY DEF Statuses, Status

\* A commit under a new number and key is a createRevision.
LEMMA CreateMaps ==
  ASSUME RequestsKept, NEW n \in Revisions, NEW k \in Keys, ~KeyKnown(k),
         n = MaxRevision + 1, revision[n].key = None,
         revision'[n].status = "GENERATING", revision'[n].key = k,
         \A r \in Revisions : r # n => revision'[r] = revision[r],
         emitted' = emitted \cup {<<"generation-requested", n>>}
  PROVE  History!Next
<1>1. RequestOf(k) = None /\ RequestOf(k)' = n
  BY RequestTaken
<1>2. ASSUME NEW c \in Keys, c # k PROVE RequestOf(c)' = RequestOf(c)
  <2>1. \A r \in Revisions : (revision'[r].key = c <=> revision[r].key = c)
    BY <1>2, NoneIsNothing
  <2> QED  BY <2>1, RequestStays
<1>3. Statuses' = [Statuses EXCEPT ![n] = "GENERATING"]
  BY OneStatus
<1>4. [c \in Keys |-> RequestOf(c)'] = [Requests EXCEPT ![k] = n]
  <2>1. \A c \in Keys : RequestOf(c)' = IF c = k THEN n ELSE RequestOf(c)
    BY <1>1, <1>2
  <2> HIDE DEF RequestOf
  <2> QED  BY <2>1 DEF Requests
<1>5. Requests' = [Requests EXCEPT ![k] = n] /\ Requests[k] = None
  BY <1>1, <1>4 DEF Requests
<1>6. History!createRevision(k)
  BY <1>3, <1>5, BrandNextNumber DEF History!createRevision, Statuses, Requests, RequestOf
<1> QED  BY <1>6 DEF History!Next

\* A commit of an edit under a new number is a createEditedRevision.
LEMMA EditMaps ==
  ASSUME RequestsKept, NEW n \in Revisions, NEW b \in Revisions, Status(b) \in Completed,
         n = MaxRevision + 1, revision[n].key = None,
         revision'[n].status = "REVIEW_REQUIRED", revision'[n].key = None,
         \A r \in Revisions : r # n => revision'[r] = revision[r],
         emitted' = emitted \cup {<<"review-required", n>>}
  PROVE  History!Next
<1>1. ASSUME NEW c \in Keys PROVE RequestOf(c)' = RequestOf(c)
  <2>1. \A r \in Revisions : (revision'[r].key = c <=> revision[r].key = c)
    BY NoneIsNothing
  <2> QED  BY <2>1, RequestStays
<1>2. Statuses' = [Statuses EXCEPT ![n] = "REVIEW_REQUIRED"]
  BY OneStatus
<1>3. Requests' = Requests
  BY <1>1 DEF Requests
<1>4. History!createEditedRevision(b)
  BY <1>2, <1>3, BrandNextNumber
     DEF History!createEditedRevision, Statuses, Requests, RequestOf, Completed
<1> QED  BY <1>4 DEF History!Next

LEMMA CommitMaps ==
  ASSUME BrandInv, RequestsKept, NEW s \in Sessions, CommitCreate(s) \/ CommitEdit(s)
  PROVE  History!Next \/ UNCHANGED History!historyVars
<1>1. CASE UNCHANGED <<revision, emitted>>
  BY <1>1, Stutters
<1>2. revision[tx[s].number].status = None /\ tx[s].number \in Revisions => revision[tx[s].number].key = None
  BY DEF RequestsKept, Status
<1> QED  BY <1>1, <1>2, CommitWrites, CreateMaps, EditMaps

\* The steps that change statuses alone leave the requests as they are.
LEMMA RequestsStay ==
  ASSUME RequestsKept, KeysStay
  PROVE  Requests' = Requests
<1>1. ASSUME NEW c \in Keys PROVE RequestOf(c)' = RequestOf(c)
  BY RequestStays DEF KeysStay
<1> QED  BY <1>1 DEF Requests

\* An approval is one approveRevision.
LEMMA ApprovalMaps ==
  ASSUME BrandInv, RequestsKept, NEW s \in Sessions, CommitApproval(s), KeysStay
  PROVE  History!Next
<1>1. PICK b \in Revisions : b = tx[s].base
  BY DEF CommitApproval, BrandInv, LocksExclude
<1>2. Status(b) = "REVIEW_REQUIRED" /\ emitted' = emitted \cup {<<"approved", b>>}
  BY <1>1 DEF CommitApproval, BrandInv, ReadsStayFresh
<1>3. \A q \in Revisions :
        revision'[q].status = IF q = b THEN "APPROVED"
                              ELSE IF Status(q) = "APPROVED" THEN "SUPERSEDED" ELSE Status(q)
  <2> TAKE q \in Revisions
  <2>1. revision[q] \in RevisionRow
    BY DEF BrandInv, BrandTypeOK
  <2>2. revision'[q] = IF q = b THEN [revision[q] EXCEPT !.status = "APPROVED"]
                       ELSE IF Status(q) = "APPROVED" THEN [revision[q] EXCEPT !.status = "SUPERSEDED"]
                       ELSE revision[q]
    BY <1>1 DEF CommitApproval, Superseded
  <2> QED  BY <2>1, <2>2 DEF RevisionRow, Status
<1>4. Statuses' = [q \in Revisions |-> IF q = b THEN "APPROVED"
                     ELSE IF Statuses[q] = "APPROVED" THEN "SUPERSEDED" ELSE Statuses[q]]
  BY <1>3 DEF Statuses, Status
<1>5. Requests' = Requests
  BY RequestsStay
<1>6. History!approveRevision(b)
  BY <1>2, <1>4, <1>5 DEF History!approveRevision, Statuses, Requests, RequestOf
<1> QED  BY <1>6 DEF History!Next

\* A worker that settles a revision is one completeGeneration or failGeneration.
LEMMA SettlementMaps ==
  ASSUME BrandInv, RequestsKept, KeysStay, NEW g \in Generators, CompleteGeneration(g) \/ FailGeneration(g)
  PROVE  History!Next \/ UNCHANGED History!historyVars
<1>1. CASE UNCHANGED <<revision, emitted>>
  BY <1>1, Stutters
<1>2. CASE ~UNCHANGED <<revision, emitted>>
  <2>1. generator[g].pc # "idle"
    BY DEF CompleteGeneration, FailGeneration
  <2>2. PICK r \in Revisions : r = generator[g].of
    BY <2>1 DEF BrandInv, BrandCallsKnow, Knows
  <2>3. \/ /\ revision' = [revision EXCEPT ![r].status = "REVIEW_REQUIRED"]
           /\ emitted' = emitted \cup {<<"review-required", r>>}
           /\ Status(r) = "GENERATING"
        \/ /\ revision' = [revision EXCEPT ![r].status = "GENERATION_FAILED",
                                           ![r].failure = generator[g].error]
           /\ emitted' = emitted
           /\ Status(r) = "GENERATING"
    BY <1>2, <2>2 DEF CompleteGeneration, FailGeneration
  <2>4. \A q \in Revisions : q # r => revision'[q] = revision[q]
    BY <2>3 DEF BrandInv, BrandTypeOK
  <2>5. revision[r] \in RevisionRow
    BY DEF BrandInv, BrandTypeOK
  <2>6. \/ /\ revision'[r].status = "REVIEW_REQUIRED"
           /\ emitted' = emitted \cup {<<"review-required", r>>}
        \/ revision'[r].status = "GENERATION_FAILED" /\ emitted' = emitted
    BY <2>3, <2>5 DEF RevisionRow, BrandInv, BrandTypeOK
  <2>7. Status(r) = "GENERATING" /\ Requests' = Requests
    BY <2>3, RequestsStay
  <2>8. CASE revision'[r].status = "REVIEW_REQUIRED" /\ emitted' = emitted \cup {<<"review-required", r>>}
    <3>1. Statuses' = [Statuses EXCEPT ![r] = "REVIEW_REQUIRED"]
      BY <2>4, <2>8, OneStatus
    <3>2. History!completeGeneration(r)
      BY <2>7, <2>8, <3>1 DEF History!completeGeneration, Statuses, Requests, RequestOf
    <3> QED  BY <3>2 DEF History!Next
  <2>9. CASE revision'[r].status = "GENERATION_FAILED" /\ emitted' = emitted
    <3>1. Statuses' = [Statuses EXCEPT ![r] = "GENERATION_FAILED"]
      BY <2>4, <2>9, OneStatus
    <3>2. History!failGeneration(r)
      BY <2>7, <2>9, <3>1 DEF History!failGeneration, Statuses, Requests, RequestOf
    <3> QED  BY <3>2 DEF History!Next
  <2> QED  BY <2>6, <2>8, <2>9
<1> QED  BY <1>1, <1>2

\* Only commits and settlements write revisions or events.
LEMMA QuietStep ==
  ASSUME BrandNext, \A s \in Sessions : ~CommitCreate(s) /\ ~CommitEdit(s)
  PROVE  \/ UNCHANGED <<revision, emitted>>
         \/ \E s \in Sessions : CommitApproval(s)
         \/ \E g \in Generators : CompleteGeneration(g) \/ FailGeneration(g)
<1>1. CASE \E s \in Sessions : LockProfile(s) \/ Rollback(s)
  BY <1>1 DEF LockProfile, Rollback
<1>2. CASE \E s \in Sessions, k \in Keys : LockWorkspace(s, k)
  BY <1>2 DEF LockWorkspace
<1>3. CASE \E s \in Sessions, r \in Revisions : LockForEdit(s, r) \/ LockForApproval(s, r)
  BY <1>3 DEF LockForEdit, LockForApproval
<1>4. CASE \E g \in Generators : ReadRevision(g) \/ RetryGeneration(g) \/ GeneratorCrash(g)
  BY <1>4 DEF ReadRevision, RetryGeneration, GeneratorCrash
<1>5. CASE \E g \in Generators : AcknowledgeSuccess(g) \/ AcknowledgeFailure(g)
  BY <1>5 DEF AcknowledgeSuccess, AcknowledgeFailure
<1>6. CASE \E g \in Generators, r \in Revisions : ClaimGeneration(g, r)
  BY <1>6 DEF ClaimGeneration
<1>7. CASE \E r \in Revisions : GenerationLeaseExpires(r) \/ GenerationFallsDue(r)
  BY <1>7 DEF GenerationLeaseExpires, GenerationFallsDue
<1> QED  BY <1>1, <1>2, <1>3, <1>4, <1>5, <1>6, <1>7 DEF BrandNext, SessionStep, GeneratorStep

\* Every step of the store is one of the history, or none.
LEMMA StepMaps ==
  BrandInv /\ RequestsKept /\ [BrandNext]_brandVars => [History!Next]_(History!historyVars)
<1> SUFFICES ASSUME BrandInv, RequestsKept, [BrandNext]_brandVars
             PROVE  History!Next \/ UNCHANGED History!historyVars
  OBVIOUS
<1>1. CASE \E s \in Sessions : CommitCreate(s) \/ CommitEdit(s)
  BY <1>1, CommitMaps
<1>2. CASE BrandNext /\ \A s \in Sessions : ~CommitCreate(s) /\ ~CommitEdit(s)
  <2>1. KeysStay
    BY <1>2, KeysOfStep DEF BrandInv
  <2>2. CASE \E s \in Sessions : CommitApproval(s)
    BY <2>1, <2>2, ApprovalMaps
  <2>3. CASE \E g \in Generators : CompleteGeneration(g) \/ FailGeneration(g)
    BY <2>1, <2>3, SettlementMaps
  <2>4. CASE UNCHANGED <<revision, emitted>>
    BY <2>4, Stutters
  <2> QED  BY <1>2, <2>2, <2>3, <2>4, QuietStep
<1>3. CASE UNCHANGED brandVars
  BY <1>3, Stutters DEF brandVars
<1> QED  BY <1>1, <1>2, <1>3

LEMMA InitMaps == BrandInit => RequestsKept /\ History!Init
<1> SUFFICES ASSUME BrandInit PROVE RequestsKept /\ History!Init
  OBVIOUS
<1>1. \A r \in Revisions : revision[r].key = None /\ Status(r) = None
  BY DEF BrandInit, NoRevision, Status
<1>2. RequestsKept
  BY <1>1, NoneIsNothing DEF RequestsKept, BrandInit, NoTransaction
<1>3. \A k \in Keys : ~KeyKnown(k)
  BY <1>1, NoneIsNothing DEF KeyKnown
<1> QED  BY <1>1, <1>2, <1>3 DEF History!Init, BrandInit

\* The Postgres store implements the in-memory store, whatever the sessions'
\* interleaving, the workers' crashes and the leases lost.
THEOREM ImplementsHistory == BrandSpec => KeepsHistory
<1>1. BrandSpec => []RequestsKept
  BY InitMaps, RequestsStep, BrandInvHolds, PTL DEF BrandSpec
<1> QED  BY <1>1, InitMaps, StepMaps, BrandInvHolds, PTL DEF BrandSpec, KeepsHistory, History!Spec
=============================================================================
