--------------------------- MODULE Candidates_proofs ---------------------------
(***************************************************************************)
(* Safety of the candidate jobs and their review for any jobs, workers and *)
(* reviewers.  Carried along: what a call knows of its job's row, in       *)
(* particular that only the owner of a row ever locks it, and that only    *)
(* candidates that were found are reviewed.  Then the snapshot of one      *)
(* product: the margin of what is recommended, for any catalogue.          *)
(***************************************************************************)
EXTENDS Candidates, CatalogSnapshot, NaturalsInduction, WellFoundedInduction, FiniteSetTheorems, TLAPS

Held(j, w) == catJob[j].status = "RUNNING" /\ catJob[j].lockedBy = w

\* The call c of worker w and the row it is about.
Tied(w, c) ==
  c.pc # "idle" =>
    /\ c.of \in CandidateJobs
    /\ Held(c.of, w) => catJob[c.of].attempts = c.attempt
    /\ c.pc = "locked" => Held(c.of, w)
    /\ c.pc = "exhausted" => c.error = "none"
    /\ c.pc # "exhausted" => c.attempt <= MaxCandidateAttempts

CallsTied == \A w \in CandidateWorkers : Tied(w, catWorker[w])

RowsFine == \A j \in CandidateJobs : catJob[j].status = "ABSENT" => catJob[j].attempts = 0

FoundIsReviewed ==
  /\ \A j \in CandidateJobs : candidate[j].decision # "UNREVIEWED" => candidate[j].eligibility # "NONE"
  /\ \A v \in Reviewers : reviewing[v].of # Nobody => /\ candidate[reviewing[v].of].eligibility # "NONE"
                                                     /\ reviewing[v].key \in DecisionKeys

CandidateInv == /\ CandidateTypeOK /\ CallsTied /\ RowsFine /\ QueuedHasAttempts
        /\ FoundOnce /\ ActionsAgree /\ ContentForApproved /\ FoundIsReviewed

-----------------------------------------------------------------------------
LEMMA CandidateInitInv == CandidateInit => CandidateInv
<1> SUFFICES ASSUME CandidateInit PROVE CandidateInv
  OBVIOUS
<1> USE CandidateAssumption
<1>1. /\ \A j \in CandidateJobs : /\ catJob[j].status = "ABSENT" /\ catJob[j].attempts = 0 /\ found[j] = 0
                                  /\ candidate[j].eligibility = "NONE" /\ candidate[j].decision = "UNREVIEWED"
      /\ \A w \in CandidateWorkers : catWorker[w].pc = "idle"
      /\ \A v \in Reviewers : reviewing[v].of = Nobody
      /\ actions = {} /\ contentQueued = {}
  BY DEF CandidateInit, IdleCandidateWorker, NoReview
<1>2. CandidateTypeOK
  <2>1. catJob \in [CandidateJobs -> CandidateJobRow]
    BY DEF CandidateInit, CandidateJobRow
  <2>2. catWorker \in [CandidateWorkers -> CandidateCall]
    BY DEF CandidateInit, IdleCandidateWorker, CandidateCall
  <2>3. candidate \in [CandidateJobs -> CandidateRow] /\ reviewing \in [Reviewers -> Review]
    BY DEF CandidateInit, CandidateRow, NoReview, Review, Decisions
  <2> QED  BY <1>1, <2>1, <2>2, <2>3 DEF CandidateInit, CandidateTypeOK
<1> QED
  BY <1>1, <1>2 DEF CandidateInv, CallsTied, Tied, RowsFine, QueuedHasAttempts, FoundOnce, ActionsAgree,
     ContentForApproved, FoundIsReviewed

-----------------------------------------------------------------------------
(* Steps on the call of one worker and the row of one job.                  *)

\* Nothing that was found or decided is touched, and no job succeeds.
LEMMA ResultsStay ==
  ASSUME CandidateInv, UNCHANGED queueVars,
         \A j \in CandidateJobs : (catJob'[j].status = "SUCCEEDED" <=> catJob[j].status = "SUCCEEDED")
  PROVE  FoundOnce' /\ ActionsAgree' /\ ContentForApproved' /\ FoundIsReviewed'
BY DEF CandidateInv, queueVars, FoundOnce, ActionsAgree, ContentForApproved, FoundIsReviewed

\* One call and one row change, and no other call has the row locked.
Change(w, c, j, row) == /\ catWorker' = [catWorker EXCEPT ![w] = c]
                        /\ catJob' = [catJob EXCEPT ![j] = row]
Alone(w, j) == \A u \in CandidateWorkers \ {w} : ~(catWorker[u].pc = "locked" /\ catWorker[u].of = j)

\* The other calls are then tied to their rows as before.
LEMMA OneCall ==
  ASSUME CandidateInv, NEW w \in CandidateWorkers, NEW c \in CandidateCall, Tied(w, c)',
         NEW j \in CandidateJobs, NEW row \in CandidateJobRow, Change(w, c, j, row), Alone(w, j),
         row.status # "ABSENT", row.status = "PENDING" => row.attempts < MaxCandidateAttempts,
         row.lockedBy \in {w, Nobody}
  PROVE  /\ catJob' \in [CandidateJobs -> CandidateJobRow] /\ catWorker' \in [CandidateWorkers -> CandidateCall]
         /\ CallsTied' /\ RowsFine' /\ QueuedHasAttempts'
<1> USE DEF CandidateInv, CandidateTypeOK, Change
<1>1. catJob'[j] = row /\ \A i \in CandidateJobs : i # j => catJob'[i] = catJob[i]
  OBVIOUS
<1>2. catWorker'[w] = c /\ \A u \in CandidateWorkers : u # w => catWorker'[u] = catWorker[u]
  OBVIOUS
<1>3. RowsFine' /\ QueuedHasAttempts'
  BY <1>1 DEF RowsFine, QueuedHasAttempts
<1>4. ASSUME NEW u \in CandidateWorkers, u # w PROVE Tied(u, catWorker[u])'
  <2>1. PICK d \in CandidateCall : d = catWorker[u]
    OBVIOUS
  <2>2. Tied(u, d)
    BY <2>1 DEF CallsTied
  <2>3. CASE d.of # j
    BY <1>1, <1>2, <1>4, <2>1, <2>2, <2>3 DEF Tied, Held
  <2>4. CASE d.of = j
    <3>1. row.lockedBy # u /\ d.pc # "locked"
      BY <1>4, <2>1, <2>4, CandidateAssumption DEF Alone
    <3> QED  BY <1>1, <1>2, <1>4, <2>1, <2>2, <2>4, <3>1 DEF Tied, Held
  <2> QED  BY <1>4, <2>1, <2>3, <2>4
<1>5. Tied(w, catWorker[w])'
  BY <1>2
<1>6. \A u \in CandidateWorkers : Tied(u, catWorker[u])'
  BY <1>4, <1>5
<1> QED  BY <1>3, <1>6 DEF CallsTied

LEMMA OneCallInv ==
  ASSUME CandidateInv, UNCHANGED queueVars, catJob' \in [CandidateJobs -> CandidateJobRow],
         catWorker' \in [CandidateWorkers -> CandidateCall], CallsTied', RowsFine', QueuedHasAttempts',
         \A j \in CandidateJobs : (catJob'[j].status = "SUCCEEDED" <=> catJob[j].status = "SUCCEEDED")
  PROVE  CandidateInv'
<1>1. CandidateTypeOK'
  BY DEF CandidateInv, CandidateTypeOK, queueVars
<1> QED  BY <1>1, ResultsStay DEF CandidateInv

LEMMA IdleCall == IdleCandidateWorker \in CandidateCall /\ IdleCandidateWorker.pc = "idle"
BY CandidateAssumption DEF IdleCandidateWorker, CandidateCall

\* A call that goes on, or ends, and leaves its row as it is.
LEMMA CallOnly ==
  ASSUME CandidateInv, NEW w \in CandidateWorkers, NEW c \in CandidateCall, catWorker[w].pc # "idle",
         catWorker' = [catWorker EXCEPT ![w] = c], UNCHANGED <<catJob, queueVars>>,
         c.pc # "idle" => /\ c.of = catWorker[w].of /\ c.attempt = catWorker[w].attempt
                          /\ c.pc # "exhausted" /\ catWorker[w].pc # "exhausted"
                          /\ c.pc = "locked" => Held(c.of, w)
  PROVE  CandidateInv'
<1> USE DEF CandidateInv, CandidateTypeOK
<1>1. PICK d \in CandidateCall : d = catWorker[w]
  OBVIOUS
<1>2. Tied(w, d)
  BY <1>1 DEF CallsTied
<1>3. PICK j \in CandidateJobs : j = d.of
  BY <1>1, <1>2 DEF Tied
<1>4. PICK row \in CandidateJobRow : row = catJob[j]
  OBVIOUS
<1>5. catJob' = [catJob EXCEPT ![j] = row]
  BY <1>4
<1>6. Tied(w, c)'
  BY <1>1, <1>2 DEF Tied, Held
<1>7. row.status = "PENDING" => row.attempts < MaxCandidateAttempts
  BY <1>4 DEF QueuedHasAttempts
<1>8. /\ catWorker' \in [CandidateWorkers -> CandidateCall] /\ CallsTied'
  <2>1. ASSUME NEW u \in CandidateWorkers, u # w PROVE Tied(u, catWorker[u])'
    <3>1. PICK e \in CandidateCall : e = catWorker[u]
      OBVIOUS
    <3>2. Tied(u, e) /\ catWorker'[u] = e
      BY <2>1, <3>1 DEF CallsTied
    <3> QED  BY <3>2 DEF Tied, Held
  <2>2. catWorker'[w] = c
    OBVIOUS
  <2>3. Tied(w, catWorker[w])'
    BY <1>6, <2>2
  <2> QED  BY <2>1, <2>3 DEF CallsTied
<1>9. RowsFine' /\ QueuedHasAttempts' /\ catJob' \in [CandidateJobs -> CandidateJobRow]
  BY DEF RowsFine, QueuedHasAttempts
<1> QED  BY <1>8, <1>9, OneCallInv

\* A call takes its next step, or fails.
AtStep(c, p) == [c EXCEPT !.pc = p]
Failed(c, e) == [c EXCEPT !.pc = "error", !.error = e]
Begun(c, b) == [c EXCEPT !.pc = "begun", !.live = b]
Follows(d, c, p) == d \in CandidateCall /\ d.pc = p /\ d.of = c.of /\ d.attempt = c.attempt

LEMMA CandidateCallGoes ==
  ASSUME NEW c \in CandidateCall
  PROVE  /\ \A p \in {"catalog", "begun", "locked"} : Follows(AtStep(c, p), c, p)
         /\ \A b \in BOOLEAN : Follows(Begun(c, b), c, "begun")
         /\ \A e \in {"connection", "rateLimit", "transient", "permanent"} : Follows(Failed(c, e), c, "error")
BY DEF CandidateCall, Follows, AtStep, Begun, Failed

\* The steps before complete() has locked the row.
LEMMA CandidateReadStep ==
  ASSUME CandidateInv, NEW w \in CandidateWorkers,
         LoadApprovedProfile(w) \/ FetchSnapshot(w) \/ LockCandidateJob(w) \/ CandidateWorkerCrash(w)
  PROVE  CandidateInv'
<1>1. PICK d \in CandidateCall : d = catWorker[w]
  BY DEF CandidateInv, CandidateTypeOK
<1>2. UNCHANGED <<catJob, queueVars>> /\ d.pc # "idle"
  BY <1>1 DEF LoadApprovedProfile, FetchSnapshot, LockCandidateJob, CandidateWorkerCrash
<1>3. CASE \E e \in {"connection", "rateLimit", "transient", "permanent"} : Fails(w, e) /\ d.pc # "exhausted"
  <2>1. PICK e \in {"connection", "rateLimit", "transient", "permanent"} : Fails(w, e)
    BY <1>3
  <2>2. catWorker' = [catWorker EXCEPT ![w] = Failed(d, e)]
    BY <1>1, <2>1 DEF Fails, Failed, CandidateInv, CandidateTypeOK
  <2>3. Follows(Failed(d, e), d, "error")
    BY <2>1, CandidateCallGoes
  <2>4. PICK c \in CandidateCall : /\ catWorker' = [catWorker EXCEPT ![w] = c]
                                   /\ c.pc = "error" /\ c.of = d.of /\ c.attempt = d.attempt
    BY <2>2, <2>3 DEF Follows
  <2> QED  BY <1>1, <1>2, <1>3, <2>4, CallOnly
<1>4. CASE WorkerIdle(w)
  BY <1>1, <1>2, <1>4, IdleCall, CallOnly DEF WorkerIdle
<1>5. CASE \/ At(w, "catalog") /\ d.pc = "profile"
           \/ At(w, "locked") /\ d.pc = "begun" /\ Held(d.of, w)
  <2>1. PICK p \in {"catalog", "locked"} : At(w, p) /\ (p = "locked" => Held(d.of, w)) /\ d.pc # "exhausted"
    BY <1>5
  <2>2. catWorker' = [catWorker EXCEPT ![w] = AtStep(d, p)]
    BY <1>1, <2>1 DEF At, AtStep
  <2>3. Follows(AtStep(d, p), d, p)
    BY <2>1, CandidateCallGoes
  <2>4. PICK c \in CandidateCall : /\ catWorker' = [catWorker EXCEPT ![w] = c]
                                   /\ c.pc = p /\ c.of = d.of /\ c.attempt = d.attempt
    BY <2>2, <2>3 DEF Follows
  <2> QED  BY <1>1, <1>2, <2>1, <2>4, CallOnly
<1>6. CASE d.pc = "catalog" /\ \E b \in BOOLEAN :
             catWorker' = [catWorker EXCEPT ![w].pc = "begun", ![w].live = b]
  <2>1. PICK b \in BOOLEAN : catWorker' = [catWorker EXCEPT ![w].pc = "begun", ![w].live = b]
    BY <1>6
  <2>2. catWorker' = [catWorker EXCEPT ![w] = Begun(d, b)]
    BY <1>1, <2>1 DEF Begun, CandidateInv, CandidateTypeOK
  <2>3. Follows(Begun(d, b), d, "begun")
    BY <2>1, CandidateCallGoes
  <2>4. PICK c \in CandidateCall : /\ catWorker' = [catWorker EXCEPT ![w] = c]
                                   /\ c.pc = "begun" /\ c.of = d.of /\ c.attempt = d.attempt
    BY <2>2, <2>3 DEF Follows
  <2> QED  BY <1>1, <1>2, <1>6, <2>4, CallOnly
<1>7. FetchSnapshot(w) => catJob[JobOf(w)].leased \in BOOLEAN
  BY DEF FetchSnapshot, CandidateInv, CallsTied, Tied, CandidateTypeOK, CandidateJobRow, JobOf
<1> QED
  BY <1>1, <1>3, <1>4, <1>5, <1>6, <1>7
  DEF LoadApprovedProfile, FetchSnapshot, LockCandidateJob, CandidateWorkerCrash, OwnsCandidateJob, Held, JobOf

\* The rows that a claim, a failure and an end write.
Claimed(j, w) == [catJob[j] EXCEPT !.status = "RUNNING", !.attempts = @ + 1, !.lockedBy = w, !.leased = TRUE]
LaterRow(j) == [Left(j, "PENDING") EXCEPT !.due = FALSE]

LEMMA Rows ==
  ASSUME CandidateTypeOK, NEW j \in CandidateJobs
  PROVE  /\ \A s \in {"PENDING", "SUCCEEDED", "FAILED"} :
              /\ Left(j, s) \in CandidateJobRow /\ Left(j, s).status = s
              /\ Left(j, s).lockedBy = Nobody /\ Left(j, s).attempts = catJob[j].attempts
         /\ /\ LaterRow(j) \in CandidateJobRow /\ LaterRow(j).status = "PENDING"
            /\ LaterRow(j).lockedBy = Nobody /\ LaterRow(j).attempts = catJob[j].attempts
BY DEF CandidateTypeOK, CandidateJobRow, Left, LaterRow

LEMMA DeferredRow ==
  ASSUME CandidateTypeOK, NEW j \in CandidateJobs, catJob[j].attempts <= MaxCandidateAttempts
  PROVE  /\ Deferred(j) \in CandidateJobRow /\ Deferred(j).status = "PENDING"
         /\ Deferred(j).lockedBy = Nobody /\ Deferred(j).attempts < MaxCandidateAttempts
<1>1. PICK row \in CandidateJobRow : row = Left(j, "PENDING")
  BY Rows
<1>2. row.status = "PENDING" /\ row.lockedBy = Nobody /\ row.attempts \in 0 .. MaxCandidateAttempts
  BY <1>1, Rows, CandidateAssumption DEF CandidateTypeOK, CandidateJobRow
<1>3. PICK n \in 0 .. MaxCandidateAttempts + 1 :
        n = (IF row.attempts = 0 THEN 0 ELSE row.attempts - 1) /\ n < MaxCandidateAttempts
  BY <1>2, CandidateAssumption
<1>4. Deferred(j) = [row EXCEPT !.due = FALSE, !.attempts = n]
  BY <1>1, <1>3 DEF Deferred, CandidateJobRow
<1> QED  BY <1>2, <1>3, <1>4 DEF CandidateJobRow

LEMMA ClaimedRow ==
  ASSUME CandidateTypeOK, NEW j \in CandidateJobs, NEW w \in CandidateWorkers,
         catJob[j].attempts <= MaxCandidateAttempts
  PROVE  /\ Claimed(j, w) \in CandidateJobRow /\ Claimed(j, w).status = "RUNNING"
         /\ Claimed(j, w).lockedBy = w /\ Claimed(j, w).attempts = catJob[j].attempts + 1
<1>1. catJob[j].attempts + 1 \in 0 .. MaxCandidateAttempts + 1
  BY CandidateAssumption DEF CandidateTypeOK, CandidateJobRow
<1> QED  BY <1>1 DEF Claimed, CandidateTypeOK, CandidateJobRow

LEMMA CandidateClaimStep ==
  ASSUME CandidateInv, NEW w \in CandidateWorkers, NEW j \in CandidateJobs, ClaimCandidates(w, j)
  PROVE  CandidateInv'
<1> USE DEF CandidateInv
<1>1. /\ ~Locked(j) /\ catJob[j].status \in {"PENDING", "RUNNING"} /\ UNCHANGED queueVars
      /\ catJob[j].attempts <= MaxCandidateAttempts
      /\ catJob' = [catJob EXCEPT ![j] = Claimed(j, w)]
  BY CandidateAssumption DEF ClaimCandidates, CandidateClaimable, Claimed, CandidateTypeOK, CandidateJobRow
<1>2. PICK row \in CandidateJobRow : /\ row.status = "RUNNING" /\ row.lockedBy = w
                                    /\ row.attempts = catJob[j].attempts + 1
                                    /\ catJob' = [catJob EXCEPT ![j] = row]
  BY <1>1, ClaimedRow
<1>3. PICK c \in CandidateCall :
        /\ catWorker' = [catWorker EXCEPT ![w] = c]
        /\ c.of = j /\ c.attempt = catJob[j].attempts + 1 /\ c.error = "none"
        /\ c.pc = IF catJob[j].attempts < MaxCandidateAttempts THEN "profile" ELSE "exhausted"
  <2> DEFINE p == IF catJob[j].attempts < MaxCandidateAttempts THEN "profile" ELSE "exhausted"
             c == [IdleCandidateWorker EXCEPT !.pc = p, !.of = j, !.attempt = catJob[j].attempts + 1]
  <2>1. catWorker' = [catWorker EXCEPT ![w] = c]
    BY DEF ClaimCandidates
  <2>2. catJob[j].attempts + 1 \in 0 .. MaxCandidateAttempts + 1
    BY <1>2 DEF CandidateJobRow
  <2>3. p \in {"profile", "exhausted"}
    OBVIOUS
  <2> HIDE DEF p
  <2>4. /\ c \in CandidateCall /\ c.of = j /\ c.attempt = catJob[j].attempts + 1 /\ c.error = "none"
        /\ c.pc = p
    BY <2>2, <2>3, IdleCall DEF CandidateCall, IdleCandidateWorker
  <2> HIDE DEF c
  <2> QED  BY <2>1, <2>4 DEF p
<1>4. catJob'[j] = row /\ catJob[j].attempts \in Nat
  BY <1>2 DEF CandidateTypeOK, CandidateJobRow
<1>5. Tied(w, c)'
  BY <1>2, <1>3, <1>4, CandidateAssumption DEF Tied, Held
<1>6. Alone(w, j) /\ Change(w, c, j, row)
  BY <1>1, <1>2, <1>3 DEF Locked, JobOf, Alone, Change
<1>7. \A i \in CandidateJobs : (catJob'[i].status = "SUCCEEDED" <=> catJob[i].status = "SUCCEEDED")
  BY <1>1, <1>2 DEF CandidateTypeOK
<1>8. /\ catJob' \in [CandidateJobs -> CandidateJobRow] /\ catWorker' \in [CandidateWorkers -> CandidateCall]
      /\ CallsTied' /\ RowsFine' /\ QueuedHasAttempts'
  BY <1>2, <1>3, <1>5, <1>6, OneCall
<1> QED  BY <1>1, <1>7, <1>8, OneCallInv

\* A row that a call locks is held by that call alone.
LEMMA HeldAlone ==
  ASSUME CandidateInv, NEW w \in CandidateWorkers, NEW j \in CandidateJobs, Held(j, w)
  PROVE  Alone(w, j)
BY DEF CandidateInv, CallsTied, Tied, Held, Alone

LEMMA CandidateErrorStep ==
  ASSUME CandidateInv, NEW w \in CandidateWorkers, HandleError(w)
  PROVE  CandidateInv'
<1> USE DEF CandidateInv
<1>1. PICK d \in CandidateCall : d = catWorker[w]
  BY DEF CandidateTypeOK
<1>2. Tied(w, d) /\ d.pc \in {"error", "exhausted"}
  BY <1>1 DEF CallsTied, HandleError
<1>3. PICK j \in CandidateJobs : j = d.of
  BY <1>2 DEF Tied
<1>4. UNCHANGED queueVars /\ catWorker' = [catWorker EXCEPT ![w] = IdleCandidateWorker]
  BY DEF HandleError, WorkerIdle
<1>5. CASE UNCHANGED catJob
  BY <1>1, <1>2, <1>4, <1>5, IdleCall, CallOnly
<1>6. CASE ~UNCHANGED catJob
  <2>1. /\ Held(j, w)
        /\ \/ Defers(w) /\ catJob' = [catJob EXCEPT ![j] = Deferred(j)]
           \/ Tries(w) /\ catJob' = [catJob EXCEPT ![j] = LaterRow(j)]
           \/ catJob' = [catJob EXCEPT ![j] = Left(j, "FAILED")]
    BY <1>1, <1>3, <1>6 DEF HandleError, OwnsCandidateJob, Held, JobOf, LaterRow
  <2>2. catJob[j].attempts = d.attempt /\ catJob[j].attempts \in Nat
    BY <1>2, <1>3, <2>1 DEF Tied, CandidateTypeOK, CandidateJobRow
  <2>3. Defers(w) => catJob[j].attempts <= MaxCandidateAttempts
    BY <1>1, <1>2, <2>2 DEF Defers, Tied
  <2>4. Tries(w) => catJob[j].attempts < MaxCandidateAttempts
    BY <1>1, <2>2 DEF Tries
  <2>5. PICK row \in CandidateJobRow :
          /\ catJob' = [catJob EXCEPT ![j] = row] /\ row.lockedBy = Nobody
          /\ row.status \in {"PENDING", "FAILED"}
          /\ row.status = "PENDING" => row.attempts < MaxCandidateAttempts
    BY <2>1, <2>3, <2>4, Rows, DeferredRow
  <2>6. /\ catJob' \in [CandidateJobs -> CandidateJobRow] /\ catWorker' \in [CandidateWorkers -> CandidateCall]
        /\ CallsTied' /\ RowsFine' /\ QueuedHasAttempts'
    <3>1. PICK c \in CandidateCall : c = IdleCandidateWorker /\ c.pc = "idle"
      BY IdleCall
    <3>2. Tied(w, c)'
      BY <3>1 DEF Tied
    <3>3. Alone(w, j) /\ Change(w, c, j, row)
      BY <1>4, <2>1, <2>5, <3>1, HeldAlone DEF Change
    <3> QED  BY <2>5, <3>2, <3>3, OneCall
  <2>7. \A i \in CandidateJobs : (catJob'[i].status = "SUCCEEDED" <=> catJob[i].status = "SUCCEEDED")
    BY <2>1, <2>5 DEF CandidateTypeOK, Held
  <2> QED  BY <1>4, <2>6, <2>7, OneCallInv
<1> QED  BY <1>5, <1>6

\* The clock: a lease runs out, a back-off passes.
LEMMA CandidateClockStep ==
  ASSUME CandidateInv, NEW j \in CandidateJobs, CandidateLeaseExpires(j) \/ CandidateFallsDue(j)
  PROVE  CandidateInv'
<1>1. UNCHANGED <<catWorker, queueVars>>
  BY DEF CandidateLeaseExpires, CandidateFallsDue
<1>2. /\ catJob' \in [CandidateJobs -> CandidateJobRow]
      /\ \A i \in CandidateJobs : /\ catJob'[i].status = catJob[i].status
                                   /\ catJob'[i].attempts = catJob[i].attempts
                                   /\ catJob'[i].lockedBy = catJob[i].lockedBy
  <2>1. PICK old \in CandidateJobRow : old = catJob[j]
    BY DEF CandidateInv, CandidateTypeOK
  <2>2. PICK row \in CandidateJobRow : /\ catJob' = [catJob EXCEPT ![j] = row] /\ row.status = old.status
                                      /\ row.attempts = old.attempts /\ row.lockedBy = old.lockedBy
    <3>1. CASE CandidateLeaseExpires(j)
      <4>1. [old EXCEPT !.leased = FALSE] \in CandidateJobRow
        BY DEF CandidateJobRow
      <4> QED  BY <2>1, <3>1, <4>1 DEF CandidateLeaseExpires, CandidateJobRow
    <3>2. CASE CandidateFallsDue(j)
      <4>1. [old EXCEPT !.due = TRUE] \in CandidateJobRow
        BY DEF CandidateJobRow
      <4> QED  BY <2>1, <3>2, <4>1 DEF CandidateFallsDue, CandidateJobRow
    <3> QED  BY <3>1, <3>2
  <2> QED  BY <2>1, <2>2 DEF CandidateInv, CandidateTypeOK
<1>3. RowsFine' /\ QueuedHasAttempts'
  BY <1>2 DEF CandidateInv, RowsFine, QueuedHasAttempts
<1>4. ASSUME NEW u \in CandidateWorkers PROVE Tied(u, catWorker[u])'
  <2>1. PICK d \in CandidateCall : d = catWorker[u]
    BY DEF CandidateInv, CandidateTypeOK
  <2>2. Tied(u, d) /\ catWorker'[u] = d
    BY <1>1, <2>1 DEF CandidateInv, CallsTied
  <2> QED  BY <1>2, <2>2 DEF Tied, Held
<1>5. catWorker' \in [CandidateWorkers -> CandidateCall] /\ UNCHANGED queueVars
  BY <1>1 DEF CandidateInv, CandidateTypeOK
<1> QED  BY <1>2, <1>3, <1>4, <1>5, OneCallInv DEF CallsTied

-----------------------------------------------------------------------------
(* Steps that find, decide or end something.                                *)

\* The commit of complete(): the job succeeds and its candidate is there.
LEMMA CandidateCompleteStep ==
  ASSUME CandidateInv, NEW w \in CandidateWorkers, Complete(w)
  PROVE  CandidateInv'
<1>1. PICK d \in CandidateCall : d = catWorker[w]
  BY DEF CandidateInv, CandidateTypeOK
<1>2. Tied(w, d) /\ d.pc = "locked"
  BY <1>1 DEF CandidateInv, CallsTied, Complete
<1>3. PICK j \in CandidateJobs : j = d.of
  BY <1>2 DEF Tied
<1>4. Held(j, w) /\ d.attempt <= MaxCandidateAttempts
  BY <1>2, <1>3 DEF Tied
<1>5. UNCHANGED <<profile, actions, reviewing, contentQueued>>
  BY DEF Complete
<1>6. PICK c \in CandidateCall : /\ catWorker' = [catWorker EXCEPT ![w] = c]
                                 /\ c.pc = "idle" \/ Follows(c, d, "error")
  <2>1. CASE WorkerIdle(w)
    BY <2>1, IdleCall DEF WorkerIdle
  <2>2. CASE Fails(w, "transient")
    <3>1. catWorker' = [catWorker EXCEPT ![w] = Failed(d, "transient")]
      BY <1>1, <2>2 DEF Fails, Failed, CandidateInv, CandidateTypeOK
    <3>2. Follows(Failed(d, "transient"), d, "error")
      BY CandidateCallGoes
    <3>3. Failed(d, "transient") \in CandidateCall
      BY <3>2 DEF Follows
    <3> QED  BY <3>1, <3>2, <3>3
  <2> QED  BY <2>1, <2>2 DEF Complete
<1>7. CASE UNCHANGED <<catJob, found, candidate>>
  BY <1>1, <1>2, <1>5, <1>6, <1>7, CallOnly DEF Follows, queueVars
<1>8. CASE /\ found' = [found EXCEPT ![j] = @ + 1] /\ catJob' = [catJob EXCEPT ![j] = Left(j, "SUCCEEDED")]
           /\ \E e \in {"ELIGIBLE", "EXCLUDED"} : candidate' = [candidate EXCEPT ![j].eligibility = e]
  <2>1. PICK e \in {"ELIGIBLE", "EXCLUDED"} : candidate' = [candidate EXCEPT ![j].eligibility = e]
    BY <1>8
  <2>2. PICK row \in CandidateJobRow : /\ catJob' = [catJob EXCEPT ![j] = row] /\ row.status = "SUCCEEDED"
                                      /\ row.lockedBy = Nobody
    BY <1>8, Rows DEF CandidateInv
  <2>3. Tied(w, c)'
    <3>1. catJob'[j] = row
      BY <2>2 DEF CandidateInv, CandidateTypeOK
    <3> QED  BY <1>3, <1>4, <1>6, <2>2, <3>1 DEF Tied, Held, Follows
  <2>4. Alone(w, j) /\ Change(w, c, j, row)
    BY <1>4, <1>6, <2>2, HeldAlone DEF Change
  <2>5. /\ catJob' \in [CandidateJobs -> CandidateJobRow] /\ catWorker' \in [CandidateWorkers -> CandidateCall]
        /\ CallsTied' /\ RowsFine' /\ QueuedHasAttempts'
    BY <2>2, <2>3, <2>4, OneCall
  <2>6. found[j] = 0 /\ candidate[j].eligibility = "NONE" /\ candidate[j].decision = "UNREVIEWED"
    BY <1>4 DEF CandidateInv, FoundOnce, Held, FoundIsReviewed
  <2>7. /\ candidate' \in [CandidateJobs -> CandidateRow]
        /\ candidate'[j].eligibility = e /\ candidate'[j].decision = "UNREVIEWED"
        /\ \A i \in CandidateJobs : i # j => candidate'[i] = candidate[i]
    BY <2>1, <2>6 DEF CandidateInv, CandidateTypeOK, CandidateRow
  <2>8. /\ found' \in [CandidateJobs -> Nat] /\ found'[j] = 1 /\ catJob'[j] = row
        /\ \A i \in CandidateJobs : i # j => found'[i] = found[i] /\ catJob'[i] = catJob[i]
    BY <1>8, <2>2, <2>6 DEF CandidateInv, CandidateTypeOK
  <2>9. CandidateTypeOK'
    BY <1>5, <2>5, <2>7, <2>8 DEF CandidateInv, CandidateTypeOK
  <2>10. FoundOnce'
    BY <2>2, <2>7, <2>8 DEF CandidateInv, FoundOnce
  <2>11. \A i \in CandidateJobs : /\ candidate'[i].decision = candidate[i].decision
                                  /\ candidate'[i].eligibility = candidate[i].eligibility \/ i = j
    BY <2>6, <2>7
  <2>12. ActionsAgree'
    BY <1>5, <2>6, <2>7, <2>11 DEF CandidateInv, ActionsAgree
  <2>13. ContentForApproved'
    BY <1>5, <2>11 DEF CandidateInv, ContentForApproved
  <2>14. FoundIsReviewed'
    <3>1. \A i \in CandidateJobs : candidate[i].eligibility # "NONE" => candidate'[i].eligibility # "NONE"
      BY <2>7
    <3>2. \A v \in Reviewers : reviewing[v].of # Nobody => reviewing[v].of \in CandidateJobs
      BY DEF CandidateInv, CandidateTypeOK, Review
    <3> QED  BY <1>5, <2>11, <3>1, <3>2 DEF CandidateInv, FoundIsReviewed
  <2> QED  BY <2>5, <2>9, <2>10, <2>12, <2>13, <2>14 DEF CandidateInv
<1> QED  BY <1>1, <1>3, <1>7, <1>8 DEF Complete, JobOf

LEMMA EnqueueStep ==
  ASSUME CandidateInv, NEW j \in CandidateJobs, EnqueueCandidates(j) \/ SupersedeProfile(j)
  PROVE  CandidateInv'
<1>1. UNCHANGED <<catWorker, found, candidate, actions, reviewing, contentQueued>>
  BY DEF EnqueueCandidates, SupersedeProfile
<1>2. profile' \in [CandidateJobs -> BOOLEAN]
  BY DEF EnqueueCandidates, SupersedeProfile, CandidateInv, CandidateTypeOK
<1>3. /\ catJob' \in [CandidateJobs -> CandidateJobRow]
      /\ \A i \in CandidateJobs :
           \/ catJob'[i] = catJob[i]
           \/ /\ catJob[i].status = "ABSENT" /\ catJob'[i].status = "PENDING"
              /\ catJob'[i].attempts = 0
  <2>1. CASE UNCHANGED catJob
    BY <2>1 DEF CandidateInv, CandidateTypeOK
  <2>2. CASE EnqueueCandidates(j)
    <3>1. PICK old \in CandidateJobRow : old = catJob[j] /\ old.status = "ABSENT" /\ old.attempts = 0
      BY <2>2 DEF EnqueueCandidates, CandidateInv, CandidateTypeOK, RowsFine
    <3>2. PICK row \in CandidateJobRow : row.status = "PENDING" /\ row.attempts = 0
                                        /\ catJob' = [catJob EXCEPT ![j] = row]
      <4>1. [old EXCEPT !.status = "PENDING"] \in CandidateJobRow
        BY DEF CandidateJobRow
      <4> QED  BY <2>2, <3>1, <4>1 DEF EnqueueCandidates, CandidateJobRow
    <3> QED  BY <3>1, <3>2 DEF CandidateInv, CandidateTypeOK
  <2> QED  BY <2>1, <2>2 DEF SupersedeProfile
<1>4. CandidateTypeOK'
  BY <1>1, <1>2, <1>3 DEF CandidateInv, CandidateTypeOK
<1>5. RowsFine' /\ QueuedHasAttempts'
  BY <1>3, CandidateAssumption DEF CandidateInv, RowsFine, QueuedHasAttempts
<1>6. ASSUME NEW u \in CandidateWorkers PROVE Tied(u, catWorker[u])'
  <2>1. PICK d \in CandidateCall : d = catWorker[u]
    BY DEF CandidateInv, CandidateTypeOK
  <2>2. Tied(u, d) /\ catWorker'[u] = d
    BY <1>1, <2>1 DEF CandidateInv, CallsTied
  <2> QED  BY <1>3, <2>2 DEF Tied, Held
<1>7. FoundOnce'
  BY <1>1, <1>3 DEF CandidateInv, FoundOnce
<1>8. ActionsAgree' /\ ContentForApproved' /\ FoundIsReviewed'
  BY <1>1 DEF CandidateInv, ActionsAgree, ContentForApproved, FoundIsReviewed
<1> QED  BY <1>4, <1>5, <1>6, <1>7, <1>8 DEF CandidateInv, CallsTied

\* The calls and the rows of the jobs, which the review leaves alone.
LEMMA JobsStay ==
  ASSUME CandidateInv, UNCHANGED <<catJob, catWorker>>
  PROVE  RowsFine' /\ QueuedHasAttempts' /\ CallsTied'
<1>1. ASSUME NEW u \in CandidateWorkers PROVE Tied(u, catWorker[u])'
  <2>1. PICK d \in CandidateCall : d = catWorker[u]
    BY DEF CandidateInv, CandidateTypeOK
  <2>2. Tied(u, d) /\ catWorker'[u] = d
    BY <2>1 DEF CandidateInv, CallsTied
  <2> QED  BY <2>2 DEF Tied, Held
<1> QED  BY <1>1 DEF CallsTied, CandidateInv, RowsFine, QueuedHasAttempts

LEMMA ReadKeyStep ==
  ASSUME CandidateInv, NEW v \in Reviewers, NEW j \in CandidateJobs, NEW k \in DecisionKeys, NEW d \in Decisions,
         ReadKey(v, j, k, d)
  PROVE  CandidateInv'
<1>1. UNCHANGED <<catJob, catWorker, profile, found, candidate, actions, contentQueued>>
  BY DEF ReadKey
<1>2. PICK r \in Review : reviewing' = [reviewing EXCEPT ![v] = r] /\ r.of = j /\ r.key = k
  <2> DEFINE known == \E a \in actions : a.key = k
             r == [of |-> j, key |-> k, decision |-> d, prior |-> known]
  <2>1. known \in BOOLEAN
    BY Zenon
  <2>2. reviewing' = [reviewing EXCEPT ![v] = r]
    BY DEF ReadKey
  <2> HIDE DEF known
  <2>3. r \in Review /\ r.of = j /\ r.key = k
    BY <2>1 DEF Review
  <2> HIDE DEF r
  <2> QED  BY <2>2, <2>3
<1>3. reviewing' \in [Reviewers -> Review]
      /\ \A u \in Reviewers : reviewing'[u] = IF u = v THEN r ELSE reviewing[u]
  BY <1>2 DEF CandidateInv, CandidateTypeOK
<1>4. CandidateTypeOK'
  BY <1>1, <1>3 DEF CandidateInv, CandidateTypeOK
<1>5. FoundIsReviewed'
  BY <1>1, <1>2, <1>3 DEF CandidateInv, FoundIsReviewed, ReadKey
<1>6. FoundOnce' /\ ActionsAgree' /\ ContentForApproved'
  BY <1>1 DEF CandidateInv, FoundOnce, ActionsAgree, ContentForApproved
<1> QED  BY <1>1, <1>4, <1>5, <1>6, JobsStay DEF CandidateInv

\* A decision is written with its action and its content job.
LEMMA DecideStep ==
  ASSUME CandidateInv, NEW v \in Reviewers, Decide(v)
  PROVE  CandidateInv'
<1>1. PICK r \in Review : r = reviewing[v]
  BY DEF CandidateInv, CandidateTypeOK
<1>2. r.of \in CandidateJobs /\ r.key \in DecisionKeys /\ r.decision \in Decisions
      /\ candidate[r.of].eligibility # "NONE"
  BY <1>1 DEF Decide, Review, CandidateInv, FoundIsReviewed
<1>3. /\ UNCHANGED <<catJob, catWorker, profile, found>>
      /\ reviewing' \in [Reviewers -> Review]
      /\ \A u \in Reviewers : reviewing'[u] = reviewing[u] \/ reviewing'[u].of = Nobody
  <2>1. NoReview \in Review /\ NoReview.of = Nobody
    BY DEF NoReview, Review, Decisions
  <2> QED  BY <2>1 DEF Decide, CandidateInv, CandidateTypeOK
<1>4. CASE UNCHANGED <<candidate, contentQueued, actions>>
  <2>1. CandidateTypeOK'
    BY <1>3, <1>4 DEF CandidateInv, CandidateTypeOK
  <2>2. FoundIsReviewed'
    BY <1>3, <1>4 DEF CandidateInv, FoundIsReviewed
  <2>3. FoundOnce' /\ ActionsAgree' /\ ContentForApproved'
    BY <1>3, <1>4 DEF CandidateInv, FoundOnce, ActionsAgree, ContentForApproved
  <2> QED  BY <1>3, <2>1, <2>2, <2>3, JobsStay DEF CandidateInv
<1>5. CASE /\ Decidable(r)
           /\ candidate' = [candidate EXCEPT ![r.of].decision = r.decision]
           /\ contentQueued' = IF r.decision = "APPROVED" THEN contentQueued \cup {r.of} ELSE contentQueued
           /\ actions' = actions \cup {[key |-> r.key, of |-> r.of, decision |-> r.decision]}
  <2>1. PICK j \in CandidateJobs : j = r.of
    BY <1>2
  <2>2. /\ candidate' \in [CandidateJobs -> CandidateRow]
        /\ candidate'[j].decision = r.decision /\ candidate'[j].eligibility = candidate[j].eligibility
        /\ \A i \in CandidateJobs : i # j => candidate'[i] = candidate[i]
    BY <1>2, <1>5, <2>1 DEF CandidateInv, CandidateTypeOK, CandidateRow, Decisions
  <2>3. PICK a \in Action : /\ a.of = j /\ a.decision = r.decision
                            /\ actions' = actions \cup {a}
    <3> DEFINE a == [key |-> r.key, of |-> r.of, decision |-> r.decision]
    <3>1. a \in Action /\ a.of = j /\ a.decision = r.decision
      BY <1>2, <2>1 DEF Action
    <3>2. actions' = actions \cup {a}
      BY <1>5
    <3> HIDE DEF a
    <3> QED  BY <3>1, <3>2
  <2>4. /\ candidate[j].decision \in {"UNREVIEWED", r.decision} /\ r.decision \in Decisions
        /\ r.decision = "APPROVED" => candidate[j].eligibility = "ELIGIBLE"
    BY <1>2, <1>5, <2>1 DEF Decidable
  <2>5. contentQueued' = IF r.decision = "APPROVED" THEN contentQueued \cup {j} ELSE contentQueued
    BY <1>5, <2>1
  <2>6. CandidateTypeOK'
    BY <1>3, <2>2, <2>3, <2>5 DEF CandidateInv, CandidateTypeOK
  <2>7. FoundOnce'
    BY <1>3, <2>2 DEF CandidateInv, FoundOnce
  <2>8. ActionsAgree'
    <3>1. \A b \in actions : b.of = j => b.decision = r.decision
      BY <2>4 DEF CandidateInv, ActionsAgree, CandidateTypeOK, Action, Decisions
    <3>2. \A i \in CandidateJobs : \A b \in actions' : b.of = i => b.decision = candidate'[i].decision
      BY <2>2, <2>3, <3>1 DEF CandidateInv, ActionsAgree
    <3>3. \A i \in CandidateJobs : candidate'[i].decision = "APPROVED" => candidate'[i].eligibility = "ELIGIBLE"
      BY <2>2, <2>4 DEF CandidateInv, ActionsAgree
    <3>4. \A i \in CandidateJobs : candidate'[i].decision # "UNREVIEWED" => \E b \in actions' : b.of = i
      BY <2>2, <2>3 DEF CandidateInv, ActionsAgree
    <3> QED  BY <3>2, <3>3, <3>4 DEF ActionsAgree
  <2>9. ContentForApproved'
    BY <2>2, <2>4, <2>5 DEF CandidateInv, ContentForApproved, Decisions
  <2>10. FoundIsReviewed'
    <3>1. \A u \in Reviewers : reviewing'[u].of # Nobody => reviewing'[u] = reviewing[u] /\ reviewing[u].of \in CandidateJobs
      BY <1>3 DEF CandidateInv, CandidateTypeOK, Review
    <3>2. \A i \in CandidateJobs : candidate'[i].decision # "UNREVIEWED" => candidate'[i].eligibility # "NONE"
      BY <1>2, <2>1, <2>2 DEF CandidateInv, FoundIsReviewed
    <3>3. \A u \in Reviewers : reviewing'[u].of # Nobody => /\ candidate'[reviewing'[u].of].eligibility # "NONE"
                                                           /\ reviewing'[u].key \in DecisionKeys
      BY <2>2, <3>1 DEF CandidateInv, FoundIsReviewed
    <3> QED  BY <3>2, <3>3 DEF FoundIsReviewed
  <2> QED  BY <1>3, <2>6, <2>7, <2>8, <2>9, <2>10, JobsStay DEF CandidateInv
<1> QED  BY <1>1, <1>4, <1>5 DEF Decide

-----------------------------------------------------------------------------
LEMMA CandidateNextInv == CandidateInv /\ [CandidateNext]_candidateVars => CandidateInv'
<1> SUFFICES ASSUME CandidateInv, [CandidateNext]_candidateVars PROVE CandidateInv'
  OBVIOUS
<1>1. CASE \E j \in CandidateJobs : EnqueueCandidates(j) \/ SupersedeProfile(j)
  BY <1>1, EnqueueStep
<1>2. CASE \E j \in CandidateJobs : CandidateLeaseExpires(j) \/ CandidateFallsDue(j)
  BY <1>2, CandidateClockStep
<1>3. CASE \E w \in CandidateWorkers : LoadApprovedProfile(w) \/ FetchSnapshot(w) \/ LockCandidateJob(w)
                                      \/ CandidateWorkerCrash(w)
  BY <1>3, CandidateReadStep
<1>4. CASE \E w \in CandidateWorkers : Complete(w)
  BY <1>4, CandidateCompleteStep
<1>5. CASE \E w \in CandidateWorkers : HandleError(w)
  BY <1>5, CandidateErrorStep
<1>6. CASE \E w \in CandidateWorkers, j \in CandidateJobs : ClaimCandidates(w, j)
  BY <1>6, CandidateClaimStep
<1>7. CASE \E v \in Reviewers : Decide(v)
  BY <1>7, DecideStep
<1>8. CASE \E v \in Reviewers, j \in CandidateJobs, k \in DecisionKeys, d \in Decisions : ReadKey(v, j, k, d)
  BY <1>8, ReadKeyStep
<1>9. CASE UNCHANGED candidateVars
  <2>1. UNCHANGED <<catJob, catWorker>> /\ UNCHANGED queueVars
    BY <1>9 DEF candidateVars, queueVars
  <2>2. RowsFine' /\ QueuedHasAttempts' /\ CallsTied'
    BY <2>1, JobsStay
  <2>3. /\ catJob' \in [CandidateJobs -> CandidateJobRow] /\ catWorker' \in [CandidateWorkers -> CandidateCall]
    BY <2>1 DEF CandidateInv, CandidateTypeOK
  <2> QED  BY <2>1, <2>2, <2>3, OneCallInv
<1> QED  BY <1>1, <1>2, <1>3, <1>4, <1>5, <1>6, <1>7, <1>8, <1>9 DEF CandidateNext, CandidateWorkerStep

LEMMA CandidateInvHolds == CandidateSpec => []CandidateInv
BY CandidateInitInv, CandidateNextInv, PTL DEF CandidateSpec

\* Rows, calls, reviews and results keep their types.
THEOREM CandidateTypes == CandidateSpec => []CandidateTypeOK
<1>1. CandidateInv => CandidateTypeOK
  BY DEF CandidateInv
<1> QED  BY <1>1, CandidateInvHolds, PTL

\* A job has found something exactly when it has succeeded, and once; its
\* decision is that of its actions; content is queued for what was approved;
\* and a queued job has an attempt left.
THEOREM CandidateStagesAgree == CandidateSpec => []CandidatesAgree
<1>1. CandidateInv => CandidatesAgree
  BY DEF CandidateInv, CandidatesAgree
<1> QED  BY <1>1, CandidateInvHolds, PTL

-----------------------------------------------------------------------------
(* The snapshot of a product and its evaluation.                            *)

\* What a request may still do: a listing is read again only while it has pages
\* left, and the listings of later phases have not been read.
PagesLeft ==
  /\ \A l \in open \cap Listings : page[l] < MaxPages
  /\ phase = "lists" =>
       /\ open \subseteq Replies \cup {"variants", "styles"}
       /\ \A l \in Listings \ {"variants", "styles"} : page[l] = 0
  /\ phase = "stock" => open \subseteq RegionNames /\ page["prices"] = 0
  /\ phase = "prices" => open = {"prices"}
  /\ phase \in {"fetched", "failed", "evaluated"} => open = {}

\* A snapshot with live costs has a price for everything it could sell, and a
\* verdict is about what was read.
CostsRead == phase \in {"fetched", "evaluated"} /\ costSource = "PRINTFUL_LIVE" => CostKnown(read)
Stands == \E required \in RequiredForMargin(BaseCost + Seed.reserve) : verdict = Verdict(required)
VerdictStands == phase = "evaluated" => Stands

\* A product without variants is never priced.
SomethingToSell == phase \in {"stock", "prices", "fetched", "evaluated"} => read.variants # {}

SnapshotInv == SnapshotTypeOK /\ PagesLeft /\ CostsRead /\ VerdictStands /\ SomethingToSell

-----------------------------------------------------------------------------
\* A function to the naturals has a least value on a set that is not empty.
LEMMA LeastValue ==
  ASSUME NEW S, S # {}, NEW f \in [S -> Nat]
  PROVE  \E x \in S : \A y \in S : f[x] <= f[y]
<1> DEFINE V == {f[x] : x \in S}
<1>1. V \subseteq Nat /\ V # {}
  OBVIOUS
<1> HIDE DEF V
<1>2. PICK m \in V : \A n \in V : ~(<<n, m>> \in OpToRel(<, Nat))
  BY <1>1, NatLessThanWellFounded, WFMin
<1>3. \A n \in V : ~(<<n, m>> \in {ss \in Nat \X Nat : ss[1] < ss[2]})
  BY <1>2, Zenon DEF OpToRel
<1>4. \A n \in V : m <= n
  <2> SUFFICES ASSUME NEW n \in V, n < m PROVE FALSE
    BY <1>1
  <2> DEFINE p == <<n, m>>
  <2>1. p \in Nat \X Nat /\ p[1] < p[2]
    BY <1>1
  <2>2. p \notin {ss \in Nat \X Nat : ss[1] < ss[2]}
    BY <1>3
  <2> HIDE DEF p
  <2> QED  BY <2>1, <2>2
<1> QED  BY <1>4 DEF V

\* A function to the integers has a greatest value on a finite set: the one with
\* the fewest above it.
LEMMA GreatestValue ==
  ASSUME NEW S, S # {}, IsFiniteSet(S), NEW f \in [S -> Int]
  PROVE  \E x \in S : \A y \in S : f[x] >= f[y]
<1> DEFINE Above(x) == {y \in S : f[y] > f[x]}
           c == [x \in S |-> Cardinality(Above(x))]
<1>1. \A x \in S : Above(x) \in SUBSET S
  OBVIOUS
<1>2. \A x \in S : IsFiniteSet(Above(x)) /\ Cardinality(Above(x)) \in Nat
  <2> HIDE DEF Above
  <2> QED  BY <1>1, FS_Subset, FS_CardinalityType
<1>3. c \in [S -> Nat]
  BY <1>2
<1>4. PICK x \in S : \A y \in S : c[x] <= c[y]
  <2> HIDE DEF c
  <2> QED  BY <1>3, LeastValue
<1>5. \A y \in S : f[x] >= f[y]
  <2> SUFFICES ASSUME NEW y \in S, f[y] > f[x] PROVE FALSE
    OBVIOUS
  <2>1. Above(y) \in SUBSET Above(x) /\ y \in Above(x) /\ y \notin Above(y)
    OBVIOUS
  <2>2. Cardinality(Above(x)) <= Cardinality(Above(y))
    BY <1>4
  <2> HIDE DEF Above
  <2>3. Cardinality(Above(y)) <= Cardinality(Above(x)) /\ Cardinality(Above(x)) # Cardinality(Above(y))
    BY <1>2, <2>1, FS_Subset
  <2> QED  BY <1>2, <2>2, <2>3
<1> QED  BY <1>5

\* Without a variant, the catalogue is a sequence of variants still.
LEMMA WithdrawnTyped ==
  ASSUME catalogue \in Seq(Variants), NEW v
  PROVE  RemoveFirst(catalogue, v) \in Seq(Variants)
<1> DEFINE I == {i \in 1 .. Len(catalogue) : catalogue[i] = v}
<1>1. CASE I = {}
  BY <1>1 DEF RemoveFirst
<1>2. CASE I # {}
  <2>1. [i \in I |-> i] \in [I -> Nat]
    OBVIOUS
  <2>2. \E i \in I : \A k \in I : i <= k
    <3> DEFINE f == [i \in I |-> i]
    <3>1. f \in [I -> Nat] /\ \A i \in I : f[i] = i
      OBVIOUS
    <3> HIDE DEF f, I
    <3>2. PICK i \in I : \A k \in I : f[i] <= f[k]
      BY <1>2, <3>1, LeastValue
    <3> QED  BY <3>1, <3>2
  <2>3. Min(I) \in I
    BY <2>2 DEF Min
  <2>4. RemoveFirst(catalogue, v) = SubSeq(catalogue, 1, Min(I) - 1) \o SubSeq(catalogue, Min(I) + 1, Len(catalogue))
    BY <1>2 DEF RemoveFirst, RemoveAt, SelectInSeq
  <2> DEFINE m == Min(I)
  <2>5. m \in 1 .. Len(catalogue) /\ Len(catalogue) \in Nat
    BY <2>3
  <2> HIDE DEF m
  <2>6. SubSeq(catalogue, 1, m - 1) \in Seq(Variants) /\ SubSeq(catalogue, m + 1, Len(catalogue)) \in Seq(Variants)
    BY <2>5
  <2> QED  BY <2>4, <2>6 DEF m
<1> QED  BY <1>1, <1>2

-----------------------------------------------------------------------------
(* Prices and margins.                                                      *)

LEMMA DigitTyped ==
  ASSUME NEW p \in DecimalPrices, NEW i \in Nat \ {0}
  PROVE  Digit(p, i) \in 0 .. 9
BY SnapshotAssumption DEF Digit

\* The conversion of a price to minor units loses nothing.
LEMMA MinorIsExact ==
  ASSUME NEW p \in DecimalPrices, Representable(p)
  PROVE  /\ Minor(p) \in Nat \ {0} /\ Exact(p) \in Nat
         /\ InThousandths(Minor(p)) = Exact(p)
<1>1. Digit(p, 1) \in 0 .. 9 /\ Digit(p, 2) \in 0 .. 9 /\ Digit(p, 3) \in 0 .. 9 /\ p.whole \in Nat
  BY DigitTyped, SnapshotAssumption
<1>2. \A i \in Nat : i > Exponent => Digit(p, i) = 0
  BY SnapshotAssumption DEF Representable, Digit
<1>3. Minor(p) \in Nat => Minor(p) \in Nat \ {0}
  BY DEF Representable
<1>4. CASE Exponent = 0
  <2>1. Minor(p) = p.whole /\ \A m : InThousandths(m) = m * 1000
    BY <1>4 DEF Minor, InThousandths
  <2>2. Digit(p, 1) = 0 /\ Digit(p, 2) = 0 /\ Digit(p, 3) = 0
    BY <1>2, <1>4
  <2> QED  BY <1>1, <1>3, <2>1, <2>2 DEF Exact
<1>5. CASE Exponent = 2
  <2>1. Minor(p) = 100 * p.whole + 10 * Digit(p, 1) + Digit(p, 2) /\ \A m : InThousandths(m) = m * 10
    BY <1>5 DEF Minor, InThousandths
  <2>2. Digit(p, 3) = 0
    BY <1>2, <1>5
  <2> QED  BY <1>1, <1>3, <2>1, <2>2 DEF Exact
<1>6. CASE Exponent = 3
  <2>1. Minor(p) = Exact(p) /\ \A m : InThousandths(m) = m * 1
    BY <1>6 DEF Minor, InThousandths, Exact
  <2> QED  BY <1>1, <1>3, <2>1 DEF Exact
<1> QED  BY <1>4, <1>5, <1>6, SnapshotAssumption

\* The dearest variant sold sets the cost.
LEMMA LiveCostCovers ==
  ASSUME SnapshotTypeOK, CostKnown(read), NEW v \in Priced(read)
  PROVE  LiveCost(read) \in Nat \ {0} /\ Minor(read.prices[v]) <= LiveCost(read)
<1> DEFINE P == Priced(read)
           f == [w \in P |-> Minor(read.prices[w])]
           C == {Minor(read.prices[w]) : w \in P}
<1>1. P \in SUBSET Variants
  BY DEF Priced, Available, SnapshotTypeOK
<1>2. IsFiniteSet(P)
  BY <1>1, FS_Subset, SnapshotAssumption
<1>3. \A w \in P : read.prices[w] \in DecimalPrices /\ Representable(read.prices[w])
  BY <1>1 DEF CostKnown, SnapshotTypeOK
<1>4. \A w \in P : Minor(read.prices[w]) \in Nat \ {0}
  BY <1>3, MinorIsExact
<1>5. f \in [P -> Int] /\ P # {}
  BY <1>4
<1>6. PICK w \in P : \A u \in P : f[w] >= f[u]
  <2> HIDE DEF P, f
  <2> QED  BY <1>2, <1>5, GreatestValue
<1>7. Minor(read.prices[w]) \in C /\ \A n \in C : Minor(read.prices[w]) >= n
  BY <1>6
<1>8. LiveCost(read) \in C /\ \A n \in C : LiveCost(read) >= n
  BY <1>7 DEF LiveCost, Max
<1> QED  BY <1>4, <1>8

LEMMA DearerOf ==
  ASSUME NEW a \in Nat, NEW b \in Nat
  PROVE  Max({a, b}) \in Nat /\ Max({a, b}) >= a /\ Max({a, b}) >= b
<1>1. \E x \in {a, b} : \A y \in {a, b} : x >= y
  <2>1. CASE a >= b
    BY <2>1
  <2>2. CASE b >= a
    BY <2>2
  <2> QED  BY <2>1, <2>2
<1> QED  BY <1>1 DEF Max

\* Rounded up, every price the code may require has the target margin.
LEMMA RequiredSuffices ==
  ASSUME NEW cost \in Nat, profileOf.target \in 0 .. 99, NEW required \in RequiredForMargin(cost)
  PROVE  /\ required \in Nat
         /\ required * (100 - profileOf.target) >= 100 * cost
<1> DEFINE t == profileOf.target
           d == 100 - t
           a == 100 * cost + d - 1
<1>1. d \in Nat \ {0} /\ a \in Nat
  OBVIOUS
<1>2. required = a \div d \/ required = (a \div d) + 1
  BY <1>1 DEF RequiredForMargin
<1> HIDE DEF a
<1>3. a \div d \in Nat /\ a < ((a \div d) + 1) * d
  BY <1>1
<1>4. ((a \div d) + 1) * d = (a \div d) * d + d
  BY <1>1, <1>3
<1>5. (a \div d) * d \in Int
  BY <1>1, <1>3
<1>6. (a \div d) * d >= 100 * cost
  BY <1>1, <1>3, <1>4, <1>5 DEF a
<1>7. ((a \div d) + 1) * d >= 100 * cost
  BY <1>1, <1>4, <1>5, <1>6
<1> QED  BY <1>2, <1>3, <1>6, <1>7

\* What the verdict on live costs promises: the price lies in the range, and has
\* the target margin and the floor over the cost of the dearest variant.
LEMMA VerdictMargin ==
  ASSUME SnapshotTypeOK, CostKnown(read), costSource = "PRINTFUL_LIVE", read.variants # {},
         NEW required \in RequiredForMargin(BaseCost + Seed.reserve), Verdict(required).eligible
  PROVE  LET cost == LiveCost(read) + Seed.reserve
         IN /\ Verdict(required).retail \in Nat /\ profileOf.min <= Verdict(required).retail /\ Verdict(required).retail <= profileOf.max
            /\ 100 * (Verdict(required).retail - cost) >= profileOf.target * Verdict(required).retail
            /\ 100 * (Verdict(required).retail - cost) >= 30 * Verdict(required).retail
<1> DEFINE cost == BaseCost + Seed.reserve
           retail == Max({profileOf.min, required})
           margin == ((retail - cost) * 10000) \div retail
<1>1. Priced(read) # {}
  BY DEF Priced
<1>2. LiveCost(read) \in Nat \ {0}
  BY <1>1, LiveCostCovers
<1>3. cost = LiveCost(read) + Seed.reserve /\ cost \in Nat \ {0}
  BY <1>2, SnapshotAssumption DEF BaseCost
<1>4. profileOf.target \in 0 .. 100 /\ profileOf.min \in Nat /\ profileOf.max \in Nat
  BY SnapshotAssumption DEF SnapshotTypeOK
<1>5. \A reasons : ~Excluded(reasons).eligible
  BY DEF Excluded, NoVerdict
<1>0. profileOf.target = 100 => required = profileOf.max + 1
  BY <1>4 DEF RequiredForMargin
<1>6. /\ profileOf.target < 100 /\ required \in Nat /\ retail <= profileOf.max /\ ~(margin < MarginFloor)
      /\ Verdict(required).retail = retail
  <2> HIDE DEF cost, retail, margin
  <2>1. Verdict(required) = IF Exclusions # {} THEN Excluded(Exclusions)
     ELSE IF profileOf.max < profileOf.min THEN Excluded({"INVALID_PRICE_RANGE"})
     ELSE IF retail > profileOf.max THEN Excluded({"TARGET_MARGIN_UNACHIEVABLE"})
     ELSE IF margin < MarginFloor THEN Excluded({"MARGIN_BELOW_FLOOR"})
     ELSE [eligible |-> TRUE, reasons |-> {}, retail |-> retail, margin |-> margin, score |-> Score(margin)]
    BY DEF Verdict, cost, retail, margin
  <2>2. /\ Exclusions = {} /\ ~(profileOf.max < profileOf.min)
        /\ ~(retail > profileOf.max) /\ ~(margin < MarginFloor)
    BY <2>1, <1>5
  <2>3. Verdict(required).retail = retail
    BY <2>1, <2>2
  <2> HIDE DEF Verdict
  <2>4. required \in Nat
    BY <1>0, <1>3, <1>4, RequiredSuffices DEF cost
  <2>5. retail \in Nat /\ retail >= required
    BY <1>4, <2>4, DearerOf DEF retail
  <2> QED  BY <2>2, <2>3, <2>4, <2>5, <1>0, <1>4
<1>7. required \in Nat /\ required * (100 - profileOf.target) >= 100 * cost
  BY <1>3, <1>4, <1>6, RequiredSuffices
<1>8. retail \in Nat /\ retail >= profileOf.min /\ retail >= required
  BY <1>4, <1>7, DearerOf
<1> DEFINE t == profileOf.target
<1> HIDE DEF cost, retail, margin, t
<1>9. t \in 0 .. 99 /\ retail \in Nat /\ cost \in Nat \ {0}
  BY <1>3, <1>4, <1>6, <1>8 DEF t
<1>10. 100 * (retail - cost) >= t * retail
  <2>1. retail * (100 - t) >= required * (100 - t)
    BY <1>7, <1>8, <1>9
  <2>2. required * (100 - t) >= 100 * cost
    BY <1>7 DEF t
  <2>3. retail * (100 - t) = 100 * retail - t * retail /\ t * retail \in Int
    BY <1>9
  <2> QED  BY <2>1, <2>2, <2>3, <1>7, <1>9
<1>11. retail > 0
  <2> SUFFICES ASSUME retail = 0 PROVE FALSE
    BY <1>9
  <2> QED  BY <1>9, <1>10
<1>12. 100 * (retail - cost) >= 30 * retail
  <2> DEFINE a == (retail - cost) * 10000
  <2>1. a \in Int /\ margin = a \div retail /\ a \div retail \in Int /\ a >= (a \div retail) * retail
    BY <1>9, <1>11 DEF margin
  <2>2. a \div retail >= 3000
    BY <1>6, <2>1 DEF MarginFloor
  <2>3. (a \div retail) * retail >= 3000 * retail
    BY <2>1, <2>2, <1>9
  <2> QED  BY <2>1, <2>3, <1>9
<1> QED  BY <1>3, <1>4, <1>6, <1>8, <1>10, <1>12 DEF t

\* So it has over the cost of every variant sold, in exact prices.
LEMMA VerdictEarns ==
  ASSUME SnapshotTypeOK, CostKnown(read), costSource = "PRINTFUL_LIVE", read.variants # {},
         NEW required \in RequiredForMargin(BaseCost + Seed.reserve), Verdict(required).eligible,
         NEW v \in Available(read)
  PROVE  LET retail == InThousandths(Verdict(required).retail)
             cost == Exact(read.prices[v]) + InThousandths(Seed.reserve)
         IN /\ 100 * (retail - cost) >= profileOf.target * retail
            /\ 100 * (retail - cost) >= 30 * retail
<1> DEFINE t == profileOf.target
           retail == Verdict(required).retail
           cost == LiveCost(read) + Seed.reserve
           p == read.prices[v]
<1>1. v \in Variants /\ v \in Priced(read)
  BY DEF Available, Priced, SnapshotTypeOK
<1>2. p \in DecimalPrices /\ Representable(p)
  BY <1>1 DEF CostKnown, SnapshotTypeOK
<1>3. /\ LiveCost(read) \in Nat \ {0} /\ Minor(p) <= LiveCost(read)
      /\ Minor(p) \in Nat /\ Exact(p) \in Nat /\ InThousandths(Minor(p)) = Exact(p)
  BY <1>1, <1>2, LiveCostCovers, MinorIsExact
<1>4. t \in 0 .. 100 /\ Seed.reserve \in Nat
  BY SnapshotAssumption DEF SnapshotTypeOK
<1>5. retail \in Nat /\ 100 * (retail - cost) >= t * retail /\ 100 * (retail - cost) >= 30 * retail
  BY VerdictMargin
<1> HIDE DEF p, t, retail
<1>6. PICK k \in {1, 10, 1000} : \A m : InThousandths(m) = m * k
  BY SnapshotAssumption DEF InThousandths
<1>7. Exact(p) = Minor(p) * k
  BY <1>3, <1>6
<1>8. Exact(p) + InThousandths(Seed.reserve) <= k * cost
  BY <1>3, <1>4, <1>6, <1>7
<1> DEFINE m == t * retail
<1>9. m \in Int /\ t * InThousandths(retail) = k * m /\ 100 * (retail - cost) >= m
  BY <1>4, <1>5, <1>6
<1> HIDE DEF m
<1>10. InThousandths(Seed.reserve) \in Nat /\ InThousandths(retail) = k * retail /\ cost \in Nat
  BY <1>3, <1>4, <1>5, <1>6
<1> HIDE DEF cost
<1> DEFINE c == Exact(p) + InThousandths(Seed.reserve)
<1>11. /\ 100 * (InThousandths(retail) - c) >= t * InThousandths(retail)
       /\ 100 * (InThousandths(retail) - c) >= 30 * InThousandths(retail)
  BY <1>3, <1>5, <1>8, <1>9, <1>10
<1> QED  BY <1>11 DEF retail, p, t

-----------------------------------------------------------------------------
LEMMA NamesApart ==
  /\ \A l \in RegionNames : l \notin Replies \cup {"variants", "styles", "prices"}
  /\ Regions \subseteq RegionNames \/ profileOf \notin Profiles
  /\ Listings \cap Replies = {}
BY SnapshotAssumption DEF RegionNames, Regions, Replies, Listings

LEMMA SnapshotInitInv == SnapshotInit => SnapshotInv
<1> SUFFICES ASSUME SnapshotInit PROVE SnapshotInv
  OBVIOUS
<1> USE DEF SnapshotInit
<1>1. catalogue \in Seq(Variants)
  <2>1. PICK n \in 0 .. Cardinality(Variants) : catalogue \in [1 .. n -> Variants]
    OBVIOUS
  <2>2. n \in Nat
    BY <2>1, FS_CardinalityType, SnapshotAssumption
  <2> QED  BY <2>1, <2>2
<1>2. SnapshotTypeOK
  <2>1. read \in [variants : SUBSET Variants, stocked : [RegionNames -> SUBSET Variants],
                  prices : [Variants -> DecimalPrices \cup {NoPrice}]]
    OBVIOUS
  <2>2. changes \in 0 .. MaxChanges /\ open \subseteq Replies \cup Listings
    BY SnapshotAssumption DEF Listings
  <2>3. count \in [Listings -> Nat] /\ page \in [Listings -> 0 .. MaxPages]
    BY SnapshotAssumption
  <2> QED  BY <1>1, <2>1, <2>2, <2>3 DEF SnapshotTypeOK
<1>3. PagesLeft
  BY SnapshotAssumption DEF PagesLeft
<1> QED  BY <1>2, <1>3 DEF SnapshotInv, CostsRead, VerdictStands, SomethingToSell

\* What follows when a request is complete: the next phase starts with its
\* listings unread, and prices are complete when the snapshot is.
LEMMA DoneMoves ==
  ASSUME SnapshotInv, NEW r, NEW l \in open, RequestDone(r, l), read' = r, profileOf' = profileOf,
         phase \in {"lists", "stock", "prices"}, read.variants \subseteq r.variants,
         page' \in [Listings -> 0 .. MaxPages], \A k \in Listings \ {l} : page'[k] = page[k]
  PROVE  /\ phase' \in {"lists", "stock", "prices", "fetched", "failed"}
         /\ open' \subseteq Replies \cup Listings /\ costSource' = costSource
         /\ PagesLeft' /\ (phase' = "fetched" => CostKnown(r)) /\ SomethingToSell'
<1>1. /\ open \subseteq Replies \cup Listings /\ Regions \subseteq RegionNames /\ RegionNames \subseteq Listings
      /\ page \in [Listings -> 0 .. MaxPages] /\ profileOf \in Profiles
  BY NamesApart DEF SnapshotInv, SnapshotTypeOK, Listings
<1>2. PagesLeft
  BY DEF SnapshotInv
<1>3. "prices" \in Listings /\ "prices" \notin RegionNames /\ MaxPages \in Nat \ {0}
  BY NamesApart, SnapshotAssumption DEF Listings
<1>4. SomethingToSell'
  <2>1. phase = "lists" /\ phase' \notin {"lists", "failed"} => r.variants # {}
    BY DEF RequestDone, FetchThrows
  <2>2. phase # "lists" => r.variants # {}
    BY DEF SnapshotInv, SomethingToSell
  <2>3. phase' = "lists" \/ phase # "lists" \/ phase' \in {"stock", "prices", "failed"}
    BY DEF RequestDone, FetchThrows
  <2> QED  BY <2>1, <2>2, <2>3 DEF SomethingToSell
<1>5. CASE open # {l} /\ open' = open \ {l} /\ UNCHANGED <<phase, costSource>>
  <2>1. \A k \in open' \cap Listings : page'[k] < MaxPages
    BY <1>2, <1>5 DEF PagesLeft
  <2>2. phase = "lists" => \A k \in Listings \ {"variants", "styles"} : page'[k] = 0
    BY <1>1, <1>2, <1>5, NamesApart DEF PagesLeft, Replies, Listings
  <2>3. phase = "stock" => page'["prices"] = 0
    BY <1>2, <1>3, <1>5 DEF PagesLeft
  <2>4. phase # "prices"
    BY <1>2, <1>5 DEF PagesLeft
  <2> QED  BY <1>1, <1>2, <1>4, <1>5, <2>1, <2>2, <2>3, <2>4 DEF PagesLeft
<1>6. CASE FetchThrows
  BY <1>4, <1>6 DEF FetchThrows, PagesLeft
<1>7. CASE phase = "lists" /\ phase' = "stock" /\ open' = Regions /\ UNCHANGED costSource
  <2>1. \A k \in Listings \ {"variants", "styles"} : page'[k] = 0
    BY <1>1, <1>2, <1>7, NamesApart DEF PagesLeft, Replies, Listings
  <2>2. \A k \in RegionNames : k \in Listings \ {"variants", "styles"}
    BY <1>1, NamesApart
  <2> QED  BY <1>1, <1>3, <1>4, <1>7, <2>1, <2>2 DEF PagesLeft
<1>8. CASE phase \in {"lists", "stock"} /\ phase' = "prices" /\ open' = {"prices"} /\ UNCHANGED costSource
  <2>1. page["prices"] = 0 /\ l # "prices"
    BY <1>2, <1>3, <1>8 DEF PagesLeft, Replies
  <2>2. page'["prices"] = 0
    BY <1>3, <2>1
  <2> QED  BY <1>1, <1>3, <1>4, <1>8, <2>2 DEF PagesLeft
<1>9. CASE phase' = "fetched" /\ open' = {} /\ CostKnown(r) /\ UNCHANGED costSource
  BY <1>4, <1>9 DEF PagesLeft
<1> QED  BY <1>5, <1>6, <1>7, <1>8, <1>9 DEF RequestDone

LEMMA FetchPhases ==
  ASSUME SnapshotInv, open # {}
  PROVE  phase \in {"lists", "stock", "prices"}
BY DEF SnapshotInv, PagesLeft, SnapshotTypeOK

LEMMA ReplyStep == ASSUME SnapshotInv, NEW l \in Replies, Reply(l) PROVE SnapshotInv'
<1> USE DEF Reply, remoteCatalogue
<1>1. /\ l \in open /\ l \notin Listings /\ page' = page /\ read' = read
  BY NamesApart
<1>2. page' \in [Listings -> 0 .. MaxPages]
  BY <1>1 DEF SnapshotInv, SnapshotTypeOK
<1>3. /\ phase' \in {"lists", "stock", "prices", "fetched", "failed"}
      /\ open' \subseteq Replies \cup Listings /\ costSource' = costSource
      /\ PagesLeft' /\ (phase' = "fetched" => CostKnown(read)) /\ SomethingToSell'
  BY <1>1, <1>2, FetchPhases, DoneMoves
<1>4. SnapshotTypeOK'
  BY <1>2, <1>3 DEF SnapshotInv, SnapshotTypeOK, RegionNames, Listings
<1>5. CostsRead'
  BY <1>1, <1>3 DEF CostsRead, CostKnown, Priced, Available, Regions
<1> QED  BY <1>3, <1>4, <1>5 DEF SnapshotInv, VerdictStands

LEMMA FetchPageStep ==
  ASSUME SnapshotInv, NEW l \in Listings, NEW n \in 0 .. PageLimit, NEW total \in BOOLEAN, FetchPage(l, n, total)
  PROVE  SnapshotInv'
<1> DEFINE from == count[l]
           rows == IF l = "styles" THEN {} ELSE {catalogue[i] : i \in (from + 1) .. (from + n)}
           r == RowsRead(l, rows)
<1>1. /\ l \in open /\ (n = 0 \/ from + n <= Size(l)) /\ count' = [count EXCEPT ![l] = from + n]
      /\ page' = [page EXCEPT ![l] = @ + 1] /\ read' = r
      /\ \/ RequestDone(r, l)
         \/ FetchThrows
         \/ page[l] + 1 < MaxPages /\ UNCHANGED <<phase, open, costSource>>
      /\ UNCHANGED <<profileOf, verdict, catalogue, stock, price, changes>>
  BY DEF FetchPage, remoteCatalogue
<1>2. /\ catalogue \in Seq(Variants) /\ stock \in [RegionNames -> SUBSET Variants]
      /\ price \in [Variants -> DecimalPrices] /\ count \in [Listings -> Nat] /\ page \in [Listings -> 0 .. MaxPages]
      /\ read \in [variants : SUBSET Variants, stocked : [RegionNames -> SUBSET Variants],
                   prices : [Variants -> DecimalPrices \cup {NoPrice}]]
  BY DEF SnapshotInv, SnapshotTypeOK
<1>3. PageLimit \in Nat /\ MaxPages \in Nat \ {0}
  BY SnapshotAssumption
<1>4. rows \subseteq Variants
  <2> SUFFICES ASSUME l # "styles", NEW i \in (from + 1) .. (from + n) PROVE catalogue[i] \in Variants
    OBVIOUS
  <2>1. from \in Nat /\ n \in Nat /\ n # 0 /\ i \in Int /\ i >= 1 /\ i <= from + n
    BY <1>2, <1>3
  <2>2. from + n <= Len(catalogue)
    BY <1>1, <2>1 DEF Size
  <2> QED  BY <1>2, <2>1, <2>2
<1>5. r \in [variants : SUBSET Variants, stocked : [RegionNames -> SUBSET Variants],
             prices : [Variants -> DecimalPrices \cup {NoPrice}]]
  <2> HIDE DEF rows
  <2>1. CASE l = "variants"
    BY <1>2, <1>4, <2>1 DEF RowsRead
  <2>2. CASE l = "prices"
    BY <1>2, <1>4, <2>2 DEF RowsRead
  <2>3. CASE l = "styles"
    BY <1>2, <2>3 DEF RowsRead
  <2>4. CASE l \in RegionNames
    <3>1. l \notin {"variants", "styles", "prices"}
      BY <2>4, NamesApart
    <3>2. r = [read EXCEPT !.stocked[l] = @ \cup InStock(rows, l)]
      BY <3>1 DEF RowsRead
    <3>3. InStock(rows, l) \subseteq Variants
      BY <1>4 DEF InStock
    <3> HIDE DEF r
    <3>4. r = [read EXCEPT !.stocked = [read.stocked EXCEPT ![l] = @ \cup InStock(rows, l)]]
      BY <3>2
    <3>5. [read.stocked EXCEPT ![l] = @ \cup InStock(rows, l)] \in [RegionNames -> SUBSET Variants]
      BY <1>2, <2>4, <3>3
    <3> QED  BY <1>2, <3>4, <3>5
  <2> QED  BY <2>1, <2>2, <2>3, <2>4 DEF Listings
<1> HIDE DEF rows
<1>6. read.variants \subseteq r.variants
  BY <1>2, <1>4 DEF RowsRead
<1> HIDE DEF r
<1>7. l \in open /\ page[l] < MaxPages
  BY <1>1 DEF SnapshotInv, PagesLeft
<1>8. /\ count' \in [Listings -> Nat] /\ page' \in [Listings -> 0 .. MaxPages]
      /\ \A k \in Listings \ {l} : page'[k] = page[k]
  BY <1>1, <1>2, <1>3, <1>7
<1>9. phase \in {"lists", "stock", "prices"}
  BY <1>1, FetchPhases
<1>10. /\ phase' \in {"lists", "stock", "prices", "fetched", "failed"}
      /\ open' \subseteq Replies \cup Listings /\ costSource' = costSource
      /\ PagesLeft' /\ (phase' = "fetched" => CostKnown(r)) /\ SomethingToSell'
  <2>1. CASE RequestDone(r, l)
    BY <1>1, <1>6, <1>8, <1>9, <2>1, DoneMoves
  <2>2. CASE FetchThrows
    BY <2>2 DEF FetchThrows, PagesLeft, SomethingToSell
  <2>3. CASE page[l] + 1 < MaxPages /\ UNCHANGED <<phase, open, costSource>>
    <3>1. page'[l] < MaxPages
      BY <1>1, <1>2, <2>3
    <3>2. \A k \in open' \cap Listings : page'[k] < MaxPages
      BY <1>8, <2>3, <3>1 DEF SnapshotInv, PagesLeft
    <3>3. phase' = "lists" => \A k \in Listings \ {"variants", "styles"} : page'[k] = 0
      BY <1>1, <1>8, <2>3, NamesApart DEF SnapshotInv, PagesLeft
    <3>4. phase' = "stock" => page'["prices"] = 0
      BY <1>1, <1>8, <2>3, NamesApart DEF SnapshotInv, PagesLeft, Listings
    <3>5. SomethingToSell'
      BY <1>1, <1>6, <2>3 DEF SnapshotInv, SomethingToSell
    <3> QED  BY <1>9, <2>3, <3>2, <3>3, <3>4, <3>5 DEF SnapshotInv, PagesLeft, SnapshotTypeOK
  <2> QED  BY <1>1, <2>1, <2>2, <2>3
<1>11. SnapshotTypeOK'
  BY <1>1, <1>2, <1>5, <1>8, <1>10 DEF SnapshotInv, SnapshotTypeOK, RegionNames, Listings
<1>12. CostsRead'
  BY <1>1, <1>10 DEF CostsRead, CostKnown, Priced, Available, Regions
<1> QED  BY <1>10, <1>11, <1>12 DEF SnapshotInv, VerdictStands

LEMMA CandidateFailStep ==
  ASSUME SnapshotInv, NEW l \in open, NEW status \in BOOLEAN, RequestFails(l, status)
  PROVE  SnapshotInv'
<1> USE DEF RequestFails, FetchThrows, remoteCatalogue
<1>1. /\ phase' \in {"fetched", "failed"} /\ open' = {} /\ costSource' \in {costSource, "APPROVED_FALLBACK"}
      /\ (phase' = "fetched" => costSource' = "APPROVED_FALLBACK")
  OBVIOUS
<1>2. SnapshotTypeOK'
  BY <1>1 DEF SnapshotInv, SnapshotTypeOK, RegionNames, Listings
<1>3. PagesLeft' /\ CostsRead' /\ VerdictStands'
  BY <1>1 DEF PagesLeft, CostsRead, VerdictStands
<1>4. SomethingToSell'
  <2>1. phase' = "fetched" => phase = "prices"
    BY NamesApart DEF SnapshotInv, PagesLeft, SnapshotTypeOK, Replies
  <2> QED  BY <1>1, <2>1 DEF SnapshotInv, SomethingToSell
<1> QED  BY <1>2, <1>3, <1>4 DEF SnapshotInv

\* The verdict depends on what was read and on the profile alone.
LEMMA SameVerdict ==
  ASSUME UNCHANGED <<read, costSource, profileOf>>
  PROVE  /\ RequiredForMargin(BaseCost + Seed.reserve)' = RequiredForMargin(BaseCost + Seed.reserve)
         /\ \A required : Verdict(required)' = Verdict(required)
         /\ verdict' = verdict => Stands' = Stands
<1>1. Regions' = Regions
  BY DEF Regions
<1>2. Available(read)' = Available(read) /\ Priced(read)' = Priced(read)
  BY <1>1 DEF Available, Priced
<1>3. BaseCost' = BaseCost
  BY <1>2 DEF BaseCost, LiveCost
<1>4. Exclusions' = Exclusions
  BY <1>1 DEF Exclusions
<1>5. RequiredForMargin(BaseCost + Seed.reserve)' = RequiredForMargin(BaseCost + Seed.reserve)
  BY <1>3 DEF RequiredForMargin
<1>6. \A required : Verdict(required)' = Verdict(required)
  BY <1>2, <1>3, <1>4 DEF Verdict, Score
<1> QED  BY <1>5, <1>6 DEF Stands

LEMMA EvaluateStep == ASSUME SnapshotInv, Evaluate PROVE SnapshotInv'
<1> USE DEF Evaluate, remoteCatalogue
<1>1. SnapshotTypeOK'
  BY DEF SnapshotInv, SnapshotTypeOK, RegionNames, Listings
<1>2. PagesLeft'
  BY DEF SnapshotInv, PagesLeft
<1>3. CostsRead'
  BY DEF SnapshotInv, CostsRead, CostKnown, Priced, Available, Regions
<1>4. VerdictStands'
  <2>1. Stands'
    BY SameVerdict DEF Stands
  <2> QED  BY <2>1 DEF VerdictStands
<1> QED  BY <1>1, <1>2, <1>3, <1>4 DEF SnapshotInv, SomethingToSell

\* Whatever the catalogue becomes, the snapshot does not change.
LEMMA RemoteStep ==
  ASSUME SnapshotInv, NEW v \in Variants, Withdraw(v) \/ \E p \in DecimalPrices : Reprice(v, p)
  PROVE  SnapshotInv'
<1>1. /\ UNCHANGED <<stock, phase, open, count, page, read, costSource, profileOf, verdict>>
      /\ changes < MaxChanges /\ changes' = changes + 1
      /\ catalogue' = catalogue \/ catalogue' = RemoveFirst(catalogue, v)
      /\ price' = price \/ \E p \in DecimalPrices : price' = [price EXCEPT ![v] = p]
  BY DEF Withdraw, Reprice
<1>2. changes' \in 0 .. MaxChanges
  BY <1>1, SnapshotAssumption DEF SnapshotInv, SnapshotTypeOK
<1>3. catalogue' \in Seq(Variants) /\ price' \in [Variants -> DecimalPrices]
  BY <1>1, WithdrawnTyped DEF SnapshotInv, SnapshotTypeOK
<1>4. SnapshotTypeOK'
  BY <1>1, <1>2, <1>3 DEF SnapshotInv, SnapshotTypeOK, RegionNames, Listings
<1>5. PagesLeft' /\ CostsRead'
  BY <1>1 DEF SnapshotInv, PagesLeft, CostsRead, CostKnown, Priced, Available, Regions
<1>6. Stands' = Stands
  BY <1>1, SameVerdict
<1>7. VerdictStands'
  BY <1>1, <1>6 DEF SnapshotInv, VerdictStands
<1> QED  BY <1>1, <1>4, <1>5, <1>7 DEF SnapshotInv, SomethingToSell

LEMMA SnapshotNextInv == SnapshotInv /\ [SnapshotNext]_snapshotVars => SnapshotInv'
<1> SUFFICES ASSUME SnapshotInv, [SnapshotNext]_snapshotVars PROVE SnapshotInv'
  OBVIOUS
<1>1. CASE \E v \in Variants : Withdraw(v) \/ \E p \in DecimalPrices : Reprice(v, p)
  BY <1>1, RemoteStep
<1>2. CASE \E l \in Replies : Reply(l)
  BY <1>2, ReplyStep
<1>3. CASE \E l \in Listings, n \in 0 .. PageLimit, total \in BOOLEAN : FetchPage(l, n, total)
  BY <1>3, FetchPageStep
<1>4. CASE \E l \in Replies \cup Listings, status \in BOOLEAN : RequestFails(l, status)
  <2>1. PICK l \in Replies \cup Listings, status \in BOOLEAN : RequestFails(l, status)
    BY <1>4
  <2>2. l \in open
    BY <2>1 DEF RequestFails
  <2> QED  BY <2>1, <2>2, CandidateFailStep
<1>5. CASE Evaluate
  BY <1>5, EvaluateStep
<1>6. CASE UNCHANGED snapshotVars
  <2>1. SnapshotTypeOK' /\ PagesLeft' /\ CostsRead'
    BY <1>6 DEF snapshotVars, SnapshotInv, SnapshotTypeOK, RegionNames, Listings, PagesLeft, CostsRead, CostKnown,
                Priced, Available, Regions
  <2>2. Stands' = Stands
    BY <1>6, SameVerdict DEF snapshotVars
  <2> QED  BY <1>6, <2>1, <2>2 DEF snapshotVars, SnapshotInv, VerdictStands, SomethingToSell
<1> QED  BY <1>1, <1>2, <1>3, <1>4, <1>5, <1>6 DEF SnapshotNext

LEMMA SnapshotInvHolds == SnapshotSpec => []SnapshotInv
BY SnapshotInitInv, SnapshotNextInv, PTL DEF SnapshotSpec

\* Every variable of a snapshot keeps its type: no listing is read beyond its
\* last page.
THEOREM SnapshotTypes == SnapshotSpec => []SnapshotTypeOK
<1>1. SnapshotInv => SnapshotTypeOK
  BY DEF SnapshotInv
<1> QED  BY <1>1, SnapshotInvHolds, PTL

\* A product recommended on live costs earns the target margin and the floor on
\* every variant it is sold in, for every currency, price and margin, whatever
\* the catalogue does between the pages.
THEOREM EligibleEarns == SnapshotSpec => []EligibleEarnsMargin
<1>1. ASSUME SnapshotInv PROVE EligibleEarnsMargin
  <2> SUFFICES ASSUME phase = "evaluated", verdict.eligible, costSource = "PRINTFUL_LIVE"
               PROVE  /\ profileOf.min <= verdict.retail /\ verdict.retail <= profileOf.max
                      /\ \A v \in Available(read) :
                           LET retail == InThousandths(verdict.retail)
                               cost == Exact(read.prices[v]) + InThousandths(Seed.reserve)
                           IN /\ 100 * (retail - cost) >= profileOf.target * retail
                              /\ 100 * (retail - cost) >= 30 * retail
    BY DEF EligibleEarnsMargin
  <2>1. SnapshotTypeOK /\ CostKnown(read) /\ Stands /\ read.variants # {}
    BY <1>1 DEF SnapshotInv, CostsRead, VerdictStands, SomethingToSell
  <2>3. PICK required \in RequiredForMargin(BaseCost + Seed.reserve) : verdict = Verdict(required)
    BY <2>1 DEF Stands
  <2>2. profileOf.min <= verdict.retail /\ verdict.retail <= profileOf.max
    BY <2>1, <2>3, VerdictMargin
  <2> QED  BY <2>1, <2>2, <2>3, VerdictEarns
<1> QED  BY <1>1, SnapshotInvHolds, PTL
=============================================================================
