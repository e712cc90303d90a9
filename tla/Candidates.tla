----------------------------- MODULE Candidates -----------------------------
(***************************************************************************)
(* Product candidates: the jobs an approved brand profile causes           *)
(* (src/candidates/postgres-job-store.ts), the workers that evaluate the   *)
(* catalogue (worker.ts) and the review of what they found                 *)
(* (postgres-review-service.ts).  A job finds at most one candidate.       *)
(***************************************************************************)
EXTENDS Naturals, FiniteSets

CONSTANTS
  CandidateJobs,         \* product_candidate_jobs, one per approved revision
  CandidateWorkers,
  MaxCandidateAttempts,  \* CANDIDATE_MAX_ATTEMPTS
  Reviewers,             \* request handlers in decide()
  DecisionKeys,          \* idempotency keys of decisions
  Nobody

ASSUME CandidateAssumption ==
  /\ MaxCandidateAttempts \in Nat \ {0}
  /\ Nobody \notin CandidateWorkers /\ Nobody \notin CandidateJobs
  /\ Nobody \notin DecisionKeys

VARIABLES
  catJob,         \* product_candidate_jobs
  catWorker,      \* the processOne call each worker is in
  profile,        \* is the revision of the job still APPROVED
  found,          \* committed catalog_snapshots with their candidate, per job
  candidate,      \* product_candidates: eligibility and decision
  actions,        \* product_candidate_actions
  reviewing,      \* the decide transaction each reviewer is in
  contentQueued   \* candidates with a product_content_jobs row

candidateVars == <<catJob, catWorker, profile, found, candidate, actions, reviewing, contentQueued>>
queueVars == <<profile, found, candidate, actions, reviewing, contentQueued>>

-----------------------------------------------------------------------------
Decisions == {"APPROVED", "REJECTED"}

CandidateJobRow ==
  [status : {"ABSENT", "PENDING", "RUNNING", "SUCCEEDED", "FAILED"},
   attempts : 0 .. MaxCandidateAttempts + 1,
   lockedBy : CandidateWorkers \cup {Nobody},
   leased : BOOLEAN,                              \* lease_expires_at > now()
   due : BOOLEAN]                                 \* available_at <= now()

\* "begun": complete() has begun its transaction, at a time when the lease was
\* live or not; "locked": it holds the job's row.
CandidateCall ==
  [pc : {"idle", "exhausted", "profile", "catalog", "begun", "locked", "error"},
   of : CandidateJobs \cup {Nobody},
   attempt : 0 .. MaxCandidateAttempts + 1,
   live : BOOLEAN,
   error : {"none", "connection", "rateLimit", "transient", "permanent"}]

CandidateRow == [eligibility : {"NONE", "ELIGIBLE", "EXCLUDED"},
                 decision : {"UNREVIEWED"} \cup Decisions]

Action == [key : DecisionKeys, of : CandidateJobs, decision : Decisions]

Review == [of : CandidateJobs \cup {Nobody},
           key : DecisionKeys \cup {Nobody},
           decision : Decisions,
           prior : BOOLEAN]                       \* the key was found

\* Every column holds a value of its type; every worker and reviewer is at a known step.
CandidateTypeOK ==
  /\ catJob \in [CandidateJobs -> CandidateJobRow]
  /\ catWorker \in [CandidateWorkers -> CandidateCall]
  /\ profile \in [CandidateJobs -> BOOLEAN]
  /\ found \in [CandidateJobs -> Nat]
  /\ candidate \in [CandidateJobs -> CandidateRow]
  /\ actions \subseteq Action
  /\ reviewing \in [Reviewers -> Review]
  /\ contentQueued \subseteq CandidateJobs

IdleCandidateWorker == [pc |-> "idle", of |-> Nobody, attempt |-> 0, live |-> FALSE, error |-> "none"]
NoReview == [of |-> Nobody, key |-> Nobody, decision |-> "REJECTED", prior |-> FALSE]

CandidateInit ==
  /\ catJob = [j \in CandidateJobs |-> [status |-> "ABSENT", attempts |-> 0, lockedBy |-> Nobody,
                                        leased |-> FALSE, due |-> TRUE]]
  /\ catWorker = [w \in CandidateWorkers |-> IdleCandidateWorker]
  /\ profile = [j \in CandidateJobs |-> FALSE]
  /\ found = [j \in CandidateJobs |-> 0]
  /\ candidate = [j \in CandidateJobs |-> [eligibility |-> "NONE", decision |-> "UNREVIEWED"]]
  /\ actions = {} /\ contentQueued = {}
  /\ reviewing = [v \in Reviewers |-> NoReview]

At(w, pc) == catWorker' = [catWorker EXCEPT ![w].pc = pc]
Fails(w, error) == catWorker' = [catWorker EXCEPT ![w].pc = "error", ![w].error = error]
WorkerIdle(w) == catWorker' = [catWorker EXCEPT ![w] = IdleCandidateWorker]
JobOf(w) == catWorker[w].of

-----------------------------------------------------------------------------
\* The event consumer queues the job of an approved revision, once per event.
EnqueueCandidates(j) ==
  /\ catJob[j].status = "ABSENT"
  /\ catJob' = [catJob EXCEPT ![j].status = "PENDING"]
  /\ profile' = [profile EXCEPT ![j] = TRUE]
  /\ UNCHANGED <<catWorker, found, candidate, actions, reviewing, contentQueued>>

\* Another revision of the brand is approved.
SupersedeProfile(j) ==
  /\ profile[j]
  /\ profile' = [profile EXCEPT ![j] = FALSE]
  /\ UNCHANGED <<catJob, catWorker, found, candidate, actions, reviewing, contentQueued>>

\* FOR UPDATE SKIP LOCKED passes over a row complete() holds.
Locked(j) == \E w \in CandidateWorkers : catWorker[w].pc = "locked" /\ JobOf(w) = j

CandidateClaimable(j) ==
  /\ ~Locked(j)
  /\ \/ catJob[j].status = "PENDING" /\ catJob[j].attempts < MaxCandidateAttempts /\ catJob[j].due
     \/ catJob[j].status = "RUNNING" /\ catJob[j].attempts <= MaxCandidateAttempts /\ ~catJob[j].leased

ClaimCandidates(w, j) ==
  /\ catWorker[w].pc = "idle" /\ CandidateClaimable(j)
  /\ catJob' = [catJob EXCEPT ![j].status = "RUNNING", ![j].attempts = @ + 1,
                              ![j].lockedBy = w, ![j].leased = TRUE]
  /\ catWorker' = [catWorker EXCEPT ![w] =
       [IdleCandidateWorker EXCEPT !.pc = IF catJob[j].attempts < MaxCandidateAttempts
                                            THEN "profile" ELSE "exhausted",
                                   !.of = j, !.attempt = catJob[j].attempts + 1]]
  /\ UNCHANGED queueVars

\* loadApprovedProfile refuses (422) a revision that is no longer approved; the
\* query itself may fail.
LoadApprovedProfile(w) ==
  /\ catWorker[w].pc = "profile"
  /\ \/ IF profile[JobOf(w)] THEN At(w, "catalog") ELSE Fails(w, "permanent")
     \/ Fails(w, "transient")
  /\ UNCHANGED <<catJob, queueVars>>

\* forWorkspace, fetchSnapshot and the evaluation, which has no effect.
FetchSnapshot(w) ==
  /\ catWorker[w].pc = "catalog"
  /\ \/ catWorker' = [catWorker EXCEPT ![w].pc = "begun", ![w].live = catJob[JobOf(w)].leased]
     \/ \E e \in {"connection", "rateLimit", "transient", "permanent"} : Fails(w, e)
  /\ UNCHANGED <<catJob, queueVars>>

OwnsCandidateJob(w) == catJob[JobOf(w)].status = "RUNNING" /\ catJob[JobOf(w)].lockedBy = w

\* complete() locks the row if the worker still owns the job.
LockCandidateJob(w) ==
  /\ catWorker[w].pc = "begun" /\ ~Locked(JobOf(w))
  /\ IF OwnsCandidateJob(w) THEN At(w, "locked") ELSE Fails(w, "transient")
  /\ UNCHANGED <<catJob, queueVars>>

Left(j, status) == [catJob[j] EXCEPT !.status = status, !.lockedBy = Nobody, !.leased = FALSE]

\* Mutant: the results are committed before the job is found not to match.
CommitResults(w) ==
  LET j == JobOf(w)
  IN  /\ catWorker[w].pc = "locked"
      /\ found' = [found EXCEPT ![j] = @ + 1]
      /\ \E e \in {"ELIGIBLE", "EXCLUDED"} : candidate' = [candidate EXCEPT ![j].eligibility = e]
      /\ \/ catWorker[w].live /\ catJob' = [catJob EXCEPT ![j] = Left(j, "SUCCEEDED")] /\ WorkerIdle(w)
         \/ ~catWorker[w].live /\ Fails(w, "transient") /\ UNCHANGED catJob
      /\ UNCHANGED <<profile, actions, reviewing, contentQueued>>

\* Snapshot, candidates and job in one transaction.  Its now() is the time it
\* began: a lease that had run out by then rolls everything back, one that runs
\* out later does not.  The commit may fail, before or after its effect.
Complete(w) ==
  LET j == JobOf(w)
  IN  /\ catWorker[w].pc = "locked"
      /\ \/ /\ catWorker[w].live
            /\ found' = [found EXCEPT ![j] = @ + 1]
            /\ \E e \in {"ELIGIBLE", "EXCLUDED"} :
                 candidate' = [candidate EXCEPT ![j].eligibility = e]
            /\ catJob' = [catJob EXCEPT ![j] = Left(j, "SUCCEEDED")]
            /\ WorkerIdle(w) \/ Fails(w, "transient")
         \/ Fails(w, "transient") /\ UNCHANGED <<catJob, found, candidate>>
      /\ UNCHANGED <<profile, actions, reviewing, contentQueued>>

Defers(w) == catWorker[w].error \in {"connection", "rateLimit"}
Tries(w) == catWorker[w].error = "transient" /\ catWorker[w].attempt < MaxCandidateAttempts

\* deferConnection and deferRateLimit give the attempt back.
Deferred(j) == [Left(j, "PENDING") EXCEPT !.due = FALSE,
                                          !.attempts = IF @ = 0 THEN 0 ELSE @ - 1]

\* The catch block: defer, retry or fail.  Each matches the job by its owner;
\* one that matches none, or fails, is reported by run().
HandleError(w) ==
  LET j == JobOf(w)
  IN  /\ catWorker[w].pc \in {"error", "exhausted"}
      /\ \/ OwnsCandidateJob(w) /\ Defers(w) /\ catJob' = [catJob EXCEPT ![j] = Deferred(j)]
         \/ OwnsCandidateJob(w) /\ Tries(w)
              /\ catJob' = [catJob EXCEPT ![j] = [Left(j, "PENDING") EXCEPT !.due = FALSE]]
         \/ OwnsCandidateJob(w) /\ ~Defers(w) /\ ~Tries(w)
              /\ catJob' = [catJob EXCEPT ![j] = Left(j, "FAILED")]
         \/ UNCHANGED catJob
      /\ WorkerIdle(w) /\ UNCHANGED queueVars

CandidateWorkerCrash(w) ==
  /\ catWorker[w].pc # "idle"
  /\ WorkerIdle(w) /\ UNCHANGED <<catJob, queueVars>>

\* extendLease keeps this from happening while the worker's heartbeat succeeds.
CandidateLeaseExpires(j) ==
  /\ catJob[j].leased
  /\ catJob' = [catJob EXCEPT ![j].leased = FALSE]
  /\ UNCHANGED <<catWorker, queueVars>>

CandidateFallsDue(j) ==
  /\ ~catJob[j].due
  /\ catJob' = [catJob EXCEPT ![j].due = TRUE]
  /\ UNCHANGED <<catWorker, queueVars>>

-----------------------------------------------------------------------------
\* decide() looks for its idempotency key before it locks the candidate.
ReadKey(v, j, k, d) ==
  /\ reviewing[v] = NoReview
  /\ candidate[j].eligibility # "NONE"
  /\ \A a \in actions : a.key = k => a.of = j /\ a.decision = d     \* else IDEMPOTENCY_CONFLICT
  /\ reviewing' = [reviewing EXCEPT ![v] =
       [of |-> j, key |-> k, decision |-> d, prior |-> \E a \in actions : a.key = k]]
  /\ UNCHANGED <<catJob, catWorker, profile, found, candidate, actions, contentQueued>>

Decidable(r) ==
  /\ r.decision = "APPROVED" => candidate[r.of].eligibility = "ELIGIBLE"
  /\ candidate[r.of].decision \in {"UNREVIEWED", r.decision}

\* product_candidate_actions.idempotency_key is unique: the later of two
\* concurrent decisions with one key fails and is rolled back.
KeyFree(r) == \A a \in actions : a.key # r.key

\* The rest of decide(), under the lock of the candidate's row: the decision, the
\* content job of an approval and the action, or an error that changes nothing.
Decide(v) ==
  LET r == reviewing[v]
  IN  /\ r.of # Nobody
      /\ IF ~r.prior /\ Decidable(r) /\ KeyFree(r)
           THEN /\ candidate' = [candidate EXCEPT ![r.of].decision = r.decision]
                /\ contentQueued' = IF r.decision = "APPROVED" THEN contentQueued \cup {r.of}
                                                               ELSE contentQueued
                /\ actions' = actions \cup {[key |-> r.key, of |-> r.of, decision |-> r.decision]}
           ELSE UNCHANGED <<candidate, contentQueued, actions>>
      /\ reviewing' = [reviewing EXCEPT ![v] = NoReview]
      /\ UNCHANGED <<catJob, catWorker, profile, found>>

CandidateWorkerStep(w) ==
  LoadApprovedProfile(w) \/ FetchSnapshot(w) \/ LockCandidateJob(w) \/ Complete(w) \/ HandleError(w)

CandidateNext ==
  \/ \E j \in CandidateJobs : \/ EnqueueCandidates(j) \/ SupersedeProfile(j)
                              \/ CandidateLeaseExpires(j) \/ CandidateFallsDue(j)
  \/ \E w \in CandidateWorkers : \/ CandidateWorkerStep(w) \/ CandidateWorkerCrash(w)
                                 \/ \E j \in CandidateJobs : ClaimCandidates(w, j)
  \/ \E v \in Reviewers : \/ Decide(v)
                          \/ \E j \in CandidateJobs, k \in DecisionKeys, d \in Decisions : ReadKey(v, j, k, d)

CandidateSpec == CandidateInit /\ [][CandidateNext]_candidateVars

\* Workers poll, their calls return, time passes; nothing is assumed of crashes,
\* of Printful, of the reviewers or of the database's errors.
CandidateFairness ==
  /\ \A w \in CandidateWorkers : WF_candidateVars(CandidateWorkerStep(w))
  /\ \A j \in CandidateJobs :
       /\ WF_candidateVars(\E w \in CandidateWorkers : ClaimCandidates(w, j))
       /\ WF_candidateVars(CandidateFallsDue(j))
       /\ WF_candidateVars((\A w \in CandidateWorkers : JobOf(w) # j) /\ CandidateLeaseExpires(j))

-----------------------------------------------------------------------------
\* A job has candidates to review exactly when it has succeeded, and then those
\* of one worker: what a worker that lost the job has found is never added.
FoundOnce ==
  \A j \in CandidateJobs :
    /\ found[j] = IF catJob[j].status = "SUCCEEDED" THEN 1 ELSE 0
    /\ candidate[j].eligibility # "NONE" <=> found[j] = 1

\* The decision of a candidate is what every recorded action says, under any
\* interleaving of reviewers and repeated requests; only eligible ones are approved.
ActionsAgree ==
  \A j \in CandidateJobs :
    /\ \A a \in actions : a.of = j => a.decision = candidate[j].decision
    /\ candidate[j].decision = "APPROVED" => candidate[j].eligibility = "ELIGIBLE"
    /\ candidate[j].decision # "UNREVIEWED" => \E a \in actions : a.of = j

\* Content is written for the approved candidates and for no other.
ContentForApproved == contentQueued = {j \in CandidateJobs : candidate[j].decision = "APPROVED"}

\* An outage of the connection or of the provider's rate limit costs no attempt:
\* a job that has never been lost has attempts left whenever it is queued.
QueuedHasAttempts ==
  \A j \in CandidateJobs : catJob[j].status = "PENDING" => catJob[j].attempts < MaxCandidateAttempts

\* What a job found, what was decided of it and what was queued for it agree.
CandidatesAgree == FoundOnce /\ ActionsAgree /\ ContentForApproved /\ QueuedHasAttempts

\* Closed by no worker: lost again while attempt MaxCandidateAttempts + 1 was to fail it.
CandidateStranded(j) == catJob[j].status = "RUNNING" /\ catJob[j].attempts > MaxCandidateAttempts

\* A running job ends or goes back to the queue, whatever becomes of its worker.
CandidatesSettle ==
  \A j \in CandidateJobs :
    catJob[j].status = "RUNNING" ~> catJob[j].status # "RUNNING" \/ CandidateStranded(j)
=============================================================================
