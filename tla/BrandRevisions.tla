--------------------------- MODULE BrandRevisions ---------------------------
(***************************************************************************)
(* Brand profile revisions and their generation jobs: the transactions of  *)
(* src/brand/postgres-store.ts with the row locks they take, the job queue *)
(* (src/jobs/postgres-generation-queue.ts) and the workers                 *)
(* (src/jobs/generation-worker.ts).  One workspace and its one profile.    *)
(***************************************************************************)
EXTENDS Naturals, FiniteSets

CONSTANTS
  MaxRevisions,       \* bound: revisions of the profile
  Keys,               \* onboarding idempotency keys
  Sessions,           \* request handlers with a transaction open
  Generators,         \* generation worker processes
  MaxGenerations,     \* GENERATION_MAX_ATTEMPTS
  None

Revisions == 1 .. MaxRevisions

ASSUME RevisionBounds == MaxRevisions \in Nat \ {0} /\ MaxGenerations \in Nat \ {0}
ASSUME NoneIsNothing ==
  /\ None \notin Revisions /\ None \notin Keys /\ None \notin Generators
  /\ None \notin {"GENERATING", "REVIEW_REQUIRED", "APPROVED", "SUPERSEDED", "GENERATION_FAILED"}
  /\ None \notin {"PENDING", "RUNNING", "SUCCEEDED", "FAILED"}
  /\ None \notin {"create", "edit", "approve", "EXHAUSTED", "TRANSIENT", "PERMANENT"}

VARIABLES
  revision,     \* brand_profile_revisions, by revision number
  genJob,       \* generation_jobs, by revision
  emitted,      \* outbox_events of the store, as <<topic, revision>>
  tx,           \* the transaction each session is in
  generator     \* the processOne call each worker is in

brandVars == <<revision, genJob, emitted, tx, generator>>

-----------------------------------------------------------------------------
Completed == {"REVIEW_REQUIRED", "APPROVED", "SUPERSEDED"}

RevisionRow == [status : Completed \cup {"GENERATING", "GENERATION_FAILED", None},
                key : Keys \cup {None},           \* onboarding_idempotency_key
                failure : {None, "EXHAUSTED", "TRANSIENT", "PERMANENT"}]

GenerationRow == [status : {None, "PENDING", "RUNNING", "SUCCEEDED", "FAILED"},
                  attempts : 0 .. MaxGenerations + 1,
                  lockedBy : Generators \cup {None},
                  leased : BOOLEAN,               \* lease_expires_at > now()
                  due : BOOLEAN]                  \* available_at <= now()

\* "row": holds the workspace (create) or the base revision (edit, approve);
\* "profile": holds the profile row as well and has read the next number.
Transaction == [kind : {None, "create", "edit", "approve"},
                stage : {"row", "profile"},
                key : Keys \cup {None},
                base : Revisions \cup {None},
                number : 0 .. MaxRevisions + 1]

GeneratorCall ==
  [pc : {"idle", "begin", "model", "fail", "ackSuccess", "ackFailure"},
   of : Revisions \cup {None},
   attempt : 0 .. MaxGenerations + 1,
   error : {None, "EXHAUSTED", "TRANSIENT", "PERMANENT"}]

\* Every column holds a value of its type; every session and worker is at a known step.
BrandTypeOK ==
  /\ revision \in [Revisions -> RevisionRow]
  /\ genJob \in [Revisions -> GenerationRow]
  /\ emitted \subseteq {"generation-requested", "review-required", "approved"} \X Revisions
  /\ tx \in [Sessions -> Transaction]
  /\ generator \in [Generators -> GeneratorCall]

NoRevision == [status |-> None, key |-> None, failure |-> None]
NoGeneration == [status |-> None, attempts |-> 0, lockedBy |-> None,
                 leased |-> FALSE, due |-> TRUE]
NoTransaction == [kind |-> None, stage |-> "row", key |-> None, base |-> None, number |-> 0]
IdleGenerator == [pc |-> "idle", of |-> None, attempt |-> 0, error |-> None]

BrandInit ==
  /\ revision = [r \in Revisions |-> NoRevision]
  /\ genJob = [r \in Revisions |-> NoGeneration]
  /\ emitted = {}
  /\ tx = [s \in Sessions |-> NoTransaction]
  /\ generator = [g \in Generators |-> IdleGenerator]

Status(r) == revision[r].status
Created == {r \in Revisions : Status(r) # None}
MaxRevision == Cardinality(Created)      \* revisions are never deleted
Close(s) == tx' = [tx EXCEPT ![s] = NoTransaction]

-----------------------------------------------------------------------------
\* createRevision locks the active workspace row first.  The audit event that an
\* edit or an approval inserts refers to that row, so it waits for the lock too.
WorkspaceHeld == \E t \in Sessions : tx[t].kind = "create"

LockWorkspace(s, k) ==
  /\ tx[s].kind = None /\ ~WorkspaceHeld
  /\ tx' = [tx EXCEPT ![s] = [NoTransaction EXCEPT !.kind = "create", !.key = k]]
  /\ UNCHANGED <<revision, genJob, emitted, generator>>

RowLocked(r) == \E t \in Sessions : tx[t].base = r
ProfileLocked == \E t \in Sessions : tx[t].kind # None /\ tx[t].stage = "profile"

\* createEditedRevision locks its base, which must be completed.
LockForEdit(s, r) ==
  /\ tx[s].kind = None /\ ~RowLocked(r)
  /\ Status(r) \in Completed
  /\ tx' = [tx EXCEPT ![s] = [NoTransaction EXCEPT !.kind = "edit", !.base = r]]
  /\ UNCHANGED <<revision, genJob, emitted, generator>>

\* approveRevision locks the revision, which must be waiting for review.
LockForApproval(s, r) ==
  /\ tx[s].kind = None /\ ~RowLocked(r)
  /\ Status(r) = "REVIEW_REQUIRED"
  /\ tx' = [tx EXCEPT ![s] = [NoTransaction EXCEPT !.kind = "approve", !.base = r]]
  /\ UNCHANGED <<revision, genJob, emitted, generator>>

\* Mutant: the number is read without the profile row having been locked.
ReadUnlocked(s) ==
  /\ tx[s].kind # None /\ tx[s].stage = "row"
  /\ tx' = [tx EXCEPT ![s].stage = "profile", ![s].number = MaxRevision + 1]
  /\ UNCHANGED <<revision, genJob, emitted, generator>>

\* The profile row is locked, by the upsert or by FOR UPDATE; under it the next
\* number is read, and a create finds the revision of its key, if there is one.
LockProfile(s) ==
  /\ tx[s].kind # None /\ tx[s].stage = "row" /\ ~ProfileLocked
  /\ tx' = [tx EXCEPT ![s].stage = "profile", ![s].number = MaxRevision + 1]
  /\ UNCHANGED <<revision, genJob, emitted, generator>>

KeyKnown(k) == \E r \in Revisions : revision[r].key = k

\* A repeated request is answered with the revision of its key, unchanged.
CommitCreate(s) ==
  LET n == tx[s].number
  IN  /\ tx[s].kind = "create" /\ tx[s].stage = "profile"
      /\ \/ KeyKnown(tx[s].key) /\ UNCHANGED <<revision, genJob, emitted>>
         \/ /\ ~KeyKnown(tx[s].key) /\ n \in Revisions
            /\ revision' = [revision EXCEPT ![n] =
                 [NoRevision EXCEPT !.status = "GENERATING", !.key = tx[s].key]]
            /\ genJob' = [genJob EXCEPT ![n] = [NoGeneration EXCEPT !.status = "PENDING"]]
            /\ emitted' = emitted \cup {<<"generation-requested", n>>}
      /\ Close(s) /\ UNCHANGED generator

CommitEdit(s) ==
  LET n == tx[s].number
  IN  /\ tx[s].kind = "edit" /\ tx[s].stage = "profile" /\ n \in Revisions /\ ~WorkspaceHeld
      /\ revision' = [revision EXCEPT ![n] = [NoRevision EXCEPT !.status = "REVIEW_REQUIRED"]]
      /\ emitted' = emitted \cup {<<"review-required", n>>}
      /\ Close(s) /\ UNCHANGED <<genJob, generator>>

\* The revisions the approval supersedes, whose rows its UPDATE locks in turn.
Superseded(s) == {r \in Revisions \ {tx[s].base} : Status(r) = "APPROVED"}
Blocked(s) == \E r \in Superseded(s) : RowLocked(r)

\* Mutant: the approval supersedes nothing but the revision it was based on.
ApproveOnly(s) ==
  /\ tx[s].kind = "approve" /\ tx[s].stage = "profile" /\ ~Blocked(s) /\ ~WorkspaceHeld
  /\ revision' = [revision EXCEPT ![tx[s].base].status = "APPROVED"]
  /\ emitted' = emitted \cup {<<"approved", tx[s].base>>}
  /\ Close(s) /\ UNCHANGED <<genJob, generator>>

CommitApproval(s) ==
  /\ tx[s].kind = "approve" /\ tx[s].stage = "profile" /\ ~Blocked(s) /\ ~WorkspaceHeld
  /\ revision' = [r \in Revisions |->
       IF r = tx[s].base THEN [revision[r] EXCEPT !.status = "APPROVED"]
       ELSE IF r \in Superseded(s) THEN [revision[r] EXCEPT !.status = "SUPERSEDED"]
       ELSE revision[r]]
  /\ emitted' = emitted \cup {<<"approved", tx[s].base>>}
  /\ Close(s) /\ UNCHANGED <<genJob, generator>>

\* ROLLBACK of a transaction that cannot go on: the caller was answered with an
\* error, its connection broke, or the database broke a cycle of lock waits.
Rollback(s) ==
  /\ tx[s].kind # None
  /\ Close(s)
  /\ UNCHANGED <<revision, genJob, emitted, generator>>

\* An approval waits for the approved revision, or an approval or edit for the
\* workspace, whose holder waits for the profile that the first one holds.
LockCycle(s, t) ==
  /\ tx[s].kind \in {"edit", "approve"} /\ tx[s].stage = "profile" /\ tx[t].stage = "row"
  /\ \/ tx[s].kind = "approve" /\ tx[t].base \in Superseded(s)
     \/ tx[t].kind = "create"

SessionStep(s) == LockProfile(s) \/ CommitCreate(s) \/ CommitEdit(s) \/ CommitApproval(s)

-----------------------------------------------------------------------------
Goto(g, pc) == generator' = [generator EXCEPT ![g].pc = pc]
GeneratorReturns(g) == generator' = [generator EXCEPT ![g] = IdleGenerator]
JobOf(g) == genJob[generator[g].of]
Fail(g, error) == generator' = [generator EXCEPT ![g].pc = "fail", ![g].error = error]

\* Mutant: an exhausted job is taken over again and again.
ClaimableGenerationForever(j) ==
  \/ j.status = "PENDING" /\ j.attempts < MaxGenerations /\ j.due
  \/ j.status = "RUNNING" /\ ~j.leased

ClaimableGeneration(j) ==
  \/ j.status = "PENDING" /\ j.attempts < MaxGenerations /\ j.due
  \/ j.status = "RUNNING" /\ j.attempts <= MaxGenerations /\ ~j.leased

\* claim; an attempt beyond the last one only closes the job (processOne).
ClaimGeneration(g, r) ==
  /\ generator[g].pc = "idle" /\ ClaimableGeneration(genJob[r])
  /\ genJob' = [genJob EXCEPT ![r].status = "RUNNING", ![r].attempts = @ + 1,
                              ![r].lockedBy = g, ![r].leased = TRUE]
  /\ generator' = [generator EXCEPT ![g] =
       IF genJob[r].attempts < MaxGenerations
         THEN [pc |-> "begin", of |-> r, attempt |-> genJob[r].attempts + 1, error |-> None]
         ELSE [pc |-> "fail", of |-> r, attempt |-> genJob[r].attempts + 1, error |-> "EXHAUSTED"]]
  /\ UNCHANGED <<revision, emitted, tx>>

\* generatePayload reads the revision and calls the model.  A revision that is
\* not generating is an error that markGenerationFailed refuses in its turn.
ReadRevision(g) ==
  /\ generator[g].pc = "begin"
  /\ \/ Status(generator[g].of) = "GENERATING" /\ Goto(g, "model")
     \/ Status(generator[g].of) = "GENERATING" /\ \E e \in {"TRANSIENT", "PERMANENT"} : Fail(g, e)
     \/ Status(generator[g].of) # "GENERATING" /\ GeneratorReturns(g)
  /\ UNCHANGED <<revision, genJob, emitted, tx>>

Settle(r, status) ==
  genJob' = [genJob EXCEPT ![r].status = status, ![r].lockedBy = None, ![r].leased = FALSE]

\* Mutant: a late answer of the model is stored whatever became of the revision.
CompleteAnyRevision(g) ==
  LET r == generator[g].of
  IN  /\ generator[g].pc = "model"
      /\ revision' = [revision EXCEPT ![r].status = "REVIEW_REQUIRED"]
      /\ Settle(r, "SUCCEEDED")
      /\ emitted' = emitted \cup {<<"review-required", r>>}
      /\ Goto(g, "ackSuccess") /\ UNCHANGED tx

\* completeGeneration settles the revision and its job, whoever runs the job now.
\* The commit may fail, or take effect without the worker learning of it.
CompleteGeneration(g) ==
  LET r == generator[g].of
  IN  /\ generator[g].pc = "model"
      /\ \/ /\ Status(r) = "GENERATING"
            /\ revision' = [revision EXCEPT ![r].status = "REVIEW_REQUIRED"]
            /\ Settle(r, "SUCCEEDED")
            /\ emitted' = emitted \cup {<<"review-required", r>>}
            /\ \/ Goto(g, "ackSuccess")
               \/ \E e \in {"TRANSIENT", "PERMANENT"} : Fail(g, e)
         \/ /\ UNCHANGED <<revision, genJob, emitted>>
            /\ \/ Status(r) # "GENERATING" /\ GeneratorReturns(g)
               \/ \E e \in {"TRANSIENT", "PERMANENT"} : Fail(g, e)
      /\ UNCHANGED tx

OwnsGeneration(g) == JobOf(g).status = "RUNNING" /\ JobOf(g).lockedBy = g

Retries(g) == generator[g].error = "TRANSIENT" /\ generator[g].attempt < MaxGenerations

\* Mutant: the retry matches the job by its id alone.
RetryById(g) ==
  /\ generator[g].pc = "fail" /\ Retries(g)
  /\ genJob' = [genJob EXCEPT ![generator[g].of].status = "PENDING",
       ![generator[g].of].due = FALSE, ![generator[g].of].lockedBy = None,
       ![generator[g].of].leased = FALSE]
  /\ GeneratorReturns(g) /\ UNCHANGED <<revision, emitted, tx>>

\* retry; one that matches no row, or fails, is reported by run().
RetryGeneration(g) ==
  /\ generator[g].pc = "fail" /\ Retries(g)
  /\ \/ /\ OwnsGeneration(g)
        /\ genJob' = [genJob EXCEPT ![generator[g].of].status = "PENDING",
             ![generator[g].of].due = FALSE, ![generator[g].of].lockedBy = None,
             ![generator[g].of].leased = FALSE]
     \/ UNCHANGED genJob
  /\ GeneratorReturns(g) /\ UNCHANGED <<revision, emitted, tx>>

\* failGeneration settles the revision and its job.  On a conflict or a database
\* error the call throws and the job is not acknowledged.
FailGeneration(g) ==
  LET r == generator[g].of
  IN  /\ generator[g].pc = "fail" /\ ~Retries(g)
      /\ \/ /\ Status(r) = "GENERATING"
            /\ revision' = [revision EXCEPT ![r].status = "GENERATION_FAILED",
                                            ![r].failure = generator[g].error]
            /\ Settle(r, "FAILED")
            /\ Goto(g, "ackFailure")
         \/ GeneratorReturns(g) /\ UNCHANGED <<revision, genJob>>
      /\ UNCHANGED <<emitted, tx>>

AcknowledgeSuccess(g) ==
  /\ generator[g].pc = "ackSuccess"
  /\ \/ (JobOf(g).status = "SUCCEEDED" \/ OwnsGeneration(g)) /\ Settle(generator[g].of, "SUCCEEDED")
     \/ UNCHANGED genJob
  /\ GeneratorReturns(g) /\ UNCHANGED <<revision, emitted, tx>>

AcknowledgeFailure(g) ==
  /\ generator[g].pc = "ackFailure"
  /\ \/ (JobOf(g).status = "FAILED" \/ OwnsGeneration(g)) /\ Settle(generator[g].of, "FAILED")
     \/ UNCHANGED genJob
  /\ GeneratorReturns(g) /\ UNCHANGED <<revision, emitted, tx>>

GeneratorCrash(g) ==
  /\ generator[g].pc # "idle"
  /\ GeneratorReturns(g) /\ UNCHANGED <<revision, genJob, emitted, tx>>

\* The worker stalled, or its heartbeats failed, for leaseSeconds.
GenerationLeaseExpires(r) ==
  /\ genJob[r].leased
  /\ genJob' = [genJob EXCEPT ![r].leased = FALSE]
  /\ UNCHANGED <<revision, emitted, tx, generator>>

\* extendLease refuses a lease that has expired, so it never revives one: it
\* only defers GenerationLeaseExpires.  The back-off of a retry passes.
GenerationFallsDue(r) ==
  /\ ~genJob[r].due
  /\ genJob' = [genJob EXCEPT ![r].due = TRUE]
  /\ UNCHANGED <<revision, emitted, tx, generator>>

GeneratorStep(g) ==
  \/ ReadRevision(g) \/ CompleteGeneration(g) \/ RetryGeneration(g) \/ FailGeneration(g)
  \/ AcknowledgeSuccess(g) \/ AcknowledgeFailure(g)

BrandNext ==
  \/ \E s \in Sessions : \/ SessionStep(s) \/ Rollback(s)
                         \/ \E k \in Keys : LockWorkspace(s, k)
                         \/ \E r \in Revisions : LockForEdit(s, r) \/ LockForApproval(s, r)
  \/ \E g \in Generators : \/ GeneratorStep(g) \/ GeneratorCrash(g)
                           \/ \E r \in Revisions : ClaimGeneration(g, r)
  \/ \E r \in Revisions : GenerationLeaseExpires(r) \/ GenerationFallsDue(r)

BrandSpec == BrandInit /\ [][BrandNext]_brandVars

(***************************************************************************)
(* Handlers run on, the database aborts a transaction of a lock cycle,     *)
(* workers poll, leases of dead workers expire.  The handlers in Queued    *)
(* get a row lock that is free again and again: PostgreSQL queues all of   *)
(* them, and a smaller set assumes less.  Nothing is assumed of crashes,   *)
(* of the model or of the database's errors.                               *)
(***************************************************************************)
BreakCycle(s) == (\E t \in Sessions : LockCycle(s, t)) /\ Rollback(s)

\* An insertion beyond the bound of the model is given up.
BeyondBound(s) ==
  /\ tx[s].number > MaxRevisions
  /\ tx[s].kind = "edit" \/ (tx[s].kind = "create" /\ ~KeyKnown(tx[s].key))

OrphanedGeneration(r) ==
  (\A g \in Generators : generator[g].of # r) /\ GenerationLeaseExpires(r)

BrandFairness(Queued) ==
  /\ \A s \in Sessions :
       /\ WF_brandVars(SessionStep(s)) /\ WF_brandVars(BreakCycle(s))
       /\ WF_brandVars(BeyondBound(s) /\ Rollback(s))
  /\ \A s \in Queued : SF_brandVars(SessionStep(s))
  /\ \A g \in Generators : WF_brandVars(GeneratorStep(g))
  /\ \A r \in Revisions :
       /\ WF_brandVars(\E g \in Generators : ClaimGeneration(g, r))
       /\ WF_brandVars(OrphanedGeneration(r)) /\ WF_brandVars(GenerationFallsDue(r))

-----------------------------------------------------------------------------
\* A revision and its generation job are settled together, by whichever worker
\* finishes: no revision is left without a job that will run, no job is run or
\* retried for a revision that is already settled, and only a revision whose
\* attempts are spent has failed for a reason that could have passed.
RevisionAndJobAgree ==
  \A r \in Revisions :
    /\ Status(r) = "GENERATING" => genJob[r].status \in {"PENDING", "RUNNING"}
    /\ Status(r) = "GENERATION_FAILED" => genJob[r].status = "FAILED"
    /\ Status(r) \in Completed => genJob[r].status \in {None, "SUCCEEDED"}
    /\ revision[r].failure \in {"TRANSIENT", "EXHAUSTED"} => genJob[r].attempts >= MaxGenerations

\* At most one revision of the profile is approved, however approvals and edits
\* of different revisions interleave: the transactions never run into the unique
\* index of the approved revisions (001_initial.sql:46), which is not modelled.
OneApproved ==
  \A q, r \in Revisions : Status(q) = "APPROVED" /\ Status(r) = "APPROVED" => q = r

\* What a transaction read under its locks is still so when it writes: the next
\* number is free, and an approval's revision is still waiting for review.
ReadsStayFresh ==
  \A s \in Sessions :
    /\ tx[s].kind # None /\ tx[s].stage = "profile" => tx[s].number = MaxRevision + 1
    /\ tx[s].kind = "approve" => Status(tx[s].base) = "REVIEW_REQUIRED"

\* The Postgres store implements the in-memory store.
History == INSTANCE RevisionHistory WITH
  history <- [r \in Revisions |-> Status(r)],
  requests <- [k \in Keys |-> IF KeyKnown(k) THEN CHOOSE r \in Revisions : revision[r].key = k
                                             ELSE None],
  outbox <- emitted
KeepsHistory == History!Spec

\* Closed by no worker: lost again while attempt MaxGenerations + 1 was to fail it.
GenerationStranded(r) == genJob[r].status = "RUNNING" /\ genJob[r].attempts > MaxGenerations

\* Time and again no revision is generating, through crashes, lost leases and
\* errors: as they are finitely many here, each of them leaves GENERATING.
GenerationSettles ==
  []<>(\A r \in Revisions : Status(r) = "GENERATING" => GenerationStranded(r))

\* No request waits for a lock for ever: what closes a cycle is an approval that
\* supersedes a revision another request has locked, or an edit or approval whose
\* audit event needs the workspace a create has locked; the database breaks both.
TransactionEnds(s) == tx[s].kind # None ~> tx[s].kind = None
=============================================================================
