---------------------------- MODULE ProductContent ----------------------------
(***************************************************************************)
(* Product content: the job queue (src/content/postgres-job-store.ts), the *)
(* workers that write it (worker.ts) and the editors who revise and        *)
(* approve it (review-service.ts).                                         *)
(***************************************************************************)
EXTENDS CatalogueState

writerFrame == <<design, passed, mockJob, mockOrder, snapshot, pubJob, product,
                 renderer, publisher, editor>>
WriterAt(w, pc) == writer' = [writer EXCEPT ![w].pc = pc]
WriterFails(w, e) == writer' = [writer EXCEPT ![w] = Failing(@, e)]
WriterRests(w) == writer' = [writer EXCEPT ![w] = NoCall]

\* Mutant: an exhausted job is taken over again and again.
ContentClaimableForever(j) ==
  \/ j.status = "PENDING" /\ j.attempts < MaxTries /\ j.due
  \/ j.status = "RUNNING" /\ ~j.leased

ContentClaimable(j) ==
  \/ j.status = "PENDING" /\ j.attempts < MaxTries /\ j.due
  \/ j.status = "RUNNING" /\ j.attempts <= MaxTries /\ ~j.leased

\* An attempt beyond the last one only closes the job.
ClaimContent(w) ==
  /\ writer[w].pc = "idle" /\ ContentClaimable(contentJob)
  /\ contentJob' = Taken(contentJob, w)
  /\ writer' = [writer EXCEPT ![w] =
       IF contentJob.attempts < MaxTries THEN CallOn(1, contentJob)
       ELSE Failing(CallOn(1, contentJob), "permanent")]
  /\ UNCHANGED <<content, writerFrame>>

\* loadContext finds the candidate, whose approval is final; the model answers,
\* and its answer fits the schema and the candidate's price or is refused.
GenerateContent(w) ==
  /\ writer[w].pc = "work"
  /\ WriterAt(w, "done") \/ \E e \in {"transient", "permanent"} : WriterFails(w, e)
  /\ UNCHANGED <<contentJob, content, writerFrame>>

\* The content, its first revision and the job in one transaction, if the worker
\* holds a live lease.  The commit may fail, before or after its effect.
CompleteContent(w) ==
  /\ writer[w].pc = "done"
  /\ \/ /\ Holds(contentJob, w) /\ contentJob.leased /\ content[1] = "NONE"
        /\ content' = [content EXCEPT ![1] = "DRAFT"]
        /\ contentJob' = Freed(contentJob, "SUCCEEDED")
        /\ WriterRests(w) \/ WriterFails(w, "transient")
     \/ WriterFails(w, "transient") /\ UNCHANGED <<content, contentJob>>
  /\ UNCHANGED writerFrame

\* retry or fail, whose result nobody reads.
HandleContentError(w) ==
  LET retries == writer[w].error = "transient" /\ writer[w].attempt < MaxTries
  IN  /\ writer[w].pc = "error"
      /\ \/ Holds(contentJob, w) /\ retries /\ contentJob' = Later(contentJob, "PENDING")
         \/ Holds(contentJob, w) /\ ~retries /\ contentJob' = Freed(contentJob, "FAILED")
         \/ UNCHANGED contentJob
      /\ WriterRests(w) /\ UNCHANGED <<content, writerFrame>>

\* Leases run out and back-offs pass.
ContentLeaseExpires ==
  /\ contentJob.leased /\ contentJob' = [contentJob EXCEPT !.leased = FALSE]
  /\ UNCHANGED <<content, writer, writerFrame>>
ContentFallsDue ==
  /\ ~contentJob.due /\ contentJob' = [contentJob EXCEPT !.due = TRUE]
  /\ UNCHANGED <<content, writer, writerFrame>>

WriterCrash(w) ==
  /\ writer[w].pc # "idle" /\ WriterRests(w)
  /\ UNCHANGED <<contentJob, content, writerFrame>>

-----------------------------------------------------------------------------
\* A new draft with the next number, under the lock of the content's row.
ReviseContent(n) ==
  /\ content[1] # "NONE" /\ content[n] = "NONE" /\ \A m \in 1 .. n - 1 : content[m] # "NONE"
  /\ content' = [content EXCEPT ![n] = "DRAFT"]
  /\ UNCHANGED <<contentJob, design, passed, mockJob, mockOrder, snapshot, pubJob, product,
                 writer, renderer, publisher, editor>>

\* approve locks its revision; its last statement reads the candidate's design.
ReadForApproval(e, n) ==
  /\ editor[e].kind = "none" /\ content[n] = "DRAFT"
  /\ \A f \in Editors : ~(editor[f].kind = "approve" /\ editor[f].of = n)
  /\ editor' = [editor EXCEPT ![e] = [NoEdit EXCEPT !.kind = "approve", !.of = n,
       !.before = IF design.version = 0 THEN "ABSENT" ELSE "PENDING",
       !.job = IF \E m \in Contents : content[m] = "APPROVED"
               THEN CHOOSE m \in Contents : content[m] = "APPROVED" ELSE 0]]
  /\ UNCHANGED <<jobVars, writer, renderer, publisher>>

\* One row per revision: an insert that finds one does nothing.
QueueMockup(n) ==
  IF mockJob[n].status # "ABSENT" THEN UNCHANGED <<mockJob, mockOrder>>
  ELSE /\ mockJob' = [mockJob EXCEPT ![n] = [status |-> "PENDING", attempts |-> 0, lockedBy |-> Nil,
                        leased |-> FALSE, due |-> TRUE, id |-> @.id + 1, task |-> 0]]
       /\ mockOrder' = Append(mockOrder, n)

QueuePublication(n) ==
  pubJob' = [pubJob EXCEPT ![n].status = IF @ = "ABSENT" THEN "WAITING_FOR_MOCKUP" ELSE @]

\* The unique index on approved revisions refuses an approval that did not see
\* another one commit.
ApprovedMeanwhile(e) == \E m \in Contents : content[m] = "APPROVED" /\ m # editor[e].job

CommitContentApproval(e) ==
  LET n == editor[e].of
  IN  /\ editor[e].kind = "approve"
      /\ \/ /\ ~ApprovedMeanwhile(e)
            /\ content' = [m \in Contents |-> IF m = n THEN "APPROVED"
                                              ELSE IF m = editor[e].job THEN "SUPERSEDED" ELSE content[m]]
            /\ QueuePublication(n)
            /\ IF editor[e].before = "PENDING" THEN QueueMockup(n) ELSE UNCHANGED <<mockJob, mockOrder>>
         \/ UNCHANGED <<content, pubJob, mockJob, mockOrder>>
      /\ editor' = [editor EXCEPT ![e] = NoEdit]
      /\ UNCHANGED <<contentJob, design, passed, snapshot, product, writer, renderer, publisher>>
=============================================================================
