------------------------------- MODULE Mockups -------------------------------
(***************************************************************************)
(* Designs and mockups: the mockup job queue (src/mockups/job-store.ts),   *)
(* its workers (worker.ts), Printful's webhook (webhook-service.ts) and    *)
(* the operator's handlers (design-service.ts).                            *)
(***************************************************************************)
EXTENDS ProductContent, SequencesExt

rendererFrame == <<contentJob, content, design, passed, mockOrder, product,
                   writer, publisher, editor>>
RendererFails(w, e) == renderer' = [renderer EXCEPT ![w] = Failing(@, e)]
RendererRests(w) == renderer' = [renderer EXCEPT ![w] = NoCall]

\* The row the worker's UPDATE ... WHERE id AND locked_by would match.
OwnsMockup(w) ==
  LET j == mockJob[renderer[w].of]
  IN  j.status # "ABSENT" /\ j.id = renderer[w].id /\ j.lockedBy = w
SetMockup(w, row) == mockJob' = [mockJob EXCEPT ![renderer[w].of] = row]

MockupClaimable(j) ==
  \/ j.status \in {"PENDING", "WAITING_REMOTE"} /\ j.attempts < MaxTries /\ j.due
  \/ j.status = "RUNNING" /\ j.attempts <= MaxTries /\ ~j.leased

ClaimMockup(w, n) ==
  LET j == mockJob[n]
  IN  /\ renderer[w].pc = "idle" /\ MockupClaimable(j)
      /\ mockJob' = [mockJob EXCEPT ![n] = Taken(j, w)]
      /\ renderer' = [renderer EXCEPT ![w] =
           [CallOn(n, j) EXCEPT !.id = j.id, !.holds = j.task,
                                !.pc = IF j.task = 0 THEN "work" ELSE "send"]]
      /\ UNCHANGED <<snapshot, pubJob, rendererFrame>>

\* Mutant: the design is sent whatever the gate says.
UncheckedDesign == design.version # 0
\* assertMockupExecutionSafety, over the design as it is stored now.
SafeDesign == design.version # 0 /\ design.gate = "PASSED"

\* createPayload: the design is read, checked and put into the request.
ReadDesign(w) ==
  /\ renderer[w].pc = "work"
  /\ \/ SafeDesign /\ renderer' = [renderer EXCEPT ![w].pc = "done", ![w].holds = design.version]
     \/ ~SafeDesign /\ RendererFails(w, "permanent")
     \/ \E e \in {"connection", "permanent"} : RendererFails(w, e)
  /\ UNCHANGED <<mockJob, snapshot, pubJob, rendererFrame>>

\* createMockupTask, then waiting(), which matches the row by its owner alone.
CreateTask(w) ==
  LET j == mockJob[renderer[w].of]
  IN  /\ renderer[w].pc = "done"
      /\ \/ /\ RendererRests(w)
            /\ IF OwnsMockup(w)
                 THEN SetMockup(w, [Later(j, "WAITING_REMOTE") EXCEPT !.task = renderer[w].holds])
                 ELSE UNCHANGED mockJob
         \/ \E e \in {"rateLimit", "transient", "permanent"} : RendererFails(w, e) /\ UNCHANGED mockJob
      /\ UNCHANGED <<snapshot, pubJob, rendererFrame>>

\* getMockupTasks of a task that is not finished: waiting() again.
PollTask(w) ==
  LET j == mockJob[renderer[w].of]
  IN  /\ renderer[w].pc = "send"
      /\ \/ /\ RendererRests(w)
            /\ IF OwnsMockup(w)
                 THEN SetMockup(w, [Later(j, "WAITING_REMOTE") EXCEPT !.task = renderer[w].holds])
                 ELSE UNCHANGED mockJob
         \/ \E e \in {"connection", "rateLimit", "transient", "permanent"} :
              RendererFails(w, e) /\ UNCHANGED mockJob
      /\ UNCHANGED <<snapshot, pubJob, rendererFrame>>

Released(n, image) ==
  IF pubJob[n].status # "WAITING_FOR_MOCKUP" THEN pubJob[n]
  ELSE [pubJob[n] EXCEPT !.status = "PENDING", !.images = image, !.due = TRUE]

\* Mutant: the publication is released in a later step.
SnapshotOnly(w) ==
  LET n == renderer[w].of
  IN  /\ renderer[w].pc = "send" /\ snapshot[n] = 0 /\ mockJob[n].id = renderer[w].id
      /\ mockJob[n].status # "ABSENT"
      /\ snapshot' = [snapshot EXCEPT ![n] = renderer[w].holds]
      /\ SetMockup(w, IF OwnsMockup(w) THEN Freed(mockJob[n], "SUCCEEDED") ELSE mockJob[n])
      /\ RendererRests(w) /\ UNCHANGED <<pubJob, rendererFrame>>

\* The task has finished: its snapshot, the job of the worker that still owns it
\* and the waiting publication, in one transaction.  The insertion needs the
\* row to exist and to have no snapshot.
CompleteMockup(w) ==
  LET n == renderer[w].of
  IN  /\ renderer[w].pc = "send"
      /\ \/ /\ mockJob[n].status # "ABSENT" /\ mockJob[n].id = renderer[w].id /\ snapshot[n] = 0
            /\ snapshot' = [snapshot EXCEPT ![n] = renderer[w].holds]
            /\ SetMockup(w, IF OwnsMockup(w) THEN Freed(mockJob[n], "SUCCEEDED") ELSE mockJob[n])
            /\ pubJob' = [pubJob EXCEPT ![n] = Released(n, renderer[w].holds)]
            /\ RendererRests(w) \/ RendererFails(w, "permanent")
         \/ RendererFails(w, "permanent") /\ UNCHANGED <<mockJob, snapshot, pubJob>>
      /\ UNCHANGED rendererFrame

Parked(j) == IF j.task = 0 THEN "PENDING" ELSE "WAITING_REMOTE"

\* The catch block.  A deferral gives the attempt back; a task created before a
\* lost connection stays in the row, though the status goes back to PENDING.
HandleMockupError(w) ==
  LET j == mockJob[renderer[w].of]  e == renderer[w].error
      retries == e = "transient" /\ renderer[w].attempt < MaxTries
  IN  /\ renderer[w].pc = "error"
      /\ \/ OwnsMockup(w) /\ e = "connection" /\ SetMockup(w, GivenBack(Later(j, "PENDING")))
         \/ OwnsMockup(w) /\ e = "rateLimit" /\ SetMockup(w, GivenBack(Later(j, Parked(j))))
         \/ OwnsMockup(w) /\ retries /\ SetMockup(w, Later(j, Parked(j)))
         \/ OwnsMockup(w) /\ e \notin {"connection", "rateLimit"} /\ ~retries
              /\ SetMockup(w, Freed(j, "FAILED"))
         \/ UNCHANGED mockJob
      /\ RendererRests(w) /\ UNCHANGED <<snapshot, pubJob, rendererFrame>>

MockupLeaseExpires(n) ==
  /\ mockJob[n].leased /\ mockJob' = [mockJob EXCEPT ![n].leased = FALSE]
  /\ UNCHANGED <<snapshot, pubJob, renderer, rendererFrame>>

\* The delay passes, or Printful's webhook says that the task has finished: a
\* webhook that comes twice, late or never moves nothing but the time.
MockupFallsDue(n) ==
  /\ ~mockJob[n].due /\ mockJob' = [mockJob EXCEPT ![n].due = TRUE]
  /\ UNCHANGED <<snapshot, pubJob, renderer, rendererFrame>>

RendererCrash(w) ==
  /\ renderer[w].pc # "idle" /\ RendererRests(w)
  /\ UNCHANGED <<mockJob, snapshot, pubJob, rendererFrame>>

-----------------------------------------------------------------------------
operatorFrame == <<contentJob, content, snapshot, pubJob, product, writer, renderer, publisher>>

Latest == mockOrder[Len(mockOrder)]
LatestStatus == IF mockOrder = <<>> THEN "ABSENT" ELSE mockJob[Latest].status

\* register locks the candidate and its design, and reads the latest job: one
\* that is running, waits for Printful or has succeeded locks the design.
ReadForDesign(e) ==
  /\ editor[e].kind = "none" /\ design.version < MaxDesigns
  /\ \A f \in Editors : editor[f].kind # "register"
  /\ LatestStatus \in {"ABSENT", "PENDING", "FAILED"}
  /\ editor' = [editor EXCEPT ![e] = [NoEdit EXCEPT !.kind = "register", !.before = LatestStatus,
       !.job = IF mockOrder = <<>> THEN 0 ELSE Latest]]
  /\ UNCHANGED <<jobVars, writer, renderer, publisher>>

Reset(j) == [j EXCEPT !.status = "PENDING", !.attempts = 0, !.task = 0, !.due = TRUE]
Dropped(j) == [j EXCEPT !.status = "ABSENT", !.attempts = 0, !.lockedBy = Nil, !.leased = FALSE,
                        !.due = TRUE, !.task = 0]
Without(n) == RemoveFirst(mockOrder, n)

\* The jobs the design's commit leaves: of an unusable design the pending job is
\* deleted, of a usable one the failed job is queued again, and the approved
\* revision gets a job if it has none.  The job may have moved since it was read.
DesignJobs(e, gate) ==
  LET n == editor[e].job  before == editor[e].before
      approved == {m \in Contents : content[m] = "APPROVED" /\ mockJob[m].status = "ABSENT"}
  IN  IF gate # "PASSED"
      THEN IF before = "PENDING"
           THEN /\ snapshot[n] = 0                     \* ON DELETE RESTRICT
                /\ mockJob' = [mockJob EXCEPT ![n] = Dropped(@)] /\ mockOrder' = Without(n)
           ELSE UNCHANGED <<mockJob, mockOrder>>
      ELSE /\ before = "FAILED" => mockJob[n].lockedBy = Nil     \* the row's CHECK
           /\ mockJob' = [m \in Contents |->
                IF m \in approved THEN [Reset(mockJob[m]) EXCEPT !.id = @ + 1]
                ELSE IF m = n /\ before = "FAILED" THEN Reset(mockJob[m]) ELSE mockJob[m]]
           /\ mockOrder' = IF approved = {} THEN mockOrder
                           ELSE Append(mockOrder, CHOOSE m \in approved : TRUE)

\* The inspector has passed the file, or no guideline exists to judge it by.
CommitDesign(e, gate) ==
  LET v == design.version + 1
  IN  /\ editor[e].kind = "register"
      /\ \/ /\ DesignJobs(e, gate)
            /\ design' = [version |-> v, gate |-> gate]
            /\ passed' = IF gate = "PASSED" THEN passed \cup {v} ELSE passed
         \/ UNCHANGED <<design, passed, mockJob, mockOrder>>
      /\ editor' = [editor EXCEPT ![e] = NoEdit]
      /\ UNCHANGED operatorFrame

\* requeue: the latest job, once it has failed, unless the design cannot be used.
RequeueMockup ==
  /\ mockOrder # <<>> /\ mockJob[Latest].status = "FAILED" /\ design.gate # "GUIDELINE_MISSING"
  /\ mockJob' = [mockJob EXCEPT ![Latest] = Reset(@)]
  /\ UNCHANGED <<design, passed, mockOrder, editor, operatorFrame>>

\* overrideResolution: the operator supplies the guideline.  The design's row is
\* locked by a registration, so the two never overlap.
OverrideResolution ==
  LET approved == {m \in Contents : content[m] = "APPROVED"}
  IN  /\ design.gate = "GUIDELINE_MISSING"
      /\ \A e \in Editors : editor[e].kind # "register"
      /\ design' = [design EXCEPT !.gate = "PASSED"]
      /\ passed' = passed \cup {design.version}
      /\ IF approved = {} THEN UNCHANGED <<mockJob, mockOrder>>
         ELSE QueueMockup(CHOOSE m \in approved : TRUE)
      /\ UNCHANGED <<editor, operatorFrame>>
=============================================================================
