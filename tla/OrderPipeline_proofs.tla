------------------------ MODULE OrderPipeline_proofs ------------------------
(***************************************************************************)
(* Safety of the order pipeline for any orders, workers and attempts.      *)
(***************************************************************************)
EXTENDS OrderPipeline, TLAPS

Busy(w) == worker[w].pc # "idle"

\* A tick is about one of the workspace's orders; past the gate, a phase that
\* needs a Printful order has one, and a tick that found none recorded none.
TicksWellFormed ==
  \A w \in Workers : Busy(w) =>
    /\ worker[w].order \in Orders
    /\ worker[w].phase = "PENDING_DRAFT" => worker[w].remoteId = NoRemote
    /\ worker[w].pc \in {"look", "renew", "call"} /\ worker[w].phase # "PENDING_DRAFT"
         => worker[w].remoteId # NoRemote
    /\ worker[w].pc = "write" /\ worker[w].todo \in {"ready", "holdQuoted", "success"} =>
         worker[w].remoteId # NoRemote
    /\ worker[w].pc = "write" /\ worker[w].todo = "draft" =>
         worker[w].phase = "PENDING_DRAFT" /\ worker[w].found # NoRemote

PendingHasNoRemote ==
  \A o \in Orders : job[o].status \in {"ABSENT", "PENDING_DRAFT"} => job[o].remoteId = NoRemote

\* The Printful order a worker remembers is the recorded one, unless a clean-up
\* deleted it after the worker lost its job.
SnapshotRecordedOrGone ==
  \A w \in Workers : Busy(w) /\ worker[w].remoteId # NoRemote =>
    \/ JobOf(w).remoteId = worker[w].remoteId
    \/ remote[OrderOf(w)][worker[w].remoteId] = "GONE"

\* A draft on its way into the row of a worker that still owns it exists.
FoundDraftExists ==
  \A w \in Workers :
    worker[w].pc = "write" /\ worker[w].todo = "draft" /\ JobOf(w).lockedBy = w =>
      remote[OrderOf(w)][worker[w].found] \notin {"NONE", "GONE"}

\* A success about to be stored was seen at Printful.
SuccessWasProduced ==
  \A w \in Workers :
    worker[w].pc = "write" /\ worker[w].todo = "success" =>
      remote[OrderOf(w)][worker[w].remoteId] \in Produced \cup {"GONE"}

\* While a clean-up runs its job cannot leave HELD, nor its row the draft.
CleanupHasJob ==
  \A o \in Orders : cleaner[o].pc # "idle" =>
    /\ cleaner[o].remoteId # NoRemote
    /\ job[o].status = "HELD" /\ job[o].remoteId = cleaner[o].remoteId
    /\ cleaner[o].pc = "settle" => remote[o][cleaner[o].remoteId] = "GONE"

\* Only the row of a held job may name a deleted draft.
GoneOnlyInHeld ==
  \A o \in Orders :
    job[o].remoteId # NoRemote /\ remote[o][job[o].remoteId] = "GONE" => job[o].status = "HELD"

SucceededIsProduced ==
  \A o \in Orders : job[o].status = "SUCCEEDED" =>
    job[o].remoteId # NoRemote /\ remote[o][job[o].remoteId] \in Produced

CancelledInTime ==
  \A o \in Orders : cancel[o] = "BEFORE" =>
    /\ order[o].status = "REJECTED"
    /\ job[o].status \in {"ABSENT", "HELD"}
    /\ job[o].remoteId = NoRemote

SubmittedSucceeded ==
  \A o \in Orders : order[o].status = "SUBMITTED" => job[o].status = "SUCCEEDED"

IInv ==
  /\ TypeOK /\ LockColumns /\ TicksWellFormed /\ OwnerSnapshotFresh /\ PendingHasNoRemote
  /\ SnapshotRecordedOrGone /\ ProducedIsRecorded /\ FoundDraftExists /\ SuccessWasProduced
  /\ CleanupHasJob /\ GoneOnlyInHeld /\ SucceededIsProduced /\ CancelledInTime
  /\ SubmittedSucceeded

-----------------------------------------------------------------------------
\* The records that the steps write are rows and ticks.
LEMMA Records ==
  ASSUME TypeOK
  PROVE  /\ NewOrder \in OrderRow /\ NoJob \in JobRow /\ Idle \in Tick /\ NoCleanup \in Cleanup
         /\ QueuedJob \in JobRow /\ QueuedJob.lockedBy = NoWorker /\ ~QueuedJob.leased
         /\ QueuedJob.remoteId = NoRemote /\ QueuedJob.status \in {"PENDING_DRAFT", "HELD"}
<1>1. NewOrder \in OrderRow
  BY DEF NewOrder, OrderRow, OrderStatus, Topics, Facts
<1>2. 0 \in 0 .. MaxAttempts + 1
  BY BoundAssumption
<1>3. NoJob \in JobRow
  BY <1>2 DEF NoJob, JobRow, JobStatus
<1>4. Idle \in Tick /\ NoCleanup \in Cleanup
  BY <1>2 DEF Idle, Tick, Phases, Todo, NoCleanup, Cleanup
<1>5. Guarded("PENDING_DRAFT") \in {"PENDING_DRAFT", "HELD"}
  BY DEF Guarded
<1>6. QueuedJob \in JobRow
  BY <1>3, <1>5 DEF QueuedJob, JobRow, JobStatus, Queued, Phases
<1>7. /\ QueuedJob.lockedBy = NoWorker /\ QueuedJob.leased = FALSE
      /\ QueuedJob.remoteId = NoRemote /\ QueuedJob.status \in {"PENDING_DRAFT", "HELD"}
  BY <1>5 DEF QueuedJob, NoJob
<1> QED  BY <1>1, <1>3, <1>4, <1>6, <1>7

\* A Printful order id is never the null one.
LEMMA RealRemote == \A r \in RemoteIds : r # NoRemote
  BY DEF RemoteIds, NoRemote

\* What giving a job up changes in its row.
LEMMA Releases ==
  ASSUME NEW j \in JobRow, NEW status \in Queued \cup {"HELD", "SUCCEEDED"}
  PROVE  /\ Release(j, status) \in JobRow
         /\ Release(j, status).status \in {status, "HELD"}
         /\ status \notin Queued => Release(j, status).status = status
         /\ Release(j, status).lockedBy = NoWorker /\ ~Release(j, status).leased
         /\ Release(j, status).remoteId = j.remoteId /\ Release(j, status).quoted = j.quoted
         /\ Release(j, status).attempts = j.attempts
  BY DEF Release, Guarded, JobRow, JobStatus, Queued, Phases

\* Storing or clearing a quote changes nothing else.
LEMMA Requotes ==
  ASSUME NEW j \in JobRow, NEW quoted \in BOOLEAN
  PROVE  /\ [j EXCEPT !.quoted = quoted] \in JobRow
         /\ [j EXCEPT !.quoted = quoted].status = j.status
         /\ [j EXCEPT !.quoted = quoted].lockedBy = j.lockedBy
         /\ [j EXCEPT !.quoted = quoted].leased = j.leased
         /\ [j EXCEPT !.quoted = quoted].remoteId = j.remoteId
  BY DEF JobRow

\* The initial tables and processes have their types.
LEMMA TypeInit == Init => TypeOK
  BY BoundAssumption DEF Init, TypeOK, NewOrder, OrderRow, NoJob, JobRow, Idle, Tick, NoCleanup, Cleanup,
      OrderStatus, Topics, Facts, JobStatus, Queued, Phases, Todo, RemoteIds, NoRemote, RemoteStatus

-----------------------------------------------------------------------------
\* What a step may make of a worker's tick, the worker still at it.
SameTick(w) ==
  /\ worker' \in [Workers -> Tick]
  /\ \A x \in Workers : x # w => worker'[x] = worker[x]
  /\ worker'[w].order = worker[w].order
  /\ worker'[w].phase = worker[w].phase
  /\ worker'[w].remoteId = worker[w].remoteId
  /\ worker'[w].attempt = worker[w].attempt

\* What a step that only advances a tick changes.
LEMMA GoToMoves ==
  ASSUME TypeOK, NEW w \in Workers, NEW pc \in {"look", "renew", "call"}, GoTo(w, pc)
  PROVE  SameTick(w) /\ worker'[w].pc = pc
<1>1. worker[w] \in Tick
  BY DEF TypeOK
<1>2. worker' = [worker EXCEPT ![w] = [worker[w] EXCEPT !.pc = pc]]
  BY DEF GoTo, TypeOK
<1>3. [worker[w] EXCEPT !.pc = pc] \in Tick
  BY <1>1 DEF Tick
<1> QED  BY <1>1, <1>2, <1>3 DEF SameTick, TypeOK, Tick

\* What a step that decides on a store call changes.
LEMMA PlanMoves ==
  ASSUME TypeOK, NEW w \in Workers, NEW todo \in Todo, Plan(w, todo)
  PROVE  /\ SameTick(w) /\ worker'[w].pc = "write" /\ worker'[w].todo = todo
         /\ worker'[w].found = worker[w].found
<1>1. worker[w] \in Tick
  BY DEF TypeOK
<1>2. worker' = [worker EXCEPT ![w] = [worker[w] EXCEPT !.pc = "write", !.todo = todo]]
  BY DEF Plan, TypeOK
<1>3. [worker[w] EXCEPT !.pc = "write", !.todo = todo] \in Tick
  BY <1>1 DEF Tick
<1> QED  BY <1>1, <1>2, <1>3 DEF SameTick, TypeOK, Tick

\* What a step that found or created a draft changes.
LEMMA FoundMoves ==
  ASSUME TypeOK, NEW w \in Workers, NEW r \in RemoteIds,
         worker' = [worker EXCEPT ![w].pc = "write", ![w].todo = "draft", ![w].found = r]
  PROVE  /\ SameTick(w) /\ worker'[w].pc = "write" /\ worker'[w].todo = "draft"
         /\ worker'[w].found = r
<1>1. worker[w] \in Tick
  BY DEF TypeOK
<1>2. worker' = [worker EXCEPT ![w] =
                   [worker[w] EXCEPT !.pc = "write", !.todo = "draft", !.found = r]]
  BY DEF TypeOK
<1>3. [worker[w] EXCEPT !.pc = "write", !.todo = "draft", !.found = r] \in Tick
  BY <1>1 DEF Tick, Todo
<1> QED  BY <1>1, <1>2, <1>3 DEF SameTick, TypeOK, Tick

\* A tick that ends, or a worker that dies.
Ended(w) ==
  /\ worker' \in [Workers -> Tick]
  /\ \A x \in Workers : x # w => worker'[x] = worker[x]
  /\ worker'[w].pc = "idle"

\* What a step that ends a tick changes.
LEMMA IdleEnds ==
  ASSUME TypeOK, NEW w \in Workers, worker' = [worker EXCEPT ![w] = Idle]
  PROVE  Ended(w)
  BY Records DEF Ended, TypeOK, Idle

-----------------------------------------------------------------------------
\* Steps that read: the tick moves on, and all a moved tick claims is true.
Onward(w) ==
  /\ Busy(w) /\ SameTick(w)
  /\ worker'[w].pc \in {"look", "renew", "call", "write"}
  /\ worker'[w].pc # "write" /\ worker[w].phase # "PENDING_DRAFT" => worker[w].remoteId # NoRemote
  /\ worker'[w].pc = "write" /\ worker'[w].todo \in {"ready", "holdQuoted", "success"} =>
       worker[w].remoteId # NoRemote
  /\ worker'[w].pc = "write" /\ worker'[w].todo = "success" =>
       remote'[OrderOf(w)][worker[w].remoteId] \in Produced
  /\ worker'[w].pc = "write" /\ worker'[w].todo = "draft" =>
       /\ worker[w].phase = "PENDING_DRAFT" /\ worker'[w].found # NoRemote
       /\ remote'[OrderOf(w)][worker'[w].found] \notin {"NONE", "GONE"}

\* The automation gate only moves its tick on.
LEMMA GateOnward == ASSUME IInv, NEW w \in Workers, Gate(w) PROVE Onward(w)
<1> USE DEF IInv
<1>1. CASE GoTo(w, "look") /\ ~MissingRemote(w)
  BY <1>1, GoToMoves DEF Gate, Onward, Busy, MissingRemote
<1>2. CASE \E todo \in {"defer", "hold"} : Plan(w, todo)
  BY <1>2, PlanMoves DEF Gate, Onward, Busy, Todo
<1> QED  BY <1>1, <1>2 DEF Gate

\* The look-up of a draft only moves its tick on.
LEMMA LookupOnward == ASSUME IInv, NEW w \in Workers, LookupDraft(w) PROVE Onward(w)
<1> USE DEF IInv
<1>1. ASSUME NEW r \in RemoteIds, remote[OrderOf(w)][r] \notin {"NONE", "GONE"},
             worker' = [worker EXCEPT ![w].pc = "write", ![w].todo = "draft", ![w].found = r]
      PROVE  Onward(w)
  <2>1. worker[w].phase = "PENDING_DRAFT" /\ worker[w].pc = "look" /\ remote' = remote
    BY DEF LookupDraft
  <2>2. SameTick(w) /\ worker'[w].pc = "write" /\ worker'[w].todo = "draft" /\ worker'[w].found = r
    BY <1>1, FoundMoves
  <2> QED  BY <1>1, <2>1, <2>2, RealRemote DEF Onward, Busy
<1>2. CASE GoTo(w, "renew")
  BY <1>2, GoToMoves DEF LookupDraft, Onward, Busy
<1>3. CASE Plan(w, "defer")
  BY <1>3, PlanMoves DEF LookupDraft, Onward, Busy, Todo
<1> QED  BY <1>1, <1>2, <1>3 DEF LookupDraft, Permit

\* The cost check only moves its tick on.
LEMMA InspectCostOnward == ASSUME IInv, NEW w \in Workers, InspectCost(w) PROVE Onward(w)
<1> USE DEF IInv
<1>1. PICK todo \in {"hold", "wait", "holdQuoted", "ready"} : Plan(w, todo)
  BY DEF InspectCost
<1>2. worker[w].remoteId # NoRemote
  BY DEF InspectCost, TicksWellFormed, Busy
<1> QED  BY <1>1, <1>2, PlanMoves DEF InspectCost, Onward, Busy, Todo

\* The look at a draft to confirm only moves its tick on.
LEMMA InspectDraftOnward == ASSUME IInv, NEW w \in Workers, InspectDraft(w) PROVE Onward(w)
<1> USE DEF IInv
<1>1. worker[w].remoteId # NoRemote
  BY DEF InspectDraft, TicksWellFormed, Busy
<1>2. CASE Plan(w, "success") /\ remote[OrderOf(w)][worker[w].remoteId] = "PENDING"
  BY <1>1, <1>2, PlanMoves DEF InspectDraft, Onward, Busy, Todo, Produced
<1>3. CASE GoTo(w, "renew")
  BY <1>1, <1>3, GoToMoves DEF InspectDraft, Onward, Busy
<1>4. CASE \E todo \in {"defer", "hold"} : Plan(w, todo)
  BY <1>4, PlanMoves DEF InspectDraft, Onward, Busy, Todo
<1> QED  BY <1>2, <1>3, <1>4 DEF InspectDraft, Permit

\* A failed provider call only moves its tick on.
LEMMA ProviderFailsOnward == ASSUME IInv, NEW w \in Workers, ProviderFails(w) PROVE Onward(w)
<1> USE DEF IInv
<1>1. PICK todo \in {"defer", "hold", "retry"} : Plan(w, todo)
  BY DEF ProviderFails, FaultTodos
<1> QED  BY <1>1, PlanMoves DEF ProviderFails, Onward, Busy, Todo

\* A failed store call only moves its tick on.
LEMMA StoreFailsOnward == ASSUME IInv, NEW w \in Workers, StoreFails(w) PROVE Onward(w)
<1> USE DEF IInv
<1>1. Plan(w, "hold")
  BY DEF StoreFails
<1> QED  BY <1>1, PlanMoves DEF StoreFails, Onward, Busy, Todo

\* The renewal of a lease moves its tick on or ends it.
LEMMA RenewOnward == ASSUME IInv, NEW w \in Workers, Renew(w) PROVE Onward(w) \/ Ended(w)
<1> USE DEF IInv
<1>1. CASE GoTo(w, "call")
  BY <1>1, GoToMoves DEF Renew, Onward, Busy, TicksWellFormed
<1>2. CASE worker' = [worker EXCEPT ![w] = Idle]
  BY <1>2, IdleEnds
<1> QED  BY <1>1, <1>2 DEF Renew

\* Reading, and ending a tick without a store call, change no row.
LEMMA ReadStep ==
  ASSUME IInv, NEW w \in Workers, Busy(w), Onward(w) \/ Ended(w),
         UNCHANGED <<automation, order, cancel, hook, job, remote, vetted, cleaner>>
  PROVE  IInv'
<1> USE DEF IInv
<1>1. TypeOK'
  BY DEF TypeOK, Onward, SameTick, Ended
<1>2. TicksWellFormed'
  BY DEF TicksWellFormed, Busy, Onward, SameTick, Ended
<1>3. OwnerSnapshotFresh'
  BY DEF OwnerSnapshotFresh, Busy, JobOf, OrderOf, Onward, SameTick, Ended
<1>4. SnapshotRecordedOrGone'
  BY DEF SnapshotRecordedOrGone, Busy, JobOf, OrderOf, Onward, SameTick, Ended
<1>5. FoundDraftExists'
  BY DEF FoundDraftExists, JobOf, OrderOf, Onward, SameTick, Ended
<1>6. SuccessWasProduced'
  BY DEF SuccessWasProduced, OrderOf, Onward, SameTick, Ended
<1>7. /\ LockColumns' /\ PendingHasNoRemote' /\ ProducedIsRecorded' /\ CleanupHasJob'
      /\ GoneOnlyInHeld' /\ SucceededIsProduced' /\ CancelledInTime' /\ SubmittedSucceeded'
  BY DEF LockColumns, PendingHasNoRemote, ProducedIsRecorded, CleanupHasJob, GoneOnlyInHeld,
         SucceededIsProduced, CancelledInTime, SubmittedSucceeded
<1> QED  BY <1>1, <1>2, <1>3, <1>4, <1>5, <1>6, <1>7

-----------------------------------------------------------------------------
\* Rows that are given back, queued, requeued or held: the job that is written
\* belongs to nobody and names the Printful order it named.
Rewritten(o) ==
  /\ job[o].status # "SUCCEEDED"
  /\ job'[o].lockedBy = NoWorker /\ ~job'[o].leased
  /\ job'[o].status # "RUNNING"
  /\ job'[o].remoteId = job[o].remoteId
  /\ job'[o].status \in {"ABSENT", "PENDING_DRAFT"} => job[o].remoteId = NoRemote
  /\ job[o].status = "HELD" /\ job[o].remoteId # NoRemote => job'[o].status = "HELD"
  /\ job'[o].status = "SUCCEEDED" =>
       job[o].remoteId # NoRemote /\ remote[o][job[o].remoteId] \in Produced

\* Steps that write rows and leave ticks, Printful and clean-ups alone.
LEMMA RowsStep ==
  ASSUME IInv, TypeOK', UNCHANGED <<remote, cleaner>>,
         UNCHANGED worker \/ \E w \in Workers : Busy(w) /\ Ended(w),
         \A o \in Orders : job'[o] = job[o] \/ Rewritten(o),
         CancelledInTime',
         \A o \in Orders : order'[o].status = "SUBMITTED" =>
           order[o].status = "SUBMITTED" \/ job'[o].status = "SUCCEEDED"
  PROVE  IInv'
<1> USE DEF IInv
<1>1. LockColumns'
  BY DEF LockColumns, Rewritten
<1>2. TicksWellFormed'
  BY DEF TicksWellFormed, Busy, Ended
<1>3. OwnerSnapshotFresh'
  BY NoneAssumption DEF OwnerSnapshotFresh, TicksWellFormed, Busy, JobOf, OrderOf, Ended, Rewritten
<1>4. PendingHasNoRemote'
  BY DEF PendingHasNoRemote, Rewritten
<1>5. SnapshotRecordedOrGone'
  BY DEF SnapshotRecordedOrGone, TicksWellFormed, Busy, JobOf, OrderOf, Ended, Rewritten
<1>6. ProducedIsRecorded'
  BY DEF ProducedIsRecorded, Rewritten
<1>7. FoundDraftExists'
  BY NoneAssumption DEF FoundDraftExists, TicksWellFormed, Busy, JobOf, OrderOf, Ended, Rewritten
<1>8. SuccessWasProduced'
  BY DEF SuccessWasProduced, OrderOf, Ended
<1>9. CleanupHasJob'
  BY DEF CleanupHasJob, Rewritten
<1>10. GoneOnlyInHeld'
  BY DEF GoneOnlyInHeld, Rewritten
<1>11. SucceededIsProduced'
  BY DEF SucceededIsProduced, Rewritten
<1>12. SubmittedSucceeded'
  BY DEF SubmittedSucceeded, Rewritten
<1> QED  BY <1>1, <1>2, <1>3, <1>4, <1>5, <1>6, <1>7, <1>8, <1>9, <1>10, <1>11, <1>12

-----------------------------------------------------------------------------
\* What happens to an order at Printful short of its deletion.
MovesOn(o, r) ==
  /\ remote'[o][r] \in Produced => remote[o][r] \in Produced \/ job[o].remoteId = r
  /\ remote[o][r] \in Produced => remote'[o][r] \in Produced
  /\ remote'[o][r] = "GONE" <=> remote[o][r] = "GONE"
  /\ remote'[o][r] = "NONE" => remote[o][r] = "NONE"

\* Steps that change Printful and leave the rows alone.
LEMMA RemoteStep ==
  ASSUME IInv, UNCHANGED worker \/ \E w \in Workers : Onward(w),
         UNCHANGED <<automation, order, cancel, hook, job, vetted, cleaner>>,
         remote' \in [Orders -> [RemoteIds -> RemoteStatus]],
         \A o \in Orders, r \in RemoteIds : MovesOn(o, r)
  PROVE  IInv'
<1> USE DEF IInv
<1>1. TypeOK'
  BY DEF TypeOK, Onward, SameTick
<1>2. \A o \in Orders : job[o].remoteId \in {NoRemote} \cup RemoteIds
  BY DEF TypeOK, JobRow
<1>3. \A w \in Workers : /\ worker[w].remoteId \in {NoRemote} \cup RemoteIds
                         /\ worker[w].found \in {NoRemote} \cup RemoteIds
  BY DEF TypeOK, Tick
<1>4. \A o \in Orders : cleaner[o].remoteId \in {NoRemote} \cup RemoteIds
  BY DEF TypeOK, Cleanup
<1>5. TicksWellFormed'
  BY DEF TicksWellFormed, Busy, Onward, SameTick
<1>6. OwnerSnapshotFresh'
  BY DEF OwnerSnapshotFresh, Busy, JobOf, OrderOf, Onward, SameTick
<1>7. SnapshotRecordedOrGone'
  BY <1>3 DEF SnapshotRecordedOrGone, TicksWellFormed, Busy, JobOf, OrderOf, Onward, SameTick, MovesOn
<1>8. ProducedIsRecorded'
  BY DEF ProducedIsRecorded, MovesOn
<1>9. FoundDraftExists'
  BY <1>3 DEF FoundDraftExists, TicksWellFormed, Busy, JobOf, OrderOf, Onward, SameTick, MovesOn
<1>10. SuccessWasProduced'
  BY <1>3 DEF SuccessWasProduced, TicksWellFormed, Busy, OrderOf, Onward, SameTick, MovesOn
<1>11. CleanupHasJob'
  BY <1>4 DEF CleanupHasJob, MovesOn
<1>12. GoneOnlyInHeld'
  BY <1>2 DEF GoneOnlyInHeld, MovesOn
<1>13. SucceededIsProduced'
  BY <1>2 DEF SucceededIsProduced, MovesOn
<1>14. LockColumns' /\ PendingHasNoRemote' /\ CancelledInTime' /\ SubmittedSucceeded'
  BY DEF LockColumns, PendingHasNoRemote, CancelledInTime, SubmittedSucceeded
<1> QED  BY <1>1, <1>5, <1>6, <1>7, <1>8, <1>9, <1>10, <1>11, <1>12, <1>13, <1>14

\* One entry of Printful's book changes.
LEMMA OneRemote ==
  ASSUME TypeOK, NEW o \in Orders, NEW r \in RemoteIds, NEW status \in RemoteStatus,
         remote' = [remote EXCEPT ![o] = [@ EXCEPT ![r] = status]]
  PROVE  /\ remote' \in [Orders -> [RemoteIds -> RemoteStatus]]
         /\ \A p \in Orders, s \in RemoteIds :
              remote'[p][s] = IF p = o /\ s = r THEN status ELSE remote[p][s]
  BY DEF TypeOK

\* createDraftOrder preserves the invariant.
LEMMA CreateStep == ASSUME IInv, NEW w \in Workers, CreateDraft(w) PROVE IInv'
<1> USE DEF IInv
<1>1. PICK r \in RemoteIds :
        /\ remote[OrderOf(w)][r] = "NONE"
        /\ remote' = [remote EXCEPT ![OrderOf(w)] = [@ EXCEPT ![r] = "DRAFT"]]
        /\ \/ worker' = [worker EXCEPT ![w].pc = "write", ![w].todo = "draft", ![w].found = r]
           \/ \E todo \in LostAnswerTodos(w) : Plan(w, todo)
  BY DEF CreateDraft
<1>2. /\ Busy(w) /\ OrderOf(w) \in Orders /\ r # NoRemote
      /\ worker[w].phase = "PENDING_DRAFT" /\ worker[w].pc = "call"
      /\ UNCHANGED <<automation, order, cancel, hook, job, vetted, cleaner>>
  BY RealRemote DEF CreateDraft, Busy, OrderOf, TicksWellFormed
<1>3. /\ remote' \in [Orders -> [RemoteIds -> RemoteStatus]]
      /\ \A o \in Orders, s \in RemoteIds :
           remote'[o][s] = IF o = OrderOf(w) /\ s = r THEN "DRAFT" ELSE remote[o][s]
  <2>1. "DRAFT" \in RemoteStatus
    BY DEF RemoteStatus
  <2> QED  BY <1>1, <1>2, <2>1, OneRemote
<1>4. \A o \in Orders, s \in RemoteIds : MovesOn(o, s)
  BY <1>1, <1>3 DEF MovesOn, Produced
<1>5. Onward(w)
  <2>1. CASE worker' = [worker EXCEPT ![w].pc = "write", ![w].todo = "draft", ![w].found = r]
    BY <1>2, <1>3, <2>1, FoundMoves DEF Onward
  <2>2. CASE \E todo \in {"defer", "hold", "retry"} : Plan(w, todo)
    BY <1>2, <2>2, PlanMoves DEF Onward, Todo
  <2> QED  BY <1>1, <2>1, <2>2 DEF LostAnswerTodos, FaultTodos
<1> QED  BY <1>2, <1>3, <1>4, <1>5, RemoteStep

\* confirmOrder preserves the invariant.
LEMMA ConfirmStep == ASSUME IInv, NEW w \in Workers, ConfirmDraft(w) PROVE IInv'
<1> USE DEF IInv
<1> DEFINE r == worker[w].remoteId
<1>1. /\ Busy(w) /\ OrderOf(w) \in Orders /\ r # NoRemote /\ r \in RemoteIds
      /\ worker[w].phase = "READY_CONFIRM" /\ worker[w].pc = "call"
      /\ UNCHANGED <<automation, order, cancel, hook, job, vetted, cleaner>>
      /\ remote[OrderOf(w)][r] = "DRAFT"
      /\ remote' = [remote EXCEPT ![OrderOf(w)] = [@ EXCEPT ![r] = "PENDING"]]
  BY DEF ConfirmDraft, Busy, OrderOf, TicksWellFormed, TypeOK, Tick
<1>2. JobOf(w).remoteId = r
  BY <1>1 DEF SnapshotRecordedOrGone
<1>3. /\ remote' \in [Orders -> [RemoteIds -> RemoteStatus]]
      /\ \A o \in Orders, s \in RemoteIds :
           remote'[o][s] = IF o = OrderOf(w) /\ s = r THEN "PENDING" ELSE remote[o][s]
  <2>1. "PENDING" \in RemoteStatus
    BY DEF RemoteStatus
  <2> QED  BY <1>1, <2>1, OneRemote
<1>4. \A o \in Orders, s \in RemoteIds : MovesOn(o, s)
  BY <1>1, <1>2, <1>3 DEF MovesOn, Produced, JobOf
<1>5. Onward(w)
  <2>1. PICK todo \in {"success", "defer", "hold", "retry"} : Plan(w, todo)
    BY DEF ConfirmDraft, LostAnswerTodos, FaultTodos
  <2> QED  BY <1>1, <1>3, <2>1, PlanMoves DEF Onward, Todo, Produced
<1> QED  BY <1>1, <1>3, <1>4, <1>5, RemoteStep

\* What Printful does on its own preserves the invariant.
LEMMA PrintfulStep ==
  ASSUME IInv, NEW o \in Orders, NEW r \in RemoteIds, PrintfulMoves(o, r) PROVE IInv'
<1> USE DEF IInv
<1>1. PICK status \in RemoteStatus :
        /\ <<remote[o][r], status>> \in
             {<<"DRAFT", "FAILED">>, <<"PENDING", "SHIPPED">>, <<"PENDING", "CANCELED">>}
        /\ remote' = [remote EXCEPT ![o] = [@ EXCEPT ![r] = status]]
  BY DEF PrintfulMoves
<1>2. /\ remote' \in [Orders -> [RemoteIds -> RemoteStatus]]
      /\ \A p \in Orders, s \in RemoteIds :
           remote'[p][s] = IF p = o /\ s = r THEN status ELSE remote[p][s]
  BY <1>1, OneRemote
<1>3. \A p \in Orders, s \in RemoteIds : MovesOn(p, s)
  BY <1>1, <1>2 DEF MovesOn, Produced
<1> QED  BY <1>2, <1>3, RemoteStep DEF PrintfulMoves

-----------------------------------------------------------------------------
\* The store calls and the claim.
LEMMA ClaimStep ==
  ASSUME IInv, NEW w \in Workers, NEW o \in Orders, Claim(w, o) PROVE IInv'
<1> USE DEF IInv
<1>1. /\ job[o] \in JobRow /\ job[o].attempts \in 0 .. MaxAttempts
      /\ PhaseOf(job[o]) \in Phases /\ job[o].status \in Queued \cup {"RUNNING"}
  BY BoundAssumption DEF Claim, Claimable, TypeOK, JobRow, PhaseOf, Queued, Phases
<1>2. job[o].attempts + 1 \in 0 .. MaxAttempts + 1
  BY <1>1, BoundAssumption
<1>3. PhaseOf(job[o]) = "PENDING_DRAFT" => job[o].remoteId = NoRemote
  BY <1>1 DEF PhaseOf, PendingHasNoRemote, Queued, Phases
<1> DEFINE row == [job[o] EXCEPT !.status = "RUNNING", !.attempts = @ + 1,
                                 !.lockedBy = w, !.leased = TRUE]
           tick == [Idle EXCEPT !.pc = "gate", !.order = o, !.phase = PhaseOf(job[o]),
                                !.remoteId = job[o].remoteId, !.attempt = job[o].attempts + 1]
<1>4. /\ row \in JobRow /\ row.status = "RUNNING" /\ row.lockedBy = w
      /\ row.attempts = job[o].attempts + 1 /\ row.remoteId = job[o].remoteId
  BY <1>1, <1>2 DEF JobRow, JobStatus
<1>5. /\ tick \in Tick /\ tick.pc = "gate" /\ tick.order = o /\ tick.phase = PhaseOf(job[o])
      /\ tick.remoteId = job[o].remoteId /\ tick.attempt = job[o].attempts + 1
  BY <1>1, <1>2, Records DEF Tick, JobRow
<1>6. /\ job' = [job EXCEPT ![o] = row] /\ worker' = [worker EXCEPT ![w] = tick]
      /\ worker[w].pc = "idle"
      /\ UNCHANGED <<automation, order, cancel, hook, remote, vetted, cleaner>>
  <2>1. job' = [job EXCEPT ![o] = row]
    BY DEF Claim
  <2>2. worker' = [worker EXCEPT ![w] = tick]
    BY DEF Claim
  <2>3. /\ worker[w].pc = "idle"
        /\ UNCHANGED <<automation, order, cancel, hook, remote, vetted, cleaner>>
    BY DEF Claim
  <2> QED  BY <2>1, <2>2, <2>3
<1> HIDE DEF row, tick
<1>7. TypeOK'
  BY <1>4, <1>5, <1>6 DEF TypeOK
<1>8. /\ \A p \in Orders : job'[p] = IF p = o THEN row ELSE job[p]
      /\ \A x \in Workers : worker'[x] = IF x = w THEN tick ELSE worker[x]
  BY <1>6 DEF TypeOK
<1>9. LockColumns'
  BY <1>4, <1>6, <1>8, NoneAssumption DEF LockColumns
<1>10. TicksWellFormed'
  BY <1>3, <1>5, <1>8 DEF TicksWellFormed, Busy
<1>11. OwnerSnapshotFresh'
  BY <1>4, <1>5, <1>8 DEF OwnerSnapshotFresh, TicksWellFormed, Busy, JobOf, OrderOf
<1>12. PendingHasNoRemote'
  BY <1>4, <1>8 DEF PendingHasNoRemote
<1>13. SnapshotRecordedOrGone'
  BY <1>4, <1>5, <1>6, <1>8 DEF SnapshotRecordedOrGone, TicksWellFormed, Busy, JobOf, OrderOf
<1>14. ProducedIsRecorded'
  BY <1>4, <1>6, <1>8 DEF ProducedIsRecorded
<1>15. FoundDraftExists'
  BY <1>4, <1>5, <1>6, <1>8 DEF FoundDraftExists, TicksWellFormed, Busy, JobOf, OrderOf
<1>16. SuccessWasProduced'
  BY <1>5, <1>6, <1>8 DEF SuccessWasProduced, TicksWellFormed, Busy, OrderOf
<1>17. CleanupHasJob' /\ GoneOnlyInHeld'
  BY <1>1, <1>4, <1>6, <1>8 DEF CleanupHasJob, GoneOnlyInHeld, Queued, Phases
<1>18. SucceededIsProduced' /\ CancelledInTime' /\ SubmittedSucceeded'
  BY <1>1, <1>4, <1>6, <1>8
  DEF SucceededIsProduced, CancelledInTime, SubmittedSucceeded, Queued, Phases
<1> QED  BY <1>7, <1>9, <1>10, <1>11, <1>12, <1>13, <1>14, <1>15, <1>16, <1>17, <1>18

\* The end of a lease preserves the invariant.
LEMMA ExpireStep == ASSUME IInv, NEW o \in Orders, ExpireLease(o) PROVE IInv'
<1> USE DEF IInv
<1>1. /\ job' = [job EXCEPT ![o] = [job[o] EXCEPT !.leased = FALSE]]
      /\ UNCHANGED <<automation, order, cancel, hook, worker, remote, vetted, cleaner>>
  BY DEF ExpireLease, TypeOK
<1>2. job[o] \in JobRow /\ [job[o] EXCEPT !.leased = FALSE] \in JobRow
  BY DEF TypeOK, JobRow
<1>3. TypeOK'
  BY <1>1, <1>2 DEF TypeOK
<1>4. \A p \in Orders : /\ job'[p].status = job[p].status
                         /\ job'[p].remoteId = job[p].remoteId
                         /\ job'[p].lockedBy = job[p].lockedBy
                         /\ job'[p].attempts = job[p].attempts
                         /\ job'[p].leased => job[p].leased
  BY <1>1, <1>2 DEF TypeOK, JobRow
<1>5. LockColumns' /\ TicksWellFormed' /\ PendingHasNoRemote'
  BY <1>1, <1>4 DEF LockColumns, TicksWellFormed, Busy, PendingHasNoRemote
<1>6. OwnerSnapshotFresh' /\ SnapshotRecordedOrGone'
  BY <1>1, <1>4 DEF OwnerSnapshotFresh, SnapshotRecordedOrGone, TicksWellFormed, Busy, JobOf, OrderOf
<1>7. ProducedIsRecorded' /\ SuccessWasProduced'
  BY <1>1, <1>4 DEF ProducedIsRecorded, SuccessWasProduced, OrderOf
<1>8. FoundDraftExists'
  BY <1>1, <1>4 DEF FoundDraftExists, TicksWellFormed, Busy, JobOf, OrderOf
<1>9. CleanupHasJob' /\ GoneOnlyInHeld' /\ SucceededIsProduced'
  BY <1>1, <1>4 DEF CleanupHasJob, GoneOnlyInHeld, SucceededIsProduced
<1>10. CancelledInTime' /\ SubmittedSucceeded'
  BY <1>1, <1>4 DEF CancelledInTime, SubmittedSucceeded
<1> QED  BY <1>3, <1>5, <1>6, <1>7, <1>8, <1>9, <1>10

\* A worker gives the row it owns back, draft unchanged.
LEMMA GiveBack ==
  ASSUME IInv, NEW w \in Workers, Busy(w), JobOf(w).lockedBy = w, NEW row \in JobRow,
         NEW status \in Queued \cup {"HELD", "SUCCEEDED"}, row.status \in {status, "HELD"},
         row.lockedBy = NoWorker, ~row.leased, row.remoteId = JobOf(w).remoteId,
         status = "PENDING_DRAFT" => worker[w].phase = "PENDING_DRAFT",
         status = "SUCCEEDED" => worker[w].pc = "write" /\ worker[w].todo = "success",
         job' = [job EXCEPT ![OrderOf(w)] = row], UNCHANGED cancel,
         Ended(w), UNCHANGED <<automation, hook, remote, cleaner>>,
         vetted' \in [Orders -> SUBSET RemoteIds], order' \in [Orders -> OrderRow],
         \A o \in Orders : order'[o] = order[o] \/ o = OrderOf(w),
         order'[OrderOf(w)].status = "SUBMITTED" =>
           order[OrderOf(w)].status = "SUBMITTED" \/ row.status = "SUCCEEDED"
  PROVE  IInv'
<1> USE DEF IInv
<1> DEFINE o == OrderOf(w)
<1>1. o \in Orders /\ JobOf(w) = job[o] /\ w # NoWorker
  BY NoneAssumption DEF TicksWellFormed, OrderOf, JobOf
<1>2. job[o].status = "RUNNING"
  BY <1>1 DEF LockColumns
<1>3. job[o].remoteId = worker[w].remoteId
  BY <1>1 DEF OwnerSnapshotFresh, Busy
<1>4. \A p \in Orders : job'[p] = IF p = o THEN row ELSE job[p]
  BY <1>1 DEF TypeOK
<1>5. status = "SUCCEEDED" =>
        job[o].remoteId # NoRemote /\ remote[o][job[o].remoteId] \in Produced
  BY <1>1, <1>2, <1>3 DEF SuccessWasProduced, TicksWellFormed, Busy, GoneOnlyInHeld
<1>6. row.status \in {"ABSENT", "PENDING_DRAFT"} => job[o].remoteId = NoRemote
  BY <1>3 DEF TicksWellFormed, Queued, Phases
<1>7. Rewritten(o)
  BY <1>1, <1>2, <1>4, <1>5, <1>6 DEF Rewritten, Queued, Phases
<1>8. TypeOK'
  BY <1>1 DEF TypeOK, Ended
<1>9. CancelledInTime'
  BY <1>1, <1>2, <1>4 DEF CancelledInTime
<1>10. \A p \in Orders : job'[p] = job[p] \/ Rewritten(p)
  BY <1>4, <1>7
<1>11. \A p \in Orders : order'[p].status = "SUBMITTED" =>
         order[p].status = "SUBMITTED" \/ job'[p].status = "SUCCEEDED"
  BY <1>1, <1>4
<1> QED  BY <1>8, <1>9, <1>10, <1>11, RowsStep

\* draftCreated: the one store call that records a Printful order.
LEMMA DraftStep ==
  ASSUME IInv, NEW w \in Workers, worker[w].pc = "write", worker[w].todo = "draft",
         JobOf(w).lockedBy = w, DraftCreated(w), Ended(w),
         UNCHANGED <<automation, order, cancel, hook, remote, vetted, cleaner>>
  PROVE  IInv'
<1> USE DEF IInv
<1> DEFINE o == OrderOf(w)
           row == [Release(job[o], "WAITING_COST") EXCEPT !.remoteId = worker[w].found]
<1>1. o \in Orders /\ JobOf(w) = job[o] /\ w # NoWorker /\ Busy(w)
  BY NoneAssumption DEF TicksWellFormed, OrderOf, JobOf, Busy
<1>2. job[o].status = "RUNNING"
  BY <1>1 DEF LockColumns
<1>3. job[o].remoteId = NoRemote /\ worker[w].found \in RemoteIds
  <2>1. worker[w].remoteId = NoRemote /\ worker[w].found # NoRemote
    BY <1>1 DEF TicksWellFormed
  <2>2. worker[w] \in Tick
    BY DEF TypeOK
  <2>3. worker[w].found \in RemoteIds
    BY <2>1, <2>2 DEF Tick
  <2> QED  BY <1>1, <2>1, <2>3 DEF OwnerSnapshotFresh, Busy
<1>4. remote[o][worker[w].found] \notin {"NONE", "GONE"}
  BY <1>1 DEF FoundDraftExists
<1>5. job[o] \in JobRow
  BY <1>1 DEF TypeOK
<1>6. /\ Release(job[o], "WAITING_COST") \in JobRow
      /\ Release(job[o], "WAITING_COST").status \in {"WAITING_COST", "HELD"}
      /\ Release(job[o], "WAITING_COST").lockedBy = NoWorker
      /\ ~Release(job[o], "WAITING_COST").leased
  BY <1>5, Releases DEF Queued, Phases
<1>7. /\ row \in JobRow /\ row.status \in {"WAITING_COST", "HELD"}
      /\ row.lockedBy = NoWorker /\ ~row.leased /\ row.remoteId = worker[w].found
  BY <1>3, <1>6 DEF JobRow
<1>8. job' = [job EXCEPT ![o] = row]
  BY <1>1 DEF DraftCreated
<1> HIDE DEF row
<1>9. TypeOK'
  BY <1>1, <1>7, <1>8 DEF TypeOK, Ended
<1>10. \A p \in Orders : job'[p] = IF p = o THEN row ELSE job[p]
  BY <1>8 DEF TypeOK
<1>11. LockColumns'
  BY <1>7, <1>10 DEF LockColumns
<1>12. TicksWellFormed'
  BY DEF TicksWellFormed, Busy, Ended
<1>13. OwnerSnapshotFresh' /\ FoundDraftExists'
  BY <1>7, <1>10, NoneAssumption
  DEF OwnerSnapshotFresh, FoundDraftExists, TicksWellFormed, Busy, JobOf, OrderOf, Ended
<1>14. PendingHasNoRemote'
  BY <1>7, <1>10 DEF PendingHasNoRemote
<1>15. SnapshotRecordedOrGone'
  BY <1>3, <1>10 DEF SnapshotRecordedOrGone, TicksWellFormed, Busy, JobOf, OrderOf, Ended
<1>16. ProducedIsRecorded'
  BY <1>1, <1>3, <1>10, RealRemote DEF ProducedIsRecorded
<1>17. SuccessWasProduced'
  BY DEF SuccessWasProduced, OrderOf, Ended
<1>18. CleanupHasJob' /\ GoneOnlyInHeld'
  BY <1>1, <1>2, <1>4, <1>7, <1>10 DEF CleanupHasJob, GoneOnlyInHeld
<1>19. SucceededIsProduced' /\ CancelledInTime' /\ SubmittedSucceeded'
  BY <1>2, <1>7, <1>10 DEF SucceededIsProduced, CancelledInTime, SubmittedSucceeded
<1> QED  BY <1>9, <1>11, <1>12, <1>13, <1>14, <1>15, <1>16, <1>17, <1>18, <1>19

\* The store call that ends a tick preserves the invariant.
LEMMA WriteStep == ASSUME IInv, NEW w \in Workers, Write(w) PROVE IInv'
<1> USE DEF IInv
<1> DEFINE o == OrderOf(w)
<1>1. /\ Busy(w) /\ Ended(w) /\ worker[w].pc = "write"
      /\ UNCHANGED <<automation, cancel, hook, remote, cleaner>>
  BY IdleEnds DEF Write, Busy
<1>2. o \in Orders /\ JobOf(w) = job[o] /\ job[o] \in JobRow /\ worker[w].phase \in Phases
  BY <1>1 DEF TicksWellFormed, OrderOf, JobOf, TypeOK, Tick
<1>3. CASE UNCHANGED <<job, order, vetted>>
  BY <1>1, <1>3, ReadStep
<1>4. CASE worker[w].todo = "draft" /\ DraftCreated(w) /\ UNCHANGED <<order, vetted>>
  BY <1>1, <1>3, <1>4, DraftStep DEF DraftCreated
<1>5. \A status \in Queued \cup {"HELD", "SUCCEEDED"} :
        /\ Release(job[o], status) \in JobRow
        /\ Release(job[o], status).status \in {status, "HELD"}
        /\ status \notin Queued => Release(job[o], status).status = status
        /\ Release(job[o], status).lockedBy = NoWorker /\ ~Release(job[o], status).leased
        /\ Release(job[o], status).remoteId = job[o].remoteId
        /\ Release(job[o], status).attempts = job[o].attempts
  BY <1>2, Releases
<1>6. order \in [Orders -> OrderRow] /\ vetted \in [Orders -> SUBSET RemoteIds]
  BY DEF TypeOK
<1>7. Queued = Phases /\ "SUCCEEDED" \notin Queued /\ "HELD" \notin Queued
  BY DEF Queued, Phases
<1>8. ASSUME NEW status \in Queued, BackTo(w, status), UNCHANGED <<order, vetted>>,
             status = "PENDING_DRAFT" => worker[w].phase = "PENDING_DRAFT"
      PROVE  IInv'
  <2>1. CASE JobOf(w).lockedBy # w
    BY <1>3, <1>8, <2>1 DEF BackTo
  <2>2. CASE JobOf(w).lockedBy = w
    <3> DEFINE row == Release(job[o], status)
    <3>1. job' = [job EXCEPT ![o] = row]
      BY <1>8, <2>2 DEF BackTo
    <3>2. /\ row \in JobRow /\ row.status \in {status, "HELD"}
          /\ row.lockedBy = NoWorker /\ ~row.leased /\ row.remoteId = job[o].remoteId
      BY <1>5
    <3>3. status \in Queued \cup {"HELD", "SUCCEEDED"} /\ status # "SUCCEEDED"
      BY <1>7, <1>8
    <3> HIDE DEF row
    <3> QED  BY <1>1, <1>2, <1>6, <1>7, <1>8, <2>2, <3>1, <3>2, <3>3, GiveBack
  <2> QED  BY <2>1, <2>2
<1>9. CASE worker[w].todo = "ready" /\ ReadyConfirm(w) /\ UNCHANGED order
  <2>1. CASE JobOf(w).lockedBy # w
    BY <1>3, <1>9, <2>1 DEF ReadyConfirm
  <2>2. CASE JobOf(w).lockedBy = w
    <3> DEFINE row == [Release(job[o], "READY_CONFIRM") EXCEPT !.quoted = TRUE]
    <3>1. /\ row \in JobRow /\ row.status \in {"READY_CONFIRM", "HELD"}
          /\ row.lockedBy = NoWorker /\ ~row.leased /\ row.remoteId = job[o].remoteId
      <4> DEFINE rel == Release(job[o], "READY_CONFIRM")
      <4>1. "READY_CONFIRM" \in Queued
        BY DEF Queued, Phases
      <4>2. /\ rel \in JobRow /\ rel.status \in {"READY_CONFIRM", "HELD"}
            /\ rel.lockedBy = NoWorker /\ ~rel.leased /\ rel.remoteId = job[o].remoteId
        BY <1>5, <4>1
      <4> QED  BY <4>2, Requotes
    <3>2. job' = [job EXCEPT ![o] = row]
      BY <1>9, <2>2 DEF ReadyConfirm
    <3>3. vetted' \in [Orders -> SUBSET RemoteIds]
      <4>1. worker[w].remoteId \in RemoteIds
        BY <1>1, <1>9 DEF TicksWellFormed, TypeOK, Tick
      <4> QED  BY <1>2, <1>6, <1>9, <2>2, <4>1 DEF ReadyConfirm
    <3>4. "READY_CONFIRM" \in Queued
      BY DEF Queued, Phases
    <3> HIDE DEF row
    <3> QED  BY <1>1, <1>2, <1>6, <1>9, <2>2, <3>1, <3>2, <3>3, <3>4, GiveBack
  <2> QED  BY <2>1, <2>2
<1>10. CASE worker[w].todo = "defer" /\ Defer(w) /\ UNCHANGED <<order, vetted>>
  <2>1. CASE ~Owns(w)
    BY <1>3, <1>10, <2>1 DEF Defer
  <2>2. CASE Owns(w)
    <3> DEFINE row == [Release(JobOf(w), worker[w].phase) EXCEPT
                         !.attempts = IF @ = 0 THEN 0 ELSE @ - 1]
    <3>1. /\ row \in JobRow /\ row.status \in {worker[w].phase, "HELD"}
          /\ row.lockedBy = NoWorker /\ ~row.leased /\ row.remoteId = job[o].remoteId
      BY <1>2, <1>5, <1>7, BoundAssumption DEF JobRow
    <3>2. job' = [job EXCEPT ![o] = row]
      BY <1>10, <2>2 DEF Defer
    <3> HIDE DEF row
    <3> QED  BY <1>1, <1>2, <1>6, <1>7, <1>10, <2>2, <3>1, <3>2, GiveBack DEF Owns
  <2> QED  BY <2>1, <2>2
<1>11. ASSUME NEW quoted \in BOOLEAN, Hold(w, quoted), UNCHANGED vetted PROVE IInv'
  <2>1. CASE ~HoldsLease(w)
    BY <1>3, <1>11, <2>1 DEF Hold
  <2>2. CASE HoldsLease(w)
    <3> DEFINE row == [Release(job[o], "HELD") EXCEPT !.quoted = quoted]
    <3>1. /\ row \in JobRow /\ row.status = "HELD"
          /\ row.lockedBy = NoWorker /\ ~row.leased /\ row.remoteId = job[o].remoteId
      BY <1>5, <1>7 DEF JobRow
    <3>2. job' = [job EXCEPT ![o] = row]
      BY <1>11, <2>2 DEF Hold
    <3>3. order' = [order EXCEPT ![o] = [order[o] EXCEPT !.status = "HELD"]]
      BY <1>11, <2>2 DEF Hold
    <3>4. /\ order' \in [Orders -> OrderRow] /\ order'[o].status = "HELD"
          /\ \A p \in Orders : order'[p] = order[p] \/ p = o
      BY <1>2, <1>6, <3>3 DEF OrderRow, OrderStatus
    <3> HIDE DEF row
    <3> QED  BY <1>1, <1>2, <1>6, <1>11, <2>2, <3>1, <3>2, <3>4, GiveBack DEF HoldsLease, Owns
  <2> QED  BY <2>1, <2>2
<1>12. CASE worker[w].todo = "success" /\ Success(w) /\ UNCHANGED vetted
  <2>1. CASE ~HoldsLease(w)
    BY <1>3, <1>12, <2>1 DEF Success
  <2>2. CASE HoldsLease(w)
    <3> DEFINE row == Release(job[o], "SUCCEEDED")
    <3>1. job' = [job EXCEPT ![o] = row]
      BY <1>12, <2>2 DEF Success
    <3>2. order' = [order EXCEPT ![o] = [order[o] EXCEPT !.status = "SUBMITTED"]]
      BY <1>12, <2>2 DEF Success
    <3>3. /\ order' \in [Orders -> OrderRow]
          /\ \A p \in Orders : order'[p] = order[p] \/ p = o
      BY <1>2, <1>6, <3>2 DEF OrderRow, OrderStatus
    <3>4. /\ row \in JobRow /\ row.status = "SUCCEEDED"
          /\ row.lockedBy = NoWorker /\ ~row.leased /\ row.remoteId = job[o].remoteId
      BY <1>5, <1>7
    <3> HIDE DEF row
    <3> QED  BY <1>1, <1>2, <1>6, <1>7, <1>12, <2>2, <3>1, <3>3, <3>4, GiveBack DEF HoldsLease, Owns
  <2> QED  BY <2>1, <2>2
<1>13. "WAITING_COST" \in Queued
  BY DEF Queued, Phases
<1> QED  BY <1>2, <1>4, <1>7, <1>8, <1>9, <1>10, <1>11, <1>12, <1>13 DEF Write

\* The death of a worker preserves the invariant.
LEMMA CrashStep == ASSUME IInv, NEW w \in Workers, Crash(w) PROVE IInv'
  BY IdleEnds, ReadStep DEF Crash, Busy, IInv

-----------------------------------------------------------------------------
\* What applying a cancellation makes of an order's job and status.
LEMMA Cancellations ==
  ASSUME IInv, NEW o \in Orders
  PROVE  LET j == CancelledJob(job[o])
         IN  /\ j \in JobRow
             /\ \/ j = job[o]
                \/ /\ job[o].status \in Queued
                   /\ j.status = "HELD" /\ j.lockedBy = NoWorker /\ ~j.leased
                   /\ j.remoteId = job[o].remoteId
             /\ CancelledAs(job[o]) \in {"BEFORE", "AFTER"}
             /\ CancelledStatus(job[o]) \in {"HELD", "REJECTED"}
             /\ CancelledAs(job[o]) = "BEFORE" =>
                  /\ CancelledStatus(job[o]) = "REJECTED"
                  /\ j.status \in {"ABSENT", "HELD"} /\ j.remoteId = NoRemote
<1>1. job[o] \in JobRow
  BY DEF IInv, TypeOK
<1>2. "HELD" \notin Queued
  BY DEF Queued, Phases
<1>3. /\ Release(job[o], "HELD") \in JobRow /\ Release(job[o], "HELD").status = "HELD"
      /\ Release(job[o], "HELD").lockedBy = NoWorker /\ ~Release(job[o], "HELD").leased
      /\ Release(job[o], "HELD").remoteId = job[o].remoteId
  BY <1>1, <1>2, Releases
<1>4. CASE ~Submitted(job[o]) /\ job[o].status \in Queued
  <2>1. CancelledJob(job[o]) = Release(job[o], "HELD")
    BY <1>4 DEF CancelledJob
  <2>2. job[o].remoteId = NoRemote
    BY <1>4 DEF Submitted
  <2> QED  BY <1>3, <1>4, <2>1, <2>2 DEF CancelledAs, CancelledStatus
<1>5. CASE ~(~Submitted(job[o]) /\ job[o].status \in Queued)
  <2>1. CancelledJob(job[o]) = job[o]
    BY <1>5 DEF CancelledJob
  <2>2. ~Submitted(job[o]) => job[o].remoteId = NoRemote /\ job[o].status \in {"ABSENT", "HELD"}
    BY <1>1, <1>5 DEF Submitted, JobRow, JobStatus
  <2> QED  BY <1>1, <2>1, <2>2 DEF CancelledAs, CancelledStatus
<1> QED  BY <1>4, <1>5

\* Applying a cancellation, to the order as stored or as a webhook rewrites it.
LEMMA CancelStep ==
  ASSUME IInv, NEW o \in Orders, NEW row \in OrderRow,
         order' = [order EXCEPT ![o] = [row EXCEPT !.status = CancelledStatus(job[o])]],
         job' = [job EXCEPT ![o] = CancelledJob(job[o])],
         cancel' = [cancel EXCEPT ![o] = CancelledAs(job[o])],
         hook' \in [Orders -> [Sights -> Nat]],
         UNCHANGED <<automation, worker, remote, vetted, cleaner>>
  PROVE  IInv'
<1> USE DEF IInv
<1> DEFINE j == CancelledJob(job[o])
           new == [row EXCEPT !.status = CancelledStatus(job[o])]
<1>1. /\ j \in JobRow
      /\ \/ j = job[o]
         \/ /\ job[o].status \in Queued
            /\ j.status = "HELD" /\ j.lockedBy = NoWorker /\ ~j.leased
            /\ j.remoteId = job[o].remoteId
      /\ CancelledAs(job[o]) \in {"BEFORE", "AFTER"}
      /\ CancelledStatus(job[o]) \in {"HELD", "REJECTED"}
      /\ CancelledAs(job[o]) = "BEFORE" =>
           /\ CancelledStatus(job[o]) = "REJECTED"
           /\ j.status \in {"ABSENT", "HELD"} /\ j.remoteId = NoRemote
  BY Cancellations
<1>2. new \in OrderRow /\ new.status = CancelledStatus(job[o])
  BY <1>1 DEF OrderRow, OrderStatus
<1> HIDE DEF j, new
<1>3. /\ \A p \in Orders : job'[p] = IF p = o THEN j ELSE job[p]
      /\ \A p \in Orders : order'[p] = IF p = o THEN new ELSE order[p]
      /\ \A p \in Orders : cancel'[p] = IF p = o THEN CancelledAs(job[o]) ELSE cancel[p]
  BY DEF TypeOK, j, new
<1>4. TypeOK'
  <2>1. job' \in [Orders -> JobRow]
    BY <1>1 DEF TypeOK, j
  <2>2. order' \in [Orders -> OrderRow]
    BY <1>2 DEF TypeOK, new
  <2>3. cancel' \in [Orders -> {"NONE", "UNSEEN", "PENDING", "BEFORE", "AFTER"}]
    BY <1>1 DEF TypeOK
  <2> QED  BY <2>1, <2>2, <2>3 DEF TypeOK
<1>5. CancelledInTime'
  BY <1>1, <1>2, <1>3 DEF CancelledInTime
<1>6. \A p \in Orders : job'[p] = job[p] \/ Rewritten(p)
  BY <1>1, <1>3 DEF Rewritten, Queued, Phases
<1>7. \A p \in Orders : order'[p].status = "SUBMITTED" => order[p].status = "SUBMITTED"
  BY <1>1, <1>2, <1>3
<1> QED  BY <1>4, <1>5, <1>6, <1>7, RowsStep

\* One webhook more, or one less, of those that saw the control in one state.
LEMMA HookCounts ==
  ASSUME TypeOK, NEW o \in Orders, NEW saw \in Sights,
         \/ hook' = [hook EXCEPT ![o][saw] = @ + 1]
         \/ hook[o][saw] > 0 /\ hook' = [hook EXCEPT ![o][saw] = @ - 1]
  PROVE  hook' \in [Orders -> [Sights -> Nat]]
<1>1. hook \in [Orders -> [Sights -> Nat]]
  BY DEF TypeOK
<1>2. CASE hook' = [hook EXCEPT ![o][saw] = @ + 1]
  BY <1>1, <1>2
<1>3. CASE hook[o][saw] > 0 /\ hook' = [hook EXCEPT ![o][saw] = @ - 1]
  BY <1>1, <1>3
<1> QED  BY <1>2, <1>3

\* A webhook that reads the control, or is rolled back, preserves the invariant.
LEMMA HookReadStep ==
  ASSUME IInv, NEW o \in Orders, HookRead(o) \/ \E saw \in Sights : HookRollback(o, saw)
  PROVE  IInv'
<1> USE DEF IInv
<1>1. UNCHANGED <<automation, order, cancel, job, worker, remote, vetted, cleaner>>
  BY DEF HookRead, HookRollback
<1>2. hook' \in [Orders -> [Sights -> Nat]]
  <2>1. CASE HookRead(o)
    <3>1. PICK saw \in Sights : hook' = [hook EXCEPT ![o][saw] = @ + 1]
      BY <2>1 DEF HookRead, Sights
    <3> QED  BY <3>1, HookCounts
  <2>2. CASE \E saw \in Sights : HookRollback(o, saw)
    BY <2>2, HookCounts DEF HookRollback
  <2> QED  BY <2>1, <2>2
<1>3. TypeOK' /\ CancelledInTime'
  BY <1>1, <1>2 DEF TypeOK, CancelledInTime
<1> QED  BY <1>1, <1>3, RowsStep

\* The order policy yields an order status.
LEMMA Verdicts ==
  ASSUME NEW fixed \in BOOLEAN, NEW live \in Facts
  PROVE  Verdict(fixed, live) \in {"READY", "WAITING", "HELD"}
  BY DEF Verdict

\* A webhook's new job is queued or held, with nothing recorded yet.
LEMMA FirstJobRows ==
  ASSUME TypeOK, NEW j \in FirstJobs
  PROVE  /\ j \in JobRow /\ j.status \in {"PENDING_DRAFT", "HELD"}
         /\ j.remoteId = NoRemote /\ j.lockedBy = NoWorker /\ ~j.leased
<1>1. CASE j = QueuedJob
  BY <1>1, Records
<1>2. CASE j = [NoJob EXCEPT !.status = "PENDING_DRAFT"]
  <2>1. NoJob \in JobRow
    BY Records
  <2> QED  BY <1>2, <2>1 DEF NoJob, JobRow, JobStatus, Queued, Phases
<1> QED  BY <1>1, <1>2 DEF FirstJobs

\* A stored order webhook preserves the invariant.
LEMMA HookCommitStep ==
  ASSUME IInv, NEW o \in Orders, NEW saw \in Sights, NEW topic \in Topics,
         NEW fixed \in BOOLEAN, NEW live \in Facts, HookCommit(o, saw, topic, fixed, live)
  PROVE  IInv'
<1> USE DEF IInv
<1> DEFINE verdict == Verdict(fixed, live)
           status == IF topic = "review" \/ (verdict = "READY" /\ saw = "SAW_OFF")
                     THEN "HELD" ELSE verdict
           row == [status |-> status, topic |-> topic, review |-> topic = "review",
                   fixed |-> IF order[o].status = "ABSENT" THEN fixed ELSE order[o].fixed,
                   live |-> live]
<1>1. status \in {"READY", "WAITING", "HELD"}
  BY Verdicts
<1>2. order[o] \in OrderRow
  BY DEF TypeOK
<1>3. row \in OrderRow /\ row.status = status
  BY <1>1, <1>2 DEF OrderRow, OrderStatus
<1>4. /\ hook[o][saw] > 0 /\ hook' = [hook EXCEPT ![o][saw] = @ - 1]
      /\ UNCHANGED <<automation, worker, remote, vetted, cleaner>>
      /\ IF CancelVisible(o)
         THEN /\ order' = [order EXCEPT ![o] = [row EXCEPT !.status = CancelledStatus(job[o])]]
              /\ job' = [job EXCEPT ![o] = CancelledJob(job[o])]
              /\ cancel' = [cancel EXCEPT ![o] = CancelledAs(job[o])]
         ELSE /\ order' = [order EXCEPT ![o] = row]
              /\ IF status = "READY" /\ job[o].status = "ABSENT"
                 THEN \E j \in FirstJobs : job' = [job EXCEPT ![o] = j]
                 ELSE UNCHANGED job
              /\ UNCHANGED cancel
  BY DEF HookCommit, TypeOK
<1> HIDE DEF row, status
<1>5. hook' \in [Orders -> [Sights -> Nat]]
  BY <1>4, HookCounts
<1>6. CASE CancelVisible(o)
  BY <1>3, <1>4, <1>5, <1>6, CancelStep
<1>7. CASE ~CancelVisible(o)
  <2>1. \A p \in Orders : order'[p] = IF p = o THEN row ELSE order[p]
    BY <1>4, <1>7 DEF TypeOK
  <2>2. \A p \in Orders : job'[p] = job[p] \/ (p = o /\ job'[p] \in FirstJobs /\ job[p].status = "ABSENT")
    BY <1>4, <1>7 DEF TypeOK
  <2>3. TypeOK'
    <3>1. job' \in [Orders -> JobRow]
      BY <1>4, <1>7, FirstJobRows DEF TypeOK
    <3> QED  BY <1>3, <1>4, <1>5, <1>7, <3>1 DEF TypeOK
  <2>4. \A p \in Orders : job'[p] = job[p] \/ Rewritten(p)
    BY <2>2, FirstJobRows DEF Rewritten, PendingHasNoRemote
  <2>5. CancelledInTime'
    BY <1>4, <1>7, <2>1, <2>2 DEF CancelledInTime, CancelVisible
  <2>6. \A p \in Orders : order'[p].status = "SUBMITTED" => order[p].status = "SUBMITTED"
    BY <1>1, <1>3, <2>1
  <2> QED  BY <1>4, <2>3, <2>4, <2>5, <2>6, RowsStep
<1> QED  BY <1>6, <1>7

\* A cancellation preserves the invariant.
LEMMA CancelHookStep == ASSUME IInv, NEW o \in Orders, CancelHook(o) PROVE IInv'
<1> USE DEF IInv
<1>1. CASE order[o].status # "ABSENT" /\ cancel[o] # "UNSEEN"
  <2>1. /\ order' = [order EXCEPT ![o] = [order[o] EXCEPT !.status = CancelledStatus(job[o])]]
        /\ job' = [job EXCEPT ![o] = CancelledJob(job[o])]
        /\ cancel' = [cancel EXCEPT ![o] = CancelledAs(job[o])]
        /\ UNCHANGED <<automation, hook, worker, remote, vetted, cleaner>>
    BY <1>1 DEF CancelHook, TypeOK
  <2>2. order[o] \in OrderRow /\ hook' \in [Orders -> [Sights -> Nat]]
    BY <2>1 DEF TypeOK
  <2> QED  BY <2>1, <2>2, CancelStep
<1>2. CASE order[o].status = "ABSENT" /\ cancel[o] = "NONE"
  <2>1. TypeOK' /\ CancelledInTime'
    BY <1>2 DEF CancelHook, TypeOK, CancelledInTime
  <2> QED  BY <1>2, <2>1, RowsStep DEF CancelHook
<1> QED  BY <1>1, <1>2 DEF CancelHook

\* The commit of an early cancellation preserves the invariant.
LEMMA CancelCommitStep == ASSUME IInv, NEW o \in Orders, CancelCommit(o) PROVE IInv'
<1> USE DEF IInv
<1>1. TypeOK' /\ CancelledInTime'
  BY DEF CancelCommit, TypeOK, CancelledInTime
<1> QED  BY <1>1, RowsStep DEF CancelCommit

-----------------------------------------------------------------------------
\* Switching the automation, but for the stop trigger, preserves the invariant.
LEMMA SwitchStep == ASSUME IInv, Enable \/ StopCommit PROVE IInv'
<1> USE DEF IInv
<1>1. TypeOK' /\ CancelledInTime'
  BY DEF Enable, StopCommit, TypeOK, CancelledInTime
<1> QED  BY <1>1, RowsStep DEF Enable, StopCommit

\* The stop trigger preserves the invariant.
LEMMA StopStep == ASSUME IInv, StopBegin PROVE IInv'
<1> USE DEF IInv
<1>1. ASSUME NEW o \in Orders, job[o].status \in Queued
      PROVE  /\ job'[o] \in JobRow /\ job'[o].status = "HELD" /\ job'[o].lockedBy = NoWorker
             /\ ~job'[o].leased /\ job'[o].remoteId = job[o].remoteId
             /\ order'[o] \in OrderRow /\ order'[o].status = "HELD"
  <2>1. job[o] \in JobRow /\ order[o] \in OrderRow /\ "HELD" \notin Queued
    BY DEF TypeOK, Queued, Phases
  <2>2. job'[o] = Release(job[o], "HELD") /\ order'[o] = [order[o] EXCEPT !.status = "HELD"]
    BY <1>1 DEF StopBegin
  <2>3. order'[o] \in OrderRow /\ order'[o].status = "HELD"
    BY <2>1, <2>2 DEF OrderRow, OrderStatus
  <2> QED  BY <2>1, <2>2, <2>3, Releases
<1>2. ASSUME NEW o \in Orders, job[o].status \notin Queued
      PROVE  job'[o] = job[o] /\ order'[o] = order[o]
  BY <1>2 DEF StopBegin
<1>3. TypeOK'
  <2>1. job' \in [Orders -> JobRow] /\ order' \in [Orders -> OrderRow]
    <3>1. \A o \in Orders : job'[o] \in JobRow /\ order'[o] \in OrderRow
      BY <1>1, <1>2 DEF TypeOK
    <3> QED  BY <3>1 DEF StopBegin
  <2> QED  BY <2>1 DEF StopBegin, TypeOK
<1>4. CancelledInTime'
  BY <1>1, <1>2 DEF CancelledInTime, StopBegin, Queued, Phases
<1>5. \A o \in Orders : job'[o] = job[o] \/ Rewritten(o)
  BY <1>1, <1>2 DEF Rewritten, Queued, Phases
<1>6. \A o \in Orders : order'[o].status = "SUBMITTED" => order[o].status = "SUBMITTED"
  BY <1>1, <1>2
<1> QED  BY <1>3, <1>4, <1>5, <1>6, RowsStep DEF StopBegin

\* An exception action leaves an owned, finished or drafted job's row alone.
LEMMA ActedJob ==
  ASSUME IInv, NEW o \in Orders, NEW j \in {job[o], Requeued(job[o]), Rejected(job[o])}
  PROVE  /\ j \in JobRow
         /\ \/ j = job[o]
            \/ /\ job[o].status \in Queued \cup {"ABSENT", "HELD"}
               /\ j.status \in {"PENDING_DRAFT", "HELD"}
               /\ j.lockedBy = NoWorker /\ ~j.leased /\ j.remoteId = job[o].remoteId
               /\ j.status = "PENDING_DRAFT" => job[o].remoteId = NoRemote
<1> USE DEF IInv
<1>1. job[o] \in JobRow /\ "HELD" \notin Queued
  BY DEF TypeOK, Queued, Phases
<1>2. CASE j = QueuedJob /\ job[o].status = "ABSENT"
  BY <1>2, Records DEF PendingHasNoRemote
<1>3. CASE /\ job[o].status = "HELD" /\ job[o].remoteId = NoRemote
           /\ j = [job[o] EXCEPT !.status = Guarded("PENDING_DRAFT")]
  <2>1. Guarded("PENDING_DRAFT") \in {"PENDING_DRAFT", "HELD"}
    BY DEF Guarded
  <2>2. job[o].lockedBy = NoWorker /\ ~job[o].leased
    BY <1>1, <1>3 DEF LockColumns, JobRow
  <2> QED  BY <1>1, <1>3, <2>1, <2>2 DEF JobRow, JobStatus, Queued, Phases
<1>4. CASE job[o].status \in Queued /\ j = Release(job[o], "HELD")
  BY <1>1, <1>4, Releases
<1> QED  BY <1>1, <1>2, <1>3, <1>4 DEF Requeued, Rejected

\* An exception action preserves the invariant.
LEMMA ActStep == ASSUME IInv, NEW o \in Orders, NEW action \in Actions, Act(o, action) PROVE IInv'
<1> USE DEF IInv
<1>1. order[o] \in OrderRow
  BY DEF TypeOK
<1>2. Outcome(o, action) \in {"READY", "WAITING", "HELD", "REJECTED"}
  BY <1>1, Verdicts DEF Outcome, OrderRow
<1>3. PICK status \in {"READY", "WAITING", "HELD", "REJECTED"}, review \in BOOLEAN :
        /\ order' = [order EXCEPT ![o] = [order[o] EXCEPT !.status = status, !.review = review]]
        /\ job' = [job EXCEPT ![o] = CASE status = "READY" -> Requeued(job[o])
                                       [] status = "REJECTED" -> Rejected(job[o])
                                       [] OTHER -> job[o]]
  <2> DEFINE status == IF Outcome(o, action) = "READY" /\ ~Enabled THEN "HELD"
                       ELSE Outcome(o, action)
             review == action = "REJECT" /\ order[o].review
  <2>1. status \in {"READY", "WAITING", "HELD", "REJECTED"} /\ review \in BOOLEAN
    BY <1>1, <1>2 DEF OrderRow
  <2>2. /\ order' = [order EXCEPT ![o] = [order[o] EXCEPT !.status = status, !.review = review]]
        /\ job' = [job EXCEPT ![o] = CASE status = "READY" -> Requeued(job[o])
                                       [] status = "REJECTED" -> Rejected(job[o])
                                       [] OTHER -> job[o]]
    BY DEF Act, TypeOK
  <2> HIDE DEF status, review
  <2> QED  BY <2>1, <2>2
<1>4. /\ order[o].status \in {"HELD", "WAITING"}
      /\ UNCHANGED <<automation, cancel, hook, worker, remote, vetted, cleaner>>
  BY DEF Act
<1>5. PICK j \in {job[o], Requeued(job[o]), Rejected(job[o])} : job' = [job EXCEPT ![o] = j]
  BY <1>3
<1>6. /\ j \in JobRow
      /\ \/ j = job[o]
         \/ /\ job[o].status \in Queued \cup {"ABSENT", "HELD"}
            /\ j.status \in {"PENDING_DRAFT", "HELD"}
            /\ j.lockedBy = NoWorker /\ ~j.leased /\ j.remoteId = job[o].remoteId
            /\ j.status = "PENDING_DRAFT" => job[o].remoteId = NoRemote
  BY ActedJob
<1>7. /\ order' \in [Orders -> OrderRow] /\ order'[o].status # "SUBMITTED"
      /\ \A p \in Orders : p # o => order'[p] = order[p]
  <2>1. [order[o] EXCEPT !.status = status, !.review = review] \in OrderRow
    BY <1>1 DEF OrderRow, OrderStatus
  <2> QED  BY <1>1, <1>3, <2>1 DEF TypeOK, OrderRow
<1>8. \A p \in Orders : job'[p] = IF p = o THEN j ELSE job[p]
  BY <1>5 DEF TypeOK
<1>9. TypeOK'
  BY <1>4, <1>5, <1>6, <1>7 DEF TypeOK
<1>10. CancelledInTime'
  BY <1>4, <1>7, <1>8 DEF CancelledInTime
<1>11. \A p \in Orders : job'[p] = job[p] \/ Rewritten(p)
  BY <1>6, <1>8 DEF Rewritten, Queued, Phases
<1>12. \A p \in Orders : order'[p].status = "SUBMITTED" => order[p].status = "SUBMITTED"
  BY <1>7
<1> QED  BY <1>4, <1>9, <1>10, <1>11, <1>12, RowsStep

-----------------------------------------------------------------------------
\* A clean-up request that selects, looks or gives up touches no row.
LEMMA CleanerStep ==
  ASSUME IInv, UNCHANGED <<automation, order, cancel, hook, job, worker, remote, vetted>>,
         cleaner' \in [Orders -> Cleanup], CleanupHasJob'
  PROVE  IInv'
<1> USE DEF IInv
<1>1. TypeOK' /\ LockColumns' /\ TicksWellFormed' /\ OwnerSnapshotFresh' /\ PendingHasNoRemote'
  BY DEF TypeOK, LockColumns, TicksWellFormed, OwnerSnapshotFresh, PendingHasNoRemote, Busy,
         JobOf, OrderOf
<1>2. /\ SnapshotRecordedOrGone' /\ ProducedIsRecorded' /\ FoundDraftExists'
      /\ SuccessWasProduced' /\ GoneOnlyInHeld'
  BY DEF SnapshotRecordedOrGone, ProducedIsRecorded, FoundDraftExists, SuccessWasProduced,
         GoneOnlyInHeld, Busy, JobOf, OrderOf
<1>3. SucceededIsProduced' /\ CancelledInTime' /\ SubmittedSucceeded'
  BY DEF SucceededIsProduced, CancelledInTime, SubmittedSucceeded
<1> QED  BY <1>1, <1>2, <1>3

\* The reading steps of a clean-up preserve the invariant.
LEMMA CleanupReads ==
  ASSUME IInv, NEW o \in Orders, CleanupSelect(o) \/ CleanupInspect(o) \/ CleanupAbandon(o)
  PROVE  IInv'
<1> USE DEF IInv
<1>1. cleaner[o] \in Cleanup /\ job[o] \in JobRow
  BY DEF TypeOK
<1>2. CASE CleanupSelect(o)
  <2>1. [pc |-> "get", remoteId |-> job[o].remoteId] \in Cleanup
    BY <1>1 DEF Cleanup, JobRow
  <2>2. cleaner' \in [Orders -> Cleanup] /\ CleanupHasJob'
    BY <1>2, <2>1 DEF CleanupSelect, TypeOK, CleanupHasJob
  <2> QED  BY <1>2, <2>2, CleanerStep DEF CleanupSelect
<1>3. CASE CleanupInspect(o)
  <2>1. PICK pc \in {"settle", "delete"} :
          /\ cleaner' = [cleaner EXCEPT ![o] = [cleaner[o] EXCEPT !.pc = pc]]
          /\ pc = "settle" => remote[o][cleaner[o].remoteId] = "GONE"
    BY <1>3 DEF CleanupInspect, CleanTo, TypeOK
  <2>2. [cleaner[o] EXCEPT !.pc = pc] \in Cleanup
    BY <1>1 DEF Cleanup
  <2>3. cleaner' \in [Orders -> Cleanup] /\ CleanupHasJob'
    BY <1>1, <1>3, <2>1, <2>2 DEF CleanupInspect, TypeOK, CleanupHasJob, Cleanup
  <2> QED  BY <1>3, <2>3, CleanerStep DEF CleanupInspect
<1>4. CASE CleanupAbandon(o)
  <2>1. cleaner' \in [Orders -> Cleanup] /\ CleanupHasJob'
    BY <1>4, Records DEF CleanupAbandon, TypeOK, CleanupHasJob, NoCleanup
  <2> QED  BY <1>4, <2>1, CleanerStep DEF CleanupAbandon
<1> QED  BY <1>2, <1>3, <1>4

\* The deletion, of a draft that a held job names, reaches no worker's job.
LEMMA DeleteStep == ASSUME IInv, NEW o \in Orders, CleanupDelete(o) PROVE IInv'
<1> USE DEF IInv
<1> DEFINE r == cleaner[o].remoteId
<1>1. /\ cleaner[o] \in Cleanup /\ cleaner[o].pc = "delete" /\ r # NoRemote /\ r \in RemoteIds
      /\ job[o].status = "HELD" /\ job[o].remoteId = r
  BY DEF CleanupDelete, CleanupHasJob, TypeOK, Cleanup
<1>2. /\ remote' = [remote EXCEPT ![o] = [remote[o] EXCEPT ![r] = "GONE"]]
      /\ cleaner' = [cleaner EXCEPT ![o] = [cleaner[o] EXCEPT !.pc = "settle"]]
      /\ UNCHANGED <<automation, order, cancel, hook, job, worker, vetted>>
  BY DEF CleanupDelete, CleanTo, TypeOK
<1>3. \A p \in Orders, s \in RemoteIds :
        remote'[p][s] = IF p = o /\ s = r THEN "GONE" ELSE remote[p][s]
  BY <1>1, <1>2 DEF TypeOK
<1>4. TypeOK'
  <2>1. [cleaner[o] EXCEPT !.pc = "settle"] \in Cleanup
    BY <1>1 DEF Cleanup
  <2>2. [remote[o] EXCEPT ![r] = "GONE"] \in [RemoteIds -> RemoteStatus]
    BY DEF TypeOK, RemoteStatus
  <2> QED  BY <1>2, <2>1, <2>2 DEF TypeOK
<1>5. LockColumns' /\ TicksWellFormed' /\ OwnerSnapshotFresh' /\ PendingHasNoRemote'
  BY <1>2 DEF LockColumns, TicksWellFormed, OwnerSnapshotFresh, PendingHasNoRemote, Busy,
              JobOf, OrderOf
<1>6. \A w \in Workers : Busy(w) => worker[w] \in Tick /\ OrderOf(w) \in Orders
  BY DEF TypeOK, TicksWellFormed, OrderOf
<1>7. SnapshotRecordedOrGone'
  BY <1>2, <1>3, <1>6 DEF SnapshotRecordedOrGone, Busy, JobOf, OrderOf, Tick
<1>8. ProducedIsRecorded'
  BY <1>2, <1>3 DEF ProducedIsRecorded, Produced
<1>9. FoundDraftExists'
  <2>1. \A w \in Workers : job[o].lockedBy # w
    BY <1>1, NoneAssumption DEF LockColumns
  <2>2. \A w \in Workers : worker[w].pc = "write" /\ worker[w].todo = "draft" =>
          worker[w].found \in RemoteIds
    BY <1>6 DEF TicksWellFormed, Busy, Tick
  <2> QED  BY <1>2, <1>3, <1>6, <2>1, <2>2 DEF FoundDraftExists, Busy, JobOf, OrderOf
<1>10. SuccessWasProduced'
  <2>1. \A w \in Workers : worker[w].pc = "write" /\ worker[w].todo = "success" =>
          worker[w].remoteId \in RemoteIds
    BY <1>6 DEF TicksWellFormed, Busy, Tick
  <2> QED  BY <1>2, <1>3, <1>6, <2>1 DEF SuccessWasProduced, Busy, OrderOf
<1>11. CleanupHasJob'
  BY <1>1, <1>2, <1>3 DEF CleanupHasJob, TypeOK, Cleanup
<1>12. \A p \in Orders : job[p] \in JobRow
  BY DEF TypeOK
<1>13. GoneOnlyInHeld' /\ SucceededIsProduced'
  BY <1>1, <1>2, <1>3, <1>12 DEF GoneOnlyInHeld, SucceededIsProduced, JobRow
<1>14. CancelledInTime' /\ SubmittedSucceeded'
  BY <1>2 DEF CancelledInTime, SubmittedSucceeded
<1> QED  BY <1>4, <1>5, <1>7, <1>8, <1>9, <1>10, <1>11, <1>13, <1>14

\* Forgetting the deleted draft.
LEMMA SettleStep == ASSUME IInv, NEW o \in Orders, CleanupSettle(o) PROVE IInv'
<1> USE DEF IInv
<1> DEFINE row == [job[o] EXCEPT !.remoteId = NoRemote]
<1>1. /\ job[o] \in JobRow /\ job[o].status = "HELD"
      /\ job[o].remoteId # NoRemote /\ remote[o][job[o].remoteId] = "GONE"
  BY DEF CleanupSettle, CleanupHasJob, TypeOK
<1>2. /\ job' = [job EXCEPT ![o] = row] /\ cleaner' = [cleaner EXCEPT ![o] = NoCleanup]
      /\ UNCHANGED <<automation, order, cancel, hook, worker, remote, vetted>>
  BY DEF CleanupSettle, CleanupHasJob, TypeOK
<1>3. /\ row \in JobRow /\ row.status = "HELD" /\ row.remoteId = NoRemote
      /\ row.lockedBy = job[o].lockedBy /\ row.leased = job[o].leased
  BY <1>1 DEF JobRow
<1> HIDE DEF row
<1>4. \A p \in Orders : job'[p] = IF p = o THEN row ELSE job[p]
  BY <1>2 DEF TypeOK
<1>5. TypeOK'
  BY <1>2, <1>3, Records DEF TypeOK
<1>6. LockColumns' /\ PendingHasNoRemote'
  BY <1>1, <1>3, <1>4 DEF LockColumns, PendingHasNoRemote
<1>7. TicksWellFormed' /\ SuccessWasProduced'
  BY <1>2 DEF TicksWellFormed, SuccessWasProduced, Busy, OrderOf
<1>8. \A w \in Workers : job[o].lockedBy # w
  BY <1>1, NoneAssumption DEF LockColumns
<1>9. OwnerSnapshotFresh' /\ FoundDraftExists'
  BY <1>2, <1>3, <1>4, <1>8
  DEF OwnerSnapshotFresh, FoundDraftExists, TicksWellFormed, Busy, JobOf, OrderOf
<1>10. SnapshotRecordedOrGone'
  BY <1>1, <1>2, <1>4 DEF SnapshotRecordedOrGone, TicksWellFormed, Busy, JobOf, OrderOf
<1>11. ProducedIsRecorded'
  BY <1>1, <1>2, <1>4 DEF ProducedIsRecorded, Produced
<1>12. CleanupHasJob'
  BY <1>2, <1>4 DEF CleanupHasJob, NoCleanup, TypeOK
<1>13. GoneOnlyInHeld' /\ SucceededIsProduced'
  BY <1>2, <1>3, <1>4 DEF GoneOnlyInHeld, SucceededIsProduced
<1>14. CancelledInTime' /\ SubmittedSucceeded'
  BY <1>1, <1>2, <1>3, <1>4 DEF CancelledInTime, SubmittedSucceeded
<1> QED  BY <1>5, <1>6, <1>7, <1>9, <1>10, <1>11, <1>12, <1>13, <1>14

-----------------------------------------------------------------------------
\* The initial state satisfies the invariant.
LEMMA InvInit == Init => IInv
<1> SUFFICES ASSUME Init PROVE IInv
  OBVIOUS
<1>1. TypeOK
  BY TypeInit
<1>2. /\ LockColumns /\ TicksWellFormed /\ OwnerSnapshotFresh /\ PendingHasNoRemote
      /\ SnapshotRecordedOrGone /\ ProducedIsRecorded
  BY DEF Init, LockColumns, TicksWellFormed, OwnerSnapshotFresh, PendingHasNoRemote,
         SnapshotRecordedOrGone, ProducedIsRecorded, Busy, NoJob, Idle, Produced
<1>3. /\ FoundDraftExists /\ SuccessWasProduced /\ CleanupHasJob /\ GoneOnlyInHeld
      /\ SucceededIsProduced /\ CancelledInTime /\ SubmittedSucceeded
  BY DEF Init, FoundDraftExists, SuccessWasProduced, CleanupHasJob, GoneOnlyInHeld,
         SucceededIsProduced, CancelledInTime, SubmittedSucceeded, NoJob, Idle, NoCleanup, NewOrder
<1> QED  BY <1>1, <1>2, <1>3 DEF IInv

\* Every step of the pipeline preserves the invariant.
LEMMA InvNext == IInv /\ [Next]_vars => IInv'
<1> SUFFICES ASSUME IInv, [Next]_vars PROVE IInv'
  OBVIOUS
<1>1. CASE JobsNext
  <2>1. ASSUME NEW w \in Workers, Gate(w) \/ LookupDraft(w) \/ InspectCost(w) \/ InspectDraft(w)
                                    \/ ProviderFails(w) \/ StoreFails(w) \/ Renew(w)
        PROVE  IInv'
    <3>1. Onward(w) \/ Ended(w)
      BY <2>1, GateOnward, LookupOnward, InspectCostOnward, InspectDraftOnward,
         ProviderFailsOnward, StoreFailsOnward, RenewOnward
    <3>2. Busy(w) /\ UNCHANGED <<automation, order, cancel, hook, job, remote, vetted, cleaner>>
      BY <2>1 DEF Gate, LookupDraft, InspectCost, InspectDraft, ProviderFails, StoreFails, Renew, Busy
    <3> QED  BY <3>1, <3>2, ReadStep
  <2>2. ASSUME NEW w \in Workers, CreateDraft(w) \/ ConfirmDraft(w) \/ Write(w) PROVE IInv'
    BY <2>2, CreateStep, ConfirmStep, WriteStep
  <2>3. ASSUME NEW w \in Workers, Crash(w) \/ \E o \in Orders : Claim(w, o) PROVE IInv'
    BY <2>3, CrashStep, ClaimStep
  <2>4. ASSUME NEW o \in Orders, ExpireLease(o) \/ \E r \in RemoteIds : PrintfulMoves(o, r)
        PROVE  IInv'
    BY <2>4, ExpireStep, PrintfulStep
  <2> QED  BY <1>1, <2>1, <2>2, <2>3, <2>4 DEF JobsNext, WorkerStep
<1>2. CASE ShopifyNext
  BY <1>2, HookReadStep, CancelHookStep, CancelCommitStep, HookCommitStep DEF ShopifyNext
<1>3. CASE OperationsNext
  BY <1>3, SwitchStep, StopStep, ActStep, CleanupReads, DeleteStep, SettleStep DEF OperationsNext
<1>4. CASE UNCHANGED vars
  <2>1. UNCHANGED <<automation, order, cancel, hook, job, worker, remote, vetted, cleaner>>
    BY <1>4 DEF vars
  <2>2. TypeOK' /\ CancelledInTime'
    BY <2>1 DEF IInv, TypeOK, CancelledInTime
  <2> QED  BY <2>1, <2>2, RowsStep DEF IInv
<1> QED  BY <1>1, <1>2, <1>3, <1>4 DEF Next

\* The strengthened invariant holds throughout.
THEOREM Invariance == Spec => []IInv
  BY InvInit, InvNext, PTL DEF Spec

\* Every row, tick and request keeps its type, whatever the numbers of orders,
\* workers and attempts.
THEOREM TypeCorrect == Spec => []TypeOK
<1>1. IInv => TypeOK
  BY DEF IInv
<1> QED  BY <1>1, Invariance, PTL

\* No write of any of the actors breaks the CHECK on the lock columns.
THEOREM LocksConsistent == Spec => []LockColumns
<1>1. IInv => LockColumns
  BY DEF IInv
<1> QED  BY <1>1, Invariance, PTL

\* The row a worker claimed does not change under it while it owns it.
THEOREM SnapshotsFresh == Spec => []OwnerSnapshotFresh
<1>1. IInv => OwnerSnapshotFresh
  BY DEF IInv
<1> QED  BY <1>1, Invariance, PTL

\* At most one Printful order per Shopify order is in production, and the job
\* row names it.
THEOREM OneOrderProduced == Spec => []ProducedIsRecorded
<1>1. IInv => ProducedIsRecorded
  BY DEF IInv
<1> QED  BY <1>1, Invariance, PTL

\* SUBMITTED is only ever shown of an order that Printful produces.
THEOREM SubmittedIsTrue == Spec => []SubmittedIsProduced
<1>1. IInv => SubmittedIsProduced
  BY DEF IInv, SubmittedSucceeded, SucceededIsProduced, SubmittedIsProduced
<1> QED  BY <1>1, Invariance, PTL

\* An order cancelled in time is never queued, claimed or produced.
THEOREM CancelledStaysOut == Spec => []CancelledInTimeStaysOut
<1>1. IInv => CancelledInTimeStaysOut
  BY RealRemote DEF IInv, CancelledInTime, ProducedIsRecorded, CancelledInTimeStaysOut
<1> QED  BY <1>1, Invariance, PTL
-----------------------------------------------------------------------------
(***************************************************************************)
(* What no step of the order pipeline does, for any orders, workers and    *)
(* attempts: forget a Printful order that still exists, or put a job into  *)
(* the queue of a workspace whose automation is off.                       *)
(***************************************************************************)

Remembers(o) ==
  job[o].remoteId \notin {NoRemote, job'[o].remoteId} => remote[o][job[o].remoteId] = "GONE"

Drains(o) ==
  ~Enabled /\ automation' = "OFF" /\ job'[o].status \in Queued =>
    \/ job[o].status \in Queued
    \/ job[o].status = "ABSENT" /\ hook'[o]["SAW_ON"] < hook[o]["SAW_ON"]

Careful == \A o \in Orders : Remembers(o) /\ Drains(o)

-----------------------------------------------------------------------------
\* A step that writes no job is careful.
LEMMA RowsKept == ASSUME UNCHANGED job PROVE Careful
  BY DEF Careful, Remembers, Drains

\* So is one that writes a row with the remote id it had and queues it, if it
\* does, while automation is on.
LEMMA RowWritten ==
  ASSUME IInv, NEW p \in Orders, NEW row, job' = [job EXCEPT ![p] = row],
         row.remoteId = job[p].remoteId,
         row.status \in Queued => job[p].status \in Queued \/ Enabled
  PROVE  Careful
<1>1. \A o \in Orders : job'[o] = IF o = p THEN row ELSE job[o]
  BY DEF IInv, TypeOK
<1> QED  BY <1>1 DEF Careful, Remembers, Drains

\* The guard trigger lets no released row be queued while automation is off.
LEMMA ReleasedRow ==
  ASSUME NEW j \in JobRow, NEW status \in Queued \cup {"HELD", "SUCCEEDED"}
  PROVE  /\ Release(j, status) \in JobRow /\ Release(j, status).remoteId = j.remoteId
         /\ Release(j, status).status \in Queued => Enabled
<1>1. /\ Release(j, status) \in JobRow /\ Release(j, status).remoteId = j.remoteId
  BY Releases
<1>2. Release(j, status).status = Guarded(status)
  BY DEF Release, JobRow
<1>3. Guarded(status) \in Queued => Enabled
  BY DEF Guarded, Queued, Phases
<1> QED  BY <1>1, <1>2, <1>3

\* A row that is given back with its remote id, its quote or its attempts
\* changed or not, is given back carefully.
LEMMA GivenBack ==
  ASSUME IInv, NEW p \in Orders, NEW status \in Queued \cup {"HELD", "SUCCEEDED"}, NEW row,
         job' = [job EXCEPT ![p] = row],
         row.remoteId = Release(job[p], status).remoteId,
         row.status = Release(job[p], status).status
  PROVE  Careful
<1>1. job[p] \in JobRow
  BY DEF IInv, TypeOK
<1> QED  BY <1>1, ReleasedRow, RowWritten

-----------------------------------------------------------------------------
\* A claimed row is running, not queued.
LEMMA ClaimCareful ==
  ASSUME IInv, NEW w \in Workers, NEW o \in Orders, Claim(w, o) PROVE Careful
<1> DEFINE row == [job[o] EXCEPT !.status = "RUNNING", !.attempts = @ + 1,
                                 !.lockedBy = w, !.leased = TRUE]
<1>1. job[o] \in JobRow
  BY DEF IInv, TypeOK
<1>2. row.remoteId = job[o].remoteId /\ row.status = "RUNNING"
  BY <1>1 DEF JobRow
<1>3. job' = [job EXCEPT ![o] = row]
  BY DEF Claim
<1> QED  BY <1>2, <1>3, RowWritten DEF Queued, Phases

\* A lease that runs out changes nothing else.
LEMMA ExpireCareful == ASSUME IInv, NEW o \in Orders, ExpireLease(o) PROVE Careful
<1> DEFINE row == [job[o] EXCEPT !.leased = FALSE]
<1>1. job[o] \in JobRow
  BY DEF IInv, TypeOK
<1>2. row.remoteId = job[o].remoteId /\ row.status = job[o].status
  BY <1>1 DEF JobRow
<1>3. job' = [job EXCEPT ![o] = row]
  BY DEF ExpireLease, IInv, TypeOK
<1> QED  BY <1>2, <1>3, RowWritten

\* draftCreated gives a row its Printful order only where it had none.
LEMMA DraftCareful ==
  ASSUME IInv, NEW w \in Workers, worker[w].pc = "write", worker[w].todo = "draft",
         DraftCreated(w)
  PROVE  Careful
<1> USE DEF IInv
<1> DEFINE o == OrderOf(w)
           row == [Release(job[o], "WAITING_COST") EXCEPT !.remoteId = worker[w].found]
<1>1. o \in Orders /\ JobOf(w) = job[o] /\ Busy(w)
  BY DEF TicksWellFormed, OrderOf, JobOf, Busy
<1>2. CASE JobOf(w).lockedBy = w
  <2>1. job[o].remoteId = NoRemote
    BY <1>1, <1>2 DEF OwnerSnapshotFresh, TicksWellFormed, Busy
  <2>2. job' = [job EXCEPT ![o] = row]
    BY <1>1, <1>2 DEF DraftCreated, TypeOK
  <2>3. row.status = Release(job[o], "WAITING_COST").status /\ job[o] \in JobRow
    BY <1>1, Releases DEF Queued, Phases, JobRow, TypeOK
  <2>4. row.status \in Queued => Enabled
    BY <2>3, ReleasedRow DEF Queued, Phases
  <2>5. \A p \in Orders : job'[p] = IF p = o THEN row ELSE job[p]
    BY <2>2 DEF TypeOK
  <2> QED  BY <2>1, <2>4, <2>5 DEF Careful, Remembers, Drains
<1>3. CASE UNCHANGED job
  BY <1>3, RowsKept
<1> QED  BY <1>2, <1>3 DEF DraftCreated

\* The other store calls give a row back with the Printful order it names.
LEMMA WriteCareful == ASSUME IInv, NEW w \in Workers, Write(w) PROVE Careful
<1> USE DEF IInv
<1> DEFINE o == OrderOf(w)
<1>1. o \in Orders /\ JobOf(w) = job[o] /\ job[o] \in JobRow /\ worker[w].phase \in Queued
  BY DEF Write, TicksWellFormed, OrderOf, JobOf, Busy, TypeOK, Tick, Queued
<1>2. CASE UNCHANGED job
  BY <1>2, RowsKept
<1>3. ASSUME NEW status \in Queued \cup {"HELD", "SUCCEEDED"},
             job' = [job EXCEPT ![o] = Release(job[o], status)]
      PROVE  Careful
  BY <1>1, <1>3, GivenBack
<1>4. ASSUME NEW status \in Queued \cup {"HELD"}, NEW quoted \in BOOLEAN,
             job' = [job EXCEPT ![o] = [Release(job[o], status) EXCEPT !.quoted = quoted]]
      PROVE  Careful
  <2>1. Release(job[o], status) \in JobRow
    BY <1>1, Releases
  <2> QED  BY <1>1, <1>4, <2>1, Requotes, GivenBack
<1>5. CASE worker[w].todo = "draft" /\ DraftCreated(w)
  BY <1>5, DraftCareful DEF Write
<1>6. ASSUME NEW status \in Queued, BackTo(w, status) PROVE Careful
  BY <1>1, <1>2, <1>3, <1>6 DEF BackTo, TypeOK
<1>7. CASE ReadyConfirm(w)
  BY <1>1, <1>2, <1>4, <1>7 DEF ReadyConfirm, TypeOK, Queued, Phases
<1>8. CASE Defer(w)
  <2> DEFINE given == Release(job[o], worker[w].phase)
             row == [given EXCEPT !.attempts = IF @ = 0 THEN 0 ELSE @ - 1]
  <2>1. given \in JobRow
    BY <1>1, Releases
  <2>2. row.remoteId = given.remoteId /\ row.status = given.status
    BY <2>1 DEF JobRow
  <2>3. CASE job' = [job EXCEPT ![o] = row]
    BY <1>1, <2>2, <2>3, GivenBack
  <2> QED  BY <1>1, <1>2, <1>8, <2>3 DEF Defer
<1>9. ASSUME NEW quoted \in BOOLEAN, Hold(w, quoted) PROVE Careful
  BY <1>1, <1>2, <1>4, <1>9 DEF Hold, TypeOK
<1>10. CASE Success(w)
  BY <1>1, <1>2, <1>3, <1>10 DEF Success, TypeOK
<1> QED  BY <1>1, <1>5, <1>6, <1>7, <1>8, <1>9, <1>10 DEF Write, Queued, Phases

-----------------------------------------------------------------------------
\* A cancellation only takes jobs out of the queue.
LEMMA CancelCareful ==
  ASSUME IInv, NEW o \in Orders, job' = [job EXCEPT ![o] = CancelledJob(job[o])]
  PROVE  Careful
<1>1. CASE CancelledJob(job[o]) = job[o]
  BY <1>1, RowWritten
<1>2. CASE CancelledJob(job[o]) = Release(job[o], "HELD")
  BY <1>2, GivenBack
<1> QED  BY <1>1, <1>2 DEF CancelledJob

\* A webhook queues a job only where there was none, and only if the control was
\* on when it read it.
LEMMA HookCareful ==
  ASSUME IInv, NEW o \in Orders, NEW saw \in Sights, NEW topic \in Topics,
         NEW fixed \in BOOLEAN, NEW live \in Facts, HookCommit(o, saw, topic, fixed, live)
  PROVE  Careful
<1> USE DEF IInv
<1>1. CASE UNCHANGED job
  BY <1>1, RowsKept
<1>2. CASE CancelVisible(o)
  BY <1>2, CancelCareful DEF HookCommit, TypeOK
<1>3. ASSUME ~CancelVisible(o), job[o].status = "ABSENT", saw # "SAW_OFF",
             NEW j \in FirstJobs, job' = [job EXCEPT ![o] = j]
      PROVE  Careful
  <2>1. hook'[o]["SAW_ON"] < hook[o]["SAW_ON"]
    <3>1. saw = "SAW_ON" /\ hook \in [Orders -> [Sights -> Nat]]
      BY <1>3 DEF Sights, TypeOK
    <3>2. hook' = [hook EXCEPT ![o][saw] = @ - 1]
      BY DEF HookCommit
    <3> QED  BY <3>1, <3>2
  <2>2. job[o].remoteId = NoRemote
    BY <1>3 DEF PendingHasNoRemote
  <2>3. \A p \in Orders : job'[p] = IF p = o THEN j ELSE job[p]
    BY <1>3 DEF TypeOK
  <2> QED  BY <1>3, <2>1, <2>2, <2>3 DEF Careful, Remembers, Drains
<1>4. CASE ~CancelVisible(o) /\ saw = "SAW_OFF"
  BY <1>1, <1>4, Verdicts DEF HookCommit
<1> QED  BY <1>1, <1>2, <1>3, <1>4 DEF HookCommit

\* orders/cancelled only takes jobs out of the queue.
LEMMA CancelHookCareful == ASSUME IInv, NEW o \in Orders, CancelHook(o) PROVE Careful
  BY CancelCareful, RowsKept DEF CancelHook, IInv, TypeOK

\* The stop trigger holds queued jobs and leaves the others alone.
LEMMA StopCareful == ASSUME IInv, StopBegin PROVE Careful
<1>1. \A o \in Orders : job[o] \in JobRow
  BY DEF IInv, TypeOK
<1>2. \A o \in Orders : job'[o] = IF job[o].status \in Queued THEN Release(job[o], "HELD")
                                                              ELSE job[o]
  BY DEF StopBegin
<1>3. \A o \in Orders : job'[o].remoteId = job[o].remoteId
  BY <1>1, <1>2, ReleasedRow
<1> QED  BY <1>3 DEF Careful, Remembers, Drains, StopBegin, Enabled

\* The operator requeues held jobs while automation is on, and only those that
\* name no Printful order.
LEMMA ActCareful ==
  ASSUME IInv, NEW o \in Orders, NEW action \in Actions, Act(o, action) PROVE Careful
<1> USE DEF IInv
<1> DEFINE status == IF Outcome(o, action) = "READY" /\ ~Enabled THEN "HELD"
                     ELSE Outcome(o, action)
<1>1. PICK j \in {job[o], Requeued(job[o]), Rejected(job[o])} :
        /\ job' = [job EXCEPT ![o] = j]
        /\ j \in {job[o], Rejected(job[o])} \/ (j = Requeued(job[o]) /\ Enabled)
  <2>1. job' = [job EXCEPT ![o] = CASE status = "READY" -> Requeued(job[o])
                                    [] status = "REJECTED" -> Rejected(job[o])
                                    [] OTHER -> job[o]]
    BY DEF Act, TypeOK
  <2>2. status = "READY" => Enabled
    OBVIOUS
  <2> HIDE DEF status
  <2> QED  BY <2>1, <2>2
<1>2. job[o] \in JobRow
  BY DEF TypeOK
<1>3. j.remoteId = job[o].remoteId
  BY <1>2, ActedJob
<1>4. CASE j = Requeued(job[o]) /\ Enabled
  BY <1>1, <1>3, <1>4, RowWritten
<1>5. CASE j = Rejected(job[o])
  <2>1. j = job[o] \/ j = Release(job[o], "HELD")
    BY <1>5 DEF Rejected
  <2> QED  BY <1>1, <1>3, <2>1, GivenBack, RowWritten
<1>6. CASE j = job[o]
  BY <1>1, <1>6, RowWritten
<1> QED  BY <1>1, <1>4, <1>5, <1>6

\* A clean-up forgets an order only after it is gone.
LEMMA SettleCareful == ASSUME IInv, NEW o \in Orders, CleanupSettle(o) PROVE Careful
<1> USE DEF IInv
<1>1. job[o].remoteId = cleaner[o].remoteId /\ remote[o][job[o].remoteId] = "GONE"
  BY DEF CleanupSettle, CleanupHasJob
<1>2. job[o].status = "HELD" /\ job[o] \in JobRow
  BY DEF CleanupSettle, CleanupHasJob, TypeOK
<1>3. \A p \in Orders : job'[p] = IF p = o THEN [job[o] EXCEPT !.remoteId = NoRemote] ELSE job[p]
  BY <1>1, <1>2 DEF CleanupSettle, TypeOK
<1>4. [job[o] EXCEPT !.remoteId = NoRemote].status = "HELD"
  BY <1>2 DEF JobRow
<1> QED  BY <1>1, <1>3, <1>4 DEF Careful, Remembers, Drains, Queued, Phases

-----------------------------------------------------------------------------
\* Every step of the pipeline is careful.
LEMMA StepCareful == IInv /\ [Next]_vars => Careful
<1> SUFFICES ASSUME IInv, [Next]_vars PROVE Careful
  OBVIOUS
<1>1. CASE JobsNext
  <2>1. ASSUME NEW w \in Workers, WorkerStep(w) PROVE Careful
    <3>1. CASE Write(w)
      BY <3>1, WriteCareful
    <3>2. CASE UNCHANGED job
      BY <3>2, RowsKept
    <3> QED  BY <2>1, <3>1, <3>2 DEF WorkerStep, Gate, LookupDraft, InspectCost, InspectDraft,
               ProviderFails, StoreFails, Renew, CreateDraft, ConfirmDraft
  <2>2. ASSUME NEW w \in Workers, Crash(w) PROVE Careful
    BY <2>2, RowsKept DEF Crash
  <2>3. ASSUME NEW o \in Orders, NEW r \in RemoteIds, PrintfulMoves(o, r) PROVE Careful
    BY <2>3, RowsKept DEF PrintfulMoves
  <2> QED  BY <1>1, <2>1, <2>2, <2>3, ClaimCareful, ExpireCareful DEF JobsNext
<1>2. CASE ShopifyNext
  <2>1. ASSUME NEW o \in Orders,
               HookRead(o) \/ CancelCommit(o) \/ \E saw \in Sights : HookRollback(o, saw)
        PROVE  Careful
    BY <2>1, RowsKept DEF HookRead, HookRollback, CancelCommit
  <2> QED  BY <1>2, <2>1, HookCareful, CancelHookCareful DEF ShopifyNext
<1>3. CASE OperationsNext
  <2>1. CASE Enable \/ StopCommit
    BY <2>1, RowsKept DEF Enable, StopCommit
  <2>2. ASSUME NEW o \in Orders,
               CleanupSelect(o) \/ CleanupInspect(o) \/ CleanupDelete(o) \/ CleanupAbandon(o)
        PROVE  Careful
    BY <2>2, RowsKept DEF CleanupSelect, CleanupInspect, CleanupDelete, CleanupAbandon
  <2> QED  BY <1>3, <2>1, <2>2, StopCareful, ActCareful, SettleCareful DEF OperationsNext
<1>4. CASE UNCHANGED vars
  BY <1>4, RowsKept DEF vars
<1> QED  BY <1>1, <1>2, <1>3, <1>4 DEF Next

\* No store call, operator action or clean-up loses track of a Printful order
\* that still exists.
THEOREM DraftsNotForgotten == Spec => RemoteIdNeverForgotten
<1>1. IInv /\ [Next]_vars =>
        [\A o \in Orders :
           job[o].remoteId \notin {NoRemote, job'[o].remoteId} =>
             remote[o][job[o].remoteId] = "GONE"]_vars
  BY StepCareful DEF Careful, Remembers
<1> QED  BY <1>1, Invariance, PTL DEF Spec, RemoteIdNeverForgotten

\* While automation is off no actor puts a job into the queue, but for a webhook
\* that had read the control before.
THEOREM StoppedDrains == Spec => StoppedQueueOnlyDrains
<1>1. IInv /\ [Next]_vars =>
        [~Enabled /\ automation' = "OFF" =>
           \A o \in Orders : job'[o].status \in Queued =>
             job[o].status \in Queued \/ (job[o].status = "ABSENT" /\ hook'[o]["SAW_ON"] < hook[o]["SAW_ON"])]_vars
  BY StepCareful DEF Careful, Drains
<1> QED  BY <1>1, Invariance, PTL DEF Spec, StoppedQueueOnlyDrains
-----------------------------------------------------------------------------
(***************************************************************************)
(* The way around the cost check, for any orders, workers and attempts:    *)
(* only the stale quote of a draft that was cleaned up.                    *)
(***************************************************************************)

Cleaned(o) == \E s \in RemoteIds : remote[o][s] = "GONE"
Cleared(o, r) == r \in vetted[o] \/ Cleaned(o)

\* A quote is that of the draft in the row, or of one that was cleaned up; a row
\* that a worker could confirm names a draft that was priced, or is such a row.
RowCleared(o, j) ==
  /\ j.quoted /\ j.remoteId = NoRemote => Cleaned(o)
  /\ /\ j.remoteId # NoRemote
     /\ j.status = "READY_CONFIRM" \/ (j.quoted /\ j.status \in Queued \cup {"RUNNING"})
     => Cleared(o, j.remoteId)

\* So is the draft that a worker is about to confirm.
TickCleared(w) ==
  Busy(w) /\ worker[w].phase = "READY_CONFIRM" /\ worker[w].remoteId # NoRemote =>
    Cleared(OrderOf(w), worker[w].remoteId)

VInv ==
  /\ IInv /\ UnvettedOnlyAfterCleanup
  /\ \A o \in Orders : RowCleared(o, job[o])
  /\ \A w \in Workers : TickCleared(w)

-----------------------------------------------------------------------------
\* Steps that write rows, none of them for a draft just priced.
LEMMA RowsVetted ==
  ASSUME VInv, UNCHANGED <<remote, vetted>>,
         \A w \in Workers : worker'[w] = worker[w] \/ ~Busy(w)',
         \A o \in Orders : RowCleared(o, job'[o]), IInv'
  PROVE  VInv'
<1> USE DEF VInv
<1>1. UnvettedOnlyAfterCleanup'
  BY DEF UnvettedOnlyAfterCleanup
<1>2. \A o \in Orders : RowCleared(o, job[o])'
  BY DEF RowCleared, Cleared, Cleaned
<1>3. \A w \in Workers : TickCleared(w)'
  BY DEF TickCleared, Busy, OrderOf, Cleared, Cleaned
<1> QED  BY <1>1, <1>2, <1>3

\* A row that stays clear of unpriced drafts: none is given a quote, made
\* confirmable or put back to work that was not before.
LEMMA StaysCleared ==
  ASSUME NEW o \in Orders, NEW j, NEW k, RowCleared(o, j),
         k.remoteId = j.remoteId, k.quoted => j.quoted,
         k.remoteId # NoRemote /\ k.status \in Queued \cup {"RUNNING"} =>
           j.status \in Queued \cup {"RUNNING"},
         k.remoteId # NoRemote /\ k.status = "READY_CONFIRM" => Cleared(o, j.remoteId)
  PROVE  RowCleared(o, k)
  BY DEF RowCleared

\* One row is written, and no tick begins.
LEMMA RowVetted ==
  ASSUME VInv, IInv', NEW p \in Orders, NEW row, job' = [job EXCEPT ![p] = row],
         RowCleared(p, row), UNCHANGED <<remote, vetted>>,
         \A w \in Workers : worker'[w] = worker[w] \/ ~Busy(w)'
  PROVE  VInv'
<1>1. \A o \in Orders : job'[o] = IF o = p THEN row ELSE job[o]
  BY DEF VInv, IInv, TypeOK
<1>2. \A o \in Orders : RowCleared(o, job'[o])
  BY <1>1 DEF VInv
<1> QED  BY <1>2, RowsVetted

\* Steps that move a tick on, or end it.
LEMMA ReadVetted ==
  ASSUME VInv, IInv', NEW w \in Workers, Onward(w) \/ Ended(w), UNCHANGED <<job, remote, vetted>>
  PROVE  VInv'
<1> USE DEF VInv
<1>1. UnvettedOnlyAfterCleanup' /\ \A o \in Orders : RowCleared(o, job[o])'
  BY DEF UnvettedOnlyAfterCleanup, RowCleared, Cleared, Cleaned
<1>2. \A x \in Workers : TickCleared(x)'
  BY DEF TickCleared, Busy, OrderOf, Cleared, Cleaned, Onward, SameTick, Ended
<1> QED  BY <1>1, <1>2

\* Steps that change Printful, where a confirmed order was cleared.
LEMMA RemoteVetted ==
  ASSUME VInv, IInv', UNCHANGED worker \/ \E w \in Workers : Onward(w), UNCHANGED <<job, vetted>>,
         NEW o \in Orders, NEW r \in RemoteIds, NEW status \in RemoteStatus,
         remote' = [remote EXCEPT ![o] = [@ EXCEPT ![r] = status]],
         remote[o][r] # "GONE" \/ status = "GONE",
         status \in Produced => remote[o][r] \in Produced \/ Cleared(o, r)
  PROVE  VInv'
<1> USE DEF VInv
<1>1. \A p \in Orders, s \in RemoteIds :
        remote'[p][s] = IF p = o /\ s = r THEN status ELSE remote[p][s]
  BY OneRemote DEF IInv
<1>2. \A p \in Orders : Cleaned(p) => Cleaned(p)'
  BY <1>1 DEF Cleaned
<1>3. \A p \in Orders, s \in RemoteIds \cup {NoRemote} : Cleared(p, s) => Cleared(p, s)'
  BY <1>2 DEF Cleared
<1>4. UnvettedOnlyAfterCleanup'
  <2> SUFFICES ASSUME NEW p \in Orders, NEW s \in RemoteIds,
                      remote'[p][s] \in Produced, s \notin vetted'[p]
               PROVE  Cleaned(p)'
    BY DEF UnvettedOnlyAfterCleanup, Cleaned
  <2>1. CASE remote[p][s] \in Produced
    BY <1>2, <2>1 DEF UnvettedOnlyAfterCleanup, Cleaned
  <2>2. CASE remote[p][s] \notin Produced
    BY <1>1, <1>3, <2>2 DEF Cleared
  <2> QED  BY <2>1, <2>2
<1>5. \A p \in Orders : job[p].remoteId \in RemoteIds \cup {NoRemote}
  BY DEF IInv, TypeOK, JobRow
<1>6. \A p \in Orders : RowCleared(p, job[p])'
  <2> SUFFICES ASSUME NEW p \in Orders PROVE RowCleared(p, job[p])'
    OBVIOUS
  <2>1. RowCleared(p, job[p]) /\ job'[p] = job[p]
    OBVIOUS
  <2>2. Cleared(p, job[p].remoteId) => Cleared(p, job[p].remoteId)'
    BY <1>3, <1>5
  <2> QED  BY <1>2, <2>1, <2>2 DEF RowCleared
<1>7. \A w \in Workers : TickCleared(w)'
  <2> SUFFICES ASSUME NEW w \in Workers, Busy(w)', (worker[w].phase = "READY_CONFIRM")',
                      (worker[w].remoteId # NoRemote)'
               PROVE  Cleared(OrderOf(w), worker[w].remoteId)'
    BY DEF TickCleared
  <2>1. /\ Busy(w) /\ worker'[w].order = worker[w].order
        /\ worker'[w].phase = worker[w].phase /\ worker'[w].remoteId = worker[w].remoteId
    BY DEF Onward, SameTick, Busy
  <2>2. OrderOf(w) \in Orders /\ worker[w].remoteId \in RemoteIds \cup {NoRemote}
    BY <2>1 DEF IInv, TypeOK, Tick, TicksWellFormed, OrderOf
  <2>3. Cleared(OrderOf(w), worker[w].remoteId)
    BY <2>1 DEF TickCleared
  <2>4. Cleared(OrderOf(w), worker[w].remoteId)'
    BY <1>3, <2>1, <2>2, <2>3 DEF OrderOf, Cleared, Cleaned
  <2> QED  BY <2>4
<1> QED  BY <1>4, <1>6, <1>7

-----------------------------------------------------------------------------
\* A claimed row keeps its columns, and the tick takes its phase from them.
LEMMA ClaimVetted ==
  ASSUME VInv, IInv', NEW w \in Workers, NEW o \in Orders, Claim(w, o) PROVE VInv'
<1> USE DEF VInv
<1> DEFINE row == [job[o] EXCEPT !.status = "RUNNING", !.attempts = @ + 1,
                                 !.lockedBy = w, !.leased = TRUE]
           tick == [Idle EXCEPT !.pc = "gate", !.order = o, !.phase = PhaseOf(job[o]),
                                !.remoteId = job[o].remoteId, !.attempt = job[o].attempts + 1]
<1>1. /\ job' = [job EXCEPT ![o] = row] /\ worker' = [worker EXCEPT ![w] = tick]
      /\ UNCHANGED <<remote, vetted>>
  <2>1. job' = [job EXCEPT ![o] = row]
    BY DEF Claim
  <2>2. worker' = [worker EXCEPT ![w] = tick]
    BY DEF Claim
  <2> QED  BY <2>1, <2>2 DEF Claim
<1>2. job[o] \in JobRow /\ job[o].status \in Queued \cup {"RUNNING"} /\ RowCleared(o, job[o])
  BY DEF Claim, Claimable, IInv, TypeOK
<1>3. /\ row.status = "RUNNING" /\ row.remoteId = job[o].remoteId /\ row.quoted = job[o].quoted
      /\ tick.order = o /\ tick.phase = PhaseOf(job[o]) /\ tick.remoteId = job[o].remoteId
  BY <1>2 DEF JobRow, Idle
<1> HIDE DEF row, tick
<1>4. /\ \A p \in Orders : job'[p] = IF p = o THEN row ELSE job[p]
      /\ \A x \in Workers : worker'[x] = IF x = w THEN tick ELSE worker[x]
  BY <1>1 DEF IInv, TypeOK
<1>5. RowCleared(o, row)
  BY <1>2, <1>3 DEF RowCleared
<1>6. PhaseOf(job[o]) = "READY_CONFIRM" /\ job[o].remoteId # NoRemote => Cleared(o, job[o].remoteId)
  BY <1>2 DEF PhaseOf, RowCleared, Queued, Phases
<1>7. UnvettedOnlyAfterCleanup' /\ \A p \in Orders : RowCleared(p, job[p])'
  BY <1>1, <1>4, <1>5 DEF UnvettedOnlyAfterCleanup, RowCleared, Cleared, Cleaned
<1>8. \A x \in Workers : TickCleared(x)'
  BY <1>1, <1>3, <1>4, <1>6 DEF TickCleared, Busy, OrderOf, Cleared, Cleaned
<1> QED  BY <1>7, <1>8

\* A row that its worker gives back with the quote it has stays clear.
LEMMA GivenBackCleared ==
  ASSUME VInv, NEW w \in Workers, Busy(w), JobOf(w).lockedBy = w,
         NEW status \in Queued \cup {"HELD", "SUCCEEDED"},
         status = "READY_CONFIRM" => worker[w].phase = "READY_CONFIRM", NEW row,
         row.status = Release(JobOf(w), status).status, row.remoteId = JobOf(w).remoteId,
         row.quoted => JobOf(w).quoted
  PROVE  RowCleared(OrderOf(w), row)
<1> USE DEF VInv, IInv
<1> DEFINE o == OrderOf(w)
<1>1. o \in Orders /\ JobOf(w) = job[o] /\ job[o] \in JobRow /\ w # NoWorker
  BY NoneAssumption DEF TicksWellFormed, OrderOf, JobOf, TypeOK
<1>2. job[o].status = "RUNNING" /\ job[o].remoteId = worker[w].remoteId
  BY <1>1 DEF LockColumns, OwnerSnapshotFresh, Busy
<1>3. row.status \in {status, "HELD"}
  BY <1>1, Releases
<1>4. row.status = "READY_CONFIRM" /\ row.remoteId # NoRemote => Cleared(o, job[o].remoteId)
  BY <1>1, <1>2, <1>3 DEF TickCleared
<1> QED  BY <1>1, <1>2, <1>4, StaysCleared

\* A store call that gives the row back with the quote it has.
LEMMA GivenBackVetted ==
  ASSUME VInv, IInv', NEW w \in Workers, Busy(w), JobOf(w).lockedBy = w,
         NEW status \in Queued \cup {"HELD", "SUCCEEDED"},
         status = "READY_CONFIRM" => worker[w].phase = "READY_CONFIRM", NEW row,
         row.status = Release(JobOf(w), status).status, row.remoteId = JobOf(w).remoteId,
         row.quoted => JobOf(w).quoted, job' = [job EXCEPT ![OrderOf(w)] = row],
         Ended(w), UNCHANGED <<remote, vetted>>
  PROVE  VInv'
<1>1. OrderOf(w) \in Orders
  BY DEF VInv, IInv, TicksWellFormed, OrderOf
<1>2. RowCleared(OrderOf(w), row)
  BY GivenBackCleared
<1>3. \A x \in Workers : worker'[x] = worker[x] \/ ~Busy(x)'
  BY DEF Ended, Busy
<1> QED  BY <1>1, <1>2, <1>3, RowVetted

\* draftCreated records a draft under the quote the row had, if any: that of a
\* draft that was cleaned up.
LEMMA DraftVetted ==
  ASSUME VInv, IInv', NEW w \in Workers, worker[w].pc = "write", worker[w].todo = "draft",
         JobOf(w).lockedBy = w, DraftCreated(w), Ended(w), UNCHANGED <<remote, vetted>>
  PROVE  VInv'
<1> USE DEF VInv, IInv
<1> DEFINE o == OrderOf(w)
           given == Release(job[o], "WAITING_COST")
           row == [given EXCEPT !.remoteId = worker[w].found]
<1>1. o \in Orders /\ JobOf(w) = job[o] /\ job[o] \in JobRow /\ Busy(w)
  BY DEF TicksWellFormed, OrderOf, JobOf, TypeOK, Busy
<1>2. job[o].remoteId = NoRemote
  BY <1>1 DEF OwnerSnapshotFresh, TicksWellFormed, Busy
<1>3. given \in JobRow /\ given.status \in {"WAITING_COST", "HELD"} /\ given.quoted = job[o].quoted
  BY <1>1, Releases DEF Queued, Phases
<1>4. row.status \in {"WAITING_COST", "HELD"} /\ row.quoted = job[o].quoted
  BY <1>3 DEF JobRow
<1>5. job' = [job EXCEPT ![o] = row]
  BY <1>1 DEF DraftCreated
<1> HIDE DEF row, given
<1>6. RowCleared(o, job[o])
  BY <1>1
<1>7. RowCleared(o, row)
  BY <1>2, <1>4, <1>6 DEF RowCleared, Cleared
<1>8. \A x \in Workers : worker'[x] = worker[x] \/ ~Busy(x)'
  BY DEF Ended, Busy
<1> QED  BY <1>1, <1>5, <1>7, <1>8, RowVetted

\* readyConfirm records the cost it accepted: that of the draft in the row.
LEMMA ReadyVetted ==
  ASSUME VInv, IInv', NEW w \in Workers, worker[w].pc = "write", worker[w].todo = "ready",
         JobOf(w).lockedBy = w, ReadyConfirm(w), Ended(w), UNCHANGED remote
  PROVE  VInv'
<1> USE DEF VInv, IInv
<1> DEFINE o == OrderOf(w)
           given == Release(job[o], "READY_CONFIRM")
           row == [given EXCEPT !.quoted = TRUE]
<1>1. o \in Orders /\ JobOf(w) = job[o] /\ job[o] \in JobRow /\ Busy(w)
  BY DEF TicksWellFormed, OrderOf, JobOf, TypeOK, Busy
<1>2. job[o].remoteId = worker[w].remoteId /\ worker[w].remoteId # NoRemote
  BY <1>1 DEF OwnerSnapshotFresh, TicksWellFormed, Busy
<1>3. row.remoteId = worker[w].remoteId
  BY <1>1, <1>2, Releases, Requotes DEF Queued, Phases
<1>4. job' = [job EXCEPT ![o] = row] /\ vetted' = [vetted EXCEPT ![o] = @ \cup {worker[w].remoteId}]
  BY <1>1 DEF ReadyConfirm
<1> HIDE DEF row, given
<1>5. \A p \in Orders :
        /\ job'[p] = IF p = o THEN row ELSE job[p]
        /\ vetted'[p] = IF p = o THEN vetted[p] \cup {worker[w].remoteId} ELSE vetted[p]
  BY <1>4 DEF TypeOK
<1>6. UnvettedOnlyAfterCleanup'
  BY <1>5 DEF UnvettedOnlyAfterCleanup
<1>7. \A p \in Orders : RowCleared(p, job[p])'
  BY <1>2, <1>3, <1>5 DEF RowCleared, Cleared, Cleaned
<1>8. \A x \in Workers : TickCleared(x)'
  <2> SUFFICES ASSUME NEW x \in Workers, Busy(x)' PROVE TickCleared(x)'
    BY DEF TickCleared
  <2>1. worker'[x] = worker[x] /\ Busy(x)
    BY DEF Ended, Busy
  <2>2. worker[x].order \in Orders /\ TickCleared(x)
    BY <2>1 DEF TicksWellFormed
  <2> QED  BY <1>5, <2>1, <2>2 DEF TickCleared, OrderOf, Cleared, Cleaned
<1> QED  BY <1>6, <1>7, <1>8

\* hold keeps a quote only with the draft it is the quote of.
LEMMA HoldVetted ==
  ASSUME VInv, IInv', NEW w \in Workers, NEW quoted \in BOOLEAN, worker[w].pc = "write",
         quoted => worker[w].todo = "holdQuoted",
         HoldsLease(w), Hold(w, quoted), Ended(w), UNCHANGED <<remote, vetted>>
  PROVE  VInv'
<1> USE DEF VInv, IInv
<1> DEFINE o == OrderOf(w)
           given == Release(job[o], "HELD")
           row == [given EXCEPT !.quoted = quoted]
<1>1. o \in Orders /\ JobOf(w) = job[o] /\ job[o] \in JobRow /\ Busy(w) /\ JobOf(w).lockedBy = w
  BY DEF TicksWellFormed, OrderOf, JobOf, TypeOK, Busy, HoldsLease, Owns
<1>2. quoted => job[o].remoteId # NoRemote
  BY <1>1 DEF OwnerSnapshotFresh, TicksWellFormed, Busy
<1>3. given \in JobRow /\ given.status = "HELD" /\ given.remoteId = job[o].remoteId
  BY <1>1, Releases DEF Queued, Phases
<1>4. row.status = "HELD" /\ row.remoteId = job[o].remoteId /\ row.quoted = quoted
  BY <1>3 DEF JobRow
<1>5. job' = [job EXCEPT ![o] = row]
  BY DEF Hold
<1> HIDE DEF row, given
<1>6. RowCleared(o, row)
  BY <1>2, <1>4 DEF RowCleared, Queued, Phases
<1>7. \A x \in Workers : worker'[x] = worker[x] \/ ~Busy(x)'
  BY DEF Ended, Busy
<1> QED  BY <1>1, <1>5, <1>6, <1>7, RowVetted

\* Every store call keeps rows and ticks clear of unpriced drafts.
LEMMA WriteVetted == ASSUME VInv, IInv', NEW w \in Workers, Write(w) PROVE VInv'
<1> USE DEF VInv
<1> DEFINE o == OrderOf(w)
<1>1. Busy(w) /\ Ended(w) /\ worker[w].pc = "write" /\ UNCHANGED remote
  BY IdleEnds DEF Write, Busy, IInv
<1>2. /\ o \in Orders /\ JobOf(w) = job[o] /\ job[o] \in JobRow
      /\ worker[w].phase \in Queued /\ Queued = Phases /\ "WAITING_COST" \in Queued
  BY <1>1 DEF IInv, TicksWellFormed, OrderOf, JobOf, TypeOK, Tick, Queued, Phases
<1>3. CASE UNCHANGED <<job, vetted>>
  BY <1>1, <1>3, ReadVetted
<1>4. CASE worker[w].todo = "draft" /\ DraftCreated(w) /\ UNCHANGED vetted
  BY <1>1, <1>3, <1>4, DraftVetted DEF DraftCreated
<1>5. ASSUME NEW status \in Queued, BackTo(w, status), UNCHANGED vetted,
             status = "READY_CONFIRM" => worker[w].phase = "READY_CONFIRM"
      PROVE  VInv'
  <2>1. CASE JobOf(w).lockedBy = w
    <3> DEFINE row == Release(job[o], status)
    <3>1. job' = [job EXCEPT ![o] = row]
      BY <1>5, <2>1 DEF BackTo
    <3>2. row.remoteId = job[o].remoteId /\ row.quoted = job[o].quoted
      BY <1>2, Releases
    <3> QED  BY <1>1, <1>2, <1>5, <2>1, <3>1, <3>2, GivenBackVetted
  <2> QED  BY <1>3, <1>5, <2>1 DEF BackTo
<1>6. CASE worker[w].todo = "ready" /\ ReadyConfirm(w)
  BY <1>1, <1>3, <1>6, ReadyVetted DEF ReadyConfirm
<1>7. CASE worker[w].todo = "defer" /\ Defer(w) /\ UNCHANGED vetted
  <2>1. CASE Owns(w)
    <3> DEFINE given == Release(JobOf(w), worker[w].phase)
               row == [given EXCEPT !.attempts = IF @ = 0 THEN 0 ELSE @ - 1]
    <3>1. job' = [job EXCEPT ![o] = row]
      BY <1>7, <2>1 DEF Defer
    <3>2. given \in JobRow /\ given.remoteId = job[o].remoteId /\ given.quoted = job[o].quoted
      BY <1>2, Releases
    <3>3. row.status = given.status /\ row.remoteId = job[o].remoteId /\ row.quoted = job[o].quoted
      BY <3>2 DEF JobRow
    <3> QED  BY <1>1, <1>2, <1>7, <2>1, <3>1, <3>3, GivenBackVetted DEF Owns
  <2> QED  BY <1>3, <1>7, <2>1 DEF Defer
<1>8. ASSUME NEW quoted \in BOOLEAN, Hold(w, quoted), UNCHANGED vetted,
             quoted => worker[w].todo = "holdQuoted"
      PROVE  VInv'
  <2>1. CASE HoldsLease(w)
    BY <1>1, <1>8, <2>1, HoldVetted
  <2> QED  BY <1>3, <1>8, <2>1 DEF Hold
<1>9. CASE worker[w].todo = "success" /\ Success(w) /\ UNCHANGED vetted
  <2>1. CASE HoldsLease(w)
    <3> DEFINE row == Release(job[o], "SUCCEEDED")
    <3>1. job' = [job EXCEPT ![o] = row]
      BY <1>9, <2>1 DEF Success
    <3>2. row.remoteId = job[o].remoteId /\ row.quoted = job[o].quoted
      BY <1>2, Releases
    <3> QED  BY <1>1, <1>2, <1>9, <2>1, <3>1, <3>2, GivenBackVetted DEF HoldsLease, Owns
  <2> QED  BY <1>3, <1>9, <2>1 DEF Success
<1> QED  BY <1>2, <1>4, <1>5, <1>6, <1>7, <1>8, <1>9 DEF Write

-----------------------------------------------------------------------------
\* A cancellation leaves rows clear of unpriced drafts.
LEMMA CancelledCleared ==
  ASSUME VInv, NEW o \in Orders PROVE RowCleared(o, CancelledJob(job[o]))
<1>1. RowCleared(o, job[o]) /\ job[o] \in JobRow
  BY DEF VInv, IInv, TypeOK
<1>2. /\ Release(job[o], "HELD").status = "HELD"
      /\ Release(job[o], "HELD").remoteId = job[o].remoteId
      /\ Release(job[o], "HELD").quoted = job[o].quoted
  BY <1>1, Releases DEF Queued, Phases
<1>3. RowCleared(o, Release(job[o], "HELD"))
  BY <1>1, <1>2, StaysCleared DEF Queued, Phases
<1> QED  BY <1>1, <1>3 DEF CancelledJob

\* A first job has neither a draft nor a quote.
LEMMA FirstJobCleared ==
  ASSUME TypeOK, NEW o \in Orders, NEW j \in FirstJobs PROVE RowCleared(o, j)
<1>1. j.remoteId = NoRemote
  BY FirstJobRows
<1>2. ~j.quoted
  BY DEF FirstJobs, QueuedJob, NoJob
<1> QED  BY <1>1, <1>2 DEF RowCleared

\* The webhooks of an order keep its row clear.
LEMMA WebhookVetted == ASSUME VInv, IInv', ShopifyNext PROVE VInv'
<1> USE DEF VInv
<1>1. UNCHANGED <<worker, remote, vetted>>
  <2>1. ASSUME NEW o \in Orders, NEW saw, NEW topic, NEW fixed, NEW live,
               HookCommit(o, saw, topic, fixed, live)
        PROVE  UNCHANGED <<worker, remote, vetted>>
    BY <2>1 DEF HookCommit
  <2>2. ASSUME NEW o \in Orders, NEW saw,
               HookRead(o) \/ HookRollback(o, saw) \/ CancelHook(o) \/ CancelCommit(o)
        PROVE  UNCHANGED <<worker, remote, vetted>>
    BY <2>2 DEF HookRead, HookRollback, CancelHook, CancelCommit
  <2> QED  BY <2>1, <2>2 DEF ShopifyNext
<1>2. CASE UNCHANGED job
  BY <1>1, <1>2, RowsVetted
<1>3. ASSUME NEW o \in Orders, NEW row, RowCleared(o, row), job' = [job EXCEPT ![o] = row]
      PROVE  VInv'
  BY <1>1, <1>3, RowVetted
<1>4. ASSUME NEW o \in Orders, CancelHook(o) PROVE VInv'
  BY <1>2, <1>3, <1>4, CancelledCleared DEF CancelHook, IInv, TypeOK
<1>5. ASSUME NEW o \in Orders, NEW saw \in Sights, NEW topic \in Topics,
             NEW fixed \in BOOLEAN, NEW live \in Facts, HookCommit(o, saw, topic, fixed, live)
      PROVE  VInv'
  <2>1. \/ UNCHANGED job
        \/ job' = [job EXCEPT ![o] = CancelledJob(job[o])]
        \/ \E j \in FirstJobs : job' = [job EXCEPT ![o] = j]
    BY <1>5 DEF HookCommit, IInv, TypeOK
  <2> QED  BY <1>2, <1>3, <2>1, CancelledCleared, FirstJobCleared DEF IInv
<1> QED  BY <1>2, <1>4, <1>5 DEF ShopifyNext, HookRead, HookRollback, CancelCommit

-----------------------------------------------------------------------------
\* What the operator makes of a job is clear: what is queued has no draft.
LEMMA ActedCleared ==
  ASSUME VInv, NEW o \in Orders, NEW j \in {job[o], Requeued(job[o]), Rejected(job[o])}
  PROVE  RowCleared(o, j)
<1>1. RowCleared(o, job[o]) /\ job[o] \in JobRow
  BY DEF VInv, IInv, TypeOK
<1>2. CASE j = QueuedJob
  BY <1>1, <1>2, Records DEF RowCleared, QueuedJob, NoJob, VInv, IInv
<1>3. CASE /\ job[o].remoteId = NoRemote
           /\ j = [job[o] EXCEPT !.status = Guarded("PENDING_DRAFT")]
  <2>1. j.remoteId = NoRemote /\ j.quoted = job[o].quoted
    BY <1>1, <1>3 DEF JobRow
  <2> QED  BY <1>1, <1>3, <2>1 DEF RowCleared
<1>4. CASE j = Release(job[o], "HELD")
  <2>1. j.status = "HELD" /\ j.remoteId = job[o].remoteId /\ j.quoted = job[o].quoted
    BY <1>1, <1>4, Releases DEF Queued, Phases
  <2> QED  BY <1>1, <2>1, StaysCleared DEF Queued, Phases
<1> QED  BY <1>1, <1>2, <1>3, <1>4 DEF Requeued, Rejected

\* The stop trigger only holds rows.
LEMMA StopVetted == ASSUME VInv, IInv', StopBegin PROVE VInv'
<1>1. UNCHANGED <<worker, remote, vetted>>
  BY DEF StopBegin
<1>2. ASSUME NEW o \in Orders PROVE RowCleared(o, job'[o])
  <2>1. RowCleared(o, job[o]) /\ job[o] \in JobRow
    BY DEF VInv, IInv, TypeOK
  <2>2. CASE job[o].status \in Queued
    <3>1. job'[o] = Release(job[o], "HELD")
      BY <2>2 DEF StopBegin
    <3>2. /\ job'[o].status = "HELD" /\ job'[o].remoteId = job[o].remoteId
          /\ job'[o].quoted = job[o].quoted
      BY <2>1, <3>1, Releases DEF Queued, Phases
    <3> QED  BY <2>1, <3>2, StaysCleared DEF Queued, Phases
  <2>3. CASE job[o].status \notin Queued
    BY <2>1, <2>3 DEF StopBegin
  <2> QED  BY <2>2, <2>3
<1> QED  BY <1>1, <1>2, RowsVetted

\* A clean-up that forgets a draft leaves the quote, and the draft is gone.
LEMMA SettleVetted == ASSUME VInv, IInv', NEW o \in Orders, CleanupSettle(o) PROVE VInv'
<1> USE DEF VInv, IInv
<1> DEFINE row == [job[o] EXCEPT !.remoteId = NoRemote]
<1>1. /\ job[o] \in JobRow /\ job[o].remoteId # NoRemote
      /\ remote[o][job[o].remoteId] = "GONE"
  BY DEF CleanupSettle, CleanupHasJob, TypeOK
<1>2. job' = [job EXCEPT ![o] = row]
  BY DEF CleanupSettle, CleanupHasJob, TypeOK
<1>3. row.remoteId = NoRemote
  BY <1>1 DEF JobRow
<1>4. Cleaned(o)
  BY <1>1 DEF Cleaned, JobRow
<1> HIDE DEF row
<1>5. RowCleared(o, row)
  BY <1>3, <1>4 DEF RowCleared
<1> QED  BY <1>2, <1>5, RowVetted DEF CleanupSettle

\* The operator's steps keep rows and ticks clear.
LEMMA OperatorVetted == ASSUME VInv, IInv', OperationsNext PROVE VInv'
<1>1. CASE UNCHANGED <<job, worker, remote, vetted>>
  BY <1>1, RowsVetted DEF VInv
<1>2. ASSUME NEW o \in Orders, NEW action \in Actions, Act(o, action) PROVE VInv'
  <2>1. PICK j \in {job[o], Requeued(job[o]), Rejected(job[o])} : job' = [job EXCEPT ![o] = j]
    BY <1>2 DEF Act, VInv, IInv, TypeOK
  <2>2. UNCHANGED <<worker, remote, vetted>>
    BY <1>2 DEF Act
  <2> QED  BY <2>1, <2>2, ActedCleared, RowVetted
<1>3. ASSUME NEW o \in Orders, CleanupDelete(o) PROVE VInv'
  <2>1. cleaner[o].remoteId \in RemoteIds /\ "GONE" \in RemoteStatus /\ "GONE" \notin Produced
    BY <1>3 DEF CleanupDelete, VInv, IInv, CleanupHasJob, TypeOK, Cleanup, RemoteStatus, Produced
  <2>2. /\ remote' = [remote EXCEPT ![o] = [@ EXCEPT ![cleaner[o].remoteId] = "GONE"]]
        /\ UNCHANGED <<job, worker, vetted>>
    BY <1>3 DEF CleanupDelete
  <2> QED  BY <2>1, <2>2, RemoteVetted
<1> QED  BY <1>1, <1>2, <1>3, StopVetted, SettleVetted
         DEF OperationsNext, Enable, StopCommit, CleanupSelect, CleanupInspect, CleanupAbandon

-----------------------------------------------------------------------------
\* A worker creates a draft, which nothing is known of.
LEMMA CreateVetted == ASSUME VInv, IInv', NEW w \in Workers, CreateDraft(w) PROVE VInv'
<1> USE DEF VInv, IInv
<1>1. PICK r \in RemoteIds :
        /\ remote[OrderOf(w)][r] = "NONE"
        /\ remote' = [remote EXCEPT ![OrderOf(w)] = [@ EXCEPT ![r] = "DRAFT"]]
        /\ \/ worker' = [worker EXCEPT ![w].pc = "write", ![w].todo = "draft", ![w].found = r]
           \/ \E todo \in LostAnswerTodos(w) : Plan(w, todo)
  BY DEF CreateDraft
<1>2. /\ OrderOf(w) \in Orders /\ Busy(w) /\ worker[w].phase = "PENDING_DRAFT"
      /\ UNCHANGED <<job, vetted>> /\ "DRAFT" \in RemoteStatus /\ "DRAFT" \notin Produced
  BY DEF CreateDraft, Busy, OrderOf, TicksWellFormed, RemoteStatus, Produced
<1>3. Onward(w)
  <2>1. remote'[OrderOf(w)][r] = "DRAFT" /\ r # NoRemote
    BY <1>1, <1>2, RealRemote DEF TypeOK
  <2>2. CASE worker' = [worker EXCEPT ![w].pc = "write", ![w].todo = "draft", ![w].found = r]
    BY <1>2, <2>1, <2>2, FoundMoves DEF Onward
  <2>3. CASE \E todo \in {"defer", "hold", "retry"} : Plan(w, todo)
    BY <1>2, <2>3, PlanMoves DEF Onward, Todo
  <2> QED  BY <1>1, <2>2, <2>3 DEF LostAnswerTodos, FaultTodos
<1> QED  BY <1>1, <1>2, <1>3, RemoteVetted

\* A worker confirms the draft it remembers, which is cleared.
LEMMA ConfirmVetted == ASSUME VInv, IInv', NEW w \in Workers, ConfirmDraft(w) PROVE VInv'
<1> USE DEF VInv, IInv
<1> DEFINE r == worker[w].remoteId
<1>1. /\ OrderOf(w) \in Orders /\ Busy(w) /\ r # NoRemote /\ r \in RemoteIds
      /\ worker[w].phase = "READY_CONFIRM" /\ UNCHANGED <<job, vetted>>
      /\ remote[OrderOf(w)][r] = "DRAFT" /\ "PENDING" \in RemoteStatus
      /\ remote' = [remote EXCEPT ![OrderOf(w)] = [@ EXCEPT ![r] = "PENDING"]]
  BY DEF ConfirmDraft, Busy, OrderOf, TicksWellFormed, TypeOK, Tick, RemoteStatus
<1>2. Cleared(OrderOf(w), r)
  BY <1>1 DEF TickCleared
<1>3. Onward(w)
  <2>1. remote'[OrderOf(w)][r] \in Produced
    BY <1>1 DEF TypeOK, Produced
  <2>2. PICK todo \in {"success", "defer", "hold", "retry"} : Plan(w, todo)
    BY DEF ConfirmDraft, LostAnswerTodos, FaultTodos
  <2> QED  BY <1>1, <2>1, <2>2, PlanMoves DEF Onward, Todo
<1> QED  BY <1>1, <1>2, <1>3, RemoteVetted

\* Printful produces nothing on its own.
LEMMA PrintfulVetted ==
  ASSUME VInv, IInv', NEW o \in Orders, NEW r \in RemoteIds, PrintfulMoves(o, r) PROVE VInv'
<1>1. PICK status \in RemoteStatus :
        /\ <<remote[o][r], status>> \in
             {<<"DRAFT", "FAILED">>, <<"PENDING", "SHIPPED">>, <<"PENDING", "CANCELED">>}
        /\ remote' = [remote EXCEPT ![o] = [@ EXCEPT ![r] = status]]
  BY DEF PrintfulMoves
<1>2. UNCHANGED <<job, worker, vetted>>
  BY DEF PrintfulMoves
<1>3. remote[o][r] # "GONE" /\ (status \in Produced => remote[o][r] \in Produced)
  BY <1>1 DEF Produced
<1> QED  BY <1>1, <1>2, <1>3, RemoteVetted

\* A lease that runs out leaves the row's draft and quote.
LEMMA ExpireVetted == ASSUME VInv, IInv', NEW o \in Orders, ExpireLease(o) PROVE VInv'
<1> DEFINE row == [job[o] EXCEPT !.leased = FALSE]
<1>1. job[o] \in JobRow /\ RowCleared(o, job[o])
  BY DEF VInv, IInv, TypeOK
<1>2. row.status = job[o].status /\ row.remoteId = job[o].remoteId /\ row.quoted = job[o].quoted
  BY <1>1 DEF JobRow
<1>3. job' = [job EXCEPT ![o] = row] /\ UNCHANGED <<worker, remote, vetted>>
  BY DEF ExpireLease, VInv, IInv, TypeOK
<1> HIDE DEF row
<1>4. RowCleared(o, row)
  BY <1>1, <1>2 DEF RowCleared
<1> QED  BY <1>3, <1>4, RowVetted

\* The workers' steps and Printful's keep rows and ticks clear.
LEMMA JobsVetted == ASSUME VInv, IInv', JobsNext PROVE VInv'
<1> USE DEF VInv
<1>1. ASSUME NEW w \in Workers, Gate(w) \/ LookupDraft(w) \/ InspectCost(w) \/ InspectDraft(w)
                                  \/ ProviderFails(w) \/ StoreFails(w) \/ Renew(w)
      PROVE  VInv'
  <2>1. Onward(w) \/ Ended(w)
    BY <1>1, GateOnward, LookupOnward, InspectCostOnward, InspectDraftOnward,
       ProviderFailsOnward, StoreFailsOnward, RenewOnward
  <2>2. UNCHANGED <<job, remote, vetted>>
    BY <1>1 DEF Gate, LookupDraft, InspectCost, InspectDraft, ProviderFails, StoreFails, Renew
  <2> QED  BY <2>1, <2>2, ReadVetted
<1>2. ASSUME NEW w \in Workers, Crash(w) PROVE VInv'
  BY <1>2, IdleEnds, ReadVetted DEF Crash, IInv
<1> QED  BY <1>1, <1>2, CreateVetted, ConfirmVetted, WriteVetted, ClaimVetted, ExpireVetted,
            PrintfulVetted DEF JobsNext, WorkerStep

-----------------------------------------------------------------------------
\* Nothing is priced, cleaned up or produced at first.
LEMMA VettingInit == Init => VInv
<1> SUFFICES ASSUME Init PROVE VInv
  OBVIOUS
<1>1. IInv
  BY InvInit
<1>2. UnvettedOnlyAfterCleanup
  BY DEF Init, UnvettedOnlyAfterCleanup, Produced
<1>3. \A o \in Orders : RowCleared(o, job[o])
  BY DEF Init, RowCleared, NoJob
<1>4. \A w \in Workers : TickCleared(w)
  BY DEF Init, TickCleared, Busy, Idle
<1> QED  BY <1>1, <1>2, <1>3, <1>4 DEF VInv

\* Every step keeps rows and ticks clear of unpriced drafts.
LEMMA VettingNext == VInv /\ [Next]_vars => VInv'
<1> SUFFICES ASSUME VInv, [Next]_vars PROVE VInv'
  OBVIOUS
<1>1. IInv'
  BY InvNext DEF VInv
<1>2. CASE UNCHANGED vars
  BY <1>1, <1>2, RowsVetted DEF vars, VInv
<1> QED  BY <1>1, <1>2, JobsVetted, WebhookVetted, OperatorVetted DEF Next

\* Whatever workers, webhooks and operators do, a Printful order is produced
\* without its cost having been accepted only where an earlier draft of the same
\* Shopify order was cleaned up.
THEOREM UnvettedNeedsCleanup == Spec => []UnvettedOnlyAfterCleanup
<1>1. VInv => UnvettedOnlyAfterCleanup
  BY DEF VInv
<1> QED  BY <1>1, VettingInit, VettingNext, PTL DEF Spec
=============================================================================
