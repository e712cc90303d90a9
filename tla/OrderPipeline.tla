---------------------------- MODULE OrderPipeline ----------------------------
(***************************************************************************)
(* STORZY's order pipeline: Shopify's webhooks, the operator and the       *)
(* Printful order workers, acting on the same orders in any order.         *)
(***************************************************************************)
EXTENDS PrintfulOrderJobs, ShopifyOrders, OrderOperations

Next == JobsNext \/ ShopifyNext \/ OperationsNext

Spec == Init /\ [][Next]_vars

(***************************************************************************)
(* Workers poll for as long as they are deployed and every step of a tick  *)
(* returns (the provider calls have timeouts), rows are claimed oldest     *)
(* first, and the lease of a row nobody works on runs out.  Nothing is     *)
(* assumed of Shopify, of the operator, of crashes or of stalled workers.  *)
(***************************************************************************)
OrphanExpires(o) == ExpireLease(o) /\ \A w \in Workers : worker[w].order # o

Fairness ==
  /\ \A w \in Workers : WF_vars(WorkerStep(w))
  /\ \A o \in Orders : /\ SF_vars(\E w \in Workers : Claim(w, o))
                       /\ WF_vars(OrphanExpires(o))
  /\ WF_vars(StopCommit)

FairSpec == Spec /\ Fairness

-----------------------------------------------------------------------------
\* The CHECK of migration 014: no sequence of store calls, triggers and
\* operator actions writes a row in which RUNNING and the lock columns disagree.
LockColumns ==
  \A o \in Orders :
    /\ (job[o].status = "RUNNING") <=> (job[o].lockedBy # NoWorker)
    /\ job[o].leased => job[o].status = "RUNNING"

\* An order in production at Printful is the one its job row names: whatever
\* workers crash, stall or overlap, however often the job is released and its
\* draft cleaned up, at most one Printful order per Shopify order is produced.
ProducedIsRecorded ==
  \A o \in Orders, r \in RemoteIds :
    remote[o][r] \in Produced => job[o].remoteId = r

\* An order shown as SUBMITTED has a finished job, and the Printful order that
\* job names was really confirmed.
SubmittedIsProduced ==
  \A o \in Orders :
    order[o].status = "SUBMITTED" =>
      /\ job[o].status = "SUCCEEDED"
      /\ job[o].remoteId # NoRemote
      /\ remote[o][job[o].remoteId] \in Produced

\* What a worker read when it claimed a row is still what the row says for as
\* long as the worker owns it, although the store calls check the owner only.
OwnerSnapshotFresh ==
  \A w \in Workers :
    worker[w].pc # "idle" /\ JobOf(w).lockedBy = w =>
      /\ worker[w].remoteId = JobOf(w).remoteId
      /\ worker[w].attempt = JobOf(w).attempts

\* An order cancelled before any submission stays rejected: no job of it is
\* queued or running and nothing of it is produced, whatever arrives later.
CancelledInTimeStaysOut ==
  \A o \in Orders :
    cancel[o] = "BEFORE" =>
      /\ order[o].status = "REJECTED"
      /\ job[o].status \in {"ABSENT", "HELD"}
      /\ \A r \in RemoteIds : remote[o][r] \notin Produced

\* A Printful order is produced unpriced only where an earlier draft of the same
\* Shopify order was cleaned up: the stale quote of that draft is the only way
\* around the cost check.
UnvettedOnlyAfterCleanup ==
  \A o \in Orders, r \in RemoteIds :
    remote[o][r] \in Produced /\ r \notin vetted[o] =>
      \E s \in RemoteIds : remote[o][s] = "GONE"

\* A job forgets a Printful order, or replaces it by another, only when that
\* order no longer exists there: no draft is orphaned by the bookkeeping.
RemoteIdNeverForgotten ==
  [][\A o \in Orders :
       job[o].remoteId \notin {NoRemote, job'[o].remoteId} =>
         remote[o][job[o].remoteId] = "GONE"]_vars

\* While automation is off the queue only drains: no give-back of a worker that
\* was caught in a tick and no operator action puts a job into it, nor does a
\* webhook, unless that webhook had read the control before the stop and the job
\* is new.
StoppedQueueOnlyDrains ==
  [][~Enabled /\ automation' = "OFF" =>
       \A o \in Orders : job'[o].status \in Queued =>
         job[o].status \in Queued \/ (job[o].status = "ABSENT" /\ hook'[o]["SAW_ON"] < hook[o]["SAW_ON"])]_vars

-----------------------------------------------------------------------------
\* No worker will claim the row again.
Stranded(o) ==
  \/ job[o].status \in Queued /\ job[o].attempts >= MaxAttempts
  \/ job[o].status = "RUNNING" /\ job[o].attempts > MaxAttempts

\* From some time on no tick is put off by Shopify's or Printful's side.
ProviderRecovers ==
  <>[][\A w \in Workers : worker[w].pc # "write" => worker'[w].todo # "defer"]_vars

\* A claimed job does not stay RUNNING, however workers die or stall, unless
\* every attempt is used up.
RunningSettles ==
  \A o \in Orders : job[o].status = "RUNNING" ~> job[o].status # "RUNNING" \/ Stranded(o)

\* After a stop that is not revoked every job comes to rest, the ones that were
\* given back while the stop was committing included.
StopDrains ==
  \A o \in Orders :
    <>[](automation = "OFF") =>
      <>[](job[o].status \in {"ABSENT", "HELD", "SUCCEEDED"} \/ Stranded(o))

\* A confirmation whose answer was lost is not forgotten: once the provider
\* answers again, the job ends as SUCCEEDED or is put before an operator as HELD.
ProducedIsAcknowledged ==
  ProviderRecovers =>
    \A o \in Orders :
      (\E r \in RemoteIds : remote[o][r] \in Produced) ~>
        (job[o].status \in {"SUCCEEDED", "HELD"} \/ Stranded(o))

-----------------------------------------------------------------------------
(* What the repository's documents say of the pipeline, and the code does not do. *)

\* docs/23: the worker compares a draft's own cost with the limits before it
\* confirms that draft.
PricedBeforeConfirm ==
  \A o \in Orders, r \in RemoteIds : remote[o][r] \in Produced => r \in vetted[o]

\* docs/92, docs/94: an order stored for review gets a Printful job only when
\* the policy passes.
ReviewedByPolicy ==
  [][\A o \in Orders :
       /\ order[o].topic = "review" /\ order'[o].topic = "review"
       /\ job[o].status \in {"ABSENT", "HELD"} /\ job'[o].status \in Queued
       => Verdict(order[o].fixed, order[o].live) = "READY"]_vars

\* docs/86: a cancellation that came first is applied when the order comes in.
CancellationApplied ==
  \A o \in Orders : ~(cancel[o] = "PENDING" /\ order[o].status # "ABSENT")

\* docs/86: an order cancelled after its submission is held for review.
CancelledIsHeld ==
  [][\A o \in Orders :
       cancel[o] = "AFTER" /\ order[o].status = "HELD" => order'[o].status # "SUBMITTED"]_vars

\* docs/06: a job that has used its attempts is put before an operator.
NoJobStranded ==
  \A o \in Orders : job[o].status \in Queued => job[o].attempts < MaxAttempts
=============================================================================
