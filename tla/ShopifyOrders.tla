---------------------------- MODULE ShopifyOrders ----------------------------
(***************************************************************************)
(* The Shopify order webhooks (src/orders/shopify-webhook-service.ts).  A  *)
(* payload is abstracted to what the order policy says of it: the facts a  *)
(* later webhook leaves as first stored (country, item count, cost), and   *)
(* those every webhook replaces (payment, address, lines, revenue).  A     *)
(* redelivered webhook id changes nothing and is a stuttering step.        *)
(***************************************************************************)
EXTENDS OrderState

\* evaluateOrder, with "review required" and "blocked" both stored as HELD.
Verdict(fixed, live) ==
  CASE live = "UNPAID" -> "WAITING"
    [] live = "PASS" /\ fixed -> "READY"
    [] OTHER -> "HELD"

\* The webhook's transaction reads the automation control.  The read locks
\* nothing: any number of webhooks of one order may be between it and their write.
HookRead(o) ==
  /\ hook' = [hook EXCEPT ![o][IF Enabled THEN "SAW_ON" ELSE "SAW_OFF"] = @ + 1]
  /\ UNCHANGED <<automation, order, cancel, job, worker, remote, vetted, cleaner>>

\* Mutant: a worker that is creating the draft does not count.
SubmittedWithDraft(j) == j.remoteId # NoRemote \/ j.status = "SUCCEEDED"

\* A draft at Printful, or a worker busy with the job, counts as submitted.
Submitted(j) == j.remoteId # NoRemote \/ j.status \in {"RUNNING", "SUCCEEDED"}

\* applyCancellation sees the rows of committed transactions.
CancelVisible(o) == cancel[o] \in {"PENDING", "BEFORE", "AFTER"}

\* The job and the order's status that applyCancellation leaves.
CancelledJob(j) ==
  IF ~Submitted(j) /\ j.status \in Queued THEN Release(j, "HELD") ELSE j
CancelledStatus(j) == IF Submitted(j) THEN "HELD" ELSE "REJECTED"
CancelledAs(j) == IF Submitted(j) THEN "AFTER" ELSE "BEFORE"

\* The guard trigger looks when the row is inserted, which may be before a stop
\* that is complete by the time the webhook's transaction commits.
FirstJobs == {QueuedJob, [NoJob EXCEPT !.status = "PENDING_DRAFT"]}

\* ... and, perhaps after the control has changed, upserts the order, applies a
\* recorded cancellation to it, and queues a job if the order is READY.
HookCommit(o, saw, topic, fixed, live) ==
  LET verdict == Verdict(fixed, live)
      status == IF topic = "review" \/ (verdict = "READY" /\ saw = "SAW_OFF")
                THEN "HELD" ELSE verdict
      row == [status |-> status, topic |-> topic, review |-> topic = "review",
              fixed |-> IF order[o].status = "ABSENT" THEN fixed ELSE order[o].fixed,
              live |-> live]
  IN  /\ hook[o][saw] > 0
      /\ hook' = [hook EXCEPT ![o][saw] = @ - 1]
      /\ IF CancelVisible(o)
         THEN /\ order' = [order EXCEPT ![o] = [row EXCEPT !.status = CancelledStatus(job[o])]]
              /\ job' = [job EXCEPT ![o] = CancelledJob(@)]
              /\ cancel' = [cancel EXCEPT ![o] = CancelledAs(job[o])]
         ELSE /\ order' = [order EXCEPT ![o] = row]
              /\ IF status = "READY" /\ job[o].status = "ABSENT"
                 THEN \E j \in FirstJobs : job' = [job EXCEPT ![o] = j]
                 ELSE UNCHANGED job
              /\ UNCHANGED cancel
      /\ UNCHANGED <<automation, worker, remote, vetted, cleaner>>

\* ... or it is rolled back: of two first webhooks of an order the later one has
\* not seen the other's row, and its lines refer to an order id never stored.
HookRollback(o, saw) ==
  /\ hook[o][saw] > 0
  /\ hook' = [hook EXCEPT ![o][saw] = @ - 1]
  /\ UNCHANGED <<automation, order, cancel, job, worker, remote, vetted, cleaner>>

\* orders/cancelled.  With the order stored, the cancellation is applied in the
\* same transaction; without it, the row waits, and until that transaction
\* commits no other one sees it.
CancelHook(o) ==
  /\ \/ /\ order[o].status # "ABSENT" /\ cancel[o] # "UNSEEN"
        /\ order' = [order EXCEPT ![o] = [@ EXCEPT !.status = CancelledStatus(job[o])]]
        /\ job' = [job EXCEPT ![o] = CancelledJob(@)]
        /\ cancel' = [cancel EXCEPT ![o] = CancelledAs(job[o])]
     \/ /\ order[o].status = "ABSENT" /\ cancel[o] = "NONE"
        /\ cancel' = [cancel EXCEPT ![o] = "UNSEEN"]
        /\ UNCHANGED <<order, job>>
  /\ UNCHANGED <<automation, hook, worker, remote, vetted, cleaner>>

CancelCommit(o) ==
  /\ cancel[o] = "UNSEEN"
  /\ cancel' = [cancel EXCEPT ![o] = "PENDING"]
  /\ UNCHANGED <<automation, order, hook, job, worker, remote, vetted, cleaner>>

ShopifyNext ==
  \E o \in Orders :
    \/ HookRead(o) \/ CancelHook(o) \/ CancelCommit(o)
    \/ \E saw \in Sights :
         \/ HookRollback(o, saw)
         \/ \E topic \in Topics, fixed \in BOOLEAN, live \in Facts : HookCommit(o, saw, topic, fixed, live)
=============================================================================
