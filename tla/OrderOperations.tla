--------------------------- MODULE OrderOperations ---------------------------
(***************************************************************************)
(* What an operator does to the pipeline: the automation switch            *)
(* (src/orders/automation-control.ts with the triggers of migration 058),  *)
(* the exception actions (exception-service.ts) and the clean-up of a      *)
(* remote draft (remote-draft-cleanup.ts).                                 *)
(***************************************************************************)
EXTENDS OrderState, ShopifyOrders

Enable ==
  /\ automation = "OFF"
  /\ automation' = "ON"
  /\ UNCHANGED <<order, cancel, hook, job, worker, remote, vetted, cleaner>>

\* Disabling, by hand or because an integration was lost, fires the stop
\* trigger: queued jobs and their orders are held.  The rows are locked until
\* the transaction commits, which is why nobody can tell that they are held
\* already; jobs a worker gives back before that commit are queued again.
StopBegin ==
  /\ automation = "ON"
  /\ automation' = "STOPPING"
  /\ job' = [o \in Orders |-> IF job[o].status \in Queued THEN Release(job[o], "HELD") ELSE job[o]]
  /\ order' = [o \in Orders |-> IF job[o].status \in Queued
                                THEN [order[o] EXCEPT !.status = "HELD"] ELSE order[o]]
  /\ UNCHANGED <<cancel, hook, worker, remote, vetted, cleaner>>

StopCommit ==
  /\ automation = "STOPPING"
  /\ automation' = "OFF"
  /\ UNCHANGED <<order, cancel, hook, job, worker, remote, vetted, cleaner>>

-----------------------------------------------------------------------------
Actions == {"REVALIDATE", "MANUAL_APPROVE", "REJECT"}

Outcome(o, action) ==
  CASE action = "MANUAL_APPROVE" -> "READY"
    [] action = "REJECT" -> "REJECTED"
    [] OTHER -> Verdict(order[o].fixed, order[o].live)

\* Mutant: any job without a draft is requeued from the start.
RequeuedRunning(j) ==
  CASE j.status = "ABSENT" -> QueuedJob
    [] j.remoteId = NoRemote -> [j EXCEPT !.status = Guarded("PENDING_DRAFT"), !.attempts = 0]
    [] OTHER -> j

\* ON CONFLICT DO UPDATE: only a held job without a remote draft is requeued,
\* with the attempts and the quote it had.
Requeued(j) ==
  CASE j.status = "ABSENT" -> QueuedJob
    [] j.status = "HELD" /\ j.remoteId = NoRemote -> [j EXCEPT !.status = Guarded("PENDING_DRAFT")]
    [] OTHER -> j

\* Mutant: a rejection holds a running job too.
RejectedRunning(j) ==
  IF j.status \in Queued \cup {"RUNNING"} THEN [j EXCEPT !.status = "HELD"] ELSE j

Rejected(j) == IF j.status \in Queued THEN Release(j, "HELD") ELSE j

\* One transaction under the order's row lock.  Releasing an order reads the
\* automation control FOR SHARE, so it waits for a stop that is under way.
Act(o, action) ==
  LET outcome == Outcome(o, action)
      status == IF outcome = "READY" /\ ~Enabled THEN "HELD" ELSE outcome
  IN  /\ order[o].status \in {"HELD", "WAITING"}
      /\ action = "MANUAL_APPROVE" => ~order[o].review
      /\ outcome = "READY" => automation # "STOPPING"
      /\ order' = [order EXCEPT ![o] =
                     [order[o] EXCEPT !.status = status, !.review = action = "REJECT" /\ @]]
      /\ job' = [job EXCEPT ![o] = CASE status = "READY" -> Requeued(@)
                                     [] status = "REJECTED" -> Rejected(@)
                                     [] OTHER -> @]
      /\ UNCHANGED <<automation, cancel, hook, worker, remote, vetted, cleaner>>

-----------------------------------------------------------------------------
\* A held job with a draft; only SUCCEEDED jobs have a confirmed_response.
CleanupSelect(o) ==
  /\ cleaner[o].pc = "idle"
  /\ job[o].status = "HELD" /\ job[o].remoteId # NoRemote
  /\ cleaner' = [cleaner EXCEPT ![o] = [pc |-> "get", remoteId |-> job[o].remoteId]]
  /\ UNCHANGED <<automation, order, cancel, hook, job, worker, remote, vetted>>

CleanTo(o, pc) == cleaner' = [cleaner EXCEPT ![o] = [@ EXCEPT !.pc = pc]]

\* GET: a draft that is absent already is settled like one deleted now.
CleanupInspect(o) ==
  LET status == remote[o][cleaner[o].remoteId]
  IN  /\ cleaner[o].pc = "get"
      /\ \/ status = "GONE" /\ CleanTo(o, "settle")
         \/ status \in Deletable /\ CleanTo(o, "delete")
      /\ UNCHANGED <<automation, order, cancel, hook, job, worker, remote, vetted>>

\* Mutant: a refused DELETE is taken for a done one.
CleanupDeleteAssumed(o) ==
  LET r == cleaner[o].remoteId
  IN  /\ cleaner[o].pc = "delete"
      /\ remote' = IF remote[o][r] \in Deletable
                   THEN [remote EXCEPT ![o] = [@ EXCEPT ![r] = "GONE"]] ELSE remote
      /\ CleanTo(o, "settle")
      /\ UNCHANGED <<automation, order, cancel, hook, job, worker, vetted>>

\* DELETE: Printful refuses one that has been confirmed in the meantime.
CleanupDelete(o) ==
  LET r == cleaner[o].remoteId
  IN  /\ cleaner[o].pc = "delete"
      /\ remote[o][r] \in Deletable \cup {"GONE"}
      /\ remote' = [remote EXCEPT ![o] = [@ EXCEPT ![r] = "GONE"]]
      /\ CleanTo(o, "settle")
      /\ UNCHANGED <<automation, order, cancel, hook, job, worker, vetted>>

\* The recheck and the UPDATE that forgets the deleted draft.
CleanupSettle(o) ==
  /\ cleaner[o].pc = "settle"
  /\ job' = IF job[o].status = "HELD" /\ job[o].remoteId = cleaner[o].remoteId
            THEN [job EXCEPT ![o] = [@ EXCEPT !.remoteId = NoRemote]] ELSE job
  /\ cleaner' = [cleaner EXCEPT ![o] = NoCleanup]
  /\ UNCHANGED <<automation, order, cancel, hook, worker, remote, vetted>>

\* A refusal, an error, a lost answer or a crash ends the request anywhere; the
\* answer to a DELETE may be lost after the draft is gone.
CleanupAbandon(o) ==
  /\ cleaner[o].pc # "idle"
  /\ cleaner' = [cleaner EXCEPT ![o] = NoCleanup]
  /\ UNCHANGED <<automation, order, cancel, hook, job, worker, remote, vetted>>

OperationsNext ==
  \/ Enable \/ StopBegin \/ StopCommit
  \/ \E o \in Orders :
       \/ \E action \in Actions : Act(o, action)
       \/ CleanupSelect(o) \/ CleanupInspect(o) \/ CleanupDelete(o)
       \/ CleanupSettle(o) \/ CleanupAbandon(o)
=============================================================================
