-------------------------- MODULE PrintfulOrderJobs --------------------------
(***************************************************************************)
(* The Printful order worker (src/orders/printful-worker.ts) over its job  *)
(* table (printful-job-store.ts), and Printful itself as the worker sees   *)
(* it.  A tick claims a job, passes the automation gate, reads Printful,   *)
(* may renew its lease and make one writing call, and ends with one store  *)
(* call: each of these is a step, and anything may happen in between.      *)
(*                                                                         *)
(* The two automation checks of a phase are one step: nothing but reads    *)
(* lies between them, so passing both is passing the second, and failing   *)
(* either ends in the same store call.                                     *)
(***************************************************************************)
EXTENDS OrderState

OrderOf(w) == worker[w].order
JobOf(w) == job[OrderOf(w)]

GoTo(w, pc) == worker' = [worker EXCEPT ![w].pc = pc]
Plan(w, todo) == worker' = [worker EXCEPT ![w].pc = "write", ![w].todo = todo]

\* The catch block: an unavailable connection or a 429 defers the job without
\* spending the attempt, a 408 or 5xx retries while attempts remain, and any
\* other error, the network failing among them, holds it.
FaultTodos(w) ==
  {"defer", "hold"} \cup (IF worker[w].attempt < MaxAttempts THEN {"retry"} ELSE {})

\* What a writing call that did take effect may be taken for: a 429 it is not.
LostAnswerTodos(w) == FaultTodos(w) \ {"defer"}

-----------------------------------------------------------------------------
\* Mutant: a running row is taken over however often that was done before.
ClaimableForever(j) ==
  \/ j.status \in Queued /\ j.attempts < MaxAttempts
  \/ j.status = "RUNNING" /\ ~j.leased

\* Mutant: nobody takes over the rows of a dead worker.
ClaimableQueued(j) == j.status \in Queued /\ j.attempts < MaxAttempts

\* Mutant: a row whose worker died in the last attempt is not taken over.
ClaimableBelow(j) ==
  /\ j.attempts < MaxAttempts
  /\ j.status \in Queued \/ (j.status = "RUNNING" /\ ~j.leased)

\* Mutant: claiming stops with the automation.
ClaimableEnabled(j) ==
  /\ Enabled
  /\ \/ j.status \in Queued /\ j.attempts < MaxAttempts
     \/ j.status = "RUNNING" /\ ~j.leased /\ j.attempts <= MaxAttempts

\* A queued row, or a running one whose lease ran out, with attempts left.
Claimable(j) ==
  \/ j.status \in Queued /\ j.attempts < MaxAttempts
  \/ j.status = "RUNNING" /\ ~j.leased /\ j.attempts <= MaxAttempts

\* Mutant: a running row with a draft counts as priced.
PhaseOfUnquoted(j) == CASE j.status \in Queued -> j.status
                        [] j.status = "RUNNING" /\ j.remoteId # NoRemote -> "READY_CONFIRM"
                        [] OTHER -> "PENDING_DRAFT"

\* previous_status: a running row's phase is read back from its columns.
PhaseOf(j) == CASE j.status \in Queued -> j.status
                [] j.status = "RUNNING" /\ j.quoted -> "READY_CONFIRM"
                [] j.status = "RUNNING" /\ ~j.quoted /\ j.remoteId # NoRemote -> "WAITING_COST"
                [] OTHER -> "PENDING_DRAFT"

Claim(w, o) ==
  /\ worker[w].pc = "idle"
  /\ Claimable(job[o])
  /\ job' = [job EXCEPT ![o] = [job[o] EXCEPT !.status = "RUNNING", !.attempts = @ + 1,
                                              !.lockedBy = w, !.leased = TRUE]]
  /\ worker' = [worker EXCEPT ![w] =
       [Idle EXCEPT !.pc = "gate", !.order = o, !.phase = PhaseOf(job[o]),
                    !.remoteId = job[o].remoteId, !.attempt = job[o].attempts + 1]]
  /\ UNCHANGED <<automation, order, cancel, hook, remote, vetted, cleaner>>

MissingRemote(w) == worker[w].phase # "PENDING_DRAFT" /\ worker[w].remoteId = NoRemote

Gate(w) ==
  /\ worker[w].pc = "gate"
  /\ \/ Enabled /\ ~MissingRemote(w) /\ GoTo(w, "look")
     \/ (~Enabled \/ MissingRemote(w)) /\ Plan(w, "hold")
     \/ Enabled /\ \E todo \in {"defer", "hold"} : Plan(w, todo)
  /\ UNCHANGED <<automation, order, cancel, hook, job, remote, vetted, cleaner>>

\* Printful's limiter of our own (permit): a refusal defers the job.
Permit(w) == GoTo(w, "renew") \/ Plan(w, "defer")

\* GET @external_id: Printful answers with an order that carries our external
\* id, whichever it is if there are several, and 404 if there is none.
LookupDraft(w) ==
  LET known == {r \in RemoteIds : remote[OrderOf(w)][r] \notin {"NONE", "GONE"}}
  IN  /\ worker[w].pc = "look" /\ worker[w].phase = "PENDING_DRAFT"
      /\ \/ \E r \in known :
              worker' = [worker EXCEPT ![w].pc = "write", ![w].todo = "draft", ![w].found = r]
         \/ known = {} /\ Permit(w)
      /\ UNCHANGED <<automation, order, cancel, hook, job, remote, vetted, cleaner>>

\* GET in WAITING_COST: the draft failed, is still being priced, costs too much
\* (currency, margin or increase), or is accepted.
InspectCost(w) ==
  /\ worker[w].pc = "look" /\ worker[w].phase = "WAITING_COST"
  /\ \/ Plan(w, "hold")
     \/ /\ remote[OrderOf(w)][worker[w].remoteId] \notin {"FAILED", "GONE"}
        /\ \E todo \in {"wait", "holdQuoted", "ready"} : Plan(w, todo)
  /\ UNCHANGED <<automation, order, cancel, hook, job, remote, vetted, cleaner>>

\* GET in READY_CONFIRM: an order that is already in production was confirmed by
\* an earlier tick whose answer was lost; only a draft may be confirmed.
InspectDraft(w) ==
  LET status == remote[OrderOf(w)][worker[w].remoteId]
  IN  /\ worker[w].pc = "look" /\ worker[w].phase = "READY_CONFIRM"
      /\ \/ status = "PENDING" /\ Plan(w, "success")
         \/ status = "DRAFT" /\ Permit(w)
         \/ status \notin {"PENDING", "DRAFT"} /\ Plan(w, "hold")
      /\ UNCHANGED <<automation, order, cancel, hook, job, remote, vetted, cleaner>>

\* A provider call that fails without having changed anything at Printful.
ProviderFails(w) ==
  /\ worker[w].pc \in {"look", "call"}
  /\ \E todo \in FaultTodos(w) : Plan(w, todo)
  /\ UNCHANGED <<automation, order, cancel, hook, job, remote, vetted, cleaner>>

\* A store call that throws inside the try block: an error without a status, for
\* which the catch block holds the job.  One that throws in the catch block itself
\* ends the process (Crash).
StoreFails(w) ==
  /\ worker[w].pc \in {"renew", "write"}
  /\ worker[w].todo \notin {"hold", "retry"}
  /\ Plan(w, "hold")
  /\ UNCHANGED <<automation, order, cancel, hook, job, remote, vetted, cleaner>>

Owns(w) == JobOf(w).status = "RUNNING" /\ JobOf(w).lockedBy = w
HoldsLease(w) == Owns(w) /\ JobOf(w).leased

\* extendLease right before a writing call; a worker that lost it gives up.
Renew(w) ==
  /\ worker[w].pc = "renew"
  /\ \/ HoldsLease(w) /\ GoTo(w, "call")
     \/ ~HoldsLease(w) /\ worker' = [worker EXCEPT ![w] = Idle]
  /\ UNCHANGED <<automation, order, cancel, hook, job, remote, vetted, cleaner>>

\* createDraftOrder: the draft exists whether or not the answer arrives.
CreateDraft(w) ==
  /\ worker[w].pc = "call" /\ worker[w].phase = "PENDING_DRAFT"
  /\ \E r \in RemoteIds :
       /\ remote[OrderOf(w)][r] = "NONE"
       /\ \A s \in 1 .. (r - 1) : remote[OrderOf(w)][s] # "NONE"
       /\ remote' = [remote EXCEPT ![OrderOf(w)] = [@ EXCEPT ![r] = "DRAFT"]]
       /\ \/ worker' = [worker EXCEPT ![w].pc = "write", ![w].todo = "draft", ![w].found = r]
          \/ \E todo \in LostAnswerTodos(w) : Plan(w, todo)
  /\ UNCHANGED <<automation, order, cancel, hook, job, vetted, cleaner>>

\* confirmOrder: only a draft can be confirmed, and the answer may be lost.
ConfirmDraft(w) ==
  LET r == worker[w].remoteId
  IN  /\ worker[w].pc = "call" /\ worker[w].phase = "READY_CONFIRM"
      /\ remote[OrderOf(w)][r] = "DRAFT"
      /\ remote' = [remote EXCEPT ![OrderOf(w)] = [@ EXCEPT ![r] = "PENDING"]]
      /\ \E todo \in {"success"} \cup LostAnswerTodos(w) : Plan(w, todo)
      /\ UNCHANGED <<automation, order, cancel, hook, job, vetted, cleaner>>

-----------------------------------------------------------------------------
\* Mutant: draftCreated matches the row by its id alone.
DraftCreatedUnowned(w) ==
  job' = [job EXCEPT ![OrderOf(w)] =
            [Release(@, "WAITING_COST") EXCEPT !.remoteId = worker[w].found]]

\* The store call that ends the tick.  draftCreated, waitCost, readyConfirm and
\* retry match the row by locked_by, the two defers by status too; hold and
\* success need a live lease, and change the order in the same transaction.
DraftCreated(w) ==
  IF JobOf(w).lockedBy = w
  THEN job' = [job EXCEPT ![OrderOf(w)] =
                 [Release(@, "WAITING_COST") EXCEPT !.remoteId = worker[w].found]]
  ELSE UNCHANGED job

BackTo(w, status) ==
  IF JobOf(w).lockedBy = w
  THEN job' = [job EXCEPT ![OrderOf(w)] = Release(@, status)]
  ELSE UNCHANGED job

ReadyConfirm(w) ==
  IF JobOf(w).lockedBy = w
  THEN /\ job' = [job EXCEPT ![OrderOf(w)] = [Release(@, "READY_CONFIRM") EXCEPT !.quoted = TRUE]]
       /\ vetted' = [vetted EXCEPT ![OrderOf(w)] = @ \cup {worker[w].remoteId}]
  ELSE UNCHANGED <<job, vetted>>

Defer(w) ==
  IF Owns(w)
  THEN job' = [job EXCEPT ![OrderOf(w)] =
                 [Release(JobOf(w), worker[w].phase) EXCEPT
                    !.attempts = IF @ = 0 THEN 0 ELSE @ - 1]]
  ELSE UNCHANGED job

Hold(w, quoted) ==
  IF HoldsLease(w)
  THEN /\ job' = [job EXCEPT ![OrderOf(w)] = [Release(@, "HELD") EXCEPT !.quoted = quoted]]
       /\ order' = [order EXCEPT ![OrderOf(w)] = [@ EXCEPT !.status = "HELD"]]
  ELSE UNCHANGED <<job, order>>

\* Mutant: the order is updated whether or not the job's UPDATE matched.
SuccessTorn(w) ==
  /\ IF HoldsLease(w)
     THEN job' = [job EXCEPT ![OrderOf(w)] = Release(@, "SUCCEEDED")] ELSE UNCHANGED job
  /\ order' = [order EXCEPT ![OrderOf(w)] = [@ EXCEPT !.status = "SUBMITTED"]]

Success(w) ==
  IF HoldsLease(w)
  THEN /\ job' = [job EXCEPT ![OrderOf(w)] = Release(@, "SUCCEEDED")]
       /\ order' = [order EXCEPT ![OrderOf(w)] = [@ EXCEPT !.status = "SUBMITTED"]]
  ELSE UNCHANGED <<job, order>>

Write(w) ==
  /\ worker[w].pc = "write"
  /\ \/ worker[w].todo = "draft" /\ DraftCreated(w) /\ UNCHANGED <<order, vetted>>
     \/ worker[w].todo = "wait" /\ BackTo(w, "WAITING_COST") /\ UNCHANGED <<order, vetted>>
     \/ worker[w].todo = "ready" /\ ReadyConfirm(w) /\ UNCHANGED order
     \/ worker[w].todo = "retry" /\ BackTo(w, worker[w].phase) /\ UNCHANGED <<order, vetted>>
     \/ worker[w].todo = "defer" /\ Defer(w) /\ UNCHANGED <<order, vetted>>
     \/ worker[w].todo = "hold" /\ Hold(w, FALSE) /\ UNCHANGED vetted
     \/ worker[w].todo = "holdQuoted" /\ Hold(w, TRUE) /\ UNCHANGED vetted
     \/ worker[w].todo = "success" /\ Success(w) /\ UNCHANGED vetted
  /\ worker' = [worker EXCEPT ![w] = Idle]
  /\ UNCHANGED <<automation, cancel, hook, remote, cleaner>>

-----------------------------------------------------------------------------
\* The process dies in the middle of a tick; its row stays RUNNING.
Crash(w) ==
  /\ worker[w].pc # "idle"
  /\ worker' = [worker EXCEPT ![w] = Idle]
  /\ UNCHANGED <<automation, order, cancel, hook, job, remote, vetted, cleaner>>

\* The lease's time passes without a heartbeat, the owner being dead or stalled.
ExpireLease(o) ==
  /\ job[o].leased
  /\ job' = [job EXCEPT ![o] = [@ EXCEPT !.leased = FALSE]]
  /\ UNCHANGED <<automation, order, cancel, hook, worker, remote, vetted, cleaner>>

\* Printful fails a draft, ships or cancels an order in production.
PrintfulMoves(o, r) ==
  /\ \E status \in RemoteStatus :
       /\ <<remote[o][r], status>> \in
            {<<"DRAFT", "FAILED">>, <<"PENDING", "SHIPPED">>, <<"PENDING", "CANCELED">>}
       /\ remote' = [remote EXCEPT ![o] = [@ EXCEPT ![r] = status]]
  /\ UNCHANGED <<automation, order, cancel, hook, job, worker, vetted, cleaner>>

WorkerStep(w) ==
  \/ Gate(w) \/ LookupDraft(w) \/ InspectCost(w) \/ InspectDraft(w) \/ ProviderFails(w)
  \/ StoreFails(w) \/ Renew(w) \/ CreateDraft(w) \/ ConfirmDraft(w) \/ Write(w)

JobsNext ==
  \/ \E w \in Workers : WorkerStep(w) \/ Crash(w) \/ \E o \in Orders : Claim(w, o)
  \/ \E o \in Orders : ExpireLease(o) \/ \E r \in RemoteIds : PrintfulMoves(o, r)
=============================================================================
