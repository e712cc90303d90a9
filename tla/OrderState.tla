----------------------------- MODULE OrderState -----------------------------
(***************************************************************************)
(* The state shared by the parts of STORZY's order pipeline: the rows of   *)
(* commerce_orders, shopify_order_cancellations, printful_order_jobs and   *)
(* workspace_order_automation_controls of one workspace, the memory of the *)
(* Printful order workers and of the draft clean-up requests, and the      *)
(* orders that exist at Printful.                                          *)
(***************************************************************************)
EXTENDS Naturals, FiniteSets

CONSTANTS
  Orders,        \* Shopify orders of the workspace
  Workers,       \* Printful order worker processes
  MaxAttempts,   \* PRINTFUL_ORDER_MAX_ATTEMPTS
  MaxRemote,     \* bound: Printful orders ever created for one Shopify order
  NoOrder, NoWorker

ASSUME NoneAssumption == NoOrder \notin Orders /\ NoWorker \notin Workers
ASSUME BoundAssumption == MaxAttempts \in Nat \ {0} /\ MaxRemote \in Nat

RemoteIds == 1 .. MaxRemote
NoRemote == 0                     \* remote_order_id IS NULL

VARIABLES
  automation,  \* "ON", "OFF", or "STOPPING": a disabling transaction whose
               \* trigger has run and which has not committed yet
  order,       \* commerce_orders, one row per order (ABSENT: no row yet)
  cancel,      \* shopify_order_cancellations, with the verdict last applied
  hook,        \* how many order webhooks have read the automation control and
               \* not yet written, by what they saw
  job,         \* printful_order_jobs, one row per order
  worker,      \* the tick each worker is in
  remote,      \* Printful's orders, per Shopify order
  vetted,      \* history: the drafts whose own cost a worker accepted
  cleaner      \* the clean-up request that holds an order's advisory lock

vars == <<automation, order, cancel, hook, job, worker, remote, vetted, cleaner>>

-----------------------------------------------------------------------------
Phases == {"PENDING_DRAFT", "WAITING_COST", "READY_CONFIRM"}
Queued == Phases                  \* the job statuses a worker may claim
JobStatus == Queued \cup {"ABSENT", "RUNNING", "SUCCEEDED", "HELD"}
OrderStatus == {"ABSENT", "READY", "WAITING", "HELD", "REJECTED", "SUBMITTED"}
Topics == {"live", "review"}      \* orders/create, paid, updated; replay, financial-sync
Facts == {"UNPAID", "FAIL", "PASS"}
Sights == {"SAW_ON", "SAW_OFF"}   \* what a webhook saw of the automation control

\* DRAFT and FAILED were never confirmed; CANCELED was, GONE is deleted.
RemoteStatus == {"NONE", "DRAFT", "FAILED", "PENDING", "SHIPPED", "CANCELED", "GONE"}
Produced == {"PENDING", "SHIPPED", "CANCELED"}
Deletable == {"DRAFT", "FAILED", "CANCELED"}

Todo == {"none", "draft", "wait", "ready", "success", "hold", "holdQuoted", "retry", "defer"}

OrderRow == [status : OrderStatus,   \* the status column
             topic : Topics,         \* the topic of the source webhook
             review : BOOLEAN,       \* decision_reasons has a *_REVIEW marker
             fixed : BOOLEAN,        \* country, item count and cost pass: first ingest only
             live : Facts]           \* payment, address, lines, revenue: every ingest

JobRow == [status : JobStatus,
           remoteId : {NoRemote} \cup RemoteIds,
           quoted : BOOLEAN,                       \* quoted_cost_minor IS NOT NULL
           attempts : 0 .. MaxAttempts + 1,
           lockedBy : Workers \cup {NoWorker},
           leased : BOOLEAN]                       \* lease_expires_at > now()

Tick == [pc : {"idle", "gate", "look", "renew", "call", "write"},
         order : Orders \cup {NoOrder},
         phase : Phases,
         remoteId : {NoRemote} \cup RemoteIds,     \* of the row as it was claimed
         attempt : 0 .. MaxAttempts + 1,
         found : {NoRemote} \cup RemoteIds,        \* the draft Printful answered with
         todo : Todo]                              \* the store call still to be made

Cleanup == [pc : {"idle", "get", "delete", "settle"},
            remoteId : {NoRemote} \cup RemoteIds]

\* Every column holds a value of its type and every process is at a known step.
TypeOK ==
  /\ automation \in {"ON", "STOPPING", "OFF"}
  /\ order \in [Orders -> OrderRow]
  /\ cancel \in [Orders -> {"NONE", "UNSEEN", "PENDING", "BEFORE", "AFTER"}]
  /\ hook \in [Orders -> [Sights -> Nat]]
  /\ job \in [Orders -> JobRow]
  /\ worker \in [Workers -> Tick]
  /\ remote \in [Orders -> [RemoteIds -> RemoteStatus]]
  /\ vetted \in [Orders -> SUBSET RemoteIds]
  /\ cleaner \in [Orders -> Cleanup]

-----------------------------------------------------------------------------
NewOrder == [status |-> "ABSENT", topic |-> "live", review |-> FALSE,
             fixed |-> FALSE, live |-> "FAIL"]
NoJob == [status |-> "ABSENT", remoteId |-> NoRemote, quoted |-> FALSE,
          attempts |-> 0, lockedBy |-> NoWorker, leased |-> FALSE]
Idle == [pc |-> "idle", order |-> NoOrder, phase |-> "PENDING_DRAFT",
         remoteId |-> NoRemote, attempt |-> 0, found |-> NoRemote, todo |-> "none"]
NoCleanup == [pc |-> "idle", remoteId |-> NoRemote]

Init ==
  /\ automation = "OFF"
  /\ order = [o \in Orders |-> NewOrder]
  /\ cancel = [o \in Orders |-> "NONE"]
  /\ hook = [o \in Orders |-> [saw \in Sights |-> 0]]
  /\ job = [o \in Orders |-> NoJob]
  /\ worker = [w \in Workers |-> Idle]
  /\ remote = [o \in Orders |-> [r \in RemoteIds |-> "NONE"]]
  /\ vetted = [o \in Orders |-> {}]
  /\ cleaner = [o \in Orders |-> NoCleanup]

-----------------------------------------------------------------------------
\* What any transaction reads: a stop is seen once it has committed.
Enabled == automation # "OFF"

\* Mutant: the trigger is missing.
GuardedNot(status) == status

\* The trigger stopped_automation_guards_printful_queue: a job row written with
\* a queued status while automation is off is stored as HELD.
Guarded(status) == IF status \in Queued /\ ~Enabled THEN "HELD" ELSE status

\* Every UPDATE that gives a job up sets its status and clears its lock.
Release(j, status) ==
  [j EXCEPT !.status = Guarded(status), !.lockedBy = NoWorker, !.leased = FALSE]

\* The INSERT of a new job, whose status defaults to PENDING_DRAFT.
QueuedJob == [NoJob EXCEPT !.status = Guarded("PENDING_DRAFT")]
=============================================================================
