# STORZY in TLA+

STORZY builds and runs print-on-demand shops: it generates a brand, proposes
products, publishes them to Shopify, and has the orders of the shop produced by
Printful. All state is in PostgreSQL. The HTTP application, the webhooks and about
ten worker processes change it concurrently; every worker polls a table, takes a row
with a lease (`locked_by`, `lease_expires_at`, `attempts`), calls a provider and
writes the result back. Money and goods depend on what happens when such a worker
stalls, dies, or loses an answer, while an operator or a webhook changes the same
row. That is what these modules are about.

Paths below are relative to the repository.

## 1. Inventory

| Component | State it keeps | Operations | Hard behaviour | What makes it correct |
|---|---|---|---|---|
| **Printful order worker** (`src/orders/printful-worker.ts`, `printful-job-store.ts`) | `printful_order_jobs`: phase/status, remote order id, quote, attempts, lock | claim, renew, draftCreated, waitCost, readyConfirm, retry, defer, hold, success | lost leases and answers, crashes, takeovers, stale reads | one production per order; SUBMITTED means confirmed; every job settles |
| **Shopify webhooks** (`shopify-webhook-service.ts`) | `commerce_orders`, receipts, `shopify_order_cancellations` | receive, receiveCancellation | any order, redelivery, READ COMMITTED races | a cancelled order is not produced; review orders wait |
| **Exception actions** (`exception-service.ts`) | order status and reasons, job status | REVALIDATE, MANUAL_APPROVE, REJECT, requeueFulfillment | against running workers | review orders need the policy; owners are not overtaken |
| **Automation switch** (`automation-control.ts`, migrations 056-058) | `workspace_order_automation_controls` | enable, disable (by hand or on integration loss), triggers | workers in the middle of a tick, uncommitted stops | while off, the queue only drains |
| **Draft clean-up** (`remote-draft-cleanup.ts`) | remote id of a held job | GET, DELETE, forget | remote calls under an advisory lock, lost answers | forgets only what is gone |
| **Rate limiter** (`printful-rate-limiter.ts`) | a one-minute window per workspace | acquire | several workers at the limit | never more than the capacity in a window |
| **Order policy** (`domain/order-policy.ts`) | none | evaluateOrder | boundaries of margins and limits | READY only when every rule passes |
| **Outbox** (`src/outbox`) | `outbox_events`, audit of requeues | claim, publish, mark, retry, dead-letter, requeue | database errors after a commit, lost leases | published means delivered; given up only after the last attempt |
| **Domain event consumer** (`src/events`) | consumptions, notifications, candidate jobs | publish | redelivery, zombies | each effect once |
| **Brand profiles** (`src/brand`) | `brand_profile_revisions`, approvals, idempotency keys | create, generate, approve, edit | row locks taken in different orders, generations under way, retried requests | one approved revision; what a transaction read is still true when it writes |
| **Generation queue** (`src/jobs`, `worker.ts`) | `generation_jobs` | claim, retry, acknowledge, extend | settling and acknowledging are two transactions, exhausted leases | revision and job are settled together; every generation ends |
| **Candidates** (`src/candidates`, `domain/product-scoring.ts`) | `product_candidate_jobs`, snapshots, candidates, actions | claim, fetch, complete, decide | a catalogue that changes between pages, lost leases, repeated decisions | results once; one decision per candidate; a margin on every variant sold |
| **Content** (`src/content`) | `product_content_jobs`, `product_content_revisions` | generate, revise, approve | overlapping approvals, two queues filled by one approval | one approved revision |
| **Designs and mockups** (`src/mockups`) | `design_assets`, `printful_mockup_jobs`, snapshots, preview files | register, override, requeue, render, poll, upload | a design that changes under its job, a remote task, a shared disk quota | only designs that passed are rendered; a mockup releases its publication; quota |
| **Product publication** (`src/shopify`) | `shopify_publication_jobs` | claim, publish, settle | lost answers, owners without a lease | an ended publication stays ended, and shows the revision's mockup |
| **Storefront** (`src/storefront`) | `store_drafts`, `shopify_store_publication_jobs` | generate, edit, approve, requeue, publish | opposite lock orders, publication in parts, drafts superseded meanwhile | one approved draft; published means whole |
| **Fulfilment and returns** (`src/fulfillment`, `return-case-service.ts`) | shipments, fulfilment jobs, return cases | shipment webhooks, fulfil, requeue, act | out-of-order webhooks, lost answers | every sent shipment is queued; done means fulfilled |
| **Reconciliation** (`shopify-reconciliation.ts`, `scheduled-reconciliation.ts`) | runs, scans, issues | scan, replay, financial sync | interrupted runs | no run stays RUNNING |
| **Integrations, OAuth, tokens** (`src/integrations`) | `integration_connections`, `shopify_oauth_states`, receipts | connect, rotate, disconnect, uninstall | rotation against disconnecting, two processes with one token | one owner per shop; a token is used once; a disconnect is final |
| **Privacy, admin sessions, notifications, HTTP, admin pages, previews, deployment** | rows of their own, files | see `PROJECT.json` | mostly single statements and I/O | - |

How they interact: the brand service writes outbox rows in its own transactions; the
publisher turns them into notifications and candidate jobs; candidates, content,
mockups and publication follow, each queueing the next. Shopify's webhooks enter
orders and queue Printful jobs; the worker carries them to Printful; Printful's
shipment webhooks queue fulfilment jobs. The order row is written by the webhooks,
the operator, the worker, the stop trigger and the return handling, and the job row by
all of these and by the clean-up: no component owns either. `PROJECT.json` lists every
component with its sources, and the hazards of the code at their lines.

## 2. Plan

1. **Order pipeline** (done): `OrderState`, `PrintfulOrderJobs`, `ShopifyOrders`,
   `OrderOperations`, composed in `OrderPipeline`; proofs in `OrderPipeline_proofs`.
2. **Outbox** (done): `Outbox` implementing `EventDelivery` and `MemoryOutboxQueue`;
   proofs in `Outbox_proofs`.
3. **Brand revisions and the generation queue** (done): `BrandRevisions` implementing
   `RevisionHistory`; proofs in `BrandRevisions_proofs`.
4. **Catalogue pipeline** (done): `Candidates` and `CatalogSnapshot`; `JobQueue`,
   `CatalogueState`, `ProductContent`, `Mockups`, `ProductPublication`, composed in
   `Catalogue`; proofs in `Candidates_proofs` (jobs, reviews and the snapshot) and
   `Catalogue_proofs`.
5. **Storefront** (done): `Storefront`; proofs in `Storefront_proofs`.
6. **Fulfilment and returns** (done): `Fulfilment`; proofs in `Products_proofs`, with the
   composition of `MCProducts`.
7. **Connections and uploads** (done): `Connections`, `PreviewUploads`; proofs in
   `Workspace_proofs`, with the composition of `MCWorkspace`.
8. To model next: the scheduled reconciliation runs and the counters of the rate limiter.

## 3. The modules

### OrderState
The rows of one workspace and the memory of the processes. `order[o]` keeps of a
`commerce_orders` row its status, whether its source webhook was a review one
(replay, financial sync), whether the reasons hold a review marker, and what the
policy would say of its columns: `fixed` (country, item count, cost: the upsert of
`shopify-webhook-service.ts:81` leaves them as first stored) and `live` (payment,
address, lines, revenue: every webhook replaces them). `job[o]` is the job row with
its lease as a flag; `quoted` is `quoted_cost_minor IS NOT NULL`. `cancel[o]` is the
cancellation row, split by whether its transaction has committed (`UNSEEN`) and by the
verdict last applied. `remote[o][r]` is the r-th Printful order ever made for `o`.
`vetted` is a history variable: the drafts whose own cost a worker accepted.
`Guarded` is the guard trigger of migration 058, applied wherever a status is written.

### PrintfulOrderJobs
`Claim`, then the worker's steps in the order of `tick`: `Gate` (automation, client,
payload), `LookupDraft`/`InspectCost`/`InspectDraft` (the GET of each phase), `Renew`,
`CreateDraft`/`ConfirmDraft` (the writing call), `Write` (the store call that ends the
tick, with the WHERE clause each one has). Anything may happen between two steps.
`ProviderFails` is the catch block for a call that changed nothing; the writing calls
may also take effect and be taken for a failure (`LostAnswerTodos`: a 429 means that
nothing was done). `StoreFails` is the catch block for a store call that throws: the
job is held, whatever the call was for. `Crash` forgets a tick and leaves the row; `ExpireLease` covers the
dead and the stalled owner alike, so an old owner may go on (the heartbeat's
`leaseLost` only makes `Renew` refuse earlier).

### ShopifyOrders
`HookRead` and `HookCommit` are the two ends of a `receive` transaction: it reads the
automation switch, which locks nothing, and writes later. Any number of webhooks of one
order may be in between; `hook[o]` counts them by what they saw of the switch, since the
rest of the payload matters only at the write. `HookRollback` is an error on the way (the
second of two first webhooks meets one: its lines name the id it made up for an order
that the other has stored by now); Shopify sends the webhook again. `FirstJobs` is the guard trigger seen from a
transaction that straddles a stop. A cancellation for an order that is not there yet
takes two steps, `CancelHook` and `CancelCommit`, because its row is invisible until
the commit. Redelivered webhook ids change nothing.

### OrderOperations
`StopBegin`/`StopCommit` bracket a disabling transaction: its trigger has held the
queued jobs, and the others still see the switch on. It is fired by the operator and by
migration 057 when an integration is lost. `Act` is one transaction under the order's
row lock; releasing an order waits for a stop under way (`FOR SHARE`). The clean-up is
five steps: select, GET, DELETE, recheck-and-forget, abandon.

### OrderPipeline, MCOrderPipeline
`Next` is the disjunction of the three; the properties are stated here.
`MCOrderPipeline` adds budgets for what the environment does (webhooks, operator
actions, switches, clean-ups, moves of Printful); workers, crashes, lease expiry and
every internal step are not budgeted. Creating drafts is bounded by `MaxRemote`.

### EventDelivery, Outbox
`EventDelivery` says what the outbox promises. `Outbox` has one row per event, the
consumption keys, the effects and the publishers' calls. Every database call of a
publisher may fail before or after its commit. An event has an idempotency key, so the
effects are a set: what could go wrong is an effect missing or an event given up, and
the log sink is a set as well. The refinement maps `status` and keeps `effects`.

### MemoryOutboxQueue
The queue the repository's tests run the publisher against. That `Outbox` implements it
(`ActsAsTestQueue`) says that what the tests show of the publisher holds with the SQL
queue as well: no step of PostgreSQL's is one the in-memory queue could not have taken.
An event that was never added is there the Map's missing key.

### RevisionHistory, BrandRevisions
`RevisionHistory` is the in-memory store of the tests, one indivisible step per call.
`BrandRevisions` is the PostgreSQL store: `LockWorkspace`, `LockForEdit` and
`LockForApproval` take the first lock of a transaction and read the row; `LockProfile`
takes the second and reads the next number; `CommitCreate`, `CommitEdit` and
`CommitApproval` write. An approval that supersedes a revision another request has
locked waits (`Blocked`); an edit and an approval wait, at the audit row whose foreign key
refers to the workspace, for a creation that has locked it (`WorkspaceHeld`). Both waits
happen under the profile lock, so each can close a cycle (`LockCycle`): with an edit of the
superseded revision, or with the creation, which waits for the profile. `BreakCycle` is
PostgreSQL's deadlock detection, which rolls the waiting edit or approval back.
`BeyondBound` is of the model only: an insertion past the last revision of an instance is
given up, so that a bounded run does not wait for it. A worker is the call of `processOne` it is in: `ClaimGeneration`,
`ReadRevision` (the model answers, or not), `CompleteGeneration`, `RetryGeneration`,
`FailGeneration`, `AcknowledgeSuccess`, `AcknowledgeFailure`. The two settling
transactions write revision and job together and match whatever owner the job has; the
retry and the acknowledgements ask for the owner. `failure` records why a revision
failed.

### Candidates
`EnqueueCandidates` is the consumer of `brand-profile.approved`, `SupersedeProfile` the
later approval that makes `loadApprovedProfile` throw. `LockCandidateJob` and `Complete`
are the two halves of the completing transaction, so a lease may run out between them.
`ReadKey` and `Decide` are the two reads of `decide`: the key before the row lock, the
candidate after it. One candidate stands for those of a snapshot.

### CatalogSnapshot
One product as `fetchProduct` reads it: first the product and its countries at once, then
five listings page by page (`FetchPage`, with the count or without it), while
`Withdraw` and `Reprice` change the catalogue. A decimal price is its whole part and the
digits of its fraction, and `Minor` is `decimalPriceToMinor` on it, including what it
refuses. `RequiredForMargin` is a set: `Math.ceil` of a floating-point quotient gives the
exact ceiling, or one minor unit more where the exact quotient is whole and the computed one
lies above it (cost 21 at a target of 30 % asks for 31, not 30). `Verdict` is `evaluateCatalogProduct`: exclusions, margin floor, recommended
retail and score.

### JobQueue, CatalogueState, ProductContent, Mockups, ProductPublication, Catalogue
The way of one approved candidate to its Shopify product. `JobQueue` says what a claim, a
retry, a deferral and an end make of a row; the modules above it say when, and which of
them ask for the owner, the lease or neither. `CatalogueState` declares the rows.
`ProductContent` has the writers and the editors: an approval reads, and commits later
(`ReadForApproval`, `CommitContentApproval`), queueing a mockup job if it finds a design
and a publication that waits for the mockup. `Mockups` has the renderers with their
remote task and the operators: a registration reads the latest approved revision and its
job, and writes later (`ReadForDesign`, `CommitDesign`). `CompleteMockup` inserts the
snapshot and releases the publication whether or not the job is still the worker's.
`ProductPublication` publishes by handle, so a repetition finds its own product.
`design.version` is the design by its registrations; `passed` is a history variable: the
designs that have passed the resolution gate.

### Storefront
Drafts, their transactions and the publication. `LockBase`/`CommitStoreEdit` lock the draft
and then the workspace, `LockStore`/`ApproveDraft` the workspace and then the drafts:
`BreakDeadlock` is PostgreSQL ending one of two that wait for each other (`WaitsFor`). A
publication that ends writes its draft, and waits for an edit that holds it. `PutResource`
is one request of the publisher, the pages (one stands for all) before the menu; `shop`
is what Shopify shows, `put` what it was given of each draft.

### Fulfilment
`ReceiveSent` and `ReceiveReturned` are the webhook's transaction, by payload digest.
`LookUp` is the query before the creation, which recognises a fulfilment by tracking
number and items; `CreateFulfilment` may take effect and be taken for a failure.
`ActOnCase` is the operator's decision on a return, with its key.

### Connections
`BeginOAuth`, `ClaimGrant`, `ExchangeCode`, `SeekOwner`, `SaveGrant` are the OAuth flow,
`Resolve`, `LockRotation`, `LookAgain`, `RefreshToken`, `SeekOwnerAgain`, `SaveRotation`,
`MarkReauth` the token provider, step by step between its calls. Both end in `upsert`, a
transaction of two steps: under the advisory lock of the shop (`ShopLocked`) it looks for
another workspace that is connected to it (`SeekOwner`, `SeekOwnerAgain`), and then writes
the row (`Upsert` in `SaveGrant` and `SaveRotation`), unless the unique index of the
connected shops (migrations 027 and 068) refuses it. Disconnects, uninstallations and the
rotations of other shops take no part in that lock and may come between. `CallbackDies` and `ResolverDies` roll
such a transaction back. A credential is the number of its refresh
token; `spent` is a history variable: the tokens a rotation has replaced in the table.

### PreviewUploads
`Turn` is the promise chain `exclusive` builds; `CheckQuota` and `Write` are the two ends
of what runs inside it. `WriteFails` may leave part of the bytes on the disk, `ServerDies`
also loses the chain.

### MCWorkspace, MCProducts
Two runs check these components. They do not share rows, so a run has several *parts*:
in each of them one component (or one stage of the catalogue) moves with every fault while
the others wait in their initial states. `part` never changes, so the states of a run
are the sum and not the product of its parts. The stages before the one a part is about
run only as far as they are needed: a content revision that is written without a fault,
for example, before the design is registered.

### External assumptions
Printful is seen as the code uses it: orders with the same external id may coexist and
the lookup answers with any of them; a confirmed order refuses DELETE; only a draft can
be confirmed; status `canceled` is reached from production. Shopify delivers any
webhook at any time. No assumption is made on either being timely. Shopify answers a
refresh with a new token and accepts a token it issued until that or an uninstallation;
a publication by handle finds the product or the page of an earlier attempt; a
fulfilment cannot take more than what remains of the line. The Printful catalogue may
change a price or withdraw a variant between any two responses.

## 4. Runs

| Run | Instance | Shows |
|---|---|---|
| `race` | 2 workers (symmetric), 4 attempts, 2 Printful orders, 2 webhooks, 1 action, 1 switch, 1 clean-up; 1.8 M states | `TypeOK`, `ProducedIsRecorded`, `OwnerSnapshotFresh`, `UnvettedOnlyAfterCleanup`, `RemoteIdNeverForgotten` |
| `operator` | 1 worker, 2 actions, 2 switches, 2 webhooks, paid and unpaid payloads, 2 clean-ups, 1 move; 1.6 M states | `LockColumns`, `SubmittedIsProduced`, `CancelledInTimeStaysOut`, `StoppedQueueOnlyDrains` |
| `live` | 2 workers, 1 Printful order, 1 webhook, 1 action, 1 move, with fairness; 0.25 M states | `RunningSettles`, `StopDrains`, `ProducedIsAcknowledged` |
| `outbox` | 2 publishers, 2 attempts, 1 requeue, one event with an effect and one nobody knows; 0.1 M states | `TypeOK`, `PublishedWasDelivered`, `OwnerCountsFresh`, `DeadLettersWereTried`, `Delivers`, `ActsAsTestQueue`, `EventsSettle` |
| `workspace` | `jobs`: 2 workers, 2 attempts, one revision in the making; `review`: 2 handlers, 2 revisions; `drafts`, `store`: 2 handlers, 2 workers, 2 drafts, 2 brand revisions, 2 attempts; `shop`: 2 workspaces, 1 shop, 1 process; `rotation`: 1 workspace, 2 processes, 3 tokens; `uploads`: 3 requests, 2 directories; 80 000 states | `WorkspaceTypes`, `RevisionAndJobAgree`, `OneApproved`, `ReadsStayFresh`, `KeepsHistory`, `DraftAndJobAgree`, `PublishedIsComplete`, `OneOwner`, `UsedOnce`, `QuotaHolds`, `JobsSettle`, `LocksEnd` |
| `products` | `snapshot`: 2 variants, 3 prices, 3 brand profiles, pages of 1, 1 change; `candidates`: 2 workers, 2 reviewers, 2 keys; `content`, `design`, `mockup`, `publication`: 2 workers each, 2 content revisions, 2 designs, 2 attempts; `ship`, `return`: 2 shipments, one of them tracked, 3 webhooks, 2 workers; 170 000 states | `ProductTypes`, `CandidatesAgree`, `StagesAgree`, `OnlyVettedDesigns`, `PublicationStaysEnded`, `SentIsQueued`, `DoneIsFulfilled`, `EligibleEarnsMargin`, `ProductJobsSettle` |
| `priced` | 1 worker, 1 clean-up | violation of `PricedBeforeConfirm` (docs/23, docs/25) |
| `cancelled` | 2 webhooks | violation of `CancellationApplied` (docs/86) |
| `overtaken` | 1 worker, 2 webhooks | violation of `CancelledIsHeld` (docs/86) |
| `reviewed` | 2 actions, payloads that fail | violation of `ReviewedByPolicy` (docs/92, docs/94) |
| `stranded` | 1 worker, 2 attempts | violation of `NoJobStranded` (docs/06) |
| `disconnect` | 1 workspace, 2 processes, 2 grants | violation of `DisconnectIsFinal` (docs/72) |

**Bounds.** Orders share nothing but the switch, and no statement relates two of them,
so one order is enough. Four attempts are what it takes to go through the three phases
and lose a lease once; an overlap needs two workers, and a third could only repeat what
the second does, since a row has one owner. Two Printful orders are the fewest that
show a duplicate or a replacement. Two webhooks are an order and its cancellation, or
an update, or two that hold a reading of the switch at once. `MaxAttempts = 2` for the outbox gives one retry, one last attempt and the
dead-lettering takeover. In the `race` run the switch is turned on once and may be
turned off at any time; turning it on again is in `operator`. In the other components
too `attempts = 2` gives a first try, a retry as the last attempt, and the takeover at
attempt 3 that closes the row; two revisions, drafts or designs are what it takes for one
to supersede another; two shipments for one to take what the other needs; three tokens for
a rotation of a rotated one. Two uploads fill a directory of two files and a third meets
the quota. Three decimals of which one has a third digit, and one without a fraction, are
the cases of the price conversion. Deadlock is not checked: a bounded run ends when its
budgets are spent.

**Fairness.** Worker steps are weakly fair (the polling loop, and provider clients with
timeouts); claims are strongly fair per row, because the claim orders by `available_at`
and so an old row is not overtaken for ever; a lease nobody works on runs out, and a
disabling transaction commits. Nothing is assumed of crashes, stalls, Shopify or the
operator: a worker may crash in every tick, and what ends that is the bound on the
attempts. The delays of `available_at` are not modelled in the pipeline: a row that is
not due yet is one that no worker has come to.
`ProducedIsAcknowledged` assumes in addition that deferrals end (`ProviderRecovers`):
they spend no attempt, and without that a provider that refuses for ever postpones the
job for ever, as it should.

For the components of `workspace` and `products` the same holds: the calls a worker makes
return, workers poll, back-off and leases run out; statements of a transaction return.
A lock queue is first come, first served, so the fairness of a handler that waits for a
row is strong: of every handler in `StoreFairness`, because a worker waits for the
drafts the handlers hold, and of those in the parameter of `BrandFairness`, the others
being weak. `LocksEnd` is checked of one handler of each component; every part treats the handlers alike, so one of them stands
for all. `JobsSettle` says of a brand revision that time and again none is generating
(`[]<>`): as a run has finitely many revisions, each of them leaves GENERATING. The jobs
of mockups are not among those that settle: a poll spends an attempt, and after the last
one nobody claims the row (see the hazards).

**Stranded jobs.** The liveness properties exempt rows whose attempts are used up
(`Stranded`, `GenerationStranded`, `CandidateStranded`, `PublicationStranded`), because the code does abandon them: the `stranded` run and the finding on
`claim` say so, and `EventsSettle` exempts the one outbox case (a publisher dying while it
dead-letters). They are exemptions of known size, not weaker claims about the others.

**Mutants.** Each property has a mutated definition next to the original, under a
comment that begins with "Mutant", which breaks it: a missing owner check, a torn
transaction, a refused DELETE taken for a done one, a claim that ignores its bound, a
missing trigger. They are never part of `Next`.

## 5. What is proved

With TLAPS, for every set of orders, workers, events and publishers and every bound:

* `OrderPipeline_proofs`: `TypeOK`, `LockColumns`, `OwnerSnapshotFresh`,
  `ProducedIsRecorded`, `SubmittedIsProduced` and `CancelledInTimeStaysOut` hold of
  `Spec`. `ProducedIsRecorded`, the central one, is not inductive, and the
  strengthening `IInv` is what makes it so: a worker confirms the order it remembers,
  so one has to know that what it remembers is what the row names, or is deleted
  (`SnapshotRecordedOrGone`); that holds because only the owner of a row replaces its
  remote id and an owner's memory is fresh (`OwnerSnapshotFresh`), because a job that
  is queued from the start has none (`PendingHasNoRemote`), and because the only other
  writer, the clean-up, has deleted the order by the time it forgets it, while its job
  cannot leave HELD (`CleanupHasJob`, `GoneOnlyInHeld`). `FoundDraftExists` and
  `SuccessWasProduced` carry what a worker saw at Printful to its last store call;
  `SucceededIsProduced` and `SubmittedSucceeded` give `SubmittedIsProduced`, and
  `CancelledInTime` gives `CancelledInTimeStaysOut`. The worker's steps that only read
  are proved preserved once (`ReadStep`), given where they lead (`Onward`, `Ended`);
  every other action has a lemma, and `InvInit`, `InvNext` and `Invariance` combine them.
  `RemoteIdNeverForgotten` and `StoppedQueueOnlyDrains` are about the steps of `Spec`.
  Under `IInv` every step is `Careful`: it `Remembers` (the row that `draftCreated`
  gives an order to had none, because its owner's memory is fresh, and a clean-up that
  settles has deleted what it forgets) and it `Drains` (every give-back passes the
  guard trigger, `ReleasedRow`, and the operator's requeue reads the switch).
  `UnvettedOnlyAfterCleanup` needs `VInv`, which says of rows and ticks what they know of
  prices: a quote without a draft was left by a clean-up (`RowCleared`), and the draft of a
  row or tick that is ready to confirm was priced, or its order has a draft that was cleaned
  up (`RowCleared`, `TickCleared`).
* `Outbox_proofs`: `TypeOK`, `PublishedWasDelivered`, `OwnerCountsFresh`,
  `DeadLettersWereTried`, and two refinements: `Refinement` (`Spec => Delivers`) and
  `ImplementsTestQueue` (`Spec => ActsAsTestQueue`). The strengthening says
  what each point of `processOne` knows: past the domain sink the event is consumed, at
  the mark it is logged too, a permanent error means an unsupported topic, and an owner
  about to give up a supported event is at its last attempt. For the test queue the
  mapping is row for row (`StepOfTestQueue`): every claim, retry, mark and dead-letter of the
  table is an operation of that queue, lost answers and the steps at the sinks are stutters.
* `BrandRevisions_proofs`: `BrandTypeOK`, `RevisionAndJobAgree`, `OneApproved`,
  `ReadsStayFresh`, and `ImplementsHistory`: `BrandSpec => KeepsHistory`. `ReadsStayFresh` is
  why the others hold, and needs that the locks exclude one another (`LocksExclude`) and that
  revisions are numbered without gaps (`Numbered`), so that the number read under the profile
  lock is the one `RevisionHistory` would give. `RowsAgree` is the relation of a revision and
  its job, `CallsKnow` what a worker knows: its revision exists, its attempt was counted, and
  what it acknowledges has been settled. For the refinement, `RequestsKept` says that a key
  names one revision and keeps naming it, so that the mapping of `requests` is a function.
* `Candidates_proofs`: `CandidateTypeOK` and `CandidatesAgree`. `CallsTied` says what a call
  knows of its row: only the owner is past the lock of `complete`, and its row is RUNNING
  until it commits. `FoundIsReviewed` ties the transaction of a reviewer to a candidate
  that exists.
* `Candidates_proofs`, of `CatalogSnapshot`: `SnapshotTypeOK` and `EligibleEarnsMargin`, for
  any catalogue, any prices and the three kinds of currency. `PagesLeft` says which listings
  a phase may still read and that each has pages left; `SomethingToSell` that a product
  without variants is never priced; `CostsRead` that a snapshot with live costs has a
  convertible price for every variant it may sell; `VerdictStands` that the verdict is that of
  what was read. The rest is arithmetic: the conversion loses nothing (`MinorIsExact`), the
  cost is the dearest variant's (`LiveCostCovers`), and rounding up suffices for the target
  (`RequiredSuffices`, `VerdictMargin`), to either of the prices floating-point rounding may give.
* `Catalogue_proofs`: `CatalogueTypeOK`, `StagesAgree`, `OnlyVettedDesigns` and the action
  property `PublicationStaysEnded`. The stages are coupled through transactions that read and
  then write, so the invariant says what each of them may rely on when it commits: an
  editor's draft is its own, what it supersedes or found the job of was approved, and one
  registration is open at a time (`EditorsKnow`); a renderer holds a vetted design or none
  (`RenderersKnow`); a publisher sends the one mockup of its revision (`PublishersKnow`);
  the design that passed the gate is recorded as such (`DesignVetted`); mockups are made of
  approved revisions and publications get their images (`RowsAgree`).
* `Workspace_proofs`, of `PreviewUploads`: `UploadTypeOK` and `QuotaHolds`. The quota is kept
  because only the first call of a queue counts and writes (`OneAtATime`), so what it counted
  is there still when it writes (`RoomForFile`); `CallsChecked` bounds what it writes. The
  bytes of a directory are the cardinality of a set of byte positions (`Stored`), so that a
  sum needs no induction.
* `Storefront_proofs`: `StoreTypeOK`, `DraftAndJobAgree` and `PublishedIsComplete`.
  `DraftAndJobAgree` holds because drafts are numbered without gaps and a number read by a
  transaction is free or has been taken by now (`Numbered`), and because no second
  transaction generates the draft of a brand revision while one is open (`TxsKnow`).
  `PublishedIsComplete` needs what a call has put at Shopify by the point it is at
  (`CallsKnow`).
* `Products_proofs`, of `Fulfilment`: `FulfilmentTypeOK`, `SentIsQueued` and `DoneIsFulfilled`, with
  `CallsKnow`: a call that reports success has seen or made a fulfilment of its shipment.
* `Workspace_proofs`, of `Connections`: `ConnectionTypeOK`, `OneOwner` and `UsedOnce`. `OneOwner` says that
  the look of `upsert` settles who owns a shop, so that its unique index never has to refuse
  a write; it holds because at most one transaction per shop is between its look and its
  write, and until then only that one can connect the shop (`WriterInv`: `OneWriter`,
  `StillFree`, `GrantOfOne`). That a connection stays disconnected is not part of it: see
  `DisconnectIsFinal`. `UsedOnce` says that a refresh token is in one call at a time, and in
  none once its successor has been stored; a rotation that failed, or whose answer or store
  was lost, does send its token again (docs/154), and the model lets it. It holds because a token that Shopify has issued and no row holds yet is known to one call only
  (`NewTokens`), a connected row never holds a spent one (`RowTokens`), and a rotation sends
  the token of its workspace's row, or of a row that has since been replaced by a callback
  or destroyed (`SentTokens`); steps that only take something away are `Weaker`.
* The compositions. `WorkspaceRunsComponents` and `ProductsRunComponents` say that the
  specification of each of the two composed runs implies those of its components: a step
  of a part is a step of one component and leaves the variables of the others alone
  (`PartsAreSteps`). So the theorems about the components hold of the runs, and the
  invariants the runs check conjointly, `WorkspaceTypes` and `ProductTypes`, are theorems
  of them (`WorkspaceKeepsTypes`, `ProductsKeepTypes`). It also says that the parts add
  nothing: a run explores behaviours of the components, and no others.

Least and greatest elements (the first of a queue, the dearest variant) are found through
`WFMin`, the well-foundedness of `<` on the naturals: the induction theorems of the library
take an operator, which the provers cannot instantiate.

The assumptions are those named in the modules (`NoneAssumption`, `BoundAssumption`,
`SetsAssumption`, `RevisionBounds`, `NoneIsNothing`, `CandidateAssumption`,
`SnapshotAssumption`, `CatalogueBounds`, `NilIsNobody`, `UploadAssumption`, `StoreBounds`,
`NilIsNoStoreWorker`, `ShipBounds`, `NilIsNoShipWorker`, `TrackedAreShipments`,
`ConnectionBounds`, `NoShopIsNone`; for the compositions `WorkspaceParts` and
`ProductParts`, that the processes the parts name are among those of the components). The values for "none" lie outside the sets they are
added to. `SnapshotAssumption` takes of a profile what `docs/schemas/brand-profile.schema.json`
lets through (a rate from 0 to 1, here in whole per cent, and prices that are naturals), and of the
regions that none is named like another request of the fetch; variants, and the uploads of
`UploadAssumption`, are finitely many.

Every invariant, every action property and every refinement a passing run checks has a theorem.

**Only model-checked**: the liveness properties and `LocksEnd` (`RunningSettles`,
`StopDrains`, `ProducedIsAcknowledged`, `EventsSettle`, `JobsSettle`, `ProductJobsSettle`), since
liveness and ENABLED are out of the prover's reach.

## 6. What the code does against its documents

Six statements of the documents are refuted; `PROJECT.json` quotes the lines.

* A draft can be confirmed without its cost having been compared, after an earlier
  draft of the order was cleaned up (`remote-draft-cleanup.ts:46` keeps the quote).
  `UnvettedOnlyAfterCleanup` shows that this is the only way.
* A cancellation that overlaps the order's first webhook is not applied.
* The worker's success takes a cancelled order out of HELD.
* A failing REVALIDATE removes the marker that keeps MANUAL_APPROVE out.
* Jobs that use their last attempt in `WAITING_COST` are abandoned in the queue.
* A token rotation that was under way when a provider was disconnected connects it again.

## 7. What is left out, and why

* A SQL statement, and a transaction that reads nothing others may change while it is
  open, is one step. The two exceptions that matter, `receive` and disabling, are two.
* Row-lock waits and deadlocks between the transactions of the order pipeline: PostgreSQL
  aborts one, which is the same as its not having run. The brand store and the storefront,
  where transactions lock the same rows in opposite orders, have their locks modelled, each
  for itself: both lock the workspace's row, and a brand request and a storefront request that
  wait for each other over it are not modelled. PostgreSQL aborts one of the two, which each
  component has as a rollback.
* `REVISION_NOT_FOUND` in the domain sink: revisions are never deleted.
* The order's status is modelled twice, up to its submission in `OrderPipeline` and after it in
  `Fulfilment`: a shipment needs a submitted order, and no operation of one touches what the
  other decides but a late `orders/updated` webhook, which the pipeline has.
* Redaction in `privacy/request-service.ts:46`: it concerns shops that have left.
* Heartbeats, where a worker has one, are a lease that runs out or does not.
* The lists of a snapshot's candidates, of a shipment's lines and of a plan's pages are one
  element each: no code relates two of them but in sums that the element's quantity stands for.
  What mockup styles a product has is a count.
* Margins of the order policy on 64-bit amounts, and the rate limiter's counters: the first
  is a verdict; the second is one transaction that locks its row from its reading to its
  writing, and its answer is nondeterministic.
* The in-memory stores of candidates and generation jobs: they are the tests' own, and the
  abstract specifications of the outbox and the brand store show the method.
* The two reads of a connection in `#read` (the shop, then its token) are one step: a shop
  and a token that do not belong together are answered by Shopify as inactive.
* A design service without a resolution inspector, which registers `NOT_EVALUATED`: the
  gate is what `OnlyVettedDesigns` is about.
* Audit rows, reasons' wording, payload formats, encryption, rendering, HTTP.
* Components marked `not_modelled` in `PROJECT.json`, each with its reason.
