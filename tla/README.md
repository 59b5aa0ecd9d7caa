# Verification of RelayOS in TLA+

RelayOS turns order e-mails into shipments. A poller fetches e-mails over IMAP,
a worker parses them, a pipeline extracts an order, reconciles its address, asks a
caretaker and submits it to the PUDO courier; a fulfilment loop follows the parcel;
events feed WhatsApp messages, Shopify and marketing; independent packers pack;
chatbots answer the customers; an Express API lets reviewers, operators and tenants
intervene. Postgres holds the state, BullMQ on Redis the queues. Nothing in the
system locks across two steps: correctness rests on unique keys, on conditional
`UPDATE`s and on idempotency rows, while queue workers, poll loops, timers and HTTP
handlers interleave at every `await`. That is what these modules are about.

Paths below are relative to `src/src/` of the repository. `PROJECT.json` lists the
components, runs, findings, hazards and theorems, and maps every definition to its
lines.

## 1. Inventory

| Component | State | Operations | Hard behaviour | What makes it correct |
|---|---|---|---|---|
| Idempotency keys (`idempotency/`, `api/idempotencyRoutes.ts`) | `idempotency_keys` rows | claim, take over, record, expire, delete | concurrent callers, crashed owners, slow owners, lost answers | a side effect is repeated only when it must be; one caller inside `fn` |
| Event outbox (`events/`) | `domain_events` rows, `domain-event-dispatch` queue | emit, dispatch by job, relay sweep | overlapping sweeps, two dispatch paths, crash after the claim | one dispatcher at a time; dispatched means handled; every event settles |
| Dead-letter API (`api/dlqRoutes.ts`) | failed jobs | retry, remove | acts on jobs in any state | part of the module whose queue it is |
| E-mail ingestion (`workers/ingestionWorker.ts`, `tenantIngestionWorker.ts`, `imap/`, `dedup/`) | offsets, `ingested_emails`, e-mail queue | poll: read offset, open, reset, fetch, insert, enqueue, save | two pollers on one mailbox, rebuilt mailboxes, crash between row and job | no mail is passed over; no row without a job |
| E-mail processing (`workers/processingWorker.ts`, `queue/`) | row status, job, attachments, dead letters | start, parse, file attachments, trigger the pipeline, retry, bury | late status writes, swallowed errors, redelivery | every e-mail reaches the pipeline or the dead letters |
| Order pipeline (`pipeline/`) | `pipeline_jobs`, stage results, `orders`, pipeline queue | the stages, diversion, submission, trigger, reprocess, address | redelivery, approvals and reprocesses of a job in flight | one shipment per order, complete and fitting its service; no order lost |
| Caretaker (`caretaker/`, `api/caretakerRoutes.ts`) | `caretaker_evaluations` | evaluate, resolve, reopen | reviewer racing the pipeline; overrides hidden by a newer row | an incomplete order is looked at; approvals and overrides take effect |
| Fulfilment (`fulfillment/`, `api/fulfillmentRoutes.ts`, `api/manualRoutes.ts`) | `fulfillment_jobs`, order status, Shopify | tick, poll, milestone, cancel, upload, collect | manual poll beside the loop; cancel while polling; crash after Shopify acted | a milestone is announced, and once; Shopify hears once; jobs end |
| Packers (`packerAuth/`, packer routes) | links, counters, histories, invites, digests | assign, decline, rate, pack, invite, sign up, digest | absolute counter writes; racing redemptions; session locks | counters and shares agree; an invite makes one link; one digest a week |
| WhatsApp (`whatsapp/`) | settings, templates, messages | deliver, send, record, callback | redelivery, failed sends, callbacks in any order | a notice is sent once for its key; the log claims no more than was sent |
| Marketing (`marketing/`) | enrolments, sends | tick, schedule, fire, edit | overlapping ticks, stopped campaigns | a step is heard once; a due send settles |
| Customers (`customers/`) | customers | upsert inside a transaction, on another connection | lost updates; pool exhausted by its holders | every order a submission stores is counted; a submission ends |
| Chatbots (`chatbots/`, `api/whatsappWebhookRoutes.ts`) | conversations, messages, summaries | reply, hand over, summarise | overlapping webhook calls | only summarised history is deleted; who was promised a hand-over is flagged |
| Knowledge (`knowledge/`, `api/knowledgeRoutes.ts`) | sources, documents | sync, prune, edit, delete | overlapping syncs, a changing site | a sync leaves what the site has |
| Corrections (`ai/correctionsDistiller.ts`, `ai/runRecorder.ts`, `api/agentRunsRoutes.ts`) | corrections of runs, distilled rules | correct, withdraw, thumbs-down, distil | overlapping requests about a run; distillation beside them | prompts teach the reviewer's last word |
| Onboarding (`api/onboardingRoutes.ts`, `settingsRoutes.ts`, `tenants/`) | integrations, credentials, tenant status | pick, save, mark, reset, remove, complete | overlapping requests | configured means credentials; active means served |
| Accounts (`auth/`, `api/usersRoutes.ts`) | users, permissions, tokens | register, log in, invite, edit | a first login cut short, racing edits | an owner can manage |
| Parsing, storage, schema, configuration, dashboard | – | pure functions, I/O, DDL, user interface | – | – |

How they interact: the poller inserts a row and adds a job (e-mail queue); the
processing worker marks the row and adds `pipeline-<emailId>` (pipeline queue); a
pipeline run calls the courier through an idempotency key and commits the order, its
customer's count, its packer's stamp, its `ORDER_CONFIRMED` event and the job's status
together; the outbox dispatches the event to WhatsApp, the CRM and marketing; the
fulfilment loop finds orders with a waybill by itself. Start-up (`bootstrap.ts`)
recovers nothing: `recoverStalledJobs` (`pipeline/recovery.ts:12-15`) is disabled, so
what a crash leaves behind is what the queues redeliver.

## 2. Modules

| Module | Stands for |
|---|---|
| `EffectBudget` | abstract: a side effect paid from a budget that only named causes raise |
| `Idempotency` | `withIdempotency`: one key's row, any number of callers |
| `Outbox` | `domain_events`, the dispatch queue, overlapping relay sweeps |
| `EmailIngestion` | IMAP server, pollers, offset, deduplication rows, e-mail queue |
| `EmailProcessing` | one e-mail's row, job, attachments, dead letter and pipeline job |
| `Pipeline` | the control of one e-mail's pipeline job: its runs, evaluations, order, courier key, and what people do to them |
| `OrderData` | the data of one order: what the stages compute and the caretaker decides |
| `Fulfilment` | one order's polls, milestones, Shopify keys, cancels |
| `Packers`, `PackerInvites`, `PackerDigest` | assignment and load; invites and sign-up; the weekly digest |
| `WhatsApp`, `Chatbot`, `Knowledge`, `Corrections` | notifications; the conversation; the knowledge base; what an agent learns from reviewers |
| `Marketing`, `Customers` | campaigns; the order count and its connections |
| `Onboarding`, `Accounts` | integrations and activation; users and permissions |
| `MCFulfilment`, `MCOrderData` | values for TLC that a `.cfg` cannot write |
| `Packing`, `Tenant`, `Business` | the compositions: packers with invites and digest; the six services of a tenant; campaigns and customers. Their parts share no variable, so `part` (`side`) says which one a behaviour runs, and a run has the states of each and not of the product |
| `MCPackers`, `MCTenant`, `MCBusiness` | values for the compositions |
| `…Proofs` | the theorems of the module they are named after; `EmailProofs` those of ingestion and processing, `TradeProofs` those of `Packing` and `Business` |

### Idempotency

`row` is the key's row (status, owner, whether its timestamp can be matched, whether
it has aged), `pc` where each caller is, `current` the callers whose snapshot still
equals the row. `Read`, `Insert`, `TakeOver`, `Perform`, `Answer`, `RecordSuccess`,
`RecordFailure`, `Tell` are the awaits of `withIdempotency` in order; `Age`,
`Overstay`, `Expire`, `Crash` and `ClearKey` are the clock, faults and the operator.
A timestamp is abstract: `exact` says whether a JavaScript `Date` can equal it: `now()`
in Postgres has microseconds, a `Date` written by the code has not. The row refines
`EffectBudget`.

### Outbox

`status`, `attempts` are columns; `job`, `tries` the BullMQ job; `at`, `done`, `threw`
what each dispatcher (a queue slot or a sweep) is doing; `candidates` what a sweep has
selected and still has to try. `EmitInTrx`, `Emit` and `Nudge` are the two ways of
emitting and the best-effort `queue.add`; `TakeJob` and `TryCandidate` claim;
`RunHandler`, `MarkDispatched`, `FailToMark`, `MarkFailed`, `FailToRecord` end a
dispatch; `RetryJob`, `DiscardJob` are the dead-letter routes.

### E-mail ingestion and processing

In `EmailIngestion` mails are numbered by arrival, the server renumbers UIDs from 1
when the mailbox is rebuilt, and a deduplication key is a pair of UID and mail,
because the key's hash does not contain the UIDVALIDITY. A poll's steps are the awaits
of `fetchAndEnqueue`; `SaveOffset` writes the maximum that poll saw, whatever other
polls saved. `blind` records the one case the code cannot notice (see observations).
In `EmailProcessing` the poller's late `queued` mark races the worker; `StoreAttachment`
files one attachment at a time, so an attempt may end between two; `FailAttempt`,
`Bury`, `Discard`, `FailToRecord` are the branches of the worker's catch block.

### Pipeline and OrderData

Control and data are two modules, joined at the stages. In `Pipeline` a run is one call
of `processPipelineJob`: by the queue (a member of `Jobs`: the first job and one per
reprocess) or by an approval (`Resumes`), which the route starts and does not await;
`phase[r]` is the await the run is at.

| Actions of `Pipeline` | Code |
|---|---|
| `Trigger`, `Take`, `Resume` | the fixed job id, the guard on terminal states |
| `Receive`, `InsertRow` | look up or insert the job (unique on email and tenant) |
| `Normalize`, `Validate`, `Invalid`, `Assemble`, `Payload` | the stages, by the status they write and what they read |
| `Divert`, `Diverted` | `divertToManualQueue`'s two writes |
| `Review`, `Judge`, `Approved`, `Halt` | the caretaker's stage and the status written after it |
| `Submit`, `Cached`, `Defer`, `Ship`, `CallFails`, `Commit`, `Rollback`, `RecordFailure` | `executeCourierSubmitted` |
| `Throw` | the catch of `processPipelineJob` |
| `Lapse`, `Crash` | a stale claim, a process that dies |
| `Approve`, `Reject`, `Reopen`, `FixAddress`, `Reprocess`, `Enqueue`, `ClearKey`, `RetryJob`, `DiscardJob` | the routes |

`Alive(r)` is the foreign key: a run whose row a reprocess has deleted can insert no
stage result and its `UPDATE`s match nothing. A route's two writes (evaluation, then
status) are one step: no step of a run reads both. `Ship` is a 2xx answer, with a waybill
or without (`Null`): the code commits either.

`OrderData` follows one run after another. Of a field of an address it keeps the origin
(mail, geocoder, model, reviewer), of coordinates which point they are, of names, phones
and items whether they will do. `Extract`, `Validate`, `Locate`, `Reconcile` (second
geocode, the model's suggestion with a confidence, `Decision`), `Assemble` (with the
newest evaluation's overrides), `ResolveLocker`, `CreatePayload`, `Judge` (rules and
model, `Merged`, `Escalated`, by mode), `Submit` are the stages in the order of
`processPipelineJob`; a tenant's rules that can be switched off are `tenant.requires`, and
what they look for `customer.has`; `DivertByRoute`, `DivertUnreachable`, `NoLockerList`,
`Unshippable`, `Invalid` its exits; what the geocoder, the model and the courier answer
is chosen by the action.

### Fulfilment

`order`, `job` are the rows and `key` those of the idempotency keys, one for each of
Shopify's fulfillment orders; `courier` tells of each parcel, for the job polls the waybill
it was made with. `poll[p]` is a poll by the worker or by hand between two awaits, `request`
a cancellation under way. `Fetch`, `ReadPrevious`, `CommitMilestone`, `CheckFulfilled`,
`ClaimKey`, `Create`, `PersistFulfilled`, `Finish` are the stages of
`processFulfillmentJob`; the milestone is read before the transaction that writes it, and
`CheckFulfilled` takes whichever fulfillment order it finds. `Undecipherable` is the cycle of
a tenant whose Shopify token cannot be decrypted. A courier's status is the set of words it
contains, which is all `mapStatusToMilestone` looks at, in its order. Of a key the module
has the states a poll can tell apart; `TakeOver`, `Crash`, `CreateFails` and `ClearKey` are
what makes a second fulfillment.

### Packers

`Packers`: links with counter, weight and status, the order's history, the recent
choice. `SelectPacker` is what the payload stage reads, `CommitAssignment` what the
submission writes, with everything in between; a decline is `ReadOrder`, `ReadLink`,
`PickReplacement`, `CommitDecline`; `Reprocess` deletes an order and leaves the counter as
it is, and `abandoned` keeps count. Loads are compared as cross products, ratings by the
effective weight. `PackerInvites`: check and creation of an invite, sign-up in three
steps, acceptance in one transaction. `PackerDigest`: the advisory lock belongs to a
session, so a lock is a connection, and the unlock may run on another.

### WhatsApp, chatbot, knowledge, corrections

`WhatsApp`: a process is one delivery of an event; `Claim`, `LogSend`, `Accept`,
`Refuse`, `Record`, `RecordFails` are the steps of `dispatchByPurpose` inside
`withIdempotency`; templates are edited, deleted, submitted and imported meanwhile;
`StatusUpdate` is Meta's callback; `Lapse` ages a claim or an answer (7 days),
`ClearKey` is the operator. `Chatbot`: a webhook call takes its messages one by one,
each with its reply; `HandOff`, `StoreSummary`, `DeleteOldRows` are not awaited by it. A
summary replaces the one before and tells of as many of the oldest rows as fit (`Room`
always do), a hand-over's note replaces it with none. `Knowledge`: a sync lists,
fetches, reads the chunks of a page, writes, prunes, counts; a page is the sequence of
its chunks. `Corrections`: a correction is looked for, then written, then answered;
`Prompt` is what a message's prompt teaches, examples and rules; `BeginDistil` and
`StoreRules` are the distillation a message starts and does not await. `Parses` is what
`JSON.parse` makes of a column the driver has already parsed: nothing, so rules never
reach a prompt (see observations).

### Customers, marketing, onboarding, accounts

`Customers`: the upsert inside the order's transaction uses the pool, so a transaction
that holds one connection waits for another; `lock` and unique keys are Postgres's.
`Marketing`: a pass (tick) enrols, schedules and fires, and passes overlap because
`setInterval` does not wait; a campaign may be `unusable`, when its dates make Postgres
refuse the tick's query. `Onboarding`: a request reads a row and later writes it or its
companion; `deleted` names the rows whose credentials were removed. `Accounts`: the
first login inserts the owner and its permission in two statements.

## 3. Runs

Every passing run explores its whole state space; every property of it is violated by a
mutant of the mapped code (`PROJECT.json`, "mutants").

| Run | Shows | Bounds, and why they suffice |
|---|---|---|
| `idempotency` | one caller inside `fn`, the refinement of `EffectBudget` (no side effect without a cause), and that the operation settles if one caller keeps asking | 3 callers: an owner, one that takes over, one that races the takeover; 2 excuses, 1 failure |
| `outbox` | one dispatcher, dispatched means handled, every event settles | 2 events, 2 handlers (one can throw after the other has run), a slot and a sweep, a crash, a retry; the batch holds 1, so an event that fails for ever could starve the next |
| `ingestion` | the offset passes no untried mail; races strand no row; every mail is taken | 2 pollers, 2 mails in a batch of 2, a rebuild, a crash, a failure; any number in the proofs |
| `processing` | e-mails are handed on or buried, the status tells which, attachments are on record, jobs end | 3 attempts as configured, 2 attachments of which one is refused, 2 stalls, 5 failures, so that every attempt and the writes after it can fail |
| `pipeline` | the shipment budget, the courier's answer in every submitted order, no order lost by errors | 2 queue jobs, 2 approvals, 2 attempts, 2 rows, 2 faults or interventions: two runs of any kind overlap, with any two disturbances |
| `orderdata` | nothing found is erased, silence means complete, shipments fit, courier and row agree | 2 points (one without a locker near), 2 vital fields, 4 extractions, 4 overrides, 4 tenants of different mode and rules, confidences on each side of the thresholds, 2 runs, 2 interventions |
| `fulfilment` | milestones announced, once without races, each fulfillment order fulfilled once, jobs end | one poll of each kind, 2 waybills, 2 fulfillment orders, the four answers the code tells apart, 2 moves of the courier, one failure, crash or request |
| `packers` | counters, shares, invites, digests | 2 orders, 2 packers, 2 overlapping declines or ratings and a reprocess among 3 moves, 2 invites, 2 requests, 2 processes of 2 and 1 connections with 3 ticks |
| `tenant` | onboarding, accounts, notices, chat, knowledge, corrections | in each part two overlapping requests, deliveries or calls, enough messages to pass the summary's threshold, of which a transcript may hold only one, 2 URLs, pages of up to two chunks; 2 runs of an agent, 2 corrections of which a prompt shows 1 and rules need 2 |
| `business` | campaigns and customer counts | 3 runs of 2 orders on 2 connections (all may wait); 2 passes, 2 rows in batches of 1, an edit and a crash |
| `idempotency_crash` (violation) | a crashed first owner is never replaced | 2 callers |
| `pipeline_overrides` (violation) | overrides of an approval are not shipped | 1 approval, 2 interventions |

`CHECK_DEADLOCK FALSE` stands where the system may stop: the events, the e-mail or the
order are finished and nobody intervenes any more.

### Properties

* `ImplementsBudget`: side effects never exceed one plus the answers lost, crashes after
  the effect, owners that outlived `staleAfterMs`, expired answers and deleted keys
  (`NoUnexcusedEffect`, which the refinement implies, is proved as well).
  `OnlyOwnerInside`: unless an owner was deposed by the clock or by an operator, a caller
  inside `fn` owns the row.
* `OneDispatcher`, `DispatchedMeansHandled`: whatever overlaps, an event has one
  dispatcher, and `dispatched` is written after all its handlers have completed.
* `OffsetCovers`: whichever poller saved last, an offset that is valid covers only mails
  that were tried. `NoRowStranded`: only
  crashes and failures leave a row without a job.
* `HandedOn`, `StatusTells`: how a job ended is what the row, the attachments and the dead
  letters say, except for the errors the code swallows, which leave nothing to find.
* `ShipmentBudget`: one shipment per order, plus one for each fault and each cleared
  key, whatever overlaps. `OrderIsShipped`: a submitted order has what the courier
  answered to one of its submissions, a shipment's waybill or none, and the customer was
  told that answer. `CompletedHasOrder`: without a fault or a deferral, a job at rest in
  `completed` has an order.
* `NothingErased`, `SilentMeansComplete`, `ShipmentFits`, `CourierAgrees`: neither the
  second geocode nor the model takes a field away; what ships on the caretaker's own
  verdict is complete, and passes every rule the tenant left on, whatever the
  confidence; both ends of a shipment are of the kind its service needs; the row tells
  what the courier has until a human runs the order again.
* `ShownIsAnnounced`, `OncePerVisit`, `FulfilledOnce`: no milestone is shown and not
  announced, none is announced twice unless a poll or cancel meets a poll under way, and
  retries make no second fulfillment on the same one of Shopify's fulfillment orders.
* `CountsAreOpenAssignments` (those of deleted orders included, unless a decline wrote
  over a change it had not seen),
  `LoadShared` (within the submissions that can choose at the same time),
  `LinkNamesItsInvite`, `DigestOnce`.
* `ConfiguredIsBacked`, `ActiveIsServed`, `OwnerGetsIn`, `NoticeBudget`,
  `RowsTellTheTruth`, `OnlySummarisedGo`, `PromiseIsFlagged`, `SyncIsFaithful`,
  `LastWordIsTaught`: one or two for each part of the tenant's run; each names its
  exceptions, which are the races listed under observations. `OnlySummarisedGo` does not
  say that history is kept: what a transcript had no room for, and what a replaced
  summary told, is gone (see observations). `PromiseIsFlagged` is about escalations; an
  agent's fallback sentence that a colleague will look into it, without one
  (`chatbots/orderSupport.ts:170`, `tenantInfo.ts:69`), flags nothing.
* `OrdersAreCounted`, `StepHeardOnce`: likewise for customers, of whom only the orders that
  submissions store are counted, and for campaigns.
* Liveness: `Settles`, `EveryMailIsTaken`, `JobEnds` (processing and fulfilment),
  `SubmissionEnds`, `DueSendSettles`. `Settles` of the keys is conditional on one caller that
  keeps asking (`KeepsCalling`), `DueSendSettles` on campaigns whose dates Postgres takes.

### Fairness

Liveness assumes weak fairness of what the code schedules: a caller inside
`withIdempotency` goes on (promises settle, upstream calls time out) and the clock ages
an orphaned claim; queue slots and the relay's interval go on; a poll's timer is set
again whatever became of the last poll; BullMQ hands out a waiting job; the fulfilment
and the marketing worker tick on an interval, and a poll or pass that has begun takes
its steps; knex's `acquireConnectionTimeout` ends a wait for a connection. In
`business`, whose two parts share no step, the fairness of a run and of a pass is stated
as one formula of a disjunction of which only one disjunct can ever be enabled. Nothing
is assumed of callers that have not called (a property that needs one says so in its
antecedent), of operators, of arrivals or of the order in which actors run. Violations
of liveness are found under the same fairness. Two queries take the first of what is due
in no order, `limit(10)` in `fulfillment/worker.ts:68-74` and `limit(20)` in
`marketing/worker.ts`: that no row is passed over for ever is assumed, of the job by the
fairness of `Begin`, of the sends by the bound on rows.

## 4. Proofs

Eight modules hold the proofs; each theorem holds for every value of the constants that
satisfies the assumption of the module it is about: any number of callers, pollers,
jobs, approvals, orders, fields, and any bound on faults.

| Module | Theorems | Assumes |
|---|---|---|
| `IdempotencyProofs` | `TypeCorrect`, `NoUnexcusedEffectHolds`, `OnlyOwnerInsideHolds`, `AnswerIsKeptHolds`, `Implements` | finitely many callers |
| `OutboxProofs` | `TypeCorrect`, `OneDispatcherHolds`, `DispatchedMeansHandledHolds`, `DispatchedIsFinalHolds`, `AttemptsBoundedHolds` | slots are not sweeps, finitely many sweeps |
| `EmailProofs` | `TypeOKHolds`, `OffsetCoversHolds`, `NoRowStrandedHolds`; `JobTypeCorrect`, `HandedOnHolds`, `FailedIsBuriedHolds`, `StatusTellsHolds` | a batch has a mail; there is at least one attempt |
| `PipelineProofs` | `TypeCorrect`, `OrderIsShippedHolds`, `ShipmentBudgetHolds`, `CompletedHasOrderHolds` | finitely many jobs and approvals |
| `OrderDataProofs` | `NothingErasedHolds`, `SilentMeansCompleteHolds`, `ShipmentFitsHolds`, `CourierAgreesHolds` | finitely many vital fields, the code among them; confidences are percentages |
| `FulfilmentProofs` | `ShownIsAnnouncedHolds`, `OncePerVisitHolds`, `FulfilledOnceHolds` | waybill numbers are not 0, the worker's poll is not one by hand |
| `TenantProofs` | `ConfiguredIsBackedHolds`, `ActiveIsServedHolds`; `OwnerGetsInHolds`; `NoticeBudgetHolds`, `RowsTellTheTruthHolds`; `OnlySummarisedGoHolds`, `PromiseIsFlaggedHolds`; `SyncIsFaithfulHolds`; `LastWordIsTaughtHolds`; `TenantKeepsItsWord` | finitely many URLs, whose pages are finite sequences; fewer messages are kept than a summary takes; a prompt shows at least one correction; the constants for nobody are none of the others |
| `TradeProofs` | `CountsAreOpenAssignmentsHolds`, `LoadSharedHolds`; `LinkNamesItsInviteHolds`; `DigestOnceHolds`; `OrdersAreCountedHolds`; `StepHeardOnceHolds`; `PackingKeepsItsWord`, `BusinessKeepsItsWord` | finitely many orders; weights and scores are positive; processes share no connection; the constants that stand for nobody are none of the others |

The arguments:

* **Idempotency.** `NoUnexcusedEffect` is not inductive: a row that a caller may still
  claim is a side effect to come. `Accounting` counts them: effects performed, callers
  that are calling, callers whose call threw before they have recorded it, a row open to
  the next caller, and a fresh claim whose owner is gone, never exceed one plus the excuses.
  It needs `OnlyOwnerInside`, and that needs `SnapshotInv`: a snapshot that still
  equals the row was claimable when it was read. `Implements` maps
  effects to `spent` and one plus the excuses to `granted`; by `Accounting` every step
  spends within the grant, grants, or stutters.
* **Outbox.** `ProgressInv` ties a dispatcher's position to the handlers that have
  completed; with `OneDispatcher` it gives `DispatchedMeansHandled`. The attempts column
  may pass the relay's cap, because the queue's claims do not look at it and overlapping
  sweeps have selected before; `AttemptsInv` charges each claim to the cap, to a sweep with
  the event among its candidates, or to an attempt of the job.
* **Ingestion.** `OffsetSound` is `OffsetCovers`; `PollSound` is what a poll carries from
  one await to the next so that the offset it will save is sound as well: the offset it
  read, the batch it fetched, the maximum it has reached, each only while the UIDVALIDITY
  it saw is the mailbox's. The order of UIDs enters through two lemmas on least elements,
  by well-foundedness of the naturals. The proof found what TLC with two mails had missed:
  with three, a poll that has read a seeded offset (no UIDVALIDITY) can save it under the
  UIDVALIDITY of a rebuilt mailbox. The model's `blind` names that case and the property
  excepts it. `NoRowStranded` compares the set of stranded rows with the crashes and failures
  so far: a step strands at most one row, and only if it is one of those.
* **Processing.** `ToldInv` and `FiledInv` say of the job in progress what the properties
  say of the finished one.
* **Pipeline.** `StepKinds` sorts the steps of the next-state relation: all but a few kinds
  leave order, key, shipments and calls alone, and need no case of their own in the three
  proofs. `ShipmentBudget` follows from `Accounting`: shipments, calls in flight and the one
  that the key owes to the next run never exceed one plus faults and cleared keys.
  `CompletedHasOrder` needs the whole course of a job (`FateInv`): a completed row without
  an order has a live run in a phase after the payload, which will give it one or take it
  out of `completed`; a BullMQ job has one run, rows are not made twice, and a run that has
  diverted has left its order.
* **OrderData.** `Shape` is the type invariant; `RunInv` has one conjunct per variable that
  a stage hands to a later one. `NothingErased` rests on lemmas about the two ways a place
  is changed: `RegeocodedKeeps` and `SuggestedKeeps`, that neither takes a
  field away, and `ReconciliationKeeps`, that no decision but `flagged` leaves one missing.
  `KeyInv` says when the courier has something: only after the run that ended submitted,
  until a transaction is lost or a human runs the order again.
* **Fulfilment.** `AnnouncedInv` covers what a poll remembers of the previous milestone;
  `VisitsInv` says that a milestone the courier shows and nobody has seen was visited once
  more than it was announced; `CreatedInv`, for each fulfillment order, that those created and
  those a poll is about to create are paid by the key's state and the excuses.
* **Onboarding.** A request that has read a row keeps what it read (`ShopSaved`,
  `CourierSaved`, `Seen`); the sequences of rows only grow.
* **Accounts.** `CallFits` ties a login that inserts or grants to the permissions it
  will give, and an invitation to rows the exception names: whatever else is granted, an
  owner's row is about to get `*` or has been touched by hand.
* **WhatsApp.** `KeyBudget` is `Accounting` for each key: messages sent, senders under way
  and the send its state still allows never exceed one plus the key's excuses; a key that is
  cleared or taken over allows one more and is charged for it. It needs a
  count of a set that varies with the step, hence lemmas on how a finite set changes by
  one element. `RowsApart` gives each sender a row of its own, so that the log can be
  read without knowing which outcome arrived last.
* **Chatbot.** A row that is old among the rows a summariser has read is old among all
  (`OldIsOld`), and its summary was stored first (`StoredFirst`): what it deletes is told by
  the conversation's summary or among what was left out or replaced; a reply about to
  promise belongs to a conversation that is flagged (`FlaggedBefore`).
* **Corrections.** Of a run whose requests never met, `RunInv` says: it has one reviewer at
  most and one row, which was found if it is there, and which says the last word or is about
  to be told. Everything else a process does leaves the run alone.
* **Knowledge.** A request on an undisturbed source is alone there (`Alone`), so the rows it
  has read are the rows there are when it writes, but for texts edited since (`ReadRows`);
  page by page, `Undisturbed` says which pages have their chunks already.
* **Packers' counters and loads.** `TallyInv` keeps, beside the equality of counter and
  open entries, those of deleted orders included, what the orders and the declines under
  way have read or hold: a history that ends with the open entry of the packer, so that
  a decline that writes over nothing closes that entry and takes one from the counter.
  `LoadInv` counts each submission that carries a packer as if it had committed: the
  packer chosen was the least loaded for its weight among those with a collection point,
  and each order carries one, which bounds the lead by the number of orders.
* **Invites and digests.** `LinkNamesItsInvite` is inductive by itself: an invite is
  read again, accepted and named by the link in one transaction (`RedeemKeeps`), and one
  that was accepted is never revoked or redeemed again. While no session is lost, a pass
  under way holds the lock in a connection of its own process (`PassAlone`), so no other
  is under way, and whoever was told is marked or about to be (`ToldAndMarked`).
* **Customers and campaigns.** An order stored, or about to be, has paid an increment of its
  own: the sum of the count and of the increments overwritten is at least their number
  (`CountInv`). A step is heard once because its row is made once (`ChoiceInv`: one pass has
  chosen the customer, who is new to the campaign) and sent once (`RowInv`: one pass holds a
  pending row).
* **Compositions.** A behaviour of `Tenant`, `Packing` or `Business` is one of every part,
  with stuttering, so the theorems of the parts hold for what the runs explore.

Every safety property of the passing runs is proved. Only model-checked is liveness
(`Settles` twice, `EveryMailIsTaken`, `JobEnds` twice, `SubmissionEnds`, `DueSendSettles`),
which needs fairness and `ENABLED`, out of the prover's reach. What a language model, a
courier or a reviewer answers is any member of a set in the proofs as in the runs.

## 5. Findings

Two are checked by runs that must find a violation:

* `idempotency_crash`: a key whose first owner dies is stuck. The takeover compares
  `updated_at` with the `Date` it read (`idempotency/index.ts:105`), which has milliseconds;
  the first insert leaves the column to `now()`, which has microseconds. Against
  `idempotency/index.ts:15-16` ("handles crashed workers").
* `pipeline_overrides`: a run that finds a job approved by a human records an evaluation
  without overrides (`caretaker/index.ts:374`), and the newest evaluation is the one whose
  overrides are merged: an approval's corrections are not shipped. Against
  `api/caretakerRoutes.ts:270-271`.

Observations met while modelling. The models do what the code does, and a property
that would be false because of one of them names it as its exception.

Queues and events
* A dispatcher that dies after its claim leaves the event in `dispatching`, which neither
  path selects (`events/index.ts:159`); `Settles` of the outbox excepts orphans.
* `POST /dlq/outbox/retry` is shadowed by `/dlq/:queue/retry` (`api/dlqRoutes.ts:158`).
* A restart between the row and the job of an e-mail strands the row: the next poll sees a
  duplicate (`workers/ingestionWorker.ts:209`; `tests/integration.test.ts:221` expects none
  lost). An offset seeded without a UIDVALIDITY cannot notice a rebuilt mailbox
  (`ingestionWorker.ts:131`, `tenantIngestionWorker.ts:194`).
* An attachment's file name over the column's length makes both inserts of
  `StoreAttachment` throw and fails the whole e-mail, against the comment
  `processingWorker.ts:258`; attachments of one name overwrite each other's file.

Pipeline
* Every order from a webhook or the API fails: `processApiOrder` inserts a null `email_id`
  (`pipeline/apiIngestion.ts:49`) into a column that is not null.
* The payload stage completes the job before review and submission
  (`stages/payloadCreated.ts:203`), and the guard at `pipeline/index.ts:104` skips completed
  jobs: a crash in either loses the order. `CompletedHasOrder` excepts faults.
* A 2xx answer without a reference, or one that is not JSON, makes an order that is
  `submitted` and announced with a null waybill (`stages/courierSubmitted.ts:72,277`), which
  the fulfilment worker never polls.
* The caretaker's rules on phone, name and duplicates can be switched off
  (`caretaker/index.ts:132,145,189`); `SilentMeansComplete` asks only for those left on.
* A run that finds the courier call in progress ends without retrying
  (`stages/courierSubmitted.ts:210`): the shipment's answer may wait for a human.
* `POST /pipeline/jobs/:id/address` always rolls back: it sets `current_stage` to null.
* A reprocess that dies between its deletion and its enqueue loses the e-mail.
* A later run can divert an order that was shipped (`pipeline/index.ts:71`), and
  `routing_status` is never reset.
* The locker is chosen from the first geocode, not the reconciled address
  (`pipeline/index.ts:145`); a failed model with a complete address counts as merged with
  high confidence (`stages/locationReconciled.ts:194`).

Fulfilment and packers
* A cancel that reached only Shopify is overwritten by the next poll; Shopify's
  `userErrors` are cached for the key's life.
* A job polls the waybill it was made with (`fulfillment/index.ts:26,66`): one corrected
  later is never polled, and the job ends with the first parcel, or never.
* Shopify's key contains the fulfillment order found open, or the first of the list
  (`stages/shopifyFulfilled.ts:81-87`). Polls that overlap, or one after a crash that came
  after the call, may find another and fulfil that one too.
* A Shopify token that cannot be decrypted throws outside the check's `try`
  (`stages/shopifyStatusCheck.ts:24`) and fails every cycle of every order of the tenant.
* A reprocess deletes the order and leaves its packer's counter as it was
  (`api/pipelineRoutes.ts:347`): the packer counts as busy with it for ever.
* Racing declines write absolute counters and histories (`packerAuth/assigner.ts:392`);
  `PUT /links/:id` restores a removed packer's link; two invites of one address can be
  pending; the digest's advisory lock may stay on a pooled connection.

Tenants
* A notification that fails to decrypt its credentials stays `queued`; a failed send is
  cached as completed; two overlapping saves give two tenants one number. An event delivered
  again after 7 days, or after its key was cleared, sends its notice again.
* A customer's count is incremented even if the order's transaction rolls back, and two
  first orders may fail each other. Orders that are diverted, and completed by hand, are
  never counted (`pipeline/index.ts:53`, `api/manualRoutes.ts:67`).
* After the cooldown of a campaign every tick schedules the customer's first step again and
  never enrols anew (`marketing/worker.ts:62,73`); `max_sends_per_customer` is not enforced;
  overlapping ticks send twice.
* `PUT /campaigns/:id` takes any number of days (`api/marketingRoutes.ts:85-88`). One whose
  date Postgres refuses ends every tick before `firePendingSends`
  (`marketing/worker.ts:32-33,50-62`), for all tenants.
* A failing message drops the rest of the webhook's batch; a blocked topic is flagged and
  nobody is told.
* The summariser deletes all old rows and tells the model of at most 4000 characters of them
  (`chatbots/summarizer.ts:47,60`); the new summary replaces the old one without having seen
  it (line 68), and a hand-over's note replaces either (`handoff.ts:42`).
* Overlapping syncs duplicate chunks; a child sitemap that answers an error lists nothing,
  and its pages are pruned (`knowledge/ingest.ts:126`); an edited document keeps its old
  embedding and its old hash.
* Distilled rules never reach a prompt: the column is `jsonb`, the driver returns an
  object, and `JSON.parse` of it throws (`ai/correctionsDistiller.ts:109`). For the same
  reason rules once stored are never refreshed (line 82, after the model was paid), against
  the comment on lines 18-19. Mending only the parse would break `LastWordIsTaught`: rules
  are renewed when the number of corrections changes, not the corrections (line 50).
* Nothing makes a correction unique: the comments "one per run" (`agentRunsRoutes.ts:96`)
  and "avoid duplicates if user clicks twice" (`knowledgeRoutes.ts:248`) hold for requests
  that do not meet. An approval of a run leaves its correction active.
* Deleting credentials leaves shop and courier configured, and a completion asks for no
  more: a tenant can become active without credentials (`settingsRoutes.ts:82,196,290`);
  a reset of an active tenant stops its polling silently. A first login cut short leaves
  an owner without permissions for good.

## 6. Not modelled

* **Parsing, storage, configuration**: pure functions and file I/O. The parser's result
  enters `OrderData` as a choice among extractions.
* **Database schema**: migrations; what the models need of them (keys, nullability,
  defaults, cascades) is in the actions.
* **Dashboard** (`public/app.js`): user interface.
* **`pipeline/apiIngestion.ts`** and the Shopify webhook that calls it: the first insert
  cannot succeed. **`pipeline/recovery.ts`**: disabled. **Carts**: listings of reviewed data.
* **Retrieval, embeddings, prompts, usage counting**: what a model is shown and answers is
  a choice. **Listings, dashboards, health checks, metrics**: they change nothing.
* **Rules' editing, the collection contact, chatbot settings' fields**: forms that are
  written and read as they are.
* Tenants' rows never meet, except WhatsApp numbers, which `WhatsApp` has for two tenants;
  the other modules follow one tenant, one mailbox, one e-mail, one order or one customer.
  Two orders with one number, or two e-mails of one order, are not followed.
* The courier's idempotency key in `Pipeline` and Shopify's in `Fulfilment` keep the states
  a caller can tell apart, with a lapsed lease and a cleared key; the timestamps by which a
  takeover is decided are in `Idempotency`.
* A text's length: that a transcript is cut is a choice of how many rows fit. That a row of
  the WhatsApp log may say failed of a message that was sent is allowed by the property.

## 7. Plan

Done, in this order: idempotency, outbox, ingestion, processing, pipeline; then the
order's data, fulfilment, packers, the tenant's services, customers and marketing,
corrections; and the proof of every safety property the passing runs check, of the
compositions as well.

Left:

1. `Pipeline` composed with `Idempotency`: that the key of `Pipeline` is a refinement of the
   row, so that `ShipmentBudget` follows from `Implements`.
2. A second e-mail of the same order, and its effect on customer and packer.
