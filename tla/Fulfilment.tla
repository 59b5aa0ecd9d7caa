------------------------------ MODULE Fulfilment ------------------------------
(***************************************************************************)
(* One order on its way to the customer: src/fulfillment polls the courier,*)
(* copies its status into fulfillment_jobs and orders, announces every     *)
(* change through the outbox and tells Shopify.  Operators poll by hand,   *)
(* cancel, enter a waybill or confirm a collection at the same time        *)
(* (fulfillmentRoutes, manualRoutes).  One action per piece of work        *)
(* between two awaits whose order can matter.                              *)
(***************************************************************************)
EXTENDS Integers, FiniteSets

CONSTANTS Worker,      \* the poll of the worker's tick, of which there is one
          ByHand,      \* polls started by POST /fulfillment/poll/:id
          Statuses,    \* courier statuses, each the set of words it contains
          Waybills,    \* waybills of parcels the order may be given
          FulfillmentOrders,  \* Shopify's fulfillment orders of this order
          Routings,    \* values of orders.routing_status to start from
          MaxMoves,    \* bound: changes of the courier's status
          MaxTrouble   \* bound: failed calls, crashes and requests of operators

ASSUME WaybillsAreReal == 1 \in Waybills /\ 0 \notin Waybills
ASSUME PollersDiffer == Worker \notin ByHand
ASSUME PollersAreFinite == IsFiniteSet(ByHand)
ASSUME StatusesAreWords == {} \in Statuses /\ {"cancel"} \in Statuses
ASSUME BoundsAreNat == {MaxMoves, MaxTrouble} \subseteq Nat
ASSUME RoutingsAreKnown == Routings \subseteq {"automatic", "manual_upload", "collection"}

VARIABLES order,   \* row of orders
          job,     \* row of fulfillment_jobs
          poll,    \* runs of processFulfillmentJob
          request, \* POST /fulfillment/jobs/:id/cancel
          courier, \* per waybill, what the tracking endpoint answers
          key,     \* per fulfillment order, the idempotency key of its fulfillment
          emitted, \* history: domain events per milestone
          visits,  \* history: per parcel, times it reached a milestone
          created, \* history: per fulfillment order, fulfillments created at Shopify
          excuses, \* history: per fulfillment order, causes of one fulfillment too many
          raced,   \* history: a poll or a cancel met another poll under way
          spent    \* [moves, trouble] against the bounds

vars == <<order, job, poll, request, courier, key, emitted, visits, created, excuses, raced, spent>>

Pollers == {Worker} \cup ByHand

\* mapStatusToMilestone: the first of these words that the status contains.
Words == <<"delivered", "cancel", "failed", "out_for_delivery", "locker", "transit", "collect">>
Named == <<"delivered", "cancelled", "failed", "out_for_delivery", "at_locker", "in_transit", "collected">>
Milestones == {Named[i] : i \in 1..7} \cup {"submitted"}
MilestoneOf(status) ==
  LET found == {i \in 1..7 : Words[i] \in status}
  IN  IF found = {} THEN "submitted" ELSE Named[CHOOSE i \in found : \A j \in found : i <= j]

Terminal == {"delivered", "cancelled", "failed"}
Announced == Milestones \ {"submitted"}
JobStatusDelivered(m) == IF m = "delivered" THEN "completed" ELSE "active"     \* mutant
JobStatusAt(m) == CASE m = "delivered" -> "completed"
                    [] m = "cancelled" -> "cancelled"
                    [] m = "failed" -> "failed"
                    [] OTHER -> "active"

NoWaybill == 0
Parcels == Waybills \cup {NoWaybill}    \* NoWaybill: handed over in the shop
NoJob == [status |-> "none", milestone |-> "null", waybill |-> NoWaybill]
Idle == [pc |-> "idle", track |-> {}, prev |-> "null", fo |-> "none"]
NoKey == [status |-> "none", answer |-> "none"]
NoRequest == [pc |-> "none", cancelled |-> FALSE]

Set(p, field) == poll' = [poll EXCEPT ![p] = field]
Goto(p, pc) == Set(p, [poll[p] EXCEPT !.pc = pc])
Leave(p, pc) == Set(p, [poll[p] EXCEPT !.pc = pc, !.fo = "none"])
InPoll(p) == poll[p].pc # "idle"
Trouble == spent.trouble < MaxTrouble /\ spent' = [spent EXCEPT !.trouble = @ + 1]
Visit(w, m) == visits' = [visits EXCEPT ![w][m] = @ + 1]
Emit(e) == emitted' = [emitted EXCEPT ![e] = @ + 1]

Init ==
  /\ \E r \in Routings, readable \in BOOLEAN :
       \E w \in CASE r = "automatic" -> {1} [] r = "collection" -> {NoWaybill} [] OTHER -> {NoWaybill, 1} :
         order = [routing |-> r, waybill |-> w, readable |-> readable,
                  status |-> "submitted", by |-> "poll", fulfilled |-> FALSE]
  /\ job = NoJob
  /\ poll = [p \in Pollers |-> Idle]
  /\ request = NoRequest
  /\ courier = [w \in Parcels |-> {}]
  /\ key = [f \in FulfillmentOrders |-> NoKey]
  /\ emitted = [m \in Announced |-> 0]
  /\ visits = [w \in Parcels |-> [m \in Milestones |-> IF m = "submitted" THEN 1 ELSE 0]]
  /\ created = [f \in FulfillmentOrders |-> 0] /\ excuses = created
  /\ raced = FALSE
  /\ spent = [moves |-> 0, trouble |-> 0]

-----------------------------------------------------------------------------
\* The worker's tick and the poll interval.

\* ensureFulfillmentJob; the unique order_id keeps a second job out.
NewJob(w) == [status |-> "active", milestone |-> "null", waybill |-> w]

\* tick, first half: a job for an order with a waybill that is not cancelled.
EnsureJob ==
  /\ ~InPoll(Worker)
  /\ order.waybill # NoWaybill /\ order.status # "cancelled" /\ job = NoJob
  /\ job' = NewJob(order.waybill)
  /\ UNCHANGED <<order, poll, request, courier, key, emitted, visits, created, excuses, raced, spent>>

\* processFulfillmentJob reads the job's status once, here.  next_poll_at is left out:
\* an active job is due at some time, and a poll by hand does not ask.
Begin(p) ==
  /\ ~InPoll(p)
  /\ job.status = "active"
  /\ Goto(p, "fetch")
  /\ raced' = (raced \/ (\E q \in Pollers : InPoll(q)) \/ request.pc # "none")
  /\ UNCHANGED <<order, job, request, courier, key, emitted, visits, created, excuses, spent>>

\* TRACKING_FETCHED asks for the waybill of the job's row, which no operator changes, and
\* Shopify's own status is copied for the listings, which nothing here reads.
Fetch(p) ==
  /\ poll[p].pc = "fetch" /\ order.readable
  /\ Set(p, [poll[p] EXCEPT !.pc = "read", !.track = courier[job.waybill]])
  /\ UNCHANGED <<order, job, request, courier, key, emitted, visits, created, excuses, raced, spent>>

\* A Shopify token that cannot be decrypted throws outside the check's try, and ends
\* every cycle here.
Undecipherable(p) ==
  /\ poll[p].pc = "fetch" /\ ~order.readable
  /\ Set(p, Idle)
  /\ UNCHANGED <<order, job, request, courier, key, emitted, visits, created, excuses, raced, spent>>

\* STATUS_UPDATED, and the read of the previous milestone.
ReadPrevious(p) ==
  /\ poll[p].pc = "read"
  /\ Set(p, [poll[p] EXCEPT !.pc = "commit", !.prev = job.milestone])
  /\ UNCHANGED <<order, job, request, courier, key, emitted, visits, created, excuses, raced, spent>>

ChangedAgain(p, m) == poll[p].prev \notin {"null", m}  \* mutant: the first milestone is no change
ChangedAlways(p, m) == m # "null"                      \* mutant: compares with nothing
Changed(p, m) == poll[p].prev # m

\* MILESTONE_DETECTED: job, order and event in one transaction.
CommitMilestone(p) ==
  LET m == MilestoneOf(poll[p].track) IN
  /\ poll[p].pc = "commit"
  /\ job' = [job EXCEPT !.milestone = m]
  /\ order' = [order EXCEPT !.status = m, !.by = "poll"]
  /\ IF Changed(p, m) /\ m \in Announced THEN Emit(m) ELSE UNCHANGED emitted
  /\ Set(p, [poll[p] EXCEPT !.pc = IF m = "in_transit" THEN "check" ELSE "end", !.prev = "null"])
  /\ UNCHANGED <<request, courier, key, visits, created, excuses, raced, spent>>

\* SHOPIFY_FULFILLED: skipped when the order is fulfilled already, when there are no
\* credentials, or when Shopify fails or does not know the order.  Otherwise it takes the
\* first fulfillment order that Shopify calls open by now, or else the first of its list,
\* whichever that is.
CheckFulfilled(p) ==
  /\ poll[p].pc = "check"
  /\ \/ Goto(p, "end")
     \/ \E f \in FulfillmentOrders :
          ~order.fulfilled /\ Set(p, [poll[p] EXCEPT !.pc = "claim", !.fo = f])
  /\ UNCHANGED <<order, job, request, courier, key, emitted, visits, created, excuses, raced, spent>>

Creating(p, f) == poll[p].pc = "create" /\ poll[p].fo = f
Put(f, row) == key' = [key EXCEPT ![f] = row]
Excuse(f) == excuses' = [excuses EXCEPT ![f] = @ + 1]

\* withIdempotency: a free, failed or orphaned key is claimed (an orphaned one only
\* when it is stale), a completed one answers, one in progress defers the stage.
Orphaned(f) == key[f].status = "in_progress" /\ \A q \in Pollers : ~Creating(q, f)
ClaimableAgain(f) == key[f].status # "in_progress" \/ Orphaned(f)  \* mutant: a finished key is free
Claimable(f) == key[f].status \in {"none", "failed"} \/ Orphaned(f)
ClaimKey(p) ==
  LET f == poll[p].fo IN
  /\ poll[p].pc = "claim"
  /\ \/ /\ Claimable(f)
        /\ Put(f, [status |-> "in_progress", answer |-> "none"])
        /\ Goto(p, "create")
     \/ /\ key[f].status = "completed"
        /\ Leave(p, IF key[f].answer = "ok" THEN "persist" ELSE "end")
        /\ UNCHANGED key
     \/ /\ key[f].status = "in_progress"
        /\ Leave(p, "end")
        /\ UNCHANGED key
  /\ UNCHANGED <<order, job, request, courier, emitted, visits, created, excuses, raced, spent>>

\* A call that hangs past staleAfterMs loses its key to the next poll while it runs.
TakeOver(p) ==
  LET f == poll[p].fo IN
  /\ poll[p].pc = "claim" /\ key[f].status = "in_progress" /\ ~Orphaned(f)
  /\ Trouble /\ Excuse(f)
  /\ Goto(p, "create")
  /\ UNCHANGED <<order, job, request, courier, key, emitted, visits, created, raced>>

\* fulfillmentCreateV2: a fulfillment, or userErrors, which count as an answer too.  The
\* answer is written to the key's row, if there still is one.
Answer(f, answer) ==
  IF key[f].status = "none" THEN UNCHANGED key
  ELSE Put(f, [status |-> "completed", answer |-> answer])
Create(p) ==
  LET f == poll[p].fo IN
  /\ poll[p].pc = "create"
  /\ \/ /\ created' = [created EXCEPT ![f] = @ + 1]
        /\ Answer(f, "ok")
        /\ Leave(p, "persist")
     \/ /\ Answer(f, "errors")
        /\ Leave(p, "end")
        /\ UNCHANGED created
  /\ UNCHANGED <<order, job, request, courier, emitted, visits, excuses, raced, spent>>

\* The call to Shopify or the write of its answer fails, possibly after Shopify has done
\* its part.
CreateFails(p) ==
  LET f == poll[p].fo IN
  /\ poll[p].pc = "create"
  /\ Trouble /\ Excuse(f)
  /\ created' \in {created, [created EXCEPT ![f] = @ + 1]}
  /\ \/ key[f].status # "none" /\ Put(f, [key[f] EXCEPT !.status = "failed"])
     \/ UNCHANGED key
  /\ Leave(p, "end")
  /\ UNCHANGED <<order, job, request, courier, emitted, visits, raced>>

PersistFulfilled(p) ==
  /\ poll[p].pc = "persist"
  /\ order' = [order EXCEPT !.fulfilled = TRUE]
  /\ Leave(p, "end")
  /\ UNCHANGED <<job, request, courier, key, emitted, visits, created, excuses, raced, spent>>

\* LIFECYCLE_COMPLETE writes the job's status outright, whatever it is by now.
Finish(p) ==
  LET s == JobStatusAt(MilestoneOf(poll[p].track)) IN
  /\ poll[p].pc = "end"
  /\ job' = [job EXCEPT !.status = s]
  /\ Set(p, Idle)
  /\ UNCHANGED <<order, request, courier, key, emitted, visits, created, excuses, raced, spent>>

\* An error in a stage ends the cycle; the job stays as it is and is due in a minute.
\* The Shopify stage catches its own errors.
Fail(p) ==
  /\ Trouble
  /\ \/ poll[p].pc \in {"fetch", "read", "commit", "check", "end"} /\ Set(p, Idle)
     \/ poll[p].pc \in {"claim", "persist"} /\ Leave(p, "end")
  /\ UNCHANGED <<order, job, request, courier, key, emitted, visits, created, excuses, raced>>

\* The process dies in a cycle; a key it held stays in progress.
Crash(p) ==
  /\ InPoll(p)
  /\ Trouble
  /\ IF poll[p].pc = "create" THEN Excuse(poll[p].fo) ELSE UNCHANGED excuses
  /\ Set(p, Idle)
  /\ UNCHANGED <<order, job, request, courier, key, emitted, visits, created, raced>>

-----------------------------------------------------------------------------
\* Operators.

\* POST /fulfillment/jobs/:id/cancel reads the job once, for the PUDO leg, which is left out
\* when the scope is Shopify's order or the job is cancelled.
StartCancel(pudo) ==
  /\ request.pc = "none"
  /\ job # NoJob
  /\ Trouble
  /\ request' = [NoRequest EXCEPT !.pc = IF pudo /\ job.status # "cancelled" THEN "pudo" ELSE "local"]
  /\ raced' = (raced \/ \E p \in Pollers : InPoll(p))
  /\ UNCHANGED <<order, job, poll, courier, key, emitted, visits, created, excuses>>

\* cancelPudoShipment, for the parcel that was tracked: accepted, refused, or cut off
\* after it was accepted.
PudoAccepts(heard) ==
  LET w == job.waybill IN
  /\ MilestoneOf(courier[w]) \notin {"delivered", "failed"}
  /\ courier' = [courier EXCEPT ![w] = {"cancel"}]
  /\ IF courier[w] = {"cancel"} THEN UNCHANGED visits ELSE Visit(w, "cancelled")
  /\ request' = [request EXCEPT !.pc = "local", !.cancelled = heard]
PudoRefuses ==
  /\ request' = [request EXCEPT !.pc = "local"]
  /\ UNCHANGED <<courier, visits>>
PudoLeg ==
  /\ request.pc = "pudo"
  /\ (\E heard \in BOOLEAN : PudoAccepts(heard)) \/ PudoRefuses
  /\ UNCHANGED <<order, job, poll, key, emitted, created, excuses, raced, spent>>

\* After the Shopify leg, which leaves a mark for the listings, the local part of the
\* cancel in one transaction.
CommitCancel ==
  /\ request.pc = "local"
  /\ IF request.cancelled
       THEN /\ order' = [order EXCEPT !.status = "cancelled", !.by = "hand"]
            /\ job' = [job EXCEPT !.status = "cancelled"]
       ELSE UNCHANGED <<order, job>>
  /\ request' = NoRequest
  /\ UNCHANGED <<poll, courier, key, emitted, visits, created, excuses, raced, spent>>

\* POST /manual/upload-queue/:id/complete, as often as the operator likes.
CompleteUpload(w) ==
  /\ order.routing = "manual_upload"
  /\ Trouble
  /\ order' = [order EXCEPT !.waybill = w, !.status = "submitted", !.by = "hand"]
  /\ UNCHANGED <<job, poll, request, courier, key, emitted, visits, created, excuses, raced>>

\* POST /manual/collection-queue/:id/confirm: the event is emitted after the
\* update, and a failure to emit it is only logged.
ConfirmCollection ==
  /\ order.routing = "collection"
  /\ Trouble
  /\ \/ Emit("delivered") /\ order' = [order EXCEPT !.status = "delivered", !.by = "poll"]
     \/ order' = [order EXCEPT !.status = "delivered", !.by = "hand"] /\ UNCHANGED emitted
  /\ Visit(NoWaybill, "delivered")
  /\ UNCHANGED <<job, poll, request, courier, key, created, excuses, raced>>

\* DELETE /idempotency/:key, or the 30 days after which the key expires.
ClearKey(f) ==
  /\ key[f].status # "none"
  /\ Trouble
  /\ Put(f, NoKey) /\ Excuse(f)
  /\ UNCHANGED <<order, job, poll, request, courier, emitted, visits, created, raced>>

\* A parcel of the order moves on: never back to no status at all, and nowhere after the
\* end of the road.
CourierMoves(w, s) ==
  /\ w \in {order.waybill, job.waybill} \ {NoWaybill}
  /\ MilestoneOf(courier[w]) \notin Terminal
  /\ s \notin {courier[w], {}} /\ spent.moves < MaxMoves
  /\ courier' = [courier EXCEPT ![w] = s]
  /\ Visit(w, MilestoneOf(s))
  /\ spent' = [spent EXCEPT !.moves = @ + 1]
  /\ UNCHANGED <<order, job, poll, request, key, emitted, created, excuses, raced>>

-----------------------------------------------------------------------------
PollStep(p) ==
  \/ Fetch(p) \/ Undecipherable(p) \/ ReadPrevious(p) \/ CommitMilestone(p) \/ CheckFulfilled(p)
  \/ ClaimKey(p) \/ Create(p) \/ PersistFulfilled(p) \/ Finish(p)
Mishap(p) == TakeOver(p) \/ CreateFails(p) \/ Fail(p) \/ Crash(p)

CancelStep == PudoLeg \/ CommitCancel

Next ==
  \/ EnsureJob \/ CancelStep
  \/ \E p \in Pollers : Begin(p) \/ PollStep(p) \/ Mishap(p)
  \/ \E pudo \in BOOLEAN : StartCancel(pudo)
  \/ \E w \in Waybills : CompleteUpload(w)
  \/ ConfirmCollection
  \/ \E f \in FulfillmentOrders : ClearKey(f)
  \/ \E w \in Waybills, s \in Statuses : CourierMoves(w, s)

Spec == Init /\ [][Next]_vars

\* The worker's timer is set again after every tick, a request runs to its end, and
\* a poll that has begun goes on.  A tick takes ten of the jobs that are due, in no order:
\* that it comes to this one is assumed of Postgres, which the code does not ask for it.
Fairness ==
  /\ WF_vars(EnsureJob) /\ WF_vars(CancelStep) /\ WF_vars(Begin(Worker))
  /\ \A p \in Pollers : WF_vars(PollStep(p))

FairSpec == Spec /\ Fairness
-----------------------------------------------------------------------------
\* The types of the variables.
TypeOK ==
  /\ order \in [routing : Routings, waybill : Parcels, readable : BOOLEAN, status : Milestones,
                by : {"poll", "hand"}, fulfilled : BOOLEAN]
  /\ job \in [status : {"none", "active", "completed", "cancelled", "failed"},
              milestone : Milestones \cup {"null"}, waybill : Parcels]
  /\ poll \in [Pollers -> [pc : {"idle", "fetch", "read", "commit", "check", "claim", "create", "persist",
                                 "end"},
                            track : Statuses, prev : Milestones \cup {"null"},
                            fo : FulfillmentOrders \cup {"none"}]]
  /\ request \in [pc : {"none", "pudo", "local"}, cancelled : BOOLEAN]
  /\ courier \in [Parcels -> Statuses]
  /\ key \in [FulfillmentOrders -> [status : {"none", "in_progress", "completed", "failed"},
                                    answer : {"none", "ok", "errors"}]]
  /\ emitted \in [Announced -> Nat] /\ visits \in [Parcels -> [Milestones -> Nat]]
  /\ created \in [FulfillmentOrders -> Nat] /\ excuses \in [FulfillmentOrders -> Nat]
  /\ raced \in BOOLEAN
  /\ spent \in [moves : Nat, trouble : Nat]

\* milestoneDetected.ts:26: there is no window in which the order shows a milestone
\* and the customer is never told.  Holds for what the polls write, however they
\* overlap and crash; a cancel by hand and a lost emission are the exceptions.
ShownIsAnnounced ==
  order.by = "poll" /\ order.status \in Announced => emitted[order.status] > 0

\* As long as a poll or a cancel never meets another poll under way, a milestone is
\* announced at most once for every time the parcel that is polled reached it, or the
\* customer was handed it in the shop: crashes, and waybills corrected later, included.
Reached(m) ==
  visits[NoWaybill][m] + (IF job.waybill = NoWaybill THEN 0 ELSE visits[job.waybill][m])
OncePerVisit == ~raced => \A m \in Announced : emitted[m] <= Reached(m)

\* shopifyFulfilled.ts:84-85: keyed on the tenant, the Shopify order and the fulfillment
\* order, a retry of the same fulfillment never creates a duplicate at Shopify.  What makes
\* one more is a call whose answer was lost or late, or a key that was cleared or expired.
\* The promise is per fulfillment order: polls that overlap, or follow a crash, may choose
\* different ones, and the order then has a fulfillment on each.
FulfilledOnce == \A f \in FulfillmentOrders : created[f] <= 1 + excuses[f]

\* An order with a waybill gets a job, and once the courier has ended with the parcel that
\* the job polls, the job ends, through races, failures and cancels.  It does not when the
\* tenant's Shopify token cannot be decrypted, which fails every cycle, and it looks at
\* another parcel when the waybill is corrected before the job is made.
Polled == IF job = NoJob THEN order.waybill ELSE job.waybill
CourierEnded == MilestoneOf(courier[Polled]) \in Terminal
JobEnds ==
  order.readable /\ CourierEnded
    ~> ~CourierEnded \/ job.status \in {"completed", "cancelled", "failed"}

=============================================================================
