--------------------------- MODULE FulfilmentProofs ---------------------------
(***************************************************************************)
(* Proofs about Fulfilment for any courier statuses, waybills, polls by    *)
(* hand and amounts of trouble.                                            *)
(*                                                                         *)
(* Three inductive invariants: of what was announced, what the polls       *)
(* remember of it; of the fulfillments at Shopify, that only one poll at a *)
(* time creates one and that a finished key pays for one; of the           *)
(* announcements of a milestone, which visits of the courier they are for. *)
(***************************************************************************)
EXTENDS Fulfilment, FiniteSetTheorems, TLAPS

-----------------------------------------------------------------------------
(* Milestones. *)

LEMMA NamedIs ==
  /\ Named[1] = "delivered" /\ Named[2] = "cancelled" /\ Named[3] = "failed"
  /\ Named[4] = "out_for_delivery" /\ Named[5] = "at_locker" /\ Named[6] = "in_transit"
  /\ Named[7] = "collected"
  BY DEF Named

LEMMA MilestonesAre ==
  /\ "submitted" \in Milestones /\ "null" \notin Milestones
  /\ "delivered" \in Announced /\ "cancelled" \in Announced
  /\ Announced \subseteq Milestones
<1>1. \A i \in 1..7 : Named[i] # "null" /\ Named[i] # "submitted"
  <2> SUFFICES ASSUME NEW i \in 1..7 PROVE Named[i] # "null" /\ Named[i] # "submitted"
    OBVIOUS
  <2>1. i = 1 \/ i = 2 \/ i = 3 \/ i = 4 \/ i = 5 \/ i = 6 \/ i = 7
    OBVIOUS
  <2> QED BY <2>1, NamedIs
<1>2. Named[1] \in Milestones /\ Named[2] \in Milestones
  BY DEF Milestones
<1> QED BY <1>1, <1>2, NamedIs DEF Milestones, Announced

LEMMA MilestoneTyped ==
  ASSUME NEW status
  PROVE  MilestoneOf(status) \in Milestones
<1> DEFINE found == {i \in 1..7 : Words[i] \in status}
<1>1. CASE found = {}
  BY <1>1, MilestonesAre DEF MilestoneOf
<1>2. CASE found # {}
  <2>1. found \subseteq 1..7
    OBVIOUS
  <2> HIDE DEF found
  <2>2. \E i \in found : \A j \in found : i <= j
    <3>1. CASE 1 \in found  BY <2>1, <3>1
    <3>2. CASE 1 \notin found /\ 2 \in found  BY <2>1, <3>2
    <3>3. CASE 1 \notin found /\ 2 \notin found /\ 3 \in found  BY <2>1, <3>3
    <3>4. CASE 1 \notin found /\ 2 \notin found /\ 3 \notin found /\ 4 \in found  BY <2>1, <3>4
    <3>5. CASE {1, 2, 3, 4} \cap found = {} /\ 5 \in found  BY <2>1, <3>5
    <3>6. CASE {1, 2, 3, 4, 5} \cap found = {} /\ 6 \in found  BY <2>1, <3>6
    <3>7. CASE {1, 2, 3, 4, 5, 6} \cap found = {}
      <4>1. \A i \in found : i = 7  BY <2>1, <3>7
      <4> QED BY <1>2, <4>1
    <3> QED BY <3>1, <3>2, <3>3, <3>4, <3>5, <3>6, <3>7
  <2>3. (CHOOSE i \in found : \A j \in found : i <= j) \in 1..7
    BY <2>1, <2>2
  <2>4. MilestoneOf(status) = Named[CHOOSE i \in found : \A j \in found : i <= j]
    BY <1>2 DEF MilestoneOf, found
  <2> QED BY <2>3, <2>4 DEF Milestones
<1> QED BY <1>1, <1>2

LEMMA CancelWord == MilestoneOf({"cancel"}) = "cancelled"
<1> DEFINE found == {i \in 1..7 : Words[i] \in {"cancel"}}
<1>1. found = {2}
  <2>1. /\ Words[1] # "cancel" /\ Words[2] = "cancel" /\ Words[3] # "cancel" /\ Words[4] # "cancel"
        /\ Words[5] # "cancel" /\ Words[6] # "cancel" /\ Words[7] # "cancel"
    BY DEF Words
  <2>2. \A i \in 1..7 : i = 1 \/ i = 2 \/ i = 3 \/ i = 4 \/ i = 5 \/ i = 6 \/ i = 7
    OBVIOUS
  <2> QED BY <2>1, <2>2
<1>2. MilestoneOf({"cancel"}) = IF found = {} THEN "submitted"
                                ELSE Named[CHOOSE i \in found : \A j \in found : i <= j]
  BY DEF MilestoneOf
<1> HIDE DEF found
<1>3. (CHOOSE i \in found : \A j \in found : i <= j) = 2
  BY <1>1
<1> QED BY <1>1, <1>2, <1>3, NamedIs

-----------------------------------------------------------------------------
(* Types. *)

OrderRow == [routing : Routings, waybill : Parcels, readable : BOOLEAN, status : Milestones,
             by : {"poll", "hand"}, fulfilled : BOOLEAN]
JobRow == [status : {"none", "active", "completed", "cancelled", "failed"},
           milestone : Milestones \cup {"null"}, waybill : Parcels]
Label == {"idle", "fetch", "read", "commit", "check", "claim", "create", "persist", "end"}
PollRow == [pc : Label, track : Statuses, prev : Milestones \cup {"null"},
            fo : FulfillmentOrders \cup {"none"}]
RequestRow == [pc : {"none", "pudo", "local"}, cancelled : BOOLEAN]
KeyRow == [status : {"none", "in_progress", "completed", "failed"}, answer : {"none", "ok", "errors"}]
Spent == [moves : Nat, trouble : Nat]

Rows == /\ order \in OrderRow /\ job \in JobRow /\ request \in RequestRow
        /\ key \in [FulfillmentOrders -> KeyRow] /\ poll \in [Pollers -> PollRow]
        /\ courier \in [Parcels -> Statuses] /\ raced \in BOOLEAN
Counts == /\ emitted \in [Announced -> Nat] /\ visits \in [Parcels -> [Milestones -> Nat]]
          /\ created \in [FulfillmentOrders -> Nat] /\ excuses \in [FulfillmentOrders -> Nat]
          /\ spent \in Spent

LEMMA TypeOKSplits == TypeOK <=> Rows /\ Counts
  BY DEF TypeOK, Rows, Counts, OrderRow, JobRow, PollRow, RequestRow, KeyRow, Spent, Label

LEMMA TypeInit == Init => TypeOK
<1> SUFFICES ASSUME Init PROVE Rows /\ Counts
  BY TypeOKSplits
<1>1. order \in OrderRow
  <2>1. PICK r \in Routings, readable \in BOOLEAN, w \in {NoWaybill, 1} :
               order = [routing |-> r, waybill |-> w, readable |-> readable,
                        status |-> "submitted", by |-> "poll", fulfilled |-> FALSE]
    BY RoutingsAreKnown DEF Init
  <2>2. w \in Parcels
    BY WaybillsAreReal DEF Parcels
  <2> QED BY <2>1, <2>2, MilestonesAre DEF OrderRow
<1>2. poll \in [Pollers -> PollRow]
  BY StatusesAreWords DEF Init, PollRow, Idle, Label
<1>3. /\ job \in JobRow /\ request \in RequestRow /\ key \in [FulfillmentOrders -> KeyRow]
      /\ courier \in [Parcels -> Statuses] /\ raced \in BOOLEAN
  BY StatusesAreWords DEF Init, JobRow, NoJob, RequestRow, NoRequest, KeyRow, NoKey, Parcels
<1>4. Counts
  BY DEF Init, Counts, Spent
<1> QED BY <1>1, <1>2, <1>3, <1>4 DEF Rows

\* Where a poll's step leaves the polls.
LEMMA PollMoves ==
  ASSUME Rows, NEW p \in Pollers, NEW r, Set(p, r)
  PROVE  /\ poll'[p] = r /\ \A q \in Pollers \ {p} : poll'[q] = poll[q]
         /\ r \in PollRow => poll' \in [Pollers -> PollRow]
  BY DEF Rows, Set

LEMMA GotoMoves ==
  ASSUME Rows, NEW p \in Pollers, NEW l \in Label, Goto(p, l) \/ Leave(p, l)
  PROVE  /\ poll'[p].pc = l /\ poll'[p].track = poll[p].track /\ poll'[p].prev = poll[p].prev
         /\ Goto(p, l) => poll'[p].fo = poll[p].fo
         /\ \A q \in Pollers \ {p} : poll'[q] = poll[q]
         /\ poll' \in [Pollers -> PollRow]
<1>1. CASE Goto(p, l)
  BY <1>1 DEF Rows, Goto, Set, PollRow
<1>2. CASE Leave(p, l)
  <2> DEFINE r == [poll[p] EXCEPT !.pc = l, !.fo = "none"]
  <2>1. /\ r \in PollRow /\ r.pc = l /\ r.track = poll[p].track /\ r.prev = poll[p].prev
        /\ Goto(p, l) => r.fo = poll[p].fo
    <3>1. poll[p] \in PollRow
      BY DEF Rows
    <3>2. Goto(p, l) => [poll[p] EXCEPT !.pc = l] = r
      BY <1>2 DEF Goto, Leave, Set, Rows
    <3> QED BY <3>1, <3>2 DEF PollRow
  <2>2. Set(p, r)
    BY <1>2 DEF Leave
  <2> HIDE DEF r
  <2> QED BY <2>1, <2>2, PollMoves
<1> QED BY <1>1, <1>2

LEMMA IdleTyped == Idle \in PollRow
  BY StatusesAreWords DEF Idle, PollRow, Label

\* The rows after a step of a poll.
LEMMA PollRows ==
  ASSUME Rows, NEW p \in Pollers,
         Begin(p) \/ PollStep(p) \/ Mishap(p)
  PROVE  Rows'
<1>0. /\ order \in OrderRow /\ job \in JobRow /\ request \in RequestRow /\ key \in [FulfillmentOrders -> KeyRow]
      /\ poll[p] \in PollRow /\ courier \in [Parcels -> Statuses] /\ raced \in BOOLEAN /\ Idle \in PollRow
  BY IdleTyped DEF Rows
<1>1. CASE Begin(p)
  <2>1. raced' \in BOOLEAN
    BY <1>1 DEF Begin
  <2> QED BY <1>0, <1>1, <2>1, GotoMoves DEF Begin, Rows, Label
<1>2. CASE Fetch(p)
  <2>1. [poll[p] EXCEPT !.pc = "read", !.track = courier[job.waybill]] \in PollRow
    BY <1>0 DEF PollRow, Label, JobRow
  <2> QED BY <1>2, <2>1, PollMoves DEF Fetch, Rows
<1>3. CASE ReadPrevious(p)
  <2>1. [poll[p] EXCEPT !.pc = "commit", !.prev = job.milestone] \in PollRow
    BY <1>0 DEF PollRow, JobRow, Label
  <2> QED BY <1>3, <2>1, PollMoves DEF ReadPrevious, Rows
<1>4. CASE CommitMilestone(p)
  <2> DEFINE m == MilestoneOf(poll[p].track)
             r == [poll[p] EXCEPT !.pc = IF m = "in_transit" THEN "check" ELSE "end", !.prev = "null"]
  <2>1. m \in Milestones
    BY MilestoneTyped
  <2>2. /\ job' = [job EXCEPT !.milestone = m] /\ order' = [order EXCEPT !.status = m, !.by = "poll"]
        /\ Set(p, r) /\ UNCHANGED <<request, courier, key, raced>>
    BY <1>4 DEF CommitMilestone
  <2> HIDE DEF m
  <2>3. r \in PollRow
    BY <1>0 DEF PollRow, Label
  <2>4. job' \in JobRow /\ order' \in OrderRow
    BY <1>0, <2>1, <2>2 DEF JobRow, OrderRow
  <2> HIDE DEF r
  <2> QED BY <2>2, <2>3, <2>4, PollMoves DEF Rows
<1>5. CASE CheckFulfilled(p)
  <2>1. CASE Goto(p, "end")
    BY <1>5, <2>1, GotoMoves DEF CheckFulfilled, Rows, Label
  <2>2. ASSUME NEW f \in FulfillmentOrders, Set(p, [poll[p] EXCEPT !.pc = "claim", !.fo = f]) PROVE Rows'
    <3>1. [poll[p] EXCEPT !.pc = "claim", !.fo = f] \in PollRow
      BY <1>0 DEF PollRow, Label
    <3> QED BY <1>5, <2>2, <3>1, PollMoves DEF CheckFulfilled, Rows
  <2> QED BY <1>5, <2>1, <2>2 DEF CheckFulfilled
<1>6. CASE ClaimKey(p) \/ TakeOver(p)
  <2>1. key' \in [FulfillmentOrders -> KeyRow]
    <3>1. [status |-> "in_progress", answer |-> "none"] \in KeyRow
      BY DEF KeyRow
    <3> QED BY <1>0, <1>6, <3>1 DEF ClaimKey, TakeOver, Put
  <2>2. PICK l \in Label : Goto(p, l) \/ Leave(p, l)
    BY <1>6 DEF ClaimKey, TakeOver, Label
  <2> QED BY <1>6, <2>1, <2>2, GotoMoves DEF ClaimKey, TakeOver, Rows
<1>7. CASE Create(p) \/ CreateFails(p)
  <2> DEFINE f == poll[p].fo
  <2>1. key' \in [FulfillmentOrders -> KeyRow]
    <3>1. \/ UNCHANGED key
          \/ \E r : Put(f, r) /\ (f \in FulfillmentOrders => r \in KeyRow)
      <4>1. \A a \in {"ok", "errors"} : [status |-> "completed", answer |-> a] \in KeyRow
        BY DEF KeyRow
      <4>2. f \in FulfillmentOrders => [key[f] EXCEPT !.status = "failed"] \in KeyRow
        BY <1>0 DEF KeyRow
      <4> QED BY <1>7, <4>1, <4>2 DEF Create, CreateFails, Answer
    <3> QED BY <1>0, <3>1 DEF Put
  <2>2. PICK l \in Label : Goto(p, l) \/ Leave(p, l)
    BY <1>7 DEF Create, CreateFails, Label
  <2> QED BY <1>7, <2>1, <2>2, GotoMoves DEF Create, CreateFails, Rows
<1>8. CASE PersistFulfilled(p)
  <2>1. order' \in OrderRow
    BY <1>0, <1>8 DEF PersistFulfilled, OrderRow
  <2> QED BY <1>8, <2>1, GotoMoves DEF PersistFulfilled, Rows, Label
<1>9. CASE Finish(p)
  <2>1. JobStatusAt(MilestoneOf(poll[p].track)) \in {"none", "active", "completed", "cancelled", "failed"}
    BY DEF JobStatusAt
  <2>2. job' \in JobRow
    BY <1>0, <1>9, <2>1 DEF Finish, JobRow
  <2> QED BY <1>0, <1>9, <2>2, PollMoves DEF Finish, Rows
<1>10. CASE Undecipherable(p) \/ Fail(p) \/ Crash(p)
  <2>1. CASE Set(p, Idle)
    BY <1>0, <1>10, <2>1, PollMoves DEF Undecipherable, Fail, Crash, Rows
  <2>2. CASE Leave(p, "end")
    BY <1>0, <1>10, <2>2, GotoMoves DEF Undecipherable, Fail, Crash, Rows, Label
  <2> QED BY <1>10, <2>1, <2>2 DEF Undecipherable, Fail, Crash
<1> QED BY <1>1, <1>2, <1>3, <1>4, <1>5, <1>6, <1>7, <1>8, <1>9, <1>10 DEF PollStep, Mishap

\* What is not a poll's doing.
Outside ==
  \/ EnsureJob \/ CancelStep \/ ConfirmCollection
  \/ (\E pudo \in BOOLEAN : StartCancel(pudo))
  \/ (\E w \in Waybills : CompleteUpload(w))
  \/ (\E f \in FulfillmentOrders : ClearKey(f))
  \/ (\E w \in Waybills, s \in Statuses : CourierMoves(w, s))

LEMMA NextSplits ==
  [Next]_vars <=> UNCHANGED vars \/ Outside \/ \E p \in Pollers : Begin(p) \/ PollStep(p) \/ Mishap(p)
  BY Zenon DEF Next, Outside

LEMMA OtherRows ==
  ASSUME Rows, Outside
  PROVE  Rows'
<1>0. order \in OrderRow /\ job \in JobRow /\ request \in RequestRow /\ courier \in [Parcels -> Statuses]
  BY DEF Rows
<1>1. CASE EnsureJob
  BY <1>0, <1>1 DEF EnsureJob, NewJob, OrderRow, JobRow, Rows
<1>2. ASSUME NEW pudo \in BOOLEAN, StartCancel(pudo) PROVE Rows'
  <2>1. request' \in RequestRow
    BY <1>2 DEF StartCancel, NoRequest, RequestRow
  <2>2. raced' \in BOOLEAN
    BY <1>2 DEF StartCancel
  <2> QED BY <1>2, <2>1, <2>2 DEF StartCancel, Rows
<1>3. CASE PudoLeg
  <2>1. request' \in RequestRow
    <3>1. /\ [request EXCEPT !.pc = "local"] \in RequestRow
          /\ \A heard \in BOOLEAN : [request EXCEPT !.pc = "local", !.cancelled = heard] \in RequestRow
      BY <1>0 DEF RequestRow
    <3> QED BY <1>3, <3>1 DEF PudoLeg, PudoAccepts, PudoRefuses
  <2>2. courier' \in [Parcels -> Statuses]
    BY <1>0, <1>3, StatusesAreWords DEF PudoLeg, PudoAccepts, PudoRefuses
  <2> QED BY <1>3, <2>1, <2>2 DEF PudoLeg, Rows
<1>4. CASE CommitCancel
  <2>1. order' \in OrderRow /\ job' \in JobRow
    <3>1. CASE UNCHANGED <<order, job>>
      BY <1>0, <3>1
    <3>2. CASE /\ order' = [order EXCEPT !.status = "cancelled", !.by = "hand"]
               /\ job' = [job EXCEPT !.status = "cancelled"]
      BY <1>0, <3>2, MilestonesAre DEF OrderRow, JobRow
    <3> QED BY <1>4, <3>1, <3>2, Zenon DEF CommitCancel
  <2>2. request' \in RequestRow
    BY <1>4 DEF CommitCancel, NoRequest, RequestRow
  <2> QED BY <1>4, <2>1, <2>2 DEF CommitCancel, Rows
<1>5. CASE ConfirmCollection \/ \E w \in Waybills : CompleteUpload(w)
  <2>1. order' \in OrderRow
    BY <1>0, <1>5, MilestonesAre DEF CompleteUpload, ConfirmCollection, OrderRow, Parcels
  <2> QED BY <1>5, <2>1 DEF CompleteUpload, ConfirmCollection, Rows
<1>6. ASSUME NEW f \in FulfillmentOrders, ClearKey(f) PROVE Rows'
  <2>1. key' \in [FulfillmentOrders -> KeyRow]
    BY <1>6 DEF ClearKey, Put, NoKey, KeyRow, Rows
  <2> QED BY <1>6, <2>1 DEF ClearKey, Rows
<1>7. ASSUME NEW w \in Waybills, NEW s \in Statuses, CourierMoves(w, s) PROVE Rows'
  <2>1. courier' \in [Parcels -> Statuses]
    BY <1>0, <1>7 DEF CourierMoves
  <2> QED BY <1>7, <2>1 DEF CourierMoves, Rows
<1> QED BY <1>1, <1>2, <1>3, <1>4, <1>5, <1>6, <1>7 DEF Outside, CancelStep

\* What the steps do to the counters.
LEMMA Counting ==
  ASSUME Counts, NEW m \in Announced
  PROVE  Emit(m) => /\ emitted' \in [Announced -> Nat] /\ emitted'[m] = emitted[m] + 1
                    /\ \A n \in Announced \ {m} : emitted'[n] = emitted[n]
  BY DEF Counts, Emit

LEMMA Troubling ==
  ASSUME Counts, Trouble
  PROVE  spent' \in Spent
  BY DEF Counts, Trouble, Spent

LEMMA Excusing ==
  ASSUME Counts, NEW f, Excuse(f)
  PROVE  /\ excuses' \in [FulfillmentOrders -> Nat]
         /\ f \in FulfillmentOrders => excuses'[f] = excuses[f] + 1
         /\ \A g \in FulfillmentOrders \ {f} : excuses'[g] = excuses[g]
<1>1. excuses \in [FulfillmentOrders -> Nat]
  BY DEF Counts
<1>2. CASE f \in FulfillmentOrders
  BY <1>1, <1>2 DEF Excuse
<1>3. CASE f \notin FulfillmentOrders
  <2>1. excuses' = excuses
    BY <1>1, <1>3 DEF Excuse
  <2> QED BY <1>1, <1>3, <2>1
<1> QED BY <1>2, <1>3

LEMMA Visiting ==
  ASSUME Counts, NEW w \in Parcels, NEW m \in Milestones, Visit(w, m)
  PROVE  /\ visits' \in [Parcels -> [Milestones -> Nat]]
         /\ visits'[w][m] = visits[w][m] + 1
         /\ \A n \in Milestones \ {m} : visits'[w][n] = visits[w][n]
         /\ \A v \in Parcels \ {w} : visits'[v] = visits[v]
<1>1. visits[w] \in [Milestones -> Nat]
  BY DEF Counts
<1> DEFINE row == [visits[w] EXCEPT ![m] = @ + 1]
<1>2. row \in [Milestones -> Nat] /\ row[m] = visits[w][m] + 1 /\ \A n \in Milestones \ {m} : row[n] = visits[w][n]
  BY <1>1
<1>3. visits' = [visits EXCEPT ![w] = row]
  BY DEF Visit
<1> HIDE DEF row
<1> QED BY <1>2, <1>3 DEF Counts

LEMMA CountsStep ==
  ASSUME Rows, Counts, [Next]_vars
  PROVE  Counts'
<1>0. /\ emitted \in [Announced -> Nat] /\ visits \in [Parcels -> [Milestones -> Nat]]
      /\ created \in [FulfillmentOrders -> Nat] /\ excuses \in [FulfillmentOrders -> Nat] /\ spent \in Spent
  BY DEF Counts
<1>1. CASE UNCHANGED vars \/ EnsureJob \/ CommitCancel
  BY <1>0, <1>1 DEF vars, EnsureJob, CommitCancel, Counts
<1>2. CASE \E pudo \in BOOLEAN : StartCancel(pudo)
  BY <1>0, <1>2, Troubling DEF StartCancel, Counts
<1>3. CASE \E w \in Waybills : CompleteUpload(w)
  BY <1>0, <1>3, Troubling DEF CompleteUpload, Counts
<1>4. CASE PudoLeg
  <2>1. visits' \in [Parcels -> [Milestones -> Nat]]
    <3>1. job.waybill \in Parcels
      BY DEF Rows, JobRow
    <3> QED BY <1>0, <1>4, <3>1, Visiting, MilestonesAre DEF PudoLeg, PudoAccepts, PudoRefuses
  <2> QED BY <1>0, <1>4, <2>1 DEF PudoLeg, Counts
<1>5. CASE ConfirmCollection
  <2>1. emitted' \in [Announced -> Nat]
    BY <1>0, <1>5, Counting, MilestonesAre DEF ConfirmCollection
  <2>2. spent' \in Spent /\ UNCHANGED <<created, excuses>>
    BY <1>5, Troubling DEF ConfirmCollection
  <2>3. visits' \in [Parcels -> [Milestones -> Nat]]
    BY <1>5, Visiting, MilestonesAre DEF ConfirmCollection, Parcels
  <2> QED BY <1>0, <2>1, <2>2, <2>3 DEF Counts
<1>6. ASSUME NEW w \in Waybills, NEW s \in Statuses, CourierMoves(w, s) PROVE Counts'
  <2>1. spent' \in Spent
    BY <1>0, <1>6 DEF CourierMoves, Spent
  <2>2. visits' \in [Parcels -> [Milestones -> Nat]]
    BY <1>6, Visiting, MilestoneTyped DEF CourierMoves, Parcels
  <2> QED BY <1>0, <1>6, <2>1, <2>2 DEF CourierMoves, Counts
<1>7. ASSUME NEW f \in FulfillmentOrders, ClearKey(f) PROVE Counts'
  BY <1>0, <1>7, Troubling, Excusing DEF ClearKey, Counts
<1>8. ASSUME NEW p \in Pollers, Begin(p) \/ PollStep(p) \/ Mishap(p)
      PROVE  Counts'
  <2>1. CASE CommitMilestone(p)
    <3>1. emitted' \in [Announced -> Nat]
      BY <1>0, <2>1, Counting DEF CommitMilestone
    <3> QED BY <1>0, <2>1, <3>1 DEF CommitMilestone, Counts
  <2>2. CASE Mishap(p)
    <3>1. excuses' \in [FulfillmentOrders -> Nat]
      BY <1>0, <2>2, Excusing DEF Mishap, TakeOver, CreateFails, Fail, Crash
    <3>2. created' \in [FulfillmentOrders -> Nat]
      BY <1>0, <2>2 DEF Mishap, TakeOver, CreateFails, Fail, Crash
    <3>3. spent' \in Spent /\ UNCHANGED <<emitted, visits>>
      BY <2>2, Troubling DEF Mishap, TakeOver, CreateFails, Fail, Crash
    <3> QED BY <1>0, <3>1, <3>2, <3>3 DEF Counts
  <2>3. CASE Create(p)
    BY <1>0, <2>3 DEF Create, Counts
  <2>4. CASE \/ Begin(p) \/ Fetch(p) \/ Undecipherable(p) \/ ReadPrevious(p) \/ CheckFulfilled(p) \/ ClaimKey(p)
             \/ PersistFulfilled(p) \/ Finish(p)
    BY <1>0, <2>4 DEF Begin, Fetch, Undecipherable, ReadPrevious, CheckFulfilled, ClaimKey, PersistFulfilled,
                      Finish, Counts
  <2> QED BY <1>8, <2>1, <2>2, <2>3, <2>4 DEF PollStep
<1> QED BY <1>1, <1>2, <1>3, <1>4, <1>5, <1>6, <1>7, <1>8, NextSplits DEF Outside, CancelStep

LEMMA TypeStep == TypeOK /\ [Next]_vars => TypeOK'
<1> SUFFICES ASSUME Rows, Counts, [Next]_vars PROVE Rows' /\ Counts'
  BY DEF TypeOK, Rows, Counts, OrderRow, JobRow, PollRow, RequestRow, KeyRow, Spent, Label
<1>1. Rows'
  <2>1. CASE UNCHANGED vars
    BY <2>1 DEF vars, Rows
  <2> QED BY <2>1, PollRows, OtherRows, NextSplits
<1> QED BY <1>1, CountsStep

-----------------------------------------------------------------------------
(* What is shown was announced. *)

\* Nobody remembers a milestone that was not announced.
AnnouncedInv ==
  /\ job.milestone \in Announced => emitted[job.milestone] > 0
  /\ \A p \in Pollers : poll[p].prev \in Announced => emitted[poll[p].prev] > 0
  /\ ShownIsAnnounced

LEMMA AnnouncedInit == Init => AnnouncedInv
  BY MilestonesAre DEF Init, AnnouncedInv, ShownIsAnnounced, NoJob, Idle, Announced

\* Announcements are never taken back.
LEMMA AnnouncedGrows ==
  ASSUME Rows, Counts, [Next]_vars
  PROVE  \A m \in Announced : emitted[m] > 0 => emitted'[m] > 0
<1> SUFFICES ASSUME NEW m \in Announced, emitted[m] > 0 PROVE emitted'[m] > 0
  OBVIOUS
<1>0. \A n \in Announced : Emit(n) => emitted'[m] > 0
  BY Counting DEF Counts
<1>1. CASE ConfirmCollection
  BY <1>0, <1>1, MilestonesAre DEF ConfirmCollection
<1>2. ASSUME NEW p \in Pollers, CommitMilestone(p) PROVE emitted'[m] > 0
  BY <1>0, <1>2 DEF CommitMilestone
<1>3. ASSUME UNCHANGED emitted PROVE emitted'[m] > 0
  BY <1>3
<1>4. ASSUME NEW p \in Pollers, Begin(p) \/ PollStep(p) \/ Mishap(p)
      PROVE  emitted'[m] > 0
  BY <1>2, <1>3, <1>4 DEF Begin, PollStep, Fetch, Undecipherable, ReadPrevious, CheckFulfilled, ClaimKey, Create,
                          PersistFulfilled, Finish, Mishap, TakeOver, CreateFails, Fail, Crash
<1> QED BY <1>1, <1>3, <1>4, NextSplits DEF vars, Outside, EnsureJob, CancelStep, PudoLeg, CommitCancel, StartCancel,
                                            CompleteUpload, ClearKey, CourierMoves

\* A step that shows no other milestone, and remembers none.
LEMMA AnnouncedFrame ==
  ASSUME Rows, Counts, AnnouncedInv, [Next]_vars,
         job'.milestone \in {job.milestone, "null"},
         \A p \in Pollers : poll'[p].prev \in {poll[p].prev, "null", job.milestone},
         (order'.by = order.by /\ order'.status = order.status) \/ order'.by = "hand"
  PROVE  AnnouncedInv'
  BY AnnouncedGrows, MilestonesAre DEF AnnouncedInv, ShownIsAnnounced

LEMMA AnnouncedStep == TypeOK /\ AnnouncedInv /\ [Next]_vars => AnnouncedInv'
<1> SUFFICES ASSUME Rows, Counts, AnnouncedInv, [Next]_vars PROVE AnnouncedInv'
  BY TypeOKSplits
<1>0. order \in OrderRow /\ job \in JobRow
  BY DEF Rows
<1>1. CASE UNCHANGED vars \/ (Outside /\ ~ConfirmCollection)
  <2>1. UNCHANGED poll /\ job'.milestone \in {job.milestone, "null"}
    <3>1. EnsureJob \/ CommitCancel => UNCHANGED poll /\ job'.milestone \in {job.milestone, "null"}
      <4>1. [job EXCEPT !.status = "cancelled"].milestone = job.milestone
        BY <1>0 DEF JobRow
      <4>2. EnsureJob => UNCHANGED poll /\ job'.milestone = "null"
        BY DEF EnsureJob, NewJob
      <4>3. CommitCancel => UNCHANGED poll /\ (UNCHANGED job \/ job' = [job EXCEPT !.status = "cancelled"])
        BY DEF CommitCancel
      <4> QED BY <4>1, <4>2, <4>3
    <3>2. ~EnsureJob /\ ~CommitCancel => UNCHANGED <<poll, job>>
      BY <1>1 DEF vars, Outside, CancelStep, PudoLeg, StartCancel, CompleteUpload, ClearKey, CourierMoves
    <3> QED BY <3>1, <3>2
  <2>2. (order'.by = order.by /\ order'.status = order.status) \/ order'.by = "hand"
    <3>1. [order EXCEPT !.status = "cancelled", !.by = "hand"].by = "hand"
      BY <1>0 DEF OrderRow
    <3>2. \A w \in Waybills : [order EXCEPT !.waybill = w, !.status = "submitted", !.by = "hand"].by = "hand"
      BY <1>0 DEF OrderRow
    <3> QED BY <1>1, <3>1, <3>2 DEF vars, Outside, EnsureJob, CancelStep, PudoLeg, CommitCancel, StartCancel,
                                    CompleteUpload, ClearKey, CourierMoves
  <2>3. [Next]_vars
    BY <1>1, NextSplits
  <2> QED BY <2>1, <2>2, <2>3, AnnouncedFrame
<1>2. CASE ConfirmCollection
  <2>1. UNCHANGED <<job, poll>>
    BY <1>2 DEF ConfirmCollection
  <2>2. CASE Emit("delivered") /\ order' = [order EXCEPT !.status = "delivered", !.by = "poll"]
    <3>1. emitted'["delivered"] > 0
      BY <2>2, Counting, MilestonesAre DEF Counts
    <3>2. order'.status = "delivered"
      BY <1>0, <2>2 DEF OrderRow
    <3> QED BY <2>1, <3>1, <3>2, AnnouncedGrows DEF AnnouncedInv, ShownIsAnnounced
  <2>3. CASE order' = [order EXCEPT !.status = "delivered", !.by = "hand"]
    <3>1. order'.by = "hand"
      BY <1>0, <2>3 DEF OrderRow
    <3> QED BY <2>1, <3>1, AnnouncedFrame
  <2> QED BY <1>2, <2>2, <2>3 DEF ConfirmCollection
<1>3. ASSUME NEW p \in Pollers, Begin(p) \/ PollStep(p) \/ Mishap(p)
      PROVE  AnnouncedInv'
  <2>0. poll[p] \in PollRow
    BY DEF Rows
  <2>1. CASE CommitMilestone(p)
    <3> DEFINE m == MilestoneOf(poll[p].track)
               r == [poll[p] EXCEPT !.pc = IF m = "in_transit" THEN "check" ELSE "end", !.prev = "null"]
    <3>1. /\ job' = [job EXCEPT !.milestone = m] /\ order' = [order EXCEPT !.status = m, !.by = "poll"]
          /\ Set(p, r)
          /\ IF Changed(p, m) /\ m \in Announced THEN Emit(m) ELSE UNCHANGED emitted
      BY <2>1 DEF CommitMilestone
    <3> HIDE DEF m
    <3>2. m \in Announced => emitted'[m] > 0
      <4>1. CASE Changed(p, m) /\ m \in Announced
        BY <3>1, <4>1, Counting DEF Counts
      <4>2. CASE ~Changed(p, m) /\ m \in Announced
        BY <3>1, <4>2 DEF Changed, AnnouncedInv
      <4> QED BY <4>1, <4>2
    <3>3. job'.milestone = m /\ order'.status = m
      BY <1>0, <3>1 DEF JobRow, OrderRow
    <3>4. \A q \in Pollers : poll'[q].prev \in {poll[q].prev, "null"}
      <4>1. poll'[p] = r /\ \A q \in Pollers \ {p} : poll'[q] = poll[q]
        BY <3>1, PollMoves
      <4>2. r.prev = "null"
        BY <2>0 DEF PollRow
      <4> HIDE DEF r
      <4> QED BY <4>1, <4>2
    <3> QED BY <3>2, <3>3, <3>4, AnnouncedGrows, MilestonesAre DEF AnnouncedInv, ShownIsAnnounced
  <2>2. CASE ~CommitMilestone(p) /\ ~Finish(p)
    <3>1. UNCHANGED job
      BY <1>3, <2>2 DEF PollStep, Mishap, Begin, Fetch, Undecipherable, ReadPrevious, CheckFulfilled, ClaimKey,
                        TakeOver, Create, CreateFails, PersistFulfilled, Fail, Crash
    <3>2. order'.by = order.by /\ order'.status = order.status
      <4>1. [order EXCEPT !.fulfilled = TRUE].by = order.by /\ [order EXCEPT !.fulfilled = TRUE].status = order.status
        BY <1>0 DEF OrderRow
      <4> QED BY <1>3, <2>2, <4>1
           DEF PollStep, Mishap, Begin, Fetch, Undecipherable, ReadPrevious, CheckFulfilled, ClaimKey,
               TakeOver, Create, CreateFails, PersistFulfilled, Fail, Crash
    <3> SUFFICES \A q \in Pollers : poll'[q].prev \in {poll[q].prev, "null", job.milestone}
      BY <3>1, <3>2, AnnouncedFrame
    <3>3. ASSUME NEW r, Set(p, r), r.prev \in {poll[p].prev, "null", job.milestone}
          PROVE  \A q \in Pollers : poll'[q].prev \in {poll[q].prev, "null", job.milestone}
      BY <3>3, PollMoves
    <3>4. ASSUME NEW l \in Label, Goto(p, l) \/ Leave(p, l)
          PROVE  \A q \in Pollers : poll'[q].prev \in {poll[q].prev, "null", job.milestone}
      BY <3>4, GotoMoves
    <3>5. CASE Fetch(p) \/ ReadPrevious(p)
      <4>1. /\ [poll[p] EXCEPT !.pc = "read", !.track = courier[job.waybill]].prev = poll[p].prev
            /\ [poll[p] EXCEPT !.pc = "commit", !.prev = job.milestone].prev = job.milestone
        BY <2>0 DEF PollRow
      <4> QED BY <3>3, <3>5, <4>1 DEF Fetch, ReadPrevious
    <3>6. ASSUME NEW f \in FulfillmentOrders, Set(p, [poll[p] EXCEPT !.pc = "claim", !.fo = f])
          PROVE  \A q \in Pollers : poll'[q].prev \in {poll[q].prev, "null", job.milestone}
      <4>1. [poll[p] EXCEPT !.pc = "claim", !.fo = f].prev = poll[p].prev
        BY <2>0 DEF PollRow
      <4> QED BY <3>3, <3>6, <4>1
    <3>7. CASE Set(p, Idle)
      BY <3>3, <3>7 DEF Idle
    <3> QED BY <1>3, <2>2, <3>4, <3>5, <3>6, <3>7
         DEF PollStep, Mishap, Begin, Undecipherable, CheckFulfilled, ClaimKey, TakeOver, Create, CreateFails,
             PersistFulfilled, Fail, Crash, Label
  <2>3. CASE Finish(p)
    <3>1. Set(p, Idle) /\ UNCHANGED order
      BY <2>3 DEF Finish
    <3>2. job'.milestone = job.milestone
      BY <1>0, <2>3 DEF Finish, JobRow
    <3>3. \A q \in Pollers : poll'[q].prev \in {poll[q].prev, "null", job.milestone}
      BY <3>1, PollMoves DEF Idle
    <3> QED BY <3>1, <3>2, <3>3, AnnouncedFrame
  <2> QED BY <1>3, <2>1, <2>2, <2>3
<1> QED BY <1>1, <1>2, <1>3, NextSplits

-----------------------------------------------------------------------------
(* Fulfillments at Shopify. *)

\* The polls that are calling Shopify for f, and the call that the key of f stands for.
Makers(f) == {p \in Pollers : Creating(p, f)}
Held(f) == IF key[f].status \in {"none", "failed"} THEN 0 ELSE 1

\* Every fulfillment, made or about to be made, was paid for: by an excuse, or by the
\* key as it is now; and a key in progress that nobody works on has not paid yet.
CreatedInv == \A f \in FulfillmentOrders :
  /\ created[f] + Cardinality(Makers(f)) <= excuses[f] + Held(f)
  /\ key[f].status = "in_progress" /\ Makers(f) = {} => created[f] <= excuses[f]

LEMMA MakersFinite ==
  ASSUME NEW f
  PROVE  /\ IsFiniteSet(Makers(f)) /\ Cardinality(Makers(f)) \in Nat
         /\ Cardinality(Makers(f)) = 0 <=> Makers(f) = {}
<1>1. IsFiniteSet(Pollers)
  BY PollersAreFinite, FS_Singleton, FS_Union DEF Pollers
<1>2. Makers(f) \subseteq Pollers
  BY DEF Makers
<1> QED BY <1>1, <1>2, FS_Subset, FS_CardinalityType, FS_EmptySet

\* A poll that begins a call, and one that ends it.
LEMMA MakerJoins ==
  ASSUME NEW p \in Pollers, NEW f, poll'[p].pc = "create", poll'[p].fo = f, poll[p].pc # "create",
         \A q \in Pollers \ {p} : poll'[q] = poll[q]
  PROVE  /\ Cardinality(Makers(f)') = Cardinality(Makers(f)) + 1 /\ Makers(f)' # {}
         /\ \A g : g # f => Makers(g)' = Makers(g)
<1>1. Makers(f)' = Makers(f) \cup {p} /\ p \notin Makers(f)
  BY DEF Makers, Creating
<1>2. \A g : g # f => Makers(g)' = Makers(g)
  BY DEF Makers, Creating
<1> QED BY <1>1, <1>2, MakersFinite, FS_AddElement

LEMMA MakerLeaves ==
  ASSUME NEW p \in Pollers, NEW f, Creating(p, f), poll'[p].pc # "create",
         \A q \in Pollers \ {p} : poll'[q] = poll[q]
  PROVE  /\ Cardinality(Makers(f)') = Cardinality(Makers(f)) - 1 /\ Cardinality(Makers(f)) >= 1
         /\ \A g : g # f => Makers(g)' = Makers(g)
<1>1. Makers(f)' = Makers(f) \ {p} /\ p \in Makers(f)
  BY DEF Makers, Creating
<1>2. \A g : g # f => Makers(g)' = Makers(g)
  BY DEF Makers, Creating
<1>3. Cardinality(Makers(f)) # 0 /\ Cardinality(Makers(f)) \in Nat
  BY <1>1, MakersFinite
<1>4. Cardinality(Makers(f)') = Cardinality(Makers(f)) - 1
  BY <1>1, MakersFinite, FS_RemoveElement
<1> QED BY <1>2, <1>3, <1>4

\* Steps that leave the calls of p as they are.
LEMMA MakersStay ==
  ASSUME NEW p \in Pollers, poll[p].pc # "create", poll'[p].pc # "create",
         \A q \in Pollers \ {p} : poll'[q] = poll[q]
  PROVE  \A f : Makers(f)' = Makers(f)
  BY DEF Makers, Creating

LEMMA CreatedInit == Init => CreatedInv
<1> SUFFICES ASSUME Init, NEW f \in FulfillmentOrders
             PROVE  /\ created[f] + Cardinality(Makers(f)) <= excuses[f] + Held(f)
                    /\ key[f].status = "in_progress" /\ Makers(f) = {} => created[f] <= excuses[f]
  BY DEF CreatedInv
<1>1. created[f] = 0 /\ excuses[f] = 0 /\ key[f].status = "none"
  BY DEF Init, NoKey
<1>2. Makers(f) = {}
  BY DEF Init, Makers, Creating, Idle
<1> QED BY <1>1, <1>2, MakersFinite DEF Held

\* What one fulfillment order needs of a step.
LEMMA CreatedFrame ==
  ASSUME Counts, CreatedInv, NEW f \in FulfillmentOrders, Makers(f)' = Makers(f), key'[f] = key[f],
         created'[f] = created[f], excuses'[f] \in Nat, excuses'[f] >= excuses[f]
  PROVE  /\ created'[f] + Cardinality(Makers(f)') <= excuses'[f] + Held(f)'
         /\ key'[f].status = "in_progress" /\ Makers(f)' = {} => created'[f] <= excuses'[f]
<1>1. created[f] \in Nat /\ excuses[f] \in Nat /\ Cardinality(Makers(f)) \in Nat
  BY MakersFinite DEF Counts
<1>2. Held(f)' = Held(f) /\ Held(f) \in {0, 1}
  BY DEF Held
<1> QED BY <1>1, <1>2 DEF CreatedInv

LEMMA CreatedStays ==
  ASSUME Counts, Counts', CreatedInv, UNCHANGED <<key, created, excuses>>, \A f : Makers(f)' = Makers(f)
  PROVE  CreatedInv'
<1>1. \A f \in FulfillmentOrders : excuses'[f] \in Nat /\ excuses'[f] >= excuses[f]
  BY DEF Counts
<1> QED BY <1>1, CreatedFrame DEF CreatedInv

LEMMA CreatedOutside ==
  ASSUME Rows, Counts, Counts', CreatedInv, UNCHANGED vars \/ Outside
  PROVE  CreatedInv'
<1>1. CASE UNCHANGED <<key, created, excuses, poll>>
  <2>1. \A f : Makers(f)' = Makers(f)
    BY <1>1 DEF Makers, Creating
  <2> QED BY <1>1, <2>1, CreatedStays
<1>2. ASSUME NEW g \in FulfillmentOrders, ClearKey(g) PROVE CreatedInv'
  <2> SUFFICES ASSUME NEW f \in FulfillmentOrders
               PROVE  /\ created'[f] + Cardinality(Makers(f)') <= excuses'[f] + Held(f)'
                      /\ key'[f].status = "in_progress" /\ Makers(f)' = {} => created'[f] <= excuses'[f]
    BY DEF CreatedInv
  <2>0. /\ created[f] \in Nat /\ excuses[f] \in Nat /\ excuses'[f] \in Nat /\ Cardinality(Makers(f)) \in Nat
        /\ key \in [FulfillmentOrders -> KeyRow]
    BY MakersFinite DEF Counts, Rows
  <2>1. Makers(f)' = Makers(f) /\ created'[f] = created[f]
    BY <1>2 DEF ClearKey, Makers, Creating
  <2>2. CASE f = g
    <3>1. excuses'[f] = excuses[f] + 1 /\ key'[f] = NoKey
      BY <1>2, <2>0, <2>2, Excusing DEF ClearKey, Put
    <3>2. Held(f)' = 0 /\ key'[f].status = "none" /\ Held(f) \in {0, 1}
      BY <3>1 DEF Held, NoKey
    <3> QED BY <2>0, <2>1, <3>1, <3>2 DEF CreatedInv
  <2>3. CASE f # g
    <3>1. excuses'[f] = excuses[f] /\ key'[f] = key[f]
      BY <1>2, <2>0, <2>3, Excusing DEF ClearKey, Put
    <3> QED BY <2>0, <2>1, <3>1, CreatedFrame
  <2> QED BY <2>2, <2>3
<1>3. UNCHANGED <<key, created, excuses, poll>> \/ \E g \in FulfillmentOrders : ClearKey(g)
  BY DEF Outside, vars, EnsureJob, CancelStep, PudoLeg, CommitCancel, ConfirmCollection, StartCancel, CompleteUpload,
         CourierMoves
<1> QED BY <1>1, <1>2, <1>3

\* A poll claims a key, or takes it over.
LEMMA CreatedClaim ==
  ASSUME Rows, Counts, Counts', CreatedInv, NEW p \in Pollers, poll[p].pc = "claim", Goto(p, "create"),
         UNCHANGED created,
         LET g == poll[p].fo IN
           \/ Claimable(g) /\ Put(g, [status |-> "in_progress", answer |-> "none"]) /\ UNCHANGED excuses
           \/ key[g].status = "in_progress" /\ UNCHANGED key /\ Excuse(g)
  PROVE  CreatedInv'
<1>a. PICK g : g = poll[p].fo
  OBVIOUS
<1> SUFFICES ASSUME NEW f \in FulfillmentOrders
             PROVE  /\ created'[f] + Cardinality(Makers(f)') <= excuses'[f] + Held(f)'
                    /\ key'[f].status = "in_progress" /\ Makers(f)' = {} => created'[f] <= excuses'[f]
  BY DEF CreatedInv
<1>0. /\ created[f] \in Nat /\ excuses[f] \in Nat /\ excuses'[f] \in Nat /\ Cardinality(Makers(f)) \in Nat
      /\ key \in [FulfillmentOrders -> KeyRow] /\ created'[f] = created[f]
  BY MakersFinite DEF Counts, Rows
<1>1. /\ poll'[p].pc = "create" /\ poll'[p].fo = g
      /\ \A q \in Pollers \ {p} : poll'[q] = poll[q]
  BY <1>a, GotoMoves DEF Label
<1>2. /\ Cardinality(Makers(g)') = Cardinality(Makers(g)) + 1 /\ Makers(g)' # {}
      /\ \A h : h # g => Makers(h)' = Makers(h)
  BY <1>1, MakerJoins
<1>3. CASE f = g
  <2>1. CASE key[g].status \in {"none", "failed"} /\ Put(g, [status |-> "in_progress", answer |-> "none"]) /\ UNCHANGED excuses
    <3>1. key'[f].status = "in_progress"
      BY <1>0, <1>3, <2>1 DEF Put
    <3>2. Held(f) = 0 /\ Held(f)' = 1 /\ excuses'[f] = excuses[f]
      BY <1>3, <2>1, <3>1 DEF Held
    <3> QED BY <1>0, <1>2, <1>3, <3>2 DEF CreatedInv
  <2>2. CASE Orphaned(g) /\ Put(g, [status |-> "in_progress", answer |-> "none"]) /\ UNCHANGED excuses
    <3>1. key[f].status = "in_progress" /\ Makers(f) = {}
      BY <1>3, <2>2 DEF Orphaned, Makers
    <3>2. created[f] <= excuses[f] /\ Cardinality(Makers(f)) = 0
      BY <3>1, MakersFinite DEF CreatedInv
    <3>3. key'[f].status = "in_progress"
      BY <1>0, <1>3, <2>2 DEF Put
    <3>4. Held(f)' = 1 /\ excuses'[f] = excuses[f]
      BY <2>2, <3>3 DEF Held
    <3> QED BY <1>0, <1>2, <1>3, <3>2, <3>4
  <2>3. CASE key[g].status = "in_progress" /\ UNCHANGED key /\ Excuse(g)
    <3>1. excuses'[f] = excuses[f] + 1
      BY <1>3, <2>3, Excusing
    <3>2. Held(f)' = Held(f) /\ Held(f) \in {0, 1}
      BY <2>3 DEF Held
    <3> QED BY <1>0, <1>2, <1>3, <3>1, <3>2 DEF CreatedInv
  <2> QED BY <1>a, <2>1, <2>2, <2>3 DEF Claimable
<1>4. CASE f # g
  <2>1. key'[f] = key[f] /\ excuses'[f] = excuses[f]
    BY <1>0, <1>a, <1>4, Excusing DEF Put
  <2> QED BY <1>0, <1>2, <1>4, <2>1, CreatedFrame
<1> QED BY <1>3, <1>4

\* A call ends: with its answer, with a failure or with the process.
LEMMA CreatedEnd ==
  ASSUME Rows, Counts, Counts', CreatedInv, NEW p \in Pollers, Create(p) \/ CreateFails(p) \/ (Crash(p) /\ poll[p].pc = "create")
  PROVE  CreatedInv'
<1>a. PICK g : g = poll[p].fo
  OBVIOUS
<1> SUFFICES ASSUME NEW f \in FulfillmentOrders
             PROVE  /\ created'[f] + Cardinality(Makers(f)') <= excuses'[f] + Held(f)'
                    /\ key'[f].status = "in_progress" /\ Makers(f)' = {} => created'[f] <= excuses'[f]
  BY DEF CreatedInv
<1>0. /\ created[f] \in Nat /\ excuses[f] \in Nat /\ excuses'[f] \in Nat /\ Cardinality(Makers(f)) \in Nat
      /\ key \in [FulfillmentOrders -> KeyRow] /\ created \in [FulfillmentOrders -> Nat]
  BY MakersFinite DEF Counts, Rows
<1>1. poll'[p].pc # "create" /\ \A q \in Pollers \ {p} : poll'[q] = poll[q]
  <2>1. (\E l \in {"persist", "end"} : Leave(p, l)) \/ Set(p, Idle)
    BY DEF Create, CreateFails, Crash
  <2>2. ASSUME NEW l \in {"persist", "end"}, Leave(p, l)
        PROVE  poll'[p].pc # "create" /\ \A q \in Pollers \ {p} : poll'[q] = poll[q]
    BY <2>2, GotoMoves DEF Label
  <2>3. ASSUME Set(p, Idle)
        PROVE  poll'[p].pc # "create" /\ \A q \in Pollers \ {p} : poll'[q] = poll[q]
    BY <2>3, PollMoves DEF Idle
  <2> QED BY <2>1, <2>2, <2>3
<1>2. Creating(p, g)
  BY <1>a DEF Creating, Create, CreateFails, Crash
<1>3. /\ Cardinality(Makers(g)') = Cardinality(Makers(g)) - 1 /\ Cardinality(Makers(g)) >= 1
      /\ \A h : h # g => Makers(h)' = Makers(h)
  BY <1>1, <1>2, MakerLeaves
<1>4. CASE f = g
  <2>0. /\ Cardinality(Makers(f)') = Cardinality(Makers(f)) - 1 /\ Cardinality(Makers(f)) >= 1
        /\ created[f] + Cardinality(Makers(f)) <= excuses[f] + Held(f) /\ Held(f) \in {0, 1}
    BY <1>3, <1>4 DEF CreatedInv, Held
  <2>1. CASE Create(p)
    <3>1. created'[f] \in {created[f], created[f] + 1} /\ UNCHANGED excuses
      BY <1>0, <1>a, <1>4, <2>1 DEF Create
    <3>2. Held(f)' >= Held(f) /\ Held(f)' \in {0, 1} /\ (key'[f].status = "in_progress" => FALSE)
      <4>1. CASE key[f].status = "none"
        <5>1. UNCHANGED key
          BY <1>a, <1>4, <2>1, <4>1 DEF Create, Answer
        <5> QED BY <4>1, <5>1 DEF Held
      <4>2. CASE key[f].status # "none"
        <5>1. key'[f].status = "completed"
          BY <1>0, <1>a, <1>4, <2>1, <4>2 DEF Create, Answer, Put
        <5> QED BY <5>1 DEF Held
      <4> QED BY <4>1, <4>2
    <3> QED BY <1>0, <2>0, <3>1, <3>2
  <2>2. CASE CreateFails(p)
    <3>1. created'[f] \in {created[f], created[f] + 1} /\ excuses'[f] = excuses[f] + 1
      BY <1>0, <1>a, <1>4, <2>2, Excusing DEF CreateFails
    <3>2. Held(f)' \in {0, 1}
      BY DEF Held
    <3> QED BY <1>0, <2>0, <3>1, <3>2
  <2>3. CASE Crash(p) /\ poll[p].pc = "create"
    <3>1. excuses'[f] = excuses[f] + 1 /\ UNCHANGED <<key, created>>
      BY <1>a, <1>4, <2>3, Excusing DEF Crash
    <3>2. Held(f)' = Held(f)
      BY <3>1 DEF Held
    <3> QED BY <1>0, <2>0, <3>1, <3>2
  <2> QED BY <2>1, <2>2, <2>3
<1>5. CASE f # g
  <2>1. key'[f] = key[f]
    BY <1>0, <1>a, <1>5 DEF Create, CreateFails, Crash, Answer, Put
  <2>2. created'[f] = created[f]
    BY <1>0, <1>a, <1>5 DEF Create, CreateFails, Crash
  <2>3. excuses'[f] = excuses[f]
    BY <1>0, <1>a, <1>5, Excusing DEF Create, CreateFails, Crash
  <2> QED BY <1>0, <1>3, <1>5, <2>1, <2>2, <2>3, CreatedFrame
<1> QED BY <1>4, <1>5

LEMMA CreatedPoll ==
  ASSUME Rows, Counts, Counts', CreatedInv, NEW p \in Pollers, Begin(p) \/ PollStep(p) \/ Mishap(p)
  PROVE  CreatedInv'
<1>0. poll[p] \in PollRow
  BY DEF Rows
<1>1. CASE Create(p) \/ CreateFails(p) \/ (Crash(p) /\ poll[p].pc = "create")
  BY <1>1, CreatedEnd
<1>2. CASE TakeOver(p)
  BY <1>2, CreatedClaim DEF TakeOver
<1>3. CASE ClaimKey(p) /\ key' # key
  BY <1>3, CreatedClaim DEF ClaimKey
<1>4. CASE ClaimKey(p) /\ key' = key /\ Goto(p, "create")
  <2>1. ~\E l \in {"persist", "end"} : Leave(p, l)
    <3>1. \A l \in {"persist", "end"} : Leave(p, l) => poll'[p].pc # "create"
      BY GotoMoves DEF Label
    <3>2. poll'[p].pc = "create"
      BY <1>4, GotoMoves DEF Label
    <3> QED BY <3>1, <3>2
  <2> QED BY <1>4, <2>1, CreatedClaim DEF ClaimKey
<1>5. ASSUME UNCHANGED <<key, created, excuses>>, poll[p].pc # "create",
             \/ \E l \in Label \ {"create"} : Goto(p, l) \/ Leave(p, l)
             \/ \E r : Set(p, r) /\ r.pc # "create"
      PROVE  CreatedInv'
  <2>1. poll'[p].pc # "create" /\ \A q \in Pollers \ {p} : poll'[q] = poll[q]
    BY <1>5, GotoMoves, PollMoves
  <2>2. \A f : Makers(f)' = Makers(f)
    BY <1>5, <2>1, MakersStay
  <2> QED BY <1>5, <2>2, CreatedStays
<1>6. CASE Begin(p) \/ PersistFulfilled(p) \/ Undecipherable(p) \/ Finish(p) \/ Fail(p)
           \/ (Crash(p) /\ poll[p].pc # "create")
  BY <1>5, <1>6 DEF Begin, InPoll, PersistFulfilled, Undecipherable, Finish, Fail, Crash, Idle, Label
<1>7. CASE Fetch(p) \/ ReadPrevious(p)
  <2>1. /\ [poll[p] EXCEPT !.pc = "read", !.track = courier[job.waybill]].pc = "read"
        /\ [poll[p] EXCEPT !.pc = "commit", !.prev = job.milestone].pc = "commit"
    BY <1>0 DEF PollRow
  <2> QED BY <1>5, <1>7, <2>1 DEF Fetch, ReadPrevious
<1>8. CASE CommitMilestone(p)
  <2> DEFINE m == MilestoneOf(poll[p].track)
             r == [poll[p] EXCEPT !.pc = IF m = "in_transit" THEN "check" ELSE "end", !.prev = "null"]
  <2>1. Set(p, r) /\ poll[p].pc = "commit" /\ UNCHANGED <<key, created, excuses>>
    BY <1>8 DEF CommitMilestone
  <2>2. r.pc # "create"
    <3> HIDE DEF m
    <3> QED BY <1>0 DEF PollRow
  <2> HIDE DEF r
  <2> QED BY <1>5, <2>1, <2>2
<1>9. CASE CheckFulfilled(p)
  <2>1. \A f \in FulfillmentOrders : [poll[p] EXCEPT !.pc = "claim", !.fo = f].pc = "claim"
    BY <1>0 DEF PollRow
  <2> QED BY <1>5, <1>9, <2>1 DEF CheckFulfilled, Label
<1>10. CASE ClaimKey(p) /\ key' = key /\ \E l \in {"persist", "end"} : Leave(p, l)
  BY <1>5, <1>10 DEF ClaimKey, Label
<1>11. ClaimKey(p) /\ key' = key => Goto(p, "create") \/ \E l \in {"persist", "end"} : Leave(p, l)
  BY DEF ClaimKey
<1> QED BY <1>1, <1>2, <1>3, <1>4, <1>6, <1>7, <1>8, <1>9, <1>10, <1>11 DEF PollStep, Mishap

LEMMA CreatedStep == TypeOK /\ CreatedInv /\ [Next]_vars => CreatedInv'
<1> SUFFICES ASSUME Rows, Counts, CreatedInv, [Next]_vars PROVE CreatedInv'
  BY TypeOKSplits
<1>1. Counts'
  BY CountsStep
<1> QED BY <1>1, CreatedOutside, CreatedPoll, NextSplits

-----------------------------------------------------------------------------
(* Announcements and visits. *)

\* Every parcel has been counted where it is now.
Scanned == \A w \in Parcels : visits[w][MilestoneOf(courier[w])] >= 1

LEMMA ScannedInit == Init => Scanned
<1> SUFFICES ASSUME Init, NEW w \in Parcels PROVE visits[w][MilestoneOf(courier[w])] >= 1
  BY DEF Scanned
<1>1. MilestoneOf(courier[w]) = "submitted"
  BY DEF Init, MilestoneOf
<1> QED BY <1>1, MilestonesAre DEF Init

\* A visit is counted where the courier now has the parcel.
LEMMA ScannedVisit ==
  ASSUME Rows, Counts, Scanned, NEW w \in Parcels, NEW s, courier' = [courier EXCEPT ![w] = s], Visit(w, MilestoneOf(s))
  PROVE  Scanned'
<1> DEFINE c == MilestoneOf(s)
<1>1. c \in Milestones
  BY MilestoneTyped
<1>2. courier'[w] = s /\ \A v \in Parcels \ {w} : courier'[v] = courier[v]
  BY DEF Rows
<1>3. MilestoneOf(courier'[w]) = c /\ \A v \in Parcels \ {w} : MilestoneOf(courier'[v]) = MilestoneOf(courier[v])
  BY <1>2
<1>4. visits[w][c] \in Nat
  BY <1>1 DEF Counts
<1>5. visits'[w][c] = visits[w][c] + 1 /\ \A v \in Parcels \ {w} : visits'[v] = visits[v]
  BY <1>1, Visiting
<1> HIDE DEF c
<1> QED BY <1>3, <1>4, <1>5 DEF Scanned

LEMMA ScannedStep == TypeOK /\ Scanned /\ [Next]_vars => Scanned'
<1> SUFFICES ASSUME Rows, Counts, Scanned, [Next]_vars PROVE Scanned'
  BY TypeOKSplits
<1>1. CASE UNCHANGED <<courier, visits>>
  BY <1>1 DEF Scanned
<1>2. CASE ConfirmCollection
  <2>1. UNCHANGED courier /\ Visit(NoWaybill, "delivered")
    BY <1>2 DEF ConfirmCollection
  <2> SUFFICES ASSUME NEW w \in Parcels PROVE visits'[w][MilestoneOf(courier[w])] >= 1
    BY <2>1 DEF Scanned
  <2> DEFINE c == MilestoneOf(courier[w])
  <2>2. c \in Milestones
    BY MilestoneTyped
  <2>3. visits[w][c] >= 1 /\ visits[w][c] \in Nat
    BY <2>2 DEF Scanned, Counts
  <2>4. visits'[w][c] \in {visits[w][c], visits[w][c] + 1}
    <3> HIDE DEF c
    <3> QED BY <2>1, <2>2, Visiting, MilestonesAre DEF Parcels
  <2> HIDE DEF c
  <2>5. visits'[w][c] >= 1
    BY <2>3, <2>4
  <2> QED BY <2>5 DEF c
<1>3. CASE PudoLeg
  <2>1. job.waybill \in Parcels
    BY DEF Rows, JobRow
  <2>2. \/ UNCHANGED <<courier, visits>>
        \/ courier' = [courier EXCEPT ![job.waybill] = {"cancel"}] /\ Visit(job.waybill, "cancelled")
    <3>1. courier[job.waybill] = {"cancel"} => [courier EXCEPT ![job.waybill] = {"cancel"}] = courier
      BY DEF Rows
    <3> QED BY <1>3, <3>1 DEF PudoLeg, PudoAccepts, PudoRefuses
  <2> QED BY <1>1, <2>1, <2>2, ScannedVisit, CancelWord
<1>4. ASSUME NEW w \in Waybills, NEW s \in Statuses, CourierMoves(w, s) PROVE Scanned'
  <2>1. w \in Parcels
    BY DEF Parcels
  <2> QED BY <1>4, <2>1, ScannedVisit DEF CourierMoves
<1>5. \A p \in Pollers : Begin(p) \/ PollStep(p) \/ Mishap(p) => UNCHANGED <<courier, visits>>
  BY DEF Begin, PollStep, Fetch, Undecipherable, ReadPrevious, CommitMilestone, CheckFulfilled, ClaimKey, Create,
         PersistFulfilled, Finish, Mishap, TakeOver, CreateFails, Fail, Crash
<1>6. UNCHANGED vars \/ (Outside /\ ~ConfirmCollection /\ ~PudoLeg /\ ~(\E w \in Waybills, s \in Statuses : CourierMoves(w, s)))
        => UNCHANGED <<courier, visits>>
  BY DEF vars, Outside, EnsureJob, CancelStep, CommitCancel, StartCancel, CompleteUpload, ClearKey
<1> QED BY <1>1, <1>2, <1>3, <1>4, <1>5, <1>6, NextSplits

\* Where the parcel that is polled is.
Here == courier[job.waybill]

\* If the courier is, or was, at another milestone than the one that was seen
\* last, then it was there once more than it was announced.
Unannounced(c, seen) == c \in Announced /\ c # seen => emitted[c] < Reached(c)

VisitsInv ==
  ~raced =>
    /\ \A p, q \in Pollers : InPoll(p) /\ InPoll(q) => p = q
    /\ \A p \in Pollers : poll[p].pc = "commit" => poll[p].prev = job.milestone
    /\ \A m \in Announced : emitted[m] <= Reached(m)
    /\ Unannounced(MilestoneOf(Here), job.milestone)
    /\ \A p \in Pollers : poll[p].pc \in {"read", "commit"} =>
         /\ Unannounced(MilestoneOf(poll[p].track), job.milestone)
         /\ Unannounced(MilestoneOf(Here), MilestoneOf(poll[p].track))

LEMMA CountsTyped ==
  ASSUME Rows, Counts
  PROVE  \A m \in Announced : /\ m \in Milestones /\ emitted[m] \in Nat /\ Reached(m) \in Nat
                              /\ \A w \in Parcels : visits[w][m] \in Nat
<1>1. job.waybill \in Parcels /\ NoWaybill \in Parcels
  BY DEF Rows, JobRow, Parcels
<1>2. \A m \in Announced : m \in Milestones /\ \A w \in Parcels : visits[w][m] \in Nat
  BY MilestonesAre DEF Counts
<1> QED BY <1>1, <1>2 DEF Counts, Reached

LEMMA VisitsInit == Init => VisitsInv
<1> SUFFICES ASSUME Init PROVE VisitsInv
  OBVIOUS
<1>1. \A p \in Pollers : poll[p].pc = "idle"
  BY DEF Init, Idle
<1>2. \A m \in Announced : emitted[m] = 0 /\ Reached(m) = 0
  <2>1. NoWaybill \in Parcels /\ job.waybill = NoWaybill
    BY DEF Parcels, Init, NoJob
  <2>2. \A m \in Announced : m \in Milestones /\ m # "submitted"
    BY MilestonesAre DEF Announced
  <2> QED BY <2>1, <2>2 DEF Init, Reached
<1>3. MilestoneOf(Here) = "submitted"
  BY DEF Init, MilestoneOf, Here, NoJob, Parcels
<1> QED BY <1>1, <1>2, <1>3 DEF VisitsInv, Unannounced, InPoll, Announced

\* A step of p that neither announces nor sees a milestone.
LEMMA VisitsFrame ==
  ASSUME VisitsInv, NEW p \in Pollers, \A q \in Pollers \ {p} : poll'[q] = poll[q],
         UNCHANGED <<emitted, visits, courier, raced>>, job'.milestone = job.milestone,
         job'.waybill = job.waybill, poll'[p].pc \notin {"read", "commit"}, InPoll(p)
  PROVE  VisitsInv'
<1> SUFFICES ASSUME ~raced PROVE VisitsInv'
  BY DEF VisitsInv
<1>1. \A q \in Pollers : InPoll(q)' => q = p
  BY DEF VisitsInv, InPoll
<1>2. \A q \in Pollers : poll'[q].pc \notin {"read", "commit"}
  BY <1>1 DEF InPoll
<1>3. Here' = Here /\ \A m \in Announced : Reached(m)' = Reached(m)
  BY DEF Reached, Here
<1>4. Unannounced(MilestoneOf(Here), job.milestone)'
  <2>1. MilestoneOf(Here)' = MilestoneOf(Here)
    BY <1>3 DEF MilestoneOf
  <2> QED BY <1>3, <2>1 DEF VisitsInv, Unannounced
<1>5. \A m \in Announced : emitted'[m] <= Reached(m)'
  BY <1>3 DEF VisitsInv
<1> QED BY <1>1, <1>2, <1>4, <1>5 DEF VisitsInv

\* A step that no poll takes and that leaves what was seen alone.
LEMMA VisitsOutside ==
  ASSUME Rows, Counts, VisitsInv, UNCHANGED poll, job'.milestone = job.milestone,
         \A m \in Announced : /\ emitted'[m] \in Nat /\ Reached(m)' \in Nat
                              /\ emitted[m] <= Reached(m) => emitted'[m] <= Reached(m)'
                              /\ emitted[m] < Reached(m) => emitted'[m] < Reached(m)',
         raced => raced',
         MilestoneOf(Here') = MilestoneOf(Here)
           \/ \A m \in Announced : m = MilestoneOf(Here') /\ emitted[m] <= Reached(m)
                                     => emitted'[m] < Reached(m)'
  PROVE  VisitsInv'
<1> SUFFICES ASSUME ~raced' PROVE VisitsInv'
  BY DEF VisitsInv
<1>0. ~raced
  OBVIOUS
<1>1. \A p \in Pollers : InPoll(p)' = InPoll(p)
  BY DEF InPoll
<1>2. \A m \in Announced : emitted'[m] <= Reached(m)'
  BY <1>0 DEF VisitsInv
<1>3. \A c, seen : Unannounced(c, seen) => Unannounced(c, seen)'
  BY DEF Unannounced
<1>c. PICK c : c = MilestoneOf(Here')
  OBVIOUS
<1>4. ASSUME NEW seen, Unannounced(MilestoneOf(Here), seen) PROVE c \in Announced /\ c # seen => emitted'[c] < Reached(c)'
  <2>1. CASE c = MilestoneOf(Here)
    <3>1. emitted[c] < Reached(c) => emitted'[c] < Reached(c)' \/ c \notin Announced
      OBVIOUS
    <3> QED BY <1>4, <2>1, <3>1 DEF Unannounced
  <2>2. CASE \A m \in Announced : m = c /\ emitted[m] <= Reached(m) => emitted'[m] < Reached(m)'
    <3>1. \A m \in Announced : emitted[m] <= Reached(m)
      BY <1>0 DEF VisitsInv
    <3> QED BY <2>2, <3>1
  <2> QED BY <1>c, <2>1, <2>2
<1>5. Unannounced(MilestoneOf(Here), job.milestone)'
  <2>1. Unannounced(MilestoneOf(Here), job.milestone)
    BY <1>0 DEF VisitsInv
  <2>2. MilestoneOf(Here)' = c
    BY <1>c DEF MilestoneOf
  <2>3. c \in Announced /\ c # job.milestone => emitted'[c] < Reached(c)'
    BY <1>4, <2>1
  <2> QED BY <2>2, <2>3 DEF Unannounced
<1>6. ASSUME NEW p \in Pollers, poll[p].pc \in {"read", "commit"}
      PROVE  (/\ Unannounced(MilestoneOf(poll[p].track), job.milestone)
              /\ Unannounced(MilestoneOf(Here), MilestoneOf(poll[p].track)))'
  <2>1. /\ Unannounced(MilestoneOf(poll[p].track), job.milestone)
        /\ Unannounced(MilestoneOf(Here), MilestoneOf(poll[p].track))
    BY <1>0, <1>6 DEF VisitsInv
  <2>2. UNCHANGED poll /\ job'.milestone = job.milestone
    OBVIOUS
  <2>3. Unannounced(MilestoneOf(poll[p].track), job.milestone)'
    BY <1>3, <2>1, <2>2 DEF Unannounced
  <2>4. MilestoneOf(Here)' = c /\ MilestoneOf(poll[p].track)' = MilestoneOf(poll[p].track)
    BY <1>c, <2>2 DEF MilestoneOf
  <2>5. c \in Announced /\ c # MilestoneOf(poll[p].track) => emitted'[c] < Reached(c)'
    BY <1>4, <2>1
  <2>6. Unannounced(MilestoneOf(Here), MilestoneOf(poll[p].track))'
    <3> QED BY <2>4, <2>5 DEF Unannounced
  <2> QED BY <2>3, <2>6
<1>7. \A p \in Pollers : poll'[p].pc = "commit" => poll'[p].prev = job'.milestone
  BY <1>0 DEF VisitsInv
<1> QED BY <1>0, <1>1, <1>2, <1>5, <1>6, <1>7 DEF VisitsInv

LEMMA VisitsOutsideStep ==
  ASSUME Rows, Counts, Scanned, VisitsInv, UNCHANGED vars \/ Outside
  PROVE  VisitsInv'
<1>0. /\ job \in JobRow /\ job.waybill \in Parcels /\ NoWaybill \in Parcels
      /\ \A m \in Announced : /\ m \in Milestones /\ emitted[m] \in Nat /\ Reached(m) \in Nat
                              /\ \A w \in Parcels : visits[w][m] \in Nat
  BY CountsTyped DEF Rows, JobRow, Parcels
<1>1. ASSUME UNCHANGED <<poll, emitted, visits, courier>>, job'.milestone = job.milestone,
             job'.waybill = job.waybill, raced => raced'
      PROVE  VisitsInv'
  <2>1. Here' = Here /\ \A m \in Announced : Reached(m)' = Reached(m)
    BY <1>1 DEF Here, Reached
  <2> QED BY <1>0, <1>1, <2>1, VisitsOutside
<1>2. CASE EnsureJob
  <2>1. /\ UNCHANGED <<poll, emitted, visits, courier, raced>> /\ job = NoJob
        /\ job'.milestone = job.milestone /\ job'.waybill = order.waybill /\ order.waybill # NoWaybill
    BY <1>2 DEF EnsureJob, NewJob, NoJob
  <2> DEFINE w == order.waybill
  <2>2. w \in Parcels
    BY DEF Rows, OrderRow
  <2>3. \A m \in Announced : Reached(m) = visits[NoWaybill][m] /\ Reached(m)' = visits[NoWaybill][m] + visits[w][m]
    <3>1. job.waybill = NoWaybill
      BY <2>1 DEF NoJob
    <3> QED BY <1>0, <2>1, <3>1 DEF Reached
  <2>4. Here' = courier[w] /\ visits[w][MilestoneOf(courier[w])] >= 1
    BY <2>1, <2>2 DEF Here, Scanned
  <2>5. \A m \in Announced : visits[w][m] \in Nat /\ visits[NoWaybill][m] \in Nat
    BY <1>0, <2>2
  <2> HIDE DEF w
  <2>6. \A m \in Announced : m = MilestoneOf(Here') /\ emitted[m] <= Reached(m) => emitted'[m] < Reached(m)'
    <3> SUFFICES ASSUME NEW m \in Announced, m = MilestoneOf(Here'), emitted[m] <= Reached(m)
                 PROVE  emitted'[m] < Reached(m)'
      OBVIOUS
    <3>1. visits[w][m] >= 1
      BY <2>4
    <3> QED BY <1>0, <2>1, <2>3, <2>5, <3>1
  <2>7. \A m \in Announced : /\ emitted'[m] \in Nat /\ Reached(m)' \in Nat
                             /\ emitted[m] <= Reached(m) => emitted'[m] <= Reached(m)'
                             /\ emitted[m] < Reached(m) => emitted'[m] < Reached(m)'
    BY <1>0, <2>1, <2>3, <2>5
  <2> QED BY <2>1, <2>6, <2>7, VisitsOutside
<1>3. ASSUME NEW v \in Parcels, NEW s, courier' = [courier EXCEPT ![v] = s], Visit(v, MilestoneOf(s)),
             UNCHANGED <<poll, job, emitted>>, raced => raced', v # NoWaybill \/ v = job.waybill
      PROVE  VisitsInv'
  <2> DEFINE c == MilestoneOf(s)
  <2>1. c \in Milestones
    BY MilestoneTyped
  <2>2. /\ visits'[v][c] = visits[v][c] + 1 /\ \A n \in Milestones \ {c} : visits'[v][n] = visits[v][n]
        /\ \A w \in Parcels \ {v} : visits'[w] = visits[w]
    BY <1>3, <2>1, Visiting
  <2>3. CASE v = job.waybill
    <3>1. MilestoneOf(Here') = c
      BY <1>3, <2>3 DEF Here, Rows
    <3> HIDE DEF c
    <3>2. \A m \in Announced : Reached(m)' = IF m = c THEN Reached(m) + 1 ELSE Reached(m)
      <4>1. CASE v = NoWaybill
        BY <1>0, <1>3, <2>2, <2>3, <4>1 DEF Reached
      <4>2. CASE v # NoWaybill
        BY <1>0, <1>3, <2>2, <2>3, <4>2 DEF Reached
      <4> QED BY <4>1, <4>2
    <3>3. \A m \in Announced : /\ emitted'[m] \in Nat /\ Reached(m)' \in Nat
                               /\ emitted[m] <= Reached(m) => emitted'[m] <= Reached(m)'
                               /\ emitted[m] < Reached(m) => emitted'[m] < Reached(m)'
      BY <1>0, <1>3, <3>2
    <3>4. \A m \in Announced : m = MilestoneOf(Here') /\ emitted[m] <= Reached(m) => emitted'[m] < Reached(m)'
      BY <1>0, <1>3, <3>1, <3>2
    <3> QED BY <1>3, <3>3, <3>4, VisitsOutside
  <2>4. CASE v # job.waybill /\ v # NoWaybill
    <3>1. Here' = Here
      BY <1>0, <1>3, <2>4 DEF Here, Rows
    <3>2. \A m \in Announced : Reached(m)' = Reached(m)
      BY <1>0, <1>3, <2>2, <2>4 DEF Reached
    <3> QED BY <1>0, <1>3, <3>1, <3>2, VisitsOutside
  <2> QED BY <1>3, <2>3, <2>4
<1>4. CASE PudoLeg
  <2>1. UNCHANGED <<poll, job, emitted, raced>>
    BY <1>4 DEF PudoLeg
  <2>2. \/ UNCHANGED <<courier, visits>>
        \/ courier' = [courier EXCEPT ![job.waybill] = {"cancel"}] /\ Visit(job.waybill, "cancelled")
    <3>1. courier[job.waybill] = {"cancel"} => [courier EXCEPT ![job.waybill] = {"cancel"}] = courier
      BY DEF Rows
    <3> QED BY <1>4, <3>1 DEF PudoLeg, PudoAccepts, PudoRefuses
  <2> QED BY <1>0, <1>1, <1>3, <2>1, <2>2, CancelWord
<1>5. ASSUME NEW w \in Waybills, NEW s \in Statuses, CourierMoves(w, s) PROVE VisitsInv'
  <2>1. w \in Parcels /\ w # NoWaybill
    BY WaybillsAreReal DEF Parcels, NoWaybill
  <2> QED BY <1>3, <1>5, <2>1 DEF CourierMoves
<1>6. CASE ConfirmCollection
  <2>1. UNCHANGED <<poll, job, courier, raced>> /\ Visit(NoWaybill, "delivered")
    BY <1>6 DEF ConfirmCollection
  <2>2. /\ visits'[NoWaybill]["delivered"] = visits[NoWaybill]["delivered"] + 1
        /\ \A m \in Milestones \ {"delivered"} : visits'[NoWaybill][m] = visits[NoWaybill][m]
        /\ \A w \in Parcels \ {NoWaybill} : visits'[w] = visits[w]
    BY <1>0, <2>1, Visiting, MilestonesAre
  <2>3. /\ Reached("delivered")' = Reached("delivered") + 1
        /\ \A m \in Announced \ {"delivered"} : Reached(m)' = Reached(m)
    BY <1>0, <2>1, <2>2, MilestonesAre DEF Reached
  <2>4. /\ emitted'["delivered"] \in {emitted["delivered"], emitted["delivered"] + 1}
        /\ \A m \in Announced \ {"delivered"} : emitted'[m] = emitted[m]
    BY <1>0, <1>6, Counting, MilestonesAre DEF ConfirmCollection
  <2>5. \A m \in Announced : /\ emitted'[m] \in Nat /\ Reached(m)' \in Nat
                             /\ emitted[m] <= Reached(m) => emitted'[m] <= Reached(m)'
                             /\ emitted[m] < Reached(m) => emitted'[m] < Reached(m)'
    BY <1>0, <2>3, <2>4
  <2>6. Here' = Here
    BY <2>1 DEF Here
  <2> QED BY <2>1, <2>5, <2>6, VisitsOutside
<1>7. CASE UNCHANGED vars \/ CommitCancel \/ (\E pudo \in BOOLEAN : StartCancel(pudo))
           \/ (\E w \in Waybills : CompleteUpload(w)) \/ (\E f \in FulfillmentOrders : ClearKey(f))
  <2>1. UNCHANGED <<poll, emitted, visits, courier>>
    BY <1>7 DEF vars, CommitCancel, StartCancel, CompleteUpload, ClearKey
  <2>2. raced => raced'
    BY <1>7, Zenon DEF vars, CommitCancel, StartCancel, CompleteUpload, ClearKey
  <2>3. job'.milestone = job.milestone /\ job'.waybill = job.waybill
    <3>1. /\ [job EXCEPT !.status = "cancelled"].milestone = job.milestone
          /\ [job EXCEPT !.status = "cancelled"].waybill = job.waybill
      BY <1>0 DEF JobRow
    <3>2. UNCHANGED job \/ job' = [job EXCEPT !.status = "cancelled"]
      BY <1>7 DEF vars, CommitCancel, StartCancel, CompleteUpload, ClearKey
    <3> QED BY <3>1, <3>2
  <2> QED BY <1>1, <2>1, <2>2, <2>3
<1> QED BY <1>2, <1>4, <1>5, <1>6, <1>7, Zenon DEF Outside, CancelStep

LEMMA VisitsPollStep ==
  ASSUME Rows, Counts, VisitsInv, NEW p \in Pollers,
         Begin(p) \/ PollStep(p) \/ Mishap(p)
  PROVE  VisitsInv'
<1>0. /\ job \in JobRow /\ poll[p] \in PollRow
      /\ \A m \in Announced : m \in Milestones /\ emitted[m] \in Nat /\ Reached(m) \in Nat
  BY CountsTyped DEF Rows
<1>a. ASSUME UNCHANGED <<visits, courier>>, job'.waybill = job.waybill
      PROVE  /\ Here' = Here /\ MilestoneOf(Here)' = MilestoneOf(Here)
             /\ \A m \in Announced : Reached(m)' = Reached(m)
  BY <1>a DEF Here, Reached, MilestoneOf
<1>1. CASE Begin(p)
  <2> SUFFICES ASSUME ~raced' PROVE VisitsInv'
    BY DEF VisitsInv
  <2>1. ~raced /\ \A q \in Pollers : ~InPoll(q)
    BY <1>1, Zenon DEF Begin
  <2>2. UNCHANGED <<emitted, visits, courier, job>> /\ poll'[p].pc = "fetch"
        /\ \A q \in Pollers \ {p} : poll'[q] = poll[q]
    BY <1>1, GotoMoves DEF Begin, Label
  <2>3. \A q \in Pollers : poll'[q].pc \notin {"read", "commit"} /\ (InPoll(q)' => q = p)
    BY <2>1, <2>2 DEF InPoll
  <2>4. Unannounced(MilestoneOf(Here), job.milestone)'
    BY <1>a, <2>1, <2>2 DEF VisitsInv, Unannounced
  <2>5. \A m \in Announced : emitted'[m] <= Reached(m)'
    BY <1>a, <2>1, <2>2 DEF VisitsInv
  <2> QED BY <2>1, <2>3, <2>4, <2>5 DEF VisitsInv
<1>2. CASE Fetch(p)
  <2> SUFFICES ASSUME ~raced' PROVE VisitsInv'
    BY DEF VisitsInv
  <2>1. ~raced /\ UNCHANGED <<emitted, visits, courier, job>>
    BY <1>2 DEF Fetch
  <2>2. /\ poll'[p].pc = "read" /\ poll'[p].track = Here
        /\ \A q \in Pollers \ {p} : poll'[q] = poll[q]
    <3> DEFINE r == [poll[p] EXCEPT !.pc = "read", !.track = Here]
    <3>1. poll'[p] = r /\ \A q \in Pollers \ {p} : poll'[q] = poll[q]
      BY <1>2, PollMoves DEF Fetch, Here
    <3>2. r.pc = "read" /\ r.track = Here
      BY <1>0 DEF PollRow
    <3> HIDE DEF r
    <3> QED BY <3>1, <3>2
  <2>3. \A q \in Pollers : InPoll(q) => q = p
    BY <1>2, <2>1 DEF VisitsInv, Fetch, InPoll
  <2>4. \A q \in Pollers : (InPoll(q)' => q = p) /\ (poll'[q].pc \in {"read", "commit"} => q = p)
    BY <2>2, <2>3 DEF InPoll
  <2>5. Unannounced(MilestoneOf(Here), job.milestone)'
    BY <1>a, <2>1 DEF VisitsInv, Unannounced
  <2>6. MilestoneOf(poll[p].track)' = MilestoneOf(Here)'
    BY <1>a, <2>1, <2>2 DEF MilestoneOf
  <2>7. \A m \in Announced : emitted'[m] <= Reached(m)'
    BY <1>a, <2>1 DEF VisitsInv
  <2> QED BY <2>1, <2>2, <2>4, <2>5, <2>6, <2>7 DEF VisitsInv, Unannounced
<1>3. CASE ReadPrevious(p)
  <2> SUFFICES ASSUME ~raced' PROVE VisitsInv'
    BY DEF VisitsInv
  <2>1. ~raced /\ UNCHANGED <<emitted, visits, courier, job>> /\ poll[p].pc = "read"
    BY <1>3 DEF ReadPrevious
  <2>2. /\ poll'[p].pc = "commit" /\ poll'[p].prev = job.milestone /\ poll'[p].track = poll[p].track
        /\ \A q \in Pollers \ {p} : poll'[q] = poll[q]
    <3> DEFINE r == [poll[p] EXCEPT !.pc = "commit", !.prev = job.milestone]
    <3>1. poll'[p] = r /\ \A q \in Pollers \ {p} : poll'[q] = poll[q]
      BY <1>3, PollMoves DEF ReadPrevious
    <3>2. r.pc = "commit" /\ r.prev = job.milestone /\ r.track = poll[p].track
      BY <1>0 DEF PollRow
    <3> HIDE DEF r
    <3> QED BY <3>1, <3>2
  <2>3. \A q \in Pollers : InPoll(q) => q = p
    BY <2>1 DEF VisitsInv, InPoll
  <2>4. \A q \in Pollers : (InPoll(q)' => q = p) /\ (poll'[q].pc \in {"read", "commit"} => q = p)
    BY <2>2, <2>3 DEF InPoll
  <2>5. /\ Unannounced(MilestoneOf(Here), job.milestone)
        /\ Unannounced(MilestoneOf(poll[p].track), job.milestone)
        /\ Unannounced(MilestoneOf(Here), MilestoneOf(poll[p].track))
    BY <2>1 DEF VisitsInv
  <2>6. MilestoneOf(poll[p].track)' = MilestoneOf(poll[p].track)
    BY <2>2 DEF MilestoneOf
  <2>7. MilestoneOf(Here)' = MilestoneOf(Here) /\ \A m \in Announced : Reached(m)' = Reached(m)
    BY <1>a, <2>1
  <2>8. (/\ Unannounced(MilestoneOf(Here), job.milestone)
         /\ Unannounced(MilestoneOf(poll[p].track), job.milestone)
         /\ Unannounced(MilestoneOf(Here), MilestoneOf(poll[p].track)))'
    BY <2>1, <2>5, <2>6, <2>7 DEF Unannounced
  <2>9. \A m \in Announced : emitted'[m] <= Reached(m)'
    BY <2>1, <2>7 DEF VisitsInv
  <2> QED BY <2>1, <2>2, <2>4, <2>8, <2>9 DEF VisitsInv
<1>4. CASE CommitMilestone(p)
  <2> DEFINE m == MilestoneOf(poll[p].track)
             r == [poll[p] EXCEPT !.pc = IF m = "in_transit" THEN "check" ELSE "end", !.prev = "null"]
  <2> SUFFICES ASSUME ~raced' PROVE VisitsInv'
    BY DEF VisitsInv
  <2>1. /\ poll[p].pc = "commit" /\ job' = [job EXCEPT !.milestone = m] /\ Set(p, r) /\ ~raced
        /\ IF Changed(p, m) /\ m \in Announced THEN Emit(m) ELSE UNCHANGED emitted
        /\ UNCHANGED <<courier, visits>>
    BY <1>4 DEF CommitMilestone
  <2>2. /\ poll[p].prev = job.milestone
        /\ Unannounced(m, job.milestone) /\ Unannounced(MilestoneOf(Here), m)
        /\ \A q \in Pollers : InPoll(q) => q = p
        /\ \A n \in Announced : emitted[n] <= Reached(n)
    BY <2>1 DEF VisitsInv, InPoll
  <2>3. m \in Milestones
    BY MilestoneTyped
  <2>4. r.pc \notin {"read", "commit"}
    <3> HIDE DEF m
    <3> QED BY <1>0 DEF PollRow
  <2>5. poll'[p] = r /\ \A q \in Pollers \ {p} : poll'[q] = poll[q]
    BY <2>1, PollMoves
  <2> HIDE DEF m, r
  <2>6. \A q \in Pollers : (InPoll(q)' => q = p) /\ poll'[q].pc \notin {"read", "commit"}
    BY <2>2, <2>4, <2>5 DEF InPoll
  <2>7. job'.milestone = m /\ job'.waybill = job.waybill
    BY <1>0, <2>1 DEF JobRow
  <2>8. \A n \in Announced : emitted'[n] <= Reached(n) /\ (n # m => emitted'[n] = emitted[n])
    <3>1. CASE Changed(p, m) /\ m \in Announced
      <4>1. emitted[m] < Reached(m)
        BY <2>2, <3>1 DEF Changed, Unannounced
      <4>2. emitted'[m] = emitted[m] + 1 /\ \A n \in Announced \ {m} : emitted'[n] = emitted[n]
        BY <2>1, <3>1, Counting
      <4> QED BY <1>0, <2>2, <4>1, <4>2
    <3>2. CASE ~(Changed(p, m) /\ m \in Announced)
      BY <2>1, <2>2, <3>2
    <3> QED BY <3>1, <3>2
  <2>9. MilestoneOf(Here)' = MilestoneOf(Here) /\ \A n \in Announced : Reached(n)' = Reached(n)
    BY <1>a, <2>1, <2>7
  <2>10. Unannounced(MilestoneOf(Here), job.milestone)'
    BY <2>2, <2>7, <2>8, <2>9 DEF Unannounced
  <2>11. \A n \in Announced : emitted'[n] <= Reached(n)'
    BY <2>8, <2>9
  <2> QED BY <2>1, <2>6, <2>10, <2>11 DEF VisitsInv
<1>5. ASSUME UNCHANGED <<emitted, visits, courier, raced, job>>, InPoll(p),
             (\E l \in Label \ {"read", "commit"} : Goto(p, l) \/ Leave(p, l))
               \/ \E r : Set(p, r) /\ r.pc \notin {"read", "commit"}
      PROVE  VisitsInv'
  <2>1. poll'[p].pc \notin {"read", "commit"} /\ \A q \in Pollers \ {p} : poll'[q] = poll[q]
    BY <1>5, GotoMoves, PollMoves
  <2> QED BY <1>5, <2>1, VisitsFrame
<1>6. CASE CheckFulfilled(p) \/ Undecipherable(p) \/ ClaimKey(p) \/ TakeOver(p) \/ Create(p) \/ CreateFails(p)
           \/ PersistFulfilled(p) \/ Fail(p) \/ Crash(p)
  <2>1. UNCHANGED <<emitted, visits, courier, raced, job>> /\ InPoll(p)
    BY <1>6 DEF CheckFulfilled, Undecipherable, ClaimKey, TakeOver, Create, CreateFails, PersistFulfilled, Fail, Crash,
                InPoll
  <2>2. \A f \in FulfillmentOrders : [poll[p] EXCEPT !.pc = "claim", !.fo = f].pc = "claim"
    BY <1>0 DEF PollRow
  <2>3. (\E l \in Label \ {"read", "commit"} : Goto(p, l) \/ Leave(p, l))
          \/ \E r : Set(p, r) /\ r.pc \notin {"read", "commit"}
    <3>1. CASE \E l \in {"end", "persist", "create"} : Goto(p, l) \/ Leave(p, l)
      BY <3>1 DEF Label
    <3>2. CASE \E f \in FulfillmentOrders : Set(p, [poll[p] EXCEPT !.pc = "claim", !.fo = f])
      BY <2>2, <3>2
    <3>3. CASE Set(p, Idle)
      BY <3>3 DEF Idle
    <3> QED BY <1>6, <3>1, <3>2, <3>3 DEF CheckFulfilled, Undecipherable, ClaimKey, TakeOver, Create, CreateFails,
                                          PersistFulfilled, Fail, Crash
  <2> QED BY <1>5, <2>1, <2>3
<1>7. CASE Finish(p)
  <2>1. UNCHANGED <<emitted, visits, courier, raced>> /\ InPoll(p) /\ Set(p, Idle)
    BY <1>7 DEF Finish, InPoll
  <2>2. job'.milestone = job.milestone /\ job'.waybill = job.waybill
    BY <1>0, <1>7 DEF Finish, JobRow
  <2>3. poll'[p].pc = "idle" /\ \A q \in Pollers \ {p} : poll'[q] = poll[q]
    BY <2>1, PollMoves DEF Idle
  <2> QED BY <2>1, <2>2, <2>3, VisitsFrame
<1> QED BY <1>1, <1>2, <1>3, <1>4, <1>6, <1>7 DEF PollStep, Mishap

LEMMA VisitsStep == TypeOK /\ Scanned /\ VisitsInv /\ [Next]_vars => VisitsInv'
<1> SUFFICES ASSUME Rows, Counts, Scanned, VisitsInv, [Next]_vars PROVE VisitsInv'
  BY TypeOKSplits
<1> QED BY VisitsOutsideStep, VisitsPollStep, NextSplits

-----------------------------------------------------------------------------
LEMMA TypeHolds == Spec => []TypeOK
  BY TypeInit, TypeStep, PTL DEF Spec

\* No order shows a milestone that was not announced, however the polls
\* overlap, fail and crash.
THEOREM ShownIsAnnouncedHolds == Spec => []ShownIsAnnounced
<1>1. AnnouncedInv => ShownIsAnnounced
  BY DEF AnnouncedInv
<1> QED BY <1>1, AnnouncedInit, AnnouncedStep, TypeHolds, PTL DEF Spec

\* A milestone is announced at most once per visit of the parcel that is polled, as long
\* as no poll or cancel meets a poll under way.
THEOREM OncePerVisitHolds == Spec => []OncePerVisit
<1>1. VisitsInv => OncePerVisit
  BY DEF VisitsInv, OncePerVisit
<1>2. Spec => []Scanned
  BY ScannedInit, ScannedStep, TypeHolds, PTL DEF Spec
<1> QED BY <1>1, <1>2, VisitsInit, VisitsStep, TypeHolds, PTL DEF Spec

\* At most one fulfillment of each of Shopify's fulfillment orders, and one more for each
\* call whose answer was lost or late and each time its key was cleared.
THEOREM FulfilledOnceHolds == Spec => []FulfilledOnce
<1>1. TypeOK /\ CreatedInv => FulfilledOnce
  <2> SUFFICES ASSUME Counts, CreatedInv, NEW f \in FulfillmentOrders PROVE created[f] <= 1 + excuses[f]
    BY TypeOKSplits DEF FulfilledOnce
  <2>1. created[f] \in Nat /\ excuses[f] \in Nat /\ Cardinality(Makers(f)) \in Nat /\ Held(f) \in {0, 1}
    BY MakersFinite DEF Counts, Held
  <2> QED BY <2>1 DEF CreatedInv
<1> QED BY <1>1, CreatedInit, CreatedStep, TypeHolds, PTL DEF Spec
=============================================================================
