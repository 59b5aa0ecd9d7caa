------------------------------- MODULE Packers -------------------------------
(***************************************************************************)
(* The independent packers of one tenant: src/packerAuth/assigner.ts, with *)
(* the routes that pause, unlink, rate and pack.  The pipeline picks a     *)
(* packer when it builds the payload and stamps the order when the courier *)
(* accepted it; a packer may decline, which hands the order on.            *)
(***************************************************************************)
EXTENDS Integers, Sequences, FiniteSets, SequencesExt, FiniteSetsExt

CONSTANTS
    Packers,    \* the packers that have a link with the tenant
    Orders,
    Requests,   \* declines and ratings under way at the same time
    Modes,      \* the assignment modes the tenant switches between
    FirstMode, FirstWeight, \* the settings the tenant starts with
    Weights,    \* load weights the tenant sets
    Scores,     \* the score of a rating
    Leg,        \* Leg[o]: the order is handed over at a "locker" or a "door"
    FirstPoints, \* the collection points the packers start with
    Nobody,
    MaxAssigns, \* bound: entries of all histories below which a choice, and up to which a decline, begins
    MaxMoves    \* bound: declines, ratings, packing, deliveries and changes by the tenant

ASSUME PackersAssumption ==
    /\ Nobody \notin Packers /\ "idle" \notin Packers \cup {Nobody}
    /\ IsFiniteSet(Orders)
    /\ Leg \in [Orders -> {"locker", "door"}]
    /\ FirstPoints \in [Packers -> SUBSET {"locker", "door"}]
    /\ FirstMode \in Modes /\ FirstWeight \in [Packers -> Weights]
    /\ Weights \subseteq 1..10 /\ Scores \subseteq 1..5
    /\ MaxAssigns \in Nat /\ MaxMoves \in Nat

VARIABLES
    mode,     \* tenant_collection_settings.packer_assignment_mode
    points,   \* packers: the collection points in their profiles
    links,    \* packer_tenant_links: status, weight and orders_assigned_count
    recent,   \* the packers in the order of last_assigned_at, never assigned ones left out
    orders,   \* orders: id, packer, history, packing_status, delivered
    picks,    \* the packer the pipeline's job of an order carries in its payload
    ratings,  \* packer_ratings: order -> packer -> score, 0 for no row
    reqs,     \* what each request has read so far
    moves,    \* moves so far
    stale,    \* a decline has written over what had changed since it was read
    abandoned   \* open assignments of orders that a reprocess has deleted, by packer

vars == <<mode, points, links, recent, orders, picks, ratings, reqs, moves, stale, abandoned>>

Move == moves < MaxMoves /\ moves' = moves + 1

Idle == [kind |-> "idle"]
\* No row; the next one will have the id n.
Absent(n) == [id |-> n, packer |-> Nobody, history |-> <<>>, packing |-> "none", delivered |-> FALSE]
Exists(o) == orders[o].packing # "none"

OpenEntry(p) == [packer |-> p, open |-> TRUE]

(* -------------------------------- ranking ------------------------------- *)

\* The mean of a packer's ratings as a fraction; no rating counts as 4.0.
RatedOrders(p) == {o \in Orders : ratings[o][p] # 0}
Mean(p) == IF RatedOrders(p) = {} THEN <<4, 1>>
           ELSE <<MapThenSumSet(LAMBDA o : ratings[o][p], RatedOrders(p)),
                  Cardinality(RatedOrders(p))>>

\* effectiveLoadWeight in quarters: the weight scaled by rating / 4.0, at least a quarter of it.
EffectiveWeight(weight, mean) ==
    <<Max({weight * mean[1], weight * mean[2]}), mean[2]>>

\* count / effective weight of p is at most that of q.
Share(p, q) == LET ep == EffectiveWeight(links[p].weight, Mean(p))
                   eq == EffectiveWeight(links[q].weight, Mean(q))
               IN links[p].count * ep[2] * eq[1]
MoreLoaded(p, q) == Share(p, q) >= Share(q, p)
NoMoreLoaded(p, q) == Share(p, q) <= Share(q, p)

\* The order of the rows the database returns: never assigned first, then the oldest.
AssignedBefore(p, q) ==
    \/ p \notin ToSet(recent)
    \/ q \in ToSet(recent) /\ IndexFirstSubSeq(<<p>>, recent) <= IndexFirstSubSeq(<<q>>, recent)

Candidates(excluded) ==
    {p \in Packers : /\ links[p].status = "active" /\ links[p].weight > 0
                     /\ points[p] # {} /\ p \notin excluded}

\* The first candidates: several only when the rows tie in everything.
First(excluded) ==
    {p \in Candidates(excluded) : \A q \in Candidates(excluded) :
        NoMoreLoaded(p, q) /\ (NoMoreLoaded(q, p) => AssignedBefore(p, q))}

Assigns == mode \in {"independents_only", "split_evenly"}
Selected(excluded) ==
    IF Assigns /\ Candidates(excluded) # {} THEN First(excluded) ELSE {Nobody}

(* ------------------------------- assignment ----------------------------- *)

Entries == MapThenSumSet(LAMBDA o : Len(orders[o].history), Orders)

\* PAYLOAD_CREATED: the first candidate, dropped when it has no point for this handover.
Fits(p, o) == p # Nobody /\ Leg[o] \in points[p]
SelectPacker(o) ==
    /\ picks[o] = "idle" /\ Entries < MaxAssigns
    /\ \E p \in Selected({}) : picks' = [picks EXCEPT ![o] = IF Fits(p, o) THEN p ELSE Nobody]
    /\ UNCHANGED <<mode, points, links, recent, orders, ratings, reqs, moves, stale, abandoned>>

\* A link that takes an order: counter and last_assigned_at.
Counted(p, n) == [links EXCEPT ![p].count = @ + n]
Latest(p) == Append(SelectSeq(recent, LAMBDA q : q # p), p)

AppendEntry(history, p) == Append(history, OpenEntry(p))

\* COURIER_SUBMITTED: the order's row, its assignment and the counter in one transaction.
CommitAssignment(o) ==
    /\ picks[o] # "idle"
    /\ picks' = [picks EXCEPT ![o] = "idle"]
    /\ LET row == [orders[o] EXCEPT !.packing = IF @ = "none" THEN "awaiting_packing" ELSE @]
       IN IF picks[o] = Nobody
          THEN /\ orders' = [orders EXCEPT ![o] = row]
               /\ UNCHANGED <<links, recent>>
          ELSE /\ orders' = [orders EXCEPT ![o] = [row EXCEPT !.packer = picks[o],
                                 !.history = AppendEntry(@, picks[o])]]
               /\ links' = Counted(picks[o], 1)
               /\ recent' = Latest(picks[o])
    /\ UNCHANGED <<mode, points, ratings, reqs, moves, stale, abandoned>>

\* The submission fails: nothing was written, no slot of the packer is used.
SubmissionFails(o) ==
    /\ picks[o] # "idle"
    /\ picks' = [picks EXCEPT ![o] = "idle"]
    /\ UNCHANGED <<mode, points, links, recent, orders, ratings, reqs, moves, stale, abandoned>>

(* -------------------------------- declining ----------------------------- *)

\* The assigned packer declines; everything the transaction writes is read before it.
ReadOrder(r, o) ==
    /\ reqs[r] = Idle /\ orders[o].packer # Nobody /\ Entries <= MaxAssigns /\ Move
    /\ reqs' = [reqs EXCEPT ![r] = [kind |-> "order", order |-> o, id |-> orders[o].id,
                                    packer |-> orders[o].packer, history |-> orders[o].history]]
    /\ UNCHANGED <<mode, points, links, recent, orders, picks, ratings, stale, abandoned>>

ReadLink(r) ==
    /\ reqs[r].kind = "order"
    /\ reqs' = [reqs EXCEPT ![r] = [kind |-> "link", order |-> @.order, id |-> @.id, packer |-> @.packer,
                                    history |-> @.history, count |-> links[@.packer].count]]
    /\ UNCHANGED <<mode, points, links, recent, orders, picks, ratings, moves, stale, abandoned>>

PickReplacement(r) ==
    /\ reqs[r].kind = "link"
    /\ \E p \in Selected({reqs[r].packer}) :
         reqs' = [reqs EXCEPT ![r] = [kind |-> "pick", order |-> @.order, id |-> @.id,
                                      packer |-> @.packer, history |-> @.history, count |-> @.count, next |-> p]]
    /\ UNCHANGED <<mode, points, links, recent, orders, picks, ratings, moves, stale, abandoned>>

Closed(history) ==
    IF history # <<>> THEN [history EXCEPT ![Len(history)].open = FALSE] ELSE history

\* The rejecter's counter, written as the value read minus one.
DecrementedNever(ls, p, read) == ls
Decremented(ls, p, read) == IF read > 0 THEN [ls EXCEPT ![p].count = Max({0, read - 1})] ELSE ls

\* The row a request has read is still there.
Stands(d) == orders[d.order].id = d.id

\* The order's row as the decline found it, or none; the links whichever it is.
CommitDecline(r) ==
    /\ reqs[r].kind = "pick"
    /\ LET d == reqs[r]
           handed == d.next # Nobody
           history == IF handed THEN AppendEntry(Closed(d.history), d.next) ELSE Closed(d.history)
       IN /\ orders' = IF Stands(d)
                       THEN [orders EXCEPT ![d.order].packer = d.next, ![d.order].history = history]
                       ELSE orders
          /\ links' = Decremented(IF handed THEN Counted(d.next, 1) ELSE links, d.packer, d.count)
          /\ recent' = IF handed THEN Latest(d.next) ELSE recent
          /\ stale' = (stale \/ ~Stands(d) \/ d.history # orders[d.order].history
                             \/ d.count # links[d.packer].count)
    /\ reqs' = [reqs EXCEPT ![r] = Idle]
    /\ UNCHANGED <<mode, points, picks, ratings, moves, abandoned>>

(* --------------------------- packing and rating ------------------------- *)

\* mark-packed, mark-dropped-off and revert by the tenant: no status is asked for.
SetPacking(o, status) ==
    /\ Move /\ Exists(o)
    /\ orders' = [orders EXCEPT ![o].packing = status]
    /\ UNCHANGED <<mode, points, links, recent, picks, ratings, reqs, stale, abandoned>>

\* The same by the assigned packer, who may also complete a manual upload.
PackerPacks(o, p, status) == orders[o].packer = p /\ SetPacking(o, status)
PackerUploads(o, p) == orders[o].packer = p /\ SetPacking(o, "awaiting_packing")

\* The courier delivers, or the customer collects and the packer confirms it.
Deliver(o) ==
    /\ Move /\ Exists(o)
    /\ orders' = [orders EXCEPT ![o].delivered = TRUE]
    /\ UNCHANGED <<mode, points, links, recent, picks, ratings, reqs, stale, abandoned>>
PackerConfirms(o, p) == orders[o].packer = p /\ Deliver(o)

Handled(o, p) == orders[o].packer = p \/ OpenEntry(p) \in ToSet(orders[o].history)
Complete(o) == orders[o].packing = "dropped_off" \/ orders[o].delivered
Ratable(o, p) == Handled(o, p) /\ Complete(o)

ReadForRating(r, o, p) ==
    /\ reqs[r] = Idle /\ Ratable(o, p) /\ Move
    /\ \E s \in Scores : reqs' = [reqs EXCEPT ![r] = [kind |-> "rate", order |-> o, id |-> orders[o].id,
                                                      packer |-> p, score |-> s]]
    /\ UNCHANGED <<mode, points, links, recent, orders, picks, ratings, stale, abandoned>>

\* A row of ratings needs its order's row.
SaveRating(r) ==
    /\ reqs[r].kind = "rate"
    /\ ratings' = IF Stands(reqs[r])
                  THEN [ratings EXCEPT ![reqs[r].order][reqs[r].packer] = reqs[r].score] ELSE ratings
    /\ reqs' = [reqs EXCEPT ![r] = Idle]
    /\ UNCHANGED <<mode, points, links, recent, orders, picks, moves, stale, abandoned>>

(* ------------------------------ reprocessing ---------------------------- *)

OpenIn(o, p) == {<<o, i>> : i \in {j \in DOMAIN orders[o].history : orders[o].history[j] = OpenEntry(p)}}

\* reprocess, and a corrected address: the order's row is deleted, its ratings with it, and
\* the pipeline runs again.  The links of its packers are left as they are.
Reprocess(o) ==
    /\ Move /\ Exists(o)
    /\ orders' = [orders EXCEPT ![o] = Absent(@.id + 1)]
    /\ ratings' = [ratings EXCEPT ![o] = [p \in Packers |-> 0]]
    /\ abandoned' = [p \in Packers |-> abandoned[p] + Cardinality(OpenIn(o, p))]
    /\ UNCHANGED <<mode, points, links, recent, picks, reqs, stale>>

(* ---------------------- the tenant and the profiles --------------------- *)

Administers == Move /\ UNCHANGED <<recent, orders, picks, ratings, reqs, stale, abandoned>>

\* PUT /packers/links/:id asks nothing of the link's present status.
UpdateLink(p) ==
    /\ Administers
    /\ \E status \in {"active", "paused"}, weight \in Weights :
         links' = [links EXCEPT ![p].status = status, ![p].weight = weight]
    /\ UNCHANGED <<mode, points>>

Unlink(p) ==
    /\ Administers /\ links[p].status # "kicked"
    /\ links' = [links EXCEPT ![p].status = "kicked"]
    /\ UNCHANGED <<mode, points>>

\* An invite of a packer whose link exists already.
Relink(p) ==
    /\ Administers
    /\ \E weight \in Weights : links' = [links EXCEPT ![p].status = "active", ![p].weight = weight]
    /\ UNCHANGED <<mode, points>>

SetMode == Administers /\ mode' \in Modes \ {mode} /\ UNCHANGED <<points, links>>

\* PUT /packer-auth/profile: a type clears the other point, a later edit may set it again.
EditProfile(p) ==
    /\ Administers
    /\ \E ps \in SUBSET {"locker", "door"} : points' = [points EXCEPT ![p] = ps]
    /\ UNCHANGED <<mode, links>>

(* ----------------------------- specification ---------------------------- *)

Init ==
    /\ mode = FirstMode
    /\ links = [p \in Packers |-> [status |-> "active", weight |-> FirstWeight[p], count |-> 0]]
    /\ points = FirstPoints
    /\ recent = <<>>
    /\ orders = [o \in Orders |-> Absent(0)]
    /\ picks = [o \in Orders |-> "idle"]
    /\ ratings = [o \in Orders |-> [p \in Packers |-> 0]]
    /\ reqs = [r \in Requests |-> Idle]
    /\ moves = 0 /\ stale = FALSE /\ abandoned = [p \in Packers |-> 0]

Next ==
    \/ \E o \in Orders :
        \/ SelectPacker(o) \/ CommitAssignment(o) \/ SubmissionFails(o)
        \/ \E status \in {"awaiting_packing", "packed", "dropped_off"} :
             SetPacking(o, status) \/ \E p \in Packers : PackerPacks(o, p, status)
        \/ \E p \in Packers : PackerUploads(o, p) \/ PackerConfirms(o, p)
        \/ Deliver(o) \/ Reprocess(o)
    \/ \E r \in Requests :
        \/ \E o \in Orders : ReadOrder(r, o)
        \/ ReadLink(r) \/ PickReplacement(r) \/ CommitDecline(r)
        \/ \E o \in Orders, p \in Packers : ReadForRating(r, o, p)
        \/ SaveRating(r)
    \/ \E p \in Packers : UpdateLink(p) \/ Unlink(p) \/ Relink(p) \/ EditProfile(p)
    \/ SetMode

Spec == Init /\ [][Next]_vars

(* ------------------------------ properties ------------------------------ *)

\* A link's counter is the number of its packer's assignments that were not declined, the
\* ones of orders a reprocess has deleted among them, as long as no decline has written over
\* a change it had not seen.
OpenAssignments(p) == UNION {OpenIn(o, p) : o \in Orders}
CountsAreOpenAssignments ==
    ~stale => \A p \in Packers : links[p].count = Cardinality(OpenAssignments(p)) + abandoned[p]

\* While weights, ratings and links stand and nobody declines, no packer is ahead of its
\* weight's share by more than the submissions that can choose at the same time.
Undisturbed ==
    /\ moves = 0 /\ Assigns /\ \A p \in Packers : RatedOrders(p) = {}
    /\ \A o \in Orders : \A i \in 1..Len(orders[o].history) : orders[o].history[i].open
LoadShared ==
    Undisturbed => \A p, q \in Packers : points[q] # {} =>
        (links[p].count - Cardinality(Orders)) * links[q].weight <= links[q].count * links[p].weight

=============================================================================
