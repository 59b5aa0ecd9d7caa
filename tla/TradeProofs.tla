----------------------------- MODULE TradeProofs -----------------------------
(***************************************************************************)
(* Proofs about who packs and who buys, for any number of packers, orders, *)
(* customers, overlapping requests and passes: the assignment of orders    *)
(* with its counters, the invites and the digests of the packers (Packing, *)
(* through Packers and its two instances), the order counts of customers   *)
(* and the campaigns that win them back (through the instances of          *)
(* Business).  What each inductive invariant adds to the property stands   *)
(* at the head of its part.                                                *)
(***************************************************************************)
EXTENDS Packing, Business, FiniteSetTheorems, TLAPS

-----------------------------------------------------------------------------
(* How packers are assigned.  A counter is what the histories say because  *)
(* a decline that writes over nothing has read the history and the counter *)
(* as they still are, and takes back the entry that is the last.           *)

Entry == [packer : Packers, open : BOOLEAN]
LinkRow == [status : {"active", "paused", "kicked"}, weight : Weights, count : Nat]
OrderRow == [id : Nat, packer : Packers \cup {Nobody}, history : Seq(Entry),
             packing : {"none", "awaiting_packing", "packed", "dropped_off"}, delivered : BOOLEAN]

\* What a request has read, by how far it has come.
Ordering == [kind : {"order"}, order : Orders, id : Nat, packer : Packers, history : Seq(Entry)]
Linking == [kind : {"link"}, order : Orders, id : Nat, packer : Packers, history : Seq(Entry), count : Nat]
Choosing == [kind : {"pick"}, order : Orders, id : Nat, packer : Packers, history : Seq(Entry), count : Nat,
             next : Packers \cup {Nobody}]
Scoring == [kind : {"rate"}, order : Orders, id : Nat, packer : Packers, score : Scores]
Asked == {Idle} \cup Ordering \cup Linking \cup Choosing \cup Scoring
Declining == {"order", "link", "pick"}

AssignTyped ==
    /\ mode \in Modes /\ points \in [Packers -> SUBSET {"locker", "door"}]
    /\ links \in [Packers -> LinkRow]
    /\ orders \in [Orders -> OrderRow]
    /\ picks \in [Orders -> Packers \cup {Nobody, "idle"}]
    /\ ratings \in [Orders -> [Packers -> 0..5]]
    /\ reqs \in [Requests -> Asked]
    /\ moves \in Nat /\ stale \in BOOLEAN /\ abandoned \in [Packers -> Nat]

\* The entries of a packer that were not declined, in the orders os.
Open(os, p) == {e \in Orders \X Nat : e[2] \in DOMAIN os[e[1]].history /\ os[e[1]].history[e[2]] = OpenEntry(p)}
Tallied(ls, os, left) ==
    \A p \in Packers : IsFiniteSet(Open(os, p)) /\ ls[p].count = Cardinality(Open(os, p)) + left[p]

EndsWith(history, p) == history # <<>> /\ history[Len(history)] = OpenEntry(p)

TallyInv ==
    /\ \A r \in Requests : reqs[r].kind = "pick" => reqs[r].next # reqs[r].packer
    /\ ~stale => /\ Tallied(links, orders, abandoned)
                 /\ \A o \in Orders : orders[o].packer # Nobody => EndsWith(orders[o].history, orders[o].packer)
                 /\ \A r \in Requests : reqs[r].kind \in Declining => EndsWith(reqs[r].history, reqs[r].packer)

\* Submissions under way that carry a packer.
Carrying(p) == {o \in Orders : picks[o] = p}

\* Before anything else moves, the packer chosen was the least loaded for its weight.
Calm ==
    /\ mode = FirstMode /\ points = FirstPoints
    /\ \A p \in Packers : links[p].status = "active" /\ links[p].weight = FirstWeight[p]
    /\ \A o \in Orders, p \in Packers : ratings[o][p] = 0
    /\ \A r \in Requests : reqs[r] = Idle
LoadInv ==
    moves = 0 => /\ Calm
                 /\ Assigns => \A p, q \in Packers : points[q] # {} =>
                      (links[p].count + Cardinality(Carrying(p)) - Cardinality(Orders)) * links[q].weight
                        <= links[q].count * links[p].weight

AssignInv == AssignTyped /\ TallyInv /\ LoadInv

LEMMA AskedKinds ==
    ASSUME NEW q \in Asked
    PROVE  /\ q.kind = "order" => q \in Ordering
           /\ q.kind = "link" => q \in Linking
           /\ q.kind = "pick" => q \in Choosing
           /\ q.kind = "rate" => q \in Scoring
  BY DEF Asked, Idle, Ordering, Linking, Choosing, Scoring

LEMMA NoKind == Idle \in Asked /\ Idle.kind = "idle" /\ "idle" \notin Packers \cup {Nobody} /\ Nobody \notin Packers
  BY PackersAssumption DEF Asked, Idle

LEMMA PositiveWeights == \A p \in Packers : FirstWeight[p] \in Nat \ {0}
<1>1. FirstWeight \in [Packers -> Weights] /\ Weights \subseteq 1..10
  BY PackersAssumption
<1>2. 1..10 \subseteq Nat \ {0}
  OBVIOUS
<1> QED BY <1>1, <1>2

LEMMA LinkNumbers ==
    ASSUME AssignTyped
    PROVE  /\ \A p \in Packers : links[p].count \in Nat /\ links[p].weight \in Nat
           /\ \A p, q \in Packers : links[q].count * links[p].weight \in Int
<1>1. Weights \subseteq Nat
  <2>1. Weights \subseteq 1..10 /\ 1..10 \subseteq Nat
    BY PackersAssumption
  <2> QED BY <2>1
<1>2. \A p \in Packers : links[p].count \in Nat /\ links[p].weight \in Nat
  BY <1>1 DEF AssignTyped, LinkRow
<1> QED BY <1>2

LEMMA OpenIs == ASSUME AssignTyped, NEW p \in Packers PROVE OpenAssignments(p) = Open(orders, p)
<1>1. \A o \in Orders : DOMAIN orders[o].history \subseteq Nat
  BY DEF AssignTyped, OrderRow
<1>2. ASSUME NEW e \in OpenAssignments(p) PROVE e \in Open(orders, p)
  <2>1. PICK o \in Orders : e \in OpenIn(o, p)
    BY <1>2 DEF OpenAssignments
  <2>2. PICK i \in DOMAIN orders[o].history : orders[o].history[i] = OpenEntry(p) /\ e = <<o, i>>
    BY <2>1 DEF OpenIn
  <2> QED BY <1>1, <2>2 DEF Open
<1>3. ASSUME NEW e \in Open(orders, p) PROVE e \in OpenAssignments(p)
  <2>1. PICK o \in Orders, i \in Nat : e = <<o, i>> /\ i \in DOMAIN orders[o].history /\ orders[o].history[i] = OpenEntry(p)
    BY <1>3 DEF Open
  <2>2. e \in OpenIn(o, p)
    BY <2>1 DEF OpenIn
  <2> QED BY <2>2 DEF OpenAssignments
<1> QED BY <1>2, <1>3

\* What an entry more, and one that is closed, do to the tally.
Histories(os) == \A o \in Orders : os[o].history \in Seq(Entry)

LEMMA OpenEntries == \A p \in Packers : OpenEntry(p) \in Entry /\ \A q \in Packers : OpenEntry(p) = OpenEntry(q) => p = q
<1> SUFFICES ASSUME NEW p \in Packers PROVE OpenEntry(p) \in Entry /\ \A q \in Packers : OpenEntry(p) = OpenEntry(q) => p = q
  OBVIOUS
<1>1. OpenEntry(p).packer = p /\ OpenEntry(p) \in Entry /\ \A q \in Packers : OpenEntry(q).packer = q
  BY DEF OpenEntry, Entry
<1> QED BY <1>1

LEMMA InOpen ==
    ASSUME NEW os, NEW k \in Packers
    PROVE  /\ Open(os, k) \subseteq Orders \X Nat
           /\ \A q \in Orders, i \in Nat :
                <<q, i>> \in Open(os, k) <=> i \in DOMAIN os[q].history /\ os[q].history[i] = OpenEntry(k)
  BY DEF Open

LEMMA SameOpen ==
    ASSUME NEW os, NEW os2, NEW k \in Packers,
           \A q \in Orders, i \in Nat : <<q, i>> \in Open(os2, k) <=> <<q, i>> \in Open(os, k)
    PROVE  Open(os2, k) = Open(os, k)
<1>1. ASSUME NEW e \in Open(os, k) PROVE e \in Open(os2, k)
  <2>1. PICK q \in Orders, i \in Nat : e = <<q, i>>
    BY DEF Open
  <2> QED BY <2>1
<1>2. ASSUME NEW e \in Open(os2, k) PROVE e \in Open(os, k)
  <2>1. PICK q \in Orders, i \in Nat : e = <<q, i>>
    BY DEF Open
  <2> QED BY <2>1
<1> QED BY <1>1, <1>2

LEMMA EntryAdded ==
    ASSUME NEW os, NEW os2, NEW o \in Orders, NEW p \in Packers, Histories(os),
           \A q \in Orders : q # o => os2[q].history = os[q].history,
           os2[o].history = AppendEntry(os[o].history, p), NEW k \in Packers, IsFiniteSet(Open(os, k))
    PROVE  /\ IsFiniteSet(Open(os2, k)) /\ Cardinality(Open(os, k)) \in Nat
           /\ Cardinality(Open(os2, k)) = Cardinality(Open(os, k)) + (IF k = p THEN 1 ELSE 0)
<1>1. PICK n \in Nat : n = Len(os[o].history)
  BY DEF Histories
<1>2. /\ DOMAIN os2[o].history = 1..(n + 1) /\ DOMAIN os[o].history = 1..n
      /\ os2[o].history[n + 1] = OpenEntry(p) /\ \A i \in 1..n : os2[o].history[i] = os[o].history[i]
  BY <1>1, OpenEntries DEF Histories, AppendEntry
<1>3. \A i \in Nat : i \in 1..(n + 1) <=> i \in 1..n \/ i = n + 1
  BY <1>1
<1>4. <<o, n + 1>> \in Orders \X Nat /\ n + 1 \notin 1..n
  BY <1>1
<1>5. CASE k = p
  <2>1. Open(os2, k) = Open(os, k) \cup {<<o, n + 1>>} /\ <<o, n + 1>> \notin Open(os, k)
    <3>1. ASSUME NEW q \in Orders, NEW i \in Nat
          PROVE  <<q, i>> \in Open(os2, k) <=> <<q, i>> \in Open(os, k) \/ <<q, i>> = <<o, n + 1>>
      <4>1. CASE q = o
        BY <1>2, <1>3, <1>4, <1>5, <4>1, InOpen
      <4>2. CASE q # o
        BY <4>2, InOpen
      <4> QED BY <4>1, <4>2
    <3>2. <<o, n + 1>> \notin Open(os, k)
      BY <1>2, <1>4, InOpen
    <3> QED BY <1>4, <3>1, <3>2, InOpen
  <2> QED BY <1>5, <2>1, FS_AddElement, FS_CardinalityType
<1>6. CASE k # p
  <2>1. Open(os2, k) = Open(os, k)
    <3>1. ASSUME NEW q \in Orders, NEW i \in Nat
          PROVE  <<q, i>> \in Open(os2, k) <=> <<q, i>> \in Open(os, k)
      <4>1. CASE q = o
        BY <1>2, <1>3, <1>4, <1>6, <4>1, InOpen, OpenEntries
      <4>2. CASE q # o
        BY <4>2, InOpen
      <4> QED BY <4>1, <4>2
    <3> QED BY <3>1, SameOpen
  <2> QED BY <1>6, <2>1, FS_CardinalityType
<1> QED BY <1>5, <1>6

LEMMA ClosedEntry ==
    ASSUME NEW h \in Seq(Entry), NEW p \in Packers, EndsWith(h, p)
    PROVE  /\ Len(h) \in Nat /\ Len(h) > 0 /\ Len(h) \in DOMAIN h
           /\ Closed(h) \in Seq(Entry) /\ Len(Closed(h)) = Len(h) /\ DOMAIN Closed(h) = DOMAIN h
           /\ \A i \in DOMAIN h : i # Len(h) => Closed(h)[i] = h[i]
           /\ \A q \in Packers : Closed(h)[Len(h)] # OpenEntry(q)
<1>1. Len(h) \in Nat /\ Len(h) > 0 /\ Len(h) \in DOMAIN h /\ h[Len(h)] \in Entry
  BY DEF EndsWith
<1> DEFINE e == [h[Len(h)] EXCEPT !.open = FALSE]
<1>2. e \in Entry /\ e.open = FALSE
  BY <1>1 DEF Entry
<1>3. Closed(h) = [h EXCEPT ![Len(h)] = e]
  BY DEF Closed, EndsWith
<1> HIDE DEF e
<1>4. \A q \in Packers : OpenEntry(q) # e
  BY <1>2 DEF OpenEntry
<1>5. Closed(h) \in Seq(Entry) /\ Len(Closed(h)) = Len(h) /\ DOMAIN Closed(h) = DOMAIN h
  BY <1>1, <1>2, <1>3
<1>6. Closed(h)[Len(h)] = e /\ \A i \in DOMAIN h : i # Len(h) => Closed(h)[i] = h[i]
  BY <1>1, <1>3
<1> QED BY <1>1, <1>4, <1>5, <1>6

LEMMA EntryClosed ==
    ASSUME NEW os, NEW os2, NEW o \in Orders, NEW p \in Packers, Histories(os), EndsWith(os[o].history, p),
           \A q \in Orders : q # o => os2[q].history = os[q].history,
           os2[o].history = Closed(os[o].history), NEW k \in Packers, IsFiniteSet(Open(os, k))
    PROVE  /\ IsFiniteSet(Open(os2, k)) /\ Cardinality(Open(os2, k)) \in Nat
           /\ Cardinality(Open(os, k)) = Cardinality(Open(os2, k)) + (IF k = p THEN 1 ELSE 0)
<1>1. PICK n \in Nat : n = Len(os[o].history)
  BY DEF Histories
<1>2. /\ n \in DOMAIN os[o].history /\ DOMAIN os2[o].history = DOMAIN os[o].history
      /\ \A i \in DOMAIN os[o].history : i # n => os2[o].history[i] = os[o].history[i]
      /\ os2[o].history[n] # OpenEntry(k) /\ os[o].history[n] = OpenEntry(p)
  BY <1>1, ClosedEntry DEF Histories, EndsWith
<1>3. <<o, n>> \in Orders \X Nat
  BY <1>1
<1>4. CASE k = p
  <2>1. Open(os2, k) = Open(os, k) \ {<<o, n>>} /\ <<o, n>> \in Open(os, k)
    BY <1>2, <1>3, <1>4 DEF Open
  <2>2. /\ IsFiniteSet(Open(os2, k)) /\ Cardinality(Open(os2, k)) = Cardinality(Open(os, k)) - 1
    BY <2>1, FS_RemoveElement
  <2> QED BY <1>4, <2>2, FS_CardinalityType
<1>5. CASE k # p
  <2>1. Open(os2, k) = Open(os, k)
    BY <1>2, <1>3, <1>5, OpenEntries DEF Open
  <2> QED BY <1>5, <2>1, FS_CardinalityType
<1> QED BY <1>4, <1>5

LEMMA AssignInit == Init => AssignInv
<1> SUFFICES ASSUME Init PROVE AssignInv
  OBVIOUS
<1>1. Absent(0) \in OrderRow /\ Absent(0).history = <<>> /\ Absent(0).packer = Nobody
  <2>1. <<>> \in Seq(Entry)
    OBVIOUS
  <2> QED BY <2>1 DEF Absent, OrderRow
<1>2. \A p \in Packers : [status |-> "active", weight |-> FirstWeight[p], count |-> 0] \in LinkRow
  BY PackersAssumption DEF LinkRow
<1>3. AssignTyped
  <2>1. links \in [Packers -> LinkRow] /\ orders \in [Orders -> OrderRow]
    BY <1>1, <1>2 DEF Init
  <2>2. picks \in [Orders -> Packers \cup {Nobody, "idle"}] /\ ratings \in [Orders -> [Packers -> 0..5]]
    BY DEF Init
  <2>3. reqs \in [Requests -> Asked]
    BY NoKind DEF Init
  <2> QED BY <2>1, <2>2, <2>3, PackersAssumption DEF Init, AssignTyped
<1>4. \A r \in Requests : reqs[r].kind = "idle"
  BY NoKind DEF Init
<1>5. TallyInv
  <2>1. \A p \in Packers : Open(orders, p) = {}
    BY <1>1 DEF Init, Open
  <2>2. Tallied(links, orders, abandoned)
    <3>1. \A p \in Packers : links[p].count = 0 /\ abandoned[p] = 0
      BY DEF Init
    <3>2. IsFiniteSet({}) /\ Cardinality({}) = 0
      BY FS_EmptySet
    <3> QED BY <2>1, <3>1, <3>2 DEF Tallied
  <2>3. \A o \in Orders : orders[o].packer = Nobody
    BY <1>1 DEF Init
  <2> QED BY <1>4, <2>2, <2>3 DEF TallyInv, Declining
<1>6. LoadInv
  <2>1. Calm
    BY DEF Init, Calm
  <2>2. ASSUME NEW p \in Packers, NEW q \in Packers
        PROVE  (links[p].count + Cardinality(Carrying(p)) - Cardinality(Orders)) * links[q].weight
                  <= links[q].count * links[p].weight
    <3>1. Carrying(p) = {}
      BY NoKind DEF Carrying, Init
    <3>2. Cardinality(Carrying(p)) = 0 /\ Cardinality(Orders) \in Nat
      BY <3>1, FS_EmptySet, FS_CardinalityType, PackersAssumption
    <3>3. links[p].count = 0 /\ links[q].count = 0 /\ links[q].weight \in Nat /\ links[p].weight \in Nat
      <4>1. FirstWeight[p] \in Nat /\ FirstWeight[q] \in Nat
        BY PositiveWeights
      <4> QED BY <4>1 DEF Init
    <3>4. \A n, w \in Nat : (0 + 0 - n) * w <= 0
      OBVIOUS
    <3> QED BY <3>2, <3>3, <3>4
  <2> QED BY <2>1, <2>2 DEF LoadInv
<1> QED BY <1>3, <1>5, <1>6 DEF AssignInv

(* What the requests do. *)

ReqFine(q) ==
    /\ q.kind = "pick" => q.next # q.packer
    /\ ~stale /\ q.kind \in Declining => EndsWith(q.history, q.packer)

LEMMA SameTally ==
    ASSUME NEW os, NEW os2, NEW ls, NEW ls2, NEW left, Tallied(ls, os, left), \A o \in Orders : os2[o].history = os[o].history,
           \A p \in Packers : ls2[p].count = ls[p].count
    PROVE  Tallied(ls2, os2, left)
<1>1. \A k \in Packers : Open(os2, k) = Open(os, k)
  <2> SUFFICES ASSUME NEW k \in Packers
               PROVE  \A q \in Orders, i \in Nat : <<q, i>> \in Open(os2, k) <=> <<q, i>> \in Open(os, k)
    BY SameOpen
  <2>1. TAKE q \in Orders, i \in Nat
  <2>2. <<q, i>> \in Open(os, k) <=> i \in DOMAIN os[q].history /\ os[q].history[i] = OpenEntry(k)
    BY InOpen
  <2>3. <<q, i>> \in Open(os2, k) <=> i \in DOMAIN os2[q].history /\ os2[q].history[i] = OpenEntry(k)
    BY InOpen
  <2> QED BY <2>2, <2>3
<1> QED BY <1>1 DEF Tallied

\* A step that leaves every history and every counter as it was.
LEMMA TallyStands ==
    ASSUME TallyInv, UNCHANGED <<stale, abandoned>>,
           \A p \in Packers : links'[p].count = links[p].count,
           \A o \in Orders : orders'[o].history = orders[o].history /\ orders'[o].packer = orders[o].packer,
           \A r \in Requests : reqs'[r] = reqs[r] \/ ReqFine(reqs'[r])
    PROVE  TallyInv'
<1>1. \A r \in Requests : ReqFine(reqs'[r])
  BY DEF TallyInv, ReqFine
<1>2. ~stale => Tallied(links', orders', abandoned')
  BY SameTally DEF TallyInv
<1>3. ~stale => \A o \in Orders : orders'[o].packer # Nobody => EndsWith(orders'[o].history, orders'[o].packer)
  BY DEF TallyInv
<1> QED BY <1>1, <1>2, <1>3 DEF TallyInv, ReqFine

LEMMA Moved == ASSUME AssignTyped, Move PROVE moves' \in Nat /\ moves' # 0
  BY DEF AssignTyped, Move

LEMMA AskedMoved == ASSUME AssignInv, NEW r \in Requests, reqs[r].kind # "idle" PROVE moves \in Nat /\ moves # 0
  BY NoKind DEF AssignInv, AssignTyped, LoadInv, Calm

LEMMA RequestMoves ==
    ASSUME AssignInv, NEW r \in Requests, NEW q \in Asked, reqs' = [reqs EXCEPT ![r] = q], ReqFine(q),
           UNCHANGED <<mode, points, links, orders, picks, stale, abandoned>>,
           ratings' \in [Orders -> [Packers -> 0..5]], moves' \in Nat, moves' # 0
    PROVE  AssignInv'
<1>1. AssignTyped'
  BY DEF AssignInv, AssignTyped
<1>2. \A s \in Requests : reqs'[s] = reqs[s] \/ reqs'[s] = q
  BY DEF AssignInv, AssignTyped
<1>3. TallyInv'
  BY <1>2, TallyStands DEF AssignInv
<1>4. LoadInv'
  BY DEF LoadInv
<1> QED BY <1>1, <1>3, <1>4 DEF AssignInv

LEMMA SelectedIs ==
    ASSUME NEW excluded, NEW p \in Selected(excluded)
    PROVE  p \in Packers \cup {Nobody} /\ (p # Nobody => p \notin excluded)
<1>1. First(excluded) \subseteq Candidates(excluded) /\ Candidates(excluded) \subseteq Packers \ excluded
  BY DEF First, Candidates
<1> QED BY <1>1 DEF Selected

LEMMA ReadOrderKeeps ==
    ASSUME AssignInv, NEW r \in Requests, NEW o \in Orders, ReadOrder(r, o)
    PROVE  AssignInv'
<1> DEFINE q == [kind |-> "order", order |-> o, id |-> orders[o].id, packer |-> orders[o].packer, history |-> orders[o].history]
<1>1. /\ orders[o].packer # Nobody /\ Move /\ reqs' = [reqs EXCEPT ![r] = q]
      /\ UNCHANGED <<mode, points, links, recent, orders, picks, ratings, stale, abandoned>>
  BY DEF ReadOrder
<1>2. orders[o].packer \in Packers /\ orders[o].history \in Seq(Entry) /\ orders[o].id \in Nat
  BY <1>1 DEF AssignInv, AssignTyped, OrderRow
<1>3. q \in Ordering
  BY <1>2 DEF Ordering
<1>4. q \in Asked
  BY <1>3 DEF Asked
<1>5. ReqFine(q)
  BY <1>1 DEF ReqFine, AssignInv, TallyInv
<1> HIDE DEF q
<1> QED BY <1>1, <1>4, <1>5, Moved, RequestMoves DEF AssignInv, AssignTyped

LEMMA ReadLinkKeeps ==
    ASSUME AssignInv, NEW r \in Requests, ReadLink(r)
    PROVE  AssignInv'
<1> DEFINE q == [kind |-> "link", order |-> reqs[r].order, id |-> reqs[r].id, packer |-> reqs[r].packer,
                 history |-> reqs[r].history, count |-> links[reqs[r].packer].count]
<1>1. /\ reqs[r].kind = "order" /\ reqs' = [reqs EXCEPT ![r] = q]
      /\ UNCHANGED <<mode, points, links, recent, orders, picks, ratings, moves, stale, abandoned>>
  BY DEF ReadLink
<1>2. reqs[r] \in Ordering
  BY <1>1, AskedKinds DEF AssignInv, AssignTyped
<1>3. links[reqs[r].packer].count \in Nat
  BY <1>2 DEF AssignInv, AssignTyped, LinkRow, Ordering
<1>4. q \in Linking
  BY <1>2, <1>3 DEF Ordering, Linking
<1>5. q \in Asked
  BY <1>4 DEF Asked
<1>6. ReqFine(q)
  BY <1>1 DEF ReqFine, AssignInv, TallyInv, Declining
<1> HIDE DEF q
<1> QED BY <1>1, <1>5, <1>6, AskedMoved, RequestMoves DEF AssignInv, AssignTyped

LEMMA PickReplacementKeeps ==
    ASSUME AssignInv, NEW r \in Requests, PickReplacement(r)
    PROVE  AssignInv'
<1>1. PICK p \in Selected({reqs[r].packer}) :
        /\ reqs[r].kind = "link"
        /\ reqs' = [reqs EXCEPT ![r] = [kind |-> "pick", order |-> reqs[r].order, id |-> reqs[r].id, packer |-> reqs[r].packer,
                                        history |-> reqs[r].history, count |-> reqs[r].count, next |-> p]]
        /\ UNCHANGED <<mode, points, links, recent, orders, picks, ratings, moves, stale, abandoned>>
  BY DEF PickReplacement
<1> DEFINE q == [kind |-> "pick", order |-> reqs[r].order, id |-> reqs[r].id, packer |-> reqs[r].packer,
                 history |-> reqs[r].history, count |-> reqs[r].count, next |-> p]
<1>2. reqs[r] \in Linking
  BY <1>1, AskedKinds DEF AssignInv, AssignTyped
<1>3. p \in Packers \cup {Nobody} /\ (p # Nobody => p # reqs[r].packer)
  BY SelectedIs
<1>4. q \in Choosing
  BY <1>2, <1>3 DEF Linking, Choosing
<1>5. q \in Asked
  BY <1>4 DEF Asked
<1>6. ReqFine(q)
  <2>1. q.next # q.packer
    BY <1>2, <1>3, NoKind DEF Linking
  <2> QED BY <1>1, <2>1 DEF ReqFine, AssignInv, TallyInv, Declining
<1> HIDE DEF q
<1>7. reqs' = [reqs EXCEPT ![r] = q]
  BY <1>1 DEF q
<1> QED BY <1>1, <1>5, <1>6, <1>7, AskedMoved, RequestMoves DEF AssignInv, AssignTyped

LEMMA ReadForRatingKeeps ==
    ASSUME AssignInv, NEW r \in Requests, NEW o \in Orders, NEW p \in Packers, ReadForRating(r, o, p)
    PROVE  AssignInv'
<1>1. PICK s \in Scores : /\ reqs' = [reqs EXCEPT ![r] = [kind |-> "rate", order |-> o, id |-> orders[o].id, packer |-> p, score |-> s]]
                          /\ Move /\ UNCHANGED <<mode, points, links, recent, orders, picks, ratings, stale, abandoned>>
  BY DEF ReadForRating
<1> DEFINE q == [kind |-> "rate", order |-> o, id |-> orders[o].id, packer |-> p, score |-> s]
<1>2. q \in Asked
  <2>1. orders[o].id \in Nat
    BY DEF AssignInv, AssignTyped, OrderRow
  <2> QED BY <2>1 DEF Asked, Scoring
<1>3. ReqFine(q)
  BY DEF ReqFine, Declining
<1> HIDE DEF q
<1>4. reqs' = [reqs EXCEPT ![r] = q]
  BY <1>1 DEF q
<1> QED BY <1>1, <1>2, <1>3, <1>4, Moved, RequestMoves DEF AssignInv, AssignTyped

LEMMA IdleFine == ReqFine(Idle)
  BY DEF ReqFine, Idle, Declining

LEMMA SaveRatingKeeps ==
    ASSUME AssignInv, NEW r \in Requests, SaveRating(r)
    PROVE  AssignInv'
<1>1. /\ reqs[r].kind = "rate" /\ reqs' = [reqs EXCEPT ![r] = Idle]
      /\ \/ ratings' = [ratings EXCEPT ![reqs[r].order][reqs[r].packer] = reqs[r].score]
         \/ UNCHANGED ratings
      /\ UNCHANGED <<mode, points, links, recent, orders, picks, moves, stale, abandoned>>
  BY DEF SaveRating
<1>2. reqs[r] \in Scoring
  BY <1>1, AskedKinds DEF AssignInv, AssignTyped
<1>3. reqs[r].order \in Orders /\ reqs[r].packer \in Packers /\ reqs[r].score \in 0..5
  <2>1. reqs[r].score \in Scores /\ Scores \subseteq 1..5 /\ 1..5 \subseteq 0..5
    BY <1>2, PackersAssumption DEF Scoring
  <2> QED BY <1>2, <2>1 DEF Scoring
<1>4. ratings' \in [Orders -> [Packers -> 0..5]]
  <2>1. ratings \in [Orders -> [Packers -> 0..5]]
    BY DEF AssignInv, AssignTyped
  <2>2. CASE UNCHANGED ratings
    BY <2>1, <2>2
  <2>3. CASE ratings' = [ratings EXCEPT ![reqs[r].order][reqs[r].packer] = reqs[r].score]
    BY <1>3, <2>1, <2>3
  <2> QED BY <1>1, <2>2, <2>3
<1> QED BY <1>1, <1>4, NoKind, IdleFine, AskedMoved, RequestMoves

(* What the tenant, the packers and the couriers do besides. *)
LEMMA OutsideMoves ==
    ASSUME AssignInv, Move, UNCHANGED <<picks, ratings, reqs, stale, abandoned>>, mode' \in Modes,
           points' \in [Packers -> SUBSET {"locker", "door"}], links' \in [Packers -> LinkRow],
           orders' \in [Orders -> OrderRow], \A p \in Packers : links'[p].count = links[p].count,
           \A o \in Orders : orders'[o].history = orders[o].history /\ orders'[o].packer = orders[o].packer
    PROVE  AssignInv'
<1>1. moves' \in Nat /\ moves' # 0
  BY Moved DEF AssignInv
<1>2. AssignTyped'
  BY <1>1 DEF AssignInv, AssignTyped
<1>3. TallyInv'
  BY TallyStands DEF AssignInv
<1>4. LoadInv'
  BY <1>1 DEF LoadInv
<1> QED BY <1>2, <1>3, <1>4 DEF AssignInv

LEMMA OrderHandled ==
    ASSUME AssignInv, NEW o \in Orders,
           (\E status \in {"awaiting_packing", "packed", "dropped_off"} : SetPacking(o, status)) \/ Deliver(o)
    PROVE  AssignInv'
<1>0. /\ Move /\ UNCHANGED <<mode, points, links, recent, picks, ratings, reqs, stale, abandoned>> /\ AssignTyped
  BY DEF SetPacking, Deliver, AssignInv
<1>1. /\ orders' \in [Orders -> OrderRow]
      /\ \A q \in Orders : orders'[q].history = orders[q].history /\ orders'[q].packer = orders[q].packer
  <2>1. ASSUME NEW status \in {"awaiting_packing", "packed", "dropped_off"},
               orders' = [orders EXCEPT ![o].packing = status]
        PROVE  <1>1!1 /\ <1>1!2
    BY ZenonT(60), <1>0, <2>1 DEF AssignTyped, OrderRow
  <2>2. ASSUME orders' = [orders EXCEPT ![o].delivered = TRUE]
        PROVE  <1>1!1 /\ <1>1!2
    BY ZenonT(60), <1>0, <2>2 DEF AssignTyped, OrderRow
  <2> QED BY <2>1, <2>2 DEF SetPacking, Deliver
<1> QED BY <1>0, <1>1, OutsideMoves DEF AssignTyped

LEMMA LinkHandled ==
    ASSUME AssignInv, NEW p \in Packers, UpdateLink(p) \/ Unlink(p) \/ Relink(p)
    PROVE  AssignInv'
<1>0. /\ Move /\ UNCHANGED <<mode, points, orders, picks, ratings, reqs, stale, abandoned>> /\ AssignTyped
  BY DEF UpdateLink, Unlink, Relink, Administers, AssignInv
<1>1. /\ links' \in [Packers -> LinkRow]
      /\ \A q \in Packers : links'[q].count = links[q].count
  <2>1. CASE UpdateLink(p)
    <3>1. PICK status \in {"active", "paused"}, weight \in Weights :
            links' = [links EXCEPT ![p].status = status, ![p].weight = weight]
      BY <2>1 DEF UpdateLink
    <3>2. links' = [links EXCEPT ![p] = [links[p] EXCEPT !.status = status, !.weight = weight]]
      BY <1>0, <3>1 DEF AssignTyped
    <3>3. [links[p] EXCEPT !.status = status, !.weight = weight] \in LinkRow
      BY <1>0 DEF AssignTyped, LinkRow
    <3> QED BY <1>0, <3>2, <3>3 DEF AssignTyped, LinkRow
  <2>2. CASE Unlink(p)
    BY <1>0, <2>2 DEF AssignTyped, LinkRow, Unlink
  <2>3. CASE Relink(p)
    <3>1. PICK status \in {"active", "paused"}, weight \in Weights :
            links' = [links EXCEPT ![p].status = "active", ![p].weight = weight]
      BY <2>3 DEF Relink
    <3>2. links' = [links EXCEPT ![p] = [links[p] EXCEPT !.status = "active", !.weight = weight]]
      BY <1>0, <3>1 DEF AssignTyped
    <3>3. [links[p] EXCEPT !.status = "active", !.weight = weight] \in LinkRow
      BY <1>0 DEF AssignTyped, LinkRow
    <3> QED BY <1>0, <3>2, <3>3 DEF AssignTyped, LinkRow
  <2> QED BY <2>1, <2>2, <2>3
<1> QED BY <1>0, <1>1, OutsideMoves DEF AssignTyped

LEMMA SettingsHandled ==
    ASSUME AssignInv, SetMode \/ \E p \in Packers : EditProfile(p)
    PROVE  AssignInv'
<1>0. /\ Move /\ UNCHANGED <<links, orders, picks, ratings, reqs, stale, abandoned>> /\ AssignTyped
  BY DEF SetMode, EditProfile, Administers, AssignInv
<1>1. mode' \in Modes /\ points' \in [Packers -> SUBSET {"locker", "door"}]
  BY <1>0 DEF AssignTyped, SetMode, EditProfile
<1> QED BY <1>0, <1>1, OutsideMoves DEF AssignTyped

\* The order's open assignments leave the histories and count among the abandoned.
LEMMA ReprocessKeeps ==
    ASSUME AssignInv, NEW o \in Orders, Reprocess(o)
    PROVE  AssignInv'
<1>0. /\ AssignTyped /\ TallyInv /\ moves' \in Nat /\ moves' # 0
      /\ orders' = [orders EXCEPT ![o] = Absent(orders[o].id + 1)]
      /\ ratings' = [ratings EXCEPT ![o] = [p \in Packers |-> 0]]
      /\ abandoned' = [p \in Packers |-> abandoned[p] + Cardinality(OpenIn(o, p))]
      /\ UNCHANGED <<mode, points, links, recent, picks, reqs, stale>>
  BY Moved DEF Reprocess, AssignInv
<1>1. /\ orders' \in [Orders -> OrderRow] /\ orders'[o].packer = Nobody /\ orders'[o].history = <<>>
      /\ \A q \in Orders : q # o => orders'[q] = orders[q]
  <2>1. orders[o].id + 1 \in Nat /\ <<>> \in Seq(Entry)
    BY <1>0 DEF AssignTyped, OrderRow
  <2>2. /\ Absent(orders[o].id + 1) \in OrderRow
        /\ Absent(orders[o].id + 1).packer = Nobody /\ Absent(orders[o].id + 1).history = <<>>
    BY <2>1 DEF Absent, OrderRow
  <2> QED BY <1>0, <2>2 DEF AssignTyped
<1>2. ASSUME NEW k \in Packers
      PROVE  /\ Open(orders', k) = Open(orders, k) \ OpenIn(o, k)
             /\ OpenIn(o, k) = Open(orders, k) \cap OpenIn(o, k)
  <2>1. DOMAIN orders[o].history \subseteq Nat
    BY <1>0 DEF AssignTyped, OrderRow
  <2>2. \A q \in Orders, i \in Nat :
          <<q, i>> \in OpenIn(o, k) <=> q = o /\ i \in DOMAIN orders[o].history /\ orders[o].history[i] = OpenEntry(k)
    BY DEF OpenIn
  <2>3. OpenIn(o, k) \subseteq Orders \X Nat
    BY <2>1 DEF OpenIn
  <2>4. \A q \in Orders, i \in Nat : <<q, i>> \in Open(orders', k) <=> <<q, i>> \in Open(orders, k) \ OpenIn(o, k)
    <3>1. TAKE q \in Orders, i \in Nat
    <3>2. CASE q = o
      BY <1>1, <2>2, <3>2, InOpen
    <3>3. CASE q # o
      <4>1. orders'[q] = orders[q]
        BY <1>1, <3>3
      <4>2. <<q, i>> \in Open(orders', k) <=> i \in DOMAIN orders'[q].history /\ orders'[q].history[i] = OpenEntry(k)
        BY InOpen
      <4>3. <<q, i>> \in Open(orders, k) <=> i \in DOMAIN orders[q].history /\ orders[q].history[i] = OpenEntry(k)
        BY InOpen
      <4> QED BY <2>2, <3>3, <4>1, <4>2, <4>3
    <3> QED BY <3>2, <3>3
  <2>5. OpenIn(o, k) \subseteq Open(orders, k)
    BY <2>1, <2>2, <2>3 DEF Open, OpenIn
  <2>6. Open(orders', k) \subseteq Orders \X Nat /\ Open(orders, k) \subseteq Orders \X Nat
    BY InOpen
  <2> QED BY <2>4, <2>5, <2>6
<1>3. /\ abandoned' \in [Packers -> Nat]
      /\ ~stale => Tallied(links', orders', abandoned')
  <2>0. \A k \in Packers : IsFiniteSet(OpenIn(o, k)) /\ Cardinality(OpenIn(o, k)) \in Nat
    <3>1. TAKE k \in Packers
    <3>2. PICK n \in Nat : DOMAIN orders[o].history = 1..n
      BY <1>0 DEF AssignTyped, OrderRow
    <3>3. OpenIn(o, k) \subseteq {<<o, i>> : i \in 1..n}
      BY <3>2 DEF OpenIn
    <3> DEFINE f == [e \in OpenIn(o, k) |-> e[2]]
    <3>4. f \in Injection(OpenIn(o, k), 1..n)
      BY <3>3 DEF Injection, IsInjective
    <3>5. IsFiniteSet(1..n)
      BY FS_Interval
    <3> QED BY <3>4, <3>5, FS_Injection, FS_CardinalityType
  <2>1. abandoned' \in [Packers -> Nat]
    BY <1>0, <2>0 DEF AssignTyped
  <2>2. ASSUME ~stale, NEW k \in Packers
        PROVE  IsFiniteSet(Open(orders', k)) /\ links'[k].count = Cardinality(Open(orders', k)) + abandoned'[k]
    <3>1. IsFiniteSet(Open(orders, k)) /\ links[k].count = Cardinality(Open(orders, k)) + abandoned[k]
      BY <1>0, <2>2 DEF TallyInv, Tallied
    <3>2. /\ IsFiniteSet(Open(orders', k)) /\ Cardinality(Open(orders, k)) \in Nat
          /\ Cardinality(Open(orders', k)) = Cardinality(Open(orders, k)) - Cardinality(OpenIn(o, k))
      <4>1. /\ IsFiniteSet(Open(orders, k) \ OpenIn(o, k))
            /\ Cardinality(Open(orders, k) \ OpenIn(o, k))
                 = Cardinality(Open(orders, k)) - Cardinality(Open(orders, k) \cap OpenIn(o, k))
        BY <3>1, FS_Difference
      <4>2. Cardinality(Open(orders, k)) \in Nat
        BY <3>1, FS_CardinalityType
      <4> QED BY <1>2, <2>2, <4>1, <4>2
    <3>3. abandoned'[k] = abandoned[k] + Cardinality(OpenIn(o, k)) /\ abandoned[k] \in Nat /\ links'[k] = links[k]
      BY <1>0 DEF AssignTyped
    <3> QED BY <2>0, <3>1, <3>2, <3>3
  <2> QED BY <2>1, <2>2 DEF Tallied
<1>4. AssignTyped'
  BY <1>0, <1>1, <1>3 DEF AssignTyped
<1>5. ASSUME ~stale, NEW q \in Orders, orders'[q].packer # Nobody
      PROVE  EndsWith(orders'[q].history, orders'[q].packer)
  BY <1>0, <1>1, <1>5 DEF TallyInv
<1>6. TallyInv'
  BY <1>0, <1>3, <1>5 DEF TallyInv
<1>7. LoadInv'
  BY <1>0 DEF LoadInv
<1> QED BY <1>4, <1>6, <1>7 DEF AssignInv

LEMMA AppendedEntry ==
    ASSUME NEW h \in Seq(Entry), NEW p \in Packers
    PROVE  AppendEntry(h, p) \in Seq(Entry) /\ EndsWith(AppendEntry(h, p), p)
<1>1. OpenEntry(p) \in Entry
  BY OpenEntries
<1> QED BY <1>1 DEF AppendEntry, EndsWith

LEMMA ClosedTyped == ASSUME NEW h \in Seq(Entry) PROVE Closed(h) \in Seq(Entry)
<1>1. CASE h = <<>>
  BY <1>1 DEF Closed
<1>2. CASE h # <<>>
  <2>1. Len(h) \in 1..Len(h) /\ h[Len(h)] \in Entry
    BY <1>2
  <2>2. [h[Len(h)] EXCEPT !.open = FALSE] \in Entry
    BY <2>1 DEF Entry
  <2>3. Closed(h) = [h EXCEPT ![Len(h)] = [h[Len(h)] EXCEPT !.open = FALSE]]
    BY <1>2 DEF Closed
  <2> QED BY <2>1, <2>2, <2>3
<1> QED BY <1>1, <1>2

LEMMA OneOff == \A n \in Nat : n > 0 => Max({0, n - 1}) = n - 1
<1> SUFFICES ASSUME NEW n \in Nat, n > 0 PROVE Max({0, n - 1}) = n - 1
  OBVIOUS
<1>1. \A x \in {0, n - 1} : (\A y \in {0, n - 1} : x >= y) <=> x = n - 1
  OBVIOUS
<1>2. n - 1 \in {0, n - 1}
  OBVIOUS
<1> QED BY <1>1, <1>2 DEF Max

\* Whatever the decline has read, the rows keep their types.
LEMMA DeclineTyped ==
    ASSUME AssignTyped, NEW d \in Choosing, NEW history \in Seq(Entry), d.next # d.packer,
           Stands(d) => orders' = [orders EXCEPT ![d.order].packer = d.next, ![d.order].history = history],
           ~Stands(d) => UNCHANGED orders,
           links' = Decremented(IF d.next # Nobody THEN Counted(d.next, 1) ELSE links, d.packer, d.count)
    PROVE  /\ orders' \in [Orders -> OrderRow] /\ links' \in [Packers -> LinkRow]
           /\ Stands(d) => orders'[d.order].packer = d.next /\ orders'[d.order].history = history
           /\ \A o \in Orders : o # d.order => orders'[o] = orders[o]
           /\ \A p \in Packers : p # d.packer =>
                links'[p].count = links[p].count + (IF p = d.next THEN 1 ELSE 0)
           /\ links'[d.packer].count = IF d.count > 0 THEN d.count - 1 ELSE links[d.packer].count
<1>0. /\ d.order \in Orders /\ d.packer \in Packers /\ d.count \in Nat /\ d.next \in Packers \cup {Nobody}
      /\ orders \in [Orders -> OrderRow] /\ links \in [Packers -> LinkRow]
  BY DEF Choosing, AssignTyped
<1>1. /\ orders' \in [Orders -> OrderRow]
      /\ Stands(d) => orders'[d.order].packer = d.next /\ orders'[d.order].history = history
      /\ \A o \in Orders : o # d.order => orders'[o] = orders[o]
  <2>1. [orders[d.order] EXCEPT !.packer = d.next, !.history = history] \in OrderRow
    BY ZenonT(60), <1>0 DEF OrderRow
  <2>2. Stands(d) => orders' = [orders EXCEPT ![d.order] = [orders[d.order] EXCEPT !.packer = d.next, !.history = history]]
    BY <1>0
  <2>3. /\ [orders[d.order] EXCEPT !.packer = d.next, !.history = history].packer = d.next
        /\ [orders[d.order] EXCEPT !.packer = d.next, !.history = history].history = history
    BY <1>0 DEF OrderRow
  <2> QED BY <1>0, <2>1, <2>2, <2>3
<1> DEFINE given == IF d.next # Nobody THEN Counted(d.next, 1) ELSE links
<1>2. /\ given \in [Packers -> LinkRow]
      /\ \A p \in Packers : given[p].count = links[p].count + (IF p = d.next THEN 1 ELSE 0)
  <2>1. CASE d.next # Nobody
    <3>1. d.next \in Packers /\ given = [links EXCEPT ![d.next].count = links[d.next].count + 1]
      BY <1>0, <2>1 DEF Counted
    <3>2. [links[d.next] EXCEPT !.count = links[d.next].count + 1] \in LinkRow
      BY SMTT(30), <1>0, <3>1 DEF LinkRow
    <3>3. given = [links EXCEPT ![d.next] = [links[d.next] EXCEPT !.count = links[d.next].count + 1]]
      BY <1>0, <3>1
    <3>4. /\ given[d.next] = [links[d.next] EXCEPT !.count = links[d.next].count + 1]
          /\ \A p \in Packers : p # d.next => given[p] = links[p]
      BY <1>0, <3>1, <3>3
    <3>5. given[d.next].count = links[d.next].count + 1 /\ \A p \in Packers : links[p].count \in Nat
      BY <1>0, <3>1, <3>4 DEF LinkRow
    <3> HIDE DEF given
    <3> QED BY <1>0, <3>1, <3>2, <3>3, <3>4, <3>5
  <2>2. CASE d.next = Nobody
    BY <1>0, <2>2, NoKind DEF LinkRow
  <2> QED BY <2>1, <2>2
<1>3. links' = IF d.count > 0 THEN [given EXCEPT ![d.packer].count = d.count - 1] ELSE given
  BY <1>0, OneOff DEF Decremented
<1> HIDE DEF given
<1>4. /\ links' \in [Packers -> LinkRow]
      /\ \A p \in Packers : p # d.packer => links'[p].count = given[p].count
      /\ links'[d.packer].count = IF d.count > 0 THEN d.count - 1 ELSE given[d.packer].count
  <2>1. CASE d.count > 0
    <3> DEFINE e == [given[d.packer] EXCEPT !.count = d.count - 1]
    <3>1. e \in LinkRow /\ e.count = d.count - 1
      <4>1. given[d.packer] \in LinkRow /\ d.count - 1 \in Nat
        BY <1>0, <1>2, <2>1
      <4> QED BY <4>1 DEF LinkRow
    <3>2. links' = [given EXCEPT ![d.packer] = e]
      BY <1>0, <1>2, <1>3, <2>1
    <3> HIDE DEF e
    <3> QED BY <1>0, <1>2, <2>1, <3>1, <3>2
  <2>2. CASE ~(d.count > 0)
    BY <1>0, <1>2, <1>3, <2>2
  <2> QED BY <2>1, <2>2
<1> QED BY <1>0, <1>1, <1>2, <1>4 DEF LinkRow

LEMMA CommitDeclineKeeps ==
    ASSUME AssignInv, NEW r \in Requests, CommitDecline(r)
    PROVE  AssignInv'
<1> DEFINE d == reqs[r]
           h == reqs[r].history
           o == reqs[r].order
           p == reqs[r].packer
           history == IF d.next # Nobody THEN AppendEntry(Closed(h), d.next) ELSE Closed(h)
<1>0. /\ AssignTyped /\ TallyInv /\ d \in Choosing /\ d.next # p
  BY AskedKinds DEF AssignInv, AssignTyped, TallyInv, CommitDecline
<1>1. /\ Stands(d) => orders' = [orders EXCEPT ![o].packer = d.next, ![o].history = history]
      /\ ~Stands(d) => UNCHANGED orders
      /\ links' = Decremented(IF d.next # Nobody THEN Counted(d.next, 1) ELSE links, p, d.count)
      /\ stale' = (stale \/ ~Stands(d) \/ h # orders[o].history \/ d.count # links[p].count)
      /\ reqs' = [reqs EXCEPT ![r] = Idle]
      /\ UNCHANGED <<mode, points, picks, ratings, moves, abandoned>>
  BY DEF CommitDecline
<1>2. /\ o \in Orders /\ p \in Packers /\ h \in Seq(Entry) /\ d.count \in Nat /\ d.next \in Packers \cup {Nobody}
      /\ Closed(h) \in Seq(Entry) /\ history \in Seq(Entry)
  BY <1>0, ClosedTyped, AppendedEntry DEF Choosing
<1>3. moves' \in Nat /\ moves' # 0 /\ LoadInv'
  BY <1>1, AskedMoved DEF LoadInv, CommitDecline
<1>k. reqs[r].kind = "pick"
  BY DEF CommitDecline
<1>4. /\ orders' \in [Orders -> OrderRow] /\ links' \in [Packers -> LinkRow]
      /\ Stands(d) => orders'[o].packer = d.next /\ orders'[o].history = history
      /\ \A q \in Orders : q # o => orders'[q] = orders[q]
      /\ \A q \in Packers : q # p => links'[q].count = links[q].count + (IF q = d.next THEN 1 ELSE 0)
      /\ links'[p].count = IF d.count > 0 THEN d.count - 1 ELSE links[p].count
  <2>1. h = d.history /\ o = d.order /\ p = d.packer
    OBVIOUS
  <2> HIDE DEF d, h, o, p, history
  <2> QED BY ZenonT(60), <1>0, <1>1, <1>2, <2>1, DeclineTyped
<1>5. AssignTyped'
  <2>1. reqs' \in [Requests -> Asked] /\ stale' \in BOOLEAN
    BY <1>0, <1>1, NoKind DEF AssignTyped
  <2> QED BY <1>0, <1>1, <1>3, <1>4, <2>1 DEF AssignTyped
<1>6. \A s \in Requests : reqs'[s] = reqs[s] \/ reqs'[s] = Idle
  BY <1>0, <1>1 DEF AssignTyped
<1>7. ASSUME ~stale' PROVE /\ ~stale /\ Stands(d) /\ h = orders[o].history /\ d.count = links[p].count /\ Tallied(links, orders, abandoned)
                           /\ EndsWith(h, p)
  BY <1>0, <1>1, <1>7, <1>k DEF TallyInv, Declining
<1> HIDE DEF d, h, o, p, history
<1>8. ASSUME ~stale', NEW k \in Packers
      PROVE  IsFiniteSet(Open(orders', k)) /\ links'[k].count = Cardinality(Open(orders', k)) + abandoned'[k]
  <2> DEFINE closed == [q \in Orders |-> [history |-> IF q = o THEN Closed(h) ELSE orders[q].history]]
  <2>1. Histories(orders) /\ Histories(closed)
    BY <1>0, <1>2 DEF Histories, AssignTyped, OrderRow
  <2>2. /\ \A q \in Orders : q # o => closed[q].history = orders[q].history
        /\ closed[o].history = Closed(orders[o].history)
    BY <1>2, <1>7, <1>8
  <2> HIDE DEF closed
  <2>3. IsFiniteSet(Open(orders, k)) /\ links[k].count = Cardinality(Open(orders, k)) + abandoned[k]
    BY <1>7, <1>8 DEF Tallied
  <2>n. abandoned[k] \in Nat /\ abandoned'[k] = abandoned[k]
    BY <1>0, <1>1 DEF AssignTyped
  <2>4. /\ IsFiniteSet(Open(closed, k)) /\ Cardinality(Open(closed, k)) \in Nat
        /\ Cardinality(Open(orders, k)) = Cardinality(Open(closed, k)) + (IF k = p THEN 1 ELSE 0)
    <3>1. EndsWith(orders[o].history, p)
      BY <1>7, <1>8
    <3>2. o \in Orders /\ p \in Packers /\ k \in Packers /\ Histories(orders) /\ IsFiniteSet(Open(orders, k))
      BY <1>2, <1>8, <2>1, <2>3
    <3>3. closed[o].history = Closed(orders[o].history) /\ \A q \in Orders : q # o => closed[q].history = orders[q].history
      BY <2>2
    <3> QED BY Z3, <3>1, <3>2, <3>3, EntryClosed
  <2>5. CASE d.next # Nobody
    <3>1. history = AppendEntry(closed[o].history, d.next) /\ d.next \in Packers
      BY <1>2, <1>7, <1>8, <2>2, <2>5 DEF history
    <3>2. \A q \in Orders : q # o => orders'[q].history = closed[q].history
      BY <1>4, <2>2
    <3>0. orders'[o].history = AppendEntry(closed[o].history, d.next)
      BY <1>4, <1>7, <1>8, <3>1
    <3>3. /\ IsFiniteSet(Open(orders', k))
          /\ Cardinality(Open(orders', k)) = Cardinality(Open(closed, k)) + (IF k = d.next THEN 1 ELSE 0)
      BY <1>2, <1>8, <2>1, <2>4, <3>0, <3>1, <3>2, EntryAdded
    <3>4. CASE k = p
      <4>1. d.count = Cardinality(Open(closed, k)) + abandoned[k] + 1 /\ d.next # p
        BY <1>0, <1>7, <1>8, <2>3, <2>4, <2>n, <3>4
      <4>2. d.count > 0 /\ k # d.next
        BY <2>4, <2>n, <3>4, <4>1
      <4> QED BY <1>2, <1>4, <2>4, <2>n, <3>3, <3>4, <4>1, <4>2
    <3>5. CASE k # p
      BY <1>4, <1>8, <2>3, <2>4, <2>n, <3>3, <3>5
    <3> QED BY <3>4, <3>5
  <2>6. CASE d.next = Nobody
    <3>1. history = closed[o].history /\ d.next \notin Packers
      BY <1>7, <1>8, <2>2, <2>6, NoKind DEF history
    <3>2. \A q \in Orders : orders'[q].history = closed[q].history
      BY <1>4, <1>7, <1>8, <2>2, <3>1
    <3>3. \A q \in Orders, i \in Nat : <<q, i>> \in Open(orders', k) <=> <<q, i>> \in Open(closed, k)
      <4>1. TAKE q \in Orders, i \in Nat
      <4>2. <<q, i>> \in Open(orders', k) <=>
              i \in DOMAIN orders'[q].history /\ orders'[q].history[i] = OpenEntry(k)
        BY InOpen
      <4>3. <<q, i>> \in Open(closed, k) <=> i \in DOMAIN closed[q].history /\ closed[q].history[i] = OpenEntry(k)
        BY InOpen
      <4> QED BY <3>2, <4>2, <4>3
    <3>4. Open(orders', k) = Open(closed, k)
      BY <3>3, SameOpen
    <3>5. CASE k = p
      <4>1. d.count = Cardinality(Open(closed, k)) + abandoned[k] + 1
        BY <1>7, <1>8, <2>3, <2>4, <2>n, <3>5
      <4>2. d.count > 0
        BY <2>4, <2>n, <4>1
      <4> QED BY <1>2, <1>4, <2>4, <2>n, <3>4, <3>5, <4>1, <4>2
    <3>6. CASE k # p
      <4>1. links'[k].count = links[k].count + 0 /\ links[k].count = Cardinality(Open(closed, k)) + 0 + abandoned[k]
        BY <1>4, <1>8, <2>3, <2>4, <2>n, <3>1, <3>6
      <4> QED BY <2>4, <2>n, <3>4, <4>1
    <3> QED BY <3>5, <3>6
  <2> QED BY <2>5, <2>6
<1>9. ASSUME ~stale', NEW q \in Orders, orders'[q].packer # Nobody
      PROVE  EndsWith(orders'[q].history, orders'[q].packer)
  <2>1. CASE q = o
    BY <1>2, <1>4, <1>7, <1>9, <2>1, AppendedEntry DEF history
  <2>2. CASE q # o
    BY <1>0, <1>4, <1>7, <1>9, <2>2 DEF TallyInv
  <2> QED BY <2>1, <2>2
<1>10. ASSUME NEW s \in Requests
       PROVE  /\ reqs'[s].kind = "pick" => reqs'[s].next # reqs'[s].packer
              /\ ~stale' /\ reqs'[s].kind \in Declining => EndsWith(reqs'[s].history, reqs'[s].packer)
  BY <1>0, <1>6, <1>7, NoKind DEF TallyInv, Declining
<1>11. TallyInv'
  BY <1>8, <1>9, <1>10 DEF TallyInv, Tallied
<1> QED BY <1>3, <1>5, <1>11 DEF AssignInv

(* What the pipeline does, and who it chooses. *)

Balanced(p, q) ==
    (links[p].count + Cardinality(Carrying(p)) - Cardinality(Orders)) * links[q].weight <= links[q].count * links[p].weight

LEMMA CarryingFacts ==
    \A p \in Packers : /\ IsFiniteSet(Carrying(p)) /\ Cardinality(Carrying(p)) \in Nat
                       /\ Cardinality(Orders) \in Nat /\ Cardinality(Carrying(p)) <= Cardinality(Orders)
<1> SUFFICES ASSUME NEW p \in Packers
             PROVE  /\ IsFiniteSet(Carrying(p)) /\ Cardinality(Carrying(p)) \in Nat
                    /\ Cardinality(Orders) \in Nat /\ Cardinality(Carrying(p)) <= Cardinality(Orders)
  OBVIOUS
<1>1. Carrying(p) \subseteq Orders /\ IsFiniteSet(Orders)
  BY PackersAssumption DEF Carrying
<1> QED BY <1>1, FS_Subset, FS_CardinalityType

LEMMA MaxOfTwo == \A m, n \in Int : Max({m, n}) = IF m >= n THEN m ELSE n
<1> SUFFICES ASSUME NEW m \in Int, NEW n \in Int PROVE Max({m, n}) = IF m >= n THEN m ELSE n
  OBVIOUS
<1> DEFINE v == IF m >= n THEN m ELSE n
<1>1. \A x \in {m, n} : (\A y \in {m, n} : x >= y) <=> x = v
  OBVIOUS
<1>2. v \in {m, n}
  OBVIOUS
<1> QED BY <1>1, <1>2 DEF Max

\* Without ratings a count stands for the weight alone.
LEMMA LeastLoaded ==
    ASSUME AssignTyped, Calm, NEW p \in Packers, p \in Selected({}), NEW q \in Packers, points[q] # {}
    PROVE  links[p].count * links[q].weight <= links[q].count * links[p].weight
<1>1. p \in First({})
  BY NoKind DEF Selected
<1>2. q \in Candidates({})
  BY PositiveWeights DEF Calm, Candidates
<1>3. Share(p, q) <= Share(q, p)
  BY <1>1, <1>2 DEF First, NoMoreLoaded
<1>4. Mean(p) = <<4, 1>> /\ Mean(q) = <<4, 1>>
  BY DEF Mean, RatedOrders, Calm
<1>5. \A k \in Packers : links[k].weight \in Nat /\ links[k].count \in Nat
  BY PositiveWeights DEF Calm, AssignTyped, LinkRow
<1>6. \A w \in Nat : EffectiveWeight(w, <<4, 1>>) = <<4 * w, 1>>
  <2> SUFFICES ASSUME NEW w \in Nat PROVE EffectiveWeight(w, <<4, 1>>) = <<4 * w, 1>>
    OBVIOUS
  <2>1. w * 4 \in Int /\ w * 1 \in Int /\ w * 4 >= w * 1 /\ w * 4 = 4 * w
    OBVIOUS
  <2>2. Max({w * 4, w * 1}) = 4 * w
    BY <2>1, MaxOfTwo
  <2> QED BY <2>2 DEF EffectiveWeight
<1>7. /\ Share(p, q) = links[p].count * 1 * (4 * links[q].weight)
      /\ Share(q, p) = links[q].count * 1 * (4 * links[p].weight)
  BY <1>4, <1>5, <1>6 DEF Share
<1>8. \A c, v, d, w \in Nat : c * 1 * (4 * v) <= d * 1 * (4 * w) => c * v <= d * w
  <2> SUFFICES ASSUME NEW c \in Nat, NEW v \in Nat, NEW d \in Nat, NEW w \in Nat,
                      c * 1 * (4 * v) <= d * 1 * (4 * w)
               PROVE  c * v <= d * w
    OBVIOUS
  <2>1. c * 1 * (4 * v) = 4 * (c * v) /\ d * 1 * (4 * w) = 4 * (d * w) /\ c * v \in Int /\ d * w \in Int
    OBVIOUS
  <2> QED BY <2>1
<1> QED BY <1>3, <1>5, <1>7, <1>8

LEMMA Products ==
    ASSUME NEW l \in Int, NEW l2 \in Int, NEW w \in Nat, l2 <= l
    PROVE  l2 * w <= l * w /\ l2 * w \in Int /\ l * w \in Int
<1>1. (l - l2) * w >= 0 /\ (l - l2) * w = l * w - l2 * w
  OBVIOUS
<1> QED BY <1>1

\* A step of the pipeline that leaves links, points and requests alone.
LEMMA PicksMove ==
    ASSUME AssignInv, picks' \in [Orders -> Packers \cup {Nobody, "idle"}],
           UNCHANGED <<mode, points, links, orders, ratings, reqs, moves, stale, abandoned>>,
           moves = 0 /\ Assigns => \A p, q \in Packers : points[q] # {} /\ Balanced(p, q) => Balanced(p, q)'
    PROVE  AssignInv'
<1>1. AssignTyped'
  BY DEF AssignInv, AssignTyped
<1>2. TallyInv'
  BY TallyStands DEF AssignInv
<1>3. LoadInv'
  BY DEF AssignInv, LoadInv, Calm, Assigns, Balanced
<1> QED BY <1>1, <1>2, <1>3 DEF AssignInv

LEMMA SubmissionFailsKeeps ==
    ASSUME AssignInv, NEW o \in Orders, SubmissionFails(o)
    PROVE  AssignInv'
<1>0. /\ picks' = [picks EXCEPT ![o] = "idle"] /\ AssignTyped
      /\ UNCHANGED <<mode, points, links, orders, ratings, reqs, moves, stale, abandoned>>
  BY DEF SubmissionFails, AssignInv
<1>1. picks' \in [Orders -> Packers \cup {Nobody, "idle"}]
  BY <1>0 DEF AssignTyped
<1>2. ASSUME NEW p \in Packers, NEW q \in Packers, Balanced(p, q) PROVE Balanced(p, q)'
  <2>1. Carrying(p)' \subseteq Carrying(p)
    BY <1>0, NoKind DEF Carrying, AssignTyped
  <2>2. /\ Cardinality(Carrying(p)') <= Cardinality(Carrying(p)) /\ Cardinality(Carrying(p)') \in Nat
        /\ Cardinality(Carrying(p)) \in Nat /\ Cardinality(Orders) \in Nat
    BY <2>1, CarryingFacts, FS_Subset, FS_CardinalityType
  <2>3. links[p].count \in Nat /\ links[q].count * links[p].weight \in Int /\ links[q].weight \in Nat
    BY <1>0, LinkNumbers
  <2>4. (links[p].count + Cardinality(Carrying(p)') - Cardinality(Orders)) * links[q].weight
          <= (links[p].count + Cardinality(Carrying(p)) - Cardinality(Orders)) * links[q].weight
    <3>1. PICK l \in Int, m \in Int, w \in Nat :
             /\ l = links[p].count + Cardinality(Carrying(p)) - Cardinality(Orders)
             /\ m = links[p].count + Cardinality(Carrying(p)') - Cardinality(Orders) /\ w = links[q].weight
      BY <2>2, <2>3
    <3>2. m <= l
      BY <2>2, <2>3, <3>1
    <3> QED BY <3>1, <3>2, Products
  <2> QED BY <1>0, <1>2, <2>2, <2>3, <2>4 DEF Balanced
<1> QED BY <1>0, <1>1, <1>2, PicksMove

LEMMA SelectPackerKeeps ==
    ASSUME AssignInv, NEW o \in Orders, SelectPacker(o)
    PROVE  AssignInv'
<1>1. PICK p \in Selected({}) :
        /\ picks[o] = "idle" /\ picks' = [picks EXCEPT ![o] = IF Fits(p, o) THEN p ELSE Nobody]
        /\ UNCHANGED <<mode, points, links, orders, ratings, reqs, moves, stale, abandoned>>
  BY DEF SelectPacker
<1>2. AssignTyped /\ p \in Packers \cup {Nobody} /\ picks' \in [Orders -> Packers \cup {Nobody, "idle"}]
  BY <1>1, SelectedIs DEF AssignInv, AssignTyped
<1>3. ASSUME moves = 0, NEW k \in Packers, NEW q \in Packers, points[q] # {}, Balanced(k, q)
      PROVE  Balanced(k, q)'
  <2>1. CASE k = p
    <3>1. links[k].count * links[q].weight <= links[q].count * links[k].weight
      BY <1>1, <1>2, <1>3, <2>1, LeastLoaded DEF AssignInv, LoadInv
    <3>2. Cardinality(Carrying(k)') \in Nat /\ Cardinality(Orders) \in Nat /\ Cardinality(Carrying(k)') <= Cardinality(Orders)
      <4>1. Carrying(k)' \subseteq Orders /\ IsFiniteSet(Orders)
        BY PackersAssumption DEF Carrying
      <4> QED BY <4>1, FS_Subset, FS_CardinalityType
    <3>3. PICK l \in Int, m \in Int, w \in Nat :
             /\ l = links[k].count /\ w = links[q].weight
             /\ m = links[k].count + Cardinality(Carrying(k)') - Cardinality(Orders)
      BY <1>2, <3>2, LinkNumbers
    <3>4. m <= l
      BY <1>2, <3>2, <3>3, LinkNumbers
    <3>5. m * w <= l * w /\ m * w \in Int /\ l * w \in Int
      BY <3>3, <3>4, Products
    <3>6. links[q].count * links[k].weight \in Int
      BY <1>2, LinkNumbers
    <3> QED BY <1>1, <3>1, <3>3, <3>5, <3>6 DEF Balanced
  <2>2. CASE k # p
    <3>1. Carrying(k)' = Carrying(k)
      BY <1>1, <1>2, <2>2, NoKind DEF Carrying, AssignTyped, Fits
    <3> QED BY <1>1, <1>3, <3>1 DEF Balanced
  <2> QED BY <2>1, <2>2
<1> QED BY <1>1, <1>2, <1>3, PicksMove

\* The order's row comes to be, with an entry for the packer if there is one.
LEMMA CommitAssignmentKeeps ==
    ASSUME AssignInv, NEW o \in Orders, CommitAssignment(o)
    PROVE  AssignInv'
<1> DEFINE row == [orders[o] EXCEPT !.packing = IF @ = "none" THEN "awaiting_packing" ELSE @]
           p == picks[o]
<1>0. /\ p # "idle" /\ picks' = [picks EXCEPT ![o] = "idle"] /\ AssignTyped
      /\ UNCHANGED <<mode, points, ratings, reqs, moves, stale, abandoned>>
      /\ p = Nobody => orders' = [orders EXCEPT ![o] = row] /\ UNCHANGED links
      /\ p # Nobody => /\ links' = [links EXCEPT ![p].count = @ + 1]
                       /\ orders' = [orders EXCEPT ![o] = [row EXCEPT !.packer = p, !.history = AppendEntry(@, p)]]
  BY DEF CommitAssignment, Counted, AssignInv
<1>1. /\ row \in OrderRow /\ row.history = orders[o].history /\ row.packer = orders[o].packer
      /\ p \in Packers \cup {Nobody} /\ picks' \in [Orders -> Packers \cup {Nobody, "idle"}]
  <2>1. orders[o] \in OrderRow /\ p \in Packers \cup {Nobody}
    BY <1>0 DEF AssignTyped
  <2> DEFINE packed == IF orders[o].packing = "none" THEN "awaiting_packing" ELSE orders[o].packing
  <2>2. packed \in {"none", "awaiting_packing", "packed", "dropped_off"} /\ row = [orders[o] EXCEPT !.packing = packed]
    BY <2>1 DEF OrderRow
  <2> HIDE DEF packed
  <2>3. row \in OrderRow /\ row.history = orders[o].history /\ row.packer = orders[o].packer
    BY <2>1, <2>2 DEF OrderRow
  <2>4. picks' \in [Orders -> Packers \cup {Nobody, "idle"}]
    BY <1>0 DEF AssignTyped
  <2> QED BY <2>1, <2>3, <2>4
<1> HIDE DEF row, p
<1>2. CASE p = Nobody
  <2>1. /\ orders' \in [Orders -> OrderRow]
        /\ \A q \in Orders : orders'[q].history = orders[q].history /\ orders'[q].packer = orders[q].packer
    <3>1. orders' = [orders EXCEPT ![o] = row] /\ orders \in [Orders -> OrderRow]
      BY <1>0, <1>2 DEF AssignTyped
    <3> QED BY <1>1, <3>1
  <2>2. AssignTyped'
    BY <1>0, <1>1, <1>2, <2>1 DEF AssignTyped
  <2>3. TallyInv'
    BY <1>0, <1>2, <2>1, TallyStands DEF AssignInv
  <2>4. \A k \in Packers : Carrying(k)' = Carrying(k)
    BY <1>0, <1>1, <1>2, NoKind DEF Carrying, AssignTyped, p
  <2>5. LoadInv'
    BY <1>0, <1>2, <2>4 DEF AssignInv, LoadInv, Calm, Assigns
  <2> QED BY <2>2, <2>3, <2>5 DEF AssignInv
<1>3. CASE p # Nobody
  <2> DEFINE new == [row EXCEPT !.packer = p, !.history = AppendEntry(@, p)]
  <2>1. p \in Packers /\ orders[o].history \in Seq(Entry) /\ AppendEntry(orders[o].history, p) \in Seq(Entry)
    BY <1>0, <1>1, <1>3, AppendedEntry DEF AssignTyped, OrderRow
  <2>2. new \in OrderRow /\ new.packer = p /\ new.history = AppendEntry(orders[o].history, p)
    BY <1>1, <2>1 DEF OrderRow
  <2>3. orders' = [orders EXCEPT ![o] = new]
    BY <1>0, <1>3
  <2> HIDE DEF new
  <2>4. /\ orders' \in [Orders -> OrderRow] /\ orders'[o] = new
        /\ \A q \in Orders : q # o => orders'[q] = orders[q]
    BY <1>0, <2>2, <2>3 DEF AssignTyped
  <2>5. /\ links' \in [Packers -> LinkRow]
        /\ \A k \in Packers : /\ links'[k].count = links[k].count + (IF k = p THEN 1 ELSE 0)
                              /\ links'[k].status = links[k].status /\ links'[k].weight = links[k].weight
    <3>1. links \in [Packers -> LinkRow]
      BY <1>0 DEF AssignTyped
    <3> DEFINE e == [links[p] EXCEPT !.count = @ + 1]
    <3>2. /\ e \in LinkRow /\ e.count = links[p].count + 1 /\ e.status = links[p].status
          /\ e.weight = links[p].weight
      BY SMTT(30), <2>1, <3>1 DEF LinkRow
    <3>3. links' = [links EXCEPT ![p] = e]
      BY <1>0, <1>3, <2>1, <3>1
    <3> HIDE DEF e
    <3>4. \A k \in Packers : links[k].count \in Nat
      BY <1>0, LinkNumbers
    <3> QED BY <2>1, <3>1, <3>2, <3>3, <3>4
  <2>6. AssignTyped'
    BY <1>0, <1>1, <2>4, <2>5 DEF AssignTyped
  <2>7. TallyInv'
    <3>1. ASSUME ~stale PROVE Tallied(links', orders', abandoned')
      <4> SUFFICES ASSUME NEW k \in Packers
                   PROVE  IsFiniteSet(Open(orders', k)) /\ links'[k].count = Cardinality(Open(orders', k)) + abandoned[k]
        BY <1>0 DEF Tallied
      <4>1. IsFiniteSet(Open(orders, k)) /\ links[k].count = Cardinality(Open(orders, k)) + abandoned[k]
        BY <3>1 DEF AssignInv, TallyInv, Tallied
      <4>2. Histories(orders) /\ orders'[o].history = AppendEntry(orders[o].history, p)
        BY <1>0, <2>2, <2>4 DEF Histories, AssignTyped, OrderRow
      <4>3. \A q \in Orders : q # o => orders'[q].history = orders[q].history
        BY <2>4
      <4>4. /\ IsFiniteSet(Open(orders', k)) /\ Cardinality(Open(orders, k)) \in Nat
            /\ Cardinality(Open(orders', k)) = Cardinality(Open(orders, k)) + (IF k = p THEN 1 ELSE 0)
        BY <2>1, <4>1, <4>2, <4>3, EntryAdded
      <4>5. abandoned[k] \in Nat
        BY <1>0 DEF AssignTyped
      <4> QED BY <2>5, <4>1, <4>4, <4>5
    <3>2. ASSUME ~stale, NEW q \in Orders, orders'[q].packer # Nobody
          PROVE  EndsWith(orders'[q].history, orders'[q].packer)
      <4>1. CASE q = o
        BY <2>1, <2>2, <2>4, <4>1, AppendedEntry
      <4>2. CASE q # o
        BY <2>4, <3>2, <4>2 DEF AssignInv, TallyInv
      <4> QED BY <4>1, <4>2
    <3> QED BY <1>0, <3>1, <3>2 DEF AssignInv, TallyInv
  <2>8. LoadInv'
    <3> SUFFICES ASSUME moves = 0 PROVE LoadInv'
      BY <1>0 DEF LoadInv
    <3>1. Calm'
      BY <1>0, <2>5 DEF AssignInv, LoadInv, Calm
    <3>2. ASSUME NEW k \in Packers, NEW q \in Packers, Balanced(k, q) PROVE Balanced(k, q)'
      <4>1. links'[k].count + Cardinality(Carrying(k)') = links[k].count + Cardinality(Carrying(k))
        <5>1. Cardinality(Carrying(k)) \in Nat /\ IsFiniteSet(Carrying(k)) /\ links[k].count \in Nat
          BY <1>0, CarryingFacts, LinkNumbers
        <5>2. CASE k = p
          <6>1. Carrying(k)' = Carrying(k) \ {o} /\ o \in Carrying(k)
            BY <1>0, <5>2, NoKind DEF Carrying, AssignTyped, p
          <6>2. Cardinality(Carrying(k)') = Cardinality(Carrying(k)) - 1
            BY <5>1, <6>1, FS_RemoveElement
          <6> QED BY <2>5, <5>1, <5>2, <6>2
        <5>3. CASE k # p
          <6>1. Carrying(k)' = Carrying(k)
            BY <1>0, <5>3, NoKind DEF Carrying, AssignTyped, p
          <6> QED BY <2>5, <5>1, <5>3, <6>1
        <5> QED BY <5>2, <5>3
      <4>2. links[q].count * links[k].weight <= links'[q].count * links[k].weight
        <5>1. PICK l \in Int, m \in Int, w \in Nat : l = links'[q].count /\ m = links[q].count /\ w = links[k].weight /\ m <= l
          BY <1>0, <2>5, LinkNumbers
        <5> QED BY <5>1, Products
      <4>3. PICK a1 \in Int, b1 \in Int, c1 \in Int :
              /\ a1 = (links[k].count + Cardinality(Carrying(k)) - Cardinality(Orders)) * links[q].weight
              /\ b1 = links[q].count * links[k].weight /\ c1 = links'[q].count * links[k].weight
        <5>1. /\ links[k].count \in Nat /\ links[k].weight \in Nat /\ links[q].count \in Nat /\ links[q].weight \in Nat
              /\ Cardinality(Carrying(k)) \in Nat /\ Cardinality(Orders) \in Nat /\ links'[q].count \in Nat
          BY <1>0, <2>5, CarryingFacts, LinkNumbers
        <5>2. PICK l \in Int, w \in Nat :
                 l = links[k].count + Cardinality(Carrying(k)) - Cardinality(Orders) /\ w = links[q].weight
          BY <5>1
        <5>3. /\ (links[k].count + Cardinality(Carrying(k)) - Cardinality(Orders)) * links[q].weight \in Int
              /\ links[q].count * links[k].weight \in Int /\ links'[q].count * links[k].weight \in Int
          BY <5>1, <5>2
        <5> QED BY <5>3
      <4>4. a1 <= b1 /\ b1 <= c1
        BY <3>2, <4>2, <4>3 DEF Balanced
      <4>5. Balanced(k, q)' <=> (links'[k].count + Cardinality(Carrying(k)') - Cardinality(Orders)) * links'[q].weight
                                  <= links'[q].count * links'[k].weight
        BY DEF Balanced
      <4>6. (links'[k].count + Cardinality(Carrying(k)') - Cardinality(Orders)) * links'[q].weight = a1
        <5>1. links'[q].weight = links[q].weight
          BY <2>5
        <5>2. links'[k].count + Cardinality(Carrying(k)') - Cardinality(Orders)
                = links[k].count + Cardinality(Carrying(k)) - Cardinality(Orders)
          <6>1. Cardinality(Carrying(k)) \in Nat /\ Cardinality(Orders) \in Nat /\ links[k].count \in Nat
            BY <1>0, CarryingFacts, LinkNumbers
          <6>2. Carrying(k)' \subseteq Orders /\ IsFiniteSet(Orders)
            BY PackersAssumption DEF Carrying
          <6>3. Cardinality(Carrying(k)') \in Nat /\ links'[k].count \in Nat
            BY <1>0, <2>5, <6>1, <6>2, FS_Subset, FS_CardinalityType
          <6> QED BY <4>1, <6>1, <6>3
        <5> QED BY <4>3, <5>1, <5>2
      <4>7. links'[q].count * links'[k].weight = c1
        BY <2>5, <4>3
      <4> QED BY <4>3, <4>4, <4>5, <4>6, <4>7
    <3> QED BY <1>0, <3>1, <3>2 DEF AssignInv, LoadInv, Assigns, Balanced
  <2> QED BY <2>6, <2>7, <2>8 DEF AssignInv
<1> QED BY <1>2, <1>3

LEMMA AssignNext == AssignInv /\ [Next]_vars => AssignInv'
<1> SUFFICES ASSUME AssignInv, [Next]_vars PROVE AssignInv'
  OBVIOUS
<1>1. ASSUME NEW o \in Orders, SelectPacker(o) \/ CommitAssignment(o) \/ SubmissionFails(o) PROVE AssignInv'
  BY <1>1, SelectPackerKeeps, CommitAssignmentKeeps, SubmissionFailsKeeps
<1>2. ASSUME NEW o \in Orders,
             \/ \E status \in {"awaiting_packing", "packed", "dropped_off"} :
                  SetPacking(o, status) \/ \E p \in Packers : PackerPacks(o, p, status)
             \/ \E p \in Packers : PackerUploads(o, p) \/ PackerConfirms(o, p)
             \/ Deliver(o) \/ Reprocess(o)
      PROVE  AssignInv'
  BY <1>2, OrderHandled, ReprocessKeeps DEF PackerPacks, PackerUploads, PackerConfirms
<1>3. ASSUME NEW r \in Requests,
             \/ \E o \in Orders : ReadOrder(r, o)
             \/ ReadLink(r) \/ PickReplacement(r) \/ CommitDecline(r)
             \/ \E o \in Orders, p \in Packers : ReadForRating(r, o, p)
             \/ SaveRating(r)
      PROVE  AssignInv'
  BY <1>3, ReadOrderKeeps, ReadLinkKeeps, PickReplacementKeeps, CommitDeclineKeeps, ReadForRatingKeeps, SaveRatingKeeps
<1>4. CASE SetMode \/ \E p \in Packers : UpdateLink(p) \/ Unlink(p) \/ Relink(p) \/ EditProfile(p)
  BY <1>4, LinkHandled, SettingsHandled
<1>5. CASE UNCHANGED vars
  <2>1. UNCHANGED <<mode, points, links, orders, picks, ratings, reqs, moves, stale, abandoned>>
    BY <1>5 DEF vars
  <2>2. AssignTyped' /\ TallyInv'
    BY <2>1, TallyStands DEF AssignInv, AssignTyped
  <2>3. LoadInv'
    BY <2>1 DEF AssignInv, LoadInv, Calm, Assigns, Carrying
  <2> QED BY <2>2, <2>3 DEF AssignInv
<1> QED BY <1>1, <1>2, <1>3, <1>4, <1>5 DEF Next

\* While no decline writes over what it has not seen, a packer's counter is the number of
\* its assignments that were not declined, those of reprocessed orders included.
THEOREM CountsAreOpenAssignmentsHolds == Spec => []CountsAreOpenAssignments
<1>1. AssignInv => CountsAreOpenAssignments
  <2> SUFFICES ASSUME AssignInv, ~stale, NEW p \in Packers PROVE links[p].count = Cardinality(OpenAssignments(p)) + abandoned[p]
    BY DEF CountsAreOpenAssignments
  <2>1. OpenAssignments(p) = Open(orders, p)
    BY OpenIs DEF AssignInv
  <2> QED BY <2>1 DEF AssignInv, TallyInv, Tallied
<1> QED BY <1>1, AssignInit, AssignNext, PTL DEF Spec

\* However submissions overlap, no packer with a collection point is left behind
\* its weight's share by more than they are.
THEOREM LoadSharedHolds == Spec => []LoadShared
<1>1. AssignInv => LoadShared
  <2> SUFFICES ASSUME AssignInv, Undisturbed, NEW p \in Packers, NEW q \in Packers, points[q] # {}
               PROVE  (links[p].count - Cardinality(Orders)) * links[q].weight <= links[q].count * links[p].weight
    BY DEF LoadShared
  <2>1. Balanced(p, q) /\ AssignTyped
    BY DEF AssignInv, LoadInv, Undisturbed, Balanced
  <2>2. /\ links[p].count \in Nat /\ links[q].weight \in Nat /\ links[q].count * links[p].weight \in Int
        /\ Cardinality(Carrying(p)) \in Nat /\ Cardinality(Orders) \in Nat
    BY <2>1, CarryingFacts, LinkNumbers
  <2>3. PICK l \in Int, m \in Int, w \in Nat :
          /\ l = links[p].count + Cardinality(Carrying(p)) - Cardinality(Orders)
          /\ m = links[p].count - Cardinality(Orders) /\ w = links[q].weight /\ m <= l
    BY <2>2
  <2>4. m * w <= l * w /\ m * w \in Int /\ l * w \in Int
    BY <2>3, Products
  <2> QED BY <2>1, <2>2, <2>3, <2>4 DEF Balanced
<1> QED BY <1>1, AssignInit, AssignNext, PTL DEF Spec

-----------------------------------------------------------------------------
(* How packers come: the invites. *)

InviteRow == [status : {"none", "pending", "revoked", "expired", "accepted"},
              email : Packers \cup {Nobody}, packer : Packers \cup {Nobody}]
RosterRow == [status : {"none", "active", "paused", "kicked"}, via : Invitations \cup {Nobody}]

\* What a request between two of its steps works on.
Inviting == [kind : {"invite"}, packer : Packers]
SigningUp == [kind : {"signup"}, packer : Packers, invite : Invitations \cup {Nobody}]
Redeeming == [kind : {"redeem"}, packer : Packers, invite : Invitations]
Carried == {I!Idle} \cup Inviting \cup SigningUp \cup Redeeming

LEMMA CarriedKinds ==
    ASSUME NEW q \in Carried
    PROVE  /\ q.kind = "invite" => q \in Inviting
           /\ q.kind = "signup" => q \in SigningUp
           /\ q.kind = "redeem" => q \in Redeeming
  BY DEF Carried, I!Idle, Inviting, SigningUp, Redeeming

InvitesTyped ==
    /\ invites \in [Invitations -> InviteRow]
    /\ roster \in [Packers -> RosterRow]
    /\ callers \in [Callers -> Carried]

InvitesInv == InvitesTyped /\ LinkNamesItsInvite

\* An invite that was accepted stays so, and nobody else's link names one that was not.
LEMMA RedeemKeeps ==
    ASSUME InvitesInv, NEW i \in Invitations, NEW p \in Packers, I!Redeem(i, p)
    PROVE  /\ invites' \in [Invitations -> InviteRow] /\ roster' \in [Packers -> RosterRow]
           /\ LinkNamesItsInvite'
<1>0. i # Nobody
  BY PackingAssumption DEF I!InvitesAssumption
<1>1. CASE I!Fresh(i)
  <2>1. /\ roster' = [roster EXCEPT ![p] = [status |-> "active", via |-> i]]
        /\ invites' = [invites EXCEPT ![i].status = "accepted", ![i].packer = p]
        /\ invites[i].status = "pending"
    BY <1>1 DEF I!Redeem, I!Accepted, I!Fresh
  <2>2. [status |-> "active", via |-> i] \in RosterRow
    BY DEF RosterRow
  <2>3. invites' \in [Invitations -> InviteRow] /\ roster' \in [Packers -> RosterRow]
    BY <2>1, <2>2 DEF InvitesInv, InvitesTyped, InviteRow
  <2>4. /\ \A j \in Invitations \ {i} : invites'[j] = invites[j]
        /\ invites'[i].status = "accepted" /\ invites'[i].packer = p
    BY <2>1 DEF InvitesInv, InvitesTyped, InviteRow
  <2>5. \A q \in Packers \ {p} : roster'[q] = roster[q]
    BY <2>1 DEF InvitesInv, InvitesTyped
  <2>6. roster'[p].via = i
    BY <2>1 DEF InvitesInv, InvitesTyped
  <2>7. \A q \in Packers : roster[q].via \in Invitations \cup {Nobody}
    BY DEF InvitesInv, InvitesTyped, RosterRow
  <2> QED BY <2>1, <2>3, <2>4, <2>5, <2>6, <2>7 DEF InvitesInv, LinkNamesItsInvite, I!LinkNamesItsInvite
<1>2. CASE ~I!Fresh(i)
  <2>1. /\ UNCHANGED roster
        /\ \/ invites[i].status = "pending" /\ invites' = [invites EXCEPT ![i].status = "expired"]
           \/ UNCHANGED invites
    BY <1>2 DEF I!Redeem
  <2>2. invites' \in [Invitations -> InviteRow] /\ roster' \in [Packers -> RosterRow]
    BY <2>1 DEF InvitesInv, InvitesTyped, InviteRow
  <2>3. \A j \in Invitations : invites[j].status = "accepted" => invites'[j] = invites[j]
    BY <2>1 DEF InvitesInv, InvitesTyped, InviteRow
  <2>4. \A q \in Packers : roster[q].via # Nobody => roster[q].via \in Invitations
    BY DEF InvitesInv, InvitesTyped, RosterRow
  <2> QED BY <2>1, <2>2, <2>3, <2>4 DEF InvitesInv, LinkNamesItsInvite, I!LinkNamesItsInvite
<1> QED BY <1>1, <1>2

LEMMA InvitesInit == I!Init => InvitesInv
  BY DEF I!Init, InvitesInv, InvitesTyped, InviteRow, RosterRow, Carried, I!NoInvite, I!Idle,
         LinkNamesItsInvite, I!LinkNamesItsInvite

LEMMA InvitesNext == InvitesInv /\ [I!Next]_iVars => InvitesInv'
<1> SUFFICES ASSUME InvitesInv, [I!Next]_iVars PROVE InvitesInv'
  OBVIOUS
<1>0. /\ callers \in [Callers -> Carried]
      /\ invites \in [Invitations -> InviteRow] /\ roster \in [Packers -> RosterRow]
  BY DEF InvitesInv, InvitesTyped
<1>a. ASSUME UNCHANGED <<invites, roster>>, callers' \in [Callers -> Carried]
      PROVE  InvitesInv'
  BY <1>a DEF InvitesInv, InvitesTyped, LinkNamesItsInvite, I!LinkNamesItsInvite
<1>1. ASSUME NEW r \in Callers, NEW p \in Packers, I!CheckLinked(r, p) PROVE InvitesInv'
  BY <1>a, <1>0, <1>1 DEF I!CheckLinked, Carried, Inviting
<1>2. ASSUME NEW r \in Callers, NEW p \in Packers, NEW i \in Invitations \cup {Nobody}, I!SignUpCheck(r, p, i)
      PROVE  InvitesInv'
  BY <1>a, <1>0, <1>2 DEF I!SignUpCheck, Carried, SigningUp
<1>3. ASSUME NEW r \in Callers, NEW i \in Invitations, I!CreateInvite(r, i) PROVE InvitesInv'
  <2>1. PICK p \in Packers : p = callers[r].packer
    BY <1>0, <1>3, CarriedKinds DEF I!CreateInvite, Inviting
  <2>2. callers' \in [Callers -> Carried]
    BY <1>0, <1>3 DEF I!CreateInvite, Carried
  <2>3. /\ invites' = [j \in Invitations |->
              IF j = i THEN [status |-> "pending", email |-> p, packer |-> Nobody]
              ELSE IF invites[j].status = "pending" /\ invites[j].email = p
                   THEN [invites[j] EXCEPT !.status = "revoked"] ELSE invites[j]]
        /\ invites[i].status = "none" /\ UNCHANGED roster
    BY <1>3, <2>1 DEF I!CreateInvite
  <2>4. invites' \in [Invitations -> InviteRow]
    BY <1>0, <2>3 DEF InviteRow
  <2>5. \A j \in Invitations : invites[j].status = "accepted" => invites'[j] = invites[j]
    BY <2>3
  <2>6. \A q \in Packers : roster[q].via # Nobody => roster[q].via \in Invitations
    BY <1>0 DEF RosterRow
  <2> QED BY <1>0, <2>2, <2>3, <2>4, <2>5, <2>6 DEF InvitesInv, InvitesTyped, LinkNamesItsInvite, I!LinkNamesItsInvite
<1>4. ASSUME NEW r \in Callers, I!Register(r) PROVE InvitesInv'
  <2>1. UNCHANGED <<invites, roster>>
    BY <1>4 DEF I!Register
  <2>2. callers[r] \in SigningUp
    BY <1>0, <1>4, CarriedKinds DEF I!Register
  <2>3. \/ callers' = [callers EXCEPT ![r] = I!Idle]
        \/ callers[r].invite # Nobody /\ callers' = [callers EXCEPT ![r] = [callers[r] EXCEPT !.kind = "redeem"]]
    <3>1. CASE callers[r].packer \in accounts
      BY <1>4, <3>1 DEF I!Register
    <3>2. CASE callers[r].packer \notin accounts
      BY <1>4, <3>2 DEF I!Register
    <3> QED BY <3>1, <3>2
  <2>4. callers[r].invite # Nobody => [callers[r] EXCEPT !.kind = "redeem"] \in Redeeming
    BY <2>2 DEF SigningUp, Redeeming
  <2>5. callers' \in [Callers -> Carried]
    BY <1>0, <2>3, <2>4 DEF Carried
  <2> QED BY <1>a, <2>1, <2>5
<1>5. ASSUME NEW r \in Callers, I!SignUpRedeem(r) PROVE InvitesInv'
  <2>1. callers[r].packer \in Packers /\ callers[r].invite \in Invitations
    BY <1>0, <1>5, CarriedKinds DEF I!SignUpRedeem, Redeeming
  <2>2. callers' \in [Callers -> Carried]
    BY <1>0, <1>5 DEF I!SignUpRedeem, Carried
  <2>3. I!Redeem(callers[r].invite, callers[r].packer)
    BY <1>5 DEF I!SignUpRedeem
  <2> QED BY <2>1, <2>2, <2>3, RedeemKeeps DEF InvitesInv, InvitesTyped
<1>6. ASSUME NEW i \in Invitations, I!Revoke(i) PROVE InvitesInv'
  <2>1. UNCHANGED <<roster, callers>> /\ invites[i].status = "pending"
        /\ invites' = [invites EXCEPT ![i].status = "revoked"]
    BY <1>6 DEF I!Revoke
  <2>2. invites' \in [Invitations -> InviteRow]
    BY <1>0, <2>1 DEF InviteRow
  <2> QED BY <1>0, <2>1, <2>2 DEF InvitesInv, InvitesTyped, LinkNamesItsInvite, I!LinkNamesItsInvite, RosterRow
<1>7. ASSUME NEW i \in Invitations, I!Lapse(i) PROVE InvitesInv'
  BY <1>a, <1>0, <1>7 DEF I!Lapse
<1>8. ASSUME NEW i \in Invitations, NEW p \in Packers, I!Accept(p, i) PROVE InvitesInv'
  <2>1. callers' \in [Callers -> Carried]
    BY <1>0, <1>8 DEF I!Accept
  <2> QED BY <1>8, <2>1, RedeemKeeps DEF I!Accept, InvitesInv, InvitesTyped
<1>9. ASSUME NEW p \in Packers, I!UpdateLink(p) \/ I!Unlink(p) PROVE InvitesInv'
  <2>1. PICK s \in {"active", "paused", "kicked"} :
          UNCHANGED <<invites, callers>> /\ roster' = [roster EXCEPT ![p].status = s]
    BY <1>9 DEF I!UpdateLink, I!Unlink
  <2>2. roster' \in [Packers -> RosterRow]
    BY <1>0, <2>1 DEF RosterRow
  <2>3. \A q \in Packers : roster'[q].via = roster[q].via
    BY <1>0, <2>1 DEF RosterRow
  <2> QED BY <1>0, <2>1, <2>2, <2>3 DEF InvitesInv, InvitesTyped, LinkNamesItsInvite, I!LinkNamesItsInvite
<1>10. CASE UNCHANGED iVars
  BY <1>a, <1>0, <1>10 DEF iVars
<1> QED BY <1>1, <1>2, <1>3, <1>4, <1>5, <1>6, <1>7, <1>8, <1>9, <1>10 DEF I!Next

\* Whatever invitations, sign-ups, acceptances and revocations overlap, a link
\* names an invite that was accepted by that link's packer.
THEOREM LinkNamesItsInviteHolds == I!Spec => []LinkNamesItsInvite
<1>1. [I!Next]_I!vars => [I!Next]_iVars
  BY DEF I!vars, iVars
<1>2. InvitesInv => LinkNamesItsInvite
  BY DEF InvitesInv
<1> QED BY <1>1, <1>2, InvitesInit, InvitesNext, PTL DEF I!Spec

-----------------------------------------------------------------------------
(* What packers are sent: the digests.  A pass under way knows that its    *)
(* own process holds the lock, so no other process is in a pass; and who   *)
(* is left to tell has not been told.                                      *)

PassPc == {"new", "locked", "pass", "done"} \cup Readers

DigestTyped ==
    /\ lock \in [by : D!Connections \cup {Nobody}, times : Int]
    /\ pc \in [Ticks -> PassPc] /\ due \in [Ticks -> SUBSET Readers]
    /\ sent \in [Readers -> Nat] /\ marked \in SUBSET Readers /\ clean \in BOOLEAN

\* Passes exclude one another, and keep the lock in a connection of their process.
PassAlone ==
    /\ \A t, u \in Ticks : D!InPass(t) /\ D!InPass(u) => t = u
    /\ \A t \in Ticks : D!InPass(t) => lock.by \in Pool[Proc[t]]

\* A packer who was told is marked, or about to be.
ToldAndMarked ==
    /\ \A p \in Readers : sent[p] <= 1 /\ (sent[p] = 1 => p \in marked \/ \E t \in Ticks : pc[t] = p)
    /\ \A t \in Ticks : pc[t] = "pass" \/ pc[t] \in Readers => due[t] \cap marked = {}

DigestInv == DigestTyped /\ (clean => PassAlone /\ ToldAndMarked)

LEMMA DigestNames ==
    /\ Nobody \notin D!Connections
    /\ \A p \in Readers : p \notin {"new", "locked", "pass", "done"}
    /\ \A t \in Ticks : Pool[Proc[t]] \subseteq D!Connections
    /\ \A t, u \in Ticks : Pool[Proc[t]] \cap Pool[Proc[u]] # {} => Proc[t] = Proc[u]
  BY PackingAssumption DEF D!DigestAssumption, D!Connections, D!Processes

LEMMA DigestInit == D!Init => DigestInv
  BY DigestNames DEF D!Init, DigestInv, DigestTyped, PassAlone, ToldAndMarked, PassPc, D!Free, D!InPass

\* A tick that goes on in its pass, or ends it, disturbs nobody else's.
LEMMA PassGoesOn ==
    ASSUME PassAlone, NEW t \in Ticks, NEW l, D!InPass(t), DigestTyped,
           pc' = [pc EXCEPT ![t] = l], UNCHANGED lock
    PROVE  PassAlone'
  BY DEF PassAlone, DigestTyped, D!InPass

LEMMA DigestNext == DigestInv /\ [D!Next]_dVars => DigestInv'
<1> SUFFICES ASSUME DigestInv, [D!Next]_dVars PROVE DigestInv'
  OBVIOUS
<1> USE DigestNames
<1>0. DigestTyped /\ (clean => PassAlone /\ ToldAndMarked)
  BY DEF DigestInv
<1>1. ASSUME NEW t \in Ticks, NEW c \in D!Connections, D!TryLock(t, c) PROVE DigestInv'
  <2>1. CASE D!Grant(c)
    <3>1. /\ lock' = [by |-> c, times |-> lock.times + 1] /\ pc' = [pc EXCEPT ![t] = "locked"]
          /\ clean' = (clean /\ ~\E u \in Ticks : Proc[u] = Proc[t] /\ D!InPass(u))
          /\ UNCHANGED <<due, sent, marked>> /\ pc[t] = "new" /\ c \in Pool[Proc[t]]
      BY <1>1, <2>1 DEF D!TryLock
    <3>2. DigestTyped'
      BY <1>0, <3>1 DEF DigestTyped, PassPc
    <3>3. ASSUME clean' PROVE PassAlone'
      <4>1. \A u \in Ticks : ~D!InPass(u)
        <5> SUFFICES ASSUME NEW u \in Ticks, D!InPass(u) PROVE FALSE
          OBVIOUS
        <5>1. lock.by \in Pool[Proc[u]] /\ Proc[u] # Proc[t]
          BY <1>0, <3>1, <3>3 DEF PassAlone
        <5>2. lock.by = c
          BY <2>1, <5>1 DEF D!Grant
        <5> QED BY <3>1, <5>1, <5>2
      <4>2. \A u \in Ticks : D!InPass(u)' => u = t
        BY <1>0, <3>1, <4>1 DEF D!InPass, DigestTyped
      <4> QED BY <3>1, <4>2 DEF PassAlone
    <3>4. ASSUME clean' PROVE ToldAndMarked'
      BY <1>0, <3>1, <3>4 DEF ToldAndMarked, DigestTyped
    <3> QED BY <3>2, <3>3, <3>4 DEF DigestInv
  <2>2. CASE ~D!Grant(c)
    <3>1. pc' = [pc EXCEPT ![t] = "done"] /\ UNCHANGED <<lock, clean, due, sent, marked>> /\ pc[t] = "new"
      BY <1>1, <2>2 DEF D!TryLock
    <3> QED BY <1>0, <3>1 DEF DigestInv, DigestTyped, PassPc, PassAlone, ToldAndMarked, D!InPass
  <2> QED BY <2>1, <2>2
<1>2. ASSUME NEW t \in Ticks, NEW c \in D!Connections, D!Unlock(t, c) PROVE DigestInv'
  <2>1. /\ pc' = [pc EXCEPT ![t] = "done"] /\ pc[t] = "pass" /\ lock' = (IF lock.by = c THEN D!Released ELSE lock)
        /\ UNCHANGED <<due, sent, marked, clean>> /\ c # Nobody
    BY <1>2 DEF D!Unlock
  <2>2. DigestTyped'
    <3>1. D!Released \in [by : D!Connections \cup {Nobody}, times : Int]
      BY <1>0 DEF DigestTyped, D!Released, D!Free
    <3> QED BY <1>0, <2>1, <3>1 DEF DigestTyped, PassPc
  <2>3. ASSUME clean PROVE PassAlone'
    BY <1>0, <2>1, <2>3 DEF PassAlone, DigestTyped, D!InPass
  <2>4. ASSUME clean PROVE ToldAndMarked'
    BY <1>0, <2>1, <2>4 DEF ToldAndMarked, DigestTyped
  <2> QED BY <2>1, <2>2, <2>3, <2>4 DEF DigestInv
<1>3. ASSUME NEW t \in Ticks, D!ReadDue(t) PROVE DigestInv'
  <2>1. /\ pc[t] = "locked" /\ pc' = [pc EXCEPT ![t] = "pass"]
        /\ due' = [due EXCEPT ![t] = Readers \ marked] /\ UNCHANGED <<lock, sent, marked, clean>>
    BY <1>3 DEF D!ReadDue, D!Due
  <2>2. D!InPass(t)
    BY <2>1 DEF D!InPass
  <2>3. DigestTyped' /\ (clean => ToldAndMarked')
    BY <1>0, <2>1 DEF DigestTyped, PassPc, ToldAndMarked
  <2> QED BY <1>0, <2>1, <2>2, <2>3, PassGoesOn DEF DigestInv
<1>4. ASSUME NEW t \in Ticks, D!Mark(t) PROVE DigestInv'
  <2>1. /\ pc[t] \in Readers /\ due' = [due EXCEPT ![t] = @ \ {pc[t]}] /\ pc' = [pc EXCEPT ![t] = "pass"]
        /\ \/ marked' = marked \cup {pc[t]} /\ UNCHANGED clean
           \/ clean' = FALSE /\ UNCHANGED marked
        /\ UNCHANGED <<lock, sent>>
    BY <1>4 DEF D!Mark
  <2>2. D!InPass(t)
    BY <2>1 DEF D!InPass
  <2>3. DigestTyped'
    BY <1>0, <2>1 DEF DigestTyped, PassPc
  <2>4. ASSUME clean' PROVE PassAlone' /\ ToldAndMarked'
    <3>1. clean /\ marked' = marked \cup {pc[t]} /\ PassAlone /\ ToldAndMarked
      BY <1>0, <2>1, <2>4
    <3>2. \A u \in Ticks : pc[u] = "pass" \/ pc[u] \in Readers => u = t
      BY <2>2, <3>1 DEF PassAlone, D!InPass
    <3>3. ToldAndMarked'
      <4>1. \A p \in Readers : sent[p] = 1 => p \in marked \/ p = pc[t]
        BY <3>1, <3>2 DEF ToldAndMarked
      <4>2. \A u \in Ticks : (pc'[u] = "pass" \/ pc'[u] \in Readers) => u = t
        BY <1>0, <2>1, <3>2 DEF DigestTyped
      <4>3. due'[t] \cap marked' = {}
        BY <1>0, <2>1, <3>1 DEF DigestTyped, ToldAndMarked
      <4> QED BY <2>1, <3>1, <4>1, <4>2, <4>3 DEF ToldAndMarked
    <3> QED BY <1>0, <2>1, <2>2, <3>1, <3>3, PassGoesOn
  <2> QED BY <2>3, <2>4 DEF DigestInv
<1>5. ASSUME NEW t \in Ticks, NEW p \in Readers, D!Skip(t, p) PROVE DigestInv'
  <2>1. /\ pc[t] = "pass" /\ p \in due[t] /\ marked' = marked \cup {p} /\ due' = [due EXCEPT ![t] = @ \ {p}]
        /\ UNCHANGED <<lock, pc, sent, clean>>
    BY <1>5 DEF D!Skip
  <2>2. DigestTyped'
    BY <1>0, <2>1 DEF DigestTyped
  <2>3. ASSUME clean PROVE PassAlone' /\ ToldAndMarked'
    <3>1. \A u \in Ticks : pc[u] = "pass" \/ pc[u] \in Readers => u = t
      BY <1>0, <2>1, <2>3 DEF PassAlone, D!InPass
    <3>2. due'[t] \cap marked' = {}
      BY <1>0, <2>1, <2>3 DEF DigestTyped, ToldAndMarked
    <3> QED BY <1>0, <2>1, <2>3, <3>1, <3>2 DEF PassAlone, ToldAndMarked, D!InPass
  <2> QED BY <2>1, <2>2, <2>3 DEF DigestInv
<1>6. ASSUME NEW t \in Ticks, NEW p \in Readers, D!Send(t, p) PROVE DigestInv'
  <2>1. /\ pc[t] = "pass" /\ p \in due[t] /\ sent' = [sent EXCEPT ![p] = @ + 1] /\ pc' = [pc EXCEPT ![t] = p]
        /\ UNCHANGED <<lock, due, marked, clean>>
    BY <1>6 DEF D!Send
  <2>2. D!InPass(t)
    BY <2>1 DEF D!InPass
  <2>3. DigestTyped'
    BY <1>0, <2>1 DEF DigestTyped, PassPc
  <2>4. ASSUME clean PROVE ToldAndMarked'
    <3>1. \A u \in Ticks : pc[u] = "pass" \/ pc[u] \in Readers => u = t
      BY <1>0, <2>2, <2>4 DEF PassAlone, D!InPass
    <3>2. p \notin marked /\ sent[p] \in Nat /\ sent[p] # 1 /\ sent[p] <= 1
      BY <1>0, <2>1, <2>4, <3>1 DEF ToldAndMarked, DigestTyped
    <3>3. sent'[p] = 1 /\ pc'[t] = p /\ \A q \in Readers \ {p} : sent'[q] = sent[q]
      BY <1>0, <2>1, <3>2 DEF DigestTyped
    <3>4. \A q \in Readers : sent[q] = 1 => q \in marked
      BY <1>0, <2>1, <2>4, <3>1 DEF ToldAndMarked
    <3>5. \A u \in Ticks : pc'[u] = "pass" \/ pc'[u] \in Readers => u = t
      BY <1>0, <2>1, <3>1 DEF DigestTyped
    <3>6. due[t] \cap marked = {}
      BY <1>0, <2>1, <2>4 DEF ToldAndMarked
    <3> QED BY <1>0, <2>1, <2>4, <3>2, <3>3, <3>4, <3>5, <3>6 DEF ToldAndMarked
  <2> QED BY <1>0, <2>1, <2>2, <2>3, <2>4, PassGoesOn DEF DigestInv
<1>7. ASSUME NEW t \in Ticks, NEW p \in Readers, D!Skipped(t, p) PROVE DigestInv'
  BY <1>0, <1>7 DEF D!Skipped, DigestInv, DigestTyped, PassAlone, ToldAndMarked, D!InPass
<1>8. ASSUME NEW c \in D!Connections, D!Reap(c) PROVE DigestInv'
  <2>1. /\ lock.by = c /\ lock' = D!Free
        /\ clean' = (clean /\ ~\E t \in Ticks : c \in Pool[Proc[t]] /\ D!InPass(t))
        /\ UNCHANGED <<pc, due, sent, marked>>
    BY <1>8 DEF D!Reap
  <2>2. DigestTyped'
    BY <1>0, <2>1 DEF DigestTyped, D!Free
  <2>3. ASSUME clean' PROVE PassAlone' /\ ToldAndMarked'
    <3>1. \A t \in Ticks : ~D!InPass(t)
      BY <1>0, <2>1, <2>3 DEF PassAlone
    <3> QED BY <1>0, <2>1, <2>3, <3>1 DEF PassAlone, ToldAndMarked, D!InPass
  <2> QED BY <2>2, <2>3 DEF DigestInv
<1>9. ASSUME NEW x \in D!Processes, D!Crash(x) PROVE DigestInv'
  <2>1. /\ pc' = [t \in Ticks |-> IF Proc[t] = x /\ pc[t] # "new" THEN "done" ELSE pc[t]]
        /\ due' = [t \in Ticks |-> IF Proc[t] = x THEN {} ELSE due[t]]
        /\ lock' \in {lock, D!Free} /\ clean' = FALSE /\ UNCHANGED <<sent, marked>>
    BY <1>9 DEF D!Crash
  <2>2. lock' \in [by : D!Connections \cup {Nobody}, times : Int]
    BY <1>0, <2>1 DEF DigestTyped, D!Free
  <2>3. pc' \in [Ticks -> PassPc] /\ due' \in [Ticks -> SUBSET Readers]
    BY <1>0, <2>1 DEF DigestTyped, PassPc
  <2> QED BY <1>0, <2>1, <2>2, <2>3 DEF DigestInv, DigestTyped
<1>10. CASE UNCHANGED dVars
  BY <1>0, <1>10 DEF DigestInv, DigestTyped, PassAlone, ToldAndMarked, D!InPass, dVars
<1> QED BY <1>1, <1>2, <1>3, <1>4, <1>5, <1>6, <1>7, <1>8, <1>9, <1>10 DEF D!Next

\* Whichever ticks of whichever processes overlap, and on whichever connections
\* their queries run, no packer is sent two digests while the lock's session lives.
THEOREM DigestOnceHolds == D!Spec => []DigestOnce
<1>1. [D!Next]_D!vars => [D!Next]_dVars
  BY DEF D!vars, dVars
<1>2. DigestInv => DigestOnce
  BY DEF DigestInv, ToldAndMarked, DigestOnce, D!DigestOnce
<1> QED BY <1>1, <1>2, DigestInit, DigestNext, PTL DEF D!Spec

-----------------------------------------------------------------------------
(* The orders of a customer.  A transaction that has counted its order is  *)
(* about to commit it: each order stored or about to be stored has paid an *)
(* increment of its own, whichever write it survived in.  A customer that  *)
(* was seen is there: the row is never deleted.                            *)

Increments == (IF count = None THEN 0 ELSE count) + lost
Committing == {OrderOf[r] : r \in {q \in Runs : run[q] = "commit"}}
Paid == stored \cup Committing

CountTyped ==
    /\ DOMAIN run = Runs /\ DOMAIN seen = Runs
    /\ count \in Nat \cup {None} /\ lost \in Int
    /\ \A r \in Runs : seen[r] \in Nat \cup {None} /\ (seen[r] # None => count # None)

CountInv == CountTyped /\ IsFiniteSet(Paid) /\ Cardinality(Paid) <= Increments

LEMMA CustomersNames == None \notin Nat
  BY BusinessAssumption DEF C!CustomersAssumption

LEMMA CountInit == C!Init => CountInv
<1> SUFFICES ASSUME C!Init PROVE CountInv
  OBVIOUS
<1>1. Paid = {} /\ CountTyped /\ Increments = 0
  BY DEF C!Init, Paid, Committing, CountTyped, Increments
<1> QED BY <1>1, FS_EmptySet DEF CountInv

\* A step that counts nothing and adds nobody to those who are about to commit.
LEMMA CountStands ==
    ASSUME CountInv, CountTyped', UNCHANGED <<count, lost>>, Paid' \subseteq Paid
    PROVE  CountInv'
<1>1. IsFiniteSet(Paid') /\ Cardinality(Paid') <= Cardinality(Paid)
  BY FS_Subset DEF CountInv
<1>2. Cardinality(Paid') \in Nat /\ Cardinality(Paid) \in Nat
  BY <1>1, FS_CardinalityType DEF CountInv
<1>3. Increments' = Increments /\ Increments \in Int
  BY CustomersNames DEF Increments, CountInv, CountTyped
<1> QED BY <1>1, <1>2, <1>3 DEF CountInv

\* A step that counts one order of a run, which goes on to commit it.
LEMMA CountPays ==
    ASSUME CountInv, NEW r \in Runs, CountTyped', Increments' = Increments + 1,
           Paid' = Paid \cup {OrderOf[r]}
    PROVE  CountInv'
<1>1. /\ IsFiniteSet(Paid') /\ Cardinality(Paid) \in Nat
      /\ Cardinality(Paid') = Cardinality(Paid) \/ Cardinality(Paid') = Cardinality(Paid) + 1
  BY FS_AddElement, FS_CardinalityType DEF CountInv
<1>2. Increments \in Int
  BY CustomersNames DEF Increments, CountInv, CountTyped
<1> QED BY <1>1, <1>2 DEF CountInv

LEMMA CountNext == CountInv /\ [C!Next]_cVars => CountInv'
<1> SUFFICES ASSUME CountInv, [C!Next]_cVars PROVE CountInv'
  OBVIOUS
<1>0. CountTyped
  BY DEF CountInv
<1>a. ASSUME NEW r \in Runs, NEW l, l # "commit", run' = [run EXCEPT ![r] = l], UNCHANGED <<count, lost, stored>>,
             DOMAIN seen' = Runs /\ \A q \in Runs : seen'[q] \in {seen[q], count, None}
      PROVE  CountInv'
  <2>1. CountTyped'
    BY <1>0, <1>a DEF CountTyped
  <2>2. \A q \in Runs : run'[q] = "commit" => run[q] = "commit"
    BY <1>0, <1>a DEF CountTyped
  <2>3. Paid' \subseteq Paid
    BY <1>a, <2>2 DEF Paid, Committing
  <2> QED BY <1>a, <2>1, <2>3, CountStands
<1>b. ASSUME NEW r \in Runs, NEW l, l # "commit", C!Close(r, l), UNCHANGED <<count, lost, stored>> PROVE CountInv'
  <2>1. run' = [run EXCEPT ![r] = l] /\ seen' = [seen EXCEPT ![r] = None]
    BY <1>b DEF C!Close, C!Goto
  <2> QED BY <1>a, <1>b, <1>0, <2>1 DEF CountTyped
<1>1. ASSUME NEW r \in Runs, C!Open(r) \/ C!FindOrder(r) \/ C!WriteOrder(r) \/ C!Again(r) PROVE CountInv'
  <2>1. PICK l \in {"find", "order", "customer", "idle"} : run' = [run EXCEPT ![r] = l]
    BY <1>1 DEF C!Open, C!FindOrder, C!WriteOrder, C!Again, C!Goto
  <2>2. UNCHANGED <<count, lost, stored, seen>>
    BY <1>1 DEF C!Open, C!FindOrder, C!WriteOrder, C!Again
  <2> QED BY <1>a, <1>0, <2>1, <2>2 DEF CountTyped
<1>2. ASSUME NEW r \in Runs, C!ReadCustomer(r) PROVE CountInv'
  <2>1. /\ run' = [run EXCEPT ![r] = "upsert"] /\ seen' = [seen EXCEPT ![r] = count]
        /\ UNCHANGED <<count, lost, stored>>
    BY <1>2 DEF C!ReadCustomer, C!Goto
  <2> QED BY <1>a, <1>0, <2>1 DEF CountTyped
<1>3. ASSUME NEW r \in Runs, C!OrderTaken(r) \/ C!CustomerTaken(r) \/ C!AcquireTimesOut(r) \/ C!Rollback(r)
      PROVE  CountInv'
  BY <1>3, <1>b DEF C!OrderTaken, C!CustomerTaken, C!AcquireTimesOut, C!Rollback
<1>4. ASSUME NEW r \in Runs, C!UpdateCustomer(r) \/ C!InsertCustomer(r) PROVE CountInv'
  <2>1. run' = [run EXCEPT ![r] = "commit"] /\ UNCHANGED <<seen, stored>>
    BY <1>4 DEF C!UpdateCustomer, C!InsertCustomer, C!Goto
  <2>2. CountTyped' /\ Increments' = Increments + 1
    <3>1. CASE C!UpdateCustomer(r)
      <4>1. count' = seen[r] + 1 /\ lost' = lost + (count - seen[r]) /\ seen[r] # None
        BY <3>1 DEF C!UpdateCustomer
      <4>2. count # None /\ count' # None
        BY <1>0, <4>1, CustomersNames DEF CountTyped
      <4> QED BY <1>0, <2>1, <4>1, <4>2 DEF CountTyped, Increments
    <3>2. CASE C!InsertCustomer(r)
      <4>1. count = None /\ count' = 1 /\ lost' = lost
        BY <3>2 DEF C!InsertCustomer
      <4> QED BY <1>0, <2>1, <4>1, CustomersNames DEF CountTyped, Increments
    <3> QED BY <1>4, <3>1, <3>2
  <2>3. \A q \in Runs : run'[q] = "commit" <=> run[q] = "commit" \/ q = r
    BY <1>0, <2>1 DEF CountTyped
  <2>4. Paid' = Paid \cup {OrderOf[r]}
    BY <2>1, <2>3 DEF Paid, Committing
  <2> QED BY <2>2, <2>4, CountPays
<1>5. ASSUME NEW r \in Runs, C!Commit(r) PROVE CountInv'
  <2>1. /\ run[r] = "commit" /\ stored' = stored \cup {OrderOf[r]} /\ UNCHANGED <<count, lost>>
        /\ run' = [run EXCEPT ![r] = "done"] /\ seen' = [seen EXCEPT ![r] = None]
    BY <1>5 DEF C!Commit, C!Close, C!Goto, C!At
  <2>2. CountTyped'
    BY <1>0, <2>1 DEF CountTyped
  <2>3. \A q \in Runs : run'[q] = "commit" => run[q] = "commit"
    BY <1>0, <2>1 DEF CountTyped
  <2>4. Paid' \subseteq Paid
    BY <2>1, <2>3 DEF Paid, Committing
  <2> QED BY <2>1, <2>2, <2>4, CountStands
<1>6. CASE UNCHANGED cVars
  <2>1. CountTyped' /\ Paid' = Paid
    BY <1>0, <1>6 DEF cVars, CountTyped, Paid, Committing
  <2> QED BY <1>6, <2>1, CountStands DEF cVars
<1> QED BY <1>1, <1>2, <1>3, <1>4, <1>5, <1>6 DEF C!Next, C!Step

\* However the transactions of a customer's orders overlap, wait, fail and are run
\* again, every order stored is in the count or in an increment that was overwritten.
THEOREM OrdersAreCountedHolds == C!Spec => []OrdersAreCounted
<1>1. [C!Next]_C!vars => [C!Next]_cVars
  BY DEF C!vars, cVars
<1>2. CountInv => OrdersAreCounted
  <2> SUFFICES ASSUME CountInv PROVE Cardinality(stored) <= Increments
    BY DEF OrdersAreCounted, C!OrdersAreCounted, Increments, C!Cardinality, Cardinality, C!IsFiniteSet, IsFiniteSet
  <2>1. IsFiniteSet(stored) /\ Cardinality(stored) <= Cardinality(Paid)
    BY FS_Subset DEF CountInv, Paid
  <2>2. Cardinality(stored) \in Nat /\ Cardinality(Paid) \in Nat /\ Increments \in Int
    BY <2>1, FS_CardinalityType, CustomersNames DEF CountInv, CountTyped, Increments
  <2> QED BY <2>1, <2>2 DEF CountInv
<1> QED BY <1>1, <1>2, CountInit, CountNext, PTL DEF C!Spec

-----------------------------------------------------------------------------
(* Campaigns.  A customer hears a step once because a row is made once and *)
(* its message goes out once.  The first holds while one pass has chosen   *)
(* the customer, who was not enrolled before; the second while one pass    *)
(* holds the row, which is pending only as long as it was not sent.        *)

Statuses == {"pending", "sent", "failed", "skipped", "gone"}
SendRow == [step : Steps \cup {NoStep}, who : Customers, status : Statuses, due : BOOLEAN]
CustomerRow == [inactive : BOOLEAN, enrolment : {"none", "active", "completed"}, recent : BOOLEAN, ordered : BOOLEAN]
Stages == {"none", "enroll", "schedule", "fire", "send", "mark"}
Pass == [stage : Stages, who : SUBSET Customers, cu : SUBSET Customers, steps : SUBSET Steps,
         rows : SUBSET Nat, row : Nat]

\* What a pass has in hand at each stage.
PassPlaced(r, n) ==
    /\ r.rows \subseteq 1..n /\ r.row \in 0..n /\ r.row \notin r.rows
    /\ r.row # 0 <=> r.stage \in {"send", "mark"}
    /\ r.stage \in {"none", "enroll", "schedule"} => r.rows = {}
    /\ r.stage \notin {"enroll", "schedule"} => r.who = {}
    /\ IF r.stage = "schedule" THEN \E c \in Customers \ r.who : r.cu = {c} ELSE r.cu = {}

CampaignTyped ==
    /\ campaign \in {"on", "off", "unusable", "deleted"}
    /\ DOMAIN steps = Steps /\ (campaign = "deleted" => \A s \in Steps : steps[s] = "deleted")
    /\ customers \in [Customers -> CustomerRow]
    /\ sends \in Seq(SendRow) /\ messages \in Seq(Nat) /\ Len(messages) = Len(sends)
    /\ passes \in [Passes -> Pass] /\ \A x \in Passes : PassPlaced(passes[x], Len(sends))

Chosen(x) == passes[x].who \cup passes[x].cu

\* Who is not enrolled has no rows of the campaign's steps, and nobody is making them.
NewInv ==
    campaign # "deleted" => \A c \in Customers : customers[c].enrolment = "none" =>
        /\ \A i \in M!Rows : sends[i].who = c => sends[i].step = NoStep
        /\ \A x \in Passes : c \notin passes[x].cu

\* One pass has chosen a customer, who is new to it, and has a step's row made once.
ChosenOnce(c) == \A x, y \in Passes : c \in Chosen(x) /\ c \in Chosen(y) => x = y

NewToPass(c) ==
    campaign # "deleted" => \A x \in Passes :
        /\ c \in passes[x].who => customers[c].enrolment = "none"
        /\ c \in passes[x].cu => \A i \in M!Rows : sends[i].who = c => sends[i].step \notin passes[x].steps

MadeOnce(c) ==
    \A i, j \in {k \in M!Rows : sends[k].who = c /\ sends[k].step # NoStep} : sends[i].step = sends[j].step => i = j

ChoiceInv == \A c \in Customers \ excused : ChosenOnce(c) /\ NewToPass(c) /\ MadeOnce(c)

\* One pass holds a row, whose message goes out once.
RowAlone(i) ==
    /\ \A x, y \in Passes : i \in M!Held(x) /\ i \in M!Held(y) => x = y
    /\ \A x \in Passes : i \in M!Held(x) => i \notin orphans
    /\ messages[i] > 0 => \/ sends[i].status # "pending" \/ i \in orphans
                          \/ \E x \in Passes : passes[x].row = i /\ passes[x].stage = "mark"
    /\ \A x \in Passes : i \in passes[x].rows \/ (passes[x].row = i /\ passes[x].stage = "send") => messages[i] = 0
    /\ messages[i] <= 1

RowInv == \A i \in M!Rows : sends[i].who \notin excused => RowAlone(i)

CampaignInv == CampaignTyped /\ NewInv /\ ChoiceInv /\ RowInv

LEMMA CampaignNames == NoStep \notin Steps /\ FirstSteps \subseteq Steps
  BY BusinessAssumption DEF M!MarketingAssumption

LEMMA CampaignInit == M!Init => CampaignInv
<1> SUFFICES ASSUME M!Init PROVE CampaignInv
  OBVIOUS
<1>1. sends = <<>> /\ messages = <<>> /\ Len(sends) = 0 /\ M!Rows = {}
  BY DEF M!Init, M!Rows
<1>2. \A x \in Passes : passes[x] = M!NoPass
  BY DEF M!Init
<1>3. M!NoPass \in Pass /\ PassPlaced(M!NoPass, 0)
  BY DEF M!NoPass, Pass, Stages, PassPlaced
<1>4. passes \in [Passes -> Pass] /\ \A x \in Passes : PassPlaced(passes[x], Len(sends))
  BY <1>1, <1>3 DEF M!Init
<1>5. customers \in [Customers -> CustomerRow]
  BY DEF M!Init, CustomerRow
<1>6. CampaignTyped
  BY <1>1, <1>4, <1>5 DEF M!Init, CampaignTyped
<1>7. \A x \in Passes : Chosen(x) = {} /\ passes[x].cu = {} /\ passes[x].who = {}
  BY <1>2 DEF Chosen, M!NoPass
<1>8. NewInv /\ ChoiceInv /\ RowInv
  <2>1. RowInv
    BY <1>1 DEF RowInv
  <2>2. NewInv
    BY <1>1, <1>7 DEF NewInv
  <2>3. ChoiceInv
    BY <1>1, <1>7 DEF ChoiceInv, ChosenOnce, NewToPass, MadeOnce
  <2> QED BY <2>1, <2>2, <2>3
<1> QED BY <1>6, <1>8 DEF CampaignInv

\* What most steps do to the rows: the step and the customer stay, and no row
\* becomes pending again.
SendsKeep ==
    /\ sends' \in Seq(SendRow) /\ Len(sends') = Len(sends)
    /\ \A i \in 1..Len(sends) :
         /\ sends'[i].step = sends[i].step /\ sends'[i].who = sends[i].who
         /\ sends'[i].status = "pending" => sends[i].status = "pending"

LEMMA SendsFacts ==
    ASSUME CampaignTyped
    PROVE  /\ Len(sends) \in Nat /\ M!Rows = 1..Len(sends) /\ DOMAIN sends = 1..Len(sends)
           /\ DOMAIN messages = 1..Len(sends)
           /\ \A i \in 1..Len(sends) : sends[i] \in SendRow /\ messages[i] \in Nat
  BY DEF CampaignTyped, M!Rows

LEMMA SendsMapped ==
    ASSUME CampaignTyped, sends' \in [1..Len(sends) -> SendRow],
           \A i \in 1..Len(sends) :
             /\ sends'[i].step = sends[i].step /\ sends'[i].who = sends[i].who
             /\ sends'[i].status = "pending" => sends[i].status = "pending"
    PROVE  SendsKeep
<1>1. Len(sends) \in Nat
  BY SendsFacts
<1>2. sends' \in Seq(SendRow) /\ Len(sends') = Len(sends)
  BY <1>1
<1> QED BY <1>2 DEF SendsKeep

LEMMA SendsStay ==
    ASSUME CampaignTyped, UNCHANGED sends
    PROVE  SendsKeep
  BY DEF CampaignTyped, SendsKeep

\* A row is settled, or its time comes.
LEMMA SendsMarked ==
    ASSUME CampaignTyped, NEW i \in 1..Len(sends), NEW v \in Statuses \ {"pending"}, M!Marked(i, v)
    PROVE  SendsKeep /\ sends'[i].status # "pending"
<1> DEFINE w == IF sends[i].status = "gone" THEN sends[i].status ELSE v
<1>1. sends' = [sends EXCEPT ![i].status = w] /\ w \in Statuses \ {"pending"}
  BY DEF M!Marked, Statuses
<1> HIDE DEF w
<1>2. sends' \in [1..Len(sends) -> SendRow]
  BY <1>1, SendsFacts DEF SendRow
<1>3. \A j \in 1..Len(sends) :
        /\ sends'[j].step = sends[j].step /\ sends'[j].who = sends[j].who
        /\ sends'[j].status = "pending" => sends[j].status = "pending"
  BY <1>1, SendsFacts DEF SendRow
<1>4. sends'[i].status # "pending"
  BY <1>1, SendsFacts DEF SendRow
<1> QED BY <1>2, <1>3, <1>4, SendsMapped

\* What a step may do to the plan and to the customers.
PlanKeeps ==
    /\ campaign' \in {"on", "off", "unusable", "deleted"} /\ DOMAIN steps' = Steps
    /\ campaign = "deleted" => campaign' = "deleted"
    /\ campaign' = "deleted" => \A s \in Steps : steps'[s] = "deleted"

EnrolmentsKeep ==
    /\ customers' \in [Customers -> CustomerRow]
    /\ campaign' # "deleted" => \A c \in Customers :
         customers'[c].enrolment = "none" <=> customers[c].enrolment = "none"

LEMMA PlanStays ==
    ASSUME CampaignTyped, UNCHANGED <<campaign, steps>>
    PROVE  PlanKeeps
  BY DEF CampaignTyped, PlanKeeps

LEMMA CustomersStay ==
    ASSUME CampaignTyped, UNCHANGED customers
    PROVE  EnrolmentsKeep
  BY DEF CampaignTyped, EnrolmentsKeep

\* One pass goes on; the others stay as they are.
PassMoves(x, r) == r \in Pass /\ passes' = [passes EXCEPT ![x] = r]

LEMMA OnePass ==
    ASSUME CampaignTyped, NEW x \in Passes, NEW r, PassMoves(x, r)
    PROVE  /\ passes' \in [Passes -> Pass] /\ passes'[x] = r
           /\ \A y \in Passes : y # x => passes'[y] = passes[y]
  BY DEF CampaignTyped, PassMoves

LEMMA TypedStands ==
    ASSUME CampaignTyped, SendsKeep, PlanKeeps, customers' \in [Customers -> CustomerRow],
           messages' \in Seq(Nat), Len(messages') = Len(messages),
           \/ UNCHANGED passes
           \/ \E x \in Passes : \E r \in Pass : PassMoves(x, r) /\ PassPlaced(r, Len(sends))
    PROVE  CampaignTyped'
<1>1. passes' \in [Passes -> Pass] /\ \A x \in Passes : PassPlaced(passes'[x], Len(sends))
  BY DEF CampaignTyped, PassMoves
<1> QED BY <1>1 DEF CampaignTyped, SendsKeep, PlanKeeps

\* A step by which no pass chooses anybody or makes a row.
LEMMA ChoiceStands ==
    ASSUME CampaignInv, SendsKeep, PlanKeeps, EnrolmentsKeep, excused \subseteq excused',
           \A x \in Passes : /\ passes'[x].who \subseteq passes[x].who
                             /\ passes'[x].cu \subseteq passes[x].cu
                             /\ passes'[x].cu = {} \/ passes'[x].steps \subseteq passes[x].steps
    PROVE  NewInv' /\ ChoiceInv'
<1>1. M!Rows' = M!Rows /\ M!Rows = 1..Len(sends)
  BY DEF M!Rows, SendsKeep
<1>2. NewInv'
  BY <1>1 DEF CampaignInv, NewInv, SendsKeep, PlanKeeps, EnrolmentsKeep
<1>3. ASSUME NEW c \in Customers \ excused' PROVE (ChosenOnce(c) /\ NewToPass(c) /\ MadeOnce(c))'
  <2>0. ChosenOnce(c) /\ NewToPass(c) /\ MadeOnce(c)
    BY DEF CampaignInv, ChoiceInv
  <2>1. ChosenOnce(c)'
    BY <2>0 DEF ChosenOnce, Chosen
  <2>2. NewToPass(c)'
    BY <1>1, <2>0 DEF NewToPass, SendsKeep, PlanKeeps, EnrolmentsKeep
  <2>3. MadeOnce(c)'
    BY <1>1, <2>0 DEF MadeOnce, SendsKeep
  <2> QED BY <2>1, <2>2, <2>3
<1> QED BY <1>2, <1>3 DEF ChoiceInv

\* A step by which no pass takes or leaves a row, and no message goes out.
LEMMA RowsStand ==
    ASSUME CampaignInv, SendsKeep, UNCHANGED <<messages, orphans>>, excused \subseteq excused',
           \A x \in Passes : /\ passes'[x].rows = passes[x].rows /\ passes'[x].row = passes[x].row
                             /\ passes[x].row # 0 => passes'[x].stage = passes[x].stage
    PROVE  RowInv'
<1>1. M!Rows' = M!Rows /\ M!Rows = 1..Len(sends)
  BY DEF M!Rows, SendsKeep
<1>2. \A x \in Passes : M!Held(x)' = M!Held(x)
  BY DEF M!Held
<1>3. ASSUME NEW i \in M!Rows, sends'[i].who \notin excused' PROVE RowAlone(i)'
  <2>1. RowAlone(i) /\ i # 0
    BY <1>1, <1>3 DEF CampaignInv, RowInv, SendsKeep
  <2> QED BY <1>1, <1>2, <2>1 DEF RowAlone, SendsKeep
<1> QED BY <1>1, <1>3 DEF RowInv

\* The surroundings: no pass is touched.
LEMMA CampaignOutside ==
    ASSUME CampaignInv, SendsKeep, PlanKeeps, EnrolmentsKeep, UNCHANGED <<passes, messages, excused, orphans>>
    PROVE  CampaignInv'
<1>1. CampaignTyped'
  BY TypedStands DEF CampaignInv, EnrolmentsKeep, CampaignTyped
<1>2. NewInv' /\ ChoiceInv'
  BY ChoiceStands
<1>3. RowInv'
  BY RowsStand
<1> QED BY <1>1, <1>2, <1>3 DEF CampaignInv

LEMMA SwitchCampaignKeeps ==
    ASSUME CampaignInv, M!SwitchCampaign
    PROVE  CampaignInv'
<1>0. CampaignTyped /\ UNCHANGED <<passes, messages, excused, orphans>> /\ campaign # "deleted"
  BY DEF CampaignInv, M!SwitchCampaign
<1>1. CASE campaign' \in {"on", "off", "unusable"} \ {campaign} /\ UNCHANGED <<sends, steps, customers>>
  <2>1. PlanKeeps
    BY <1>0, <1>1 DEF PlanKeeps, CampaignTyped
  <2>2. SendsKeep /\ EnrolmentsKeep
    BY <1>0, <1>1, SendsStay, CustomersStay
  <2> QED BY <1>0, <2>1, <2>2, CampaignOutside
<1>2. CASE /\ campaign' = "deleted"
           /\ steps' = [s \in Steps |-> "deleted"]
           /\ sends' = [i \in M!Rows |-> IF sends[i].step = NoStep THEN sends[i] ELSE [sends[i] EXCEPT !.status = "gone"]]
           /\ customers' = [c \in Customers |-> [customers[c] EXCEPT !.enrolment = "none", !.recent = FALSE]]
  <2>1. PlanKeeps
    BY <1>0, <1>2 DEF PlanKeeps
  <2>2. EnrolmentsKeep
    BY <1>0, <1>2 DEF EnrolmentsKeep, CampaignTyped, CustomerRow
  <2>3. SendsKeep
    <3>1. /\ sends' \in [1..Len(sends) -> SendRow]
          /\ \A i \in 1..Len(sends) :
               /\ sends'[i].step = sends[i].step /\ sends'[i].who = sends[i].who
               /\ sends'[i].status = "pending" => sends[i].status = "pending"
      BY <1>0, <1>2, SendsFacts DEF SendRow, Statuses
    <3> QED BY <1>0, <3>1, SendsMapped
  <2> QED BY <1>0, <2>1, <2>2, <2>3, CampaignOutside
<1> QED BY <1>1, <1>2 DEF M!SwitchCampaign

LEMMA EditStepKeeps ==
    ASSUME CampaignInv, NEW s \in Steps, M!EditStep(s)
    PROVE  CampaignInv'
<1>0. /\ CampaignTyped /\ UNCHANGED <<campaign, customers, passes, messages, excused, orphans>>
      /\ campaign # "deleted"
  BY DEF CampaignInv, M!EditStep
<1>1. DOMAIN steps' = Steps
  BY <1>0 DEF M!EditStep, CampaignTyped
<1>2. PlanKeeps /\ EnrolmentsKeep
  BY <1>0, <1>1, CustomersStay DEF PlanKeeps, CampaignTyped
<1>3. SendsKeep
  <2>1. CASE UNCHANGED sends
    BY <1>0, <2>1, SendsStay
  <2>2. CASE sends' = [i \in M!Rows |-> IF sends[i].step = s THEN [sends[i] EXCEPT !.status = "gone"] ELSE sends[i]]
    <3>1. /\ sends' \in [1..Len(sends) -> SendRow]
          /\ \A i \in 1..Len(sends) :
               /\ sends'[i].step = sends[i].step /\ sends'[i].who = sends[i].who
               /\ sends'[i].status = "pending" => sends[i].status = "pending"
      BY <1>0, <2>2, SendsFacts DEF SendRow, Statuses
    <3> QED BY <1>0, <3>1, SendsMapped
  <2> QED BY <2>1, <2>2 DEF M!EditStep
<1> QED BY <1>0, <1>2, <1>3, CampaignOutside

LEMMA CustomerMoves ==
    ASSUME CampaignInv, NEW c \in Customers, M!Order(c) \/ M!CoolDown(c)
    PROVE  CampaignInv'
<1>0. CampaignTyped /\ UNCHANGED <<campaign, steps, sends, passes, messages, excused, orphans>>
  BY DEF CampaignInv, M!Order, M!CoolDown, M!plan
<1>1. customers' \in [Customers -> CustomerRow] /\ \A d \in Customers : customers'[d].enrolment = customers[d].enrolment
  <2>1. CASE M!Order(c)
    <3>1. [customers[c] EXCEPT !.inactive = ~@, !.ordered = @ \/ customers[c].inactive] \in CustomerRow
      BY <1>0 DEF CampaignTyped, CustomerRow
    <3> QED BY <1>0, <2>1, <3>1 DEF M!Order, CampaignTyped, CustomerRow
  <2>2. CASE M!CoolDown(c)
    BY <1>0, <2>2 DEF M!CoolDown, CampaignTyped, CustomerRow
  <2> QED BY <2>1, <2>2
<1> QED BY <1>0, <1>1, SendsStay, PlanStays, CampaignOutside DEF EnrolmentsKeep

LEMMA DueKeeps ==
    ASSUME CampaignInv, NEW i \in M!Rows, M!Due(i)
    PROVE  CampaignInv'
<1>0. /\ CampaignTyped /\ UNCHANGED <<campaign, steps, customers, passes, messages, excused, orphans>>
      /\ sends' = [sends EXCEPT ![i].due = TRUE] /\ i \in 1..Len(sends)
  BY DEF CampaignInv, M!Due, M!plan, M!Rows
<1>1. /\ sends' \in [1..Len(sends) -> SendRow]
      /\ \A j \in 1..Len(sends) :
           /\ sends'[j].step = sends[j].step /\ sends'[j].who = sends[j].who
           /\ sends'[j].status = "pending" => sends[j].status = "pending"
  BY <1>0, SendsFacts DEF SendRow
<1> QED BY <1>0, <1>1, SendsMapped, PlanStays, CustomersStay, CampaignOutside

\* A new row, which no pass holds and for which nothing was sent.
LEMMA RowsGrow ==
    ASSUME CampaignTyped, NEW s \in Steps \cup {NoStep}, NEW c \in Customers, M!AddRow(s, c)
    PROVE  /\ sends' \in Seq(SendRow) /\ Len(sends') = Len(sends) + 1 /\ messages' \in Seq(Nat)
           /\ Len(messages') = Len(messages) + 1
           /\ \A i \in 1..Len(sends) : sends'[i] = sends[i] /\ messages'[i] = messages[i]
           /\ sends'[Len(sends) + 1].step = s /\ sends'[Len(sends) + 1].who = c
           /\ messages'[Len(sends) + 1] = 0
<1> DEFINE new == [step |-> s, who |-> c, status |-> "pending", due |-> FALSE]
<1>1. new \in SendRow /\ new.step = s /\ new.who = c
  BY DEF SendRow, Statuses
<1>2. sends' = Append(sends, new) /\ messages' = Append(messages, 0)
  BY DEF M!AddRow
<1> HIDE DEF new
<1>3. sends \in Seq(SendRow) /\ messages \in Seq(Nat) /\ Len(messages) = Len(sends)
  BY DEF CampaignTyped
<1> QED BY <1>1, <1>2, <1>3

LEMMA GrownTyped ==
    ASSUME CampaignTyped, NEW s \in Steps \cup {NoStep}, NEW c \in Customers, M!AddRow(s, c),
           UNCHANGED <<campaign, steps, customers>>,
           \/ UNCHANGED passes
           \/ \E x \in Passes : \E r \in Pass : PassMoves(x, r) /\ PassPlaced(r, Len(sends))
    PROVE  CampaignTyped'
<1>1. /\ sends' \in Seq(SendRow) /\ Len(sends') = Len(sends) + 1 /\ messages' \in Seq(Nat)
      /\ Len(messages') = Len(messages) + 1 /\ Len(sends) \in Nat
  BY RowsGrow, SendsFacts
<1>2. passes' \in [Passes -> Pass] /\ \A x \in Passes : PassPlaced(passes'[x], Len(sends))
  BY DEF CampaignTyped, PassMoves
<1>3. ASSUME NEW x \in Passes PROVE PassPlaced(passes'[x], Len(sends) + 1)
  <2>1. 1..Len(sends) \subseteq 1..(Len(sends) + 1) /\ 0..Len(sends) \subseteq 0..(Len(sends) + 1)
    BY <1>1
  <2> QED BY <1>2, <2>1 DEF PassPlaced
<1> QED BY <1>1, <1>2, <1>3 DEF CampaignTyped

LEMMA GrownRows ==
    ASSUME CampaignInv, NEW s \in Steps \cup {NoStep}, NEW c \in Customers, M!AddRow(s, c),
           UNCHANGED <<excused, orphans>>,
           \A x \in Passes : /\ passes'[x].rows = passes[x].rows /\ passes'[x].row = passes[x].row
                             /\ passes[x].row # 0 => passes'[x].stage = passes[x].stage
    PROVE  RowInv'
<1>0. CampaignTyped
  BY DEF CampaignInv
<1>n. PICK n \in Nat : n = Len(sends)
  BY <1>0, SendsFacts
<1>1. /\ M!Rows = 1..n /\ M!Rows' = 1..(n + 1) /\ n \in Nat
      /\ \A i \in 1..n : sends'[i] = sends[i] /\ messages'[i] = messages[i]
      /\ messages'[n + 1] = 0
  BY <1>0, <1>n, RowsGrow, SendsFacts DEF M!Rows
<1>2. \A x \in Passes : M!Held(x)' = M!Held(x) /\ M!Held(x) \subseteq 1..n
  BY <1>0, <1>n DEF M!Held, CampaignTyped, PassPlaced
<1>3. ASSUME NEW i \in 1..n, sends'[i].who \notin excused' PROVE RowAlone(i)'
  <2>1. RowAlone(i) /\ i # 0
    BY <1>1, <1>3 DEF CampaignInv, RowInv
  <2> QED BY <1>1, <1>2, <2>1 DEF RowAlone
<1>4. RowAlone(n + 1)'
  <2>1. n + 1 \notin 1..n
    BY <1>1
  <2>2. \A x \in Passes : n + 1 \notin M!Held(x)' /\ n + 1 \notin passes'[x].rows /\ n + 1 # passes'[x].row
    BY <1>2, <2>1 DEF M!Held
  <2> QED BY <1>1, <2>2 DEF RowAlone
<1>5. \A i \in 1..(n + 1) : i \in 1..n \/ i = n + 1
  BY <1>1
<1> QED BY <1>1, <1>3, <1>4, <1>5 DEF RowInv

LEMMA FollowUpKeeps ==
    ASSUME CampaignInv, NEW c \in Customers, M!FollowUp(c)
    PROVE  CampaignInv'
<1>0. /\ CampaignTyped /\ M!AddRow(NoStep, c)
      /\ UNCHANGED <<campaign, steps, customers, passes, excused, orphans>>
  BY DEF CampaignInv, M!FollowUp, M!plan
<1>1. CampaignTyped' /\ RowInv'
  BY <1>0, GrownTyped, GrownRows
<1> DEFINE n == Len(sends)
<1>2. /\ M!Rows = 1..n /\ M!Rows' = 1..(n + 1) /\ n \in Nat
      /\ \A i \in 1..n : sends'[i] = sends[i]
      /\ sends'[n + 1].step = NoStep
  BY <1>0, RowsGrow, SendsFacts DEF M!Rows
<1>3. \A i \in M!Rows' : (i \in M!Rows /\ sends'[i] = sends[i]) \/ sends'[i].step = NoStep
  BY <1>2
<1> HIDE DEF n
<1>4. NewInv'
  BY <1>0, <1>3 DEF CampaignInv, NewInv
<1>5. ChoiceInv'
  <2> SUFFICES ASSUME NEW d \in Customers \ excused PROVE (ChosenOnce(d) /\ NewToPass(d) /\ MadeOnce(d))'
    BY <1>0 DEF ChoiceInv
  <2>0. ChosenOnce(d) /\ NewToPass(d) /\ MadeOnce(d)
    BY DEF CampaignInv, ChoiceInv
  <2>1. \A x \in Passes : NoStep \notin passes[x].steps
    BY <1>0, CampaignNames DEF CampaignTyped, Pass
  <2>2. ChosenOnce(d)'
    BY <1>0, <2>0 DEF ChosenOnce, Chosen
  <2>3. NewToPass(d)'
    BY <1>0, <1>3, <2>0, <2>1 DEF NewToPass
  <2>4. MadeOnce(d)'
    BY <1>3, <2>0 DEF MadeOnce
  <2> QED BY <2>2, <2>3, <2>4
<1> QED BY <1>1, <1>4, <1>5 DEF CampaignInv

(* ------------------------------- the passes ----------------------------- *)

LEMMA StartTickKeeps ==
    ASSUME CampaignInv, NEW x \in Passes, M!StartTick(x)
    PROVE  CampaignInv'
<1> DEFINE chosen == IF campaign = "on" THEN {c \in Customers : M!Eligible(c)} ELSE {}
           r == [M!NoPass EXCEPT !.stage = "enroll", !.who = chosen]
<1>0. /\ CampaignTyped /\ UNCHANGED <<campaign, steps, customers, sends, messages, orphans>>
      /\ passes[x] = M!NoPass /\ passes' = [passes EXCEPT ![x] = r]
      /\ excused' = excused \cup {c \in chosen : \/ customers[c].enrolment # "none" /\ ~customers[c].recent
                                                 \/ \E y \in Passes : c \in passes[y].who \cup passes[y].cu}
  BY DEF CampaignInv, M!StartTick, M!plan, M!Become
<1>1. \A c \in chosen : c \in Customers /\ ~customers[c].recent
  BY DEF M!Eligible
<1> HIDE DEF chosen
<1>2. /\ r \in Pass /\ r.stage = "enroll" /\ r.who = chosen /\ r.cu = {} /\ r.rows = {} /\ r.row = 0
  BY <1>1 DEF M!NoPass, Pass, Stages
<1> HIDE DEF r
<1>3. passes'[x] = r /\ \A y \in Passes : y # x => passes'[y] = passes[y]
  BY <1>0, <1>2, OnePass DEF PassMoves
<1>4. SendsKeep /\ PlanKeeps /\ EnrolmentsKeep
  BY <1>0, SendsStay, PlanStays, CustomersStay
<1>5. CampaignTyped'
  <2>1. PassPlaced(r, Len(sends))
    BY <1>0, <1>2, SendsFacts DEF PassPlaced
  <2> QED BY <1>0, <1>2, <1>4, <2>1, TypedStands DEF PassMoves, CampaignTyped
<1>6. RowInv'
  <2>1. passes[x].rows = {} /\ passes[x].row = 0
    BY <1>0 DEF M!NoPass
  <2> QED BY <1>0, <1>2, <1>3, <1>4, <2>1, RowsStand
<1>7. NewInv'
  BY <1>0, <1>2, <1>3 DEF CampaignInv, NewInv, M!Rows
<1>8. ChoiceInv'
  <2> SUFFICES ASSUME NEW c \in Customers \ excused' PROVE (ChosenOnce(c) /\ NewToPass(c) /\ MadeOnce(c))'
    BY DEF ChoiceInv
  <2>0. ChosenOnce(c) /\ NewToPass(c) /\ MadeOnce(c) /\ M!Rows' = M!Rows
    BY <1>0 DEF CampaignInv, ChoiceInv, M!Rows
  <2>1. c \in chosen => customers[c].enrolment = "none" /\ \A y \in Passes : c \notin Chosen(y)
    BY <1>0, <1>1 DEF Chosen
  <2>2. Chosen(x)' = chosen /\ \A y \in Passes : y # x => Chosen(y)' = Chosen(y)
    BY <1>2, <1>3 DEF Chosen
  <2>3. ChosenOnce(c)'
    BY <2>0, <2>1, <2>2 DEF ChosenOnce
  <2>4. NewToPass(c)'
    <3> SUFFICES ASSUME campaign # "deleted", NEW y \in Passes
                 PROVE  /\ c \in passes'[y].who => customers[c].enrolment = "none"
                        /\ c \in passes'[y].cu => \A i \in M!Rows :
                              sends[i].who = c => sends[i].step \notin passes'[y].steps
      BY <1>0, <2>0 DEF NewToPass
    <3>1. CASE y = x
      BY <1>2, <1>3, <2>1, <3>1
    <3>2. CASE y # x
      BY <1>3, <2>0, <3>2 DEF NewToPass
    <3> QED BY <3>1, <3>2
  <2>5. MadeOnce(c)'
    BY <1>0, <2>0 DEF MadeOnce
  <2> QED BY <2>3, <2>4, <2>5
<1> QED BY <1>5, <1>6, <1>7, <1>8 DEF CampaignInv

\* A step by which a pass that holds no row goes on with its customers, or ends.
LEMMA NobodyChosen ==
    ASSUME CampaignInv, NEW x \in Passes, NEW r, PassMoves(x, r), PassPlaced(r, Len(sends)),
           UNCHANGED <<campaign, steps, customers, sends, messages, excused, orphans>>,
           passes[x].stage \in {"enroll", "schedule"}, r.stage \in {"none", "enroll", "schedule"},
           r.who \subseteq passes[x].who, r.cu \subseteq passes[x].cu, r.cu = {} \/ r.steps \subseteq passes[x].steps
    PROVE  CampaignInv'
<1>0. CampaignTyped
  BY DEF CampaignInv
<1>1. SendsKeep /\ PlanKeeps /\ EnrolmentsKeep
  BY <1>0, SendsStay, PlanStays, CustomersStay
<1>2. passes'[x] = r /\ \A y \in Passes : y # x => passes'[y] = passes[y]
  BY <1>0, OnePass
<1>3. CampaignTyped'
  BY <1>0, <1>1, TypedStands DEF PassMoves, CampaignTyped
<1>4. NewInv' /\ ChoiceInv'
  BY <1>1, <1>2, ChoiceStands
<1>5. passes[x].rows = {} /\ passes[x].row = 0 /\ r.rows = {} /\ r.row = 0
  BY <1>0 DEF CampaignTyped, PassPlaced
<1>6. RowInv'
  BY <1>1, <1>2, <1>5, RowsStand
<1> QED BY <1>3, <1>4, <1>6 DEF CampaignInv

LEMMA NoPassPlaced == M!NoPass \in Pass /\ \A n \in Nat : PassPlaced(M!NoPass, n)
  BY DEF M!NoPass, Pass, Stages, PassPlaced

LEMMA EnrollKeeps ==
    ASSUME CampaignInv, NEW x \in Passes, M!Enroll(x)
    PROVE  CampaignInv'
<1>0. /\ CampaignTyped /\ UNCHANGED <<campaign, steps, sends, messages, excused, orphans>>
      /\ passes[x].stage = "enroll" /\ passes[x] \in Pass /\ Len(sends) \in Nat /\ PassPlaced(passes[x], Len(sends))
  BY SendsFacts DEF CampaignInv, CampaignTyped, M!Enroll, M!plan
<1>1. CASE campaign = "deleted"
  <2>1. passes' = [passes EXCEPT ![x] = M!NoPass] /\ UNCHANGED customers
    BY <1>1 DEF M!Enroll, M!Become
  <2>2. M!NoPass.stage = "none" /\ M!NoPass.who = {} /\ M!NoPass.cu = {}
    BY DEF M!NoPass
  <2> QED BY <1>0, <2>1, <2>2, NoPassPlaced, NobodyChosen DEF PassMoves
<1>2. CASE campaign # "deleted"
  <2>1. PICK c \in passes[x].who :
          /\ customers' = IF customers[c].enrolment = "none"
                          THEN [customers EXCEPT ![c].enrolment = "active", ![c].recent = TRUE, ![c].ordered = FALSE]
                          ELSE customers
          /\ passes' = [passes EXCEPT ![x] =
               [passes[x] EXCEPT !.stage = "schedule", !.who = @ \ {c}, !.cu = {c},
                                 !.steps = {s \in Steps : steps[s] = "on"}]]
    BY <1>2 DEF M!Enroll, M!Become
  <2> DEFINE r == [passes[x] EXCEPT !.stage = "schedule", !.who = @ \ {c}, !.cu = {c},
                                    !.steps = {s \in Steps : steps[s] = "on"}]
  <2>2. c \in Customers
    BY <1>0 DEF Pass
  <2>3. /\ r \in Pass /\ r.stage = "schedule" /\ r.who = passes[x].who \ {c} /\ r.cu = {c}
        /\ r.rows = {} /\ r.row = 0 /\ r.steps \subseteq Steps
        /\ passes[x].rows = {} /\ passes[x].row = 0 /\ passes[x].cu = {}
    BY <1>0, <2>2 DEF Pass, Stages, PassPlaced
  <2> HIDE DEF r
  <2>4. PassMoves(x, r) /\ PassPlaced(r, Len(sends))
    BY <1>0, <2>1, <2>2, <2>3 DEF PassMoves, PassPlaced, r
  <2>5. passes'[x] = r /\ \A y \in Passes : y # x => passes'[y] = passes[y]
    BY <1>0, <2>4, OnePass
  <2>6. /\ customers' \in [Customers -> CustomerRow] /\ customers'[c].enrolment # "none"
        /\ \A d \in Customers : d # c => customers'[d] = customers[d]
    <3>0. customers \in [Customers -> CustomerRow] /\ customers[c] \in CustomerRow
      BY <1>0, <2>2 DEF CampaignTyped
    <3>1. CASE customers[c].enrolment = "none"
      <4> DEFINE e == [customers[c] EXCEPT !.enrolment = "active", !.recent = TRUE, !.ordered = FALSE]
      <4>1. e \in CustomerRow /\ e.enrolment = "active"
        BY <3>0 DEF CustomerRow
      <4>2. customers' = [customers EXCEPT ![c] = e]
        BY <2>1, <3>0, <3>1
      <4> HIDE DEF e
      <4> QED BY <2>2, <3>0, <4>1, <4>2
    <3>2. CASE customers[c].enrolment # "none"
      BY <2>1, <3>0, <3>2
    <3> QED BY <3>1, <3>2
  <2>7. SendsKeep /\ PlanKeeps
    BY <1>0, SendsStay, PlanStays
  <2>8. CampaignTyped'
    BY <1>0, <2>4, <2>6, <2>7, TypedStands DEF PassMoves, CampaignTyped
  <2>9. RowInv'
    BY <1>0, <2>3, <2>5, <2>7, RowsStand
  <2>10. NewInv'
    <3> SUFFICES ASSUME NEW d \in Customers, customers'[d].enrolment = "none"
                 PROVE  /\ \A i \in M!Rows : sends[i].who = d => sends[i].step = NoStep
                        /\ \A y \in Passes : d \notin passes'[y].cu
      BY <1>0 DEF NewInv, M!Rows
    <3>1. d # c /\ customers[d].enrolment = "none"
      BY <2>6
    <3>2. \A y \in Passes : d \notin passes[y].cu
      BY <1>2, <3>1 DEF CampaignInv, NewInv
    <3> QED BY <1>2, <2>3, <2>5, <3>1, <3>2 DEF CampaignInv, NewInv
  <2>11. ChoiceInv'
    <3> SUFFICES ASSUME NEW d \in Customers \ excused PROVE (ChosenOnce(d) /\ NewToPass(d) /\ MadeOnce(d))'
      BY <1>0 DEF ChoiceInv
    <3>0. ChosenOnce(d) /\ NewToPass(d) /\ MadeOnce(d) /\ M!Rows' = M!Rows
      BY <1>0 DEF CampaignInv, ChoiceInv, M!Rows
    <3>1. \A y \in Passes : d \in Chosen(y)' => d \in Chosen(y)
      BY <2>1, <2>3, <2>5 DEF Chosen
    <3>2. ChosenOnce(d)'
      BY <3>0, <3>1 DEF ChosenOnce
    <3>3. MadeOnce(d)'
      BY <1>0, <3>0 DEF MadeOnce
    <3>4. NewToPass(d)'
      <4> SUFFICES ASSUME NEW y \in Passes
                   PROVE  /\ d \in passes'[y].who => customers'[d].enrolment = "none"
                          /\ d \in passes'[y].cu => \A i \in M!Rows :
                                sends[i].who = d => sends[i].step \notin passes'[y].steps
        BY <1>0, <3>0 DEF NewToPass
      <4>1. CASE d = c
        <5>1. customers[c].enrolment = "none"
          BY <1>2, <2>1, <3>0, <4>1 DEF NewToPass
        <5>2. \A i \in M!Rows : sends[i].who = c => sends[i].step = NoStep
          BY <1>2, <2>2, <5>1 DEF CampaignInv, NewInv
        <5>3. d \notin passes'[y].who
          BY <2>1, <2>3, <2>5, <3>0, <4>1 DEF ChosenOnce, Chosen
        <5>4. passes'[y].steps \subseteq Steps
          BY <1>0, <2>3, <2>5 DEF CampaignTyped, Pass
        <5> QED BY <4>1, <5>2, <5>3, <5>4, CampaignNames
      <4>2. CASE d # c
        BY <1>2, <2>3, <2>5, <2>6, <3>0, <4>2 DEF NewToPass
      <4> QED BY <4>1, <4>2
    <3> QED BY <3>2, <3>3, <3>4
  <2> QED BY <2>8, <2>9, <2>10, <2>11 DEF CampaignInv
<1> QED BY <1>1, <1>2

LEMMA ScheduleKeeps ==
    ASSUME CampaignInv, NEW x \in Passes, M!Schedule(x)
    PROVE  CampaignInv'
<1>0. /\ CampaignTyped /\ UNCHANGED <<campaign, steps, customers, excused, orphans>>
      /\ passes[x].stage = "schedule" /\ passes[x] \in Pass /\ Len(sends) \in Nat /\ PassPlaced(passes[x], Len(sends))
  BY SendsFacts DEF CampaignInv, CampaignTyped, M!Schedule, M!plan
<1>c. PICK c \in Customers : c \notin passes[x].who /\ passes[x].cu = {c}
  BY <1>0 DEF PassPlaced
<1>1. CASE passes[x].steps = {}
  <2> DEFINE r == [passes[x] EXCEPT !.stage = "enroll", !.cu = {}]
  <2>1. passes' = [passes EXCEPT ![x] = r] /\ UNCHANGED <<sends, messages>>
    BY <1>1 DEF M!Schedule, M!Become
  <2>2. /\ r \in Pass /\ r.stage = "enroll" /\ r.who = passes[x].who /\ r.cu = {} /\ r.rows = passes[x].rows
        /\ r.row = passes[x].row
    BY <1>0 DEF Pass, Stages
  <2> HIDE DEF r
  <2>3. PassPlaced(r, Len(sends))
    BY <1>0, <2>2 DEF PassPlaced
  <2> QED BY <1>0, <2>1, <2>2, <2>3, NobodyChosen DEF PassMoves
<1>2. ASSUME NEW s \in passes[x].steps, steps[s] = "deleted", M!Become(x, M!NoPass), UNCHANGED <<sends, messages>>
      PROVE  CampaignInv'
  <2>1. passes' = [passes EXCEPT ![x] = M!NoPass]
    BY <1>2 DEF M!Become
  <2>2. M!NoPass.stage = "none" /\ M!NoPass.who = {} /\ M!NoPass.cu = {}
    BY DEF M!NoPass
  <2> QED BY <1>0, <1>2, <2>1, <2>2, NoPassPlaced, NobodyChosen DEF PassMoves
<1>3. ASSUME NEW s \in passes[x].steps, steps[s] # "deleted",
             M!AddRow(s, c) \/ UNCHANGED <<sends, messages>>,
             passes' = [passes EXCEPT ![x] = [passes[x] EXCEPT !.steps = @ \ {s}]]
      PROVE  CampaignInv'
  <2> DEFINE r == [passes[x] EXCEPT !.steps = @ \ {s}]
  <2>1. /\ r \in Pass /\ r.stage = "schedule" /\ r.who = passes[x].who /\ r.cu = {c} /\ r.rows = passes[x].rows
        /\ r.row = passes[x].row /\ r.steps = passes[x].steps \ {s} /\ s \in Steps
    BY <1>0, <1>c DEF Pass
  <2>2. PassMoves(x, r)
    BY <1>3, <2>1 DEF PassMoves
  <2> HIDE DEF r
  <2>3. PassPlaced(r, Len(sends))
    BY <1>0, <1>c, <2>1 DEF PassPlaced
  <2>4. passes'[x] = r /\ \A y \in Passes : y # x => passes'[y] = passes[y]
    BY <1>0, <2>2, OnePass
  <2>5. CASE UNCHANGED <<sends, messages>>
    BY <1>0, <1>c, <2>1, <2>2, <2>3, <2>5, NobodyChosen
  <2>6. CASE M!AddRow(s, c)
    <3>1. CampaignTyped'
      BY <1>0, <2>1, <2>2, <2>3, <2>6, GrownTyped
    <3>2. RowInv'
      BY <1>0, <2>1, <2>4, <2>6, GrownRows
    <3>3. PICK n \in Nat : /\ n = Len(sends) /\ M!Rows = 1..n /\ M!Rows' = 1..(n + 1)
                           /\ \A i \in 1..n : sends'[i] = sends[i]
                           /\ sends'[n + 1].step = s /\ sends'[n + 1].who = c
      BY <1>0, <2>1, <2>6, RowsGrow, SendsFacts DEF M!Rows
    <3>4. \A i \in M!Rows' : \/ i \in M!Rows /\ sends'[i] = sends[i]
                             \/ i = n + 1 /\ sends'[i].step = s /\ sends'[i].who = c
      BY <3>3
    <3>5. campaign # "deleted"
      BY <1>0, <1>3, <2>1 DEF CampaignTyped
    <3>6. NewInv'
      <4> SUFFICES ASSUME NEW d \in Customers, customers[d].enrolment = "none"
                   PROVE  /\ \A i \in M!Rows' : sends'[i].who = d => sends'[i].step = NoStep
                          /\ \A y \in Passes : d \notin passes'[y].cu
        BY <1>0 DEF NewInv
      <4>1. /\ \A i \in M!Rows : sends[i].who = d => sends[i].step = NoStep
            /\ \A y \in Passes : d \notin passes[y].cu
        BY <3>5 DEF CampaignInv, NewInv
      <4>2. d # c
        BY <1>c, <4>1
      <4> QED BY <2>1, <2>4, <3>4, <4>1, <4>2
    <3>7. ChoiceInv'
      <4> SUFFICES ASSUME NEW d \in Customers \ excused PROVE (ChosenOnce(d) /\ NewToPass(d) /\ MadeOnce(d))'
        BY <1>0 DEF ChoiceInv
      <4>0. ChosenOnce(d) /\ NewToPass(d) /\ MadeOnce(d)
        BY DEF CampaignInv, ChoiceInv
      <4>1. \A y \in Passes : Chosen(y)' = Chosen(y)
        BY <1>c, <2>1, <2>4 DEF Chosen
      <4>2. ChosenOnce(d)'
        BY <4>0, <4>1 DEF ChosenOnce
      <4>3. d = c => \A i \in M!Rows : sends[i].who = c => sends[i].step \notin passes[x].steps
        BY <1>c, <3>5, <4>0 DEF NewToPass
      <4>4. MadeOnce(d)'
        <5> SUFFICES ASSUME NEW i \in M!Rows', NEW j \in M!Rows', sends'[i].who = d, sends'[j].who = d,
                            sends'[i].step # NoStep, sends'[i].step = sends'[j].step
                     PROVE  i = j
          BY DEF MadeOnce
        <5>1. CASE i \in M!Rows /\ sends'[i] = sends[i] /\ j \in M!Rows /\ sends'[j] = sends[j]
          BY <4>0, <5>1 DEF MadeOnce
        <5>2. CASE i = n + 1 /\ sends'[i].step = s /\ d = c /\ j \in M!Rows /\ sends'[j] = sends[j]
          BY <4>3, <5>2
        <5>3. CASE j = n + 1 /\ sends'[j].step = s /\ d = c /\ i \in M!Rows /\ sends'[i] = sends[i]
          BY <4>3, <5>3
        <5> QED BY <3>4, <5>1, <5>2, <5>3
      <4>5. NewToPass(d)'
        <5> SUFFICES ASSUME NEW y \in Passes
                     PROVE  /\ d \in passes'[y].who => customers[d].enrolment = "none"
                            /\ d \in passes'[y].cu => \A i \in M!Rows' :
                                  sends'[i].who = d => sends'[i].step \notin passes'[y].steps
          BY <1>0 DEF NewToPass
        <5>1. passes'[y].who = passes[y].who /\ passes'[y].cu = passes[y].cu /\ passes'[y].steps \subseteq passes[y].steps
          BY <1>c, <2>1, <2>4
        <5>2. d \in passes'[y].who => customers[d].enrolment = "none"
          BY <3>5, <4>0, <5>1 DEF NewToPass
        <5>3. ASSUME d \in passes'[y].cu, NEW i \in M!Rows', sends'[i].who = d
              PROVE  sends'[i].step \notin passes'[y].steps
          <6>1. CASE i \in M!Rows /\ sends'[i] = sends[i]
            BY <3>5, <4>0, <5>1, <5>3, <6>1 DEF NewToPass
          <6>2. CASE i = n + 1 /\ sends'[i].step = s /\ d = c
            <7>1. y = x
              BY <1>c, <4>0, <5>1, <5>3, <6>2 DEF ChosenOnce, Chosen
            <7> QED BY <2>1, <2>4, <6>2, <7>1
          <6> QED BY <3>4, <5>3, <6>1, <6>2
        <5> QED BY <5>2, <5>3
      <4> QED BY <4>2, <4>4, <4>5
    <3> QED BY <3>1, <3>2, <3>6, <3>7 DEF CampaignInv
  <2> QED BY <1>3, <2>5, <2>6
<1>4. CASE passes[x].steps # {}
  <2>1. PICK s \in passes[x].steps :
          IF steps[s] = "deleted"
          THEN M!Become(x, M!NoPass) /\ UNCHANGED <<sends, messages>>
          ELSE /\ IF Len(sends) < MaxRows THEN \A d \in passes[x].cu : M!AddRow(s, d) ELSE UNCHANGED <<sends, messages>>
               /\ M!Become(x, [passes[x] EXCEPT !.steps = @ \ {s}])
    BY <1>4 DEF M!Schedule
  <2>2. CASE steps[s] = "deleted"
    BY <1>2, <2>1, <2>2
  <2>3. CASE steps[s] # "deleted"
    BY <1>3, <1>c, <2>1, <2>3 DEF M!Become
  <2> QED BY <2>2, <2>3
<1> QED BY <1>1, <1>4

\* A step by which a pass puts rows down, or takes up one of its rows to send it.
LEMMA RowHandled ==
    ASSUME CampaignInv, SendsKeep, NEW x \in Passes, NEW r, PassMoves(x, r), UNCHANGED <<messages, excused, orphans>>,
           r.rows \subseteq passes[x].rows, r.row = 0 \/ (r.row \in passes[x].rows /\ r.stage = "send"),
           passes[x].stage = "mark" => sends'[passes[x].row].status # "pending"
    PROVE  RowInv'
<1>0. M!Rows' = M!Rows /\ M!Rows = 1..Len(sends)
  BY DEF M!Rows, SendsKeep
<1>1. passes'[x] = r /\ \A y \in Passes : y # x => passes'[y] = passes[y]
  BY OnePass DEF CampaignInv
<1>2. \A y \in Passes : M!Held(y)' \subseteq M!Held(y)
  BY <1>1 DEF M!Held
<1>3. ASSUME NEW i \in M!Rows, sends'[i].who \notin excused' PROVE RowAlone(i)'
  <2>1. RowAlone(i) /\ i # 0
    BY <1>0, <1>3 DEF CampaignInv, RowInv, SendsKeep
  <2>2. \A y, z \in Passes : i \in M!Held(y)' /\ i \in M!Held(z)' => y = z
    BY <1>2, <2>1 DEF RowAlone
  <2>3. \A y \in Passes : i \in M!Held(y)' => i \notin orphans'
    BY <1>2, <2>1 DEF RowAlone
  <2>4. messages'[i] > 0 => \/ sends'[i].status # "pending" \/ i \in orphans'
                            \/ \E y \in Passes : passes'[y].row = i /\ passes'[y].stage = "mark"
    BY <1>0, <1>1, <2>1 DEF RowAlone, SendsKeep
  <2>5. \A y \in Passes : i \in passes'[y].rows \/ (passes'[y].row = i /\ passes'[y].stage = "send") => messages'[i] = 0
    BY <1>1, <2>1 DEF RowAlone
  <2>6. messages'[i] <= 1
    BY <2>1 DEF RowAlone
  <2> QED BY <2>2, <2>3, <2>4, <2>5, <2>6 DEF RowAlone
<1> QED BY <1>0, <1>3 DEF RowInv

\* A pass at its rows has nobody chosen.
LEMMA FiringChoosesNobody ==
    ASSUME CampaignInv, SendsKeep, PlanKeeps, EnrolmentsKeep, NEW x \in Passes, NEW r, PassMoves(x, r),
           excused \subseteq excused', r.who = {}, r.cu = {}, PassPlaced(r, Len(sends)),
           messages' \in Seq(Nat), Len(messages') = Len(messages), RowInv'
    PROVE  CampaignInv'
<1>0. CampaignTyped
  BY DEF CampaignInv
<1>1. passes'[x] = r /\ \A y \in Passes : y # x => passes'[y] = passes[y]
  BY <1>0, OnePass
<1>2. CampaignTyped'
  BY <1>0, TypedStands DEF EnrolmentsKeep, PassMoves
<1>3. NewInv' /\ ChoiceInv'
  BY <1>1, ChoiceStands
<1> QED BY <1>2, <1>3 DEF CampaignInv

LEMMA TakeBatchKeeps ==
    ASSUME CampaignInv, NEW x \in Passes, M!TakeBatch(x)
    PROVE  CampaignInv'
<1> DEFINE ripe == {i \in M!Rows : M!HasCome(i)}
           k == IF M!Cardinality(ripe) < BatchSize THEN M!Cardinality(ripe) ELSE BatchSize
<1>0. /\ CampaignTyped /\ UNCHANGED <<campaign, steps, customers, sends, messages, orphans>>
      /\ passes[x].stage = "enroll" /\ passes[x].who = {}
  BY DEF CampaignInv, M!TakeBatch, M!plan
<1>1. PICK batch \in M!kSubset(k, ripe) :
        /\ passes' = [passes EXCEPT ![x] = [M!NoPass EXCEPT !.stage = "fire", !.rows = batch]]
        /\ excused' = excused \cup
             {sends[i].who : i \in {j \in batch : j \in orphans \/ \E y \in Passes : j \in M!Held(y)}}
  BY DEF M!TakeBatch, M!Become
<1>2. batch \subseteq ripe
  BY <1>1 DEF M!kSubset
<1> HIDE DEF ripe, k
<1> DEFINE r == [M!NoPass EXCEPT !.stage = "fire", !.rows = batch]
<1>3. batch \subseteq M!Rows /\ batch \subseteq 1..Len(sends) /\ \A i \in batch : sends[i].status = "pending"
  BY <1>0, <1>2, SendsFacts DEF ripe, M!HasCome
<1>4. /\ r \in Pass /\ r.stage = "fire" /\ r.who = {} /\ r.cu = {} /\ r.rows = batch /\ r.row = 0
  <2>1. batch \subseteq Nat
    BY <1>0, <1>3, SendsFacts
  <2> QED BY <2>1 DEF M!NoPass, Pass, Stages
<1>5. PassMoves(x, r)
  BY <1>1, <1>4 DEF PassMoves
<1> HIDE DEF r
<1>6. PassPlaced(r, Len(sends))
  BY <1>0, <1>3, <1>4, SendsFacts DEF PassPlaced
<1>7. passes'[x] = r /\ \A y \in Passes : y # x => passes'[y] = passes[y]
  BY <1>0, <1>5, OnePass
<1>8. SendsKeep /\ PlanKeeps /\ EnrolmentsKeep /\ messages' \in Seq(Nat) /\ Len(messages') = Len(messages)
  BY <1>0, SendsStay, PlanStays, CustomersStay DEF CampaignTyped
<1>9. RowInv'
  <2>1. ASSUME NEW i \in M!Rows, sends[i].who \notin excused' PROVE RowAlone(i)'
    <3>1. RowAlone(i) /\ i # 0 /\ messages[i] \in Nat
      BY <1>0, <1>1, <2>1, SendsFacts DEF CampaignInv, RowInv
    <3>2. i \in batch => i \notin orphans /\ \A y \in Passes : i \notin M!Held(y)
      BY <1>1, <2>1
    <3>3. i \in batch => messages[i] = 0
      BY <1>3, <3>1, <3>2 DEF RowAlone, M!Held
    <3>4. M!Held(x)' = batch /\ \A y \in Passes : y # x => M!Held(y)' = M!Held(y)
      BY <1>4, <1>7 DEF M!Held
    <3>5. \A y, z \in Passes : i \in M!Held(y)' /\ i \in M!Held(z)' => y = z
      BY <3>1, <3>2, <3>4 DEF RowAlone
    <3>6. \A y \in Passes : i \in M!Held(y)' => i \notin orphans'
      BY <1>0, <3>1, <3>2, <3>4 DEF RowAlone
    <3>7. messages'[i] > 0 => \/ sends'[i].status # "pending" \/ i \in orphans'
                              \/ \E y \in Passes : passes'[y].row = i /\ passes'[y].stage = "mark"
      BY <1>0, <1>7, <3>1 DEF RowAlone
    <3>8. \A y \in Passes :
            i \in passes'[y].rows \/ (passes'[y].row = i /\ passes'[y].stage = "send") => messages'[i] = 0
      BY <1>0, <1>4, <1>7, <3>1, <3>3 DEF RowAlone
    <3>9. messages'[i] <= 1
      BY <1>0, <3>1 DEF RowAlone
    <3> QED BY <3>5, <3>6, <3>7, <3>8, <3>9 DEF RowAlone
  <2> QED BY <1>0, <2>1 DEF RowInv, M!Rows
<1>10. excused \subseteq excused'
  BY <1>1
<1> QED BY <1>4, <1>5, <1>6, <1>8, <1>9, <1>10, FiringChoosesNobody

LEMMA TakeRowKeeps ==
    ASSUME CampaignInv, NEW x \in Passes, M!TakeRow(x)
    PROVE  CampaignInv'
<1>0. /\ CampaignTyped /\ UNCHANGED <<campaign, steps, messages, excused, orphans>> /\ passes[x].stage = "fire"
      /\ passes[x] \in Pass /\ PassPlaced(passes[x], Len(sends)) /\ Len(sends) \in Nat
  BY SendsFacts DEF CampaignInv, CampaignTyped, M!TakeRow, M!plan
<1>1. /\ passes[x].row = 0 /\ passes[x].who = {} /\ passes[x].cu = {} /\ passes[x].rows \subseteq 1..Len(sends)
      /\ messages' \in Seq(Nat) /\ Len(messages') = Len(messages) /\ PlanKeeps
  BY <1>0, PlanStays DEF PassPlaced, CampaignTyped
\* Whatever becomes of the row, the pass is left with fewer.
<1>2. ASSUME NEW r, PassMoves(x, r), PassPlaced(r, Len(sends)), r.rows \subseteq passes[x].rows, r.who = {}, r.cu = {},
             r.row = 0 \/ (r.row \in passes[x].rows /\ r.stage = "send"), SendsKeep, EnrolmentsKeep
      PROVE  CampaignInv'
  <2>1. RowInv'
    BY <1>0, <1>2, RowHandled
  <2> QED BY <1>0, <1>1, <1>2, <2>1, FiringChoosesNobody
<1>3. CASE M!Become(x, M!NoPass) /\ UNCHANGED <<sends, customers>>
  <2>1. M!NoPass.rows = {} /\ M!NoPass.who = {} /\ M!NoPass.cu = {} /\ M!NoPass.row = 0
    BY DEF M!NoPass
  <2>2. PassMoves(x, M!NoPass) /\ PassPlaced(M!NoPass, Len(sends)) /\ SendsKeep /\ EnrolmentsKeep
    BY <1>0, <1>3, NoPassPlaced, SendsStay, CustomersStay DEF PassMoves, M!Become
  <2> QED BY <1>2, <2>1, <2>2
<1>4. ASSUME NEW i \in passes[x].rows,
             LET rest == [passes[x] EXCEPT !.rows = @ \ {i}]
                 c == sends[i].who IN
             IF sends[i].step = NoStep \/ steps[sends[i].step] = "deleted"
             THEN M!Marked(i, "skipped") /\ M!Become(x, rest) /\ UNCHANGED customers
             ELSE IF M!OrderedSince(c)
             THEN /\ sends' = M!SkippedFor(i) /\ M!Become(x, rest)
                  /\ customers' = [customers EXCEPT ![c].enrolment = "completed"]
             ELSE M!Become(x, [rest EXCEPT !.stage = "send", !.row = i]) /\ UNCHANGED <<sends, customers>>
      PROVE  CampaignInv'
  <2> DEFINE rest == [passes[x] EXCEPT !.rows = @ \ {i}]
             c == sends[i].who
             taken == [rest EXCEPT !.stage = "send", !.row = i]
  <2>0. i \in 1..Len(sends) /\ sends[i] \in SendRow /\ c \in Customers
    BY <1>0, <1>1, SendsFacts DEF SendRow
  <2>1. /\ rest \in Pass /\ rest.rows = passes[x].rows \ {i} /\ rest.row = 0 /\ rest.stage = "fire"
        /\ rest.who = {} /\ rest.cu = {}
    BY <1>0, <1>1 DEF Pass
  <2>2. /\ taken \in Pass /\ taken.rows = passes[x].rows \ {i} /\ taken.row = i /\ taken.stage = "send"
        /\ taken.who = {} /\ taken.cu = {}
    BY <1>0, <1>1, <2>0 DEF Pass, Stages
  <2>3. \/ M!Marked(i, "skipped") /\ M!Become(x, rest) /\ UNCHANGED customers
        \/ /\ M!OrderedSince(c) /\ sends' = M!SkippedFor(i) /\ M!Become(x, rest)
           /\ customers' = [customers EXCEPT ![c].enrolment = "completed"]
        \/ M!Become(x, taken) /\ UNCHANGED <<sends, customers>>
    BY <1>4
  <2> HIDE DEF rest, taken
  <2>4. PassPlaced(rest, Len(sends)) /\ PassPlaced(taken, Len(sends))
    BY <1>0, <1>1, <2>0, <2>1, <2>2 DEF PassPlaced
  <2>5. CASE M!Marked(i, "skipped") /\ M!Become(x, rest) /\ UNCHANGED customers
    <3>1. SendsKeep /\ EnrolmentsKeep
      BY <1>0, <2>0, <2>5, SendsMarked, CustomersStay DEF Statuses
    <3> QED BY <1>2, <2>1, <2>4, <2>5, <3>1 DEF PassMoves, M!Become
  <2>6. CASE /\ M!OrderedSince(c) /\ sends' = M!SkippedFor(i) /\ M!Become(x, rest)
             /\ customers' = [customers EXCEPT ![c].enrolment = "completed"]
    <3>1. SendsKeep
      <4>1. /\ sends' \in [1..Len(sends) -> SendRow]
            /\ \A j \in 1..Len(sends) :
                 /\ sends'[j].step = sends[j].step /\ sends'[j].who = sends[j].who
                 /\ sends'[j].status = "pending" => sends[j].status = "pending"
        BY <1>0, <2>6, SendsFacts DEF M!SkippedFor, SendRow, Statuses
      <4> QED BY <1>0, <4>1, SendsMapped
    <3>2. EnrolmentsKeep
      BY ZenonT(30), <1>0, <2>0, <2>6 DEF EnrolmentsKeep, CampaignTyped, CustomerRow, M!OrderedSince
    <3> QED BY <1>2, <2>1, <2>4, <2>6, <3>1, <3>2 DEF PassMoves, M!Become
  <2>7. CASE M!Become(x, taken) /\ UNCHANGED <<sends, customers>>
    <3>1. SendsKeep /\ EnrolmentsKeep
      BY <1>0, <2>7, SendsStay, CustomersStay
    <3> QED BY <1>2, <2>2, <2>4, <2>7, <3>1 DEF PassMoves, M!Become
  <2> QED BY <2>3, <2>5, <2>6, <2>7
<1> QED BY <1>3, <1>4 DEF M!TakeRow

LEMMA SendKeeps ==
    ASSUME CampaignInv, NEW x \in Passes, M!Send(x)
    PROVE  CampaignInv'
<1> DEFINE k == passes[x].row
           r == [passes[x] EXCEPT !.stage = "mark"]
<1>0. /\ CampaignTyped /\ UNCHANGED <<campaign, steps, customers, sends, excused, orphans>> /\ passes[x].stage = "send"
      /\ passes[x] \in Pass /\ PassPlaced(passes[x], Len(sends)) /\ passes' = [passes EXCEPT ![x] = r]
      /\ messages' = messages \/ messages' = [messages EXCEPT ![k] = @ + 1]
  BY DEF CampaignInv, CampaignTyped, M!Send, M!plan, M!Become
<1>1. k \in 1..Len(sends) /\ k \notin passes[x].rows /\ passes[x].who = {} /\ passes[x].cu = {}
  BY <1>0, SendsFacts DEF PassPlaced
<1>2. /\ r \in Pass /\ r.stage = "mark" /\ r.row = k /\ r.rows = passes[x].rows /\ r.who = {} /\ r.cu = {}
  BY <1>0, <1>1 DEF Pass, Stages
<1> HIDE DEF r
<1>3. PassMoves(x, r) /\ PassPlaced(r, Len(sends))
  BY <1>0, <1>1, <1>2 DEF PassMoves, PassPlaced
<1>4. passes'[x] = r /\ \A y \in Passes : y # x => passes'[y] = passes[y]
  BY <1>0, <1>3, OnePass
<1>5. SendsKeep /\ PlanKeeps /\ EnrolmentsKeep
  BY <1>0, SendsStay, PlanStays, CustomersStay
<1>6. /\ messages' \in Seq(Nat) /\ Len(messages') = Len(messages)
      /\ \A i \in 1..Len(sends) : /\ i # k => messages'[i] = messages[i]
                                  /\ messages'[i] \in {messages[i], messages[i] + 1}
  <2>1. messages \in Seq(Nat) /\ k \in DOMAIN messages /\ DOMAIN messages = 1..Len(sends) /\ Len(messages) \in Nat
    BY <1>0, <1>1, SendsFacts DEF CampaignTyped
  <2>2. CASE messages' = messages
    BY <2>1, <2>2
  <2>3. CASE messages' = [messages EXCEPT ![k] = @ + 1]
    <3>1. messages[k] + 1 \in Nat
      BY <1>0, <1>1, SendsFacts
    <3>2. messages' \in Seq(Nat) /\ Len(messages') = Len(messages)
      BY <2>1, <2>3, <3>1
    <3> QED BY <2>1, <2>3, <3>2
  <2> QED BY <1>0, <2>2, <2>3
<1>7. RowInv'
  <2>1. ASSUME NEW i \in M!Rows, sends[i].who \notin excused PROVE RowAlone(i)'
    <3>1. RowAlone(i) /\ i # 0 /\ messages[i] \in Nat /\ i \in 1..Len(sends)
      BY <1>0, <2>1, SendsFacts DEF CampaignInv, RowInv
    <3>2. \A y \in Passes : M!Held(y)' = M!Held(y)
      BY <1>2, <1>4 DEF M!Held
    <3>3. i = k => messages[i] = 0 /\ \A y \in Passes : i \in M!Held(y) => y = x
      BY <1>0, <3>1 DEF RowAlone, M!Held
    <3>4. messages'[i] > 0 => \/ sends'[i].status # "pending" \/ i \in orphans'
                              \/ \E y \in Passes : passes'[y].row = i /\ passes'[y].stage = "mark"
      BY <1>0, <1>2, <1>4, <1>6, <3>1 DEF RowAlone
    <3>5. \A y \in Passes :
            i \in passes'[y].rows \/ (passes'[y].row = i /\ passes'[y].stage = "send") => messages'[i] = 0
      <4>1. \A y \in Passes : i \in passes'[y].rows \/ (passes'[y].row = i /\ passes'[y].stage = "send") =>
              i \in passes[y].rows \/ (passes[y].row = i /\ passes[y].stage = "send" /\ y # x)
        BY <1>2, <1>4
      <4>2. CASE i # k
        BY <1>6, <3>1, <4>1, <4>2 DEF RowAlone
      <4>3. CASE i = k
        <5>1. \A y \in Passes : i \in passes[y].rows \/ passes[y].row = i => y = x
          BY <3>1, <3>3, <4>3 DEF M!Held
        <5> QED BY <1>1, <4>1, <4>3, <5>1
      <4> QED BY <4>2, <4>3
    <3>6. messages'[i] <= 1
      BY <1>6, <3>1, <3>3 DEF RowAlone
    <3> QED BY <1>0, <3>1, <3>2, <3>4, <3>5, <3>6 DEF RowAlone
  <2> QED BY <1>0, <2>1 DEF RowInv, M!Rows
<1> QED BY <1>0, <1>2, <1>3, <1>5, <1>6, <1>7, FiringChoosesNobody

LEMMA MarkKeeps ==
    ASSUME CampaignInv, NEW x \in Passes, M!Mark(x)
    PROVE  CampaignInv'
<1> DEFINE r == [passes[x] EXCEPT !.stage = "fire", !.row = 0]
<1>0. /\ CampaignTyped /\ UNCHANGED <<campaign, steps, customers, messages, excused, orphans>>
      /\ passes[x].stage = "mark" /\ passes[x] \in Pass /\ PassPlaced(passes[x], Len(sends))
      /\ passes' = [passes EXCEPT ![x] = r] /\ \E status \in {"sent", "failed"} : M!Marked(passes[x].row, status)
  BY DEF CampaignInv, CampaignTyped, M!Mark, M!plan, M!Become
<1>1. passes[x].row \in 1..Len(sends) /\ passes[x].who = {} /\ passes[x].cu = {}
  BY <1>0, SendsFacts DEF PassPlaced
<1>2. r \in Pass /\ r.stage = "fire" /\ r.row = 0 /\ r.rows = passes[x].rows /\ r.who = {} /\ r.cu = {}
  BY <1>0, <1>1 DEF Pass, Stages
<1> HIDE DEF r
<1>3. PassMoves(x, r) /\ PassPlaced(r, Len(sends))
  BY <1>0, <1>1, <1>2, SendsFacts DEF PassMoves, PassPlaced
<1>4. SendsKeep /\ sends'[passes[x].row].status # "pending"
  BY <1>0, <1>1, SendsMarked DEF Statuses
<1>5. PlanKeeps /\ EnrolmentsKeep /\ messages' \in Seq(Nat) /\ Len(messages') = Len(messages)
  BY <1>0, PlanStays, CustomersStay DEF CampaignTyped
<1>6. RowInv'
  BY <1>0, <1>2, <1>3, <1>4, RowHandled
<1> QED BY <1>0, <1>2, <1>3, <1>4, <1>5, <1>6, FiringChoosesNobody

\* What the pass held is an orphan from then on.
LEMMA CrashKeeps ==
    ASSUME CampaignInv, NEW x \in Passes, M!Crash(x)
    PROVE  CampaignInv'
<1>0. /\ CampaignTyped /\ UNCHANGED <<campaign, steps, customers, sends, messages, excused>>
      /\ orphans' = orphans \cup M!Held(x) /\ passes' = [passes EXCEPT ![x] = M!NoPass]
  BY DEF CampaignInv, M!Crash, M!plan, M!Become
<1>1. M!NoPass.rows = {} /\ M!NoPass.who = {} /\ M!NoPass.cu = {} /\ M!NoPass.row = 0 /\ M!NoPass.stage = "none"
  BY DEF M!NoPass
<1>2. PassMoves(x, M!NoPass) /\ PassPlaced(M!NoPass, Len(sends))
  BY <1>0, NoPassPlaced, SendsFacts DEF PassMoves
<1>3. passes'[x] = M!NoPass /\ \A y \in Passes : y # x => passes'[y] = passes[y]
  BY <1>0, <1>2, OnePass
<1>4. SendsKeep /\ PlanKeeps /\ EnrolmentsKeep /\ messages' \in Seq(Nat) /\ Len(messages') = Len(messages)
  BY <1>0, SendsStay, PlanStays, CustomersStay DEF CampaignTyped
<1>5. RowInv'
  <2>1. ASSUME NEW i \in M!Rows, sends[i].who \notin excused PROVE RowAlone(i)'
    <3>1. RowAlone(i) /\ i # 0
      BY <1>0, <2>1, SendsFacts DEF CampaignInv, RowInv
    <3>2. M!Held(x)' = {} /\ \A y \in Passes : y # x => M!Held(y)' = M!Held(y)
      BY <1>1, <1>3 DEF M!Held
    <3>3. \A y, z \in Passes : i \in M!Held(y)' /\ i \in M!Held(z)' => y = z
      BY <3>1, <3>2 DEF RowAlone
    <3>4. \A y \in Passes : i \in M!Held(y)' => i \notin orphans'
      BY <1>0, <3>1, <3>2 DEF RowAlone
    <3>5. messages'[i] > 0 => \/ sends'[i].status # "pending" \/ i \in orphans'
                              \/ \E y \in Passes : passes'[y].row = i /\ passes'[y].stage = "mark"
      BY <1>0, <1>3, <3>1 DEF RowAlone, M!Held
    <3>6. \A y \in Passes :
            i \in passes'[y].rows \/ (passes'[y].row = i /\ passes'[y].stage = "send") => messages'[i] = 0
      BY <1>0, <1>1, <1>3, <3>1 DEF RowAlone
    <3>7. messages'[i] <= 1
      BY <1>0, <3>1 DEF RowAlone
    <3> QED BY <3>3, <3>4, <3>5, <3>6, <3>7 DEF RowAlone
  <2> QED BY <1>0, <2>1 DEF RowInv, M!Rows
<1> QED BY <1>0, <1>1, <1>2, <1>4, <1>5, FiringChoosesNobody

LEMMA CampaignNext == CampaignInv /\ [M!Next]_mVars => CampaignInv'
<1> SUFFICES ASSUME CampaignInv, [M!Next]_mVars PROVE CampaignInv'
  OBVIOUS
<1>1. CASE UNCHANGED mVars
  <2>1. /\ CampaignTyped /\ UNCHANGED <<campaign, steps, customers, sends, passes, messages, excused, orphans>>
    BY <1>1 DEF CampaignInv, mVars
  <2> QED BY <2>1, SendsStay, PlanStays, CustomersStay, CampaignOutside
<1>2. CASE \E x \in Passes : \/ M!StartTick(x) \/ M!Enroll(x) \/ M!Schedule(x) \/ M!TakeBatch(x)
                             \/ M!TakeRow(x) \/ M!Send(x) \/ M!Mark(x) \/ M!Crash(x)
  BY <1>2, StartTickKeeps, EnrollKeeps, ScheduleKeeps, TakeBatchKeeps, TakeRowKeeps, SendKeeps, MarkKeeps, CrashKeeps
<1>3. CASE M!SwitchCampaign \/ (\E s \in Steps : M!EditStep(s)) \/ \E i \in M!Rows : M!Due(i)
  BY <1>3, SwitchCampaignKeeps, EditStepKeeps, DueKeeps
<1>4. CASE \E c \in Customers : M!Order(c) \/ M!CoolDown(c) \/ M!FollowUp(c)
  BY <1>4, CustomerMoves, FollowUpKeeps
<1> QED BY <1>1, <1>2, <1>3, <1>4 DEF M!Next

LEMMA HeardOnceFollows == CampaignInv => StepHeardOnce
<1> SUFFICES ASSUME CampaignInv, NEW s \in Steps, NEW c \in Customers \ excused,
                    NEW i \in M!Heard(s, c), NEW j \in M!Heard(s, c)
             PROVE  i = j /\ messages[i] = 1
  BY DEF StepHeardOnce, M!StepHeardOnce
<1>1. /\ i \in M!Rows /\ sends[i].step = s /\ sends[i].who = c /\ messages[i] > 0
      /\ j \in M!Rows /\ sends[j].step = s /\ sends[j].who = c
  BY DEF M!Heard
<1>2. i = j
  BY <1>1, CampaignNames DEF CampaignInv, ChoiceInv, MadeOnce
<1>3. messages[i] \in Nat /\ messages[i] <= 1
  BY <1>1, SendsFacts DEF CampaignInv, RowInv, RowAlone
<1> QED BY <1>1, <1>2, <1>3

\* A customer hears a step of a campaign once, but for overlapping passes, a
\* pass that broke off with the row, or an enrolment that is repeated.
THEOREM StepHeardOnceHolds == M!Spec => []StepHeardOnce
<1>1. [M!Next]_(M!vars) => [M!Next]_mVars
  BY DEF M!vars, mVars
<1> QED BY CampaignInit, <1>1, CampaignNext, HeardOnceFollows, PTL DEF M!Spec

-----------------------------------------------------------------------------
(* The wholes: a behaviour of Packing or of Business is one of every part. *)

LEMMA EachPackingPart ==
  PackingSpec => Spec /\ I!Spec /\ D!Spec
<1>1. PackingInit => Init /\ I!Init /\ D!Init
  BY DEF PackingInit
<1>2. [PackingNext]_<<part, vars, iVars, dVars>> => [Next]_vars /\ [I!Next]_iVars /\ [D!Next]_dVars
  BY DEF PackingNext
<1>3. [PackingNext]_<<part, vars, iVars, dVars>> => [Next]_vars /\ [I!Next]_(I!vars) /\ [D!Next]_(D!vars)
  BY <1>2 DEF iVars, dVars, I!vars, D!vars
<1> QED BY <1>1, <1>3, PTL DEF PackingSpec, Spec, I!Spec, D!Spec

\* What the packers of a tenant live through keeps what each part promises, in the
\* composition the run explores.
THEOREM PackingKeepsItsWord ==
  PackingSpec => [](CountsAreOpenAssignments /\ LoadShared /\ LinkNamesItsInvite /\ DigestOnce)
BY EachPackingPart, CountsAreOpenAssignmentsHolds, LoadSharedHolds, LinkNamesItsInviteHolds, DigestOnceHolds, PTL

LEMMA EachBusinessPart ==
  BusinessSpec => M!Spec /\ C!Spec
<1>1. BusinessInit => M!Init /\ C!Init
  BY DEF BusinessInit
<1>2. [BusinessNext]_bVars => [M!Next]_mVars /\ [C!Next]_cVars
  BY DEF BusinessNext, Counting, Campaigning, bVars
<1>3. [BusinessNext]_bVars => [M!Next]_(M!vars) /\ [C!Next]_(C!vars)
  BY <1>2 DEF mVars, cVars, M!vars, C!vars
<1> QED BY <1>1, <1>3, PTL DEF BusinessSpec, M!Spec, C!Spec

\* So do the transactions and the campaigns of its customers.
THEOREM BusinessKeepsItsWord == BusinessSpec => [](OrdersAreCounted /\ StepHeardOnce)
BY EachBusinessPart, OrdersAreCountedHolds, StepHeardOnceHolds, PTL
=============================================================================
