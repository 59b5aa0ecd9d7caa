----------------------------- MODULE EmailProofs -----------------------------
(***************************************************************************)
(* Proofs about EmailIngestion, for any number of pollers, mails, rebuilds *)
(* and failures, and about EmailProcessing, for any caps.                  *)
(*                                                                         *)
(* That the offset covers no mail that was not tried rests on what each    *)
(* poll knows of the mailbox it is valid for: up to which UID every mail   *)
(* has been tried, and that its batch has no gap.                          *)
(*                                                                         *)
(* HandedOn and FailedIsBuried follow from where a job can complete or     *)
(* fail.  StatusTells needs the status already while the poller has not    *)
(* come back, and while the worker is about to trigger the pipeline; and   *)
(* that an attempt never loses sight of an attachment.                     *)
(***************************************************************************)
EXTENDS EmailIngestion, EmailProcessing, FiniteSetTheorems, WellFoundedInduction, TLAPS

-----------------------------------------------------------------------------
(* From the mailbox to the queue. *)

\* Every mail up to a UID was tried, and the UID is not ahead of the mailbox.
Tried(uid) == uid <= HeadUid /\ \A k \in Box : Uid(k) <= uid => Covered(k)

Valid(v) == v \in {None, validity}

\* The mails of a batch are in the mailbox, those up to max were tried, and
\* so was any that the batch skips.
BatchSound(p) ==
  /\ poll[p].batch \subseteq Box /\ Tried(poll[p].max)
  /\ \A k \in Box, l \in poll[p].batch : Uid(k) <= Uid(l) => k \in poll[p].batch \/ Covered(k)

PollSound(p) ==
  /\ ~blind /\ At(p, "opening") /\ Valid(poll[p].known) => Tried(poll[p].last)
  /\ ~blind /\ At(p, "fetching") /\ poll[p].seen = validity => Tried(poll[p].last)
  /\ ~blind /\ poll[p].pc \in {"looping", "enqueueing", "marking"} /\ poll[p].seen = validity
       => BatchSound(p)
  /\ poll[p].pc \in {"enqueueing", "marking"} => poll[p].batch # {} /\ Current(p) \in rows
  /\ poll[p].pc \in {"opening", "fetching"} => poll[p].max = poll[p].last
  /\ poll[p].pc \in {"looping", "enqueueing", "marking", "fetching"} => poll[p].seen # None

OffsetSound == ~blind /\ Valid(offset.validity) => Tried(offset.last)

\* A UIDVALIDITY that was read is not one of the future.
Past ==
  /\ validity > 0 /\ offset.validity <= validity
  /\ \A p \in Pollers : poll[p].known <= validity /\ poll[p].seen <= validity

IInv ==
  /\ TypeOK /\ Past
  /\ ~offset.exists => seeded = {}
  /\ OffsetSound /\ \A p \in Pollers : PollSound(p)

-----------------------------------------------------------------------------
(* The order of UIDs. *)

LEMMA Least ==
  ASSUME NEW S \in SUBSET Nat, S # {}
  PROVE  \E n \in S : \A m \in S : n <= m
<1> DEFINE R == OpToRel(<, Nat)
<1>1. IsWellFoundedOn(R, Nat)
  BY NatLessThanWellFounded
<1>2. \A x, y \in Nat : x < y => <<x, y>> \in R
  BY DEF OpToRel
<1> HIDE DEF R
<1>3. \E n \in S : \A m \in S : ~(<<m, n>> \in R)
  BY <1>1, WFMin
<1>4. \A x, y \in Nat : ~(y < x) => x <= y
  OBVIOUS
<1> QED BY <1>2, <1>3, <1>4, Zenon

\* The mail the loop is at is the oldest of the batch.
LEMMA CurrentIsLeast ==
  ASSUME TypeOK, NEW p \in Pollers, poll[p].batch # {}
  PROVE  Current(p) \in poll[p].batch /\ \A l \in poll[p].batch : Uid(Current(p)) <= Uid(l)
<1> DEFINE B == poll[p].batch
           U == {Uid(k) : k \in B}
<1>1. B \subseteq Keys /\ B # {}
  BY DEF TypeOK, Poll
<1> HIDE DEF B
<1>2. \A k \in B : Uid(k) \in Nat
  BY <1>1, IngestionAssumption DEF Keys, Mails, Uid
<1>3. U \in SUBSET Nat /\ U # {}
  BY <1>1, <1>2
<1>4. \E n \in U : \A m \in U : n <= m
  BY <1>3, Least
<1>5. \E k \in B : \A l \in B : Uid(k) <= Uid(l)
  BY <1>4
<1> QED BY <1>5 DEF Current, Oldest, B

LEMMA KeyFacts ==
  /\ \A k \in Keys : Uid(k) \in Nat /\ Uid(k) > 0 /\ Mail(k) \in Nat /\ Mail(k) > 0
  /\ \A k, l \in Box : Uid(k) = Uid(l) => k = l
  /\ \A k \in Box : k \in Keys
<1>1. \A k \in Keys : Uid(k) \in Nat /\ Uid(k) > 0 /\ Mail(k) \in Nat /\ Mail(k) > 0 /\ k = <<Uid(k), Mail(k)>>
  BY IngestionAssumption DEF Keys, Mails, Uid, Mail
<1>2. \A k \in Box : k \in Keys /\ Mail(k) = first + Uid(k) - 1
  BY DEF Box
<1>3. ASSUME NEW k \in Box, NEW l \in Box, Uid(k) = Uid(l) PROVE k = l
  <2>1. Mail(k) = Mail(l)
    BY <1>2, <1>3
  <2>2. k = <<Uid(k), Mail(k)>> /\ l = <<Uid(l), Mail(l)>>
    BY <1>1, <1>2
  <2> QED BY <1>3, <2>1, <2>2
<1> QED BY <1>1, <1>2, <1>3

\* No mail in the mailbox has a UID above the head's.
LEMMA HeadIsHighest ==
  ASSUME TypeOK
  PROVE  HeadUid \in Nat /\ \A k \in Box : Uid(k) <= HeadUid
<1>1. arrived \in Nat /\ first \in Nat /\ first <= arrived + 1 /\ first > 0
  BY IngestionAssumption DEF TypeOK
<1>2. \A k \in Box : Uid(k) \in Nat /\ Mail(k) <= arrived /\ Mail(k) = first + Uid(k) - 1
  BY <1>1, KeyFacts DEF Box
<1> QED BY <1>1, <1>2 DEF HeadUid

-----------------------------------------------------------------------------
LEMMA IdleTyped == Idle \in Poll
  BY DEF Idle, Poll, PC, None

LEMMA InvInit == Init => IInv
<1> SUFFICES ASSUME Init PROVE IInv
  OBVIOUS
<1>1. TypeOK
  <2>1. offset \in Offset
    BY DEF Init, Offset, None
  <2>2. poll \in [Pollers -> Poll]
    BY IdleTyped DEF Init
  <2>3. arrived \in 0..MaxMails /\ first \in 1..(arrived + 1) /\ validity \in Nat /\ crashes \in Nat
    BY IngestionAssumption DEF Init
  <2> QED BY <2>1, <2>2, <2>3 DEF Init, TypeOK
<1>2. HeadUid = 0
  BY DEF Init, HeadUid
<1>3. OffsetSound
  BY <1>1, <1>2, HeadIsHighest, KeyFacts DEF Init, OffsetSound, Tried
<1> QED BY <1>1, <1>3 DEF Init, IInv, Past, PollSound, At, Idle, None

-----------------------------------------------------------------------------
(* Types. *)

\* Where a poll can go.
LEMMA PollTyped ==
  ASSUME TypeOK, NEW p \in Pollers, NEW r, r \in Poll, SetPoll(p, r)
  PROVE  /\ poll' \in [Pollers -> Poll] /\ poll'[p] = r
         /\ \A q \in Pollers \ {p} : poll'[q] = poll[q]
  BY DEF TypeOK, SetPoll

LEMMA NextTyped ==
  ASSUME TypeOK, NEW p \in Pollers, poll[p].batch # {}
  PROVE  [poll[p] EXCEPT !.pc = "looping", !.batch = @ \ {Current(p)}, !.max = Uid(Current(p))] \in Poll
<1>1. Uid(Current(p)) \in Nat
  BY CurrentIsLeast, KeyFacts DEF TypeOK, Poll
<1> QED BY <1>1 DEF TypeOK, Poll, PC

LEMMA TypeStep == IInv /\ [Next]_vars => TypeOK'
<1> SUFFICES ASSUME IInv, [Next]_vars PROVE TypeOK'
  OBVIOUS
<1> USE DEF IInv
<1>0. CASE UNCHANGED vars
  BY <1>0 DEF vars, serverVars, historyVars, TypeOK
<1>1. CASE Arrive
  BY <1>1, IngestionAssumption DEF Arrive, historyVars, TypeOK
<1>2. CASE Rebuild
  BY <1>2, IngestionAssumption DEF Rebuild, TypeOK
<1>3. CASE SeedOffset
  <2>1. PICK last \in 0..MaxMails :
          /\ blind' \in {blind, TRUE}
          /\ offset' = [exists |-> TRUE, last |-> last, validity |-> None]
          /\ seeded' = {m \in Mails : \E k \in Box : Uid(k) <= last /\ m = Mail(k)}
    BY <1>3 DEF SeedOffset
  <2>2. last \in Nat
    BY IngestionAssumption
  <2>4. blind' \in BOOLEAN
    BY <2>1, Zenon DEF TypeOK
  <2>3. offset' \in Offset /\ seeded' \in SUBSET Mails
    BY <2>1, <2>2 DEF Offset, None
  <2> QED BY <1>3, <2>3, <2>4 DEF SeedOffset, serverVars, TypeOK
<1>4. ASSUME NEW p \in Pollers, PollStep(p) \/ DropMail(p) \/ Stop(p) \/ Crash(p) PROVE TypeOK'
  <2>0. poll[p] \in Poll /\ offset \in Offset /\ Idle \in Poll /\ validity \in Nat
    BY IdleTyped DEF TypeOK
  <2>1. CASE ReadOffset(p)
    <3>1. [Idle EXCEPT !.pc = "opening", !.last = offset.last, !.max = offset.last, !.known = offset.validity] \in Poll
      BY <2>0 DEF Poll, PC, Offset, Idle
    <3> QED BY <2>1, <3>1, PollTyped DEF ReadOffset, serverVars, historyVars, TypeOK
  <2>2. CASE Open(p)
    <3> DEFINE r == [poll[p] EXCEPT !.seen = validity,
                       !.pc = IF poll[p].known \notin {None, validity} THEN "resetting" ELSE "fetching"]
    <3>1. r \in Poll
      BY <2>0 DEF Poll, PC
    <3>2. SetPoll(p, r) /\ UNCHANGED <<serverVars, offset, rows, queue, historyVars>>
      BY <2>2 DEF Open
    <3> HIDE DEF r
    <3> QED BY <3>1, <3>2, PollTyped DEF serverVars, historyVars, TypeOK
  <2>3. CASE ResetOffset(p)
    <3>1. offset' \in Offset
      BY <2>0, <2>3 DEF ResetOffset, Offset, Poll
    <3> QED BY <2>0, <2>3, <3>1, PollTyped DEF ResetOffset, serverVars, historyVars, TypeOK
  <2>4. CASE Fetch(p)
    <3> DEFINE new == {k \in Box : Uid(k) > poll[p].last}
               r == [poll[p] EXCEPT !.pc = "looping", !.batch = {k \in new : Uid(k) <= poll[p].last + BatchSize}]
    <3>1. r \in Poll
      <4>1. {k \in new : Uid(k) <= poll[p].last + BatchSize} \in SUBSET Keys
        BY KeyFacts
      <4> HIDE DEF new
      <4> QED BY <2>0, <4>1 DEF Poll, PC
    <3>2. SetPoll(p, IF new = {} THEN Idle ELSE r) /\ UNCHANGED <<serverVars, offset, rows, queue, historyVars>>
      BY <2>4 DEF Fetch
    <3> HIDE DEF r, new
    <3>3. (IF new = {} THEN Idle ELSE r) \in Poll
      BY <2>0, <3>1
    <3> QED BY <3>2, <3>3, PollTyped DEF serverVars, historyVars, TypeOK
  <2>5. CASE Insert(p)
    <3>1. Current(p) \in Keys /\ poll[p].batch # {}
      BY <2>0, <2>5, CurrentIsLeast DEF Insert, Poll
    <3>2. CASE rows' = rows \cup {Current(p)} /\ SetPoll(p, [poll[p] EXCEPT !.pc = "enqueueing"])
      <4>1. [poll[p] EXCEPT !.pc = "enqueueing"] \in Poll
        BY <2>0 DEF Poll, PC
      <4> QED BY <2>5, <3>1, <3>2, <4>1, PollTyped DEF Insert, serverVars, historyVars, TypeOK
    <3>3. CASE NextMail(p) /\ UNCHANGED rows
      BY <2>5, <3>1, <3>3, NextTyped, PollTyped DEF Insert, NextMail, serverVars, historyVars, TypeOK
    <3> QED BY <2>5, <3>2, <3>3 DEF Insert
  <2>6. CASE Enqueue(p)
    <3>1. Current(p) \in Keys
      BY <2>0, <2>6, CurrentIsLeast DEF Enqueue, At, PollSound, Poll
    <3>2. [poll[p] EXCEPT !.pc = "marking"] \in Poll
      BY <2>0 DEF Poll, PC
    <3> QED BY <2>6, <3>1, <3>2, PollTyped DEF Enqueue, serverVars, historyVars, TypeOK
  <2>7. CASE MarkQueued(p)
    BY <2>7, NextTyped, PollTyped DEF MarkQueued, NextMail, At, PollSound, serverVars, historyVars, TypeOK
  <2>8. CASE SaveOffset(p)
    <3>1. offset' \in Offset
      BY <2>0, <2>8 DEF SaveOffset, Offset, Poll
    <3> QED BY <2>0, <2>8, <3>1, PollTyped DEF SaveOffset, serverVars, historyVars, TypeOK
  <2>9. CASE DropMail(p)
    <3>1. Current(p) \in Keys /\ poll[p].batch # {}
      BY <2>0, <2>9, CurrentIsLeast DEF DropMail, Poll
    <3> QED BY <2>9, <3>1, NextTyped, PollTyped DEF DropMail, NextMail, serverVars, TypeOK
  <2>10. CASE Stop(p)
    <3>1. [poll[p] EXCEPT !.batch = {}] \in Poll
      BY <2>0 DEF Poll
    <3> QED BY <2>10, <3>1, PollTyped DEF Stop, serverVars, TypeOK
  <2>11. CASE Crash(p)
    BY <2>0, <2>11, PollTyped DEF Crash, serverVars, TypeOK
  <2> QED BY <1>4, <2>1, <2>2, <2>3, <2>4, <2>5, <2>6, <2>7, <2>8, <2>9, <2>10, <2>11 DEF PollStep
<1> QED BY <1>0, <1>1, <1>2, <1>3, <1>4 DEF Next

-----------------------------------------------------------------------------
(* What was tried. *)

\* Nothing that was tried is forgotten.
LEMMA StaysTried ==
  ASSUME UNCHANGED serverVars, rows \subseteq rows', dropped \subseteq dropped', seeded \subseteq seeded'
  PROVE  /\ Box' = Box /\ HeadUid' = HeadUid
         /\ \A k : Covered(k) => Covered(k)'
         /\ \A uid : Tried(uid) => Tried(uid)'
         /\ \A v : Valid(v)' = Valid(v)
<1>1. Box' = Box /\ HeadUid' = HeadUid /\ validity' = validity
  BY DEF serverVars, Box, HeadUid
<1>2. \A k : Covered(k) => Covered(k)'
  BY DEF Covered
<1> QED BY <1>1, <1>2 DEF Tried, Valid

\* A poll that does nothing is as sound as before.
LEMMA Waits ==
  ASSUME UNCHANGED <<serverVars, blind>>, rows \subseteq rows', dropped \subseteq dropped', seeded \subseteq seeded',
         NEW q \in Pollers, poll'[q] = poll[q], PollSound(q)
  PROVE  PollSound(q)'
<1>1. Current(q)' = Current(q) /\ validity' = validity
  BY DEF Current, serverVars
<1>2. BatchSound(q) => BatchSound(q)'
  BY StaysTried DEF BatchSound
<1> QED BY <1>1, <1>2, StaysTried DEF PollSound, At

\* A step of p on its poll only.
LEMMA PollMoves ==
  ASSUME IInv, TypeOK', NEW p \in Pollers, NEW r, r \in Poll, SetPoll(p, r),
         UNCHANGED <<serverVars, offset, seeded, blind>>, rows \subseteq rows', dropped \subseteq dropped',
         r.known <= validity, r.seen <= validity, PollSound(p)'
  PROVE  IInv'
<1>1. poll'[p] = r /\ \A q \in Pollers \ {p} : poll'[q] = poll[q]
  BY PollTyped DEF IInv
<1>2. Past'
  BY <1>1 DEF IInv, Past, serverVars
<1>3. OffsetSound'
  BY StaysTried DEF IInv, OffsetSound
<1>4. ASSUME NEW q \in Pollers PROVE PollSound(q)'
  BY <1>1, Waits DEF IInv
<1> QED BY <1>2, <1>3, <1>4 DEF IInv

\* The loop goes on to the next mail when the current one was tried.
LEMMA GoesOn ==
  ASSUME IInv, TypeOK', NEW p \in Pollers, poll[p].batch # {}, NextMail(p),
         poll[p].pc \in {"looping", "enqueueing", "marking"},
         UNCHANGED <<serverVars, offset, seeded, blind>>, rows \subseteq rows', dropped \subseteq dropped',
         NEW k0, k0 = Current(p), Covered(k0)'
  PROVE  IInv'
<1> DEFINE r == [poll[p] EXCEPT !.pc = "looping", !.batch = @ \ {Current(p)}, !.max = Uid(Current(p))]
<1>0. poll[p] \in Poll /\ TypeOK
  BY DEF IInv, TypeOK
<1>1. r \in Poll /\ SetPoll(p, r)
  BY <1>0, NextTyped DEF NextMail
<1>2. /\ r.pc = "looping" /\ r.batch = poll[p].batch \ {k0} /\ r.max = Uid(k0)
      /\ r.known = poll[p].known /\ r.seen = poll[p].seen
  BY <1>0 DEF Poll
<1>3. k0 \in poll[p].batch /\ \A l \in poll[p].batch : Uid(k0) <= Uid(l)
  BY <1>0, CurrentIsLeast
<1> HIDE DEF r
<1>4. poll'[p] = r
  BY <1>0, <1>1, PollTyped
<1>5. ASSUME ~blind, poll[p].seen = validity PROVE BatchSound(p)'
  <2>1. BatchSound(p)
    BY <1>5 DEF IInv, PollSound
  <2>2. \A k \in Box : Covered(k) => Covered(k)'
    BY StaysTried
  <2>3. Covered(k0)' /\ k0 \in Box
    BY <1>3, <2>1 DEF BatchSound
  <2>4. \A k \in Box : Uid(k) \in Nat
    BY KeyFacts
  <2>5. \A k \in Box : Uid(k) <= Uid(k0) => Covered(k)'
    <3> SUFFICES ASSUME NEW k \in Box, Uid(k) <= Uid(k0) PROVE Covered(k)'
      OBVIOUS
    <3>1. k \in poll[p].batch \/ Covered(k)
      BY <1>3, <2>1 DEF BatchSound
    <3>2. CASE k \in poll[p].batch
      <4>1. Uid(k) = Uid(k0)
        BY <1>3, <2>3, <2>4, <3>2
      <4> QED BY <2>3, <4>1, KeyFacts
    <3> QED BY <2>2, <3>1, <3>2
  <2>6. Tried(Uid(k0))'
    BY <1>0, <2>3, <2>5, HeadIsHighest, StaysTried DEF Tried
  <2>7. \A k \in Box, l \in r.batch : Uid(k) <= Uid(l) => k \in r.batch \/ Covered(k)'
    BY <1>2, <2>1, <2>2, <2>3 DEF BatchSound
  <2> QED BY <1>2, <1>4, <2>1, <2>6, <2>7, StaysTried DEF BatchSound
<1>6. PollSound(p)'
  <2>1. r.seen # None
    BY <1>2 DEF IInv, PollSound
  <2> QED BY <1>2, <1>4, <1>5, <2>1 DEF PollSound, At, serverVars
<1> QED BY <1>1, <1>2, <1>6, PollMoves DEF IInv, Past

-----------------------------------------------------------------------------
\* A mail that arrives has a UID above all others.
LEMMA ArriveKeeps ==
  ASSUME IInv, TypeOK', Arrive
  PROVE  IInv'
<1>0. TypeOK /\ UNCHANGED <<first, validity, offset, rows, dropped, seeded, blind, poll>>
  BY DEF IInv, Arrive, historyVars
<1>1. arrived \in Nat /\ first \in Nat /\ first > 0 /\ first <= arrived + 1 /\ arrived' = arrived + 1
  BY <1>0, IngestionAssumption DEF TypeOK, Arrive
<1>2. HeadUid' = HeadUid + 1 /\ HeadUid \in Nat
  BY <1>0, <1>1, HeadIsHighest DEF HeadUid
<1>3. Box \subseteq Box'
  BY <1>0, <1>1, KeyFacts DEF Box
<1>4. \A k \in Box' : k \in Box \/ Uid(k) = HeadUid + 1
  <2>1. ASSUME NEW k \in Box', k \notin Box PROVE Uid(k) = HeadUid + 1
    <3>1. k \in Keys /\ Mail(k) \in first..(arrived + 1) /\ Mail(k) = first + Uid(k) - 1
      BY <1>0, <1>1, <2>1 DEF Box
    <3>2. Mail(k) \notin first..arrived
      BY <2>1, <3>1 DEF Box
    <3> QED BY <1>1, <3>1, <3>2, KeyFacts DEF HeadUid
  <2> QED BY <2>1
<1>5. \A k : Covered(k)' = Covered(k)
  BY <1>0 DEF Covered
<1>6. ASSUME NEW uid \in Nat, Tried(uid) PROVE Tried(uid)'
  BY <1>2, <1>4, <1>5, <1>6 DEF Tried
<1>7. OffsetSound'
  <2>1. offset.last \in Nat
    BY <1>0 DEF TypeOK, Offset
  <2> QED BY <1>0, <1>6, <2>1 DEF IInv, OffsetSound, Valid
<1>8. ASSUME NEW q \in Pollers PROVE PollSound(q)'
  <2>0. poll[q].last \in Nat /\ poll[q].max \in Nat /\ PollSound(q) /\ poll'[q] = poll[q]
    BY <1>0 DEF TypeOK, Poll, IInv
  <2>1. ASSUME BatchSound(q) PROVE BatchSound(q)'
    <3>1. \A l \in poll[q].batch : l \in Box /\ Uid(l) <= HeadUid
      BY <1>0, <2>1, HeadIsHighest DEF BatchSound
    <3>2. \A k \in Box', l \in poll[q].batch : Uid(k) <= Uid(l) => k \in Box
      BY <1>2, <1>4, <3>1, KeyFacts
    <3>3. \A k \in Box', l \in poll[q].batch : Uid(k) <= Uid(l) => k \in poll[q].batch \/ Covered(k)'
      BY <1>5, <2>1, <3>2 DEF BatchSound
    <3> QED BY <1>3, <1>6, <2>0, <2>1, <3>3 DEF BatchSound
  <2>2. Current(q)' = Current(q)
    BY <2>0 DEF Current
  <2> QED BY <1>0, <1>6, <2>0, <2>1, <2>2 DEF PollSound, At, Valid
<1> QED BY <1>0, <1>7, <1>8 DEF IInv, Past

\* A rebuild makes whatever was read before it out of date, or is blind.
LEMMA RebuildKeeps ==
  ASSUME IInv, TypeOK', Rebuild
  PROVE  IInv'
<1>0. /\ TypeOK /\ UNCHANGED <<offset, rows, poll, seeded>> /\ validity' = validity + 1 /\ validity \in Nat
      /\ blind' = (blind \/ Unnoticed)
  BY DEF IInv, TypeOK, Rebuild
<1>1. offset \in Offset /\ \A q \in Pollers : poll[q] \in Poll
  BY <1>0 DEF TypeOK
<1>2. Tried(0)'
  <2>1. HeadUid' \in Nat
    <3>1. arrived \in Nat /\ first \in Nat /\ arrived' = arrived
      BY <1>0, IngestionAssumption DEF TypeOK, Rebuild
    <3>2. first' \in Nat /\ first' <= arrived + 1
      BY <3>1 DEF Rebuild
    <3>3. HeadUid' = (arrived' + 1) - first'
      BY DEF HeadUid
    <3>4. ASSUME NEW a \in Nat, NEW b \in Nat, b <= a + 1 PROVE (a + 1) - b \in Nat
      BY <3>4
    <3> QED BY <3>1, <3>2, <3>3, <3>4
  <2>2. \A k \in Box' : Uid(k) > 0 /\ Uid(k) \in Nat
    BY KeyFacts DEF Box
  <2> QED BY <2>1, <2>2 DEF Tried
<1>3. offset.validity <= validity /\ \A q \in Pollers : poll[q].known <= validity /\ poll[q].seen <= validity
  BY DEF IInv, Past
<1>u. ASSUME ~blind' PROVE ~blind /\ ~Unnoticed
  BY <1>0, <1>u, Zenon
<1>4. OffsetSound'
  <2> SUFFICES ASSUME ~blind', offset.validity \in {None, validity'} PROVE Tried(offset.last)'
    BY <1>0 DEF OffsetSound, Valid
  <2>1. offset.validity = None
    BY <1>0, <1>1, <1>3 DEF Offset
  <2>2. offset.last = 0
    BY <1>1, <1>u, <2>1 DEF Unnoticed, Offset
  <2> QED BY <1>0, <1>2, <2>2
<1>5. ASSUME NEW q \in Pollers PROVE PollSound(q)'
  <2>1. poll[q].seen # validity'
    BY <1>0, <1>1, <1>3 DEF Poll
  <2>2. ASSUME ~blind', At(q, "opening"), poll[q].known \in {None, validity'} PROVE Tried(poll[q].last)'
    <3>1. poll[q].known = None
      BY <1>0, <1>1, <1>3, <2>2 DEF Poll
    <3>2. poll[q].last = 0
      BY <1>1, <1>u, <2>2, <3>1 DEF Unnoticed, At, Poll
    <3> QED BY <1>0, <1>2, <3>2
  <2>3. Current(q)' = Current(q)
    BY <1>0 DEF Current
  <2> QED BY <1>0, <2>1, <2>2, <2>3 DEF IInv, PollSound, At, Valid
<1>6. Past'
  BY <1>0, <1>1, <1>3 DEF Past, Offset, Poll
<1> QED BY <1>0, <1>4, <1>5, <1>6 DEF IInv

LEMMA SeedKeeps ==
  ASSUME IInv, TypeOK', SeedOffset
  PROVE  IInv'
<1>1. PICK last \in 0..MaxMails :
        /\ (last <= HeadUid /\ blind' = blind) \/ blind' = TRUE
        /\ offset' = [exists |-> TRUE, last |-> last, validity |-> None]
        /\ seeded' = {m \in Mails : \E k \in Box : Uid(k) <= last /\ m = Mail(k)}
  BY DEF SeedOffset
<1>2. TypeOK /\ UNCHANGED <<serverVars, rows, dropped, poll>> /\ seeded = {}
  BY DEF IInv, SeedOffset
<1>3. seeded \subseteq seeded'
  BY <1>2
<1>4. ~blind' => Tried(last)'
  <2> SUFFICES ASSUME ~blind' PROVE Tried(last)'
    OBVIOUS
  <2>1. \A k \in Box : Uid(k) <= last => Mail(k) \in seeded'
    BY <1>1, KeyFacts DEF Keys, Mail
  <2>2. last <= HeadUid
    BY <1>1
  <2> QED BY <1>2, <1>3, <2>1, <2>2, StaysTried DEF Tried, Covered
<1>5. OffsetSound'
  BY <1>1, <1>4 DEF OffsetSound
<1>6. ASSUME NEW q \in Pollers PROVE PollSound(q)'
  <2>1. CASE blind' = blind
    BY <1>2, <1>3, <2>1, Waits DEF IInv
  <2>2. CASE blind' = TRUE
    <3>1. Current(q)' = Current(q) /\ PollSound(q) /\ UNCHANGED <<poll, rows>>
      BY <1>2 DEF Current, IInv
    <3> QED BY <2>2, <3>1 DEF PollSound, At
  <2> QED BY <1>1, <2>1, <2>2
<1>7. Past'
  BY <1>1, <1>2 DEF IInv, Past, serverVars, None, TypeOK
<1> QED BY <1>1, <1>5, <1>6, <1>7 DEF IInv

LEMMA PollKeeps ==
  ASSUME IInv, TypeOK', NEW p \in Pollers, PollStep(p) \/ DropMail(p) \/ Stop(p) \/ Crash(p)
  PROVE  IInv'
<1>0. /\ TypeOK /\ PollSound(p) /\ poll[p] \in Poll /\ offset \in Offset /\ Idle \in Poll
      /\ validity \in Nat /\ validity > 0
      /\ poll[p].known <= validity /\ poll[p].seen <= validity /\ offset.validity <= validity
      /\ poll \in [Pollers -> Poll]
  BY IdleTyped DEF IInv, TypeOK, Past
<1>1. CASE ReadOffset(p)
  <2> DEFINE r == [Idle EXCEPT !.pc = "opening", !.last = offset.last, !.max = offset.last, !.known = offset.validity]
  <2>1. /\ r \in Poll /\ r.pc = "opening" /\ r.last = offset.last /\ r.max = offset.last /\ r.known = offset.validity
        /\ r.seen = None /\ SetPoll(p, r)
    BY <1>0, <1>1 DEF ReadOffset, Poll, PC, Offset, Idle, None
  <2> HIDE DEF r
  <2>2. poll'[p] = r /\ UNCHANGED <<serverVars, offset, rows, historyVars>>
    BY <1>0, <1>1, <2>1, PollTyped DEF ReadOffset
  <2>3. PollSound(p)'
    <3>1. ~blind /\ Valid(offset.validity) => Tried(offset.last)'
      BY <2>2, StaysTried DEF IInv, OffsetSound, historyVars
    <3> QED BY <2>1, <2>2, <3>1, StaysTried DEF PollSound, At, historyVars
  <2> QED BY <1>0, <2>1, <2>2, <2>3, PollMoves DEF historyVars, None
<1>2. CASE Open(p)
  <2> DEFINE r == [poll[p] EXCEPT !.seen = validity,
                     !.pc = IF poll[p].known \notin {None, validity} THEN "resetting" ELSE "fetching"]
  <2>1. /\ r \in Poll /\ r.last = poll[p].last /\ r.max = poll[p].max /\ r.known = poll[p].known /\ r.seen = validity
        /\ r.pc = IF Valid(poll[p].known) THEN "fetching" ELSE "resetting"
    BY <1>0 DEF Poll, PC, Valid
  <2>2. SetPoll(p, r) /\ UNCHANGED <<serverVars, offset, rows, historyVars>> /\ At(p, "opening")
    BY <1>2 DEF Open
  <2> HIDE DEF r
  <2>3. poll'[p] = r
    BY <1>0, <2>1, <2>2, PollTyped
  <2>4. PollSound(p)'
    <3>0. PICK last : last = poll[p].last
      OBVIOUS
    <3>1. ~blind /\ r.pc = "fetching" => Tried(last)'
      BY <1>0, <2>1, <2>2, <3>0, StaysTried DEF PollSound, historyVars
    <3>2. r.pc \in {"fetching", "resetting"} /\ blind' = blind /\ r.max = r.last
      BY <1>0, <2>1, <2>2 DEF historyVars, PollSound, At
    <3>3. r.seen # None
      BY <1>0, <2>1 DEF None
    <3> QED BY <2>1, <2>3, <3>0, <3>1, <3>2, <3>3 DEF PollSound, At
  <2> QED BY <1>0, <2>1, <2>2, <2>4, PollMoves DEF historyVars
<1>3. CASE ResetOffset(p)
  <2>1. /\ offset'.last = 0 /\ offset'.validity = poll[p].seen /\ offset'.exists = offset.exists
        /\ SetPoll(p, Idle) /\ UNCHANGED <<serverVars, rows, historyVars>>
    BY <1>0, <1>3 DEF ResetOffset, Offset
  <2>2. poll'[p] = Idle /\ \A q \in Pollers \ {p} : poll'[q] = poll[q]
    BY <1>0, <2>1, PollTyped
  <2>3. Tried(0)'
    <3>1. \A k \in Box : Uid(k) \in Nat /\ Uid(k) > 0
      BY KeyFacts
    <3>2. Tried(0)
      BY <1>0, <3>1, HeadIsHighest DEF Tried
    <3> QED BY <2>1, <3>2, StaysTried DEF historyVars
  <2>4. ASSUME NEW q \in Pollers PROVE PollSound(q)'
    <3>1. CASE q = p
      BY <2>2, <3>1 DEF PollSound, At, Idle
    <3>2. CASE q # p
      BY <2>1, <2>2, <3>2, Waits DEF IInv, historyVars
    <3> QED BY <3>1, <3>2
  <2>5. Past'
    BY <1>0, <2>1, <2>2 DEF IInv, Past, Idle, None, serverVars
  <2> QED BY <2>1, <2>3, <2>4, <2>5 DEF IInv, OffsetSound, historyVars
<1>4. CASE Fetch(p)
  <2> DEFINE new == {k \in Box : Uid(k) > poll[p].last}
             r == [poll[p] EXCEPT !.pc = "looping", !.batch = {k \in new : Uid(k) <= poll[p].last + BatchSize}]
  <2>1. SetPoll(p, IF new = {} THEN Idle ELSE r) /\ UNCHANGED <<serverVars, offset, rows, historyVars>>
        /\ At(p, "fetching")
    BY <1>4 DEF Fetch
  <2>2. CASE new = {}
    <3>1. SetPoll(p, Idle)
      BY <2>1, <2>2
    <3>2. poll'[p] = Idle
      BY <1>0, <3>1, PollTyped
    <3>3. PollSound(p)'
      BY <3>2 DEF PollSound, At, Idle
    <3>4. Idle.known <= validity /\ Idle.seen <= validity
      BY <1>0 DEF Idle, None
    <3> QED BY <1>0, <2>1, <3>1, <3>3, <3>4, PollMoves DEF historyVars
  <2>3. CASE new # {}
    <3>1. SetPoll(p, r)
      BY <2>1, <2>3
    <3>2. /\ r \in Poll /\ r.pc = "looping" /\ r.max = poll[p].max /\ r.seen = poll[p].seen
          /\ r.known = poll[p].known /\ r.batch = {k \in new : Uid(k) <= poll[p].last + BatchSize}
      <4>1. {k \in new : Uid(k) <= poll[p].last + BatchSize} \in SUBSET Keys
        BY KeyFacts
      <4> HIDE DEF new
      <4> QED BY <1>0, <4>1 DEF Poll, PC
    <3> HIDE DEF r
    <3>3. poll'[p] = r
      BY <1>0, <3>1, <3>2, PollTyped
    <3>4. ASSUME ~blind, poll[p].seen = validity PROVE BatchSound(p)'
      <4>1. Tried(poll[p].last)
        BY <1>0, <2>1, <3>4 DEF PollSound
      <4>2. r.batch \subseteq Box
        BY <3>2
      <4>3. Tried(r.max)
        BY <1>0, <2>1, <3>2, <4>1 DEF PollSound, At
      <4>4. \A k \in Box, l \in r.batch : Uid(k) <= Uid(l) => k \in r.batch \/ Covered(k)
        <5> SUFFICES ASSUME NEW k \in Box, NEW l \in r.batch, Uid(k) <= Uid(l), ~Covered(k)
                     PROVE  k \in r.batch
          OBVIOUS
        <5>1. Uid(k) > poll[p].last
          BY <1>0, <4>1, KeyFacts DEF Tried, Poll
        <5>2. Uid(k) <= poll[p].last + BatchSize
          BY <1>0, <3>2, <4>2, KeyFacts, IngestionAssumption DEF Poll
        <5> QED BY <3>2, <5>1, <5>2
      <4>5. \A k : Covered(k) => Covered(k)'
        BY <2>1, StaysTried DEF historyVars
      <4>6. (\A uid : Tried(uid) => Tried(uid)') /\ Box' = Box
        BY <2>1, StaysTried DEF historyVars
      <4> QED BY <3>3, <4>2, <4>3, <4>4, <4>5, <4>6 DEF BatchSound
    <3>5. PollSound(p)'
      BY <1>0, <2>1, <3>2, <3>3, <3>4 DEF PollSound, At, serverVars, historyVars
    <3> QED BY <1>0, <2>1, <3>1, <3>2, <3>5, PollMoves DEF historyVars
  <2> QED BY <2>2, <2>3
<1>5. CASE Insert(p)
  <2>0. At(p, "looping") /\ poll[p].batch # {} /\ UNCHANGED <<serverVars, offset, seeded, blind, dropped>>
    BY <1>5 DEF Insert, historyVars
  <2>1. CASE rows' = rows \cup {Current(p)} /\ SetPoll(p, [poll[p] EXCEPT !.pc = "enqueueing"])
    <3> DEFINE r == [poll[p] EXCEPT !.pc = "enqueueing"]
    <3>1. /\ r \in Poll /\ r.pc = "enqueueing" /\ r.max = poll[p].max /\ r.seen = poll[p].seen
          /\ r.known = poll[p].known /\ r.batch = poll[p].batch /\ SetPoll(p, r)
      BY <1>0, <2>1 DEF Poll, PC
    <3> HIDE DEF r
    <3>2. poll'[p] = r
      BY <1>0, <3>1, PollTyped
    <3>3. ~blind /\ poll[p].seen = validity => BatchSound(p)'
      <4>1. ~blind /\ poll[p].seen = validity => BatchSound(p)
        BY <1>0, <2>0 DEF PollSound, At
      <4> QED BY <2>0, <2>1, <3>1, <3>2, <4>1, StaysTried DEF BatchSound
    <3>4. Current(p)' = Current(p)
      BY <3>1, <3>2 DEF Current
    <3>5. PollSound(p)'
      BY <1>0, <2>0, <2>1, <3>1, <3>2, <3>3, <3>4 DEF PollSound, At, serverVars
    <3> QED BY <1>0, <2>0, <2>1, <3>1, <3>5, PollMoves
  <2>2. CASE Current(p) \in rows /\ NextMail(p) /\ UNCHANGED rows
    <3>1. PICK k0 : k0 = Current(p)
      OBVIOUS
    <3>2. Covered(k0)'
      BY <2>2, <3>1 DEF Covered
    <3> QED BY <2>0, <2>2, <3>1, <3>2, GoesOn DEF At
  <2> QED BY <1>5, <2>1, <2>2 DEF Insert
<1>6. CASE Enqueue(p)
  <2> DEFINE r == [poll[p] EXCEPT !.pc = "marking"]
  <2>0. At(p, "enqueueing") /\ UNCHANGED <<serverVars, offset, rows, historyVars>>
    BY <1>6 DEF Enqueue
  <2>1. /\ r \in Poll /\ r.pc = "marking" /\ r.max = poll[p].max /\ r.seen = poll[p].seen
        /\ r.known = poll[p].known /\ r.batch = poll[p].batch /\ SetPoll(p, r)
    BY <1>0, <1>6 DEF Enqueue, Poll, PC
  <2> HIDE DEF r
  <2>2. poll'[p] = r
    BY <1>0, <2>1, PollTyped
  <2>3. ~blind /\ poll[p].seen = validity => BatchSound(p)'
    <3>1. ~blind /\ poll[p].seen = validity => BatchSound(p)
      BY <1>0, <2>0 DEF PollSound, At
    <3> QED BY <2>0, <2>1, <2>2, <3>1, StaysTried DEF BatchSound, historyVars
  <2>4. Current(p)' = Current(p)
    BY <2>1, <2>2 DEF Current
  <2>5. PollSound(p)'
    BY <1>0, <2>0, <2>1, <2>2, <2>3, <2>4 DEF PollSound, At, serverVars, historyVars
  <2> QED BY <1>0, <2>0, <2>1, <2>5, PollMoves DEF historyVars
<1>7. CASE MarkQueued(p)
  <2>0. /\ poll[p].pc = "marking" /\ poll[p].batch # {} /\ NextMail(p) /\ Current(p) \in rows
        /\ UNCHANGED <<serverVars, offset, rows, historyVars>>
    BY <1>0, <1>7 DEF MarkQueued, At, PollSound
  <2>1. PICK k0 : k0 = Current(p)
    OBVIOUS
  <2>2. Covered(k0)'
    BY <2>0, <2>1 DEF Covered
  <2> QED BY <2>0, <2>1, <2>2, GoesOn DEF historyVars
<1>8. CASE DropMail(p)
  <2>0. /\ poll[p].pc \in {"looping", "enqueueing", "marking"} /\ poll[p].batch # {} /\ NextMail(p)
        /\ UNCHANGED <<serverVars, offset, rows, seeded, blind>> /\ dropped' = dropped \cup {Current(p)}
    BY <1>8 DEF DropMail
  <2>1. PICK k0 : k0 = Current(p)
    OBVIOUS
  <2>2. Covered(k0)'
    BY <2>0, <2>1 DEF Covered
  <2> QED BY <2>0, <2>1, <2>2, GoesOn
<1>9. CASE Stop(p)
  <2> DEFINE r == [poll[p] EXCEPT !.batch = {}]
  <2>0. At(p, "looping") /\ UNCHANGED <<serverVars, offset, rows, seeded, blind, dropped>>
    BY <1>9 DEF Stop
  <2>1. /\ r \in Poll /\ r.pc = "looping" /\ r.max = poll[p].max /\ r.seen = poll[p].seen
        /\ r.known = poll[p].known /\ r.batch = {} /\ SetPoll(p, r)
    BY <1>0, <1>9 DEF Stop, At, Poll
  <2> HIDE DEF r
  <2>2. poll'[p] = r
    BY <1>0, <2>1, PollTyped
  <2>3. ~blind /\ poll[p].seen = validity => BatchSound(p)'
    <3>1. ~blind /\ poll[p].seen = validity => BatchSound(p)
      BY <1>0, <2>0 DEF PollSound, At
    <3> QED BY <2>0, <2>1, <2>2, <3>1, StaysTried DEF BatchSound
  <2>4. PollSound(p)'
    BY <1>0, <2>0, <2>1, <2>2, <2>3 DEF PollSound, At, serverVars
  <2> QED BY <1>0, <2>0, <2>1, <2>4, PollMoves
<1>10. CASE SaveOffset(p)
  <2>0. /\ At(p, "looping") /\ SetPoll(p, Idle) /\ UNCHANGED <<serverVars, rows, historyVars>>
        /\ \/ offset'.last = poll[p].max /\ offset'.validity = poll[p].seen /\ offset'.exists = offset.exists
           \/ offset' = offset
    BY <1>0, <1>10 DEF SaveOffset, Offset
  <2>1. poll'[p] = Idle /\ \A q \in Pollers \ {p} : poll'[q] = poll[q]
    BY <1>0, <2>0, PollTyped
  <2>2. OffsetSound'
    <3>1. CASE offset'.last = poll[p].max /\ offset'.validity = poll[p].seen
      <4>0. PICK uid : uid = poll[p].max
        OBVIOUS
      <4>1. ~blind /\ poll[p].seen = validity => Tried(uid)'
        BY <1>0, <2>0, <4>0, StaysTried DEF PollSound, At, BatchSound, historyVars
      <4>2. poll[p].seen # None
        BY <1>0, <2>0 DEF PollSound, At
      <4> QED BY <2>0, <3>1, <4>0, <4>1, <4>2 DEF OffsetSound, Valid, serverVars, historyVars
    <3>2. CASE offset' = offset
      BY <2>0, <3>2, StaysTried DEF IInv, OffsetSound, historyVars
    <3> QED BY <2>0, <3>1, <3>2
  <2>3. ASSUME NEW q \in Pollers PROVE PollSound(q)'
    <3>1. CASE q = p
      BY <2>1, <3>1 DEF PollSound, At, Idle
    <3>2. CASE q # p
      BY <2>0, <2>1, <3>2, Waits DEF IInv, historyVars
    <3> QED BY <3>1, <3>2
  <2>4. Past'
    BY <1>0, <2>0, <2>1 DEF IInv, Past, Idle, None, serverVars
  <2> QED BY <2>0, <2>2, <2>3, <2>4 DEF IInv, historyVars
<1>11. CASE Crash(p)
  <2>1. SetPoll(p, Idle) /\ UNCHANGED <<serverVars, offset, rows, seeded, blind, dropped>>
    BY <1>11 DEF Crash
  <2>2. poll'[p] = Idle
    BY <1>0, <2>1, PollTyped
  <2>3. PollSound(p)'
    BY <2>2 DEF PollSound, At, Idle
  <2>4. Idle.known <= validity /\ Idle.seen <= validity
    BY <1>0 DEF Idle, None
  <2> QED BY <1>0, <2>1, <2>3, <2>4, PollMoves
<1> QED BY <1>1, <1>2, <1>3, <1>4, <1>5, <1>6, <1>7, <1>8, <1>9, <1>10, <1>11 DEF PollStep

LEMMA InvStep == IInv /\ [Next]_vars => IInv'
<1> SUFFICES ASSUME IInv, [Next]_vars PROVE IInv'
  OBVIOUS
<1>0. TypeOK'
  BY TypeStep
<1>1. CASE UNCHANGED vars
  <2>1. UNCHANGED <<serverVars, offset, rows, poll, seeded, blind, dropped>>
    BY <1>1 DEF vars, historyVars
  <2>2. ASSUME NEW q \in Pollers PROVE PollSound(q)'
    BY <2>1, Waits DEF IInv
  <2> QED BY <1>0, <2>1, <2>2, StaysTried DEF IInv, OffsetSound, Past, serverVars
<1> QED BY <1>0, <1>1, ArriveKeeps, RebuildKeeps, SeedKeeps, PollKeeps DEF Next

-----------------------------------------------------------------------------
(* Rows without a job. *)

Stranded == {k \in rows : k \notin queue \cup dropped /\ ~Held(k)}

LEMMA StrandedFinite ==
  ASSUME TypeOK
  PROVE  IsFiniteSet(Stranded) /\ Cardinality(Stranded) \in Nat
<1>1. IsFiniteSet(Mails)
  BY FS_Interval, IngestionAssumption DEF Mails
<1>2. IsFiniteSet(Keys)
  BY <1>1, FS_Product DEF Keys
<1>3. Stranded \subseteq Keys
  BY DEF Stranded, TypeOK
<1> QED BY <1>2, <1>3, FS_Subset, FS_CardinalityType

\* A poll that holds a row goes on holding it while others work.
LEMMA StaysHeld ==
  ASSUME NEW p \in Pollers, \A q \in Pollers \ {p} : poll'[q] = poll[q], NEW k, Held(k),
         ~(At(p, "enqueueing") /\ Current(p) = k)
  PROVE  Held(k)'
<1>1. PICK q \in Pollers : At(q, "enqueueing") /\ Current(q) = k
  BY DEF Held
<1>2. q # p
  BY <1>1
<1>3. poll'[q] = poll[q]
  BY <1>2
<1>4. At(q, "enqueueing")' /\ Current(q)' = Current(q)
  BY <1>1, <1>3 DEF At, Current
<1> QED BY <1>1, <1>4 DEF Held

\* Only the end of a poll in the middle of a mail strands a row, and one row.
LEMMA OneStranded ==
  ASSUME IInv, [Next]_vars
  PROVE  \/ Stranded' \subseteq Stranded /\ crashes' >= crashes
         \/ crashes' = crashes + 1 /\ \E k \in Keys : Stranded' \subseteq Stranded \cup {k}
<1>0. TypeOK /\ crashes \in Nat /\ (\A p \in Pollers : PollSound(p) /\ poll[p] \in Poll) /\ Idle \in Poll
  BY IdleTyped DEF IInv, TypeOK
<1>1. ASSUME UNCHANGED <<rows, queue, dropped, poll, crashes>>
      PROVE  Stranded' \subseteq Stranded /\ crashes' >= crashes
  <2>1. \A q \in Pollers : Current(q)' = Current(q) /\ At(q, "enqueueing")' = At(q, "enqueueing")
    BY <1>1 DEF Current, At
  <2>2. \A k : Held(k)' = Held(k)
    BY <2>1 DEF Held
  <2> QED BY <1>0, <1>1, <2>2 DEF Stranded
<1>2. CASE UNCHANGED vars \/ Arrive \/ Rebuild \/ SeedOffset
  <2>1. UNCHANGED <<rows, queue, dropped, poll, crashes>>
    BY <1>2 DEF vars, Arrive, Rebuild, SeedOffset, historyVars
  <2> QED BY <1>1, <2>1
<1>3. ASSUME NEW p \in Pollers, PollStep(p) \/ DropMail(p) \/ Stop(p) \/ Crash(p)
      PROVE  \/ Stranded' \subseteq Stranded /\ crashes' >= crashes
             \/ crashes' = crashes + 1 /\ \E k \in Keys : Stranded' \subseteq Stranded \cup {k}
  <2>0. PICK r : SetPoll(p, r)
    BY <1>3 DEF PollStep, ReadOffset, Open, ResetOffset, Fetch, Insert, Enqueue, MarkQueued, SaveOffset,
                DropMail, Stop, Crash, NextMail
  <2>1. \A q \in Pollers \ {p} : poll'[q] = poll[q]
    BY <2>0 DEF SetPoll
  <2>2. CASE Insert(p) /\ rows' = rows \cup {Current(p)} /\ SetPoll(p, [poll[p] EXCEPT !.pc = "enqueueing"])
    <3>1. At(p, "looping") /\ UNCHANGED <<queue, dropped, crashes>>
      BY <2>2 DEF Insert, historyVars
    <3>2. poll'[p] = [poll[p] EXCEPT !.pc = "enqueueing"]
      BY <1>0, <2>2 DEF SetPoll, TypeOK
    <3>3. At(p, "enqueueing")' /\ Current(p)' = Current(p)
      BY <1>0, <3>2 DEF At, Current, Poll
    <3>4. PICK k0 : k0 = Current(p)
      OBVIOUS
    <3>5. Held(k0)'
      BY <3>3, <3>4 DEF Held
    <3>6. \A k : Held(k) => Held(k)'
      BY <2>1, <3>1, StaysHeld DEF At
    <3> QED BY <1>0, <2>2, <3>1, <3>4, <3>5, <3>6 DEF Stranded
  <2>3. CASE Enqueue(p)
    <3>1. UNCHANGED <<rows, dropped, crashes>> /\ queue' = queue \cup {Current(p)}
      BY <2>3 DEF Enqueue, historyVars
    <3>2. \A k : Held(k) /\ k # Current(p) => Held(k)'
      BY <2>1, StaysHeld
    <3> QED BY <1>0, <3>1, <3>2 DEF Stranded
  <2>4. CASE DropMail(p)
    <3>1. UNCHANGED <<rows, queue, crashes>> /\ dropped' = dropped \cup {Current(p)}
      BY <2>4 DEF DropMail
    <3>2. \A k : Held(k) /\ k # Current(p) => Held(k)'
      BY <2>1, StaysHeld
    <3> QED BY <1>0, <3>1, <3>2 DEF Stranded
  <2>5. CASE Crash(p)
    <3>1. UNCHANGED <<rows, queue, dropped>> /\ crashes' = crashes + 1
      BY <2>5 DEF Crash
    <3>2. PICK k0 : k0 = Current(p)
      OBVIOUS
    <3>3. \A k : Held(k) /\ k # k0 => Held(k)'
      BY <2>1, <3>2, StaysHeld
    <3>4. Stranded' \subseteq Stranded \cup {k0}
      BY <3>1, <3>3 DEF Stranded
    <3>5. CASE k0 \in Keys
      BY <3>1, <3>4, <3>5
    <3>6. CASE k0 \notin Keys
      <4>1. Stranded' \subseteq Stranded
        BY <1>0, <3>1, <3>4, <3>6 DEF Stranded, TypeOK
      <4> QED BY <1>0, <3>1, <4>1
    <3> QED BY <3>5, <3>6
  <2>6. ASSUME ~At(p, "enqueueing"), UNCHANGED <<rows, queue, dropped>>, crashes' >= crashes
        PROVE  Stranded' \subseteq Stranded /\ crashes' >= crashes
    <3>1. \A k : Held(k) => Held(k)'
      BY <2>1, <2>6, StaysHeld
    <3> QED BY <2>6, <3>1 DEF Stranded
  <2>7. CASE ReadOffset(p) \/ Open(p) \/ ResetOffset(p) \/ Fetch(p) \/ MarkQueued(p) \/ SaveOffset(p) \/ Stop(p)
    <3>1. ~At(p, "enqueueing")
      BY <2>7 DEF ReadOffset, Open, ResetOffset, Fetch, MarkQueued, SaveOffset, Stop, At
    <3>2. UNCHANGED <<rows, queue, dropped>> /\ crashes' >= crashes
      BY <1>0, <2>7 DEF ReadOffset, Open, ResetOffset, Fetch, MarkQueued, SaveOffset, Stop, historyVars
    <3> QED BY <2>6, <3>1, <3>2
  <2>8. CASE Insert(p) /\ NextMail(p) /\ UNCHANGED rows
    BY <1>0, <2>6, <2>8 DEF Insert, At, historyVars
  <2> QED BY <1>3, <2>2, <2>3, <2>4, <2>5, <2>7, <2>8 DEF PollStep, Insert
<1> QED BY <1>2, <1>3 DEF Next

LEMMA StrandedStep == IInv /\ NoRowStranded /\ [Next]_vars => NoRowStranded'
<1> SUFFICES ASSUME IInv, NoRowStranded, [Next]_vars PROVE NoRowStranded'
  OBVIOUS
<1>1. /\ IsFiniteSet(Stranded) /\ Cardinality(Stranded) \in Nat /\ Cardinality(Stranded) <= crashes
      /\ crashes \in Nat /\ crashes' \in Nat
  BY StrandedFinite, TypeStep DEF IInv, TypeOK, NoRowStranded, Stranded
<1>2. CASE Stranded' \subseteq Stranded /\ crashes' >= crashes
  <2>1. Cardinality(Stranded') <= Cardinality(Stranded) /\ Cardinality(Stranded') \in Nat
    BY <1>1, <1>2, FS_Subset, FS_CardinalityType
  <2>2. Cardinality(Stranded') <= crashes'
    BY <1>1, <1>2, <2>1
  <2> QED BY <2>2 DEF NoRowStranded, Stranded
<1>3. CASE crashes' = crashes + 1 /\ \E k \in Keys : Stranded' \subseteq Stranded \cup {k}
  <2>1. PICK k \in Keys : Stranded' \subseteq Stranded \cup {k}
    BY <1>3
  <2>2. /\ IsFiniteSet(Stranded \cup {k})
        /\ Cardinality(Stranded \cup {k}) <= Cardinality(Stranded) + 1
        /\ Cardinality(Stranded \cup {k}) \in Nat
    <3>1. /\ IsFiniteSet(Stranded \cup {k})
          /\ Cardinality(Stranded \cup {k}) =
               IF k \in Stranded THEN Cardinality(Stranded) ELSE Cardinality(Stranded) + 1
      BY <1>1, FS_AddElement
    <3> QED BY <1>1, <3>1
  <2>3. Cardinality(Stranded') <= Cardinality(Stranded \cup {k}) /\ Cardinality(Stranded') \in Nat
    BY <2>1, <2>2, FS_Subset, FS_CardinalityType
  <2>4. Cardinality(Stranded') <= crashes'
    BY <1>1, <1>3, <2>2, <2>3
  <2> QED BY <2>4 DEF NoRowStranded, Stranded
<1> QED BY <1>2, <1>3, OneStranded

LEMMA NoneStrandedYet == Init => NoRowStranded
<1> SUFFICES ASSUME Init PROVE NoRowStranded
  OBVIOUS
<1>1. Stranded = {} /\ crashes = 0
  BY DEF Init, Stranded
<1> QED BY <1>1, FS_EmptySet DEF NoRowStranded, Stranded

-----------------------------------------------------------------------------
LEMMA InvHolds == Spec => []IInv
<1>1. Init => IInv
  BY InvInit
<1>2. IInv /\ [Next]_vars => IInv'
  BY InvStep
<1> QED BY <1>1, <1>2, PTL DEF Spec

LEMMA InvCovers == IInv => OffsetCovers
  BY DEF IInv, OffsetSound, Valid, Tried, OffsetCovers

\* The types of the variables.
THEOREM TypeOKHolds == Spec => []TypeOK
<1>1. IInv => TypeOK
  BY DEF IInv
<1> QED BY <1>1, InvHolds, PTL

\* Whatever the pollers, the crashes and the rebuilds, an offset that is valid
\* for the mailbox covers no mail that nobody tried to ingest.
THEOREM OffsetCoversHolds == Spec => []OffsetCovers
  BY InvCovers, InvHolds, PTL

\* Rows without a job are the trace of crashes and errors, never of a race.
THEOREM NoRowStrandedHolds == Spec => []NoRowStranded
<1>1. Init => NoRowStranded
  BY NoneStrandedYet
<1>2. IInv /\ NoRowStranded /\ [Next]_vars => NoRowStranded'
  BY StrandedStep
<1> QED BY <1>1, <1>2, InvHolds, PTL DEF Spec

-----------------------------------------------------------------------------
(* The row of one email and its job. *)

\* What the worker has said stays said until the poller's late mark.
ToldInv ==
  lapses = {} =>
    /\ job = "triggering" => status = "processed"
    /\ job = "completed" => status \in {"processed", "dead_lettered"}
    /\ job = "failed" => status = "dead_lettered"

\* What is not left to store is on record.
FiledInv ==
  /\ job = "storing" => \A a \in Attachments \ todo : OnRecord(a)
  /\ status = "processed" => \A a \in Attachments : OnRecord(a)

JobInv == JobTypeOK /\ HandedOn /\ FailedIsBuried /\ ToldInv /\ FiledInv

LEMMA JobInvInit == JobInit => JobInv
  BY DEF JobInit, JobInv, JobTypeOK, HandedOn, FailedIsBuried, ToldInv, FiledInv, Status, Job, Active

\* The two halves of JobTypeOK: the provers do not reason about sums and about
\* sets of names in one step.
Counted == tries \in Nat /\ stalls \in Nat /\ failures \in Nat /\ retries \in Nat

Named ==
  /\ poller \in {"enqueueing", "marking", "done"}
  /\ status \in Status /\ job \in Job
  /\ left \in SUBSET Outcome /\ lapses \in SUBSET Lapse
  /\ todo \in SUBSET Attachments /\ filed \in [Attachments -> SUBSET Filing]

LEMMA JobTypeStep == JobTypeOK /\ [JobNext]_jobVars => JobTypeOK'
<1> SUFFICES ASSUME Counted, Named, [JobNext]_jobVars PROVE Counted' /\ Named'
  BY DEF JobTypeOK, Counted, Named
<1>1. Counted'
  <2> USE DEF Counted
  <2>1. CASE AddJob
    BY <2>1 DEF AddJob, counters
  <2>2. CASE MarkRow
    BY <2>2 DEF MarkRow, counters
  <2>3. CASE GiveUp
    BY <2>3 DEF GiveUp, counters
  <2>4. CASE Start
    BY <2>4 DEF Start, counters
  <2>5. CASE Process
    BY <2>5 DEF Process, counters
  <2>6. CASE Trigger
    <3>1. (UNCHANGED counters \/ Fail) /\ UNCHANGED tries
      BY <2>6 DEF Trigger
    <3> QED BY <3>1 DEF Fail, counters
  <2>7. CASE Bury
    <3>1. (UNCHANGED counters \/ Fail) /\ tries' = tries + 1
      BY <2>7, Zenon DEF Bury
    <3> QED BY <3>1 DEF Fail, counters
  <2>8. CASE Discard
    <3>1. (UNCHANGED counters \/ Fail) /\ UNCHANGED tries
      BY <2>8 DEF Discard
    <3> QED BY <3>1 DEF Fail, counters
  <2>9. CASE FailAttempt
    BY <2>9 DEF FailAttempt, Fail, counters
  <2>10. CASE FailToRecord
    BY <2>10 DEF FailToRecord, Fail, counters
  <2>11. CASE FailForGood
    BY <2>11 DEF FailForGood, Fail, counters
  <2>12. CASE Stall
    BY <2>12 DEF Stall, counters
  <2>13. CASE RetryJob
    BY <2>13 DEF RetryJob, counters
  <2>14. CASE RemoveJob
    BY <2>14 DEF RemoveJob, counters
  <2>15. CASE UNCHANGED jobVars
    BY <2>15 DEF jobVars, counters
  <2>16. CASE StoreEmail
    BY <2>16 DEF StoreEmail, counters
  <2>17. ASSUME NEW a \in Attachments, StoreAttachment(a) PROVE Counted'
    <3>1. (UNCHANGED counters \/ Fail) /\ UNCHANGED tries
      BY <2>17 DEF StoreAttachment
    <3> QED BY <3>1 DEF Fail, counters
  <2> QED BY <2>1, <2>2, <2>3, <2>4, <2>5, <2>6, <2>7, <2>8, <2>9, <2>10, <2>11, <2>12, <2>13,
             <2>14, <2>15, <2>16, <2>17 DEF JobNext, WorkerStep
<1>2. Named'
  <2> USE DEF Named, Status, Job, Active, Outcome, Lapse, Filing, LoseRecord, Requeued
  <2>1. CASE AddJob
    BY <2>1 DEF AddJob
  <2>2. CASE MarkRow
    BY <2>2 DEF MarkRow
  <2>3. CASE GiveUp
    BY <2>3 DEF GiveUp
  <2>4. CASE Start
    BY <2>4 DEF Start
  <2>5. CASE Process
    BY <2>5 DEF Process
  <2>6. CASE Trigger
    BY <2>6 DEF Trigger, Fail
  <2>7. CASE Bury
    BY <2>7 DEF Bury, Fail
  <2>8. CASE Discard
    BY <2>8 DEF Discard, Fail
  <2>9. CASE FailAttempt
    BY <2>9 DEF FailAttempt, Fail
  <2>10. CASE FailToRecord
    BY <2>10 DEF FailToRecord, Fail
  <2>11. CASE FailForGood
    BY <2>11 DEF FailForGood, Fail
  <2>12. CASE Stall
    BY <2>12 DEF Stall
  <2>13. CASE RetryJob
    BY <2>13 DEF RetryJob
  <2>14. CASE RemoveJob
    BY <2>14 DEF RemoveJob
  <2>15. CASE UNCHANGED jobVars
    BY <2>15 DEF jobVars
  <2>16. CASE StoreEmail
    BY <2>16 DEF StoreEmail
  <2>17. ASSUME NEW a \in Attachments, StoreAttachment(a) PROVE Named'
    BY <2>17 DEF StoreAttachment
  <2> QED BY <2>1, <2>2, <2>3, <2>4, <2>5, <2>6, <2>7, <2>8, <2>9, <2>10, <2>11, <2>12, <2>13,
             <2>14, <2>15, <2>16, <2>17 DEF JobNext, WorkerStep
<1> QED BY <1>1, <1>2

\* BullMQ and the catch block agree on which attempt is the last.
LEMMA RequeuedIsUnlessLast ==
  ASSUME tries \in Nat PROVE Requeued = IF LastAttempt THEN "failed" ELSE "waiting"
  BY ProcessingAssumption DEF Requeued, LastAttempt

\* Storing the attachments is what fills the records; whatever else is done
\* leaves them.
LEMMA FiledStep ==
  ASSUME JobTypeOK, FiledInv, [JobNext]_jobVars PROVE FiledInv'
<1> USE DEF FiledInv, OnRecord
<1>1. CASE StoreEmail
  BY <1>1 DEF StoreEmail
<1>2. ASSUME NEW a \in Attachments, StoreAttachment(a) PROVE FiledInv'
  <2>1. \E f \in Filing : /\ filed' = [filed EXCEPT ![a] = @ \cup {f}]
                         /\ f \in {IF a \in Refused THEN "rejected" ELSE "stored", "error"}
    BY <1>2 DEF StoreAttachment, Filing
  <2>2. /\ OnRecord(a)'
        /\ \A b \in Attachments : OnRecord(b) => OnRecord(b)'
    BY <2>1 DEF JobTypeOK
  <2>3. todo' = todo \ {a} /\ UNCHANGED <<job, status>>
    BY <1>2 DEF StoreAttachment
  <2> QED BY <2>2, <2>3
<1>3. CASE Process
  BY <1>3 DEF Process
<1>4. CASE AddJob \/ MarkRow \/ GiveUp
  BY <1>4 DEF AddJob, MarkRow, GiveUp
<1>5. CASE Start \/ Trigger
  BY <1>5 DEF Start, Trigger
<1>6. CASE Bury \/ Discard
  <2>1. job' # "storing" /\ status' \in {status, "dead_lettered"} /\ UNCHANGED filed
    BY <1>6 DEF Bury, Discard, Requeued
  <2> QED BY <2>1
<1>7. CASE FailAttempt \/ FailToRecord \/ FailForGood
  <2>1. job' # "storing" /\ status' \in {status, "failed"} /\ UNCHANGED filed
    BY <1>7 DEF FailAttempt, FailToRecord, FailForGood, Requeued
  <2> QED BY <2>1
<1>8. CASE Stall \/ RetryJob \/ RemoveJob
  BY <1>8 DEF Stall, RetryJob, RemoveJob
<1>9. CASE UNCHANGED jobVars
  BY <1>9 DEF jobVars
<1> QED BY <1>1, <1>2, <1>3, <1>4, <1>5, <1>6, <1>7, <1>8, <1>9 DEF JobNext, WorkerStep

LEMMA JobInvStep == JobInv /\ [JobNext]_jobVars => JobInv'
<1> SUFFICES ASSUME JobInv, [JobNext]_jobVars PROVE HandedOn' /\ FailedIsBuried' /\ ToldInv'
  BY JobTypeStep, FiledStep DEF JobInv
<1> USE DEF JobInv, HandedOn, FailedIsBuried, ToldInv, LoseRecord, Active
<1>1. CASE AddJob
  BY <1>1 DEF AddJob
<1>2. CASE MarkRow
  BY <1>2 DEF MarkRow
<1>3. CASE GiveUp
  BY <1>3 DEF GiveUp
<1>4. CASE Start
  BY <1>4 DEF Start
<1>5. CASE Process
  BY <1>5 DEF Process
<1>6. CASE Trigger
  BY <1>6 DEF Trigger
<1>7. CASE Bury
  BY <1>7 DEF Bury, Requeued
<1>8. CASE Discard
  BY <1>8 DEF Discard
<1>9. CASE FailAttempt
  BY <1>9, RequeuedIsUnlessLast DEF FailAttempt, JobTypeOK
<1>10. CASE FailToRecord
  BY <1>10, RequeuedIsUnlessLast DEF FailToRecord, JobTypeOK
<1>11. CASE FailForGood
  BY <1>11 DEF FailForGood
<1>12. CASE Stall
  BY <1>12 DEF Stall
<1>13. CASE RetryJob
  BY <1>13 DEF RetryJob
<1>14. CASE RemoveJob
  BY <1>14 DEF RemoveJob, counters
<1>15. CASE UNCHANGED jobVars
  BY <1>15 DEF jobVars
<1>16. CASE StoreEmail
  BY <1>16 DEF StoreEmail
<1>17. ASSUME NEW a \in Attachments, StoreAttachment(a) PROVE HandedOn' /\ FailedIsBuried' /\ ToldInv'
  BY <1>17 DEF StoreAttachment
<1> QED BY <1>1, <1>2, <1>3, <1>4, <1>5, <1>6, <1>7, <1>8, <1>9, <1>10, <1>11, <1>12, <1>13,
           <1>14, <1>15, <1>16, <1>17 DEF JobNext, WorkerStep

THEOREM InvCorrect == JobSpec => []JobInv
  BY JobInvInit, JobInvStep, PTL DEF JobSpec

\* The types of the row, the job and the counters.
THEOREM JobTypeCorrect == JobSpec => []JobTypeOK
<1>1. JobInv => JobTypeOK
  BY DEF JobInv
<1> QED BY InvCorrect, <1>1, PTL

\* A completed job has handed its email on, buried it, or met an error that the
\* code swallows.
THEOREM HandedOnHolds == JobSpec => []HandedOn
<1>1. JobInv => HandedOn
  BY DEF JobInv
<1> QED BY InvCorrect, <1>1, PTL

\* A failed job has left a dead-letter row, or met an error that the code
\* swallows, or stalled.
THEOREM FailedIsBuriedHolds == JobSpec => []FailedIsBuried
<1>1. JobInv => FailedIsBuried
  BY DEF JobInv
<1> QED BY InvCorrect, <1>1, PTL

\* The status and the job agree at the end.
THEOREM StatusTellsHolds == JobSpec => []StatusTells
<1>1. JobInv => StatusTells
  BY DEF JobInv, ToldInv, FiledInv, StatusTells
<1> QED BY InvCorrect, <1>1, PTL
=============================================================================
