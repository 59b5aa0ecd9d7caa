-------------------------- MODULE IdempotencyProofs --------------------------
(***************************************************************************)
(* Proofs about Idempotency for any finite set of callers and any bounds.  *)
(*                                                                         *)
(* The budget of side effects is shown by an accounting invariant: next to *)
(* the effects already performed it counts everything that may still lead  *)
(* to one without a new excuse - callers about to call, callers about to   *)
(* record a failure (which reopens the row), a row that the next caller    *)
(* may claim, and a claim whose owner is gone.                             *)
(***************************************************************************)
EXTENDS Idempotency, FiniteSetTheorems, TLAPS

Count(f, s) == Cardinality({v \in Workers : f[v] = s})

One(b) == IF b THEN 1 ELSE 0

\* The next caller to read the row will be let through to fn.
Open == row.status \in {"none", "failed"} \/ row.aged

FreshOrphan == OwnerGone /\ ~row.aged

Accounting ==
  effects + Count(pc, "calling") + Count(pc, "threw") + One(Open) + One(FreshOrphan)
    <= 1 + excuses

\* A snapshot that still equals the row was found claimable when it was read,
\* and a row stays claimable until it is written.
SnapshotInv ==
  \A w \in Workers : pc[w] = "takeover" /\ w \in current => Claimable

IInv == TypeOK /\ SnapshotInv /\ OnlyOwnerInside /\ Accounting

-----------------------------------------------------------------------------
(* Counting callers by phase. *)

\* Nobody is in any phase but the first at the start.
LEMMA CountInit ==
  ASSUME NEW s \in PC, s # "idle"
  PROVE  Count([w \in Workers |-> "idle"], s) = 0
<1>1. {v \in Workers : [w \in Workers |-> "idle"][v] = s} = {}
  OBVIOUS
<1> QED BY <1>1, FS_EmptySet DEF Count

-----------------------------------------------------------------------------
(* Type correctness. *)

\* Claiming, finishing and ageing a row produce rows.
LEMMA RowType ==
  /\ NoRow \in Row
  /\ \A w \in Workers : \A e \in BOOLEAN :
       [status |-> "in_progress", owner |-> w, exact |-> e, aged |-> FALSE] \in Row
  /\ \A s \in {"completed", "failed"} :
       [status |-> s, owner |-> NoOne, exact |-> TRUE, aged |-> FALSE] \in Row
  /\ \A r \in Row : [r EXCEPT !.aged = TRUE] \in Row
<1>1. \A r \in Row : [r EXCEPT !.aged = TRUE] \in Row
  <2> SUFFICES ASSUME NEW r \in Row PROVE [r EXCEPT !.aged = TRUE] \in Row
    OBVIOUS
  <2> QED BY DEF Row
<1>2. \A w \in Workers : \A e \in BOOLEAN :
        [status |-> "in_progress", owner |-> w, exact |-> e, aged |-> FALSE] \in Row
  BY DEF Row, Status
<1> QED BY <1>1, <1>2 DEF Row, NoRow, Status

\* Moving one caller to a phase keeps pc well typed, and likewise told.
LEMMA PhaseType ==
  ASSUME TypeOK, NEW w \in Workers
  PROVE  /\ \A to \in PC : Goto(w, to) => pc' \in [Workers -> PC]
         /\ \A what \in Told : Tell(w, what) =>
              pc' \in [Workers -> PC] /\ told' \in [Workers -> Told]
  BY DEF TypeOK, Goto, Tell, PC

LEMMA TypeStep == TypeOK /\ [Next]_vars => TypeOK'
<1> SUFFICES ASSUME TypeOK, [Next]_vars PROVE TypeOK'
  OBVIOUS
<1> USE WorkersAssumption, BoundsAssumption, RowType
<1> USE DEF TypeOK, Write, History, Excuse, Fail
<1>1. ASSUME NEW w \in Workers, CallerStep(w) PROVE TypeOK'
  <2>0. /\ \A to \in PC : Goto(w, to) => pc' \in [Workers -> PC]
        /\ \A what \in Told : Tell(w, what) =>
             pc' \in [Workers -> PC] /\ told' \in [Workers -> Told]
    BY PhaseType
  <2>1. CASE Read(w)
    BY <2>0, <2>1 DEF Read, PC, Told
  <2>2. CASE Insert(w)
    BY <2>0, <2>2 DEF Insert, PC
  <2>3. CASE TakeOver(w)
    BY <2>0, <2>3 DEF TakeOver, PC, Told
  <2>4. CASE Perform(w) \/ Answer(w) \/ LoseAnswer(w) \/ Refuse(w)
    BY <2>0, <2>4 DEF Perform, Answer, LoseAnswer, Refuse, PC
  <2>5. CASE RecordFailure(w)
    BY <2>0, <2>5 DEF RecordFailure, Finish, Told
  <2>6. CASE RecordSuccess(w)
    BY <2>0, <2>6 DEF RecordSuccess, Finish, Told
  <2> QED BY <1>1, <2>1, <2>2, <2>3, <2>4, <2>5, <2>6 DEF CallerStep
<1>2. ASSUME Environment PROVE TypeOK'
  <2>1. CASE AgeOrphan \/ Expire
    BY <2>1 DEF AgeOrphan, Expire, Age
  <2>2. CASE Overstay
    <3>1. row' \in Row /\ excuses' \in Nat /\ deposed' \in BOOLEAN
      BY <2>2 DEF Overstay, Age
    <3> QED BY <2>2, <3>1 DEF Overstay, Age
  <2>3. CASE ClearKey
    <3>1. row' \in Row /\ excuses' \in Nat
      BY <2>3 DEF ClearKey
    <3>2. deposed' \in BOOLEAN
      BY <2>3 DEF ClearKey
    <3> QED BY <2>3, <3>1, <3>2 DEF ClearKey
  <2>4. ASSUME NEW w \in Workers, Crash(w) PROVE TypeOK'
    BY <2>4, PhaseType DEF Crash, Told
  <2> QED BY <1>2, <2>1, <2>2, <2>3, <2>4 DEF Environment
<1>3. CASE UNCHANGED vars
  BY <1>3 DEF vars
<1> HIDE DEF TypeOK
<1> QED BY <1>1, <1>2, <1>3 DEF Next

LEMMA TypeInit == Init => TypeOK
<1> SUFFICES ASSUME Init PROVE TypeOK
  OBVIOUS
<1>1. row \in Row /\ current \in SUBSET Workers /\ deposed \in BOOLEAN
  BY RowType DEF Init
<1>2. pc \in [Workers -> PC] /\ told \in [Workers -> Told]
  BY DEF Init, PC, Told
<1> QED BY <1>1, <1>2 DEF Init, TypeOK

\* Every variable stays in its type.
THEOREM TypeCorrect == Spec => []TypeOK
  BY TypeInit, TypeStep, PTL DEF Spec

-----------------------------------------------------------------------------
(* Who is inside fn. *)

\* A caller that stays inside fn, or stays outside, does not change whether
\* the claim of an unchanged row has a live owner.
LEMMA OwnerSame ==
  ASSUME TypeOK, NEW w \in Workers, NEW to \in PC, Goto(w, to), UNCHANGED row,
         pc[w] \in InCall <=> to \in InCall
  PROVE  (OwnerLive' <=> OwnerLive) /\ (OwnerGone' <=> OwnerGone)
  BY DEF TypeOK, Goto, OwnerLive, OwnerGone

LEMMA SnapshotStep == TypeOK /\ SnapshotInv /\ [Next]_vars => SnapshotInv'
<1> SUFFICES ASSUME TypeOK, SnapshotInv, [Next]_vars PROVE SnapshotInv'
  OBVIOUS
<1> USE DEF TypeOK, SnapshotInv, Claimable, Goto, Tell, Write
<1>1. ASSUME NEW w \in Workers, CallerStep(w) PROVE SnapshotInv'
  <2>1. CASE Read(w)          BY <2>1 DEF Read
  <2>2. CASE Insert(w)        BY <2>2 DEF Insert
  <2>3. CASE TakeOver(w)      BY <2>3 DEF TakeOver
  <2>4. CASE Perform(w) \/ Answer(w) \/ LoseAnswer(w) \/ Refuse(w)
    BY <2>4 DEF Perform, Answer, LoseAnswer, Refuse
  <2>5. CASE RecordFailure(w) \/ RecordSuccess(w)
    BY <2>5 DEF RecordFailure, RecordSuccess, Finish
  <2> QED BY <1>1, <2>1, <2>2, <2>3, <2>4, <2>5 DEF CallerStep
<1>2. ASSUME Environment PROVE SnapshotInv'
  <2>1. CASE AgeOrphan \/ Overstay \/ Expire
    <3>1. row'.status = row.status /\ row'.aged
      BY <2>1 DEF AgeOrphan, Overstay, Expire, Age, Row
    <3>2. pc' = pc /\ current' = current
      BY <2>1 DEF AgeOrphan, Overstay, Expire, Age
    <3> QED BY <3>1, <3>2
  <2>2. CASE ClearKey
    BY <2>2 DEF ClearKey
  <2>3. ASSUME NEW w \in Workers, Crash(w) PROVE SnapshotInv'
    BY <2>3 DEF Crash
  <2> QED BY <1>2, <2>1, <2>2, <2>3 DEF Environment
<1>3. CASE UNCHANGED vars
  BY <1>3 DEF vars
<1> HIDE DEF TypeOK, SnapshotInv
<1> QED BY <1>1, <1>2, <1>3 DEF Next

LEMMA ExclusiveStep ==
  TypeOK /\ SnapshotInv /\ OnlyOwnerInside /\ [Next]_vars => OnlyOwnerInside'
<1> SUFFICES ASSUME TypeOK, SnapshotInv, OnlyOwnerInside, [Next]_vars, ~deposed'
             PROVE  \A v \in Workers : pc'[v] \in InCall =>
                      row'.status = "in_progress" /\ row'.owner = v /\ ~row'.aged
  BY DEF OnlyOwnerInside
<1>0. ~deposed
  BY DEF Next, CallerStep, Environment, Read, Insert, TakeOver, Perform, Answer,
         LoseAnswer, Refuse, RecordFailure, RecordSuccess, AgeOrphan, Overstay,
         Expire, ClearKey, Crash, History, vars
<1>1. \A v \in Workers : pc[v] \in InCall =>
        row.status = "in_progress" /\ row.owner = v /\ ~row.aged
  BY <1>0 DEF OnlyOwnerInside
<1> USE DEF TypeOK, InCall, Goto, Tell, Write
<1>2. ASSUME NEW w \in Workers, CallerStep(w)
      PROVE  \A v \in Workers : pc'[v] \in InCall =>
               row'.status = "in_progress" /\ row'.owner = v /\ ~row'.aged
  <2>1. CASE Read(w)          BY <1>1, <2>1 DEF Read
  <2>2. CASE Insert(w)        BY <1>1, <2>2 DEF Insert
  <2>3. CASE TakeOver(w)
    <3>1. CASE Swappable(w)
      <4>1. Claimable
        BY <2>3, <3>1 DEF TakeOver, Swappable, SnapshotInv
      <4>2. \A v \in Workers : pc[v] \notin InCall
        BY <1>1, <4>1 DEF Claimable
      <4> QED BY <2>3, <3>1, <4>2 DEF TakeOver
    <3>2. CASE ~Swappable(w)
      BY <1>1, <2>3, <3>2 DEF TakeOver
    <3> QED BY <3>1, <3>2
  <2>4. CASE Perform(w) \/ Answer(w) \/ LoseAnswer(w) \/ Refuse(w)
    BY <1>1, <2>4 DEF Perform, Answer, LoseAnswer, Refuse
  <2>5. CASE RecordFailure(w) \/ RecordSuccess(w)
    BY <1>1, <2>5 DEF RecordFailure, RecordSuccess, Finish
  <2> QED BY <1>2, <2>1, <2>2, <2>3, <2>4, <2>5 DEF CallerStep
<1>3. ASSUME Environment
      PROVE  \A v \in Workers : pc'[v] \in InCall =>
               row'.status = "in_progress" /\ row'.owner = v /\ ~row'.aged
  <2>1. CASE AgeOrphan
    <3>1. \A v \in Workers : pc[v] \notin InCall
      BY <1>1, <2>1 DEF AgeOrphan, OwnerGone, OwnerLive
    <3> QED BY <2>1, <3>1 DEF AgeOrphan
  <2>2. CASE Overstay
    BY <2>2 DEF Overstay
  <2>3. CASE Expire
    <3>1. \A v \in Workers : pc[v] \notin InCall
      BY <1>1, <2>3 DEF Expire, Authoritative
    <3> QED BY <2>3, <3>1 DEF Expire
  <2>4. CASE ClearKey
    <3>1. ~OwnerLive
      BY <2>4 DEF ClearKey
    <3>2. \A v \in Workers : pc[v] \notin InCall
      BY <1>1, <3>1 DEF OwnerLive
    <3> QED BY <2>4, <3>2 DEF ClearKey
  <2>5. ASSUME NEW w \in Workers, Crash(w)
        PROVE  \A v \in Workers : pc'[v] \in InCall =>
                 row'.status = "in_progress" /\ row'.owner = v /\ ~row'.aged
    BY <1>1, <2>5 DEF Crash
  <2> QED BY <1>3, <2>1, <2>2, <2>3, <2>4, <2>5 DEF Environment
<1>4. CASE UNCHANGED vars
  BY <1>1, <1>4 DEF vars
<1> HIDE DEF TypeOK, InCall
<1> QED BY <1>2, <1>3, <1>4 DEF Next

-----------------------------------------------------------------------------
(* The account of side effects. *)

LEMMA CountNat ==
  ASSUME NEW f, NEW s
  PROVE  IsFiniteSet({v \in Workers : f[v] = s}) /\ Count(f, s) \in Nat
<1>1. IsFiniteSet({v \in Workers : f[v] = s})
  BY WorkersAssumption, FS_Subset
<1> QED BY <1>1, FS_CardinalityType DEF Count

\* Moving one caller from a phase to another changes the two phases' counts
\* by one each.
LEMMA CountStep ==
  ASSUME TypeOK, NEW w \in Workers, NEW to \in PC, Goto(w, to), NEW s \in PC
  PROVE  /\ Count(pc, s) \in Nat /\ Count(pc', s) \in Nat
         /\ pc[w] = s => Count(pc, s) >= 1
         /\ Count(pc', s) = Count(pc, s) + One(to = s) - One(pc[w] = s)
<1> DEFINE F == {v \in Workers : pc[v] = s}
           G == {v \in Workers : pc'[v] = s}
           H == F \ {w}
<1>0. pc'[w] = to /\ \A v \in Workers \ {w} : pc'[v] = pc[v]
  BY DEF TypeOK, Goto
<1>1. IsFiniteSet(F) /\ IsFiniteSet(H)
  BY WorkersAssumption, FS_Subset
<1>2. Cardinality(F) \in Nat /\ Cardinality(H) \in Nat /\ Count(pc', s) \in Nat
  BY <1>1, FS_CardinalityType, CountNat
<1>3. Cardinality(F) = Cardinality(H) + One(pc[w] = s)
  <2>1. Cardinality(H) = IF w \in F THEN Cardinality(F) - 1 ELSE Cardinality(F)
    BY <1>1, FS_RemoveElement
  <2>2. w \in F <=> pc[w] = s
    OBVIOUS
  <2> QED BY <2>1, <2>2, <1>2 DEF One
<1>4. Cardinality(G) = Cardinality(H) + One(to = s)
  <2>1. CASE to = s
    <3>1. G = H \cup {w}
      BY <1>0, <2>1
    <3>2. w \notin H
      OBVIOUS
    <3>3. Cardinality(G) = Cardinality(H) + 1
      BY <3>1, <3>2, <1>1, FS_AddElement
    <3> QED BY <3>3, <2>1 DEF One
  <2>2. CASE to # s
    <3>1. G = H
      BY <1>0, <2>2
    <3>2. Cardinality(G) = Cardinality(H)
      BY <3>1
    <3> HIDE DEF G, H
    <3> QED BY <3>2, <2>2, <1>2 DEF One
  <2> QED BY <2>1, <2>2
<1>5. Count(pc, s) = Cardinality(F) /\ Count(pc', s) = Cardinality(G)
  BY DEF Count
<1> HIDE DEF F, G, H
<1> QED BY <1>2, <1>3, <1>4, <1>5 DEF One

\* A step that moves a caller without touching the row's openness, spends
\* what it takes from one count, or is excused, keeps the account.
LEMMA AccountingStep ==
  TypeOK /\ SnapshotInv /\ Accounting /\ [Next]_vars => Accounting'
<1> SUFFICES ASSUME TypeOK, SnapshotInv, Accounting, [Next]_vars PROVE Accounting'
  OBVIOUS
<1> DEFINE C == Count(pc, "calling")
           T == Count(pc, "threw")
<1>0. C \in Nat /\ T \in Nat /\ effects \in Nat /\ excuses \in Nat
  BY CountNat DEF TypeOK
<1>a. effects + C + T + One(Open) + One(FreshOrphan) <= 1 + excuses
  BY DEF Accounting
<1>b. /\ One(Open) \in {0, 1} /\ One(FreshOrphan) \in {0, 1}
      /\ One(Open)' \in {0, 1} /\ One(FreshOrphan)' \in {0, 1}
  BY DEF One
<1>c. Accounting' <=> effects' + Count(pc', "calling") + Count(pc', "threw")
                        + One(Open)' + One(FreshOrphan)' <= 1 + excuses'
  BY DEF Accounting
<1>d. ASSUME NEW w \in Workers, NEW to \in PC, Goto(w, to)
      PROVE  /\ Count(pc', "calling") \in Nat /\ Count(pc', "threw") \in Nat
             /\ pc[w] = "calling" => C >= 1
             /\ pc[w] = "threw" => T >= 1
             /\ Count(pc', "calling") =
                  C + One(to = "calling") - One(pc[w] = "calling")
             /\ Count(pc', "threw") = T + One(to = "threw") - One(pc[w] = "threw")
  BY <1>d, CountStep DEF PC
<1>e. ASSUME UNCHANGED pc
      PROVE  Count(pc', "calling") = C /\ Count(pc', "threw") = T
  BY <1>e
<1> HIDE DEF C, T
<1>1. ASSUME NEW w \in Workers, CallerStep(w) PROVE Accounting'
  <2>1. CASE Read(w)
    <3>1. PICK to \in {"idle", "insert", "takeover"} : Goto(w, to)
      BY <2>1 DEF Read, Tell
    <3>2. to \in PC /\ to \notin InCall /\ pc[w] \notin InCall
          /\ to \notin {"calling", "threw"} /\ pc[w] \notin {"calling", "threw"}
      BY <2>1, <3>1 DEF Read, PC, InCall
    <3>3. UNCHANGED <<row, effects, excuses>>
      BY <2>1 DEF Read, History
    <3>4. One(Open)' = One(Open) /\ One(FreshOrphan)' = One(FreshOrphan)
      BY <3>1, <3>2, <3>3, OwnerSame DEF One, Open, FreshOrphan
    <3>5. Count(pc', "calling") = C /\ Count(pc', "threw") = T
      BY <1>0, <1>d, <3>1, <3>2 DEF One
    <3> QED BY <1>a, <1>c, <3>3, <3>4, <3>5
  <2>2. ASSUME Goto(w, "calling"), pc[w] \in {"insert", "takeover"}, Open,
               row'.status = "in_progress", row'.owner = w, ~row'.aged,
               UNCHANGED <<effects, excuses>>
        PROVE  Accounting'
    <3>1. ~Open' /\ ~FreshOrphan'
      BY <2>2 DEF Open, FreshOrphan, OwnerGone, OwnerLive, Goto, TypeOK, InCall
    <3>2. Count(pc', "calling") = C + 1 /\ Count(pc', "threw") = T
      BY <1>0, <1>d, <2>2 DEF One, PC
    <3> QED BY <1>0, <1>a, <1>b, <1>c, <2>2, <3>1, <3>2 DEF One
  <2>3. CASE Insert(w)
    <3>1. CASE row.status = "none"
      <4>1. /\ Goto(w, "calling") /\ row'.status = "in_progress" /\ row'.owner = w
            /\ ~row'.aged
        BY <2>3, <3>1 DEF Insert, Write
      <4> QED BY <2>2, <2>3, <3>1, <4>1 DEF Insert, History, Open
    <3>2. CASE row.status # "none"
      <4>1. Goto(w, "reread") /\ UNCHANGED <<row, effects, excuses>> /\ pc[w] = "insert"
        BY <2>3, <3>2 DEF Insert, History
      <4>2. One(Open)' = One(Open) /\ One(FreshOrphan)' = One(FreshOrphan)
        BY <4>1, OwnerSame DEF One, Open, FreshOrphan, InCall, PC
      <4>3. Count(pc', "calling") = C /\ Count(pc', "threw") = T
        BY <1>0, <1>d, <4>1 DEF One, PC
      <4> QED BY <1>a, <1>c, <4>1, <4>2, <4>3
    <3> QED BY <3>1, <3>2
  <2>4. CASE TakeOver(w)
    <3>1. CASE Swappable(w)
      <4>1. Open
        BY <2>4, <3>1 DEF TakeOver, Swappable, SnapshotInv, Claimable, Open
      <4> QED BY <2>2, <2>4, <3>1, <4>1 DEF TakeOver, Write, History
    <3>2. CASE ~Swappable(w)
      <4>1. Goto(w, "idle") /\ UNCHANGED <<row, effects, excuses>> /\ pc[w] = "takeover"
        BY <2>4, <3>2 DEF TakeOver, Tell, History
      <4>2. One(Open)' = One(Open) /\ One(FreshOrphan)' = One(FreshOrphan)
        BY <4>1, OwnerSame DEF One, Open, FreshOrphan, InCall, PC
      <4>3. Count(pc', "calling") = C /\ Count(pc', "threw") = T
        BY <1>0, <1>d, <4>1 DEF One, PC
      <4> QED BY <1>a, <1>c, <4>1, <4>2, <4>3
    <3> QED BY <3>1, <3>2
  <2>5. CASE Perform(w) \/ Answer(w) \/ LoseAnswer(w) \/ Refuse(w)
    <3>1. PICK to \in {"performed", "answered", "threw"} : Goto(w, to)
      BY <2>5 DEF Perform, Answer, LoseAnswer, Refuse
    <3>2. to \in PC /\ to \in InCall /\ pc[w] \in InCall /\ UNCHANGED row
      BY <2>5, <3>1 DEF Perform, Answer, LoseAnswer, Refuse, PC, InCall
    <3>3. One(Open)' = One(Open) /\ One(FreshOrphan)' = One(FreshOrphan)
      BY <3>1, <3>2, OwnerSame DEF One, Open, FreshOrphan
    <3>4. pc'[w] = to
      BY <3>1 DEF Goto, TypeOK
    <3>5. CASE Perform(w)
      <4>1. to = "performed" /\ pc[w] = "calling" /\ effects' = effects + 1
            /\ UNCHANGED excuses
        BY <3>4, <3>5 DEF Perform, History, Goto, TypeOK
      <4>2. Count(pc', "calling") = C - 1 /\ Count(pc', "threw") = T
        BY <1>0, <1>d, <3>1, <3>2, <4>1 DEF One
      <4> QED BY <1>0, <1>a, <1>b, <1>c, <3>3, <4>1, <4>2
    <3>6. CASE Answer(w)
      <4>1. to = "answered" /\ pc[w] = "performed" /\ UNCHANGED <<effects, excuses>>
        BY <3>4, <3>6 DEF Answer, History, Goto, TypeOK
      <4>2. Count(pc', "calling") = C /\ Count(pc', "threw") = T
        BY <1>0, <1>d, <3>1, <3>2, <4>1 DEF One
      <4> QED BY <1>0, <1>a, <1>b, <1>c, <3>3, <4>1, <4>2
    <3>7. CASE LoseAnswer(w)
      <4>1. to = "threw" /\ pc[w] = "performed" /\ excuses' = excuses + 1
            /\ UNCHANGED effects
        BY <3>4, <3>7 DEF LoseAnswer, Excuse, Goto, TypeOK
      <4>2. Count(pc', "calling") = C /\ Count(pc', "threw") = T + 1
        BY <1>0, <1>d, <3>1, <3>2, <4>1 DEF One
      <4> QED BY <1>0, <1>a, <1>b, <1>c, <3>3, <4>1, <4>2
    <3>8. CASE Refuse(w)
      <4>1. to = "threw" /\ pc[w] = "calling" /\ UNCHANGED <<effects, excuses>>
        BY <3>4, <3>8 DEF Refuse, Goto, TypeOK
      <4>2. Count(pc', "calling") = C - 1 /\ Count(pc', "threw") = T + 1
        BY <1>0, <1>d, <3>1, <3>2, <4>1 DEF One
      <4> QED BY <1>0, <1>a, <1>b, <1>c, <3>3, <4>1, <4>2
    <3> QED BY <2>5, <3>5, <3>6, <3>7, <3>8
  <2>6. ASSUME Goto(w, "idle"), pc[w] \in {"threw", "answered"},
               UNCHANGED <<effects, excuses>>,
               IF row.status = "none" THEN UNCHANGED row
                 ELSE /\ row'.status = (IF pc[w] = "threw" THEN "failed" ELSE "completed")
                      /\ ~row'.aged
        PROVE  Accounting'
    <3>1. ~FreshOrphan'
      BY <2>6 DEF FreshOrphan, OwnerGone
    <3>2. pc[w] = "answered" => One(Open)' <= One(Open)
      BY <2>6 DEF Open, One
    <3>3. /\ Count(pc', "calling") = C
          /\ Count(pc', "threw") = T - (IF pc[w] = "threw" THEN 1 ELSE 0)
      BY <1>0, <1>d, <2>6 DEF One, PC
    <3> QED BY <1>0, <1>a, <1>b, <1>c, <2>6, <3>1, <3>2, <3>3 DEF One
  <2>7. CASE RecordFailure(w) \/ RecordSuccess(w)
    BY <2>6, <2>7 DEF RecordFailure, RecordSuccess, Finish, Tell, History, Write
  <2> QED BY <1>1, <2>1, <2>3, <2>4, <2>5, <2>7 DEF CallerStep
<1>2. ASSUME Environment PROVE Accounting'
  <2>1. ASSUME UNCHANGED <<pc, effects>>, Open',
               \/ excuses' = excuses + 1
               \/ excuses' = excuses /\ (Open \/ FreshOrphan),
               ~FreshOrphan'
        PROVE  Accounting'
    BY <1>0, <1>a, <1>b, <1>c, <1>e, <2>1 DEF One
  <2>2. CASE AgeOrphan \/ Overstay \/ Expire
    <3>1. Open' /\ ~FreshOrphan'
      BY <2>2 DEF AgeOrphan, Overstay, Expire, Age, Open, FreshOrphan, TypeOK, Row
    <3>2. \/ excuses' = excuses + 1
          \/ excuses' = excuses /\ FreshOrphan
      BY <2>2 DEF AgeOrphan, Overstay, Expire, Excuse, History, FreshOrphan
    <3> QED BY <2>1, <2>2, <3>1, <3>2 DEF AgeOrphan, Overstay, Expire
  <2>3. CASE ClearKey
    <3>1. row' = NoRow /\ UNCHANGED <<pc, effects>>
      BY <2>3 DEF ClearKey, Write
    <3>2. Open' /\ ~FreshOrphan'
      BY <3>1 DEF Open, FreshOrphan, OwnerGone, NoRow
    <3>3. CASE Authoritative \/ (OwnerLive /\ ~row.aged)
      BY <2>1, <2>3, <3>1, <3>2, <3>3 DEF ClearKey, Excuse
    <3>4. CASE ~(Authoritative \/ (OwnerLive /\ ~row.aged))
      <4>1. Open \/ FreshOrphan
        BY <3>4 DEF Authoritative, Open, FreshOrphan, OwnerGone, TypeOK, Row, Status
      <4> QED BY <2>1, <2>3, <3>1, <3>2, <3>4, <4>1 DEF ClearKey
    <3> QED BY <3>3, <3>4
  <2>4. ASSUME NEW w \in Workers, Crash(w) PROVE Accounting'
    <3>1. Goto(w, "idle") /\ UNCHANGED <<row, effects>>
      BY <2>4 DEF Crash, Tell
    <3>2. One(Open)' = One(Open)
      BY <3>1 DEF Open, One
    <3>3. /\ Count(pc', "calling") = C - One(pc[w] = "calling")
          /\ Count(pc', "threw") = T - One(pc[w] = "threw")
      BY <1>0, <1>d, <3>1 DEF One, PC
    <3>4. CASE pc[w] \in {"performed", "answered"}
      <4>1. excuses' = excuses + 1
        BY <2>4, <3>4 DEF Crash, Excuse
      <4> QED BY <1>0, <1>a, <1>b, <1>c, <3>1, <3>2, <3>3, <3>4, <4>1 DEF One
    <3>5. CASE pc[w] \in {"calling", "threw"}
      <4>1. excuses' = excuses
        BY <2>4, <3>5 DEF Crash
      <4> QED BY <1>0, <1>a, <1>b, <1>c, <3>1, <3>2, <3>3, <3>5, <4>1 DEF One
    <3>6. CASE pc[w] \notin InCall
      <4>1. excuses' = excuses
        BY <2>4, <3>6 DEF Crash, InCall
      <4>2. One(FreshOrphan)' = One(FreshOrphan)
        BY <3>1, <3>6, OwnerSame DEF One, FreshOrphan, InCall, PC
      <4>3. pc[w] \notin {"calling", "threw"}
        BY <3>6 DEF InCall
      <4> QED BY <1>0, <1>a, <1>b, <1>c, <3>1, <3>2, <3>3, <4>1, <4>2, <4>3 DEF One
    <3> QED BY <3>4, <3>5, <3>6 DEF InCall
  <2> QED BY <1>2, <2>2, <2>3, <2>4 DEF Environment
<1>3. CASE UNCHANGED vars
  <2>1. UNCHANGED <<row, pc, effects, excuses>>
    BY <1>3 DEF vars
  <2>2. One(Open)' = One(Open) /\ One(FreshOrphan)' = One(FreshOrphan)
    BY <2>1 DEF One, Open, FreshOrphan, OwnerGone, OwnerLive
  <2> QED BY <1>a, <1>c, <1>e, <2>1, <2>2
<1> QED BY <1>1, <1>2, <1>3 DEF Next

-----------------------------------------------------------------------------
(* The theorems. *)

LEMMA InvInit == Init => IInv
<1> SUFFICES ASSUME Init PROVE IInv
  OBVIOUS
<1>1. TypeOK
  BY TypeInit
<1>2. SnapshotInv /\ OnlyOwnerInside
  BY DEF Init, SnapshotInv, OnlyOwnerInside, InCall
<1>3. Count(pc, "calling") = 0 /\ Count(pc, "threw") = 0
  BY CountInit DEF Init, PC
<1>4. One(Open) = 1 /\ One(FreshOrphan) = 0
  BY DEF Init, NoRow, One, Open, FreshOrphan, OwnerGone
<1>5. Accounting
  BY <1>3, <1>4 DEF Accounting, Init
<1> QED BY <1>1, <1>2, <1>5 DEF IInv

THEOREM InvCorrect == Spec => []IInv
<1>1. IInv /\ [Next]_vars => IInv'
  BY TypeStep, SnapshotStep, ExclusiveStep, AccountingStep DEF IInv
<1> QED BY InvInit, <1>1, PTL DEF Spec

\* The account pays for every effect: NoUnexcusedEffect is what is left of it
\* when the potential effects, which are never negative, are dropped.
THEOREM NoUnexcusedEffectHolds == Spec => []NoUnexcusedEffect
<1>1. IInv => NoUnexcusedEffect
  <2> SUFFICES ASSUME IInv PROVE NoUnexcusedEffect
    OBVIOUS
  <2>1. Count(pc, "calling") \in Nat /\ Count(pc, "threw") \in Nat
    BY CountNat
  <2> QED BY <2>1 DEF IInv, TypeOK, Accounting, NoUnexcusedEffect, One
<1> QED BY InvCorrect, <1>1, PTL

\* With no owner deposed, a caller inside fn owns the fresh row; so two callers
\* are never inside fn at once.
THEOREM OnlyOwnerInsideHolds == Spec => []OnlyOwnerInside
<1>1. IInv => OnlyOwnerInside
  BY DEF IInv
<1> QED BY InvCorrect, <1>1, PTL

\* An authoritative answer is only ever aged or deleted while no owner has
\* been deposed: the final updates of other calls cannot reach it.
THEOREM AnswerIsKeptHolds == Spec => AnswerIsKept
<1>1. IInv /\ [Next]_vars
        => [Authoritative /\ ~deposed => row'.status \in {"completed", "none"}]_vars
  <2> SUFFICES ASSUME IInv, [Next]_vars, Authoritative, ~deposed
               PROVE  row'.status \in {"completed", "none"}
    OBVIOUS
  <2>1. \A w \in Workers : pc[w] \notin InCall
    BY DEF IInv, OnlyOwnerInside, Authoritative
  <2>2. ASSUME NEW w \in Workers, CallerStep(w)
        PROVE  row'.status \in {"completed", "none"}
    BY <2>1, <2>2 DEF CallerStep, Read, Insert, TakeOver, Perform, Answer, LoseAnswer,
         Refuse, RecordFailure, RecordSuccess, Authoritative, Swappable, IInv,
         SnapshotInv, Claimable, InCall
  <2>3. CASE Environment
    BY <2>3 DEF Environment, AgeOrphan, Overstay, Expire, ClearKey, Crash, Age, Write,
         NoRow, Authoritative, IInv, TypeOK, Row
  <2>4. CASE UNCHANGED vars
    BY <2>4 DEF vars, Authoritative
  <2> QED BY <2>2, <2>3, <2>4 DEF Next
<1> QED BY InvCorrect, <1>1, PTL DEF Spec, AnswerIsKept

\* The row implements the abstract budget: an effect is only performed while
\* the account has room for it, and the budget grows only by an excuse.
THEOREM Implements == Spec => ImplementsBudget
<1>1. Init => Budget!Init
  BY DEF Init, Budget!Init
<1>2. IInv /\ [Next]_vars => [Budget!Next]_(Budget!vars)
  <2> SUFFICES ASSUME IInv, [Next]_vars PROVE [Budget!Next]_(Budget!vars)
    OBVIOUS
  <2> USE DEF Budget!Next, Budget!Spend, Budget!Grant, Budget!vars
  <2>0. effects \in Nat /\ excuses \in Nat
    BY DEF IInv, TypeOK
  <2>1. ASSUME UNCHANGED <<effects, excuses>> PROVE [Budget!Next]_(Budget!vars)
    BY <2>1
  <2>2. ASSUME UNCHANGED effects, excuses' = excuses + 1
        PROVE  [Budget!Next]_(Budget!vars)
    BY <2>0, <2>2
  <2>3. ASSUME NEW w \in Workers, Perform(w) PROVE [Budget!Next]_(Budget!vars)
    <3>1. /\ Count(pc, "calling") \in Nat /\ Count(pc, "threw") \in Nat
          /\ Count(pc, "calling") >= 1
      BY <2>3, CountNat, CountStep DEF Perform, IInv, PC
    <3>2. effects < 1 + excuses
      BY <2>0, <3>1 DEF IInv, Accounting, One
    <3> QED BY <2>3, <3>2 DEF Perform, History
  <2>4. ASSUME NEW w \in Workers, CallerStep(w), ~Perform(w)
        PROVE  [Budget!Next]_(Budget!vars)
    BY <2>1, <2>2, <2>4 DEF CallerStep, Read, Insert, TakeOver, Answer, LoseAnswer,
         Refuse, RecordFailure, RecordSuccess, Excuse, History
  <2>5. CASE Environment
    BY <2>1, <2>2, <2>5 DEF Environment, AgeOrphan, Overstay, Expire, ClearKey, Crash,
         Excuse, History
  <2>6. CASE UNCHANGED vars
    BY <2>1, <2>6 DEF vars
  <2> QED BY <2>3, <2>4, <2>5, <2>6 DEF Next
<1> QED BY InvCorrect, <1>1, <1>2, PTL DEF Spec, ImplementsBudget, Budget!Spec
=============================================================================
