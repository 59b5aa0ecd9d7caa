--------------------------- MODULE PipelineProofs ---------------------------
(***************************************************************************)
(* Proofs about Pipeline for any number of BullMQ jobs, approvals, rows    *)
(* and human interventions: the number of shipments, the waybill of the    *)
(* order, and that no completed job is left without one.                   *)
(***************************************************************************)
EXTENDS Pipeline, FiniteSetTheorems, TLAPS

-----------------------------------------------------------------------------
(* Type correctness, one group of variables at a time. *)

LEMMA WaybillTypes == None \in Waybills /\ Null \in Waybills /\ Nat \subseteq Waybills
  BY DEF None, Null, Waybills

RunsTyped ==
  /\ phase \in [Runs -> Phase] /\ corrected \in SUBSET Runs /\ wanted \in SUBSET Runs

NumbersTyped ==
  /\ row \in Nat /\ rows \in Nat /\ told \in Waybills /\ shipments \in Nat
  /\ mine \in [Runs -> Nat] /\ waybill \in [Runs -> Waybills]
  /\ tries \in [Jobs -> Nat]
  /\ cleared \in Nat /\ faults \in Nat /\ human \in Nat

QueueTyped == queue \in [Jobs -> JobState] /\ toEnqueue \in SUBSET Jobs

RecordsTyped ==
  /\ status \in Status
  /\ evals \in Seq([resolution : Resolution, overrides : BOOLEAN])
  /\ order \in [kind : Kind, row : Nat, waybill : Waybills]
  /\ key \in [state : KeyState, waybill : Waybills]
  /\ deferred \in BOOLEAN

LEMMA TypeParts == TypeOK <=> RunsTyped /\ NumbersTyped /\ QueueTyped /\ RecordsTyped
  BY DEF TypeOK, RunsTyped, NumbersTyped, QueueTyped, RecordsTyped

LEMMA RunsStep == RunsTyped /\ [Next]_vars => RunsTyped'
<1> SUFFICES ASSUME RunsTyped, [Next]_vars PROVE RunsTyped'
  OBVIOUS
<1> USE DEF RunsTyped
<1>1. ASSUME NEW r \in Runs, NEW p \in Phase, Goto(r, p) PROVE phase' \in [Runs -> Phase]
  BY <1>1 DEF Goto
<1>2. ASSUME NEW r \in Runs, NEW s, EndAs(r, s) PROVE RunsTyped'
  <2>1. phase' \in [Runs -> Phase]
    BY <1>1, <1>2 DEF EndAs, Phase
  <2> QED BY <1>2, <2>1 DEF EndAs
<1>3. ASSUME NEW r \in Runs, RunStep(r) PROVE RunsTyped'
  <2>1. CASE Return(r) \/ Fail(r)
    BY <2>1, <1>2 DEF Return, Fail
  <2>2. ASSUME \E p \in Phase : Goto(r, p), UNCHANGED <<corrected, wanted>> PROVE RunsTyped'
    BY <1>1, <2>2
  <2>3. CASE Take(r) \/ Resume(r) \/ Receive(r) \/ InsertRow(r)
    <3>1. phase' = phase \/ Return(r) \/ \E p \in Phase : Goto(r, p)
      BY <2>3 DEF Take, Resume, Receive, InsertRow, Phase, Guarded
    <3>2. UNCHANGED <<corrected, wanted>> \/ Return(r)
      BY <2>3 DEF Take, Resume, Receive, InsertRow
    <3> QED BY <2>1, <2>2, <3>1, <3>2
  <2>4. CASE Normalize(r) \/ Validate(r) \/ Payload(r)
    <3>1. (\E p \in Phase : Goto(r, p)) /\ UNCHANGED <<corrected, wanted>>
      BY <2>4 DEF Normalize, Validate, Payload, Stage, Phase, Guarded
    <3> QED BY <3>1, <2>2
  <2>5. CASE Assemble(r)
    <3>1. \E p \in Phase : Goto(r, p)
      BY <2>5 DEF Assemble, Phase, Guarded
    <3> QED BY <2>5, <3>1, <1>1 DEF Assemble
  <2>6. CASE Divert(r) \/ Review(r) \/ Judge(r) \/ Approved(r)
    <3>1. (\E p \in Phase : Goto(r, p)) /\ UNCHANGED <<corrected, wanted>>
      BY <2>6 DEF Divert, Review, Judge, Approved, Move, Phase, Guarded
    <3> QED BY <3>1, <2>2
  <2>7. CASE Submit(r) \/ Cached(r) \/ Ship(r) \/ CallFails(r) \/ Rollback(r)
    <3>1. (\E p \in Phase : Goto(r, p)) /\ UNCHANGED <<corrected, wanted>>
      BY <2>7 DEF Submit, Cached, Ship, CallFails, Rollback, Move, Phase
    <3> QED BY <3>1, <2>2
  <2>8. CASE Invalid(r) \/ Diverted(r) \/ Halt(r, "reject", "rejected")
               \/ Halt(r, "pause", "pending_review") \/ Defer(r) \/ Commit(r)
               \/ RecordFailure(r) \/ Throw(r)
    BY <2>1, <2>8 DEF Invalid, Diverted, Halt, Defer, Commit, RecordFailure, Throw
  <2> QED BY <1>3, <2>3, <2>4, <2>5, <2>6, <2>7, <2>8 DEF RunStep
<1>4. ASSUME NEW r \in Runs, Crash(r) PROVE RunsTyped'
  BY <1>2, <1>4 DEF Crash
<1>5. CASE HumanStep
  <2>1. ASSUME NEW i, NEW r \in Resumes, NEW o, Approve(i, r, o) PROVE RunsTyped'
    <3>1. r \in Runs /\ "resume" \in Phase
      BY DEF Runs, Phase
    <3> QED BY <1>1, <2>1, <3>1 DEF Approve
  <2>2. CASE UNCHANGED runVars
    BY <2>2 DEF runVars
  <2> QED BY <1>5, <2>1, <2>2
        DEF HumanStep, FixAddress, ClearKey, Reject, Reopen, Reprocess, RetryJob, DiscardJob
<1>6. CASE UNCHANGED runVars
  BY <1>6 DEF runVars
<1> QED BY <1>3, <1>4, <1>5, <1>6 DEF Next, Trigger, Lapse, Enqueue, vars

LEMMA NumbersStep == RunsTyped /\ NumbersTyped /\ RecordsTyped /\ [Next]_vars => NumbersTyped'
<1> SUFFICES ASSUME RunsTyped, NumbersTyped, RecordsTyped, [Next]_vars PROVE NumbersTyped'
  OBVIOUS
<1> USE DEF NumbersTyped, Fault, rowVars, courierVars, orderVars, worldVars, queueVars, runVars, history
<1>1. ASSUME NEW r \in Runs, NEW s, EndAs(r, s)
      PROVE mine' \in [Runs -> Nat] /\ waybill' \in [Runs -> Waybills]
  BY <1>1, WaybillTypes DEF EndAs, None
<1>2. ASSUME NEW r \in Runs, Return(r)
      PROVE mine' \in [Runs -> Nat] /\ waybill' \in [Runs -> Waybills] /\ tries' \in [Jobs -> Nat]
  BY <1>1, <1>2 DEF Return
<1>3. ASSUME NEW r \in Runs, Fail(r)
      PROVE mine' \in [Runs -> Nat] /\ waybill' \in [Runs -> Waybills] /\ tries' \in [Jobs -> Nat]
  <2>1. CASE r \in Jobs
    <3>1. tries' \in [Jobs -> Nat]
      BY <1>3, <2>1 DEF Fail
    <3> QED BY <1>1, <1>3, <2>1, <3>1 DEF Fail
  <2>2. CASE r \notin Jobs
    BY <1>1, <1>3, <2>2 DEF Fail
  <2> QED BY <2>1, <2>2
<1>4. key.waybill \in Waybills
  BY DEF RecordsTyped
<1>5. ASSUME NEW r \in Runs, RunStep(r) PROVE NumbersTyped'
  <2>1. CASE Take(r) \/ Normalize(r) \/ Validate(r) \/ Payload(r) \/ Assemble(r)
    BY <2>1 DEF Take, Normalize, Validate, Payload, Stage, Assemble
  <2>2. CASE Resume(r)
    BY <2>2, <1>2 DEF Resume
  <2>3. CASE Receive(r) \/ InsertRow(r)
    BY SMTT(30), <2>3 DEF Receive, InsertRow
  <2>4. CASE Invalid(r) \/ Diverted(r) \/ Halt(r, "reject", "rejected")
               \/ Halt(r, "pause", "pending_review") \/ Defer(r) \/ RecordFailure(r)
    BY <2>4, <1>2 DEF Invalid, Diverted, Halt, Defer, RecordFailure
  <2>5. CASE Divert(r) \/ Review(r) \/ Judge(r) \/ Approved(r)
    BY <2>5 DEF Divert, Review, Judge, Approved, Move
  <2>6. CASE Submit(r) \/ Rollback(r) \/ CallFails(r)
    BY <2>6 DEF Submit, Rollback, CallFails, Move
  <2>7. CASE Cached(r) \/ Ship(r)
    BY <2>7, <1>4, WaybillTypes DEF Cached, Ship
  <2>8. CASE Commit(r)
    BY <2>8, <1>2 DEF Commit
  <2>9. CASE Throw(r)
    BY <2>9, <1>3 DEF Throw
  <2> QED BY <1>5, <2>1, <2>2, <2>3, <2>4, <2>5, <2>6, <2>7, <2>8, <2>9 DEF RunStep
<1>6. ASSUME NEW r \in Runs, Crash(r) PROVE NumbersTyped'
  <2>1. mine' \in [Runs -> Nat] /\ waybill' \in [Runs -> Waybills]
    BY <1>1, <1>6 DEF Crash
  <2>2. shipments' \in Nat
    BY <1>6 DEF Crash
  <2> QED BY <1>6, <2>1, <2>2 DEF Crash
<1>7. CASE HumanStep
  <2>1. ASSUME NEW i, NEW r, NEW o, Approve(i, r, o) PROVE NumbersTyped'
    BY <2>1 DEF Approve, Act
  <2>2. CASE FixAddress \/ ClearKey
    BY <2>2 DEF FixAddress, ClearKey, Act
  <2>4. ASSUME NEW i, (\E o \in Overrides : Reject(i, o)) \/ Reopen(i) PROVE NumbersTyped'
    <3>1. Act /\ UNCHANGED <<row, rows, orderVars, courierVars, queueVars, runVars, faults>>
      BY <2>4 DEF Reject, Reopen
    <3> QED BY <3>1 DEF Act
  <2>3. ASSUME NEW j \in Jobs, Reprocess(j) \/ RetryJob(j) \/ DiscardJob(j) PROVE NumbersTyped'
    BY SMTT(30), <2>3 DEF Reprocess, RetryJob, DiscardJob, Act, None
  <2> QED BY <1>7, <2>1, <2>2, <2>3, <2>4 DEF HumanStep
<1>8. CASE Trigger \/ Lapse \/ \E j \in Jobs : Enqueue(j)
  BY <1>8 DEF Trigger, Lapse, Enqueue
<1>9. CASE UNCHANGED vars
  BY <1>9 DEF vars
<1> QED BY <1>5, <1>6, <1>7, <1>8, <1>9 DEF Next

LEMMA QueueStep == QueueTyped /\ [Next]_vars => QueueTyped'
<1> SUFFICES ASSUME QueueTyped, [Next]_vars PROVE QueueTyped'
  OBVIOUS
<1> USE DEF QueueTyped, queueVars
<1>1. ASSUME NEW r \in Runs, NEW s \in JobState, EndAs(r, s) PROVE QueueTyped'
  BY <1>1 DEF EndAs
<1>2. {"none", "waiting", "active", "completed", "failed"} \subseteq JobState
  BY DEF JobState
<1>3. ASSUME NEW r \in Runs, RunStep(r) PROVE QueueTyped'
  <2>1. CASE Return(r) \/ Fail(r)
    BY <1>1, <1>2, <2>1 DEF Return, Fail
  <2>2. CASE Take(r)
    BY <1>2, <2>2 DEF Take
  <2>3. CASE Resume(r)
    BY <2>1, <2>3 DEF Resume
  <2>4. CASE UNCHANGED queueVars
    BY <2>4
  <2> QED BY <1>3, <2>1, <2>2, <2>3, <2>4
        DEF RunStep, Receive, InsertRow, Normalize, Validate, Invalid, Assemble, Divert,
            Diverted, Payload, Stage, Review, Judge, Approved, Halt, Submit, Cached, Defer,
            Ship, CallFails, Commit, Rollback, RecordFailure, Throw, Move
<1>4. ASSUME NEW r \in Runs, Crash(r) PROVE QueueTyped'
  BY <1>1, <1>2, <1>4 DEF Crash
<1>5. CASE HumanStep
  <2>1. ASSUME NEW j \in Jobs, Reprocess(j) \/ RetryJob(j) \/ DiscardJob(j) PROVE QueueTyped'
    BY <1>2, <2>1 DEF Reprocess, RetryJob, DiscardJob
  <2>2. CASE UNCHANGED queueVars
    BY <2>2
  <2> QED BY <1>5, <2>1, <2>2
        DEF HumanStep, FixAddress, ClearKey, Reject, Reopen, Approve, runVars
<1>6. CASE Trigger
  BY <1>2, <1>6 DEF Trigger
<1>7. ASSUME NEW j \in Jobs, Enqueue(j) PROVE QueueTyped'
  BY <1>2, <1>7 DEF Enqueue
<1>8. CASE Lapse \/ UNCHANGED vars
  BY <1>8 DEF Lapse, vars
<1> QED BY <1>3, <1>4, <1>5, <1>6, <1>7, <1>8 DEF Next

\* A sequence keeps the type of its elements.
LEMMA SeqKeeps ==
  ASSUME NEW S, NEW s \in Seq(S), NEW e \in S
  PROVE  /\ Append(s, e) \in Seq(S) /\ <<e>> \in Seq(S) /\ <<>> \in Seq(S)
         /\ \A i \in DOMAIN s : s[i] \in S /\ [s EXCEPT ![i] = e] \in Seq(S)
<1>1. Append(s, e) \in Seq(S) /\ <<e>> \in Seq(S) /\ <<>> \in Seq(S)
  OBVIOUS
<1>2. ASSUME NEW i \in DOMAIN s PROVE s[i] \in S /\ [s EXCEPT ![i] = e] \in Seq(S)
  OBVIOUS
<1> QED BY <1>1, <1>2

LEMMA RecordsStep == NumbersTyped /\ RecordsTyped /\ [Next]_vars => RecordsTyped'
<1> SUFFICES ASSUME NumbersTyped, RecordsTyped, [Next]_vars PROVE RecordsTyped'
  OBVIOUS
<1> DEFINE E == [resolution : Resolution, overrides : BOOLEAN]
<1> USE DEF rowVars, courierVars, orderVars, worldVars, history
<1>1. {"pending", "processing", "completed", "failed", "pending_review", "rejected"} \subseteq Status
  BY DEF Status
<1>2. Unresolved \in E
  BY DEF Unresolved, Resolution, E
<1>3. ASSUME NEW r, NEW s \in Status, SetStatus(r, s) PROVE status' \in Status
  BY <1>3 DEF SetStatus, RecordsTyped
<1>a. evals \in Seq(E)
  BY DEF RecordsTyped
<1> HIDE DEF E
<1>4. ASSUME NEW i \in DOMAIN evals, NEW e \in E, evals' = [evals EXCEPT ![i] = e]
      PROVE evals' \in Seq(E)
  BY <1>4, <1>a, SeqKeeps
<1>5. ASSUME NEW i \in DOMAIN evals PROVE evals[i] \in E
  BY <1>2, <1>a, SeqKeeps
<1>6. key.waybill \in Waybills /\ order.row \in Nat
  BY DEF RecordsTyped
<1>b. <<>> \in Seq(E)
  BY <1>2, SeqKeeps, <1>a
<1>7. ASSUME NEW r \in Runs, RunStep(r) PROVE RecordsTyped'
  <2>1. CASE UNCHANGED <<evals, order, key, deferred>> /\ status' \in Status
    BY <2>1 DEF RecordsTyped
  <2>2. CASE Take(r) \/ Resume(r) \/ Receive(r) \/ Assemble(r) \/ Approved(r) \/ Cached(r)
             \/ Rollback(r)
    BY <2>2 DEF Take, Resume, Receive, Assemble, Approved, Cached, Rollback, RecordsTyped
  <2>3. CASE InsertRow(r)
    BY <1>1, <1>b, <2>3 DEF InsertRow, RecordsTyped, E
  <2>4. CASE Normalize(r) \/ Validate(r) \/ Payload(r) \/ Invalid(r)
    BY <1>1, <2>1, <2>4 DEF Normalize, Validate, Payload, Stage, Invalid
  <2>5. CASE Diverted(r) \/ Halt(r, "reject", "rejected") \/ Halt(r, "pause", "pending_review")
    BY <1>1, <1>3, <2>1, <2>5 DEF Diverted, Halt
  <2>6. CASE RecordFailure(r)
    <3>1. status' \in Status
      BY <1>1, <1>3, <2>6 DEF RecordFailure, RecordsTyped
    <3> QED BY <2>1, <2>6, <3>1 DEF RecordFailure
  <2>7. CASE Throw(r)
    <3>1. status' \in Status
      BY <1>1, <2>7 DEF Throw, RecordsTyped
    <3> QED BY <2>1, <2>7, <3>1 DEF Throw
  <2>8. CASE Divert(r)
    <3>1. mine[r] \in Nat /\ None \in Nat /\ "manual" \in Kind
      BY DEF NumbersTyped, None, Kind
    <3>2. order' \in [kind : Kind, row : Nat, waybill : Waybills]
      BY <2>8, <3>1, WaybillTypes DEF Divert, RecordsTyped
    <3> QED BY <2>8, <3>2 DEF Divert, RecordsTyped
  <2>9. CASE Review(r) \/ Judge(r)
    <3>1. evals' = evals \/ evals' = Append(evals, Unresolved)
      BY <2>9 DEF Review, Judge
    <3>2. evals' \in Seq(E)
      BY <1>2, <1>a, <3>1, SeqKeeps
    <3> QED BY <2>9, <3>2 DEF Review, Judge, RecordsTyped, E
  <2>10. CASE Submit(r)
    BY <2>10 DEF Submit, RecordsTyped, KeyState
  <2>11. CASE Defer(r)
    BY <2>11 DEF Defer, RecordsTyped
  <2>12. CASE Ship(r) \/ CallFails(r)
    <3>1. shipments + 1 \in Nat
      BY DEF NumbersTyped
    <3>2. key' \in [state : KeyState, waybill : Waybills]
      BY <2>12, <3>1, WaybillTypes DEF Ship, CallFails, SetKey, RecordsTyped, KeyState
    <3> QED BY <2>12, <3>2 DEF Ship, CallFails, RecordsTyped
  <2>13. CASE Commit(r)
    <3>1. mine[r] \in Nat /\ waybill[r] \in Waybills /\ "submitted" \in Kind
      BY DEF NumbersTyped, Kind
    <3>2. order' \in [kind : Kind, row : Nat, waybill : Waybills]
      BY <1>6, <2>13, <3>1 DEF Commit
    <3> QED BY <1>1, <2>13, <3>2 DEF Commit, RecordsTyped
  <2> QED BY <1>7, <2>2, <2>3, <2>4, <2>5, <2>6, <2>7, <2>8, <2>9, <2>10, <2>11, <2>12,
             <2>13 DEF RunStep
<1>8. ASSUME NEW r \in Runs, Crash(r) PROVE RecordsTyped'
  BY <1>8 DEF Crash, RecordsTyped
<1>9. CASE HumanStep
  <2>1. ASSUME NEW i \in DOMAIN evals, NEW rs \in Resolution, NEW o \in BOOLEAN,
               Resolve(i, rs, o)
        PROVE evals' \in Seq(E)
    <3>1. [resolution |-> rs, overrides |-> o] \in E
      BY DEF E
    <3> QED BY <1>4, <2>1, <3>1 DEF Resolve
  <2>2. {"open", "approved", "rejected"} \subseteq Resolution
    BY DEF Resolution
  <2>3. ASSUME NEW i \in DOMAIN evals, NEW r, NEW o \in Overrides, Approve(i, r, o)
        PROVE RecordsTyped'
    <3>1. o \in BOOLEAN
      BY PipelineAssumption
    <3> QED BY <1>1, <2>1, <2>2, <2>3, <3>1 DEF Approve, RecordsTyped, E
  <2>4. ASSUME NEW i \in DOMAIN evals, NEW o \in Overrides, Reject(i, o) PROVE RecordsTyped'
    BY <1>1, <2>1, <2>2, <2>4, PipelineAssumption DEF Reject, RecordsTyped, E
  <2>5. ASSUME NEW i \in DOMAIN evals, Reopen(i) PROVE RecordsTyped'
    <3>1. [evals[i] EXCEPT !.resolution = "open"] \in E
      BY <1>5, <2>2 DEF E
    <3>2. evals' \in Seq(E)
      BY <1>4, <2>5, <3>1 DEF Reopen
    <3> QED BY <1>1, <2>5, <3>2 DEF Reopen, RecordsTyped, E
  <2>6. CASE FixAddress
    <3>1. evals' \in Seq(E)
      <4>1. CASE Len(evals) = 0
        <5>1. [resolution |-> "approved", overrides |-> TRUE] \in E
          BY <2>2 DEF E
        <5> QED BY <1>a, <2>6, <4>1, <5>1, SeqKeeps DEF FixAddress
      <4>2. CASE Len(evals) # 0
        <5>1. Len(evals) \in DOMAIN evals
          BY <1>a, <4>2
        <5> DEFINE e == evals[Len(evals)]
                   new == [resolution |-> IF e.resolution = "open" THEN "approved"
                                          ELSE e.resolution, overrides |-> TRUE]
        <5>2. new \in E
          BY <1>5, <2>2, <5>1 DEF E
        <5>3. evals' = [evals EXCEPT ![Len(evals)] = new]
          BY <2>6, <4>2 DEF FixAddress
        <5> QED BY <1>4, <5>1, <5>2, <5>3
      <4> QED BY <4>1, <4>2
    <3> QED BY <2>6, <3>1 DEF FixAddress, RecordsTyped, E
  <2>7. CASE ClearKey
    BY <2>7, WaybillTypes DEF ClearKey, RecordsTyped, KeyState, None
  <2>8. ASSUME NEW j \in Jobs, Reprocess(j) PROVE RecordsTyped'
    <3>2. order' \in [kind : Kind, row : Nat, waybill : Waybills]
      BY <2>8, WaybillTypes DEF Reprocess, RecordsTyped, Kind, None
    <3> QED BY <1>1, <1>b, <2>8, <3>2 DEF Reprocess, RecordsTyped, E
  <2>9. ASSUME NEW j \in Jobs, RetryJob(j) \/ DiscardJob(j) PROVE RecordsTyped'
    BY <2>9 DEF RetryJob, DiscardJob, RecordsTyped
  <2> QED BY <1>9, <2>3, <2>4, <2>5, <2>6, <2>7, <2>8, <2>9 DEF HumanStep
<1>10. CASE Trigger \/ \E j \in Jobs : Enqueue(j)
  BY <1>10 DEF Trigger, Enqueue, RecordsTyped
<1>11. CASE Lapse
  BY <1>11 DEF Lapse, RecordsTyped, KeyState
<1>12. CASE UNCHANGED vars
  BY <1>12 DEF vars, RecordsTyped
<1> QED BY <1>7, <1>8, <1>9, <1>10, <1>11, <1>12 DEF Next

LEMMA TypeInit == Init => TypeOK
<1> SUFFICES ASSUME Init PROVE TypeOK
  OBVIOUS
<1>1. RunsTyped
  BY DEF Init, RunsTyped, Phase
<1>2. NumbersTyped
  BY WaybillTypes DEF Init, NumbersTyped, None
<1>3. QueueTyped
  BY DEF Init, QueueTyped, JobState
<1>4. RecordsTyped
  <2>1. <<>> \in Seq([resolution : Resolution, overrides : BOOLEAN])
    OBVIOUS
  <2>2. status \in Status /\ deferred \in BOOLEAN
    BY DEF Init, Status
  <2>3. order \in [kind : Kind, row : Nat, waybill : Waybills]
    BY WaybillTypes DEF Init, Kind, None
  <2>4. key \in [state : KeyState, waybill : Waybills]
    BY WaybillTypes DEF Init, KeyState, None
  <2> QED BY <2>1, <2>2, <2>3, <2>4 DEF Init, RecordsTyped
<1> QED BY <1>1, <1>2, <1>3, <1>4, TypeParts

LEMMA TypeStep == TypeOK /\ [Next]_vars => TypeOK'
<1>1. TypeOK' <=> RunsTyped' /\ NumbersTyped' /\ QueueTyped' /\ RecordsTyped'
  BY DEF TypeOK, RunsTyped, NumbersTyped, QueueTyped, RecordsTyped
<1> QED BY <1>1, TypeParts, RunsStep, NumbersStep, QueueStep, RecordsStep

\* Every variable keeps its type: a status is one the schema allows, a run is
\* always in a phase the handler has, whatever interleaves.
THEOREM TypeCorrect == Spec => []TypeOK
BY TypeInit, TypeStep, PTL DEF Spec

-----------------------------------------------------------------------------
(* What a step may do to the courier and to the order. *)

\* No run comes nearer to the courier, nor to the order with another waybill.
Recedes ==
  \A r \in Runs :
    /\ phase'[r] = "call" => phase[r] = "call"
    /\ phase'[r] = "commit" => phase[r] = "commit" /\ waybill'[r] = waybill[r]

\* The key, the shipments and a submitted order stay as they are.
Aside ==
  /\ Recedes
  /\ UNCHANGED courierVars
  /\ faults' \in {faults, faults + 1}
  /\ order'.kind = "submitted" => UNCHANGED orderVars

LEMMA EndRecedes ==
  ASSUME RunsTyped, NumbersTyped, NEW r \in Runs, NEW s, EndAs(r, s)
  PROVE  Recedes /\ phase'[r] = "idle"
BY DEF EndAs, Goto, Recedes, RunsTyped, NumbersTyped

LEMMA GotoRecedes ==
  ASSUME RunsTyped, NEW r \in Runs, NEW p \in Phase \ {"call", "commit"}, Goto(r, p),
         UNCHANGED waybill
  PROVE  Recedes
BY DEF Goto, Recedes, RunsTyped

\* Every step but these seven kinds stands aside.
LEMMA StepKinds ==
  ASSUME TypeOK, [Next]_vars
  PROVE  \/ Aside \/ ClearKey \/ Lapse
         \/ \E r \in Runs : \/ Submit(r) \/ Cached(r) \/ Ship(r) \/ CallFails(r)
                            \/ Commit(r) \/ Crash(r)
<1> USE DEF Fault, rowVars, courierVars, orderVars, worldVars, queueVars, runVars, history
<1>1. RunsTyped /\ NumbersTyped
  BY TypeParts
<1>2. ASSUME Recedes, UNCHANGED <<orderVars, courierVars>>, faults' \in {faults, faults + 1}
      PROVE Aside
  BY <1>2 DEF Aside
<1>3. ASSUME NEW r \in Runs, Return(r) \/ Fail(r) PROVE Recedes
  BY <1>1, <1>3, EndRecedes DEF Return, Fail
<1>5. ASSUME NEW r \in Runs, RunStep(r) PROVE Aside \/ Submit(r) \/ Cached(r) \/ Ship(r)
                                             \/ CallFails(r) \/ Commit(r)
  <2>1. CASE Resume(r) \/ Take(r)
    <3>1. \/ Return(r)
          \/ Goto(r, "receive") /\ UNCHANGED waybill
          \/ UNCHANGED <<phase, waybill>>
      BY <2>1 DEF Resume, Take
    <3>2. Recedes
      <4>1. CASE Goto(r, "receive") /\ UNCHANGED waybill
        BY <1>1, <4>1, GotoRecedes DEF Phase, Guarded
      <4>2. CASE UNCHANGED <<phase, waybill>>
        BY <4>2 DEF Recedes
      <4> QED BY <1>3, <3>1, <4>1, <4>2
    <3> QED BY <1>2, <2>1, <3>2 DEF Resume, Take
  <2>2. CASE Receive(r) \/ InsertRow(r)
    <3>1. \E p \in Phase \ {"call", "commit"} : Goto(r, p)
      BY <2>2 DEF Receive, InsertRow, Phase, Guarded
    <3>2. Recedes
      BY <1>1, <2>2, <3>1, GotoRecedes DEF Receive, InsertRow
    <3> QED BY <1>2, <2>2, <3>2 DEF Receive, InsertRow
  <2>3. CASE Normalize(r) \/ Validate(r) \/ Payload(r) \/ Assemble(r)
    <3>1. \E p \in Phase \ {"call", "commit"} : Goto(r, p)
      BY <2>3 DEF Normalize, Validate, Payload, Stage, Assemble, Phase, Guarded
    <3>2. Recedes
      BY <1>1, <2>3, <3>1, GotoRecedes DEF Normalize, Validate, Payload, Stage, Assemble
    <3> QED BY <1>2, <2>3, <3>2 DEF Normalize, Validate, Payload, Stage, Assemble
  <2>4. CASE Divert(r)
    <3>1. Recedes
      BY <1>1, <2>4, GotoRecedes DEF Divert, Move, Phase, Guarded
    <3>2. order'.kind = "submitted" => UNCHANGED orderVars
      BY <2>4, TypeParts DEF Divert, RecordsTyped
    <3> QED BY <2>4, <3>1, <3>2 DEF Divert, Aside
  <2>5. CASE Review(r) \/ Judge(r) \/ Approved(r) \/ Rollback(r)
    <3>1. \E p \in Phase \ {"call", "commit"} : Goto(r, p)
      BY <2>5 DEF Review, Judge, Approved, Rollback, Move, Phase, Guarded
    <3>2. Recedes
      BY <1>1, <2>5, <3>1, GotoRecedes DEF Review, Judge, Approved, Rollback, Move
    <3> QED BY <1>2, <2>5, <3>2 DEF Review, Judge, Approved, Rollback
  <2>6. CASE Invalid(r) \/ Diverted(r) \/ Halt(r, "reject", "rejected")
               \/ Halt(r, "pause", "pending_review") \/ Defer(r) \/ RecordFailure(r)
               \/ Throw(r)
    <3>1. Recedes
      BY <1>3, <2>6 DEF Invalid, Diverted, Halt, Defer, RecordFailure, Throw
    <3> QED BY <1>2, <2>6, <3>1 DEF Invalid, Diverted, Halt, Defer, RecordFailure, Throw
  <2> QED BY <1>5, <2>1, <2>2, <2>3, <2>4, <2>5, <2>6 DEF RunStep
<1>6. CASE HumanStep
  <2>1. ASSUME NEW i, NEW r \in Resumes, NEW o, Approve(i, r, o) PROVE Aside
    <3>1. r \in Runs
      BY DEF Runs
    <3>2. Recedes
      BY <1>1, <2>1, <3>1, GotoRecedes DEF Approve, Phase
    <3> QED BY <1>2, <2>1, <3>2 DEF Approve
  <2>2. ASSUME NEW j \in Jobs, Reprocess(j) PROVE Aside
    <3>1. Recedes
      BY <2>2 DEF Reprocess, Recedes
    <3>2. order'.kind = "submitted" => UNCHANGED orderVars
      BY <2>2 DEF Reprocess
    <3> QED BY <2>2, <3>1, <3>2 DEF Reprocess, Aside
  <2>3. CASE UNCHANGED <<runVars, orderVars, courierVars, faults>>
    <3>1. Recedes
      BY <2>3 DEF Recedes
    <3> QED BY <1>2, <2>3, <3>1
  <2> QED BY <1>6, <2>1, <2>2, <2>3
        DEF HumanStep, FixAddress, Reject, Reopen, RetryJob, DiscardJob
<1>7. CASE Trigger \/ (\E j \in Jobs : Enqueue(j)) \/ UNCHANGED vars
  <2>1. Recedes
    BY <1>7 DEF Trigger, Enqueue, Recedes, vars
  <2> QED BY <1>2, <1>7, <2>1 DEF Trigger, Enqueue, vars
<1> QED BY <1>5, <1>6, <1>7 DEF Next

-----------------------------------------------------------------------------
(* The waybill of the order. *)

WaybillInv ==
  /\ key.state = "done" => key.waybill \in (1..shipments) \cup {Null}
  /\ \A r \in Runs : phase[r] = "commit" => waybill[r] \in (1..shipments) \cup {Null}
  /\ OrderIsShipped

LEMMA WaybillStep == TypeOK /\ WaybillInv /\ [Next]_vars => WaybillInv'
<1> SUFFICES ASSUME TypeOK, WaybillInv, [Next]_vars PROVE WaybillInv'
  OBVIOUS
<1>1. RunsTyped /\ NumbersTyped /\ RecordsTyped
  BY TypeParts
<1>2. shipments \in Nat
  BY <1>1 DEF NumbersTyped
<1> DEFINE Keys == key.state = "done" => key.waybill \in (1..shipments) \cup {Null}
           Answers == \A r \in Runs : phase[r] = "commit" => waybill[r] \in (1..shipments) \cup {Null}
<1>3. Keys /\ Answers /\ OrderIsShipped
  BY DEF WaybillInv
<1>4. ASSUME Keys', Answers', OrderIsShipped' PROVE WaybillInv'
  BY <1>4 DEF WaybillInv
<1>5. ASSUME Recedes, shipments' \in {shipments, shipments + 1} PROVE Answers'
  BY <1>2, <1>3, <1>5 DEF Recedes
<1>6. ASSUME UNCHANGED orderVars, shipments' \in {shipments, shipments + 1}
      PROVE OrderIsShipped'
  BY <1>2, <1>3, <1>6 DEF OrderIsShipped, orderVars
<1> HIDE DEF Answers
<1>7. CASE Aside
  <2>1. Keys'
    BY <1>3, <1>7 DEF Aside, courierVars
  <2>2. OrderIsShipped'
    BY <1>3, <1>7 DEF Aside, OrderIsShipped, courierVars, orderVars
  <2>3. Answers'
    BY <1>5, <1>7 DEF Aside, courierVars
  <2> QED BY <1>4, <2>1, <2>2, <2>3
<1>8. CASE ClearKey \/ Lapse
  <2>1. Recedes /\ shipments' = shipments /\ UNCHANGED orderVars
    BY <1>8 DEF ClearKey, Lapse, runVars, Recedes
  <2>2. key'.state # "done"
    BY <1>1, <1>8 DEF ClearKey, Lapse, RecordsTyped
  <2> QED BY <1>4, <1>5, <1>6, <2>1, <2>2
<1>9. ASSUME NEW r \in Runs, Submit(r) \/ Crash(r) PROVE WaybillInv'
  <2>2. Answers'
    <3>1. CASE Submit(r)
      BY <1>1, <1>3, <3>1 DEF Submit, Move, Goto, RunsTyped, Answers
    <3>2. CASE Crash(r)
      <4>1. shipments' \in {shipments, shipments + 1}
        BY <3>2 DEF Crash
      <4>2. Recedes
        BY <1>1, <3>2, EndRecedes DEF Crash
      <4> QED BY <1>5, <4>1, <4>2
    <3> QED BY <1>9, <3>1, <3>2
  <2>3. shipments' \in {shipments, shipments + 1} /\ UNCHANGED orderVars
    BY <1>9 DEF Submit, Crash
  <2>4. Keys'
    BY <1>1, <1>2, <1>3, <1>9, <2>3 DEF Submit, Crash, RecordsTyped
  <2> QED BY <1>4, <1>6, <2>2, <2>3, <2>4
<1>10. ASSUME NEW r \in Runs, Cached(r) PROVE WaybillInv'
  <2>1. Answers'
    BY <1>1, <1>3, <1>10
       DEF Cached, Goto, RunsTyped, NumbersTyped, worldVars, courierVars, Answers
  <2> QED BY <1>3, <1>4, <1>6, <1>10, <2>1 DEF Cached, worldVars, courierVars
<1>11. ASSUME NEW r \in Runs, Ship(r) PROVE WaybillInv'
  <2>1. Keys'
    BY <1>1, <1>2, <1>3, <1>11 DEF Ship, SetKey, RecordsTyped
  <2>2. Answers'
    BY <1>1, <1>2, <1>3, <1>11 DEF Ship, Goto, RunsTyped, NumbersTyped, Answers
  <2> QED BY <1>4, <1>6, <1>11, <2>1, <2>2 DEF Ship
<1>12. ASSUME NEW r \in Runs, CallFails(r) PROVE WaybillInv'
  <2>1. shipments' \in {shipments, shipments + 1} /\ UNCHANGED orderVars
    BY <1>12 DEF CallFails
  <2>2. Keys'
    BY <1>1, <1>2, <1>3, <1>12, <2>1 DEF CallFails, SetKey, RecordsTyped
  <2>3. Recedes
    BY <1>1, <1>12, GotoRecedes DEF CallFails, Move, Phase
  <2> QED BY <1>4, <1>5, <1>6, <2>1, <2>2, <2>3
<1>13. ASSUME NEW r \in Runs, Commit(r) PROVE WaybillInv'
  <2>1. Recedes
    BY <1>1, <1>13, EndRecedes DEF Commit, Return
  <2>2. waybill[r] \in (1..shipments) \cup {Null}
    BY <1>3, <1>13 DEF Commit, At, Answers
  <2>3. OrderIsShipped'
    BY <1>13, <2>2 DEF Commit, OrderIsShipped, courierVars
  <2> QED BY <1>3, <1>4, <1>5, <1>13, <2>1, <2>3 DEF Commit, courierVars
<1> QED BY <1>7, <1>8, <1>9, <1>10, <1>11, <1>12, <1>13, StepKinds

\* Whatever overlaps, a submitted order carries the waybill of a shipment the
\* courier made, the one the customer was told.
THEOREM OrderIsShippedHolds == Spec => []OrderIsShipped
<1>1. Init => WaybillInv
  BY DEF Init, WaybillInv, OrderIsShipped
<1>2. WaybillInv => OrderIsShipped
  BY DEF WaybillInv
<1> QED BY <1>1, <1>2, WaybillStep, TypeCorrect, PTL DEF Spec

-----------------------------------------------------------------------------
(* The shipment budget.  The shipments made, those that may come of the calls *)
(* in flight, and the one the key still allows are never more than what the   *)
(* faults and the operators have paid for.                                    *)

Callers == {r \in Runs : phase[r] = "call"}
Calls == Cardinality(Callers)

\* The key lets a run through now, or will once its claim is found stale.
Owed == \/ key.state \in {"absent", "failed"}
        \/ key.state = "busy" /\ Callers = {}
One(b) == IF b THEN 1 ELSE 0

Accounting == shipments + Calls + One(Owed) <= 1 + faults + cleared

LEMMA CallersFinite == IsFiniteSet(Callers) /\ Calls \in Nat
<1>1. IsFiniteSet(Runs)
  BY PipelineAssumption, FS_Union DEF Runs
<1>2. Callers \in SUBSET Runs
  BY DEF Callers
<1> QED BY <1>1, <1>2, FS_Subset, FS_CardinalityType DEF Calls

LEMMA CallersFinite2 == IsFiniteSet(Callers') /\ Calls' \in Nat
<1>1. IsFiniteSet(Runs)
  BY PipelineAssumption, FS_Union DEF Runs
<1>2. Callers' \in SUBSET Runs
  BY DEF Callers
<1> QED BY <1>1, <1>2, FS_Subset, FS_CardinalityType DEF Calls

\* A run that leaves the call is one caller less.
LEMMA CallerLeaves ==
  ASSUME RunsTyped, NEW r \in Runs, NEW p \in Phase \ {"call"}, Goto(r, p), At(r, "call")
  PROVE  Calls' = Calls - 1 /\ Callers # {}
<1>1. Callers' = Callers \ {r} /\ r \in Callers
  BY DEF Callers, Goto, At, RunsTyped
<1> QED BY <1>1, CallersFinite, FS_RemoveElement DEF Calls

LEMMA AccountingStep == TypeOK /\ Accounting /\ [Next]_vars => Accounting'
<1> SUFFICES ASSUME TypeOK, Accounting, [Next]_vars PROVE Accounting'
  OBVIOUS
<1>1. RunsTyped /\ NumbersTyped /\ RecordsTyped
  BY TypeParts
<1>2. /\ shipments \in Nat /\ faults \in Nat /\ cleared \in Nat
      /\ Calls \in Nat /\ Calls' \in Nat
      /\ One(Owed) \in {0, 1} /\ One(Owed)' \in {0, 1}
  BY <1>1, CallersFinite, CallersFinite2 DEF NumbersTyped, One
\* A step that makes no caller and leaves key and courier alone.
<1>3. ASSUME Recedes, UNCHANGED courierVars PROVE Calls' + One(Owed)' <= Calls + One(Owed)
  <2>1. Callers' \in SUBSET Callers
    BY <1>3 DEF Recedes, Callers
  <2>2. CASE Callers' = Callers
    <3>1. Calls' = Calls
      BY <2>2 DEF Calls
    <3>2. Owed' <=> Owed
      BY <1>3, <2>2 DEF Owed, courierVars
    <3> QED BY <1>2, <3>1, <3>2 DEF One
  <2>3. CASE Callers' # Callers
    <3>1. Calls' < Calls
      BY <1>2, <2>1, <2>3, CallersFinite, FS_Subset DEF Calls
    <3> QED BY <1>2, <3>1
  <2> QED BY <2>2, <2>3
<1>4. CASE Aside
  <2>1. shipments' = shipments /\ cleared' = cleared /\ faults' \in {faults, faults + 1}
    BY <1>4 DEF Aside, courierVars
  <2>2. Calls' + One(Owed)' <= Calls + One(Owed)
    BY <1>3, <1>4 DEF Aside
  <2> QED BY <1>2, <2>1, <2>2 DEF Accounting
<1>5. CASE ClearKey
  <2>1. shipments' = shipments /\ cleared' = cleared + 1 /\ faults' = faults
        /\ Callers' = Callers
    BY <1>5 DEF ClearKey, runVars, Callers
  <2>2. Calls' = Calls
    BY <2>1 DEF Calls
  <2> QED BY <1>2, <2>1, <2>2 DEF Accounting
<1>6. CASE Lapse
  <2>1. shipments' = shipments /\ cleared' = cleared /\ faults' = faults
        /\ Callers' = Callers
    BY <1>6 DEF Lapse, runVars, history, Callers
  <2>2. Calls' = Calls
    BY <2>1 DEF Calls
  <2>3. Owed
    BY <1>6 DEF Lapse, Owed, Callers, At
  <2> QED BY <1>2, <2>1, <2>2, <2>3 DEF Accounting, One
<1>7. ASSUME NEW r \in Runs, Submit(r) PROVE Accounting'
  <2>1. Callers' = Callers \cup {r} /\ r \notin Callers
    BY <1>1, <1>7 DEF Submit, Move, Goto, At, Callers, RunsTyped
  <2>2. Calls' = Calls + 1
    BY <2>1, CallersFinite, FS_AddElement DEF Calls
  <2>3. Owed
    BY <1>7 DEF Submit, Owed
  <2>4. ~Owed'
    BY <1>1, <1>7, <2>1 DEF Submit, Owed, RecordsTyped
  <2>5. shipments' = shipments /\ cleared' = cleared /\ faults' = faults
    BY <1>7 DEF Submit, history
  <2>6. One(Owed) = 1 /\ One(Owed)' = 0
    BY <2>3, <2>4 DEF One
  <2> QED BY <1>2, <2>2, <2>5, <2>6 DEF Accounting
<1>8. ASSUME NEW r \in Runs, Cached(r) PROVE Accounting'
  <2>1. Callers' = Callers
    BY <1>1, <1>8 DEF Cached, Goto, At, Callers, RunsTyped
  <2>2. Calls' = Calls
    BY <2>1 DEF Calls
  <2>3. UNCHANGED <<key, shipments, cleared, faults>>
    BY <1>8 DEF Cached, worldVars, courierVars, history
  <2>4. Owed' <=> Owed
    BY <2>1, <2>3 DEF Owed
  <2> QED BY <1>2, <2>2, <2>3, <2>4 DEF Accounting, One
<1>9. ASSUME NEW r \in Runs, Ship(r) PROVE Accounting'
  <2>1. Calls' = Calls - 1
    BY <1>1, <1>9, CallerLeaves DEF Ship, Phase
  <2>2. shipments' \in {shipments, shipments + 1} /\ cleared' = cleared /\ faults' = faults
    BY <1>9 DEF Ship, history
  <2>3. Owed' => Owed
    BY <1>9 DEF Ship, SetKey, Owed
  <2>4. One(Owed)' <= One(Owed)
    BY <1>2, <2>3 DEF One
  <2> QED BY <1>2, <2>1, <2>2, <2>4 DEF Accounting
<1>10. ASSUME NEW r \in Runs, CallFails(r) PROVE Accounting'
  <2>1. Calls' = Calls - 1
    BY <1>1, <1>10, CallerLeaves DEF CallFails, Move, Phase
  <2>2. \/ shipments' = shipments /\ faults' = faults
        \/ shipments' \in {shipments, shipments + 1} /\ faults' = faults + 1
    BY <1>10 DEF CallFails, Fault
  <2>3. cleared' = cleared
    BY <1>10 DEF CallFails
  <2> QED BY <1>2, <2>1, <2>2, <2>3 DEF Accounting
<1>11. ASSUME NEW r \in Runs, Commit(r) PROVE Accounting'
  <2>1. Recedes
    BY <1>1, <1>11, EndRecedes DEF Commit, Return
  <2>2. UNCHANGED courierVars /\ faults' = faults
    BY <1>11 DEF Commit, history
  <2>3. Calls' + One(Owed)' <= Calls + One(Owed)
    BY <1>3, <2>1, <2>2
  <2> QED BY <1>2, <2>2, <2>3 DEF Accounting, courierVars
<1>12. ASSUME NEW r \in Runs, Crash(r) PROVE Accounting'
  <2>1. cleared' = cleared /\ faults' = faults + 1 /\ key' = key
    BY <1>12 DEF Crash, Fault
  <2>2. CASE At(r, "call")
    <3>1. Calls' = Calls - 1
      BY <1>1, <1>12, <2>2, CallerLeaves DEF Crash, EndAs, Phase
    <3>2. shipments' \in {shipments, shipments + 1}
      BY <1>12, <2>2 DEF Crash
    <3> QED BY <1>2, <2>1, <3>1, <3>2 DEF Accounting
  <2>3. CASE ~At(r, "call")
    <3>1. shipments' = shipments
      BY <1>12, <2>3 DEF Crash
    <3>2. Recedes
      BY <1>1, <1>12, EndRecedes DEF Crash
    <3>3. Calls' + One(Owed)' <= Calls + One(Owed)
      BY <1>3, <2>1, <3>1, <3>2 DEF courierVars
    <3> QED BY <1>2, <2>1, <3>1, <3>3 DEF Accounting
  <2> QED BY <2>2, <2>3
<1> QED BY <1>4, <1>5, <1>6, <1>7, <1>8, <1>9, <1>10, <1>11, <1>12, StepKinds

\* However many runs, retries, approvals and reprocesses overlap, the courier
\* makes one shipment, and one more for each fault and each cleared key.
THEOREM ShipmentBudgetHolds == Spec => []ShipmentBudget
<1>1. Init => Accounting
  <2> SUFFICES ASSUME Init PROVE Accounting
    OBVIOUS
  <2>1. Callers = {}
    BY DEF Init, Callers
  <2>2. Calls = 0
    BY <2>1, FS_EmptySet DEF Calls
  <2> QED BY <2>2 DEF Init, Accounting, One
<1>2. TypeOK /\ Accounting => ShipmentBudget
  <2> SUFFICES ASSUME TypeOK, Accounting PROVE ShipmentBudget
    OBVIOUS
  <2>1. /\ shipments \in Nat /\ faults \in Nat /\ cleared \in Nat /\ Calls \in Nat
        /\ One(Owed) \in {0, 1}
    BY TypeParts, CallersFinite DEF NumbersTyped, One
  <2> QED BY <2>1 DEF Accounting, ShipmentBudget
<1> QED BY <1>1, <1>2, AccountingStep, TypeCorrect, PTL DEF Spec

-----------------------------------------------------------------------------
(* What becomes of an order. *)

\* The phases after the payload, which has completed the job.
Late == {"review", "judge", "approve", "reject", "pause", "submit", "call", "commit",
         "unsubmitted"}

\* A run that will still give the row its order, or take it out of completed.
Finisher(r) == Alive(r) /\ phase[r] \in Late

\* A BullMQ job runs once at a time.
QueueInv ==
  \A j \in Jobs :
    /\ phase[j] # "idle" => queue[j] = "active"
    /\ j \in toEnqueue => j # FirstJob /\ queue[j] = "none"

\* Rows are never made twice.
RowsInv == row <= rows /\ \A r \in Runs : mine[r] <= rows

DivertedInv == \A r \in Runs : At(r, "diverted") /\ Alive(r) => order.kind # "none"

FinishInv ==
  row # None /\ status = "completed" /\ ~deferred /\ faults = 0 =>
    order.kind # "none" \/ \E r \in Runs : Finisher(r)

FateInv == QueueInv /\ RowsInv /\ DivertedInv /\ FinishInv

\* A step of one run, or of a human who starts it.
OneRun(r) ==
  /\ phase' \in [Runs -> Phase] /\ mine' \in [Runs -> Nat]
  /\ \A q \in Runs \ {r} : phase'[q] = phase[q] /\ mine'[q] = mine[q]

LEMMA GotoOne ==
  ASSUME TypeOK, NEW r \in Runs, NEW p \in Phase, Goto(r, p)
  PROVE  /\ phase'[r] = p /\ phase' \in [Runs -> Phase]
         /\ \A q \in Runs \ {r} : phase'[q] = phase[q]
         /\ mine' = mine => OneRun(r) /\ mine'[r] = mine[r]
  BY DEF TypeOK, Goto, OneRun

LEMMA EndOne ==
  ASSUME TypeOK, NEW r \in Runs, NEW s, EndAs(r, s)
  PROVE  OneRun(r) /\ phase'[r] = "idle" /\ mine'[r] = None /\ toEnqueue' = toEnqueue
         /\ \A j \in Jobs \ {r} : queue'[j] = queue[j]
  BY DEF TypeOK, Goto, EndAs, OneRun, Phase, None

LEMMA ReturnOne ==
  ASSUME TypeOK, NEW r \in Runs, Return(r) \/ Fail(r)
  PROVE  OneRun(r) /\ phase'[r] = "idle" /\ mine'[r] = None /\ toEnqueue' = toEnqueue
         /\ \A j \in Jobs \ {r} : queue'[j] = queue[j]
  BY EndOne DEF Return, Fail

\* What such a step must show, when it makes no row and deletes none.
LEMMA FateStays ==
  ASSUME TypeOK, FateInv, NEW r \in Runs, OneRun(r),
         UNCHANGED <<row, rows, toEnqueue>>,
         mine'[r] \in {mine[r], row, None},
         order.kind # "none" => order'.kind # "none",
         deferred => deferred', faults' \in {faults, faults + 1},
         \A j \in Jobs \ {r} : queue'[j] = queue[j],
         r \in Jobs => \/ phase'[r] = "idle" /\ phase[r] # "idle"
                       \/ queue'[r] = "active" /\ queue[r] # "none"
                       \/ UNCHANGED queue /\ (phase'[r] # "idle" => phase[r] # "idle"),
         phase'[r] = "diverted" /\ Alive(r)' => order'.kind # "none",
         row # None /\ status' = "completed" /\ ~deferred' /\ faults' = 0 =>
           order'.kind # "none" \/ Finisher(r)' \/ (status = "completed" /\ ~Finisher(r))
  PROVE  FateInv'
<1>1. row \in Nat /\ rows \in Nat /\ faults \in Nat /\ mine \in [Runs -> Nat] /\ phase \in [Runs -> Phase]
  BY DEF TypeOK
<1>2. \A q \in Runs \ {r} : (Alive(q)' <=> Alive(q)) /\ (Finisher(q)' <=> Finisher(q))
  BY DEF OneRun, Alive, Finisher
<1>3. QueueInv'
  <2>1. ASSUME NEW j \in Jobs, j # r
        PROVE  /\ phase'[j] # "idle" => queue'[j] = "active"
               /\ j \in toEnqueue' => j # FirstJob /\ queue'[j] = "none"
    BY <2>1 DEF FateInv, QueueInv, OneRun, Runs
  <2>2. ASSUME r \in Jobs
        PROVE  /\ phase'[r] # "idle" => queue'[r] = "active"
               /\ r \in toEnqueue' => r # FirstJob /\ queue'[r] = "none"
    BY <2>2 DEF FateInv, QueueInv
  <2> QED BY <2>1, <2>2 DEF QueueInv
<1>4. RowsInv'
  BY <1>1 DEF FateInv, RowsInv, OneRun, None
<1>5. DivertedInv'
  BY <1>2 DEF FateInv, DivertedInv, OneRun, At
<1>6. FinishInv'
  <2> SUFFICES ASSUME row # None, status' = "completed", ~deferred', faults' = 0, order'.kind = "none",
                      ~Finisher(r)'
               PROVE  \E q \in Runs : Finisher(q)'
    BY DEF FinishInv
  <2>1. status = "completed" /\ ~Finisher(r) /\ order.kind = "none" /\ ~deferred /\ faults = 0
    BY <1>1
  <2>2. PICK q \in Runs : Finisher(q)
    BY <2>1 DEF FateInv, FinishInv
  <2> QED BY <1>2, <2>1, <2>2
<1> QED BY <1>3, <1>4, <1>5, <1>6 DEF FateInv

LEMMA RunFate ==
  ASSUME TypeOK, FateInv, NEW r \in Runs, RunStep(r)
  PROVE  FateInv'
<1> USE DEF None
<1>0. /\ row \in Nat /\ rows \in Nat /\ faults \in Nat /\ mine \in [Runs -> Nat] /\ phase \in [Runs -> Phase]
      /\ queue \in [Jobs -> JobState] /\ order \in [kind : Kind, row : Nat, waybill : Waybills]
  BY DEF TypeOK
<1>9. r \in Jobs => /\ phase[r] # "idle" => queue[r] = "active"
                    /\ r \in toEnqueue => queue[r] = "none"
  BY DEF FateInv, QueueInv
<1>1. CASE Take(r)
  <2>1. phase[r] = "idle"
    BY <1>1, <1>9 DEF Take
  <2>2. CASE Runnable
    <3>1. Goto(r, "receive") /\ mine' = mine /\ queue' = [queue EXCEPT ![r] = "active"]
      BY <1>1, <2>2 DEF Take
    <3>2. OneRun(r) /\ phase'[r] = "receive" /\ mine'[r] = mine[r]
      BY <3>1, GotoOne DEF Phase, Guarded
    <3>3. ~Finisher(r) /\ queue[r] = "waiting" /\ queue'[r] = "active" /\ \A j \in Jobs \ {r} : queue'[j] = queue[j]
      BY <1>0, <1>1, <2>1, <3>1 DEF Take, Finisher, Late
    <3> QED BY <1>1, <3>2, <3>3, FateStays DEF Take, rowVars, worldVars, orderVars, history
  <2>3. CASE ~Runnable
    <3>1. UNCHANGED <<phase, mine>> /\ queue' = [queue EXCEPT ![r] = "completed"] /\ toEnqueue' = toEnqueue
      BY <1>1, <2>3 DEF Take
    <3>2. QueueInv'
      BY <1>0, <1>1, <2>1, <3>1, <1>9 DEF FateInv, QueueInv, Take
    <3>3. (RowsInv /\ DivertedInv /\ FinishInv)'
      BY <1>1, <3>1 DEF FateInv, RowsInv, DivertedInv, FinishInv, Finisher, Alive, At, Take,
                        rowVars,
                        worldVars, orderVars, history
    <3> QED BY <3>2, <3>3 DEF FateInv
  <2> QED BY <2>2, <2>3
<1>2. CASE Resume(r)
  <2>1. CASE Runnable
    <3>1. OneRun(r) /\ phase'[r] = "receive" /\ mine'[r] = mine[r] /\ queueVars' = queueVars
      BY <1>2, <2>1, GotoOne DEF Resume, Phase, Guarded
    <3> QED BY <1>2, <3>1, <1>9, FateStays DEF Resume, At, Finisher, Late, rowVars, worldVars,
                                               orderVars, history,
                                        queueVars
  <2>2. CASE ~Runnable
    <3>1. Return(r) /\ phase[r] = "resume"
      BY <1>2, <2>2 DEF Resume, At
    <3> QED BY <1>2, <3>1, ReturnOne, FateStays DEF Resume, Finisher, Late, rowVars, worldVars,
                                                    orderVars, history
  <2> QED BY <2>1, <2>2
<1>3. CASE Receive(r)
  <2>1. /\ phase[r] = "receive" /\ phase'[r] \in {"normalize", "insert"}
        /\ OneRun(r) /\ mine'[r] \in {mine[r], row}
    BY <1>0, <1>3 DEF Receive, At, Goto, OneRun, Phase, Guarded
  <2> QED BY <1>3, <2>1, <1>9, FateStays DEF Receive, Finisher, Late, rowVars, worldVars,
                                             orderVars, history, queueVars
<1>4. CASE InsertRow(r)
  <2>1. /\ phase[r] = "insert" /\ phase'[r] = "normalize" /\ row = 0 /\ row' = rows + 1 /\ rows' = rows + 1
        /\ mine'[r] = rows + 1 /\ \A q \in Runs \ {r} : phase'[q] = phase[q] /\ mine'[q] = mine[q]
        /\ status' = "processing" /\ UNCHANGED <<queue, toEnqueue>>
    BY <1>0, <1>4 DEF InsertRow, At, Goto, queueVars
  <2>2. QueueInv'
    BY <2>1, <1>9 DEF FateInv, QueueInv, Runs
  <2>3. RowsInv'
    BY <1>0, <2>1 DEF FateInv, RowsInv
  <2>4. \A q \in Runs \ {r} : ~Alive(q)'
    BY <1>0, <2>1 DEF FateInv, RowsInv, Alive
  <2>5. DivertedInv' /\ FinishInv'
    BY <2>1, <2>4 DEF DivertedInv, FinishInv, At
  <2> QED BY <2>2, <2>3, <2>5 DEF FateInv
<1>5. CASE Normalize(r) \/ Validate(r) \/ Payload(r)
  <2>1. /\ Alive(r) /\ phase[r] \in {"normalize", "validate", "route"} /\ UNCHANGED <<row, mine>>
        /\ \/ status' = "processing" /\ phase'[r] \in {"validate", "assemble"}
           \/ status' = "completed" /\ phase'[r] = "review"
        /\ OneRun(r)
    BY <1>0, <1>5 DEF Normalize, Validate, Payload, Stage, At, Goto, OneRun, Phase, Guarded
  <2>2. status' = "completed" => Finisher(r)'
    BY <2>1 DEF Finisher, Alive, Late
  <2> QED BY <1>5, <2>1, <2>2, <1>9, FateStays DEF Normalize, Validate, Payload, Stage,
                                                   worldVars, orderVars, history,
                                            queueVars
<1>6. CASE Invalid(r) \/ Diverted(r) \/ Halt(r, "reject", "rejected") \/ Halt(r, "pause", "pending_review")
           \/ Defer(r) \/ RecordFailure(r) \/ Throw(r) \/ Commit(r)
  <2>1. /\ Return(r) \/ Fail(r)
        /\ phase[r] # "idle" /\ UNCHANGED <<row, rows>>
        /\ order.kind # "none" => order'.kind # "none"
        /\ deferred => deferred'
    BY <1>6 DEF Invalid, Diverted, Halt, Defer, RecordFailure, Throw, Commit, At, Guarded,
                worldVars, orderVars, rowVars,
                history
  <2>2. faults' \in {faults, faults + 1}
    BY <1>6 DEF Invalid, Diverted, Halt, Defer, RecordFailure, Throw, Commit, Fault, history
  <2>3. row # None /\ status' = "completed" /\ ~deferred' /\ faults' = 0 =>
           order'.kind # "none" \/ (status = "completed" /\ ~Finisher(r))
    <3>1. CASE Invalid(r)  BY <3>1 DEF Invalid
    <3>2. CASE Diverted(r)
      BY <3>2 DEF Diverted, SetStatus, FateInv, DivertedInv, worldVars, orderVars, Finisher
    <3>3. CASE Halt(r, "reject", "rejected") \/ Halt(r, "pause", "pending_review")
      BY <3>3 DEF Halt, SetStatus, Finisher
    <3>4. CASE Defer(r)  BY <3>4 DEF Defer
    <3>5. CASE RecordFailure(r)
      BY <1>0, <3>5 DEF RecordFailure, SetStatus, Fault, Finisher
    <3>6. CASE Throw(r)  BY <1>0, <3>6 DEF Throw, Fault
    <3>7. CASE Commit(r)  BY <3>7 DEF Commit
    <3> QED BY <1>6, <3>1, <3>2, <3>3, <3>4, <3>5, <3>6, <3>7
  <2>4. OneRun(r) /\ phase'[r] = "idle" /\ mine'[r] = None /\ toEnqueue' = toEnqueue
        /\ \A j \in Jobs \ {r} : queue'[j] = queue[j]
    BY <2>1, ReturnOne
  <2> QED BY <2>1, <2>2, <2>3, <2>4, FateStays
<1>7. CASE Divert(r)
  <2>1. phase[r] = "route" /\ phase'[r] = "diverted" /\ OneRun(r) /\ order'.kind # "none" /\ mine' = mine
    BY <1>0, <1>7 DEF Divert, Move, At, Goto, OneRun, Phase, Guarded
  <2> QED BY <1>7, <2>1, <1>9, FateStays DEF Divert, Move, rowVars, history, queueVars
<1>8. CASE Assemble(r) \/ Review(r) \/ Judge(r) \/ Approved(r) \/ Submit(r) \/ Cached(r) \/ Ship(r)
           \/ CallFails(r) \/ Rollback(r)
  <2>1. /\ \/ phase[r] = "assemble" /\ phase'[r] = "route"
           \/ phase[r] \in Late /\ phase'[r] \in Late
        /\ OneRun(r)
    <3>1. PICK p \in Phase : /\ Goto(r, p)
                             /\ \/ phase[r] = "assemble" /\ p = "route"
                                \/ phase[r] \in Late /\ p \in Late
      <4>1. CASE Assemble(r) \/ Review(r) \/ Judge(r) \/ Approved(r)
        BY <4>1 DEF Assemble, Review, Judge, Approved, Move, At, Phase, Guarded, Late
      <4>2. CASE Submit(r) \/ Cached(r) \/ Ship(r) \/ CallFails(r) \/ Rollback(r)
        BY <4>2 DEF Submit, Cached, Ship, CallFails, Rollback, Move, At, Phase, Guarded, Late
      <4> QED BY <1>8, <4>1, <4>2
    <3>2. mine' = mine
      BY <1>8 DEF Assemble, Review, Judge, Approved, Submit, Cached, Ship, CallFails, Rollback, Move
    <3> QED BY <3>1, <3>2, GotoOne
  <2>2. /\ UNCHANGED <<row, rows, status, order, mine, queue, toEnqueue, deferred>>
        /\ faults' \in {faults, faults + 1}
    BY <1>8 DEF Assemble, Review, Judge, Approved, Submit, Cached, Ship, CallFails, Rollback,
                Move, Fault, rowVars,
                worldVars, orderVars, queueVars, history
  <2>3. phase'[r] # "diverted" /\ phase[r] # "idle"
    BY <2>1 DEF Late
  <2>4. Finisher(r) => Finisher(r)'
    BY <2>1, <2>2 DEF Finisher, Alive, Late
  <2> QED BY <2>1, <2>2, <2>3, <2>4, FateStays
<1> QED BY <1>1, <1>2, <1>3, <1>4, <1>5, <1>6, <1>7, <1>8 DEF RunStep

LEMMA OtherFate ==
  ASSUME TypeOK, FateInv, [Next]_vars, ~\E r \in Runs : RunStep(r)
  PROVE  FateInv'
<1> USE DEF None
<1>0. /\ row \in Nat /\ rows \in Nat /\ faults \in Nat /\ mine \in [Runs -> Nat] /\ phase \in [Runs -> Phase]
      /\ queue \in [Jobs -> JobState] /\ toEnqueue \in SUBSET Jobs
  BY DEF TypeOK
\* Nothing of what FinishInv is about changes.
<1> DEFINE Same == /\ UNCHANGED <<row, rows, phase, mine, order, deferred>>
                   /\ status' \in {status, "processing", "rejected", "pending_review"}
                   /\ faults' \in {faults, faults + 1}
<1>1. ASSUME Same, QueueInv' PROVE FateInv'
  <2>1. RowsInv' /\ DivertedInv'
    BY <1>1 DEF FateInv, RowsInv, DivertedInv, At, Alive
  <2>2. FinishInv'
    BY <1>0, <1>1 DEF FateInv, FinishInv, Finisher, Alive
  <2> QED BY <1>1, <2>1, <2>2 DEF FateInv
<1>2. CASE Lapse \/ FixAddress \/ ClearKey \/ UNCHANGED vars \/ (\E i \in DOMAIN evals :
           Reopen(i) \/ \E overrides \in Overrides : Reject(i, overrides))
  <2>1. Same /\ UNCHANGED <<queue, toEnqueue>>
    BY <1>2 DEF Lapse, FixAddress, ClearKey, vars, Reject, Reopen, rowVars, worldVars, orderVars,
                runVars, queueVars,
                history
  <2>2. QueueInv'
    BY <2>1 DEF FateInv, QueueInv
  <2> QED BY <1>1, <2>1, <2>2
<1>3. ASSUME NEW j \in Jobs, RetryJob(j) \/ DiscardJob(j) \/ Enqueue(j) \/ (j = FirstJob /\ Trigger)
      PROVE  FateInv'
  <2>1. Same
    BY <1>0, <1>3 DEF RetryJob, DiscardJob, Enqueue, Trigger, Fault, rowVars, worldVars,
                      orderVars, runVars, history
  <2>2. /\ toEnqueue' \subseteq toEnqueue /\ queue[j] \in {"none", "failed", "waiting"}
        /\ \A k \in Jobs \ {j} : queue'[k] = queue[k]
        /\ j \in toEnqueue' => j # FirstJob /\ queue'[j] = "none"
    BY <1>0, <1>3 DEF FateInv, QueueInv, RetryJob, DiscardJob, Enqueue, Trigger
  <2>3. QueueInv'
    BY <2>1, <2>2 DEF FateInv, QueueInv
  <2> QED BY <1>1, <2>1, <2>3
<1>4. ASSUME NEW i \in DOMAIN evals, NEW r \in Resumes, NEW overrides, Approve(i, r, overrides)
      PROVE  FateInv'
  <2>1. r \in Runs /\ r \notin Jobs
    BY PipelineAssumption DEF Runs
  <2>2. phase[r] = "idle" /\ phase'[r] = "resume" /\ OneRun(r) /\ mine'[r] = mine[r]
    BY <1>0, <1>4, <2>1 DEF Approve, At, Goto, OneRun, Phase
  <2>3. UNCHANGED <<row, rows, order, queue, toEnqueue, deferred, faults>> /\ status' = "processing"
    BY <1>4 DEF Approve, orderVars, queueVars
  <2> QED BY <2>1, <2>2, <2>3, FateStays
<1>5. ASSUME NEW j \in Jobs, Reprocess(j) PROVE FateInv'
  <2>1. /\ row' = 0 /\ UNCHANGED <<rows, queue, phase, mine>> /\ toEnqueue' = toEnqueue \cup {j}
        /\ j # FirstJob /\ queue[j] = "none"
    BY <1>5 DEF Reprocess, runVars
  <2>2. QueueInv' /\ RowsInv'
    BY <1>0, <2>1 DEF FateInv, QueueInv, RowsInv
  <2>3. DivertedInv' /\ FinishInv'
    BY <2>1 DEF DivertedInv, FinishInv, Alive
  <2> QED BY <2>2, <2>3 DEF FateInv
<1>6. ASSUME NEW r \in Runs, Crash(r) PROVE FateInv'
  <2>1. PICK s : EndAs(r, s)
    BY <1>6 DEF Crash
  <2>2. OneRun(r) /\ phase'[r] = "idle" /\ mine'[r] = None /\ toEnqueue' = toEnqueue
        /\ \A k \in Jobs \ {r} : queue'[k] = queue[k]
    BY <2>1, EndOne
  <2>3. phase[r] # "idle" /\ UNCHANGED <<row, rows, status, order, deferred>> /\ faults' = faults + 1
    BY <1>6 DEF Crash, At, Fault, rowVars, orderVars
  <2>4. faults' # 0
    BY <1>0, <2>3
  <2> QED BY <2>2, <2>3, <2>4, FateStays
<1> QED BY <1>2, <1>3, <1>4, <1>5, <1>6, PipelineAssumption DEF Next, HumanStep

LEMMA FateInit == Init => FateInv
  BY PipelineAssumption DEF Init, FateInv, QueueInv, RowsInv, DivertedInv, FinishInv, At, Alive,
                            Runs, None

\* Errors, approvals, rejections, reprocesses and retries, however they overlap,
\* never leave a completed job without its order: only a crash, a failed write
\* or a run that left the submission to another can.
THEOREM CompletedHasOrderHolds == Spec => []CompletedHasOrder
<1>1. TypeOK /\ FateInv /\ [Next]_vars => FateInv'
  BY RunFate, OtherFate
<1>2. FateInv => CompletedHasOrder
  BY DEF FateInv, FinishInv, Finisher, Late, CompletedHasOrder, Quiet, At
<1> QED BY <1>1, <1>2, FateInit, TypeCorrect, PTL DEF Spec
=============================================================================
