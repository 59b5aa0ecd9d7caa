---------------------------- MODULE OutboxProofs ----------------------------
(***************************************************************************)
(* Proofs about Outbox for any number of events, handlers, slots and       *)
(* sweeps, and any caps.                                                   *)
(*                                                                         *)
(* OneDispatcher is nearly inductive by itself.  That an event marked      *)
(* dispatched was handled needs the progress of whoever is dispatching it: *)
(* the handlers counted in done have completed.  The bound on attempts     *)
(* needs the claims still to come: one for each sweep that has the event   *)
(* as a candidate, and the queue's tries.                                  *)
(***************************************************************************)
EXTENDS Outbox, FiniteSetTheorems, TLAPS

\* A dispatcher's count of handlers is a count of handlers that completed;
\* only a busy dispatcher has one, and only a busy one has thrown.
ProgressInv ==
  \A d \in Dispatchers :
    /\ Busy(d) => 1..done[d] \subseteq handled[at[d]]
    /\ ~Busy(d) => done[d] = 0 /\ d \notin threw

\* Sweeps that still have the event as a candidate.
Pending(e) == {s \in Sweeps : e \in candidates[s]}

Unfailed == {"waiting", "active", "completed"}

\* Claims the queue has made for the event: its job's failures, the attempt
\* that is running or was the last, and the attempts cut short by a crash.
QueueClaims(e) ==
  tries[e] + (IF job[e] \in {"active", "completed"} THEN 1 ELSE 0) + crashes

\* Claims so far, plus those that sweeps may make, less those the queue made.
AttemptsInv ==
  \A e \in Events :
    /\ tries[e] <= QueueAttempts + retries
    /\ job[e] \in Unfailed => tries[e] < QueueAttempts + retries
    /\ attempts[e] + Cardinality(Pending(e))
         < RelayMaxAttempts + Cardinality(Sweeps) + QueueClaims(e)

\* An event not yet in the queue has no job, and a slot's event has an active
\* one; so a job is added once.
JobInv ==
  /\ \A e \in Events : status[e] = "absent" => e \notin nudging
  /\ \A e \in Events : status[e] = "absent" \/ e \in nudging =>
       job[e] = "none" /\ tries[e] = 0
  /\ \A d \in Slots : Busy(d) => job[at[d]] = "active"

IInv == TypeOK /\ OneDispatcher /\ ProgressInv /\ DispatchedMeansHandled

-----------------------------------------------------------------------------
(* Type correctness. *)

LEMMA TypeInit == Init => TypeOK
  BY OutboxAssumption DEF Init, TypeOK, Status, Job, Events, Handlers, NoEvent

LEMMA TypeStep == TypeOK /\ [Next]_vars => TypeOK'
<1> SUFFICES ASSUME TypeOK, [Next]_vars PROVE TypeOK'
  OBVIOUS
<1> USE OutboxAssumption
<1> USE DEF TypeOK, rowVars, queueVars, workVars, SetStatus, Status, Job
<1>1. ASSUME NEW e \in Events, EventStep(e) PROVE TypeOK'
  <2>1. CASE EmitInTrx(e)     BY <2>1 DEF EmitInTrx
  <2>2. CASE Emit(e)          BY <2>2 DEF Emit
  <2>3. CASE Nudge(e)         BY <2>3 DEF Nudge
  <2>4. CASE RetryJob(e)      BY <2>4 DEF RetryJob
  <2>5. CASE DiscardJob(e)    BY <2>5 DEF DiscardJob
  <2> QED BY <1>1, <2>1, <2>2, <2>3, <2>4, <2>5 DEF EventStep
<1>2. ASSUME NEW d \in Dispatchers, DispatcherStep(d) PROVE TypeOK'
  <2>1. CASE StartSweep(d)
    BY <2>1 DEF StartSweep, Batch
  <2>2. ASSUME NEW e \in Events, TryCandidate(d, e) PROVE TypeOK'
    BY <2>2 DEF TryCandidate, Claim, Skip
  <2>3. ASSUME NEW e \in Events, TakeJob(d, e) PROVE TypeOK'
    BY <2>3 DEF TakeJob, Claim, Skip
  <2>4. CASE RunHandler(d)
    <3>1. at[d] \in Events /\ done[d] + 1 \in 0..NumHandlers /\ done[d] + 1 \in Handlers
      BY <2>4 DEF RunHandler, Busy, Handlers
    <3>2. /\ [done EXCEPT ![d] = @ + 1] \in [Dispatchers -> 0..NumHandlers]
          /\ [handled EXCEPT ![at[d]] = @ \cup {done[d] + 1}] \in [Events -> SUBSET Handlers]
          /\ threw \cup {d} \in SUBSET Dispatchers
      BY <3>1
    <3>3. /\ done' \in [Dispatchers -> 0..NumHandlers]
          /\ handled' \in [Events -> SUBSET Handlers]
          /\ threw' \in SUBSET Dispatchers
      BY <2>4, <3>2 DEF RunHandler
    <3> QED BY <2>4, <3>3 DEF RunHandler
  <2>5. CASE MarkDispatched(d)
    BY <2>5 DEF MarkDispatched, Busy, SetJob, Release
  <2>6. CASE FailToMark(d)
    BY <2>6 DEF FailToMark
  <2>7. CASE MarkFailed(d)
    <3>1. Retry(at[d]) \in Job
      BY DEF Retry
    <3>2. job' \in [Events -> Job]
      BY <2>7, <3>1 DEF MarkFailed, SetJob
    <3>3. status' \in [Events -> Status]
      BY <2>7 DEF MarkFailed
    <3> QED BY <2>7, <3>2, <3>3 DEF MarkFailed, Release
  <2> QED BY <1>2, <2>1, <2>2, <2>3, <2>4, <2>5, <2>6, <2>7 DEF DispatcherStep
<1>3. ASSUME NEW d \in Dispatchers, Crash(d) PROVE TypeOK'
  BY <1>3 DEF Crash, SetJob, Retry, Release
<1>4. ASSUME NEW d \in Dispatchers, FailToRecord(d) PROVE TypeOK'
  <2>1. Retry(at[d]) \in Job
    BY DEF Retry
  <2>2. job' \in [Events -> Job]
    BY <1>4, <2>1 DEF FailToRecord, SetJob
  <2>3. tries' \in [Events -> Nat]
    <3>1. tries \in [Events -> Nat]
      OBVIOUS
    <3>2. tries' = tries \/ tries' = [tries EXCEPT ![at[d]] = @ + 1]
      BY <1>4 DEF FailToRecord
    <3> HIDE DEF TypeOK
    <3> QED BY <3>1, <3>2
  <2>4. crashes' \in Nat
    BY <1>4 DEF FailToRecord
  <2> QED BY <1>4, <2>2, <2>3, <2>4 DEF FailToRecord, Release
<1>5. CASE UNCHANGED vars
  BY <1>5 DEF vars
<1> HIDE DEF TypeOK
<1> QED BY <1>1, <1>2, <1>3, <1>4, <1>5 DEF Next

\* Every variable stays in its type.
THEOREM TypeCorrect == Spec => []TypeOK
  BY TypeInit, TypeStep, PTL DEF Spec

-----------------------------------------------------------------------------
(* One dispatcher, and what it has done. *)

\* A dispatcher that is not yet busy claims an event that nobody has.
LEMMA ClaimKeeps ==
  ASSUME IInv, NEW d \in Dispatchers, NEW e \in Events, ~Busy(d), Claim(d, e),
         UNCHANGED handled
  PROVE  OneDispatcher' /\ ProgressInv' /\ DispatchedMeansHandled'
<1> USE DEF IInv, TypeOK, Claim, SetStatus, Busy, Dispatchable
<1>1. \A c \in Dispatchers : at[c] # e
  BY SMTT(30) DEF OneDispatcher, Events, NoEvent
<1>2. OneDispatcher'
  BY <1>1 DEF OneDispatcher
<1>3. ProgressInv'
  BY DEF ProgressInv
<1>4. DispatchedMeansHandled'
  BY DEF DispatchedMeansHandled
<1> QED BY <1>2, <1>3, <1>4

\* Releasing an event with any of the statuses a dispatcher leaves it in.
LEMMA ReleaseKeeps ==
  ASSUME IInv, NEW d \in Dispatchers, Release(d), UNCHANGED handled,
         NEW s \in Status, Busy(d) => SetStatus(at[d], s) \/ UNCHANGED status,
         ~Busy(d) => UNCHANGED status,
         s = "dispatched" => done[d] = NumHandlers /\ Busy(d)
  PROVE  OneDispatcher' /\ ProgressInv' /\ DispatchedMeansHandled'
<1> USE DEF IInv, TypeOK, SetStatus, Busy, Release
<1>1. OneDispatcher'
  BY DEF OneDispatcher
<1>2. ProgressInv'
  BY DEF ProgressInv
<1>3. DispatchedMeansHandled'
  <2> SUFFICES ASSUME NEW e \in Events, status'[e] = "dispatched"
               PROVE  handled[e] = Handlers
    BY DEF DispatchedMeansHandled
  <2>1. CASE status[e] = "dispatched"
    BY <2>1 DEF DispatchedMeansHandled
  <2>2. CASE status[e] # "dispatched"
    <3>1. Busy(d) /\ at[d] = e /\ s = "dispatched"
      BY <2>2
    <3>2. 1..NumHandlers \subseteq handled[e]
      BY <3>1 DEF ProgressInv
    <3> QED BY <3>2 DEF Handlers
  <2> QED BY <2>1, <2>2
<1> QED BY <1>1, <1>2, <1>3

LEMMA DispatchStep ==
  IInv /\ [Next]_vars => OneDispatcher' /\ ProgressInv' /\ DispatchedMeansHandled'
<1> SUFFICES ASSUME IInv, [Next]_vars
             PROVE  OneDispatcher' /\ ProgressInv' /\ DispatchedMeansHandled'
  OBVIOUS
<1> USE DEF IInv, TypeOK, rowVars, queueVars, workVars
<1>1. ASSUME UNCHANGED <<at, done, threw, handled>>,
             \A d \in Dispatchers : Busy(d) => status'[at[d]] = status[at[d]],
             \A e \in Events : status'[e] = "dispatched" => status[e] = "dispatched"
      PROVE  OneDispatcher' /\ ProgressInv' /\ DispatchedMeansHandled'
  BY <1>1 DEF OneDispatcher, ProgressInv, DispatchedMeansHandled, Busy
<1>2. ASSUME NEW e \in Events, EventStep(e)
      PROVE  OneDispatcher' /\ ProgressInv' /\ DispatchedMeansHandled'
  <2>1. CASE EmitInTrx(e) \/ Emit(e)
    <3>1. status[e] = "absent" /\ status' = [status EXCEPT ![e] = "pending"]
      BY <2>1 DEF EmitInTrx, Emit, SetStatus
    <3>2. \A d \in Dispatchers : Busy(d) => at[d] # e
      BY <3>1 DEF OneDispatcher
    <3>3. UNCHANGED <<at, done, threw, handled>>
      BY <2>1 DEF EmitInTrx, Emit
    <3> QED BY <1>1, <3>1, <3>2, <3>3
  <2>2. CASE Nudge(e)
    BY <1>1, <2>2 DEF Nudge
  <2>3. CASE RetryJob(e) \/ DiscardJob(e)
    BY <1>1, <2>3 DEF RetryJob, DiscardJob
  <2> QED BY <1>2, <2>1, <2>2, <2>3 DEF EventStep
<1>3. ASSUME NEW d \in Dispatchers, DispatcherStep(d)
      PROVE  OneDispatcher' /\ ProgressInv' /\ DispatchedMeansHandled'
  <2>1. CASE StartSweep(d)
    BY <1>1, <2>1 DEF StartSweep
  <2>2. ASSUME NEW e \in Events, TryCandidate(d, e) \/ TakeJob(d, e)
        PROVE  OneDispatcher' /\ ProgressInv' /\ DispatchedMeansHandled'
    <3>1. CASE Claim(d, e)
      BY <2>2, <3>1, ClaimKeeps DEF TryCandidate, TakeJob
    <3>2. CASE Skip(e)
      BY <1>1, <2>2, <3>2 DEF TryCandidate, TakeJob, Skip
    <3> QED BY <2>2, <3>1, <3>2 DEF TryCandidate, TakeJob
  <2>3. CASE RunHandler(d)
    <3>1. OneDispatcher'
      BY <2>3 DEF RunHandler, OneDispatcher, Busy
    <3>2. ProgressInv'
      <4>1. \A c \in Dispatchers : done'[c] = done[c]
               \/ (c = d /\ done'[c] = done[c] + 1 /\ done[c] + 1 \in handled'[at[c]])
        BY <2>3 DEF RunHandler, Busy
      <4>2. \A e \in Events : handled[e] \subseteq handled'[e]
        BY <2>3 DEF RunHandler
      <4>3. \A c \in Dispatchers : Busy(c) => 1..done'[c] \subseteq handled'[at[c]]
        BY <4>1, <4>2 DEF ProgressInv, Busy
      <4>4. \A c \in Dispatchers : ~Busy(c) => done'[c] = 0 /\ c \notin threw'
        BY <2>3 DEF RunHandler, ProgressInv, Busy
      <4> QED BY <2>3, <4>3, <4>4 DEF RunHandler, ProgressInv, Busy
    <3>3. DispatchedMeansHandled'
      <4>1. status' = status
        BY <2>3 DEF RunHandler
      <4>2. \A e \in Events : status[e] = "dispatched" => handled'[e] = handled[e]
        BY <2>3 DEF RunHandler, OneDispatcher, Busy
      <4> QED BY <4>1, <4>2 DEF DispatchedMeansHandled
    <3> QED BY <3>1, <3>2, <3>3
  <2>4. CASE MarkDispatched(d)
    BY <2>4, ReleaseKeeps DEF MarkDispatched, Status
  <2>5. CASE FailToMark(d)
    BY <2>5 DEF FailToMark, OneDispatcher, ProgressInv, DispatchedMeansHandled, Busy
  <2>6. CASE MarkFailed(d)
    <3>1. Busy(d)
      BY <2>6 DEF MarkFailed, ProgressInv
    <3> QED BY <2>6, <3>1, ReleaseKeeps DEF MarkFailed, Status
  <2> QED BY <1>3, <2>1, <2>2, <2>3, <2>4, <2>5, <2>6 DEF DispatcherStep
<1>4. ASSUME NEW d \in Dispatchers, Crash(d)
      PROVE  OneDispatcher' /\ ProgressInv' /\ DispatchedMeansHandled'
  BY <1>4, ReleaseKeeps DEF Crash, Status
<1>5. ASSUME NEW d \in Dispatchers, FailToRecord(d)
      PROVE  OneDispatcher' /\ ProgressInv' /\ DispatchedMeansHandled'
  BY <1>5, ReleaseKeeps DEF FailToRecord, Status
<1>6. CASE UNCHANGED vars
  BY <1>1, <1>6 DEF vars
<1> HIDE DEF IInv, TypeOK
<1> QED BY <1>2, <1>3, <1>4, <1>5, <1>6 DEF Next

LEMMA InvInit == Init => IInv
<1> SUFFICES ASSUME Init PROVE IInv
  OBVIOUS
<1>1. TypeOK
  BY TypeInit
<1>2. OneDispatcher /\ ProgressInv /\ DispatchedMeansHandled
  BY DEF Init, OneDispatcher, ProgressInv, DispatchedMeansHandled, Busy
<1> QED BY <1>1, <1>2 DEF IInv

THEOREM InvCorrect == Spec => []IInv
<1>1. IInv /\ [Next]_vars => IInv'
  BY TypeStep, DispatchStep DEF IInv
<1> QED BY InvInit, <1>1, PTL DEF Spec

\* No event is ever with two dispatchers, however sweeps overlap and jobs are
\* redelivered.
THEOREM OneDispatcherHolds == Spec => []OneDispatcher
<1>1. IInv => OneDispatcher
  BY DEF IInv
<1> QED BY InvCorrect, <1>1, PTL

\* A dispatched event was handled by every subscriber.
THEOREM DispatchedMeansHandledHolds == Spec => []DispatchedMeansHandled
<1>1. IInv => DispatchedMeansHandled
  BY DEF IInv
<1> QED BY InvCorrect, <1>1, PTL

\* A dispatched event keeps its status, and no handler runs for it again:
\* whoever could change either would have to have it claimed.
THEOREM DispatchedIsFinalHolds == Spec => DispatchedIsFinal
<1> DEFINE Final == \A e \in Events : status[e] = "dispatched" =>
                      status'[e] = "dispatched" /\ handled'[e] = handled[e]
<1>1. IInv /\ [Next]_vars => [Final]_vars
  <2> SUFFICES ASSUME IInv, [Next]_vars, NEW e \in Events, status[e] = "dispatched"
               PROVE  status'[e] = "dispatched" /\ handled'[e] = handled[e]
    OBVIOUS
  <2> USE DEF IInv, TypeOK, rowVars, queueVars, workVars, SetStatus
  <2>1. \A d \in Dispatchers : Busy(d) => at[d] # e
    BY DEF OneDispatcher
  <2>2. ASSUME NEW f \in Events, EventStep(f)
        PROVE  status'[e] = "dispatched" /\ handled'[e] = handled[e]
    <3>1. handled' = handled
      BY <2>2 DEF EventStep, EmitInTrx, Emit, Nudge, RetryJob, DiscardJob
    <3>2. status'[e] = "dispatched"
      BY <2>2 DEF EventStep, EmitInTrx, Emit, Nudge, RetryJob, DiscardJob
    <3> QED BY <3>1, <3>2
  <2>3. ASSUME NEW d \in Dispatchers, DispatcherStep(d)
        PROVE  status'[e] = "dispatched" /\ handled'[e] = handled[e]
    <3>1. CASE StartSweep(d) \/ FailToMark(d)
      BY <3>1 DEF StartSweep, FailToMark
    <3>2. ASSUME NEW f \in Events, TryCandidate(d, f) \/ TakeJob(d, f)
          PROVE  status'[e] = "dispatched" /\ handled'[e] = handled[e]
      BY <3>2 DEF TryCandidate, TakeJob, Claim, Skip, Dispatchable
    <3>3. CASE RunHandler(d)
      BY <2>1, <3>3 DEF RunHandler
    <3>4. CASE MarkDispatched(d)
      BY <3>4 DEF MarkDispatched
    <3>5. CASE MarkFailed(d)
      <4>1. Busy(d)
        BY <3>5 DEF MarkFailed, ProgressInv
      <4> QED BY <2>1, <3>5, <4>1 DEF MarkFailed
    <3> QED BY <2>3, <3>1, <3>2, <3>3, <3>4, <3>5 DEF DispatcherStep
  <2>4. ASSUME NEW d \in Dispatchers, Crash(d) \/ FailToRecord(d)
        PROVE  status'[e] = "dispatched" /\ handled'[e] = handled[e]
    BY <2>4 DEF Crash, FailToRecord
  <2>5. CASE UNCHANGED vars
    BY <2>5 DEF vars
  <2> HIDE DEF IInv, TypeOK
  <2> QED BY <2>2, <2>3, <2>4, <2>5 DEF Next
<1> QED BY InvCorrect, <1>1, PTL DEF Spec, DispatchedIsFinal

-----------------------------------------------------------------------------
(* The bound on attempts. *)

LEMMA PendingCount ==
  ASSUME NEW e
  PROVE  /\ IsFiniteSet(Pending(e))
         /\ Cardinality(Pending(e)) \in Nat /\ Cardinality(Sweeps) \in Nat
         /\ Cardinality(Pending(e)) <= Cardinality(Sweeps)
<1>1. IsFiniteSet(Sweeps) /\ Pending(e) \subseteq Sweeps
  BY OutboxAssumption DEF Pending
<1> QED BY <1>1, FS_Subset, FS_CardinalityType

\* A step that takes candidates away leaves no more sweeps waiting.
LEMMA PendingShrinks ==
  ASSUME NEW e, Pending(e)' \subseteq Pending(e)
  PROVE  /\ Cardinality(Pending(e))' \in Nat
         /\ Cardinality(Pending(e))' <= Cardinality(Pending(e))
<1>1. IsFiniteSet(Pending(e)) /\ Pending(e)' \in SUBSET Pending(e)
  BY PendingCount
<1> HIDE DEF Pending
<1> QED BY <1>1, FS_Subset, FS_CardinalityType

\* A sweep that tries its candidate leaves one sweep fewer waiting for it.
LEMMA PendingTaken ==
  ASSUME NEW e, NEW d, d \in Pending(e), Pending(e)' = Pending(e) \ {d}
  PROVE  Cardinality(Pending(e))' = Cardinality(Pending(e)) - 1
<1>1. IsFiniteSet(Pending(e))
  BY PendingCount
<1> HIDE DEF Pending
<1> QED BY <1>1, FS_RemoveElement

LEMMA JobStep == IInv /\ JobInv /\ [Next]_vars => JobInv'
<1> SUFFICES ASSUME IInv, JobInv, [Next]_vars PROVE JobInv'
  OBVIOUS
<1> USE DEF IInv, TypeOK, JobInv, Busy, rowVars, queueVars, workVars, SetStatus
<1>1. ASSUME NEW e \in Events, EventStep(e) PROVE JobInv'
  <2>1. CASE EmitInTrx(e) \/ Emit(e)
    BY <2>1 DEF EmitInTrx, Emit
  <2>2. CASE Nudge(e)
    <3>1. \A d \in Slots : Busy(d) => at[d] # e
      BY <2>2 DEF Nudge, Dispatchers
    <3>2. status[e] # "absent"
      BY <2>2 DEF Nudge
    <3>3. e \notin nudging' /\ nudging' \subseteq nudging
          /\ \A f \in Events \ {e} : job'[f] = job[f]
      BY <2>2 DEF Nudge
    <3> QED BY <2>2, <3>1, <3>2, <3>3 DEF Nudge, Dispatchers
  <2>3. CASE RetryJob(e) \/ DiscardJob(e)
    <3>1. /\ status[e] # "absent" /\ e \notin nudging
          /\ \A d \in Slots : Busy(d) => at[d] # e
      BY <2>3 DEF RetryJob, DiscardJob
    <3>2. /\ \A f \in Events \ {e} : job'[f] = job[f]
          /\ UNCHANGED <<status, tries, nudging, at>>
      BY <2>3 DEF RetryJob, DiscardJob
    <3>3. \A d \in Slots : Busy(d) => at[d] \in Events
      BY DEF Dispatchers
    <3> QED BY <3>1, <3>2, <3>3
  <2> QED BY <1>1, <2>1, <2>2, <2>3 DEF EventStep
<1>2. \A d \in Dispatchers : Busy(d) => status[at[d]] = "dispatching" /\ at[d] \in Events
                                     /\ \A c \in Dispatchers \ {d} : at[c] # at[d]
  BY DEF OneDispatcher
<1>3. ASSUME NEW d \in Dispatchers, DispatcherStep(d) PROVE JobInv'
  <2>1. CASE StartSweep(d) \/ RunHandler(d) \/ FailToMark(d)
    BY <2>1 DEF StartSweep, RunHandler, FailToMark
  <2>2. ASSUME NEW e \in Events, TryCandidate(d, e) PROVE JobInv'
    BY <2>2, OutboxAssumption DEF TryCandidate, Claim, Skip, Dispatchable, Dispatchers
  <2>3. ASSUME NEW e \in Events, TakeJob(d, e) PROVE JobInv'
    BY <2>3, OutboxAssumption DEF TakeJob, Claim, Skip, Dispatchable, Dispatchers
  <2>4. CASE MarkDispatched(d)
    BY <1>2, <2>4 DEF MarkDispatched, SetJob, Release, Dispatchers, NoEvent
  <2>5. CASE MarkFailed(d)
    BY <1>2, <2>5 DEF MarkFailed, SetJob, Release, Dispatchers, NoEvent, ProgressInv
  <2> QED BY <1>3, <2>1, <2>2, <2>3, <2>4, <2>5 DEF DispatcherStep
<1>4. ASSUME NEW d \in Dispatchers, Crash(d) PROVE JobInv'
  <2>1. \A c \in Slots : at'[c] # NoEvent => c # d /\ at'[c] = at[c]
    BY <1>4 DEF Crash, Release, Dispatchers
  <2>2. ASSUME NEW f \in Events, job'[f] # job[f] PROVE d \in Slots /\ Busy(d) /\ f = at[d]
    BY <1>4, <2>2, OutboxAssumption DEF Crash, SetJob, Dispatchers
  <2>3. \A f \in Events : status[f] = "absent" \/ f \in nudging => job'[f] = "none"
    BY <2>2
  <2>4. \A c \in Slots : at'[c] # NoEvent => job'[at'[c]] = "active"
    BY <1>2, <2>1, <2>2 DEF Dispatchers
  <2> QED BY <1>4, <2>3, <2>4 DEF Crash
<1>5. ASSUME NEW d \in Dispatchers, FailToRecord(d) PROVE JobInv'
  BY <1>2, <1>5 DEF FailToRecord, SetJob, Release, Dispatchers, NoEvent
<1>6. CASE UNCHANGED vars
  BY <1>6 DEF vars
<1> HIDE DEF IInv, TypeOK, JobInv
<1> QED BY <1>1, <1>3, <1>4, <1>5, <1>6 DEF Next

LEMMA AttemptsStep ==
  TypeOK /\ JobInv /\ ProgressInv /\ AttemptsInv /\ [Next]_vars => AttemptsInv'
<1> SUFFICES ASSUME TypeOK, JobInv, ProgressInv, AttemptsInv, [Next]_vars, NEW e \in Events
             PROVE  /\ tries'[e] <= QueueAttempts + retries'
                    /\ job'[e] \in Unfailed => tries'[e] < QueueAttempts + retries'
                    /\ attempts'[e] + Cardinality(Pending(e))'
                         < RelayMaxAttempts + Cardinality(Sweeps) + QueueClaims(e)'
  BY DEF AttemptsInv
<1> DEFINE P == Cardinality(Pending(e))
           S == Cardinality(Sweeps)
           Q == QueueClaims(e)
           Goal == /\ tries'[e] <= QueueAttempts + retries'
                   /\ job'[e] \in Unfailed => tries'[e] < QueueAttempts + retries'
                   /\ attempts'[e] + P' < RelayMaxAttempts + S + Q'
<1> USE OutboxAssumption
<1> USE DEF rowVars, queueVars, workVars
<1>0. /\ tries[e] <= QueueAttempts + retries
      /\ job[e] \in Unfailed => tries[e] < QueueAttempts + retries
      /\ attempts[e] + P < RelayMaxAttempts + S + Q
      /\ attempts[e] \in Nat /\ tries[e] \in Nat /\ Q \in Nat
      /\ crashes \in Nat /\ retries \in Nat
  BY DEF AttemptsInv, TypeOK, QueueClaims
<1>1. P \in Nat /\ S \in Nat /\ P <= S
  BY PendingCount
<1>2. ASSUME Pending(e)' \subseteq Pending(e) PROVE P' \in Nat /\ P' <= P
  BY <1>2, PendingShrinks
<1>3. ASSUME NEW d, d \in Pending(e), Pending(e)' = Pending(e) \ {d} PROVE P' = P - 1
  BY <1>3, PendingTaken
<1>4. ASSUME UNCHANGED candidates PROVE P' = P
  BY <1>4 DEF Pending
<1>5. P' \in Nat /\ P' <= S
  <2>1. IsFiniteSet(Sweeps) /\ Pending(e)' \in SUBSET Sweeps
    BY DEF Pending
  <2> QED BY <2>1, FS_Subset, FS_CardinalityType
<1> HIDE DEF P, S, Q
\* Nothing the bound is made of moves the wrong way.
<1>6. ASSUME P' <= P, attempts'[e] \in Nat, attempts'[e] <= attempts[e],
             Q' \in Nat, Q <= Q',
             tries'[e] <= QueueAttempts + retries', job'[e] \in Unfailed => tries'[e] < QueueAttempts + retries'
      PROVE  Goal
  BY <1>0, <1>1, <1>5, <1>6
\* Most steps leave the event's job alone.
<1>7. ASSUME tries'[e] = tries[e], job'[e] = job[e], crashes' = crashes PROVE Q' = Q
  BY <1>7 DEF Q, QueueClaims
<1>8. ASSUME NEW f \in Events, EventStep(f) PROVE Goal
  <2>1. P' = P /\ UNCHANGED <<tries, crashes>>
    BY <1>4, <1>8 DEF EventStep, EmitInTrx, Emit, Nudge, RetryJob, DiscardJob
  <2>2. attempts'[e] \in Nat /\ attempts'[e] <= attempts[e]
    BY <1>0, <1>8 DEF EventStep, EmitInTrx, Emit, Nudge, RetryJob, DiscardJob, TypeOK
  <2>3. retries' \in Nat /\ retries <= retries'
    BY <1>0, <1>8 DEF EventStep, EmitInTrx, Emit, Nudge, RetryJob, DiscardJob
  <2>4. \/ job'[e] = job[e]
        \/ job[e] = "none" /\ job'[e] = "waiting" /\ tries[e] = 0
        \/ job[e] = "failed" /\ job'[e] = "waiting" /\ retries' = retries + 1
        \/ job[e] \in {"waiting", "failed"} /\ job'[e] = "none"
    <3>1. CASE EmitInTrx(f) \/ Emit(f)
      BY <3>1 DEF EmitInTrx, Emit
    <3>2. CASE Nudge(f)
      BY <3>2 DEF Nudge, JobInv, TypeOK
    <3>3. CASE RetryJob(f)
      BY <3>3 DEF RetryJob, TypeOK
    <3>4. CASE DiscardJob(f)
      BY <3>4 DEF DiscardJob, TypeOK
    <3> QED BY <1>8, <3>1, <3>2, <3>3, <3>4 DEF EventStep
  <2>5. Q' = Q
    BY <2>1, <2>4 DEF Q, QueueClaims
  <2>6. /\ tries'[e] <= QueueAttempts + retries'
        /\ job'[e] \in Unfailed => tries'[e] < QueueAttempts + retries'
    BY <1>0, <2>1, <2>3, <2>4 DEF Unfailed
  <2> QED BY <1>0, <1>1, <1>6, <2>1, <2>2, <2>5, <2>6
<1>9. ASSUME NEW d \in Dispatchers, DispatcherStep(d) PROVE Goal
  <2>0. UNCHANGED <<crashes, retries>>
    BY <1>9 DEF DispatcherStep, StartSweep, TryCandidate, TakeJob, RunHandler, FailToMark,
                MarkDispatched, MarkFailed
  <2>1. CASE StartSweep(d)
    <3>1. UNCHANGED <<attempts, tries, job>> /\ Q' = Q
      BY <1>7, <2>0, <2>1 DEF StartSweep
    <3>2. CASE e \in Batch
      <4>1. attempts[e] < RelayMaxAttempts
        BY <3>2 DEF Batch, Sweepable
      <4> QED BY <1>0, <2>0, <1>1, <1>5, <3>1, <4>1
    <3>3. CASE e \notin Batch
      <4>1. Pending(e)' \subseteq Pending(e)
        BY <2>1, <3>3 DEF StartSweep, Pending, TypeOK
      <4> QED BY <1>0, <2>0, <1>2, <1>6, <3>1, <4>1
    <3> QED BY <3>2, <3>3
  <2>2. ASSUME NEW f \in Events, TryCandidate(d, f) PROVE Goal
    <3>1. UNCHANGED <<tries, job>> /\ Q' = Q
      BY <1>7, <2>0, <2>2 DEF TryCandidate
    <3>2. CASE f = e
      <4>1. d \in Pending(e) /\ Pending(e)' = Pending(e) \ {d}
        BY <2>2, <3>2 DEF TryCandidate, Pending, TypeOK
      <4>2. P' = P - 1
        BY <1>3, <4>1
      <4>3. attempts'[e] = attempts[e] \/ attempts'[e] = attempts[e] + 1
        BY <2>2 DEF TryCandidate, Claim, Skip, TypeOK
      <4> QED BY <1>0, <2>0, <1>1, <1>5, <3>1, <4>2, <4>3
    <3>3. CASE f # e
      <4>1. Pending(e)' \subseteq Pending(e) /\ attempts'[e] = attempts[e]
        BY <2>2, <3>3 DEF TryCandidate, Pending, TypeOK, Claim, Skip
      <4> QED BY <1>0, <2>0, <1>2, <1>6, <3>1, <4>1
    <3> QED BY <3>2, <3>3
  <2>3. ASSUME NEW f \in Events, TakeJob(d, f) PROVE Goal
    <3>1. P' = P /\ UNCHANGED tries
      BY <1>4, <2>3 DEF TakeJob
    <3>2. CASE f = e
      <4>1. CASE Claim(d, e)
        <5>1. job[e] = "waiting" /\ job'[e] = "active" /\ attempts'[e] = attempts[e] + 1
          BY <2>3, <3>2, <4>1 DEF TakeJob, Claim, TypeOK, Skip
        <5>2. Q' = Q + 1
          BY <1>0, <2>0, <3>1, <5>1 DEF Q, QueueClaims
        <5> QED BY <1>0, <2>0, <1>1, <3>1, <5>1, <5>2 DEF Unfailed
      <4>2. CASE Skip(e) /\ ~Claim(d, e)
        <5>1. job[e] = "waiting" /\ job'[e] = "completed" /\ attempts'[e] = attempts[e]
          BY <2>3, <3>2, <4>2 DEF TakeJob, TypeOK, Skip
        <5>2. Q' = Q + 1
          BY <1>0, <2>0, <3>1, <5>1 DEF Q, QueueClaims
        <5> QED BY <1>0, <2>0, <1>1, <3>1, <5>1, <5>2 DEF Unfailed
      <4> QED BY <2>3, <3>2, <4>1, <4>2 DEF TakeJob
    <3>3. CASE f # e
      <4>1. job'[e] = job[e] /\ attempts'[e] = attempts[e]
        BY <2>3, <3>3 DEF TakeJob, TypeOK, Claim, Skip
      <4> QED BY <1>0, <1>1, <1>7, <2>0, <3>1, <4>1
    <3> QED BY <3>2, <3>3
  <2>4. CASE RunHandler(d) \/ FailToMark(d)
    <3>1. UNCHANGED <<attempts, tries, job, candidates>>
      BY <2>4 DEF RunHandler, FailToMark
    <3> QED BY <1>0, <1>1, <1>4, <1>7, <2>0, <3>1
  <2>5. CASE MarkDispatched(d)
    <3>1. UNCHANGED <<attempts, tries, candidates>> /\ (d \in Slots => Busy(d))
      BY <2>5 DEF MarkDispatched
    <3>2. CASE d \in Slots /\ at[d] = e
      <4>1. /\ job[e] = "active" /\ job'[e] = "completed"
            /\ tries[e] < QueueAttempts + retries
        BY <1>0, <2>5, <3>1, <3>2 DEF MarkDispatched, SetJob, JobInv, TypeOK, Unfailed
      <4>2. Q' = Q
        BY <2>0, <3>1, <4>1 DEF Q, QueueClaims
      <4> QED BY <1>0, <2>0, <1>1, <1>4, <3>1, <4>1, <4>2
    <3>3. CASE ~(d \in Slots /\ at[d] = e)
      <4>1. job'[e] = job[e]
        BY <2>5, <3>3 DEF MarkDispatched, SetJob, TypeOK
      <4> QED BY <1>0, <1>1, <1>4, <1>7, <2>0, <3>1, <4>1
    <3> QED BY <3>2, <3>3
  <2>6. CASE MarkFailed(d)
    <3>1. UNCHANGED <<attempts, candidates>> /\ Busy(d)
      BY <2>6 DEF MarkFailed, ProgressInv
    <3>2. CASE d \in Slots /\ at[d] = e
      <4>1. job[e] = "active" /\ tries'[e] = tries[e] + 1 /\ job'[e] = Retry(e)
        BY <2>6, <3>1, <3>2 DEF MarkFailed, SetJob, JobInv, TypeOK
      <4>2. /\ tries'[e] <= QueueAttempts + retries'
            /\ job'[e] \in Unfailed => tries'[e] < QueueAttempts + retries'
            /\ job'[e] \notin {"active", "completed"}
        BY <1>0, <2>0, <4>1 DEF Retry, Unfailed
      <4>3. Q' = Q
        BY <1>0, <2>0, <4>1, <4>2 DEF Q, QueueClaims
      <4> QED BY <1>0, <1>1, <1>4, <3>1, <4>2, <4>3
    <3>3. CASE ~(d \in Slots /\ at[d] = e)
      <4>1. job'[e] = job[e] /\ tries'[e] = tries[e]
        BY <2>6, <3>3 DEF MarkFailed, SetJob, TypeOK
      <4> QED BY <1>0, <1>1, <1>4, <1>7, <2>0, <3>1, <4>1
    <3> QED BY <3>2, <3>3
  <2> QED BY <1>9, <2>1, <2>2, <2>3, <2>4, <2>5, <2>6 DEF DispatcherStep
<1>10. ASSUME NEW d \in Dispatchers, Crash(d) PROVE Goal
  <2>1. UNCHANGED <<attempts, tries, retries>> /\ crashes' = crashes + 1
    BY <1>10 DEF Crash
  <2>2. job'[e] = job[e] \/ (job[e] \in Unfailed /\ job'[e] \in {"waiting", "failed"})
    <3>1. CASE d \in Slots /\ at[d] = e
      BY <1>10, <3>1 DEF Crash, SetJob, JobInv, TypeOK, Unfailed, Busy
    <3>2. CASE ~(d \in Slots /\ at[d] = e)
      BY <1>10, <3>2 DEF Crash, SetJob, TypeOK
    <3> QED BY <3>1, <3>2
  <2>3. Q' \in Nat /\ Q <= Q'
    BY <1>0, <2>1, <2>2 DEF Q, QueueClaims
  <2>4. Pending(e)' \subseteq Pending(e)
    BY <1>10 DEF Crash, Pending, TypeOK
  <2> QED BY <1>0, <1>2, <1>6, <2>1, <2>2, <2>3, <2>4
<1>11. ASSUME NEW d \in Dispatchers, FailToRecord(d) PROVE Goal
  <2>1. UNCHANGED <<attempts, candidates, retries>> /\ crashes' = crashes + 1 /\ Busy(d)
    BY <1>11 DEF FailToRecord
  <2>2. CASE d \in Slots /\ at[d] = e
    <3>1. job[e] = "active" /\ tries'[e] = tries[e] + 1 /\ job'[e] = Retry(e)
      BY <1>11, <2>1, <2>2 DEF FailToRecord, SetJob, JobInv, TypeOK
    <3>2. /\ tries'[e] <= QueueAttempts + retries'
          /\ job'[e] \in Unfailed => tries'[e] < QueueAttempts + retries'
          /\ job'[e] \notin {"active", "completed"}
      BY <1>0, <2>1, <3>1 DEF Retry, Unfailed
    <3>3. Q' = Q + 1
      BY <1>0, <2>1, <3>1, <3>2 DEF Q, QueueClaims
    <3> QED BY <1>0, <1>1, <1>4, <2>1, <3>2, <3>3
  <2>3. CASE ~(d \in Slots /\ at[d] = e)
    <3>1. job'[e] = job[e] /\ tries'[e] = tries[e]
      BY <1>11, <2>3 DEF FailToRecord, SetJob, TypeOK
    <3>2. Q' = Q + 1
      BY <1>0, <2>1, <3>1 DEF Q, QueueClaims
    <3> QED BY <1>0, <1>1, <1>4, <2>1, <3>1, <3>2
  <2> QED BY <2>2, <2>3
<1>12. ASSUME UNCHANGED vars PROVE Goal
  <2>1. UNCHANGED <<attempts, tries, job, candidates, crashes, retries>>
    BY <1>12 DEF vars
  <2> QED BY <1>0, <1>1, <1>4, <1>7, <2>1
<1>13. Goal
  <2> HIDE DEF Goal
  <2> QED BY <1>8, <1>9, <1>10, <1>11, <1>12 DEF Next
<1> QED BY <1>13 DEF P, S, Q

\* The cap on attempts is overshot by at most one claim of each overlapping
\* sweep, one of each attempt of the job and one of each stalled job.
THEOREM AttemptsBoundedHolds == Spec => []AttemptsBounded
<1>1. Init => JobInv /\ AttemptsInv
  <2> SUFFICES ASSUME Init PROVE JobInv /\ AttemptsInv
    OBVIOUS
  <2>1. JobInv
    BY DEF Init, JobInv, Busy, Dispatchers
  <2>2. \A e \in Events : Pending(e) = {}
    BY DEF Init, Pending
  <2>3. \A e \in Events : Cardinality(Pending(e)) = 0 /\ Cardinality(Sweeps) \in Nat
    BY <2>2, PendingCount, FS_EmptySet
  <2>4. AttemptsInv
    BY <2>3, OutboxAssumption DEF Init, AttemptsInv, QueueClaims, Unfailed
  <2> QED BY <2>1, <2>4
<1>2. IInv /\ JobInv /\ AttemptsInv /\ [Next]_vars => JobInv' /\ AttemptsInv'
  BY JobStep, AttemptsStep DEF IInv
<1>3. TypeOK /\ AttemptsInv => AttemptsBounded
  <2> SUFFICES ASSUME TypeOK, AttemptsInv, NEW e \in Events
               PROVE  attempts[e] < RelayMaxAttempts + Cardinality(Sweeps) + QueueAttempts
                                   + crashes + retries
    BY DEF AttemptsBounded
  <2>1. Cardinality(Pending(e)) \in Nat /\ Cardinality(Sweeps) \in Nat
    BY PendingCount
  <2>2. tries[e] \in Nat /\ QueueClaims(e) <= QueueAttempts + crashes + retries
    BY OutboxAssumption DEF TypeOK, AttemptsInv, QueueClaims, Unfailed
  <2>3. QueueClaims(e) \in Nat /\ attempts[e] \in Nat /\ crashes \in Nat /\ retries \in Nat
    BY DEF TypeOK, QueueClaims
  <2> QED BY <2>1, <2>2, <2>3, OutboxAssumption DEF AttemptsInv
<1> QED BY InvCorrect, TypeCorrect, <1>1, <1>2, <1>3, PTL DEF Spec
=============================================================================
