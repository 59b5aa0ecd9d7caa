------------------------------- MODULE Outbox -------------------------------
(***************************************************************************)
(* The transactional outbox (src/events/index.ts): rows of domain_events,  *)
(* the BullMQ queue that dispatches them fast, the relay sweeps that       *)
(* dispatch them durably, and the operator's retry and discard of a job    *)
(* (src/api/dlqRoutes.ts).  No request reaches the routes that retry and   *)
(* discard a row: the queues' own routes, declared first, take their path. *)
(*                                                                         *)
(* Events are numbered by created_at.  A dispatcher is one slot of the     *)
(* BullMQ worker or one relay sweep; setInterval starts a sweep without    *)
(* waiting for the last one, so sweeps overlap.                            *)
(***************************************************************************)
EXTENDS Naturals, FiniteSets

CONSTANTS NumEvents,         \* events emitted, numbered in created_at order
          NumHandlers,       \* subscribers of their type
          Slots,             \* concurrency of the BullMQ worker
          Sweeps,            \* relay sweeps that may overlap
          RelayMaxAttempts,  \* RELAY_MAX_ATTEMPTS
          RelayBatchSize,    \* RELAY_BATCH_SIZE
          QueueAttempts,     \* attempts of a BullMQ job
          MaxCrashes,        \* bound on crashes and on lost final UPDATEs
          MaxRetries         \* bound on the operator's retries and removals of jobs

ASSUME OutboxAssumption ==
  /\ NumEvents \in Nat /\ NumHandlers \in Nat
  /\ RelayMaxAttempts \in Nat \ {0} /\ RelayBatchSize \in Nat \ {0}
  /\ QueueAttempts \in Nat \ {0}
  /\ MaxCrashes \in Nat /\ MaxRetries \in Nat
  /\ IsFiniteSet(Sweeps) /\ Slots \cap Sweeps = {}

Events == 1..NumEvents
Handlers == 1..NumHandlers
Dispatchers == Slots \cup Sweeps
NoEvent == 0

VARIABLES
  status,      \* the status column
  attempts,    \* the dispatch_attempts column
  job,         \* the event's BullMQ job
  tries,       \* times that job has failed (BullMQ's attemptsMade)
  nudging,     \* events whose emitter has yet to add the job
  at,          \* the event each dispatcher has claimed
  done,        \* handlers each dispatcher has run for its event
  threw,       \* dispatchers one of whose handlers has thrown
  candidates,  \* events each sweep has yet to try, in created_at order
  (* history *)
  handled,     \* handlers that have completed for each event
  crashes, retries

rowVars == <<status, attempts>>
queueVars == <<job, tries, nudging>>
workVars == <<at, done, threw>>
vars == <<status, attempts, job, tries, nudging, at, done, threw, candidates,
          handled, crashes, retries>>

Status == {"absent", "pending", "dispatching", "dispatched", "failed"}
Job == {"none", "waiting", "active", "completed", "failed"}

\* Mutants of the claim's WHERE: it also matches an event that is being
\* dispatched, one that is dispatched, or only one never tried.
ClaimsDispatching(e) == status[e] \in {"pending", "failed", "dispatching"}
ClaimsPendingOnly(e) == status[e] = "pending"

\* What claimEvent's WHERE and relaySweep's WHERE select.
Dispatchable(e) == status[e] \in {"pending", "failed"}
Sweepable(e) == Dispatchable(e) /\ attempts[e] < RelayMaxAttempts

Busy(d) == at[d] # NoEvent

Init ==
  /\ status = [e \in Events |-> "absent"]
  /\ attempts = [e \in Events |-> 0]
  /\ job = [e \in Events |-> "none"]
  /\ tries = [e \in Events |-> 0]
  /\ nudging = {}
  /\ at = [d \in Dispatchers |-> NoEvent]
  /\ done = [d \in Dispatchers |-> 0]
  /\ threw = {}
  /\ candidates = [s \in Sweeps |-> {}]
  /\ handled = [e \in Events |-> {}]
  /\ crashes = 0 /\ retries = 0

SetStatus(e, s) == status' = [status EXCEPT ![e] = s]

-----------------------------------------------------------------------------
(* Emission. *)

\* emitEvent with a transaction: the row appears with the COMMIT and no job
\* is added.  (After a rollback the event does not exist.)
EmitInTrx(e) ==
  /\ status[e] = "absent"
  /\ SetStatus(e, "pending")
  /\ UNCHANGED <<attempts, queueVars, workVars, candidates, handled, crashes, retries>>

\* emitEvent without one: the row first, the job afterwards.
Emit(e) ==
  /\ status[e] = "absent"
  /\ SetStatus(e, "pending")
  /\ nudging' = nudging \cup {e}
  /\ UNCHANGED <<attempts, job, tries, workVars, candidates, handled, crashes, retries>>

\* queue.add, or its failure, which is logged and ignored; a crash of the
\* emitter has the effect of a failure.
Nudge(e) ==
  /\ e \in nudging
  /\ nudging' = nudging \ {e}
  /\ job' \in {job, [job EXCEPT ![e] = "waiting"]}
  /\ UNCHANGED <<rowVars, tries, workVars, candidates, handled, crashes, retries>>

-----------------------------------------------------------------------------
(* Dispatch. *)

\* claimEvent succeeds: one UPDATE sets the status and counts the attempt.
Claim(d, e) ==
  /\ Dispatchable(e)
  /\ SetStatus(e, "dispatching")
  /\ attempts' = [attempts EXCEPT ![e] = @ + 1]
  /\ at' = [at EXCEPT ![d] = e]
  /\ UNCHANGED <<done, threw>>

\* claimEvent matches no row: dispatchEvent returns.
Skip(e) == ~Dispatchable(e) /\ UNCHANGED <<rowVars, workVars>>

\* A slot takes a waiting job.  A job whose event is already claimed or
\* dispatched completes at once.
TakeJob(d, e) ==
  /\ d \in Slots /\ ~Busy(d)
  /\ job[e] = "waiting"
  /\ \/ Claim(d, e) /\ job' = [job EXCEPT ![e] = "active"]
     \/ Skip(e) /\ job' = [job EXCEPT ![e] = "completed"]
  /\ UNCHANGED <<tries, nudging, candidates, handled, crashes, retries>>

\* The first RelayBatchSize sweepable events in created_at order.
Batch ==
  {e \in Events : Sweepable(e) /\ Cardinality({f \in 1..e : Sweepable(f)}) <= RelayBatchSize}

\* A tick of the relay reads its candidates; nothing is claimed yet.
StartSweep(d) ==
  /\ d \in Sweeps /\ ~Busy(d)
  /\ candidates[d] = {} /\ Batch # {}
  /\ candidates' = [candidates EXCEPT ![d] = Batch]
  /\ UNCHANGED <<rowVars, queueVars, workVars, handled, crashes, retries>>

\* The sweep tries its oldest candidate; the cap is not looked at again.
TryCandidate(d, e) ==
  /\ d \in Sweeps /\ ~Busy(d)
  /\ e \in candidates[d] /\ \A f \in candidates[d] : e <= f
  /\ candidates' = [candidates EXCEPT ![d] = @ \ {e}]
  /\ Claim(d, e) \/ Skip(e)
  /\ UNCHANGED <<queueVars, handled, crashes, retries>>

\* Mutant: a handler's error is swallowed and the next handler runs.
SwallowError(d) ==
  /\ Busy(d)
  /\ done[d] < NumHandlers
  /\ done' = [done EXCEPT ![d] = @ + 1]
  /\ \E ok \in BOOLEAN :
       handled' = IF ok THEN [handled EXCEPT ![at[d]] = @ \cup {done[d] + 1}] ELSE handled
  /\ UNCHANGED <<rowVars, queueVars, at, threw, candidates, crashes, retries>>

\* The next handler of the event, in subscription order, succeeds or throws.
RunHandler(d) ==
  /\ Busy(d) /\ d \notin threw
  /\ done[d] < NumHandlers
  /\ \/ /\ done' = [done EXCEPT ![d] = @ + 1]
        /\ handled' = [handled EXCEPT ![at[d]] = @ \cup {done[d] + 1}]
        /\ UNCHANGED threw
     \/ threw' = threw \cup {d} /\ UNCHANGED <<done, handled>>
  /\ UNCHANGED <<rowVars, queueVars, at, candidates, crashes, retries>>

\* What happens to a dispatcher's BullMQ job, if it has one.
SetJob(d, state) ==
  job' = IF d \in Slots THEN [job EXCEPT ![at[d]] = state] ELSE job

Release(d) ==
  /\ at' = [at EXCEPT ![d] = NoEvent]
  /\ done' = [done EXCEPT ![d] = 0]
  /\ threw' = threw \ {d}

\* All handlers succeeded (or there are none).
MarkDispatched(d) ==
  /\ Busy(d) /\ d \notin threw
  /\ done[d] = NumHandlers
  /\ SetStatus(at[d], "dispatched")
  /\ SetJob(d, "completed")
  /\ Release(d)
  /\ UNCHANGED <<attempts, tries, nudging, candidates, handled, crashes, retries>>

\* The UPDATE to dispatched fails: it is inside the try, so the event takes
\* the path of a handler that threw.
FailToMark(d) ==
  /\ Busy(d) /\ d \notin threw
  /\ done[d] = NumHandlers /\ NumHandlers > 0
  /\ threw' = threw \cup {d}
  /\ UNCHANGED <<rowVars, queueVars, at, done, candidates, handled, crashes, retries>>

\* A failed job goes back to the queue until its attempts are used up.
Retry(e) == IF tries[e] + 1 < QueueAttempts THEN "waiting" ELSE "failed"

\* A handler threw: the row is failed and the error goes to the queue, or to
\* the sweep, which goes on with its next candidate.
MarkFailed(d) ==
  /\ d \in threw
  /\ SetStatus(at[d], "failed")
  /\ SetJob(d, Retry(at[d]))
  /\ tries' = IF d \in Slots THEN [tries EXCEPT ![at[d]] = @ + 1] ELSE tries
  /\ Release(d)
  /\ UNCHANGED <<attempts, nudging, candidates, handled, crashes, retries>>

-----------------------------------------------------------------------------
(* Crashes and the operator. *)

\* The last UPDATE of a dispatch fails and nothing catches it: the row keeps
\* its status, and the queue or the sweep gets the error.
FailToRecord(d) ==
  /\ Busy(d) /\ (d \in threw \/ NumHandlers = 0)
  /\ crashes < MaxCrashes /\ crashes' = crashes + 1
  /\ SetJob(d, Retry(at[d]))
  /\ tries' = IF d \in Slots THEN [tries EXCEPT ![at[d]] = @ + 1] ELSE tries
  /\ Release(d)
  /\ UNCHANGED <<rowVars, nudging, candidates, handled, retries>>

\* A dispatcher's process dies.  BullMQ hands a stalled job out again, which
\* it does not count as a failure, or fails it.
Crash(d) ==
  /\ crashes < MaxCrashes /\ crashes' = crashes + 1
  /\ Busy(d) \/ (d \in Sweeps /\ candidates[d] # {})
  /\ Release(d)
  /\ candidates' = IF d \in Sweeps THEN [candidates EXCEPT ![d] = {}] ELSE candidates
  /\ IF d \in Slots THEN SetJob(d, "waiting") \/ SetJob(d, "failed") ELSE UNCHANGED job
  /\ UNCHANGED <<rowVars, tries, nudging, handled, retries>>

\* POST /dlq/domain-event-dispatch/retry puts a failed job back, with the
\* failures it has counted.
RetryJob(e) ==
  /\ job[e] = "failed"
  /\ retries < MaxRetries /\ retries' = retries + 1
  /\ job' = [job EXCEPT ![e] = "waiting"]
  /\ UNCHANGED <<rowVars, tries, nudging, workVars, candidates, handled, crashes>>

\* POST /dlq/domain-event-dispatch/discard removes a job no slot has (one that
\* has completed makes no difference any more).
DiscardJob(e) ==
  /\ job[e] \in {"waiting", "failed"}
  /\ retries < MaxRetries /\ retries' = retries + 1
  /\ job' = [job EXCEPT ![e] = "none"]
  /\ UNCHANGED <<rowVars, tries, nudging, workVars, candidates, handled, crashes>>

-----------------------------------------------------------------------------
EventStep(e) ==
  \/ EmitInTrx(e) \/ Emit(e) \/ Nudge(e)
  \/ RetryJob(e) \/ DiscardJob(e)

DispatcherStep(d) ==
  \/ StartSweep(d)
  \/ \E e \in Events : TryCandidate(d, e) \/ TakeJob(d, e)
  \/ RunHandler(d) \/ MarkDispatched(d) \/ FailToMark(d) \/ MarkFailed(d)

Next ==
  \/ \E e \in Events : EventStep(e)
  \/ \E d \in Dispatchers : DispatcherStep(d) \/ FailToRecord(d) \/ Crash(d)

Spec == Init /\ [][Next]_vars

\* The relay ticks for ever, handlers end (their calls have timeouts), and
\* BullMQ hands out waiting jobs.  Operators need not act.
Fairness == \A d \in Dispatchers : WF_vars(DispatcherStep(d))

FairSpec == Spec /\ Fairness

-----------------------------------------------------------------------------
(* Properties. *)

TypeOK ==
  /\ status \in [Events -> Status]
  /\ attempts \in [Events -> Nat]
  /\ job \in [Events -> Job]
  /\ tries \in [Events -> Nat]
  /\ nudging \in SUBSET Events
  /\ at \in [Dispatchers -> Events \cup {NoEvent}]
  /\ done \in [Dispatchers -> 0..NumHandlers]
  /\ threw \in SUBSET Dispatchers
  /\ candidates \in [Sweeps -> SUBSET Events]
  /\ handled \in [Events -> SUBSET Handlers]
  /\ crashes \in Nat /\ retries \in Nat

\* "Prevents two workers from dispatching the same event in parallel":
\* whichever of the slots and overlapping sweeps has an event, nobody else
\* has it, and its row says so until that dispatcher is done with it.
OneDispatcher ==
  \A d \in Dispatchers : Busy(d) =>
    /\ status[at[d]] = "dispatching"
    /\ \A c \in Dispatchers \ {d} : at[c] # at[d]

\* An event is only marked dispatched when every handler has completed for
\* it, whatever retries, crashes and claims came before.
DispatchedMeansHandled ==
  \A e \in Events : status[e] = "dispatched" =>
    handled[e] = Handlers

\* A dispatched event is never dispatched again: no late failure, stale sweep
\* candidate or redelivered job takes it back.
DispatchedIsFinal ==
  [][\A e \in Events : status[e] = "dispatched" =>
       status'[e] = "dispatched" /\ handled'[e] = handled[e]]_vars

\* The relay's cap does not bind the queue, and overlapping sweeps read
\* candidates before they claim; both overshoot the cap, but no further than
\* one claim for each sweep, each attempt of the job, each stalled job and
\* each operator's retry of one.
AttemptsBounded ==
  \A e \in Events :
    attempts[e] < RelayMaxAttempts + Cardinality(Sweeps) + QueueAttempts
                    + crashes + retries

\* An event whose dispatcher is gone.
Orphaned(e) == status[e] = "dispatching" /\ \A d \in Dispatchers : at[d] # e

\* An event the relay no longer tries.
Exhausted(e) == status[e] = "failed" /\ attempts[e] >= RelayMaxAttempts

\* Every committed event ends up dispatched, out of attempts, or orphaned.
Settles ==
  \A e \in Events : status[e] = "pending" ~>
    (status[e] = "dispatched" \/ Exhausted(e) \/ Orphaned(e))

=============================================================================
