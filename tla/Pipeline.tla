------------------------------ MODULE Pipeline ------------------------------
(***************************************************************************)
(* The order pipeline (src/pipeline), its BullMQ queue, the courier's      *)
(* idempotency key, and what reviewers and operators do to a job while     *)
(* runs of it are in flight (src/api/caretakerRoutes.ts, pipelineRoutes.ts *)
(* and dlqRoutes.ts), for one email and its one order number.              *)
(*                                                                         *)
(* A run is one call of processPipelineJob: by the queue, for one of the   *)
(* BullMQ jobs of the email, or by a reviewer's approval, un-awaited and   *)
(* with no retry.  Runs of one email interleave at every await.            *)
(***************************************************************************)
EXTENDS Integers, Sequences, FiniteSets

CONSTANTS Jobs,        \* BullMQ jobs of the email: the first and one per reprocess
          FirstJob,    \* `pipeline-<emailId>`
          Resumes,     \* runs that approvals may start
          Overrides,   \* whether resolutions may carry overrides, a set of BOOLEANs
          Attempts,    \* attempts of a BullMQ job
          MaxRows,     \* bound on the rows made in pipeline_jobs
          MaxTrouble   \* bound on faults and interventions together

ASSUME PipelineAssumption ==
  /\ IsFiniteSet(Jobs) /\ IsFiniteSet(Resumes) /\ Jobs \cap Resumes = {}
  /\ FirstJob \in Jobs
  /\ Overrides \subseteq BOOLEAN
  /\ Attempts \in Nat \ {0}
  /\ MaxRows \in Nat /\ MaxTrouble \in Nat

Runs == Jobs \cup Resumes
None == 0

\* The waybill of an answer that has no tracking reference: a 2xx whose body is
\* not JSON, or is not what the code looks for, is a submission all the same.
Null == -1
Waybills == Nat \cup {Null}

VARIABLES
  row,        \* the email's row in pipeline_jobs, None when there is none
  rows,       \* rows made so far
  status,     \* that row's status
  evals,      \* its caretaker_evaluations, in created_at order
  order,      \* the row in orders: kind, the row that made it, waybill
  told,       \* the waybill of the last ORDER_CONFIRMED
  key,        \* the pudo_shipment key: its state, and the waybill it caches
  shipments,  \* shipments the courier has made; their numbers are waybills
  queue,      \* state of each BullMQ job
  tries,      \* attempts each has used
  toEnqueue,  \* jobs a reprocess has still to add
  phase,      \* where each run is
  mine,       \* the row each run works for
  corrected,  \* runs whose customer data carries the reviewer's overrides
  waybill,    \* the waybill each run has been answered
  (* history *)
  wanted,     \* runs started by an approval with overrides
  deferred,   \* some run has left the submission to another
  cleared,    \* times the key has been cleared
  faults,     \* crashes, lost answers, best-effort writes that failed
  human       \* interventions of reviewers and operators

rowVars == <<row, rows, status>>
courierVars == <<key, shipments, cleared>>
orderVars == <<order, told>>
worldVars == <<evals, orderVars, courierVars>>
queueVars == <<queue, tries, toEnqueue>>
runVars == <<phase, mine, corrected, waybill, wanted>>
history == <<deferred, faults, human>>
vars == <<rowVars, worldVars, queueVars, runVars, history>>

Status == {"pending", "processing", "completed", "failed", "pending_review", "rejected"}
Kind == {"none", "submitted", "manual"}
Resolution == {"open", "approved", "rejected"}
JobState == {"none", "waiting", "active", "completed", "failed"}
KeyState == {"absent", "busy", "done", "failed"}

\* The phases in which an error reaches the catch of processPipelineJob.
Guarded == {"receive", "insert", "normalize", "validate", "assemble", "route",
            "diverted", "review", "judge", "approve", "reject", "pause"}
Phase == Guarded \cup {"idle", "resume", "submit", "call", "commit", "unsubmitted"}

\* terminalStates.
Terminal == {"completed", "pending_review", "rejected"}

Init ==
  /\ row = None /\ rows = 0 /\ status = "pending" /\ evals = <<>>
  /\ order = [kind |-> "none", row |-> None, waybill |-> None] /\ told = None
  /\ key = [state |-> "absent", waybill |-> None]
  /\ shipments = 0
  /\ queue = [j \in Jobs |-> "none"] /\ tries = [j \in Jobs |-> 0] /\ toEnqueue = {}
  /\ phase = [r \in Runs |-> "idle"]
  /\ mine = [r \in Runs |-> None]
  /\ corrected = {} /\ wanted = {}
  /\ waybill = [r \in Runs |-> None]
  /\ deferred = FALSE
  /\ cleared = 0 /\ faults = 0 /\ human = 0

Fault == faults + human < MaxTrouble /\ faults' = faults + 1

At(r, p) == phase[r] = p
Goto(r, p) == phase' = [phase EXCEPT ![r] = p]
Move(r, p) == Goto(r, p) /\ UNCHANGED <<queueVars, mine, corrected, waybill,
                                        wanted>>

\* The run's row is still there.  Without it every insert of a stage result
\* breaks its foreign key, and an UPDATE matches nothing.
Alive(r) == mine[r] = row /\ row # None

\* UPDATE pipeline_jobs SET status WHERE id = the run's row.
SetStatus(r, s) == status' = IF Alive(r) THEN s ELSE status

\* A run ends; its BullMQ job, if it has one, goes to the given state.
EndAs(r, state) ==
  /\ Goto(r, "idle")
  /\ mine' = [mine EXCEPT ![r] = None]
  /\ waybill' = [waybill EXCEPT ![r] = None]
  /\ corrected' = corrected \ {r} /\ wanted' = wanted \ {r}
  /\ queue' = IF r \in Jobs THEN [queue EXCEPT ![r] = state] ELSE queue
  /\ UNCHANGED toEnqueue

\* processPipelineJob returns: BullMQ takes the job for completed, whatever
\* became of the order.
Return(r) == EndAs(r, "completed") /\ UNCHANGED tries

\* processPipelineJob throws: BullMQ tries again, an approval only logs.
Fail(r) ==
  IF r \in Jobs
  THEN /\ tries' = [tries EXCEPT ![r] = @ + 1]
       /\ EndAs(r, IF tries[r] + 1 < Attempts THEN "waiting" ELSE "failed")
  ELSE EndAs(r, "failed") /\ UNCHANGED tries

-----------------------------------------------------------------------------
(* The queue. *)

\* The trigger of the email worker, and POST /trigger: a job with the fixed
\* id, which BullMQ ignores while it knows one of that id.
Trigger ==
  /\ row = None
  /\ queue[FirstJob] = "none"
  /\ queue' = [queue EXCEPT ![FirstJob] = "waiting"]
  /\ UNCHANGED <<rowVars, worldVars, tries, toEnqueue, runVars, history>>

\* The guard of processPipelineJob: a job that has a terminal or paused
\* status is not run again.
Runnable == row = None \/ status \notin Terminal

Take(j) ==
  /\ j \in Jobs /\ queue[j] = "waiting"
  /\ IF Runnable
     THEN /\ queue' = [queue EXCEPT ![j] = "active"] /\ Goto(j, "receive")
     ELSE /\ queue' = [queue EXCEPT ![j] = "completed"] /\ UNCHANGED phase
  /\ UNCHANGED <<rowVars, worldVars, tries, toEnqueue, mine, corrected,
                 waybill, wanted, history>>

\* The run an approval has started reads the status in its own time.
Resume(r) ==
  /\ At(r, "resume")
  /\ IF Runnable
     THEN Goto(r, "receive") /\ UNCHANGED <<mine, corrected, waybill, wanted,
                                            queueVars>>
     ELSE Return(r)
  /\ UNCHANGED <<rowVars, worldVars, history>>

-----------------------------------------------------------------------------
(* The stages. *)

\* executeEmailReceived looks for the row ...
Receive(r) ==
  /\ At(r, "receive")
  /\ IF row # None
     THEN Goto(r, "normalize") /\ mine' = [mine EXCEPT ![r] = row]
     ELSE Goto(r, "insert") /\ UNCHANGED mine
  /\ UNCHANGED <<rowVars, worldVars, queueVars, corrected, waybill, wanted,
                 history>>

\* ... and inserts it; (email_id, tenant_id) is unique, so the insert throws
\* (Throw) when another run has been faster.
InsertRow(r) ==
  /\ At(r, "insert") /\ row = None /\ rows < MaxRows
  /\ row' = rows + 1 /\ rows' = rows + 1
  /\ status' = "processing" /\ evals' = <<>>
  /\ mine' = [mine EXCEPT ![r] = rows + 1]
  /\ Goto(r, "normalize")
  /\ UNCHANGED <<orderVars, courierVars, queueVars, corrected, waybill, wanted,
                 history>>

\* One stage whose result is recorded and that leaves the job in a status.
Stage(r, from, s, to) ==
  /\ At(r, from) /\ Alive(r)
  /\ status' = s /\ Goto(r, to)
  /\ UNCHANGED <<row, rows, worldVars, queueVars, mine, corrected, waybill,
                 wanted, history>>

Normalize(r) == Stage(r, "normalize", "processing", "validate")
Validate(r) == Stage(r, "validate", "processing", "assemble")

\* The data is not valid: the job is failed, but the run returns.
Invalid(r) ==
  /\ At(r, "validate") /\ Alive(r)
  /\ status' = "failed"
  /\ Return(r)
  /\ UNCHANGED <<row, rows, worldVars, history>>

\* executeCustomerData takes the overrides of the newest evaluation.
Assemble(r) ==
  /\ At(r, "assemble") /\ Alive(r)
  /\ corrected' = IF evals # <<>> /\ evals[Len(evals)].overrides
                  THEN corrected \cup {r} ELSE corrected \ {r}
  /\ Goto(r, "route")
  /\ UNCHANGED <<rowVars, worldVars, queueVars, mine, waybill, wanted, history>>

\* divertToManualQueue: the order is inserted or, if there is one already,
\* flipped into the manual queue, shipped or not, unless its route (which is
\* abstracted: a manual order that was shipped later keeps it) is that one.
Divert(r) ==
  /\ At(r, "route")
  /\ \/ /\ order.kind = "none" /\ Alive(r)
        /\ order' = [kind |-> "manual", row |-> mine[r], waybill |-> None]
     \/ /\ order.kind # "none"
        /\ order' \in {order, [order EXCEPT !.kind = "manual"]}
  /\ Move(r, "diverted")
  /\ UNCHANGED <<rowVars, evals, told, courierVars, history>>

Diverted(r) ==
  /\ At(r, "diverted")
  /\ SetStatus(r, "completed")
  /\ Return(r)
  /\ UNCHANGED <<row, rows, worldVars, history>>

\* executePayloadCreated already marks the job completed.
Payload(r) == Stage(r, "route", "completed", "review")

HasApproval == \E i \in DOMAIN evals : evals[i].resolution = "approved"
HasOpen == \E i \in DOMAIN evals : evals[i].resolution = "open"
Unresolved == [resolution |-> "open", overrides |-> FALSE]

\* evaluate: a human's approval of the job is trusted, and recorded as an
\* evaluation of its own; a disabled caretaker approves and records nothing.
Review(r) ==
  /\ At(r, "review")
  /\ \/ HasApproval /\ Alive(r) /\ evals' = Append(evals, Unresolved) /\ Goto(r, "approve")
     \/ ~(HasApproval /\ Alive(r)) /\ Goto(r, "judge") /\ UNCHANGED evals
     \/ ~(HasApproval /\ Alive(r)) /\ Alive(r) /\ Goto(r, "approve") /\ UNCHANGED evals
  /\ UNCHANGED <<rowVars, orderVars, courierVars, queueVars, mine, corrected,
                 waybill, wanted, history>>

\* The verdict of the rules and the model goes into the open evaluation, or
\* into a new one.
Judge(r) ==
  /\ At(r, "judge") /\ Alive(r)
  /\ evals' = IF HasOpen THEN evals ELSE Append(evals, Unresolved)
  /\ \E to \in {"approve", "pause", "reject"} : Goto(r, to)
  /\ UNCHANGED <<rowVars, orderVars, courierVars, queueVars, mine, corrected,
                 waybill, wanted, history>>

\* The stage result of an approval is recorded.
Approved(r) ==
  /\ At(r, "approve") /\ Alive(r)
  /\ Move(r, "submit")
  /\ UNCHANGED <<rowVars, worldVars, history>>

\* The status the verdict calls for is written last, whatever the reviewer
\* has done in the meantime.
Halt(r, p, s) ==
  /\ At(r, p)
  /\ SetStatus(r, s)
  /\ Return(r)
  /\ UNCHANGED <<row, rows, worldVars, history>>

\* Mutant: the catch throws without marking the job.
ThrowUnmarked(r) ==
  /\ phase[r] \in Guarded
  /\ Fail(r)
  /\ UNCHANGED <<rowVars, worldVars, history>>

\* An error in a stage: the catch marks the email's job failed, whichever run
\* it belongs to, or fails to, and throws.
Throw(r) ==
  /\ phase[r] \in Guarded
  /\ \/ status' = (IF row # None THEN "failed" ELSE status) /\ UNCHANGED faults
     \/ Fault /\ UNCHANGED status
  /\ Fail(r)
  /\ UNCHANGED <<row, rows, worldVars, deferred, human>>

-----------------------------------------------------------------------------
(* COURIER_SUBMITTED. *)

\* An UPDATE of the key's row, which matches nothing once it is deleted.
SetKey(k) == key' = IF key.state = "absent" THEN key ELSE k

\* Mutant: the key is only looked at when it is completed.
SubmitAnyway(r) ==
  /\ At(r, "submit") /\ key.state # "done"
  /\ key' = [key EXCEPT !.state = "busy"]
  /\ Move(r, "call")
  /\ UNCHANGED <<rowVars, evals, orderVars, shipments, cleared, history>>

\* withIdempotency: the first caller calls the courier ...
Submit(r) ==
  /\ At(r, "submit") /\ key.state \in {"absent", "failed"}
  /\ key' = [key EXCEPT !.state = "busy"]
  /\ Move(r, "call")
  /\ UNCHANGED <<rowVars, evals, orderVars, shipments, cleared, history>>

\* ... a later one gets the cached answer ...
Cached(r) ==
  /\ At(r, "submit") /\ key.state = "done"
  /\ waybill' = [waybill EXCEPT ![r] = key.waybill]
  /\ Goto(r, "commit")
  /\ UNCHANGED <<rowVars, worldVars, queueVars, mine, corrected, wanted,
                 history>>

\* ... and one that comes while the call is in flight returns and leaves the
\* job as it is: completed, since the payload stage.
Defer(r) ==
  /\ At(r, "submit") /\ key.state = "busy"
  /\ deferred' = TRUE
  /\ Return(r)
  /\ UNCHANGED <<rowVars, worldVars, faults, human>>

\* The courier answers 2xx: with the tracking reference of the shipment it has
\* made, or without one, and then it may have made none.
Ship(r) ==
  /\ At(r, "call")
  /\ \E answer \in {shipments + 1, Null} :
       /\ shipments' \in IF answer = Null THEN {shipments, shipments + 1} ELSE {answer}
       /\ SetKey([state |-> "done", waybill |-> answer])
       /\ waybill' = [waybill EXCEPT ![r] = answer]
  /\ Goto(r, "commit")
  /\ UNCHANGED <<rowVars, evals, orderVars, cleared, queueVars, mine,
                 corrected, wanted, history>>

\* The call fails.  It may have timed out after the shipment was made, and
\* the failure or the answer may fail to be recorded.
CallFails(r) ==
  /\ At(r, "call")
  /\ LET failed == [key EXCEPT !.state = "failed"]
     IN \/ SetKey(failed) /\ UNCHANGED <<shipments, faults>>
        \/ /\ Fault
           /\ shipments' \in {shipments, shipments + 1}
           /\ SetKey(failed) \/ UNCHANGED key
  /\ Move(r, "unsubmitted")
  /\ UNCHANGED <<rowVars, evals, orderVars, cleared, deferred, human>>

\* Mutant: the order and its event are committed with a fresh read of the key.
CommitKey(r) ==
  /\ At(r, "commit") /\ Alive(r)
  /\ order' = [kind |-> "submitted", waybill |-> key.waybill,
               row |-> IF order.kind = "none" THEN mine[r] ELSE order.row]
  /\ told' = waybill[r]
  /\ status' = "completed"
  /\ Return(r)
  /\ UNCHANGED <<row, rows, evals, courierVars, history>>

\* One transaction: the order, the ORDER_CONFIRMED event, the status.
Commit(r) ==
  /\ At(r, "commit") /\ Alive(r)
  /\ order' = [kind |-> "submitted", waybill |-> waybill[r],
               row |-> IF order.kind = "none" THEN mine[r] ELSE order.row]
  /\ told' = waybill[r]
  /\ status' = "completed"
  /\ Return(r)
  /\ UNCHANGED <<row, rows, evals, courierVars, history>>

\* The claim fails, or the transaction does, always when the row is gone, and
\* rolls back.
Rollback(r) ==
  /\ phase[r] \in {"submit", "commit"}
  /\ Move(r, "unsubmitted")
  /\ UNCHANGED <<rowVars, worldVars, history>>

\* The failure is recorded, or that fails as well, and the run returns: the
\* queue does not try again.
RecordFailure(r) ==
  /\ At(r, "unsubmitted")
  /\ \/ SetStatus(r, "failed") /\ UNCHANGED faults
     \/ Fault /\ UNCHANGED status
  /\ Return(r)
  /\ UNCHANGED <<row, rows, worldVars, deferred, human>>

\* A claim whose owner is gone is taken for stale, in the end.
Lapse ==
  /\ key.state = "busy" /\ \A r \in Runs : ~At(r, "call")
  /\ key' = [key EXCEPT !.state = "failed"]
  /\ UNCHANGED <<rowVars, evals, orderVars, shipments, cleared, queueVars,
                 runVars, history>>

-----------------------------------------------------------------------------
(* Crashes. *)

\* A run's process dies, the courier having made the shipment or not.  BullMQ
\* hands its job out again or fails it; an approval's run is lost.
Crash(r) ==
  /\ ~At(r, "idle")
  /\ Fault
  /\ shipments' \in IF At(r, "call") THEN {shipments, shipments + 1} ELSE {shipments}
  /\ \E state \in {"waiting", "failed"} : EndAs(r, state)
  /\ UNCHANGED <<rowVars, evals, orderVars, key, cleared, tries, deferred,
                 human>>

-----------------------------------------------------------------------------
(* Reviewers and operators.  None of the routes looks at the job's status. *)

Act == faults + human < MaxTrouble /\ human' = human + 1

Resolve(i, resolution, overrides) ==
  evals' = [evals EXCEPT ![i] = [resolution |-> resolution, overrides |-> overrides]]

\* POST /evaluations/:id/resolve, approved: the evaluation, the status, and a
\* run nobody waits for.
Approve(i, r, overrides) ==
  /\ Act
  /\ r \in Resumes /\ At(r, "idle")
  /\ Resolve(i, "approved", overrides)
  /\ status' = "processing"
  /\ Goto(r, "resume")
  /\ wanted' = IF overrides THEN wanted \cup {r} ELSE wanted
  /\ UNCHANGED <<row, rows, orderVars, courierVars, queueVars, mine, corrected,
                 waybill, deferred, faults>>

\* The same route, rejected: overrides may come with it as well.
Reject(i, overrides) ==
  /\ Act
  /\ Resolve(i, "rejected", overrides)
  /\ status' = "rejected"
  /\ UNCHANGED <<row, rows, orderVars, courierVars, queueVars, runVars,
                 deferred, faults>>

\* POST /evaluations/:id/reopen keeps the overrides.
Reopen(i) ==
  /\ Act
  /\ evals' = [evals EXCEPT ![i].resolution = "open"]
  /\ status' = "pending_review"
  /\ UNCHANGED <<row, rows, orderVars, courierVars, queueVars, runVars,
                 deferred, faults>>

\* POST /jobs/:id/address writes the overrides to the newest evaluation, or a
\* new one, and approves it if it is open.  The transaction that would send
\* the job back to the queue sets current_stage, which is NOT NULL, to null:
\* it always rolls back and the request ends there.
FixAddress ==
  /\ Act
  /\ row # None
  /\ LET n == Len(evals)
         resolved(e) == IF e.resolution = "open" THEN "approved" ELSE e.resolution
     IN evals' =
          IF n = 0 THEN <<[resolution |-> "approved", overrides |-> TRUE]>>
          ELSE [evals EXCEPT ![n] = [resolution |-> resolved(@), overrides |-> TRUE]]
  /\ UNCHANGED <<rowVars, orderVars, courierVars, queueVars, runVars, deferred,
                 faults>>

\* POST /jobs/:id/reprocess deletes the job, its evaluations and its order in
\* one transaction ...
Reprocess(j) ==
  /\ Act
  /\ row # None
  /\ j \in Jobs \ {FirstJob} /\ queue[j] = "none" /\ j \notin toEnqueue
  /\ order' = IF order.row = row
              THEN [kind |-> "none", row |-> None, waybill |-> None] ELSE order
  /\ row' = None /\ status' = "pending" /\ evals' = <<>>
  /\ toEnqueue' = toEnqueue \cup {j}
  /\ UNCHANGED <<rows, told, courierVars, queue, tries, runVars, deferred,
                 faults>>

\* ... and adds a new job afterwards, unless it crashes first.
Enqueue(j) ==
  /\ j \in toEnqueue
  /\ toEnqueue' = toEnqueue \ {j}
  /\ \/ queue' = [queue EXCEPT ![j] = "waiting"] /\ UNCHANGED faults
     \/ Fault /\ UNCHANGED queue
  /\ UNCHANGED <<rowVars, worldVars, tries, runVars, deferred, human>>

\* DELETE /idempotency/:key: the next run calls the courier again.
ClearKey ==
  /\ Act
  /\ key' = [state |-> "absent", waybill |-> None]
  /\ cleared' = cleared + 1
  /\ UNCHANGED <<rowVars, evals, orderVars, shipments, queueVars, runVars,
                 deferred, faults>>

\* POST /dlq/order-pipeline/retry.
RetryJob(j) ==
  /\ Act
  /\ queue[j] = "failed"
  /\ queue' = [queue EXCEPT ![j] = "waiting"]
  /\ UNCHANGED <<rowVars, worldVars, tries, toEnqueue, runVars, deferred,
                 faults>>

\* POST /dlq/order-pipeline/discard, of a job no worker has.
DiscardJob(j) ==
  /\ Act
  /\ queue[j] \in {"waiting", "failed"}
  /\ queue' = [queue EXCEPT ![j] = "none"]
  /\ UNCHANGED <<rowVars, worldVars, tries, toEnqueue, runVars, deferred, faults>>

-----------------------------------------------------------------------------
RunStep(r) ==
  \/ Take(r) \/ Resume(r) \/ Receive(r) \/ InsertRow(r) \/ Normalize(r)
  \/ Validate(r) \/ Invalid(r) \/ Assemble(r) \/ Divert(r) \/ Diverted(r)
  \/ Payload(r) \/ Review(r) \/ Judge(r) \/ Approved(r)
  \/ Halt(r, "reject", "rejected") \/ Halt(r, "pause", "pending_review")
  \/ Submit(r) \/ Cached(r) \/ Defer(r) \/ Ship(r) \/ CallFails(r)
  \/ Commit(r) \/ Rollback(r) \/ RecordFailure(r) \/ Throw(r)

HumanStep ==
  \/ FixAddress \/ ClearKey
  \/ \E i \in DOMAIN evals :
       \/ Reopen(i)
       \/ \E overrides \in Overrides :
            Reject(i, overrides) \/ \E r \in Resumes : Approve(i, r, overrides)
  \/ \E j \in Jobs : Reprocess(j) \/ RetryJob(j) \/ DiscardJob(j)

Next ==
  \/ Trigger \/ Lapse \/ HumanStep
  \/ \E r \in Runs : RunStep(r) \/ Crash(r)
  \/ \E j \in Jobs : Enqueue(j)

Spec == Init /\ [][Next]_vars

-----------------------------------------------------------------------------
(* Properties. *)

TypeOK ==
  /\ row \in Nat /\ rows \in Nat /\ status \in Status
  /\ evals \in Seq([resolution : Resolution, overrides : BOOLEAN])
  /\ order \in [kind : Kind, row : Nat, waybill : Waybills] /\ told \in Waybills
  /\ key \in [state : KeyState, waybill : Waybills] /\ shipments \in Nat
  /\ queue \in [Jobs -> JobState] /\ tries \in [Jobs -> Nat]
  /\ toEnqueue \in SUBSET Jobs
  /\ phase \in [Runs -> Phase] /\ mine \in [Runs -> Nat]
  /\ waybill \in [Runs -> Waybills]
  /\ corrected \in SUBSET Runs /\ wanted \in SUBSET Runs
  /\ deferred \in BOOLEAN
  /\ cleared \in Nat /\ faults \in Nat /\ human \in Nat

\* Whatever runs, retries, approvals and reprocesses of the email overlap, the
\* courier makes one shipment for its order, and one more only for each answer
\* that was lost, each crash, and each key an operator cleared.
ShipmentBudget == shipments <= 1 + faults + cleared

\* An order that is submitted has what the courier answered to one of its
\* submissions, the waybill of a real shipment or, when the answer had no
\* reference, null, and the last ORDER_CONFIRMED tells the customer that very
\* answer: neither an interrupted run, nor a cleared key, nor an answer that
\* came late to another run leaves the two apart.
OrderIsShipped ==
  order.kind = "submitted" =>
    order.waybill \in (1..shipments) \cup {Null} /\ told = order.waybill

\* No run of the email is in flight and none will start by itself.
Quiet ==
  /\ \A r \in Runs : At(r, "idle")
  /\ \A j \in Jobs : queue[j] # "waiting"
  /\ toEnqueue = {}

\* A job at rest that says completed has an order, unless a run left the
\* submission to another or something crashed: errors alone, and whatever
\* reviewers and operators do meanwhile, never lose an order silently.
CompletedHasOrder ==
  Quiet /\ row # None /\ status = "completed" /\ ~deferred /\ faults = 0 =>
    order.kind # "none"

\* A run started by an approval with overrides ships the corrected data:
\* "the next pass merges `overrides` over the AI-extracted data"
\* (src/api/caretakerRoutes.ts:270-271).
OverridesAreShipped ==
  \A r \in wanted : phase[r] \in {"submit", "call", "commit"} => r \in corrected

=============================================================================
