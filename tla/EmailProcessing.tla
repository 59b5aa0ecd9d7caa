--------------------------- MODULE EmailProcessing ---------------------------
(***************************************************************************)
(* The life of one email's row in ingested_emails and of its BullMQ job:   *)
(* the poller that has inserted the row adds the job and then marks the    *)
(* row (src/workers/ingestionWorker.ts), while the processing worker may   *)
(* be running the job already (src/workers/processingWorker.ts).           *)
(* EmailIngestion says which emails get a row.  The email is one of an     *)
(* active tenant; any other never enters the pipeline.                     *)
(***************************************************************************)
EXTENDS Naturals

CONSTANTS Attachments,    \* of the email
          Refused,        \* those that are too large or of a type not allowed
          MaxRetryCount,  \* attempts of a job
          MaxStalls,      \* bound on crashes of the worker
          MaxErrors,    \* bound on failed attempts and failed writes
          MaxRetries      \* bound on the operator's retries

ASSUME ProcessingAssumption ==
  /\ MaxRetryCount \in Nat \ {0} /\ Refused \subseteq Attachments
  /\ MaxStalls \in Nat /\ MaxErrors \in Nat /\ MaxRetries \in Nat

VARIABLES
  poller,     \* what the poller has still to do for this email
  status,     \* ingested_emails.status
  job,        \* the state of the job; while it is active, where its worker is
  tries,      \* times the job has failed (BullMQ's attemptsMade)
  left,       \* what the job has left: a dead-letter row, a pipeline job
  todo,       \* attachments the attempt has still to store
  filed,      \* the statuses of each attachment's rows in email_attachments
  (* history *)
  lapses,     \* the poller's mark came last; the job's record was lost
  stalls, failures, retries

counters == <<stalls, failures, retries>>
jobVars == <<poller, status, job, tries, left, todo, filed, lapses, counters>>

Status == {"fetched", "queued", "processing", "processed", "failed", "dead_lettered"}
Active == {"parsing", "storing", "triggering", "burying", "discarding"}
Job == {"none", "waiting", "completed", "failed", "removed"} \cup Active
Outcome == {"dead letter", "pipeline job"}
Filing == {"stored", "rejected", "error"}
Lapse == {"late mark", "lost record"}

JobInit ==
  /\ poller = "enqueueing" /\ status = "fetched" /\ job = "none"
  /\ tries = 0 /\ left = {} /\ lapses = {}
  /\ todo = {} /\ filed = [a \in Attachments |-> {}]
  /\ stalls = 0 /\ failures = 0 /\ retries = 0

Fail == failures < MaxErrors /\ failures' = failures + 1 /\ UNCHANGED <<stalls, retries>>

\* The code logs an error, or the process dies, where the outcome was to be
\* recorded.
LoseRecord == lapses' = lapses \cup {"lost record"}

-----------------------------------------------------------------------------
(* The poller. *)

AddJob ==
  /\ poller = "enqueueing"
  /\ poller' = "marking"
  /\ job' = "waiting"
  /\ UNCHANGED <<status, tries, left, todo, filed, lapses, counters>>

\* The UPDATE to queued has no condition on the status.
MarkRow ==
  /\ poller = "marking"
  /\ poller' = "done"
  /\ status' = "queued"
  /\ lapses' = IF job \in {"triggering", "completed", "failed"} THEN lapses \cup {"late mark"}
                                                               ELSE lapses
  /\ UNCHANGED <<job, tries, left, todo, filed, counters>>

\* An error or a crash in either step: the poller never comes back to it.
GiveUp ==
  /\ poller # "done"
  /\ poller' = "done"
  /\ UNCHANGED <<status, job, tries, left, todo, filed, lapses, counters>>

-----------------------------------------------------------------------------
(* The processing worker. *)

\* Mutants: the job waits for the poller's mark; the job reads the row before
\* it changes its status, and stops if the email is processed already.
StartWhenQueued ==
  /\ job = "waiting" /\ status \notin {"fetched"}
  /\ job' = "parsing"
  /\ status' = "processing"
  /\ UNCHANGED <<poller, tries, left, todo, filed, lapses, counters>>

StartUnlessProcessed ==
  /\ job = "waiting"
  /\ IF status = "processed" THEN job' = "completed" /\ UNCHANGED status
                             ELSE job' = "parsing" /\ status' = "processing"
  /\ UNCHANGED <<poller, tries, left, todo, filed, lapses, counters>>

\* processEmailJob starts by setting the status.  The later test for an email
\* that is processed already reads what this wrote and never succeeds; the
\* result of checkDuplicate is not used.
Start ==
  /\ job = "waiting"
  /\ job' = "parsing"
  /\ status' = "processing"
  /\ UNCHANGED <<poller, tries, left, todo, filed, lapses, counters>>

\* The email's contents are stored.
StoreEmail ==
  /\ job = "parsing"
  /\ job' = "storing"
  /\ todo' = Attachments
  /\ UNCHANGED <<poller, status, tries, left, filed, lapses, counters>>

\* An attachment is refused, or its file is written and then its row (the virus
\* scan is a stub); an error leaves a row as well.  An earlier attempt's rows
\* stay.  If that row's insert throws, so does the attempt.
StoreAttachment(a) ==
  /\ job = "storing" /\ a \in todo
  /\ todo' = todo \ {a}
  /\ \/ /\ filed' = [filed EXCEPT ![a] = @ \cup {IF a \in Refused THEN "rejected" ELSE "stored"}]
        /\ UNCHANGED counters
     \/ /\ filed' = [filed EXCEPT ![a] = @ \cup {"error"}]
        /\ Fail
  /\ UNCHANGED <<poller, status, job, tries, left, lapses>>

Process ==
  /\ job = "storing" /\ todo = {}
  /\ job' = "triggering"
  /\ status' = "processed"
  /\ UNCHANGED <<poller, tries, left, todo, filed, lapses, counters>>

\* triggerPipelineForEmail: the pipeline job has a fixed id, so adding it again
\* changes nothing; an error is logged, and the email's job completes.
Trigger ==
  /\ job = "triggering"
  /\ job' = "completed"
  /\ \/ left' = left \cup {"pipeline job"} /\ UNCHANGED <<lapses, counters>>
     \/ Fail /\ LoseRecord /\ UNCHANGED left
  /\ UNCHANGED <<poller, status, tries, todo, filed>>

\* What BullMQ does with a job whose processor has thrown.
Requeued == IF tries + 1 < MaxRetryCount THEN "waiting" ELSE "failed"

LastAttempt == tries + 1 >= MaxRetryCount

\* An attempt throws and the catch block records it.
FailAttempt ==
  /\ job \in {"parsing", "storing"}
  /\ Fail
  /\ status' = "failed"
  /\ IF LastAttempt
       THEN job' = "burying" /\ UNCHANGED tries
       ELSE job' = Requeued /\ tries' = tries + 1
  /\ UNCHANGED <<poller, left, todo, filed, lapses>>

\* An attempt throws, and so does the catch block before the dead-letter step.
FailToRecord ==
  /\ job \in {"parsing", "storing"}
  /\ Fail
  /\ status' \in {status, "failed"}
  /\ tries' = tries + 1
  /\ job' = Requeued
  /\ IF LastAttempt THEN LoseRecord ELSE UNCHANGED lapses
  /\ UNCHANGED <<poller, left, todo, filed>>

\* Mutant: the dead-letter row is inserted and the email stays failed.
BuryOnly ==
  /\ job = "burying"
  /\ job' = Requeued /\ tries' = tries + 1
  /\ left' = left \cup {"dead letter"}
  /\ UNCHANGED <<poller, status, todo, filed, lapses, counters>>

\* moveToDeadLetter logs and swallows the failure of its insert or its update;
\* then the error is thrown on and BullMQ fails the job.
Bury ==
  /\ job = "burying"
  /\ job' = Requeued
  /\ tries' = tries + 1
  /\ \/ left' = left \cup {"dead letter"} /\ status' = "dead_lettered" /\ UNCHANGED <<lapses, counters>>
     \/ Fail /\ LoseRecord /\ left' \in {left, left \cup {"dead letter"}} /\ UNCHANGED status
  /\ UNCHANGED <<poller, todo, filed>>

\* An attempt throws an error that is not retryable: a MalformedEmailError.
FailForGood ==
  /\ job \in {"parsing", "storing"}
  /\ Fail
  /\ status' = "failed"
  /\ job' = "discarding"
  /\ UNCHANGED <<poller, tries, left, todo, filed, lapses>>

\* The same moveToDeadLetter; then the handler returns and the job completes.
Discard ==
  /\ job = "discarding"
  /\ job' = "completed"
  /\ \/ left' = left \cup {"dead letter"} /\ status' = "dead_lettered" /\ UNCHANGED <<lapses, counters>>
     \/ Fail /\ LoseRecord /\ left' \in {left, left \cup {"dead letter"}} /\ UNCHANGED status
  /\ UNCHANGED <<poller, tries, todo, filed>>

\* The worker's process dies: BullMQ hands the stalled job out again, which is
\* no failed attempt, or fails it if it has stalled before.
Stall ==
  /\ job \in Active
  /\ stalls < MaxStalls /\ stalls' = stalls + 1
  /\ \/ job' = "waiting" /\ UNCHANGED lapses
     \/ job' = "failed" /\ LoseRecord
  /\ UNCHANGED <<poller, status, tries, left, todo, filed, failures, retries>>

\* POST /dlq/:queue/retry on the email queue.
RetryJob ==
  /\ job = "failed"
  /\ retries < MaxRetries /\ retries' = retries + 1
  /\ job' = "waiting"
  /\ UNCHANGED <<poller, status, tries, left, todo, filed, lapses, stalls, failures>>

\* POST /dlq/:queue/discard removes a job that no worker has locked.
RemoveJob ==
  /\ job \in {"waiting", "completed", "failed"}
  /\ job' = "removed"
  /\ UNCHANGED <<poller, status, tries, left, todo, filed, lapses, counters>>

-----------------------------------------------------------------------------
WorkerStep ==
  \/ Start \/ StoreEmail \/ (\E a \in Attachments : StoreAttachment(a)) \/ Process
  \/ Trigger \/ Bury \/ Discard

JobNext ==
  \/ AddJob \/ MarkRow \/ GiveUp
  \/ WorkerStep \/ FailAttempt \/ FailToRecord \/ FailForGood \/ Stall
  \/ RetryJob \/ RemoveJob

JobSpec == JobInit /\ [][JobNext]_jobVars

\* The poller goes on with its loop, and a live worker takes a waiting job
\* (after its backoff) and gets on with it.
JobFairSpec == JobSpec /\ WF_jobVars(AddJob \/ MarkRow \/ GiveUp) /\ WF_jobVars(WorkerStep)

-----------------------------------------------------------------------------
(* Properties. *)

JobTypeOK ==
  /\ poller \in {"enqueueing", "marking", "done"}
  /\ status \in Status /\ job \in Job /\ tries \in Nat
  /\ left \in SUBSET Outcome
  /\ todo \in SUBSET Attachments /\ filed \in [Attachments -> SUBSET Filing]
  /\ lapses \in SUBSET Lapse
  /\ stalls \in Nat /\ failures \in Nat /\ retries \in Nat

\* A job that has completed has handed its email to the pipeline, also when a
\* worker died between marking the email processed and handing it over, or has
\* buried it; only an error that the code swallows excuses it.
HandedOn == job = "completed" => left # {} \/ "lost record" \in lapses

\* A job that has failed for good has left a dead-letter row, unless the row's
\* own insert failed or the worker's process died.
FailedIsBuried == job = "failed" => "dead letter" \in left \/ "lost record" \in lapses

OnRecord(a) == filed[a] \cap {IF a \in Refused THEN "rejected" ELSE "stored", "error"} # {}

\* Once the poller and the job are done, the status tells how the job ended,
\* unless the poller's mark came last or a record was lost; and a processed
\* email has each attachment on record, stored unless it was refused or an
\* error says why not, whichever attempt was the one to finish.
StatusTells ==
  /\ status = "processed" => \A a \in Attachments : OnRecord(a)
  /\ poller = "done" /\ lapses = {} =>
       /\ job = "completed" => status \in {"processed", "dead_lettered"}
       /\ job = "failed" => status = "dead_lettered"

\* Every job that is added ends unless the operator removes it: no failed
\* write, crash or retry leaves the email in processing with nobody to
\* process it.
JobEnds == job = "waiting" ~> job \in {"completed", "failed", "removed"}
=============================================================================
