----------------------------- MODULE Idempotency -----------------------------
(***************************************************************************)
(* withIdempotency (src/idempotency/index.ts): the Postgres row that       *)
(* several workers share to perform one upstream side effect at most once. *)
(*                                                                         *)
(* Rows with different keys never meet, so the module has the row of one   *)
(* key and any number of callers of that key.  Time is abstract: a row is  *)
(* "aged" once its in_progress claim is older than staleAfterMs or its     *)
(* completed answer is past expires_at.  A caller's snapshot of            *)
(* (status, updated_at) is abstract too: "current" holds the callers whose *)
(* snapshot still equals the row, since every UPDATE sets a new            *)
(* updated_at.                                                             *)
(***************************************************************************)
EXTENDS Naturals, FiniteSets

CONSTANTS Workers,      \* callers: BullMQ slots, poll loops, HTTP handlers
          NoOne,        \* the owner of a row nobody works on
          MaxExcuses,   \* bound on the events that excuse one more side effect
          MaxFailures   \* bound on the other failures

ASSUME WorkersAssumption == IsFiniteSet(Workers) /\ NoOne \notin Workers
ASSUME BoundsAssumption == MaxExcuses \in Nat /\ MaxFailures \in Nat

VARIABLES
  row,       \* the row of the key in idempotency_keys
  pc,        \* where each caller is in withIdempotency
  current,   \* callers whose snapshot of the row still equals the row
  told,      \* what each caller's last call returned or threw
  (* the upstream service *)
  effects,   \* side effects it has performed
  (* history *)
  excuses,   \* events so far that excuse one more side effect
  failures,  \* failures so far that do not
  deposed    \* a live owner has lost its row to the clock or to a delete

vars == <<row, pc, current, told, effects, excuses, failures, deposed>>

Status == {"none", "in_progress", "completed", "failed"}
PC == {"idle", "reread", "insert", "takeover",
       "calling", "performed", "answered", "threw"}
Told == {"nothing", "response", "in_progress", "error"}

Row == [status : Status, owner : Workers \cup {NoOne},
        exact : BOOLEAN, aged : BOOLEAN]

NoRow == [status |-> "none", owner |-> NoOne, exact |-> TRUE, aged |-> FALSE]

\* Inside fn or about to record what fn did.
InCall == {"calling", "performed", "answered", "threw"}

OwnerLive == row.status = "in_progress" /\ row.owner \in Workers
             /\ pc[row.owner] \in InCall

OwnerGone == row.status = "in_progress" /\ ~OwnerLive

\* A completed answer that later calls must be given.
Authoritative == row.status = "completed" /\ ~row.aged

\* Mutants: a fresh claim may be taken over too; a completed answer may,
\* whether expired or not.
ClaimableWhileFresh == row.status # "none"
ClaimableWhenCompleted == row.status \in {"failed", "completed"} \/ row.aged

\* A row that lets the next caller through to fn.
Claimable == row.status # "none" /\ (row.status = "failed" \/ row.aged)

Init ==
  /\ row = NoRow
  /\ pc = [w \in Workers |-> "idle"]
  /\ current = {}
  /\ told = [w \in Workers |-> "nothing"]
  /\ effects = 0
  /\ excuses = 0
  /\ failures = 0
  /\ deposed = FALSE

\* Every write makes every caller's snapshot of the row out of date.
Write(r) == row' = r /\ current' = {}

Goto(w, to) == pc' = [pc EXCEPT ![w] = to]

\* The call ends: it returns a response or throws.
Tell(w, what) == Goto(w, "idle") /\ told' = [told EXCEPT ![w] = what]

History == <<excuses, failures, deposed>>

Excuse == excuses < MaxExcuses /\ excuses' = excuses + 1
Fail == failures < MaxFailures /\ failures' = failures + 1

-----------------------------------------------------------------------------
(* The caller's steps. *)

\* SELECT the row, then decide.  A fresh claim of another caller throws
\* IdempotencyInProgressError, an authoritative answer is returned from the
\* row, and any other row is to be taken over.
Read(w) ==
  /\ pc[w] \in {"idle", "reread"}
  /\ \/ row.status = "none" /\ Goto(w, "insert") /\ UNCHANGED <<current, told>>
     \/ Authoritative /\ Tell(w, "response") /\ UNCHANGED current
     \/ /\ row.status = "in_progress" /\ ~row.aged
        /\ Tell(w, "in_progress") /\ UNCHANGED current
     \/ /\ Claimable
        /\ current' = current \cup {w} /\ Goto(w, "takeover") /\ UNCHANGED told
  /\ UNCHANGED <<row, effects, History>>

\* INSERT the first claim.  The database fills in updated_at with now(), in
\* microseconds; a Date read back has milliseconds, so the stored value is
\* "exact" only when its last three digits happen to be zero.
Insert(w) ==
  /\ pc[w] = "insert"
  /\ \/ /\ row.status = "none"
        /\ \E exact \in BOOLEAN :
             Write([status |-> "in_progress", owner |-> w,
                    exact |-> exact, aged |-> FALSE])
        /\ Goto(w, "calling")
     \/ \* unique_violation: withIdempotency calls itself
        row.status # "none" /\ Goto(w, "reread") /\ UNCHANGED <<row, current>>
  /\ UNCHANGED <<told, effects, History>>

\* Mutants: the UPDATE compares nothing but the key; a stale claim is not
\* taken over.
SwappableUnchecked(w) == row.status # "none"
SwappableUnlessInProgress(w) == w \in current /\ row.exact /\ row.status # "in_progress"

\* UPDATE ... WHERE status and updated_at are those of the snapshot: matches
\* when nobody wrote the row since and the stored updated_at is exact.
Swappable(w) == w \in current /\ row.exact

TakeOver(w) ==
  /\ pc[w] = "takeover"
  /\ \/ /\ Swappable(w)
        /\ Write([status |-> "in_progress", owner |-> w,
                  exact |-> TRUE, aged |-> FALSE])
        /\ Goto(w, "calling") /\ UNCHANGED told
     \/ ~Swappable(w) /\ Tell(w, "in_progress") /\ UNCHANGED <<row, current>>
  /\ UNCHANGED <<effects, History>>

\* fn's request reaches the upstream service, which performs the effect.
Perform(w) ==
  /\ pc[w] = "calling"
  /\ effects' = effects + 1
  /\ Goto(w, "performed")
  /\ UNCHANGED <<row, current, told, History>>

\* fn returns the upstream answer.
Answer(w) ==
  /\ pc[w] = "performed"
  /\ Goto(w, "answered")
  /\ UNCHANGED <<row, current, told, effects, History>>

\* fn throws although the effect was performed: a timeout, a reset
\* connection, an answer that does not parse.
LoseAnswer(w) ==
  /\ pc[w] = "performed"
  /\ Goto(w, "threw")
  /\ Excuse
  /\ UNCHANGED <<row, current, told, effects, failures, deposed>>

\* fn throws and there is no effect.
Refuse(w) ==
  /\ pc[w] = "calling"
  /\ Goto(w, "threw")
  /\ Fail
  /\ UNCHANGED <<row, current, told, effects, excuses, deposed>>

\* UPDATE ... WHERE key = ...: neither update of a call's end looks at who
\* owns the row now, and both match nothing if the row was deleted.
Finish(w, status) ==
  IF row.status = "none"
    THEN UNCHANGED <<row, current>>
    ELSE Write([status |-> status, owner |-> NoOne,
                exact |-> TRUE, aged |-> FALSE])

RecordFailure(w) ==
  /\ pc[w] = "threw"
  /\ Finish(w, "failed")
  /\ Tell(w, "error")
  /\ UNCHANGED <<effects, History>>

RecordSuccess(w) ==
  /\ pc[w] = "answered"
  /\ Finish(w, "completed")
  /\ Tell(w, "response")
  /\ UNCHANGED <<effects, History>>

-----------------------------------------------------------------------------
(* The environment. *)

\* The caller's process dies, or one of its queries fails: what it had still
\* to record is never recorded.
Crash(w) ==
  /\ pc[w] # "idle"
  /\ Tell(w, "nothing")
  /\ IF pc[w] \in {"performed", "answered"}
       THEN Excuse /\ UNCHANGED failures
       ELSE Fail /\ UNCHANGED excuses
  /\ UNCHANGED <<row, current, effects, deposed>>

Age == row' = [row EXCEPT !.aged = TRUE] /\ UNCHANGED current

\* staleAfterMs passes over a claim whose owner is gone.
AgeOrphan ==
  /\ OwnerGone /\ ~row.aged
  /\ Age
  /\ UNCHANGED <<pc, told, effects, History>>

\* staleAfterMs passes while the owner is still inside fn.
Overstay ==
  /\ OwnerLive /\ ~row.aged
  /\ Age
  /\ Excuse /\ deposed' = TRUE
  /\ UNCHANGED <<pc, told, effects, failures>>

\* expires_at passes.
Expire ==
  /\ Authoritative
  /\ Age
  /\ Excuse
  /\ UNCHANGED <<pc, told, effects, failures, deposed>>

\* DELETE /idempotency/:key: an operator forgets the row, whatever its status.
ClearKey ==
  /\ row.status # "none"
  /\ Write(NoRow)
  /\ deposed' = (deposed \/ OwnerLive)
  /\ IF Authoritative \/ (OwnerLive /\ ~row.aged) THEN Excuse ELSE UNCHANGED excuses
  /\ UNCHANGED <<pc, told, effects, failures>>

-----------------------------------------------------------------------------
CallerStep(w) ==
  \/ Read(w) \/ Insert(w) \/ TakeOver(w)
  \/ Perform(w) \/ Answer(w) \/ LoseAnswer(w) \/ Refuse(w)
  \/ RecordFailure(w) \/ RecordSuccess(w)

Environment == AgeOrphan \/ Overstay \/ Expire \/ ClearKey \/ \E w \in Workers : Crash(w)

Next == (\E w \in Workers : CallerStep(w)) \/ Environment

Spec == Init /\ [][Next]_vars

\* The awaits of a call that has begun resolve (HTTP calls have timeouts), and
\* time passes.  Nothing makes anybody call, an owner overstay, an answer
\* expire, or an operator act.
Fairness ==
  /\ \A w \in Workers : WF_vars(pc[w] # "idle" /\ CallerStep(w))
  /\ WF_vars(AgeOrphan)

FairSpec == Spec /\ Fairness

-----------------------------------------------------------------------------
(* Properties. *)

TypeOK ==
  /\ row \in Row
  /\ pc \in [Workers -> PC]
  /\ current \in SUBSET Workers
  /\ told \in [Workers -> Told]
  /\ effects \in Nat
  /\ excuses \in Nat
  /\ failures \in Nat
  /\ deposed \in BOOLEAN

\* The upstream side effect is repeated only for one of the named causes: an
\* answer lost after the effect, a crash between the effect and its record,
\* an owner that outlived staleAfterMs, an expired answer, a deleted key.
\* Races between callers, a takeover, a late failure are never such a cause.
NoUnexcusedEffect == effects <= 1 + excuses

\* As long as no owner outlived staleAfterMs or had its key deleted, a caller
\* inside fn owns the fresh row: two callers are never inside fn at once, and
\* no call's unconditional final UPDATE can hit the row of another call.
OnlyOwnerInside ==
  ~deposed => \A w \in Workers : pc[w] \in InCall =>
    row.status = "in_progress" /\ row.owner = w /\ ~row.aged

\* Under the same condition an authoritative answer is never overwritten by
\* the end of another call: it only expires or is deleted.
AnswerIsKept ==
  [][Authoritative /\ ~deposed => row'.status \in {"completed", "none"}]_vars

\* The row implements the budget of side effects.
Budget == INSTANCE EffectBudget WITH spent <- effects, granted <- 1 + excuses

ImplementsBudget == Budget!Spec

\* An orphaned claim whose stored updated_at no Date can equal: every CAS on
\* it fails.
Unclaimable == OwnerGone /\ ~row.exact

\* Caller w asks for the key again and again.  The fulfilment poll does, every
\* minute; a courier run that finds the key in progress and the outbox do not.
KeepsCalling(w) == WF_vars(Read(w))

\* If only one caller keeps asking for the key, whatever the others do, then
\* once the faults stop the operation is completed or its row is wedged as an
\* orphan that no CAS matches.  Nobody is assumed to come back.
Settles == \A w \in Workers :
  KeepsCalling(w) => []<>(row.status = "completed" \/ Unclaimable)

\* "how long an in_progress row is trusted before another caller may take
\* over (default 60s - handles crashed workers)" (src/idempotency/index.ts:15-16).
\* Here even of a key that some caller keeps asking for.
CrashedOwnerIsReplaced == \A w \in Workers :
  KeepsCalling(w) => (OwnerGone ~> ~OwnerGone)
=============================================================================
