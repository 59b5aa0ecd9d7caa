------------------------------ MODULE Marketing ------------------------------
(***************************************************************************)
(* A win-back campaign: src/marketing/worker.ts, the campaign and step     *)
(* routes of src/api/marketingRoutes.ts, and the follow-up that            *)
(* src/whatsapp/index.ts schedules on a delivery.  The worker ticks on an  *)
(* interval without waiting for its last tick, so passes overlap.          *)
(***************************************************************************)
EXTENDS Integers, Sequences, FiniteSets, FiniteSetsExt

CONSTANTS
    Customers,
    Steps,       \* the steps the campaign ever has
    FirstSteps,  \* those it is created with
    Passes,      \* ticks under way at the same time
    BatchSize,   \* pending sends a pass takes
    NoStep,      \* the step of a follow-up
    MaxRows,     \* bound: rows of marketing_sends; none is added beyond it
    MaxMoves,    \* bound: edits, orders, months and deliveries
    MaxTrouble   \* bound: crashes of a pass

MarketingAssumption ==
    /\ FirstSteps \subseteq Steps /\ NoStep \notin Steps
    /\ BatchSize \in Nat \ {0} /\ MaxRows \in Nat /\ MaxMoves \in Nat /\ MaxTrouble \in Nat

VARIABLES
    campaign,  \* marketing_campaigns: "on", "off", "deleted", or "unusable": on, with a number of days
               \* whose date the database refuses
    steps,     \* marketing_campaign_steps: "absent", "on", "off" or "deleted"
    customers, \* per customer: inactive, enrolled, within the cooldown, ordered since
    sends,     \* marketing_sends
    passes,    \* the passes under way
    messages,  \* messages Meta took for each row
    excused,   \* customers that may have heard a step more than once
    orphans,   \* rows a pass held when it broke off
    moves, troubles

vars == <<campaign, steps, customers, sends, passes, messages, excused, orphans, moves, troubles>>

Move == moves < MaxMoves /\ moves' = moves + 1
NoPass == [stage |-> "none", who |-> {}, cu |-> {}, steps |-> {}, rows |-> {}, row |-> 0]

Init ==
    /\ campaign = "on"
    /\ steps = [s \in Steps |-> IF s \in FirstSteps THEN "on" ELSE "absent"]
    /\ customers = [c \in Customers |-> [inactive |-> TRUE, enrolment |-> "none", recent |-> FALSE, ordered |-> FALSE]]
    /\ sends = <<>>
    /\ passes = [x \in Passes |-> NoPass]
    /\ messages = <<>>
    /\ excused = {}
    /\ orphans = {}
    /\ moves = 0 /\ troubles = 0

Rows == 1..Len(sends)
Become(x, r) == passes' = [passes EXCEPT ![x] = r]
quiet == <<moves, troubles>>
plan == <<campaign, steps>>

(* ------------------------------- enrolling ------------------------------ *)

\* Inactive for long enough, and no enrolment since the cooldown began.
EligibleAgain(c) == customers[c].inactive
Eligible(c) == customers[c].inactive /\ ~customers[c].recent

\* The eligible customers, read at the start of a tick.  When the database refuses the dates of a
\* campaign, whoever it belongs to, the exception ends the tick, and it fires nothing.
StartTick(x) ==
    /\ passes[x] = NoPass /\ campaign # "unusable"
    /\ LET who == IF campaign = "on" THEN {c \in Customers : Eligible(c)} ELSE {} IN
       /\ Become(x, [NoPass EXCEPT !.stage = "enroll", !.who = who])
       /\ excused' = excused \cup {c \in who : \/ customers[c].enrolment # "none" /\ ~customers[c].recent
                                              \/ \E y \in Passes : c \in passes[y].who \cup passes[y].cu}
    /\ UNCHANGED <<plan, customers, sends, messages, orphans, quiet>>

\* A row that is there is left as it is, enrolled_at included; a deleted campaign ends the tick.
Enroll(x) ==
    /\ passes[x].stage = "enroll"
    /\ \E c \in passes[x].who :
       IF campaign = "deleted"
       THEN Become(x, NoPass) /\ UNCHANGED customers
       ELSE /\ customers' = IF customers[c].enrolment = "none"
                            THEN [customers EXCEPT ![c].enrolment = "active", ![c].recent = TRUE, ![c].ordered = FALSE]
                            ELSE customers
            /\ Become(x, [passes[x] EXCEPT !.stage = "schedule", !.who = @ \ {c}, !.cu = {c},
                                           !.steps = {s \in Steps : steps[s] = "on"}])
    /\ UNCHANGED <<plan, sends, messages, excused, orphans, quiet>>

AddRow(s, c) ==
    /\ sends' = Append(sends, [step |-> s, who |-> c, status |-> "pending", due |-> FALSE])
    /\ messages' = Append(messages, 0)

\* One row per enabled step; one deleted since ends the tick.
Schedule(x) ==
    /\ passes[x].stage = "schedule"
    /\ IF passes[x].steps = {}
       THEN Become(x, [passes[x] EXCEPT !.stage = "enroll", !.cu = {}]) /\ UNCHANGED <<sends, messages>>
       ELSE \E s \in passes[x].steps :
            IF steps[s] = "deleted"
            THEN Become(x, NoPass) /\ UNCHANGED <<sends, messages>>
            ELSE /\ IF Len(sends) < MaxRows THEN \A c \in passes[x].cu : AddRow(s, c) ELSE UNCHANGED <<sends, messages>>
                 /\ Become(x, [passes[x] EXCEPT !.steps = @ \ {s}])
    /\ UNCHANGED <<plan, customers, excused, orphans, quiet>>

\* scheduleDeliveryFollowUp, whose look for an earlier one never finds any.
FollowUp(c) ==
    /\ Len(sends) < MaxRows /\ Move
    /\ AddRow(NoStep, c)
    /\ UNCHANGED <<plan, customers, passes, excused, orphans, troubles>>

(* -------------------------------- firing -------------------------------- *)

HasCome(i) == sends[i].status = "pending" /\ sends[i].due

Held(x) == passes[x].rows \cup (IF passes[x].row = 0 THEN {} ELSE {passes[x].row})

\* The sends that are due and pending, some of them when they are more than a batch.
TakeBatch(x) ==
    /\ passes[x].stage = "enroll" /\ passes[x].who = {}
    /\ LET due == {i \in Rows : HasCome(i)} IN
       \E batch \in kSubset(IF Cardinality(due) < BatchSize THEN Cardinality(due) ELSE BatchSize, due) :
         /\ Become(x, [NoPass EXCEPT !.stage = "fire", !.rows = batch])
         /\ excused' = excused \cup {sends[i].who : i \in {j \in batch : j \in orphans \/ \E y \in Passes : j \in Held(y)}}
    /\ UNCHANGED <<plan, customers, sends, messages, orphans, quiet>>

MarkedNever(i, status) == sends' = sends
Marked(i, status) == sends' = [sends EXCEPT ![i].status = IF @ = "gone" THEN @ ELSE status]

\* The rows of a customer who ordered since are skipped together and the enrolment is closed.
SkippedFor(i) == [j \in Rows |-> IF /\ sends[j].who = sends[i].who /\ sends[j].step # NoStep /\ sends[j].status = "pending"
                                 THEN [sends[j] EXCEPT !.status = "skipped"] ELSE sends[j]]

OrderedSince(c) == customers[c].enrolment # "none" /\ customers[c].ordered

TakeRow(x) ==
    /\ passes[x].stage = "fire"
    /\ \/ /\ passes[x].rows = {} /\ Become(x, NoPass) /\ UNCHANGED <<sends, customers>>
       \/ \E i \in passes[x].rows :
          LET rest == [passes[x] EXCEPT !.rows = @ \ {i}]
              c == sends[i].who IN
          IF sends[i].step = NoStep \/ steps[sends[i].step] = "deleted"
          THEN Marked(i, "skipped") /\ Become(x, rest) /\ UNCHANGED customers
          ELSE IF OrderedSince(c)
          THEN /\ sends' = SkippedFor(i) /\ Become(x, rest)
               /\ customers' = [customers EXCEPT ![c].enrolment = "completed"]
          ELSE Become(x, [rest EXCEPT !.stage = "send", !.row = i]) /\ UNCHANGED <<sends, customers>>
    /\ UNCHANGED <<plan, messages, excused, orphans, quiet>>

\* dispatchByPurpose or sendFreeText: whether Meta took the message or not, the pass goes on.
Send(x) ==
    /\ passes[x].stage = "send"
    /\ messages' \in {messages, [messages EXCEPT ![passes[x].row] = @ + 1]}
    /\ Become(x, [passes[x] EXCEPT !.stage = "mark"])
    /\ UNCHANGED <<plan, customers, sends, excused, orphans, quiet>>

\* An exception in the send marks the row failed; otherwise it is marked sent.
Mark(x) ==
    /\ passes[x].stage = "mark"
    /\ \E status \in {"sent", "failed"} : Marked(passes[x].row, status)
    /\ Become(x, [passes[x] EXCEPT !.stage = "fire", !.row = 0])
    /\ UNCHANGED <<plan, customers, messages, excused, orphans, quiet>>

Crash(x) ==
    /\ passes[x] # NoPass /\ troubles < MaxTrouble
    /\ troubles' = troubles + 1
    /\ orphans' = orphans \cup Held(x)
    /\ Become(x, NoPass)
    /\ UNCHANGED <<plan, customers, sends, messages, excused, moves>>

(* ------------------------------ surroundings ---------------------------- *)

\* PUT and DELETE of the campaign and of a step: the numbers of days are stored as they are given, and
\* a deletion takes the rows along.
SwitchCampaign ==
    /\ campaign # "deleted" /\ Move
    /\ \/ campaign' \in {"on", "off", "unusable"} \ {campaign} /\ UNCHANGED <<sends, steps, customers>>
       \/ /\ campaign' = "deleted"
          /\ steps' = [s \in Steps |-> "deleted"]
          /\ sends' = [i \in Rows |-> IF sends[i].step = NoStep THEN sends[i] ELSE [sends[i] EXCEPT !.status = "gone"]]
          /\ customers' = [c \in Customers |-> [customers[c] EXCEPT !.enrolment = "none", !.recent = FALSE]]
    /\ UNCHANGED <<passes, messages, excused, orphans, troubles>>

EditStep(s) ==
    /\ campaign # "deleted" /\ Move
    /\ \/ steps[s] = "absent" /\ steps' = [steps EXCEPT ![s] = "on"] /\ UNCHANGED sends
       \/ steps[s] \in {"on", "off"} /\ steps' = [steps EXCEPT ![s] = IF @ = "on" THEN "off" ELSE "on"] /\ UNCHANGED sends
       \/ /\ steps[s] \in {"on", "off"} /\ steps' = [steps EXCEPT ![s] = "deleted"]
          /\ sends' = [i \in Rows |-> IF sends[i].step = s THEN [sends[i] EXCEPT !.status = "gone"] ELSE sends[i]]
    /\ UNCHANGED <<campaign, customers, passes, messages, excused, orphans, troubles>>

\* A customer orders, or stays away; the cooldown of an enrolment ends; a row's time comes.
Order(c) ==
    /\ Move
    /\ customers' = [customers EXCEPT ![c].inactive = ~@, ![c].ordered = @ \/ customers[c].inactive]
    /\ UNCHANGED <<plan, sends, passes, messages, excused, orphans, troubles>>

CoolDown(c) ==
    /\ customers[c].recent /\ Move
    /\ customers' = [customers EXCEPT ![c].recent = FALSE]
    /\ UNCHANGED <<plan, sends, passes, messages, excused, orphans, troubles>>

Due(i) ==
    /\ ~sends[i].due
    /\ sends' = [sends EXCEPT ![i].due = TRUE]
    /\ UNCHANGED <<plan, customers, passes, messages, excused, orphans, quiet>>

PassStep(x) == StartTick(x) \/ Enroll(x) \/ Schedule(x) \/ TakeBatch(x) \/ TakeRow(x) \/ Send(x) \/ Mark(x)

Next ==
    \/ \E x \in Passes : \/ StartTick(x) \/ Enroll(x) \/ Schedule(x) \/ TakeBatch(x)
                         \/ TakeRow(x) \/ Send(x) \/ Mark(x) \/ Crash(x)
    \/ SwitchCampaign
    \/ \E s \in Steps : EditStep(s)
    \/ \E c \in Customers : Order(c) \/ CoolDown(c) \/ FollowUp(c)
    \/ \E i \in Rows : Due(i)

Spec == Init /\ [][Next]_vars

\* The interval timer ticks for ever, and a pass that has begun goes on.
Fairness == \A x \in Passes : WF_vars(PassStep(x))
FairSpec == Spec /\ Fairness

(* ------------------------------ properties ------------------------------ *)

\* The rows of a step by which a customer has heard something.
Heard(s, c) == {i \in Rows : sends[i].step = s /\ sends[i].who = c /\ messages[i] > 0}

\* A customer hears a step of the campaign once, unless overlapping passes chose the customer or the
\* row, a pass broke off with the row, or the customer was enrolled again after the cooldown.
StepHeardOnce ==
    \A s \in Steps, c \in Customers \ excused : \A i, j \in Heard(s, c) : i = j /\ messages[i] = 1

\* A send whose time has come is sent, skipped or given up in the end, whatever is edited meanwhile, if
\* from some time on every campaign has dates the database takes, and rows are not added without end: a
\* batch is any of those due, and the bound on rows keeps others from always being taken before.
DueSendSettles ==
    <>[](campaign # "unusable") =>
        \A i \in 1..MaxRows : (i \in Rows /\ HasCome(i)) ~> (i \in Rows /\ ~HasCome(i))
=============================================================================
