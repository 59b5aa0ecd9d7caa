------------------------------- MODULE Chatbot -------------------------------
(***************************************************************************)
(* One customer's conversation with the chatbot: the inbound webhook of    *)
(* src/api/whatsappWebhookRoutes.ts and the agents, the hand-over and the  *)
(* summariser of src/chatbots.  Meta's calls overlap; hand-over and        *)
(* summary run beside the call that started them.                          *)
(***************************************************************************)
EXTENDS Integers, FiniteSets

CONSTANTS
    Calls,       \* webhook calls; Meta may deliver a message in two of them
    Batch,       \* Batch[c]: how many messages a call carries
    Topics,      \* what a message is about, as classifyIntent and the blocked topics tell
    Threshold,   \* SUMMARIZE_THRESHOLD
    KeepRecent,  \* KEEP_RECENT
    Room,        \* messages that fit the 4000 characters of a transcript however long they are
    MaxTrouble   \* bound: exceptions in a call

ChatbotAssumption ==
    /\ Batch \in [Calls -> Nat \ {0}]
    /\ Topics \subseteq {"order_support", "tenant_info", "small_talk", "human_handoff", "unknown", "blocked", "unclear"}
    /\ Threshold \in Nat /\ KeepRecent \in Nat /\ KeepRecent < Threshold /\ Room \in 0..Threshold
    /\ MaxTrouble \in Nat

VARIABLES
    conv,      \* chat_conversations: the status of the customer's row
    table,     \* chat_messages: the ids of the rows, in the order of created_at
    last,      \* the newest id ever
    calls,     \* the webhook calls: step, messages left, topic
    context,   \* the rows that the summary of the customer's row tells of
    summaries, \* the summariser a call started: the rows it read, and whether its summary is stored
    handoffs,  \* hand-overs started and not carried out
    forgotten, \* rows left out of the transcript of a stored summary, or told by one replaced since
    promised,  \* the reply to a message that escalates was sent
    troubles

vars == <<conv, table, last, calls, context, summaries, handoffs, forgotten, promised, troubles>>

Waiting(n) == [step |-> "wait", left |-> n, topic |-> "none", escalated |-> FALSE]
NoSummary == [rows |-> {}, stored |-> FALSE]

Init ==
    /\ conv = "none"
    /\ table = {}
    /\ last = 0
    /\ calls = [c \in Calls |-> Waiting(Batch[c])]
    /\ context = {} /\ forgotten = {}
    /\ summaries = [c \in Calls |-> NoSummary]
    /\ handoffs = 0
    /\ promised = FALSE
    /\ troubles = 0

memory == <<context, forgotten>>
background == <<summaries, memory>>
Step(c, s) == calls' = [calls EXCEPT ![c].step = s]
Insert == last' = last + 1 /\ table' = table \cup {last + 1}

\* The newest n rows of S.
Newest(S, n) == {i \in S : Cardinality({j \in S : j > i}) < n}

(* ------------------------------- a message ------------------------------ *)

\* The next message of a call; one without text, or without a valid sender, is passed over.
TakeMessage(c) ==
    /\ calls[c].step = "wait" /\ calls[c].left > 0
    /\ \/ \E t \in Topics : calls' = [calls EXCEPT ![c] =
            [step |-> IF conv = "none" THEN "create" ELSE "save", left |-> @.left - 1, topic |-> t, escalated |-> FALSE]]
       \/ calls' = [calls EXCEPT ![c].left = @ - 1]
    /\ UNCHANGED <<conv, table, last, handoffs, promised, troubles, background>>

\* getOrCreateConversation inserts when it found no row; the unique index lets one call win, and
\* the exception ends the other call with all its messages.
CreateConversation(c) ==
    /\ calls[c].step = "create"
    /\ IF conv = "none" THEN conv' = "open" /\ Step(c, "save")
       ELSE UNCHANGED conv /\ calls' = [calls EXCEPT ![c] = Waiting(0)]
    /\ UNCHANGED <<table, last, handoffs, promised, troubles, background>>

SaveUserMessage(c) ==
    /\ calls[c].step = "save"
    /\ Insert
    /\ Step(c, "answer")
    /\ UNCHANGED <<conv, handoffs, promised, troubles, background>>

\* The agent of the topic: a request for a person hands over, an order question may.
Escalates(t) == IF t = "human_handoff" THEN {TRUE} ELSE IF t = "order_support" THEN BOOLEAN ELSE {FALSE}

Answer(c) ==
    /\ calls[c].step = "answer" /\ calls[c].topic # "blocked"
    /\ \E esc \in Escalates(calls[c].topic) :
         /\ calls' = [calls EXCEPT ![c].step = "reply", ![c].escalated = esc]
         /\ handoffs' = handoffs + IF esc THEN 1 ELSE 0
    /\ UNCHANGED <<conv, table, last, promised, troubles, background>>

\* A blocked topic is answered at once and flagged, without a hand-over or a summary.
AnswerBlocked(c) ==
    /\ calls[c].step = "answer" /\ calls[c].topic = "blocked"
    /\ Insert
    /\ conv' = "escalated"
    /\ calls' = [calls EXCEPT ![c].step = "send", ![c].escalated = TRUE]
    /\ UNCHANGED <<handoffs, promised, troubles, background>>

StatusKept(c) == conv
StatusAfter(c) == IF calls[c].escalated THEN "escalated" ELSE conv

\* The reply is stored and the conversation updated before the reply is sent; maybeSummarize reads
\* the rows beside that.  Bound: one summariser of a call at a time.
SaveReply(c) ==
    /\ calls[c].step = "reply"
    /\ Insert
    /\ conv' = StatusAfter(c)
    /\ Step(c, "send")
    /\ summaries' = IF Cardinality(table') >= Threshold /\ summaries[c] = NoSummary
                    THEN [summaries EXCEPT ![c].rows = table'] ELSE summaries
    /\ UNCHANGED <<handoffs, memory, promised, troubles>>

\* sendFreeText tells of a failure and does not throw; the outcome changes nothing here.
Send(c) ==
    /\ calls[c].step = "send"
    /\ calls' = [calls EXCEPT ![c] = Waiting(@.left)]
    /\ promised' = (promised \/ calls[c].escalated)
    /\ UNCHANGED <<conv, table, last, handoffs, troubles, background>>

\* The model or the database fails: the call ends, and the messages behind are not looked at.
Fail(c) ==
    /\ calls[c].step \in {"save", "answer", "reply", "send"} /\ troubles < MaxTrouble
    /\ troubles' = troubles + 1
    /\ calls' = [calls EXCEPT ![c] = Waiting(0)]
    /\ UNCHANGED <<conv, table, last, handoffs, promised, background>>

\* The summary is replaced as a whole: what the last one told and the new one does not is forgotten,
\* and so is what the new one left out.
Summarised(old, kept) == context' = kept /\ forgotten' = (forgotten \cup context \cup old) \ kept

\* executeHandoff flags the conversation and puts its own note in place of the summary, or fails unnoticed.
HandOff ==
    /\ handoffs > 0
    /\ handoffs' = handoffs - 1
    /\ \/ conv' = "escalated" /\ Summarised({}, {})
       \/ UNCHANGED <<conv, memory>>
    /\ UNCHANGED <<table, last, calls, summaries, promised, troubles>>

(* ------------------------------ summariser ------------------------------ *)

AllRows(S) == S
OldRows(S) == S \ Newest(S, KeepRecent)

\* The oldest n rows of S.
Oldest(S, n) == {i \in S : Cardinality({j \in S : j < i}) < n}

\* The transcript holds the oldest rows only, as far as it goes.
StoreSummary(c) ==
    /\ summaries[c].rows # {} /\ ~summaries[c].stored
    /\ LET old == OldRows(summaries[c].rows) IN
       \E n \in Room..last : Summarised(old, Oldest(old, n))
    /\ summaries' = [summaries EXCEPT ![c].stored = TRUE]
    /\ UNCHANGED <<conv, table, last, calls, handoffs, promised, troubles>>

MayDelete(c) == summaries[c].stored

DeleteOldRows(c) ==
    /\ MayDelete(c)
    /\ table' = table \ OldRows(summaries[c].rows)
    /\ summaries' = [summaries EXCEPT ![c] = NoSummary]
    /\ UNCHANGED <<conv, last, calls, handoffs, memory, promised, troubles>>

\* The model fails or answers nothing, or the process restarts.
DropSummary(c) ==
    /\ summaries[c] # NoSummary
    /\ summaries' = [summaries EXCEPT ![c] = NoSummary]
    /\ UNCHANGED <<conv, table, last, calls, handoffs, memory, promised, troubles>>

Next ==
    \/ HandOff
    \/ \E c \in Calls :
        \/ TakeMessage(c) \/ CreateConversation(c) \/ SaveUserMessage(c) \/ Answer(c) \/ AnswerBlocked(c)
        \/ SaveReply(c) \/ Send(c) \/ Fail(c)
        \/ StoreSummary(c) \/ DeleteOldRows(c) \/ DropSummary(c)

Spec == Init /\ [][Next]_vars

(* ------------------------------ properties ------------------------------ *)

\* Summarisers of overlapping calls delete nothing before its time: a message that is gone is told by
\* the conversation's summary, or a summary was stored that left it out for want of room or told it and
\* was replaced; and the newest rows of the conversation are always there.
OnlySummarisedGo ==
    /\ (1..last) \ table \subseteq context \cup forgotten
    /\ Newest(1..last, KeepRecent) \subseteq table

\* A customer whose escalation was answered is in the list of escalated conversations by then, and
\* stays there, whatever the agents of later and overlapping messages and failed hand-overs write.
PromiseIsFlagged == promised => conv = "escalated"
=============================================================================
