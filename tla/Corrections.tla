------------------------------ MODULE Corrections ------------------------------
(***************************************************************************)
(* What one agent of one tenant learns from its reviewers: the corrections *)
(* of its runs (src/api/agentRunsRoutes.ts, and the thumbs-down of         *)
(* src/api/knowledgeRoutes.ts), the examples its prompts show              *)
(* (src/ai/runRecorder.ts) and the rules distilled from them in the        *)
(* background of a message (src/ai/correctionsDistiller.ts).               *)
(***************************************************************************)
EXTENDS Integers, Sequences, FiniteSets

CONSTANTS
    None,
    Procs,       \* requests of reviewers and distillations under way
    Runs,        \* agent_runs of the agent
    Texts,       \* what a reviewer may say an answer should have been
    Limit,       \* getActiveCorrections: how many examples a prompt shows
    Threshold,   \* DISTILL_THRESHOLD
    MaxLessons,  \* bound: rows of agent_corrections
    MaxTrouble   \* bound: requests cut short and thumbs-downs

Muddled == "muddled"

CorrectionsAssumption ==
    /\ None \notin Texts /\ None # Muddled /\ Muddled \notin Texts
    /\ Limit \in Nat \ {0} /\ Threshold \in Nat \ {0}
    /\ MaxLessons \in Nat /\ MaxTrouble \in Nat

VARIABLES
    lessons,  \* agent_corrections, in the order of created_at: run, text, active
    rules,    \* chatbot_settings: None without a row, else the lessons distilled_rules was made of
    work,     \* what a process is doing: step, run, text, the row it found, or the lessons it read
    word,     \* the last a reviewer was told of a run: the text saved, None, or Muddled, once two
              \* requests about it have met, one was cut short, or a thumbs-down told as well
    troubles

vars == <<lessons, rules, work, word, troubles>>

Idle == [step |-> "idle"]

Init ==
    /\ lessons = <<>>
    /\ rules = None
    /\ work = [p \in Procs |-> Idle]
    /\ word = [r \in Runs |-> None]
    /\ troubles = 0

At(p, s) == work[p].step = s
Reviewed(r) == \E p \in Procs : work[p].step \in {"find", "save", "mark"} /\ work[p].run = r
Told(r, t) == word' = [word EXCEPT ![r] = IF @ = Muddled THEN @ ELSE t]
Met(r, t) == Told(r, IF Reviewed(r) THEN Muddled ELSE t)
Rows(r) == {i \in 1..Len(lessons) : lessons[i].run = r}
Active == {i \in 1..Len(lessons) : lessons[i].active}
Said(S) == {<<lessons[i].run, lessons[i].text>> : i \in S}
NewLesson(r, t) == [run |-> r, text |-> t, active |-> TRUE]

(* ------------------------------- reviewers ------------------------------ *)

\* POST /:id/correct with a text.
Correct(p, r, t) ==
    /\ At(p, "idle")
    /\ work' = [work EXCEPT ![p] = [step |-> "find", run |-> r, text |-> t]]
    /\ Met(r, word[r])
    /\ UNCHANGED <<lessons, rules, troubles>>

\* Any row of the run; nothing keeps two requests from both finding none.
FindCorrection(p) ==
    /\ At(p, "find")
    /\ \E i \in (IF Rows(work[p].run) = {} THEN {0} ELSE Rows(work[p].run)) :
         work' = [work EXCEPT ![p] = [step |-> "save", run |-> @.run, text |-> @.text, row |-> i]]
    /\ UNCHANGED <<lessons, rules, word, troubles>>

AmendedText(l, t) == [l EXCEPT !.text = t]
Amended(l, t) == [l EXCEPT !.text = t, !.active = TRUE]

\* The row found keeps its created_at, and so its place among the examples.
SaveCorrection(p) ==
    /\ At(p, "save")
    /\ LET w == work[p] IN
       lessons' = IF w.row # 0 THEN [lessons EXCEPT ![w.row] = Amended(@, w.text)]
                  ELSE Append(lessons, NewLesson(w.run, w.text))
    /\ Len(lessons') <= MaxLessons
    /\ work' = [work EXCEPT ![p].step = "mark"]
    /\ UNCHANGED <<rules, word, troubles>>

\* The run's status, which only the listing shows, is left out; so is its approval.
MarkCorrected(p) ==
    /\ At(p, "mark")
    /\ Told(work[p].run, work[p].text)
    /\ work' = [work EXCEPT ![p] = Idle]
    /\ UNCHANGED <<lessons, rules, troubles>>

\* An error or a restart ends a request between two of its statements.
Interrupt(p) ==
    /\ work[p].step \in {"save", "mark"} /\ troubles < MaxTrouble
    /\ troubles' = troubles + 1
    /\ Told(work[p].run, Muddled)
    /\ work' = [work EXCEPT ![p] = Idle]
    /\ UNCHANGED <<lessons, rules>>

\* DELETE /corrections/:id.
Deactivate(i) ==
    /\ lessons' = [lessons EXCEPT ![i].active = FALSE]
    /\ Met(lessons[i].run, None)
    /\ UNCHANGED <<rules, work, troubles>>

\* A thumbs-down with a correction is booked on some run of the seconds around the message.  No key
\* makes the insert's onConflict ignore anything; without such a run the insert fails, because
\* run_id may not be null, and only the message knows of the feedback.
ThumbsDown(r, t) ==
    /\ Len(lessons) < MaxLessons /\ troubles < MaxTrouble
    /\ troubles' = troubles + 1
    /\ lessons' = Append(lessons, NewLesson(r, t))
    /\ Told(r, Muddled)
    /\ UNCHANGED <<rules, work>>

(* ------------------------------- the agent ------------------------------ *)

\* getActiveCorrections: the newest active rows.
Examples == {i \in Active : Cardinality({j \in Active : j > i}) < Limit}

\* The driver has parsed a jsonb column already, and JSON.parse throws at what it returns.
Parses == FALSE
DistilledRules == IF rules # None /\ Parses THEN rules ELSE {}

\* What the prompt of a message teaches.
Prompt == Said(Examples) \cup DistilledRules

\* A distillation of n corrections can store what it makes: the tenant has a row of settings, and the
\* rules in it are none, or can be read, and are not of as many corrections.  Every other one ends
\* without an effect, most of them after the model was paid: the stored rules are read once more then.
Storable(n) == rules = {} \/ (rules # None /\ Parses /\ Cardinality(rules) # n)

\* A message starts a distillation beside its answer.  It reads the corrections and then the settings;
\* rules stored in between only let it end without an effect.
BeginDistil(p) ==
    /\ At(p, "idle")
    /\ Cardinality(Active) >= Threshold /\ Storable(Cardinality(Active))
    /\ work' = [work EXCEPT ![p] = [step |-> "distil", of |-> Said(Active)]]
    /\ UNCHANGED <<lessons, rules, word, troubles>>

\* The model has answered; the settings written are those read before.
StoreRules(p) ==
    /\ At(p, "distil")
    /\ rules' = work[p].of
    /\ work' = [work EXCEPT ![p] = Idle]
    /\ UNCHANGED <<lessons, word, troubles>>

\* The model fails or answers nothing, or the process restarts.
GiveUp(p) ==
    /\ At(p, "distil")
    /\ work' = [work EXCEPT ![p] = Idle]
    /\ UNCHANGED <<lessons, rules, word, troubles>>

\* The tenant saves the chatbot's settings for the first time.
SaveSettings ==
    /\ rules = None
    /\ rules' = {}
    /\ UNCHANGED <<lessons, work, word, troubles>>

Next ==
    \/ \E p \in Procs :
        \/ \E r \in Runs, t \in Texts : Correct(p, r, t)
        \/ FindCorrection(p) \/ SaveCorrection(p) \/ MarkCorrected(p) \/ Interrupt(p)
        \/ BeginDistil(p) \/ StoreRules(p) \/ GiveUp(p)
    \/ \E r \in Runs, t \in Texts : ThumbsDown(r, t)
    \/ \E i \in 1..Len(lessons) : Deactivate(i)
    \/ SaveSettings

Spec == Init /\ [][Next]_vars

(* ------------------------------ properties ------------------------------ *)

\* A run whose requests never met teaches the last its reviewer was told, and nothing else: a text
\* saved again after it was withdrawn is back, one withdrawn or replaced is gone from the examples
\* and from the rules, whatever distillations and requests about other runs do meanwhile.
LastWordIsTaught ==
    \A r \in Runs : word[r] # Muddled /\ ~Reviewed(r) =>
        LET taught == {l \in Prompt : l[1] = r} IN
        /\ taught \subseteq {<<r, word[r]>>}
        /\ word[r] # None /\ Cardinality(Active) <= Limit => taught # {}
=============================================================================
