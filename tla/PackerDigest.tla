---------------------------- MODULE PackerDigest ----------------------------
(***************************************************************************)
(* The weekly rating digest of the packers, src/packerAuth/digestWorker.ts, *)
(* in the processes that run the workers, during one Sunday window.  The   *)
(* database's advisory lock belongs to a session, that is to a connection  *)
(* of a process's pool, and every query may take another connection.       *)
(***************************************************************************)
EXTENDS Integers, FiniteSets

CONSTANTS
    Ticks,    \* the ticks of all the processes in the window
    Proc,     \* Proc[t]: the process of a tick
    Pool,     \* Pool[x]: the connections of a process
    Packers,
    None

Processes == {Proc[t] : t \in Ticks}
Connections == UNION {Pool[x] : x \in Processes}

DigestAssumption ==
    /\ None \notin Connections
    /\ Packers \cap {"new", "locked", "pass", "done"} = {}
    /\ \A x \in Processes : Pool[x] # {}
    /\ \A x, y \in Processes : x # y => Pool[x] \cap Pool[y] = {}

VARIABLES
    lock,    \* the session that holds the advisory lock, and how many times
    pc,      \* "new", "locked", "pass" or "done" of each tick
    due,     \* the packers a pass has still to look at
    sent,    \* ghost: the digests a packer was sent in the window
    marked,  \* the packers whose last_digest_sent_at is in the window
    clean    \* no crash, lost session, failed update or overlap within a process so far

vars == <<lock, pc, due, sent, marked, clean>>

Free == [by |-> None, times |-> 0]
InPass(t) == pc[t] \notin {"new", "done"}

Init ==
    /\ lock = Free
    /\ pc = [t \in Ticks |-> "new"]
    /\ due = [t \in Ticks |-> {}]
    /\ sent = [p \in Packers |-> 0]
    /\ marked = {} /\ clean = TRUE

\* pg_try_advisory_lock: granted to a free lock, and again to the session that has it.
GrantAnyone(c) == TRUE
Grant(c) == lock.by \in {None, c}

TryLock(t, c) ==
    /\ pc[t] = "new" /\ c \in Pool[Proc[t]]
    /\ IF Grant(c)
       THEN /\ lock' = [by |-> c, times |-> lock.times + 1]
            /\ pc' = [pc EXCEPT ![t] = "locked"]
            /\ clean' = (clean /\ ~\E u \in Ticks : Proc[u] = Proc[t] /\ InPass(u))
       ELSE /\ pc' = [pc EXCEPT ![t] = "done"]
            /\ UNCHANGED <<lock, clean>>
    /\ UNCHANGED <<due, sent, marked>>

\* Opted-in packers with a phone that had no digest in the window.
Due == Packers \ marked
ReadDue(t) ==
    /\ pc[t] = "locked"
    /\ pc' = [pc EXCEPT ![t] = "pass"]
    /\ due' = [due EXCEPT ![t] = Due]
    /\ UNCHANGED <<lock, sent, marked, clean>>

\* A packer without ratings this week or without an active link is marked and not told;
\* a send that fails is marked all the same.
Skip(t, p) ==
    /\ pc[t] = "pass" /\ p \in due[t]
    /\ marked' = marked \cup {p}
    /\ due' = [due EXCEPT ![t] = @ \ {p}]
    /\ UNCHANGED <<lock, pc, sent, clean>>

\* The message goes out; the mark is a second query, which may fail.
Send(t, p) ==
    /\ pc[t] = "pass" /\ p \in due[t]
    /\ sent' = [sent EXCEPT ![p] = @ + 1]
    /\ pc' = [pc EXCEPT ![t] = p]
    /\ UNCHANGED <<lock, due, marked, clean>>

Mark(t) ==
    /\ pc[t] \in Packers
    /\ \/ marked' = marked \cup {pc[t]} /\ UNCHANGED clean
       \/ clean' = FALSE /\ UNCHANGED marked
    /\ due' = [due EXCEPT ![t] = @ \ {pc[t]}]
    /\ pc' = [pc EXCEPT ![t] = "pass"]
    /\ UNCHANGED <<lock, sent>>

\* Anything before the send throws: the packer is left for a later tick.
Skipped(t, p) ==
    /\ pc[t] = "pass" /\ p \in due[t]
    /\ due' = [due EXCEPT ![t] = @ \ {p}]
    /\ UNCHANGED <<lock, pc, sent, marked, clean>>

\* pg_advisory_unlock on some connection: nothing happens on one that does not hold it.
Released == IF lock.times = 1 THEN Free ELSE [lock EXCEPT !.times = @ - 1]
Unlock(t, c) ==
    /\ pc[t] = "pass" /\ due[t] = {} /\ c \in Pool[Proc[t]]
    /\ pc' = [pc EXCEPT ![t] = "done"]
    /\ lock' = IF lock.by = c THEN Released ELSE lock
    /\ UNCHANGED <<due, sent, marked, clean>>

\* The pool closes an idle connection, and the session's lock goes with it.
Reap(c) ==
    /\ lock.by = c
    /\ lock' = Free
    /\ clean' = (clean /\ ~\E t \in Ticks : c \in Pool[Proc[t]] /\ InPass(t))
    /\ UNCHANGED <<pc, due, sent, marked>>

\* A process dies with its passes and its sessions.
Crash(x) ==
    /\ \E t \in Ticks : Proc[t] = x /\ InPass(t)
    /\ pc' = [t \in Ticks |-> IF Proc[t] = x /\ pc[t] # "new" THEN "done" ELSE pc[t]]
    /\ due' = [t \in Ticks |-> IF Proc[t] = x THEN {} ELSE due[t]]
    /\ lock' = IF lock.by \in Pool[x] THEN Free ELSE lock
    /\ clean' = FALSE
    /\ UNCHANGED <<sent, marked>>

Next ==
    \/ \E t \in Ticks :
        \/ \E c \in Connections : TryLock(t, c) \/ Unlock(t, c)
        \/ ReadDue(t) \/ Mark(t)
        \/ \E p \in Packers : Skip(t, p) \/ Send(t, p) \/ Skipped(t, p)
    \/ \E c \in Connections : Reap(c)
    \/ \E x \in Processes : Crash(x)

Spec == Init /\ [][Next]_vars

\* Two processes never send the same packer its digest in one window, as long as the session
\* with the lock lives and each message is recorded.
DigestOnce == clean => \A p \in Packers : sent[p] <= 1

=============================================================================
