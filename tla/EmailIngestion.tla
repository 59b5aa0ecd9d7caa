--------------------------- MODULE EmailIngestion ---------------------------
(***************************************************************************)
(* From the mailbox to the email queue: the two pollers that share a       *)
(* mailbox (src/workers/ingestionWorker.ts, tenantIngestionWorker.ts), the *)
(* UID offset, the deduplication rows (src/dedup/index.ts) and the queue   *)
(* (src/queue/index.ts).  What becomes of a row and its job afterwards is  *)
(* EmailProcessing.                                                        *)
(*                                                                         *)
(* Mails are numbered in order of arrival.  The server renumbers those it  *)
(* still has from UID 1 when it rebuilds the mailbox and changes its       *)
(* UIDVALIDITY.  The dedup key of a mail is its UID and its contents, not  *)
(* the UIDVALIDITY: a key is a pair <<uid, mail>>, and it names the mail's *)
(* row and job too.                                                        *)
(***************************************************************************)
EXTENDS Naturals, FiniteSets

CONSTANTS Pollers,      \* the env-configured worker and the tenants' worker
          BatchSize,    \* emails of one poll
          MaxMails,     \* bound on mails
          MaxRebuilds,  \* bound on rebuilds of the mailbox
          MaxCrashes,   \* bound on polls cut short
          MaxFailures   \* bound on the mails whose ingestion throws

ASSUME IngestionAssumption ==
  /\ BatchSize \in Nat \ {0}
  /\ MaxMails \in Nat /\ MaxRebuilds \in Nat
  /\ MaxCrashes \in Nat /\ MaxFailures \in Nat

Mails == 1..MaxMails
Keys == Mails \X Mails
Uid(k) == k[1]
Mail(k) == k[2]
None == 0     \* a null uid_validity

VARIABLES
  (* the IMAP server *)
  arrived,     \* mails so far
  first,       \* the oldest mail still there; it has UID 1
  validity,    \* UIDVALIDITY
  (* Postgres and Redis *)
  offset,      \* the email_ingestion_offsets row
  rows,        \* keys with a row in ingested_emails
  queue,       \* keys whose job was added to the email queue
  (* the pollers *)
  poll,        \* where each one's poll is and what it has read
  (* history *)
  seeded,      \* mails left out by an offset seeded at the head
  blind,       \* the mailbox was rebuilt under such an offset, a poll that read it, or a head just read
  dropped,     \* keys whose ingestion threw and was only logged
  crashes

serverVars == <<arrived, first, validity>>
historyVars == <<seeded, blind, dropped, crashes>>
vars == <<serverVars, offset, rows, queue, poll, historyVars>>

PC == {"idle", "opening", "resetting", "fetching", "looping", "enqueueing", "marking"}

Offset == [exists : BOOLEAN, last : Nat, validity : Nat]
Poll == [pc : PC, last : Nat, known : Nat, seen : Nat, max : Nat, batch : SUBSET Keys]

Idle == [pc |-> "idle", last |-> 0, known |-> None, seen |-> None, max |-> 0, batch |-> {}]

\* The keys of the mails that are in the mailbox now, and its highest UID.
Box == {k \in Keys : Mail(k) \in first..arrived /\ Mail(k) = first + Uid(k) - 1}
HeadUid == (arrived + 1) - first

Init ==
  /\ arrived = 0 /\ first = 1 /\ validity = 1
  /\ offset = [exists |-> FALSE, last |-> 0, validity |-> None]
  /\ rows = {} /\ queue = {}
  /\ poll = [p \in Pollers |-> Idle]
  /\ seeded = {} /\ blind = FALSE /\ dropped = {} /\ crashes = 0

-----------------------------------------------------------------------------
(* The IMAP server. *)

Arrive ==
  /\ arrived < MaxMails
  /\ arrived' = arrived + 1
  /\ UNCHANGED <<first, validity, offset, rows, queue, poll, historyVars>>

\* An offset seeded at the head has no UIDVALIDITY to notice a rebuild by until
\* a poll with new mail saves one; nor has a poll that has read it.
Unnoticed ==
  \/ offset.last > 0 /\ offset.validity = None
  \/ \E p \in Pollers : poll[p].pc = "opening" /\ poll[p].last > 0 /\ poll[p].known = None

\* UIDVALIDITY changes; some of the oldest mails may be gone, the others are
\* numbered again.
Rebuild ==
  /\ validity <= MaxRebuilds
  /\ validity' = validity + 1
  /\ first' \in first..(arrived + 1)
  /\ blind' = (blind \/ Unnoticed)
  /\ UNCHANGED <<arrived, offset, rows, queue, poll, seeded, dropped, crashes>>

-----------------------------------------------------------------------------
(* A poll. *)

At(p, pc) == poll[p].pc = pc
SetPoll(p, r) == poll' = [poll EXCEPT ![p] = r]

\* The offset row is created by whichever poller comes first: at 0, or by the
\* tenants' worker at a head it has read before, so that old mail is not
\* backfilled.  Mail may have come since, and the mailbox been rebuilt.
SeedOffset ==
  /\ ~offset.exists
  /\ \E last \in 0..MaxMails :
       /\ \/ last <= HeadUid /\ UNCHANGED blind
          \/ validity > 1 /\ blind' = TRUE
       /\ offset' = [exists |-> TRUE, last |-> last, validity |-> None]
       /\ seeded' = {m \in Mails : \E k \in Box : Uid(k) <= last /\ m = Mail(k)}
  /\ UNCHANGED <<serverVars, rows, queue, poll, dropped, crashes>>

ReadOffset(p) ==
  /\ At(p, "idle") /\ offset.exists
  /\ SetPoll(p, [Idle EXCEPT !.pc = "opening", !.last = offset.last, !.max = offset.last,
                             !.known = offset.validity])
  /\ UNCHANGED <<serverVars, offset, rows, queue, historyVars>>

\* Mutant: a changed UIDVALIDITY goes unnoticed.
OpenUnchecked(p) ==
  /\ At(p, "opening")
  /\ SetPoll(p, [poll[p] EXCEPT !.seen = validity, !.pc = "fetching"])
  /\ UNCHANGED <<serverVars, offset, rows, queue, historyVars>>

\* getUidValidity, compared with the row's if it has one.
Open(p) ==
  /\ At(p, "opening")
  /\ LET changed == poll[p].known \notin {None, validity}
     IN  SetPoll(p, [poll[p] EXCEPT !.seen = validity,
                                    !.pc = IF changed THEN "resetting" ELSE "fetching"])
  /\ UNCHANGED <<serverVars, offset, rows, queue, historyVars>>

\* Mutant: the reset keeps the old last_uid.
ResetValidityOnly(p) ==
  /\ At(p, "resetting")
  /\ offset' = [offset EXCEPT !.validity = poll[p].seen]
  /\ SetPoll(p, Idle)
  /\ UNCHANGED <<serverVars, rows, queue, historyVars>>

ResetOffset(p) ==
  /\ At(p, "resetting")
  /\ offset' = [offset EXCEPT !.last = 0, !.validity = poll[p].seen]
  /\ SetPoll(p, Idle)
  /\ UNCHANGED <<serverVars, rows, queue, historyVars>>

\* The BatchSize oldest mails with a UID above the offset.  Without any, only
\* last_poll_at is written.
Fetch(p) ==
  /\ At(p, "fetching")
  /\ LET new == {k \in Box : Uid(k) > poll[p].last}
     IN  SetPoll(p, IF new = {} THEN Idle
                    ELSE [poll[p] EXCEPT !.pc = "looping",
                            !.batch = {k \in new : Uid(k) <= poll[p].last + BatchSize}])
  /\ UNCHANGED <<serverVars, offset, rows, queue, historyVars>>

\* The mail the loop is at.
Oldest(batch) == CHOOSE k \in batch : \A l \in batch : Uid(k) <= Uid(l)
Current(p) == Oldest(poll[p].batch)

\* maxUid covers the mail, and the loop goes on with the next.
NextMail(p) ==
  SetPoll(p, [poll[p] EXCEPT !.pc = "looping", !.batch = @ \ {Current(p)},
                             !.max = Uid(Current(p))])

\* Mutant: the rows of the batch are inserted together.
InsertBatch(p) ==
  /\ At(p, "looping") /\ poll[p].batch # {}
  /\ rows' = rows \cup poll[p].batch
  /\ IF Current(p) \in rows THEN NextMail(p)
                           ELSE SetPoll(p, [poll[p] EXCEPT !.pc = "enqueueing"])
  /\ UNCHANGED <<serverVars, offset, queue, historyVars>>

\* tryInsertDedupRecord: false for a key that has a row.
Insert(p) ==
  /\ At(p, "looping") /\ poll[p].batch # {}
  /\ \/ /\ Current(p) \notin rows
        /\ rows' = rows \cup {Current(p)}
        /\ SetPoll(p, [poll[p] EXCEPT !.pc = "enqueueing"])
     \/ Current(p) \in rows /\ NextMail(p) /\ UNCHANGED rows
  /\ UNCHANGED <<serverVars, offset, queue, historyVars>>

Enqueue(p) ==
  /\ At(p, "enqueueing")
  /\ queue' = queue \cup {Current(p)}
  /\ SetPoll(p, [poll[p] EXCEPT !.pc = "marking"])
  /\ UNCHANGED <<serverVars, offset, rows, historyVars>>

\* The row's status becomes queued, and the mail is marked as read.
MarkQueued(p) ==
  /\ At(p, "marking")
  /\ NextMail(p)
  /\ UNCHANGED <<serverVars, offset, rows, queue, historyVars>>

\* Parsing, inserting, enqueueing or marking throws: the mail is logged, and
\* maxUid covers it all the same.
DropMail(p) ==
  /\ poll[p].pc \in {"looping", "enqueueing", "marking"} /\ poll[p].batch # {}
  /\ Cardinality(dropped) < MaxFailures
  /\ dropped' = dropped \cup {Current(p)}
  /\ NextMail(p)
  /\ UNCHANGED <<serverVars, offset, rows, queue, seeded, blind, crashes>>

\* The worker was told to stop: the rest of the batch is left for later.
Stop(p) ==
  /\ At(p, "looping") /\ poll[p].batch # {}
  /\ crashes < MaxCrashes /\ crashes' = crashes + 1
  /\ SetPoll(p, [poll[p] EXCEPT !.batch = {}])
  /\ UNCHANGED <<serverVars, offset, rows, queue, seeded, blind, dropped>>

SaveOffset(p) ==
  /\ At(p, "looping") /\ poll[p].batch = {}
  /\ offset' = IF poll[p].max > poll[p].last
                 THEN [offset EXCEPT !.last = poll[p].max, !.validity = poll[p].seen]
                 ELSE offset
  /\ SetPoll(p, Idle)
  /\ UNCHANGED <<serverVars, rows, queue, historyVars>>

\* The process dies, or an error outside the loop ends the poll.
Crash(p) ==
  /\ ~At(p, "idle")
  /\ crashes < MaxCrashes /\ crashes' = crashes + 1
  /\ SetPoll(p, Idle)
  /\ UNCHANGED <<serverVars, offset, rows, queue, seeded, blind, dropped>>

-----------------------------------------------------------------------------
PollStep(p) ==
  \/ ReadOffset(p) \/ Open(p) \/ ResetOffset(p) \/ Fetch(p)
  \/ Insert(p) \/ Enqueue(p) \/ MarkQueued(p) \/ SaveOffset(p)

Next ==
  \/ Arrive \/ Rebuild \/ SeedOffset
  \/ \E p \in Pollers : PollStep(p) \/ DropMail(p) \/ Stop(p) \/ Crash(p)

Spec == Init /\ [][Next]_vars

\* A timer reschedules a poll whatever became of the last, and a call that
\* neither throws nor crashes returns (IMAP and database timeouts).
FairSpec == Spec /\ WF_vars(SeedOffset) /\ \A p \in Pollers : WF_vars(PollStep(p))

-----------------------------------------------------------------------------
(* Properties. *)

TypeOK ==
  /\ arrived \in 0..MaxMails /\ first \in 1..(arrived + 1) /\ validity \in Nat
  /\ offset \in Offset
  /\ rows \in SUBSET Keys /\ queue \in SUBSET Keys
  /\ poll \in [Pollers -> Poll]
  /\ seeded \in SUBSET Mails /\ blind \in BOOLEAN
  /\ dropped \in SUBSET Keys /\ crashes \in Nat

Covered(k) == k \in rows \cup dropped \/ Mail(k) \in seeded

\* An offset that is valid for the mailbox as it is never covers a mail nobody
\* tried to ingest, whichever poller saved it last, from however old a read,
\* and however often the mailbox was rebuilt in between.  The exception is a
\* rebuild under an offset seeded at the head, under a poll that read it, or
\* between the read of the head and the insert.
OffsetCovers ==
  ~blind /\ offset.validity \in {None, validity} =>
    \A k \in Box : Uid(k) <= offset.last => Covered(k)

\* Every mail that stays in the mailbox is taken up by some poll.
EveryMailIsTaken ==
  \A k \in Keys : k \in Box ~> (Covered(k) \/ k \notin Box \/ blind)

\* A row whose mail is not in the queue is one a poll is about to enqueue, or
\* the trace of an error or a crash: races of the pollers strand no row.
Held(k) == \E p \in Pollers : At(p, "enqueueing") /\ Current(p) = k

NoRowStranded ==
  Cardinality({k \in rows : k \notin queue \cup dropped /\ ~Held(k)}) <= crashes

=============================================================================
