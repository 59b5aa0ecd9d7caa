------------------------------- MODULE WhatsApp -------------------------------
(***************************************************************************)
(* The WhatsApp channel: credentials and templates (saveSettings and       *)
(* src/api/whatsappRoutes.ts), the subscriber that turns order events into *)
(* messages (src/whatsapp/index.ts) and Meta's status callbacks            *)
(* (src/api/whatsappWebhookRoutes.ts).  A process is one delivery of an    *)
(* event by the outbox, or one send on another ground.                     *)
(***************************************************************************)
EXTENDS Integers, Sequences, FiniteSets

CONSTANTS
    Tenants,
    Numbers,     \* Meta phone_number_ids
    Purposes,
    DefaultTypes, \* DefaultTypes[p]: the event types a seeded template listens to
    Events,      \* order events of the first tenant
    Type,        \* Type[e]: the event type of an event
    Owner,       \* the tenant of the events
    Procs,
    None,
    MaxSends,    \* bound: deliveries of events and other sends
    MaxEdits,    \* bound: changes of settings and templates
    MaxTrouble   \* bound: crashes, lapsed leases and answers, cleared keys, exceptions

WhatsAppAssumption ==
    /\ Owner \in Tenants /\ None \notin Numbers \cup Events \cup Procs
    /\ DOMAIN DefaultTypes \subseteq Purposes /\ DOMAIN Type = Events
    /\ MaxSends \in Nat /\ MaxEdits \in Nat /\ MaxTrouble \in Nat

VARIABLES
    settings,  \* whatsapp_settings: the number of each tenant
    saves,     \* saveSettings between its claim check and its write
    templates, \* whatsapp_templates of a tenant, by purpose
    submits,   \* templates under review submission: the id read before Meta is called
    keys,      \* idempotency keys by event and template, which is a purpose and a row id
    procs,     \* what each process is doing
    rows,      \* whatsapp_messages, outbound
    lost,      \* rows whose sender is gone
    excuses,   \* per key: what let it be sent once more
    counts     \* sends, edits and troubles so far, and the next template id

vars == <<settings, saves, templates, submits, keys, procs, rows, lost, excuses, counts>>

Edit == counts.edits < MaxEdits /\ counts' = [counts EXCEPT !.edits = @ + 1]
Trouble == counts.troubles < MaxTrouble /\ counts' = [counts EXCEPT !.troubles = @ + 1]

Ids == 1..MaxEdits
Keys == Events \X Purposes \X Ids
NoKey == [status |-> "none", owner |-> None]
NoTemplate == [id |-> 0, on |-> FALSE, types |-> {}, linked |-> FALSE, status |-> "none"]
IdleProc == [step |-> "idle", event |-> None, todo |-> {}, id |-> 0, purpose |-> None, row |-> 0]

Init ==
    /\ settings = [t \in Tenants |-> None]
    /\ saves = [t \in Tenants |-> None]
    /\ templates = [t \in Tenants |-> [p \in Purposes |-> NoTemplate]]
    /\ submits = [t \in Tenants |-> None]
    /\ keys = [k \in Keys |-> NoKey]
    /\ procs = [x \in Procs |-> IdleProc]
    /\ rows = <<>>
    /\ lost = {}
    /\ excuses = [k \in Keys |-> 0]
    /\ counts = [sends |-> 0, edits |-> 0, troubles |-> 0, ids |-> 0]

channel == <<settings, saves>>
sending == <<keys, procs, rows, lost, excuses>>

(* ------------------------------ credentials ----------------------------- *)

Claimed(t, n) == \E u \in Tenants \ {t} : settings[u] = n

\* saveSettings reads the tenant's row and refuses a number another tenant has.
CheckClaim(t, n) ==
    /\ saves[t] = None /\ ~Claimed(t, n)
    /\ Edit
    /\ saves' = [saves EXCEPT ![t] = [number |-> n, fresh |-> settings[t] = None]]
    /\ UNCHANGED <<settings, templates, submits, sending>>

\* The default templates are inserted when the tenant has none.
Seeded(t) ==
    IF \A p \in Purposes : templates[t][p].id = 0
    THEN /\ templates' = [templates EXCEPT ![t] = [p \in Purposes |->
               IF p \in DOMAIN DefaultTypes
               THEN [id |-> counts.ids + 1, on |-> TRUE, types |-> DefaultTypes[p], linked |-> FALSE, status |-> "none"]
               ELSE NoTemplate]]
         /\ counts' = [counts EXCEPT !.ids = @ + 1]
    ELSE UNCHANGED <<templates, counts>>

\* An update of a row that was deleted since changes nothing.
StoreSettings(t) ==
    /\ saves[t] # None
    /\ settings' = [settings EXCEPT ![t] = IF saves[t].fresh \/ @ # None THEN saves[t].number ELSE @]
    /\ saves' = [saves EXCEPT ![t] = None]
    /\ Seeded(t)
    /\ UNCHANGED <<submits, sending>>

DeleteSettings(t) ==
    /\ settings[t] # None /\ Edit
    /\ settings' = [settings EXCEPT ![t] = None]
    /\ UNCHANGED <<saves, templates, submits, sending>>

(* ------------------------------- templates ------------------------------ *)

Stored(t, p) == templates[t][p].id # 0
Put(t, p, r) == templates' = [templates EXCEPT ![t][p] = r]

\* PUT /templates/:purpose: any field by itself; clearing template_name unlinks it from Meta.
EditTemplate(t, p) ==
    /\ Stored(t, p) /\ Edit
    /\ LET r == templates[t][p] IN
       \/ Put(t, p, [r EXCEPT !.on = ~@])
       \/ Put(t, p, [r EXCEPT !.linked = ~@])
       \/ \E e \in Events : Put(t, p, [r EXCEPT !.types = IF Type[e] \in @ THEN @ \ {Type[e]} ELSE @ \cup {Type[e]}])
    /\ UNCHANGED <<channel, submits, sending>>

\* POST /templates, refused for a purpose that has one.
CreateTemplate(t, p, types) ==
    /\ ~Stored(t, p) /\ counts.edits < MaxEdits
    /\ Put(t, p, [id |-> counts.ids + 1, on |-> TRUE, types |-> types, linked |-> FALSE, status |-> "DRAFT"])
    /\ counts' = [counts EXCEPT !.edits = @ + 1, !.ids = @ + 1]
    /\ UNCHANGED <<channel, submits, sending>>

DeleteTemplate(t, p) ==
    /\ Stored(t, p) /\ Edit
    /\ Put(t, p, NoTemplate)
    /\ UNCHANGED <<channel, submits, sending>>

\* submit-to-meta reads the row, calls Meta, and links the row it read, approved or not.
Submit(t, p) ==
    /\ Stored(t, p) /\ submits[t] = None /\ Edit
    /\ submits' = [submits EXCEPT ![t] = [purpose |-> p, id |-> templates[t][p].id]]
    /\ UNCHANGED <<channel, templates, sending>>

Submitted(t) ==
    /\ submits[t] # None
    /\ submits' = [submits EXCEPT ![t] = None]
    /\ LET p == submits[t].purpose IN
       \/ \E s \in {"PENDING", "APPROVED"} :
            IF templates[t][p].id = submits[t].id
            THEN Put(t, p, [templates[t][p] EXCEPT !.linked = TRUE, !.status = s])
            ELSE UNCHANGED templates
       \/ UNCHANGED templates  \* Meta refuses
    /\ UNCHANGED <<channel, sending, counts>>

\* sync-from-meta, for a row that was submitted.
Sync(t, p) ==
    /\ templates[t][p].status \in {"PENDING", "APPROVED", "REJECTED"}
    /\ \E s \in {"APPROVED", "REJECTED"} \ {templates[t][p].status} :
         Put(t, p, [templates[t][p] EXCEPT !.status = s])
    /\ Edit
    /\ UNCHANGED <<channel, submits, sending>>

\* Both imports write the whole row and switch it on, with the default types of its purpose.
Import(t, p) ==
    /\ counts.edits < MaxEdits
    /\ \E s \in {"PENDING", "APPROVED"} :
         Put(t, p, [id |-> IF Stored(t, p) THEN templates[t][p].id ELSE counts.ids + 1, on |-> TRUE,
                    types |-> IF p \in DOMAIN DefaultTypes THEN DefaultTypes[p] ELSE {},
                    linked |-> TRUE, status |-> s])
    /\ counts' = [counts EXCEPT !.edits = @ + 1, !.ids = IF Stored(t, p) THEN @ ELSE @ + 1]
    /\ UNCHANGED <<channel, submits, sending>>

(* -------------------------------- sending ------------------------------- *)

other == <<settings, saves, templates, submits>>
Begin == counts.sends < MaxSends /\ counts' = [counts EXCEPT !.sends = @ + 1]
Become(x, r) == procs' = [procs EXCEPT ![x] = r]

\* whatsappEventSubscriber: the enabled templates that listen, if the order has a phone number.
Deliver(x, e) ==
    /\ procs[x] = IdleProc /\ Begin
    /\ LET matching == {p \in Purposes : templates[Owner][p].on /\ Type[e] \in templates[Owner][p].types} IN
       Become(x, IF matching = {} THEN IdleProc
                 ELSE [IdleProc EXCEPT !.step = "next", !.event = e,
                         !.todo = {[id |-> templates[Owner][p].id, purpose |-> p] : p \in matching}])
    /\ UNCHANGED <<other, keys, rows, lost, excuses>>

\* A send on another ground: the test route, a campaign step, a corrected address.
Dispatch(x, p) ==
    /\ procs[x] = IdleProc /\ Begin
    /\ Become(x, [IdleProc EXCEPT !.step = "send", !.purpose = p])
    /\ UNCHANGED <<other, keys, rows, lost, excuses>>

KeyOf(x) == <<procs[x].event, procs[x].purpose, procs[x].id>>
Keyed(x) == procs[x].event # None

Excuse(k) == excuses' = [excuses EXCEPT ![k] = @ + 1]

\* A key that lets the next delivery send; mutant: a lease is never respected.
FreeUnlessCompleted(k) == keys[k].status # "completed"
Free(k) == keys[k].status \in {"none", "stale", "failed"}

\* withIdempotency for the next template: a key in progress or completed is skipped.
Claim(x) ==
    /\ procs[x].step = "next"
    /\ \/ /\ procs[x].todo = {} /\ Become(x, IdleProc) /\ UNCHANGED <<keys, excuses>>
       \/ \E w \in procs[x].todo :
            LET k == <<procs[x].event, w.purpose, w.id>>
                rest == [procs[x] EXCEPT !.todo = @ \ {w}] IN
            IF Free(k)
            THEN /\ Become(x, [rest EXCEPT !.step = "send", !.id = w.id, !.purpose = w.purpose])
                 /\ keys' = [keys EXCEPT ![k] = [status |-> "in_progress", owner |-> x]]
                 /\ IF keys[k].status = "stale" THEN Excuse(k) ELSE UNCHANGED excuses
            ELSE Become(x, rest) /\ UNCHANGED <<keys, excuses>>
    /\ UNCHANGED <<other, rows, lost, counts>>

\* The end of one template: the key gets its result, whoever holds it by then, unless it was cleared.
Settled(x, status) ==
    /\ keys' = IF Keyed(x) /\ keys[KeyOf(x)].status # "none" THEN [keys EXCEPT ![KeyOf(x)].status = status] ELSE keys
    /\ Become(x, IF Keyed(x) THEN [procs[x] EXCEPT !.step = "next", !.id = 0, !.purpose = None, !.row = 0] ELSE IdleProc)

\* dispatchByPurpose without credentials, or without an enabled template of the purpose.
SkipSend(x) ==
    /\ procs[x].step = "send"
    /\ settings[Owner] = None \/ ~templates[Owner][procs[x].purpose].on
    /\ Settled(x, "completed")
    /\ UNCHANGED <<other, rows, lost, excuses, counts>>

\* The log row is written before the message is sent.
Logged(x) == rows' = Append(rows, [key |-> KeyOf(x), status |-> "queued", taken |-> FALSE, named |-> FALSE])

LogSend(x) ==
    /\ procs[x].step = "send"
    /\ settings[Owner] # None /\ templates[Owner][procs[x].purpose].on
    /\ Logged(x)
    /\ Become(x, [procs[x] EXCEPT !.step = "post", !.row = Len(rows) + 1])
    /\ UNCHANGED <<other, keys, lost, excuses, counts>>

\* Meta takes the message; one sent as a template must be approved by then.
Accept(x) ==
    /\ procs[x].step = "post"
    /\ LET r == templates[Owner][procs[x].purpose] IN r.linked => r.status = "APPROVED"
    /\ rows' = [rows EXCEPT ![procs[x].row].taken = TRUE]
    /\ Become(x, [procs[x] EXCEPT !.step = "record"])
    /\ UNCHANGED <<other, keys, lost, excuses, counts>>

RecordedAnyway(i, status) == rows' = rows
Recorded(i, status) == rows' = [rows EXCEPT ![i].status = status, ![i].named = status = "sent"]

Refuse(x) ==
    /\ procs[x].step = "post"
    /\ Recorded(procs[x].row, "failed")
    /\ Settled(x, "completed")
    /\ UNCHANGED <<other, lost, excuses, counts>>

Record(x) ==
    /\ procs[x].step = "record"
    /\ Recorded(procs[x].row, "sent")
    /\ Settled(x, "completed")
    /\ UNCHANGED <<other, lost, excuses, counts>>

\* The update lies in the same try block: when it fails, the row of a message sent says failed.
RecordFails(x) ==
    /\ procs[x].step = "record" /\ Trouble
    /\ Recorded(procs[x].row, "failed")
    /\ Settled(x, "completed")
    /\ UNCHANGED <<other, lost, excuses>>

\* An exception: a query fails or the token cannot be decrypted before Meta is called, or the second
\* update fails as well once Meta has the message.
Throw(x) ==
    /\ procs[x].step \in {"send", "post", "record"} /\ Trouble
    /\ lost' = IF procs[x].row = 0 THEN lost ELSE lost \cup {procs[x].row}
    /\ IF Keyed(x) /\ procs[x].step = "record" THEN Excuse(KeyOf(x)) ELSE UNCHANGED excuses
    /\ Settled(x, "failed")
    /\ UNCHANGED <<other, rows>>

\* The process dies; its keys stay in progress until their leases lapse.
Crash(x) ==
    /\ procs[x] # IdleProc /\ Trouble
    /\ lost' = IF procs[x].row = 0 THEN lost ELSE lost \cup {procs[x].row}
    /\ Become(x, IdleProc)
    /\ UNCHANGED <<other, keys, rows, excuses>>

\* A lease is respected for some minutes, an answer for seven days.
Lapse(k) ==
    /\ keys[k].status \in {"in_progress", "completed"} /\ Trouble
    /\ keys' = [keys EXCEPT ![k].status = "stale"]
    /\ UNCHANGED <<other, procs, rows, lost, excuses>>

\* DELETE /idempotency/:key, whether its message was sent, is being sent or failed.
ClearKey(k) ==
    /\ keys[k].status # "none" /\ Trouble
    /\ keys' = [keys EXCEPT ![k] = NoKey]
    /\ IF keys[k].status = "failed" THEN UNCHANGED excuses ELSE Excuse(k)
    /\ UNCHANGED <<other, procs, rows, lost>>

\* handleStatusUpdate finds the row by Meta's message id and stores what it is told, in any order.
StatusUpdate(i) ==
    /\ rows[i].taken /\ rows[i].named
    /\ \E s \in {"sent", "delivered", "read", "failed"} : rows' = [rows EXCEPT ![i].status = s]
    /\ UNCHANGED <<other, keys, procs, lost, excuses, counts>>

Next ==
    \/ \E t \in Tenants : \/ \E n \in Numbers : CheckClaim(t, n)
                          \/ StoreSettings(t) \/ DeleteSettings(t) \/ Submitted(t)
                          \/ \E p \in Purposes : \/ EditTemplate(t, p) \/ DeleteTemplate(t, p)
                                                 \/ Submit(t, p) \/ Sync(t, p) \/ Import(t, p)
                                                 \/ \E e \in Events : CreateTemplate(t, p, {Type[e]})
    \/ \E x \in Procs : \/ \E e \in Events : Deliver(x, e)
                        \/ \E p \in Purposes : Dispatch(x, p)
                        \/ Claim(x) \/ SkipSend(x) \/ LogSend(x) \/ Accept(x) \/ Refuse(x)
                        \/ Record(x) \/ RecordFails(x) \/ Throw(x) \/ Crash(x)
    \/ \E k \in Keys : Lapse(k) \/ ClearKey(k)
    \/ \E i \in 1..Len(rows) : StatusUpdate(i)

Spec == Init /\ [][Next]_vars

(* ------------------------------ properties ------------------------------ *)

Sent(k) == {i \in 1..Len(rows) : rows[i].key = k /\ rows[i].taken}

\* However often the outbox delivers an event, a template is sent for it once, and once more only each
\* time a lease or an answer too old to be respected was taken over, a result could not be stored once
\* Meta had the message, or an operator cleared the key of a message sent or being sent.
NoticeBudget == \A k \in Keys : Cardinality(Sent(k)) <= 1 + excuses[k]

\* The log: a row is queued only while its sender works on it or after it broke off, and a row that
\* says sent, delivered or read is of a message Meta took.
RowsTellTheTruth ==
    \A i \in 1..Len(rows) :
        /\ rows[i].status = "queued" => i \in lost \/ \E x \in Procs : procs[x].row = i
        /\ rows[i].status \in {"sent", "delivered", "read"} => rows[i].taken

=============================================================================
