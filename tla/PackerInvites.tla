---------------------------- MODULE PackerInvites ----------------------------
(***************************************************************************)
(* How packers come to a tenant: the invites of src/api/packersRoutes.ts   *)
(* and the sign-up and acceptance of src/api/packerAuthRoutes.ts.  A packer *)
(* stands for the e-mail address the account is registered under.          *)
(***************************************************************************)
EXTENDS Integers, FiniteSets

CONSTANTS
    Packers,
    Invites,  \* the rows of packer_invites that are ever made
    Callers,  \* requests under way at the same time
    None

InvitesAssumption == None \notin Invites

VARIABLES
    accounts, \* packers
    invites,  \* packer_invites: status, addressee and who accepted
    lapsed,   \* the invites past expires_at
    links,    \* packer_tenant_links: status and linked_via_invite_id
    reqs      \* requests between two of their steps

vars == <<accounts, invites, lapsed, links, reqs>>

NoInvite == [status |-> "none", email |-> None, packer |-> None]
Idle == [kind |-> "idle"]

Init ==
    /\ accounts = {}
    /\ invites = [i \in Invites |-> NoInvite]
    /\ lapsed = {}
    /\ links = [p \in Packers |-> [status |-> "none", via |-> None]]
    /\ reqs = [r \in Callers |-> Idle]

\* POST /packers/invites: no active link with that address; then one transaction.
CheckLinked(r, p) ==
    /\ reqs[r] = Idle /\ links[p].status # "active"
    /\ reqs' = [reqs EXCEPT ![r] = [kind |-> "invite", packer |-> p]]
    /\ UNCHANGED <<accounts, invites, lapsed, links>>

CreateInvite(r, i) ==
    /\ reqs[r].kind = "invite" /\ invites[i].status = "none"
    /\ LET p == reqs[r].packer
           Superseded(j) == invites[j].status = "pending" /\ invites[j].email = p
       IN invites' = [j \in Invites |->
            IF j = i THEN [status |-> "pending", email |-> p, packer |-> None]
            ELSE IF Superseded(j) THEN [invites[j] EXCEPT !.status = "revoked"] ELSE invites[j]]
    /\ reqs' = [reqs EXCEPT ![r] = Idle]
    /\ UNCHANGED <<accounts, lapsed, links>>

Revoke(i) ==
    /\ invites[i].status = "pending"
    /\ invites' = [invites EXCEPT ![i].status = "revoked"]
    /\ UNCHANGED <<accounts, lapsed, links, reqs>>

Lapse(i) ==
    /\ invites[i].status # "none" /\ i \notin lapsed
    /\ lapsed' = lapsed \cup {i}
    /\ UNCHANGED <<accounts, invites, links, reqs>>

\* loadPendingInvite, under the row's lock: a lapsed invite is marked expired.
FreshAsRead(i) == TRUE
Fresh(i) == invites[i].status = "pending" /\ i \notin lapsed

\* acceptInviteInTransaction: a link that exists is made active again.
Accepted(i, p) ==
    /\ links' = [links EXCEPT ![p] = [status |-> "active", via |-> i]]
    /\ invites' = [invites EXCEPT ![i].status = "accepted", ![i].packer = p]

Redeem(i, p) ==
    IF Fresh(i) THEN Accepted(i, p)
    ELSE /\ invites' = IF invites[i].status = "pending"
                       THEN [invites EXCEPT ![i].status = "expired"] ELSE invites
         /\ UNCHANGED links

\* POST /packer-auth/signup: the invite, if there is one, is looked up before the account is made.
SignUpCheck(r, p, i) ==
    /\ reqs[r] = Idle
    /\ i # None => Fresh(i)
    /\ reqs' = [reqs EXCEPT ![r] = [kind |-> "signup", packer |-> p, invite |-> i]]
    /\ UNCHANGED <<accounts, invites, lapsed, links>>

\* registerPacker: the address must be new, by a look-up and by its unique index.
Register(r) ==
    /\ reqs[r].kind = "signup"
    /\ LET p == reqs[r].packer IN
       IF p \in accounts
       THEN reqs' = [reqs EXCEPT ![r] = Idle] /\ UNCHANGED accounts
       ELSE /\ accounts' = accounts \cup {p}
            /\ reqs' = [reqs EXCEPT ![r] = IF @.invite = None THEN Idle ELSE [@ EXCEPT !.kind = "redeem"]]
    /\ UNCHANGED <<invites, lapsed, links>>

SignUpRedeem(r) ==
    /\ reqs[r].kind = "redeem"
    /\ Redeem(reqs[r].invite, reqs[r].packer)
    /\ reqs' = [reqs EXCEPT ![r] = Idle]
    /\ UNCHANGED <<accounts, lapsed>>

\* POST /packer-auth/accept, by a packer that is logged in.
Accept(p, i) ==
    /\ p \in accounts /\ invites[i].status # "none"
    /\ Redeem(i, p)
    /\ UNCHANGED <<accounts, lapsed, reqs>>

\* PUT /packers/links/:id pauses and resumes any link, POST .../unlink ends one.
UpdateLink(p) ==
    /\ links[p].status # "none"
    /\ \E s \in {"active", "paused"} : links' = [links EXCEPT ![p].status = s]
    /\ UNCHANGED <<accounts, invites, lapsed, reqs>>

Unlink(p) ==
    /\ links[p].status \notin {"none", "kicked"}
    /\ links' = [links EXCEPT ![p].status = "kicked"]
    /\ UNCHANGED <<accounts, invites, lapsed, reqs>>

Next ==
    \/ \E r \in Callers :
        \/ \E p \in Packers : CheckLinked(r, p) \/ \E i \in Invites \cup {None} : SignUpCheck(r, p, i)
        \/ \E i \in Invites : CreateInvite(r, i)
        \/ Register(r) \/ SignUpRedeem(r)
    \/ \E i \in Invites : Revoke(i) \/ Lapse(i) \/ \E p \in Packers : Accept(p, i)
    \/ \E p \in Packers : UpdateLink(p) \/ Unlink(p)

Spec == Init /\ [][Next]_vars

\* One invite makes one link: the invite a link names was accepted, and by that packer, even
\* when a sign-up, an acceptance and a revocation of the same invite overlap.
LinkNamesItsInvite ==
    \A p \in Packers : links[p].via # None =>
        invites[links[p].via].status = "accepted" /\ invites[links[p].via].packer = p
=============================================================================
