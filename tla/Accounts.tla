------------------------------ MODULE Accounts ------------------------------
(***************************************************************************)
(* Who may do what in a tenant's dashboard: registration and login with    *)
(* the rows that a first login makes (src/auth/index.ts), the users and    *)
(* permissions that those who may manage them edit                         *)
(* (src/api/usersRoutes.ts), and the permissions a token carries           *)
(* (src/api/middleware.ts).  Logins overlap with each other and with       *)
(* edits, and a request may fail between its inserts.                      *)
(*                                                                         *)
(* Passwords are right: one person uses one password everywhere.  A        *)
(* permission is "*", "manage" (users.manage and users.invite) or "view".  *)
(***************************************************************************)
EXTENDS Naturals, FiniteSets

CONSTANTS Tenants,   \* tenants, each known by the address it registers with
          Guests,    \* addresses of others who may be invited
          Procs,     \* requests in flight
          None,
          MaxUsers, MaxEdits, MaxTrouble  \* bounds

AccountsAssumption ==
  /\ None \notin Tenants \cup Guests
  /\ MaxUsers \in Nat /\ MaxEdits \in Nat /\ MaxTrouble \in Nat

Addresses == Tenants \cup Guests

\* ROLE_PRESETS, as far as they differ here.
Roles == {{"*"}, {"manage", "view"}, {"view"}}

Grants(held, wanted) == "*" \in held \/ wanted \in held

VARIABLES
  tenants,  \* tenants that have registered
  users,    \* tenant_users: tenant, email, status, by id
  perms,    \* user_permissions, by id
  ids,      \* rows of tenant_users made so far
  tokens,   \* tokens in somebody's browser
  pc, req,  \* requests
  edits, troubles,  \* bounds
  touched   \* history: rows that were invited or edited, or lost their grant

vars == <<tenants, users, perms, ids, tokens, pc, req, edits, troubles, touched>>

Idle == [kind |-> None, email |-> None, tenant |-> None, user |-> 0, perms |-> {}]

Init ==
  /\ tenants = {} /\ users = {} /\ ids = 0 /\ tokens = {}
  /\ perms = [i \in 1..MaxUsers |-> {}] 
  /\ pc = [p \in Procs |-> "idle"] /\ req = [p \in Procs |-> Idle]
  /\ edits = 0 /\ troubles = 0 /\ touched = {}

At(p, l) == pc[p] = l
Goto(p, l) == pc' = [pc EXCEPT ![p] = l]
Finish(p) == Goto(p, "idle") /\ req' = [req EXCEPT ![p] = Idle]
Of(t) == {u \in users : u.tenant = t}

Register(t) ==
  /\ t \notin tenants /\ tenants' = tenants \cup {t}
  /\ UNCHANGED <<users, perms, ids, tokens, pc, req, edits, troubles, touched>>

-----------------------------------------------------------------------------
(* Login. *)

\* An active user with the address, in whichever tenant; failing that, the
\* tenant that registered with it.
Login(p, e) ==
  /\ At(p, "idle")
  /\ LET found == {u \in users : u.email = e /\ u.status = "active"}
     IN \/ \E u \in found : /\ req' = [req EXCEPT ![p] = [Idle EXCEPT !.kind = "login", !.email = e,
                                              !.tenant = u.tenant, !.user = u.id]]
                            /\ Goto(p, "permissions")
        \/ /\ found = {} /\ e \in tenants
           /\ req' = [req EXCEPT ![p] = [Idle EXCEPT !.kind = "login", !.email = e, !.tenant = e]]
           /\ Goto(p, "owner")
  /\ UNCHANGED <<tenants, users, perms, ids, tokens, edits, troubles, touched>>

Issue(p, held) == tokens' = tokens \cup {[tenant |-> req[p].tenant, user |-> req[p].user, perms |-> held]}

LoadPermissions(p) ==
  /\ At(p, "permissions")
  /\ Issue(p, perms[req[p].user]) /\ Finish(p)
  /\ UNCHANGED <<tenants, users, perms, ids, edits, troubles, touched>>

\* The owner becomes a user if the tenant has none; otherwise a person must
\* look into it, and the login is refused.
Backfill(p) ==
  /\ At(p, "owner")
  /\ IF Of(req[p].tenant) = {}
     THEN req' = [req EXCEPT ![p].perms = {"*"}] /\ Goto(p, "insert")
     ELSE Finish(p)
  /\ UNCHANGED <<tenants, users, perms, ids, tokens, edits, troubles, touched>>

-----------------------------------------------------------------------------
(* Users. *)

\* POST /users/invite, by a token that may, for an address that is free.
Invite(p, k, e, role) ==
  /\ At(p, "idle") /\ edits < MaxEdits
  /\ Grants(k.perms, "manage") /\ ("*" \in role => "*" \in k.perms)
  /\ \A u \in Of(k.tenant) : u.email # e
  /\ req' = [req EXCEPT ![p] = [Idle EXCEPT !.kind = "invite", !.email = e,
                                     !.tenant = k.tenant, !.perms = role]]
  /\ Goto(p, "insert") /\ edits' = edits + 1
  /\ UNCHANGED <<tenants, users, perms, ids, tokens, troubles, touched>>

\* The row; the key on tenant and address refuses a second one.
InsertUser(p) ==
  /\ At(p, "insert")
  /\ IF \E u \in Of(req[p].tenant) : u.email = req[p].email
     THEN Finish(p) /\ UNCHANGED <<users, ids, touched>>
     ELSE /\ ids < MaxUsers /\ ids' = ids + 1
          /\ users' = users \cup {[id |-> ids + 1, tenant |-> req[p].tenant, email |-> req[p].email,
                                 status |-> "active"]}
          /\ req' = [req EXCEPT ![p].user = ids + 1]
          /\ touched' = IF req[p].kind = "invite" THEN touched \cup {ids + 1} ELSE touched
          /\ Goto(p, "grant")
  /\ UNCHANGED <<tenants, perms, tokens, edits, troubles>>

\* Its permissions, a statement of their own, which breaks a key if the user
\* is gone or has one of them already.  A login ends with a token.
GrantPermissions(p) ==
  /\ At(p, "grant")
  /\ IF (\E u \in users : u.id = req[p].user) /\ perms[req[p].user] \cap req[p].perms = {}
     THEN /\ perms' = [perms EXCEPT ![req[p].user] = @ \cup req[p].perms]
          /\ IF req[p].kind = "login" THEN Issue(p, req[p].perms) ELSE UNCHANGED tokens
     ELSE UNCHANGED <<perms, tokens>>
  /\ Finish(p)
  /\ UNCHANGED <<tenants, users, ids, edits, troubles, touched>>

\* The process stops, or the database does, between the two.
GrantLost(p) ==
  /\ At(p, "grant") /\ troubles < MaxTrouble /\ troubles' = troubles + 1
  /\ touched' = touched \cup {req[p].user}
  /\ Finish(p)
  /\ UNCHANGED <<tenants, users, perms, ids, tokens, edits>>

\* The user an edit is about, and the right to it.
Edit(k, u) ==
  /\ Grants(k.perms, "manage") /\ u.tenant = k.tenant
  /\ edits < MaxEdits /\ edits' = edits + 1
  /\ touched' = touched \cup {u.id}
  /\ UNCHANGED <<tenants, ids, tokens, pc, req, troubles>>

\* Mutant: the replacement forgets whose permissions it replaces.
ReplaceAll(k, u, role) ==
  /\ Edit(k, u) /\ ("*" \in role => "*" \in k.perms)
  /\ perms' = [i \in 1..MaxUsers |-> IF i = u.id THEN role ELSE {}]
  /\ UNCHANGED users

\* PUT /users/:id/permissions, one transaction.
ReplacePermissions(k, u, role) ==
  /\ Edit(k, u) /\ ("*" \in role => "*" \in k.perms)
  /\ perms' = [perms EXCEPT ![u.id] = role]
  /\ UNCHANGED users

SetStatus(k, u, status) ==
  /\ Edit(k, u)
  /\ users' = (users \ {u}) \cup {[u EXCEPT !.status = status]}
  /\ UNCHANGED perms

\* Nobody deletes himself; the permissions go with the row.
DeleteUser(k, u) ==
  /\ Edit(k, u) /\ k.user # u.id
  /\ users' = users \ {u} /\ perms' = [perms EXCEPT ![u.id] = {}]

TokenExpires(k) ==
  /\ tokens' = tokens \ {k}
  /\ UNCHANGED <<tenants, users, perms, ids, pc, req, edits, troubles, touched>>

Next ==
  \/ \E t \in Tenants : Register(t)
  \/ \E p \in Procs, e \in Addresses : Login(p, e)
  \/ \E p \in Procs : \/ LoadPermissions(p) \/ Backfill(p) \/ InsertUser(p)
                      \/ GrantPermissions(p) \/ GrantLost(p)
  \/ \E p \in Procs, k \in tokens, e \in Addresses, role \in Roles : Invite(p, k, e, role)
  \/ \E k \in tokens, u \in users : \/ \E role \in Roles : ReplacePermissions(k, u, role)
                                    \/ \E status \in {"active", "disabled"} : SetStatus(k, u, status)
                                    \/ DeleteUser(k, u)
  \/ \E k \in tokens : TokenExpires(k)

Spec == Init /\ [][Next]_vars

-----------------------------------------------------------------------------
(* Properties. *)

\* The row that a first login makes of an owner holds every permission, or the
\* login still has to grant them, unless somebody edited it or the login was
\* cut short: that row is found by every later login, and stays as it is.
OwnerGetsIn ==
  \A u \in users : u.id \notin touched =>
    "*" \in perms[u.id] \/ \E p \in Procs : At(p, "grant") /\ req[p].user = u.id

=============================================================================
