----------------------------- MODULE Onboarding -----------------------------
(***************************************************************************)
(* How a tenant connects its shop, its mailbox and its courier: the        *)
(* onboarding routes (src/api/onboardingRoutes.ts), the settings that      *)
(* rotate or remove credentials later (src/api/settingsRoutes.ts), and the *)
(* test by which the mailbox pollers find a tenant (src/tenants).  One     *)
(* tenant; requests overlap, and nothing but the unique keys of the        *)
(* credentials keeps them apart.                                           *)
(*                                                                         *)
(* "grow" stands for the plans that use Shopify's API.  The credentials,   *)
(* the onboarding step that is shown and the events are left out.          *)
(***************************************************************************)
EXTENDS Naturals, Sequences

CONSTANTS Procs,       \* requests in flight
          None,
          MaxRequests, \* bound on requests
          MaxRows      \* bound on integration rows of a kind

ASSUME OnboardingAssumption == None \notin Procs /\ MaxRequests \in Nat /\ MaxRows \in Nat

VARIABLES
  status,    \* tenants.status
  shops,     \* tenant_ecommerce_integrations: plan and is_configured by id
  couriers,  \* tenant_courier_integrations: is_configured by id
  imap, api, \* shops with IMAP, and with Shopify API, credentials
  pudo,      \* couriers with Pudo credentials
  pc, req,   \* requests
  begun,     \* bound
  deleted,   \* history: credentials that were deleted and not saved again
  excused,   \* history: shops whose plan was replaced under a request that had read it
  unsettled  \* history: completions under way, and None for the last one that ended,
             \* since whose beginning a shop or a courier was reset or replanned

vars == <<status, shops, couriers, imap, api, pudo, pc, req, begun, deleted, excused, unsettled>>

Asks(kind, shop, courier, plan) == [kind |-> kind, shop |-> shop, courier |-> courier, plan |-> plan]
Idle == Asks(None, 0, 0, None)
Plans == {"basic", "grow"}

Init ==
  /\ status = "pending_onboarding"
  /\ shops = <<>> /\ couriers = <<>>
  /\ imap = {} /\ api = {} /\ pudo = {}
  /\ pc = [p \in Procs |-> "idle"] /\ req = [p \in Procs |-> Idle]
  /\ begun = 0 /\ deleted = {} /\ excused = {} /\ unsettled = {}

At(p, l) == pc[p] = l
Goto(p, l) == pc' = [pc EXCEPT ![p] = l]
Finish(p) == Goto(p, "idle") /\ req' = [req EXCEPT ![p] = Idle]

\* A request arrives and finds the rows its handler needs.
Begin(p, r, l) ==
  /\ At(p, "idle") /\ begun < MaxRequests
  /\ begun' = begun + 1 /\ req' = [req EXCEPT ![p] = r] /\ Goto(p, l)

Stored == <<status, shops, couriers, imap, api, pudo>>

\* A shop or a courier is taken out of use, whatever completions have seen of it.
Unsettle == unsettled' = unsettled \cup {None} \cup {q \in Procs : req[q].kind = "complete"}

-----------------------------------------------------------------------------
(* The platform and its plan, the courier. *)

\* The row there is, one of them if there are several, or the lack of one.
PickPlatform(p) ==
  /\ \E s \in IF shops = <<>> THEN {0} ELSE DOMAIN shops :
       Begin(p, Asks("platform", s, 0, None), "reset")
  /\ UNCHANGED <<Stored, deleted, excused, unsettled>>

ResetPlatform(p) ==
  /\ At(p, "reset") /\ req[p].kind = "platform"
  /\ IF req[p].shop = 0
     THEN /\ Len(shops) < MaxRows
          /\ shops' = Append(shops, [plan |-> None, configured |-> FALSE])
     ELSE shops' = [shops EXCEPT ![req[p].shop].configured = FALSE]
  /\ Unsettle /\ Finish(p)
  /\ UNCHANGED <<status, couriers, imap, api, pudo, begun, deleted, excused>>

ChoosePlan(p, plan) ==
  /\ \E s \in DOMAIN shops : Begin(p, Asks("plan", s, 0, plan), "replan")
  /\ UNCHANGED <<Stored, deleted, excused, unsettled>>

\* Mutant: an integration stays configured under its new plan.
ReplanConfigured(p) ==
  /\ At(p, "replan")
  /\ shops' = [shops EXCEPT ![req[p].shop].plan = req[p].plan]
  /\ excused' = IF \E q \in Procs \ {p} : req[q].shop = req[p].shop /\ req[q].kind # "plan"
                THEN excused \cup {req[p].shop} ELSE excused
  /\ Unsettle /\ Finish(p)
  /\ UNCHANGED <<status, couriers, imap, api, pudo, begun, deleted>>

Replan(p) ==
  /\ At(p, "replan")
  /\ shops' = [shops EXCEPT ![req[p].shop] = [plan |-> req[p].plan, configured |-> FALSE]]
  /\ excused' = IF \E q \in Procs \ {p} : req[q].shop = req[p].shop /\ req[q].kind # "plan"
                THEN excused \cup {req[p].shop} ELSE excused
  /\ Unsettle /\ Finish(p)
  /\ UNCHANGED <<status, couriers, imap, api, pudo, begun, deleted>>

PickCourier(p) ==
  /\ \E c \in IF couriers = <<>> THEN {0} ELSE DOMAIN couriers :
       Begin(p, Asks("courier", 0, c, None), "reset")
  /\ UNCHANGED <<Stored, deleted, excused, unsettled>>

ResetCourier(p) ==
  /\ At(p, "reset") /\ req[p].kind = "courier"
  /\ IF req[p].courier = 0
     THEN Len(couriers) < MaxRows /\ couriers' = Append(couriers, FALSE)
     ELSE couriers' = [couriers EXCEPT ![req[p].courier] = FALSE]
  /\ Unsettle /\ Finish(p)
  /\ UNCHANGED <<status, shops, imap, api, pudo, begun, deleted, excused>>

-----------------------------------------------------------------------------
(* Credentials. *)

\* IMAP belongs to a shop on the basic plan, by either route.
BeginImap(p) ==
  /\ \E s \in DOMAIN shops :
       shops[s].plan = "basic" /\ Begin(p, Asks("imap", s, 0, None), "save")
  /\ UNCHANGED <<Stored, deleted, excused, unsettled>>

SaveImap(p) ==
  /\ At(p, "save") /\ req[p].kind = "imap"
  /\ imap' = imap \cup {req[p].shop} /\ deleted' = deleted \ {<<"imap", req[p].shop>>}
  /\ Goto(p, "mark")
  /\ UNCHANGED <<status, shops, couriers, api, pudo, req, begun, excused, unsettled>>

\* The onboarding route ("api") marks the shop unless its plan was basic when
\* it was read; the settings route ("token") marks nothing.
BeginApi(p, kind) ==
  /\ \E s \in DOMAIN shops :
       Begin(p, Asks(kind, s, 0, shops[s].plan), "save")
  /\ UNCHANGED <<Stored, deleted, excused, unsettled>>

SaveApi(p) ==
  /\ At(p, "save") /\ req[p].kind \in {"api", "token"}
  /\ api' = api \cup {req[p].shop} /\ deleted' = deleted \ {<<"api", req[p].shop>>}
  /\ IF req[p].kind = "api" /\ req[p].plan # "basic"
     THEN Goto(p, "mark") /\ UNCHANGED req ELSE Finish(p)
  /\ UNCHANGED <<status, shops, couriers, imap, pudo, begun, excused, unsettled>>

MarkShop(p) ==
  /\ At(p, "mark") /\ req[p].kind \in {"imap", "api"}
  /\ shops' = [shops EXCEPT ![req[p].shop].configured = TRUE]
  /\ Finish(p)
  /\ UNCHANGED <<status, couriers, imap, api, pudo, begun, deleted, excused, unsettled>>

BeginPudo(p) ==
  /\ \E c \in DOMAIN couriers : Begin(p, Asks("pudo", 0, c, None), "save")
  /\ UNCHANGED <<Stored, deleted, excused, unsettled>>

SavePudo(p) ==
  /\ At(p, "save") /\ req[p].kind = "pudo"
  /\ pudo' = pudo \cup {req[p].courier} /\ deleted' = deleted \ {<<"pudo", req[p].courier>>}
  /\ Goto(p, "mark")
  /\ UNCHANGED <<status, shops, couriers, imap, api, req, begun, excused, unsettled>>

MarkCourier(p) ==
  /\ At(p, "mark") /\ req[p].kind = "pudo"
  /\ couriers' = [couriers EXCEPT ![req[p].courier] = TRUE]
  /\ Finish(p)
  /\ UNCHANGED <<status, shops, imap, api, pudo, begun, deleted, excused, unsettled>>

\* The database, or the password's encryption, fails a request in the middle.
SaveFails(p) ==
  /\ pc[p] \in {"save", "mark"} /\ Finish(p)
  /\ UNCHANGED <<Stored, begun, deleted, excused, unsettled>>

\* Removing credentials leaves is_configured as it is.
Deletes(kind, ids) == deleted' = deleted \cup {<<kind, i>> : i \in ids}
Remove ==
  /\ begun < MaxRequests /\ begun' = begun + 1
  /\ \/ imap # {} /\ imap' = {} /\ Deletes("imap", imap) /\ UNCHANGED <<api, pudo>>
     \/ api # {} /\ api' = {} /\ Deletes("api", api) /\ UNCHANGED <<imap, pudo>>
     \/ pudo # {} /\ pudo' = {} /\ Deletes("pudo", pudo) /\ UNCHANGED <<imap, api>>
  /\ UNCHANGED <<status, shops, couriers, pc, req, excused, unsettled>>

-----------------------------------------------------------------------------
(* The completion reads the shop, then the courier, then sets the status. *)

\* Mutant: any shop will do.
CompleteUnconfigured(p) ==
  /\ \E s \in DOMAIN shops : Begin(p, Asks("complete", s, 0, None), "courier")
  /\ unsettled' = unsettled \ {p}
  /\ UNCHANGED <<Stored, deleted, excused>>

Complete(p) ==
  /\ \E s \in DOMAIN shops :
       shops[s].configured /\ Begin(p, Asks("complete", s, 0, None), "courier")
  /\ unsettled' = unsettled \ {p}
  /\ UNCHANGED <<Stored, deleted, excused>>

CheckCourier(p) ==
  /\ At(p, "courier")
  /\ IF \E c \in DOMAIN couriers : couriers[c] THEN Goto(p, "activate") /\ UNCHANGED req ELSE Finish(p)
  /\ UNCHANGED <<Stored, begun, deleted, excused, unsettled>>

Activate(p) ==
  /\ At(p, "activate")
  /\ status' = "active" /\ Finish(p)
  /\ unsettled' = IF p \in unsettled THEN unsettled \cup {None} ELSE unsettled \ {None}
  /\ UNCHANGED <<shops, couriers, imap, api, pudo, begun, deleted, excused>>

Request(p) ==
  \/ PickPlatform(p) \/ ResetPlatform(p) \/ PickCourier(p) \/ ResetCourier(p)
  \/ \E plan \in Plans : ChoosePlan(p, plan)
  \/ Replan(p)
  \/ BeginImap(p) \/ SaveImap(p) \/ SaveApi(p) \/ MarkShop(p)
  \/ \E kind \in {"api", "token"} : BeginApi(p, kind)
  \/ BeginPudo(p) \/ SavePudo(p) \/ MarkCourier(p) \/ SaveFails(p)
  \/ Complete(p) \/ CheckCourier(p) \/ Activate(p)

Next == (\E p \in Procs : Request(p)) \/ Remove

Spec == Init /\ [][Next]_vars

-----------------------------------------------------------------------------
(* Properties. *)

\* getActiveImapIngestionConfigs: the mailboxes that are polled.
Polled == {s \in imap : status = "active" /\ shops[s].plan = "basic" /\ shops[s].configured}

\* Credentials that are there, or were deleted since they were saved.
Had(kind, held, i) == i \in held \/ <<kind, i>> \in deleted

\* A shop that is configured has the credentials of its plan, unless they were
\* deleted since, or its plan was replaced under a request that had read it.
ConfiguredIsBacked ==
  \A s \in DOMAIN shops \ excused :
    shops[s].configured => IF shops[s].plan = "basic" THEN Had("imap", imap, s) ELSE Had("api", api, s)

\* A tenant that is active has a courier that can be used and a mailbox that is
\* polled or a shop whose API can be, unless something was reset or replanned
\* since the completion that made it active began.  Deleted credentials, before
\* it or after, are excepted one by one: only the row they belong to may lack them.
ActiveIsServed ==
  status = "active" /\ None \notin unsettled =>
    /\ \E c \in DOMAIN couriers : couriers[c] /\ Had("pudo", pudo, c)
    /\ \E s \in DOMAIN shops :
         /\ shops[s].configured
         /\ \/ shops[s].plan = "basic" /\ (s \in Polled \/ <<"imap", s>> \in deleted)
            \/ shops[s].plan # "basic" /\ Had("api", api, s)
            \/ s \in excused

=============================================================================
