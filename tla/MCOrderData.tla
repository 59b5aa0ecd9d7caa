----------------------------- MODULE MCOrderData -----------------------------
(* Two points of which one has a locker near, two fields, and tenants of each *)
(* mode.                                                                      *)
EXTENDS OrderData, TLC

CONSTANTS p1, p2, l1

MCNear == p1 :> l1 @@ p2 :> None
Mail == [address |-> TRUE, phone |-> TRUE, has |-> {"phone", "name"}, code |-> FALSE,
         method |-> "locker-to-locker", route |-> "automatic"]
MCExtractions ==
  {Mail, [Mail EXCEPT !.method = "locker-to-door", !.code = TRUE, !.has = {"phone"}],
   [Mail EXCEPT !.method = "unknown"], [Mail EXCEPT !.route = "manual_upload"]}
MCOverrides ==
  {NoOverrides, [NoOverrides EXCEPT !.method = "door-to-locker", !.has = "name" :> TRUE],
   [NoOverrides EXCEPT !.address = "code" :> "reviewer", !.has = "phone" :> FALSE],
   [NoOverrides EXCEPT !.address = "code" :> None, !.has = "items" :> TRUE]}
Strict == [mode |-> "strict", enabled |-> TRUE, llm |-> FALSE, shopify |-> FALSE,
           requires |-> {"phone", "name", "duplicate"},
           pudo |-> TRUE, contact |-> TRUE, collects |-> {"locker"}]
MCTenants ==
  {Strict, [Strict EXCEPT !.mode = "advisory", !.llm = TRUE, !.collects = {"locker", "door"},
                          !.requires = {"name"}],
   [Strict EXCEPT !.mode = "shadow", !.pudo = FALSE, !.shopify = TRUE,
                  !.requires = Fields \cup {"duplicate"}],
   [Strict EXCEPT !.enabled = FALSE]}
MCProfiles == {None, {"locker"}, {"door"}}
=============================================================================
