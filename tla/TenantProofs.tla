----------------------------- MODULE TenantProofs -----------------------------
(***************************************************************************)
(* Proofs about what serves a tenant beside its orders, for any number of  *)
(* requests, deliveries and calls, of overlaps and of rows: the onboarding *)
(* (ConfiguredIsBacked, ActiveIsServed) and, through the instances of      *)
(* Tenant, the accounts, the notifications, the chatbot, the corrections   *)
(* and the knowledge base.                                                 *)
(*                                                                         *)
(* That a configured shop is backed needs to know what the requests in     *)
(* flight have saved already and which plan they went by; that an active   *)
(* tenant is served, what its completion has seen and nobody has undone.   *)
(* What the others need stands at the head of their part.                  *)
(***************************************************************************)
EXTENDS Tenant, FiniteSetTheorems, WellFoundedInduction, TLAPS

(* -------------------------------- Onboarding ---------------------------- *)

Shop == [plan : Plans \cup {None}, configured : BOOLEAN]
Kind == {"platform", "plan", "courier", "imap", "api", "token", "pudo", "complete", None}
Label == {"idle", "reset", "replan", "save", "mark", "courier", "activate"}

ShopsTyped == shops \in Seq(Shop)
CouriersTyped == couriers \in Seq(BOOLEAN)

Req == [kind : Kind, shop : Nat, courier : Nat, plan : Plans \cup {None}]

\* A request works on rows that exist, or on none, and is where its kind can be.
Placed(l, r) ==
  /\ l \in Label /\ r \in Req /\ r.shop <= Len(shops) /\ r.courier <= Len(couriers)
  /\ l \in {"courier", "activate"} => r.kind = "complete" /\ r.shop \in DOMAIN shops
  /\ l = "replan" => r.kind = "plan" /\ r.shop \in DOMAIN shops
  /\ l \in {"save", "mark"} =>
       \/ r.kind \in {"imap", "api", "token"} /\ r.shop \in DOMAIN shops
       \/ r.kind = "pudo" /\ r.courier \in DOMAIN couriers
  /\ l = "reset" => r.kind \in {"platform", "courier"}

ReqsTyped ==
  /\ pc \in [Procs -> Label] /\ req \in [Procs -> Req]
  /\ \A p \in Procs : Placed(pc[p], req[p])

TypeInv == ShopsTyped /\ CouriersTyped /\ ReqsTyped

\* The credentials a row has, or had until they were deleted.
ImapOf(s) == Had("imap", imap, s)
ApiOf(s) == Had("api", api, s)
PudoOf(c) == Had("pudo", pudo, c)

\* A request about to mark its shop has saved the credentials of the plan the
\* shop still has.
SavedBy(l, r) ==
  l \in {"save", "mark"} /\ r.shop \notin excused =>
    /\ r.kind = "imap" => shops[r.shop].plan = "basic" /\ (l = "mark" => ImapOf(r.shop))
    /\ r.kind = "api" => /\ shops[r.shop].plan = r.plan
                         /\ l = "mark" => r.plan # "basic" /\ ApiOf(r.shop)

ShopSaved == \A p \in Procs : SavedBy(pc[p], req[p])

\* Couriers in use have their credentials.
PaidBy(l, r) == l = "mark" /\ r.kind = "pudo" => PudoOf(r.courier)

CourierSaved == /\ \A c \in DOMAIN couriers : couriers[c] => PudoOf(c)
                /\ \A p \in Procs : PaidBy(pc[p], req[p])

\* What a completion has seen is there until something is reset or replanned.
SeenBy(l, r) ==
  /\ l \in {"courier", "activate"} => shops[r.shop].configured
  /\ l = "activate" => \E c \in DOMAIN couriers : couriers[c]

Seen ==
  /\ \A p \in Procs \ unsettled : SeenBy(pc[p], req[p])
  /\ status = "active" /\ None \notin unsettled =>
       (\E s \in DOMAIN shops : shops[s].configured) /\ (\E c \in DOMAIN couriers : couriers[c])

IInv == TypeInv /\ ConfiguredIsBacked /\ ShopSaved /\ CourierSaved /\ Seen

LEMMA NoneIsNoRequest == None \notin Procs
  BY OnboardingAssumption

LEMMA InvInit == Init => IInv
  BY DEF Init, IInv, TypeInv, ShopsTyped, CouriersTyped, ReqsTyped, Placed, Req, ConfiguredIsBacked,
         ShopSaved, SavedBy, ImapOf, ApiOf, PudoOf, CourierSaved, PaidBy, Seen, SeenBy, Idle, Asks, Kind, Label, Plans

-----------------------------------------------------------------------------
\* A sequence keeps its length and the type of its elements when one of them is
\* replaced, and grows by one when one is appended.
LEMMA SeqKeeps ==
  ASSUME NEW S, NEW s \in Seq(S), NEW e \in S
  PROVE  /\ Append(s, e) \in Seq(S) /\ Len(Append(s, e)) = Len(s) + 1
         /\ DOMAIN s = 1..Len(s) /\ Len(s) \in Nat
         /\ \A i \in DOMAIN s : Append(s, e)[i] = s[i]
         /\ Append(s, e)[Len(s) + 1] = e
         /\ \A i \in DOMAIN s : s[i] \in S /\ [s EXCEPT ![i] = e] \in Seq(S)
                                /\ Len([s EXCEPT ![i] = e]) = Len(s)
<1>1. /\ Append(s, e) \in Seq(S) /\ Len(Append(s, e)) = Len(s) + 1
      /\ DOMAIN s = 1..Len(s) /\ Len(s) \in Nat
      /\ \A i \in DOMAIN s : Append(s, e)[i] = s[i]
      /\ Append(s, e)[Len(s) + 1] = e
  OBVIOUS
<1>2. ASSUME NEW i \in DOMAIN s
      PROVE s[i] \in S /\ [s EXCEPT ![i] = e] \in Seq(S) /\ Len([s EXCEPT ![i] = e]) = Len(s)
  OBVIOUS
<1> QED BY <1>1, <1>2

\* What the steps do to the shops: nothing, one more, or a change of one.
ShopsGrow == \E e \in Shop : e.configured = FALSE /\ shops' = Append(shops, e)
ShopChanges(i, e) == i \in DOMAIN shops /\ e \in Shop /\ shops' = [shops EXCEPT ![i] = e]
CouriersGrow == couriers' = Append(couriers, FALSE)
CourierChanges(i, b) == i \in DOMAIN couriers /\ b \in BOOLEAN /\ couriers' = [couriers EXCEPT ![i] = b]

LEMMA Rows ==
  ASSUME ShopsTyped, CouriersTyped
  PROVE  /\ DOMAIN shops = 1..Len(shops) /\ Len(shops) \in Nat
         /\ DOMAIN couriers = 1..Len(couriers) /\ Len(couriers) \in Nat
         /\ \A i \in DOMAIN shops : shops[i] \in Shop
         /\ \A i \in DOMAIN couriers : couriers[i] \in BOOLEAN
  BY DEF ShopsTyped, CouriersTyped

LEMMA Growth ==
  ASSUME ShopsTyped, ShopsGrow
  PROVE  /\ ShopsTyped' /\ Len(shops') = Len(shops) + 1
         /\ DOMAIN shops \subseteq DOMAIN shops'
         /\ \A i \in DOMAIN shops : shops'[i] = shops[i]
         /\ \A i \in DOMAIN shops' \ DOMAIN shops : ~shops'[i].configured
<1>1. PICK e \in Shop : e.configured = FALSE /\ shops' = Append(shops, e)
  BY DEF ShopsGrow
<1>2. /\ ShopsTyped' /\ Len(shops') = Len(shops) + 1 /\ Len(shops) \in Nat
      /\ DOMAIN shops = 1..Len(shops)
      /\ \A i \in DOMAIN shops : shops'[i] = shops[i]
      /\ shops'[Len(shops) + 1] = e
  BY <1>1, SeqKeeps DEF ShopsTyped
<1>3. DOMAIN shops' = 1..(Len(shops) + 1)
  BY <1>2, SeqKeeps DEF ShopsTyped
<1> QED BY <1>1, <1>2, <1>3

LEMMA Change ==
  ASSUME ShopsTyped, NEW i, NEW e, ShopChanges(i, e)
  PROVE  /\ ShopsTyped' /\ Len(shops') = Len(shops) /\ DOMAIN shops' = DOMAIN shops
         /\ shops'[i] = e /\ \A j \in DOMAIN shops \ {i} : shops'[j] = shops[j]
<1>1. ShopsTyped' /\ Len(shops') = Len(shops)
  BY SeqKeeps DEF ShopChanges, ShopsTyped
<1> QED BY <1>1 DEF ShopChanges

LEMMA CourierGrowth ==
  ASSUME CouriersTyped, CouriersGrow
  PROVE  /\ CouriersTyped' /\ Len(couriers') = Len(couriers) + 1
         /\ DOMAIN couriers \subseteq DOMAIN couriers'
         /\ \A i \in DOMAIN couriers : couriers'[i] = couriers[i]
         /\ \A i \in DOMAIN couriers' \ DOMAIN couriers : ~couriers'[i]
<1>2. /\ CouriersTyped' /\ Len(couriers') = Len(couriers) + 1 /\ Len(couriers) \in Nat
      /\ DOMAIN couriers = 1..Len(couriers)
      /\ \A i \in DOMAIN couriers : couriers'[i] = couriers[i]
      /\ couriers'[Len(couriers) + 1] = FALSE
  <2> DEFINE B == BOOLEAN
  <2>1. FALSE \in B /\ couriers \in Seq(B)
    BY DEF CouriersTyped
  <2> HIDE DEF B
  <2>2. \A e \in B : /\ Append(couriers, e) \in Seq(B) /\ Len(Append(couriers, e)) = Len(couriers) + 1
                     /\ DOMAIN couriers = 1..Len(couriers) /\ Len(couriers) \in Nat
                     /\ \A i \in DOMAIN couriers : Append(couriers, e)[i] = couriers[i]
                     /\ Append(couriers, e)[Len(couriers) + 1] = e
    BY <2>1, SeqKeeps
  <2> QED BY <2>1, <2>2, Zenon DEF B, CouriersTyped, CouriersGrow
<1>3. DOMAIN couriers' = 1..(Len(couriers) + 1)
  BY <1>2 DEF CouriersTyped
<1> QED BY <1>2, <1>3

LEMMA CourierChange ==
  ASSUME CouriersTyped, NEW i, NEW b, CourierChanges(i, b)
  PROVE  /\ CouriersTyped' /\ Len(couriers') = Len(couriers) /\ DOMAIN couriers' = DOMAIN couriers
         /\ couriers'[i] = b /\ \A j \in DOMAIN couriers \ {i} : couriers'[j] = couriers[j]
<1>1. CouriersTyped' /\ Len(couriers') = Len(couriers)
  BY SeqKeeps DEF CourierChanges, CouriersTyped
<1>2. DOMAIN couriers' = DOMAIN couriers
  BY Zenon DEF CourierChanges
<1>3. couriers'[i] = b
  BY Zenon DEF CourierChanges
<1>4. ASSUME NEW j \in DOMAIN couriers \ {i} PROVE couriers'[j] = couriers[j]
  BY Zenon DEF CourierChanges
<1> QED BY <1>1, <1>2, <1>3, <1>4

-----------------------------------------------------------------------------
(* Types. *)

\* A request moves to l and r, and no row goes away.
LEMMA Moves ==
  ASSUME TypeInv, ShopsTyped', CouriersTyped', NEW p \in Procs, NEW l, NEW r, Placed(l, r)',
         DOMAIN shops \subseteq DOMAIN shops', DOMAIN couriers \subseteq DOMAIN couriers',
         Len(shops) <= Len(shops'), Len(couriers) <= Len(couriers'),
         pc' = [pc EXCEPT ![p] = l], req' = [req EXCEPT ![p] = r]
  PROVE  TypeInv'
<1>1. pc' \in [Procs -> Label] /\ req' \in [Procs -> Req]
  BY DEF TypeInv, ReqsTyped, Placed
<1>2. ASSUME NEW q \in Procs PROVE Placed(pc[q], req[q])'
  <2>1. CASE q = p  BY <2>1 DEF TypeInv, ReqsTyped
  <2>2. CASE q # p
    <3>1. Placed(pc[q], req[q]) /\ pc'[q] = pc[q] /\ req'[q] = req[q]
      BY <2>2 DEF TypeInv, ReqsTyped
    <3>2. Len(shops) \in Nat /\ Len(shops') \in Nat /\ Len(couriers) \in Nat /\ Len(couriers') \in Nat
      BY DEF TypeInv, ShopsTyped, CouriersTyped
    <3> QED BY <3>1, <3>2 DEF Placed, Req
  <2> QED BY <2>1, <2>2
<1> QED BY <1>1, <1>2 DEF TypeInv, ReqsTyped

LEMMA Same ==
  ASSUME TypeInv, UNCHANGED <<shops, couriers>>
  PROVE  /\ ShopsTyped' /\ CouriersTyped'
         /\ DOMAIN shops \subseteq DOMAIN shops' /\ DOMAIN couriers \subseteq DOMAIN couriers'
         /\ Len(shops) <= Len(shops') /\ Len(couriers) <= Len(couriers')
         /\ \A l, r : Placed(l, r)' = Placed(l, r)
<1>1. Len(shops) \in Nat /\ Len(couriers) \in Nat
  BY DEF TypeInv, ShopsTyped, CouriersTyped
<1> QED BY <1>1 DEF TypeInv, ShopsTyped, CouriersTyped, Placed

LEMMA IdlePlaced ==
  ASSUME TypeInv
  PROVE  Placed("idle", Idle) /\ (ShopsTyped' /\ CouriersTyped' => Placed("idle", Idle)')
  BY DEF TypeInv, ShopsTyped, CouriersTyped, Placed, Req, Idle, Asks, Kind, Label

\* A request that begins, or goes on without touching a row of either kind.
LEMMA BeginTyped ==
  ASSUME TypeInv, UNCHANGED <<shops, couriers>>, NEW p \in Procs, NEW l, NEW r, Placed(l, r),
         Begin(p, r, l)
  PROVE  TypeInv'
  BY Same, Moves DEF Begin, Goto

LEMMA GoesTyped ==
  ASSUME TypeInv, UNCHANGED <<shops, couriers, req>>, NEW p \in Procs, NEW l, Placed(l, req[p]), Goto(p, l)
  PROVE  TypeInv'
<1>1. req' = [req EXCEPT ![p] = req[p]]
  BY DEF TypeInv, ReqsTyped
<1> QED BY <1>1, Same, Moves DEF Goto

LEMMA EndsTyped ==
  ASSUME TypeInv, UNCHANGED <<shops, couriers>>, NEW p \in Procs, Finish(p)
  PROVE  TypeInv'
  BY Same, Moves, IdlePlaced DEF Finish, Goto

\* A request that ends with a row added or changed.
LEMMA EndsWithRow ==
  ASSUME TypeInv, NEW p \in Procs, Finish(p), NEW i, NEW e, NEW b,
         \/ UNCHANGED couriers /\ (ShopsGrow \/ ShopChanges(i, e))
         \/ UNCHANGED shops /\ (CouriersGrow \/ CourierChanges(i, b))
  PROVE  TypeInv'
<1>1. /\ ShopsTyped' /\ CouriersTyped'
      /\ DOMAIN shops \subseteq DOMAIN shops' /\ DOMAIN couriers \subseteq DOMAIN couriers'
      /\ Len(shops) <= Len(shops') /\ Len(couriers) <= Len(couriers')
  <2>0. Len(shops) \in Nat /\ Len(couriers) \in Nat /\ ShopsTyped /\ CouriersTyped
    BY Rows DEF TypeInv
  <2>1. CASE UNCHANGED couriers /\ ShopsGrow
    BY <2>0, <2>1, Growth DEF CouriersTyped
  <2>2. CASE UNCHANGED couriers /\ ShopChanges(i, e)
    BY <2>0, <2>2, Change DEF CouriersTyped
  <2>3. CASE UNCHANGED shops /\ CouriersGrow
    BY <2>0, <2>3, CourierGrowth DEF ShopsTyped
  <2>4. CASE UNCHANGED shops /\ CourierChanges(i, b)
    BY <2>0, <2>4, CourierChange DEF ShopsTyped
  <2> QED BY <2>1, <2>2, <2>3, <2>4
<1> QED BY <1>1, Moves, IdlePlaced DEF Finish, Goto

\* What each action does to the rows.
LEMMA ShopEffects ==
  ASSUME TypeInv, NEW p \in Procs
  PROVE  /\ ResetPlatform(p) => \/ ShopsGrow
                                \/ ShopChanges(req[p].shop, [shops[req[p].shop] EXCEPT !.configured = FALSE])
         /\ Replan(p) => ShopChanges(req[p].shop, [plan |-> req[p].plan, configured |-> FALSE])
         /\ MarkShop(p) => ShopChanges(req[p].shop, [shops[req[p].shop] EXCEPT !.configured = TRUE])
<1>0. /\ Placed(pc[p], req[p]) /\ DOMAIN shops = 1..Len(shops)
      /\ \A i \in DOMAIN shops : shops[i] \in Shop
  BY Rows DEF TypeInv, ReqsTyped
<1>1. ASSUME ResetPlatform(p)
      PROVE  \/ ShopsGrow
             \/ ShopChanges(req[p].shop, [shops[req[p].shop] EXCEPT !.configured = FALSE])
  <2>1. CASE req[p].shop = 0
    <3>1. shops' = Append(shops, [plan |-> None, configured |-> FALSE])
      BY <1>1, <2>1 DEF ResetPlatform
    <3> QED BY <3>1 DEF ShopsGrow, Shop
  <2>2. CASE req[p].shop # 0
    <3>1. req[p].shop \in DOMAIN shops
      BY <1>0, <2>2 DEF Placed, Req
    <3>2. shops' = [shops EXCEPT ![req[p].shop].configured = FALSE]
      BY <1>1, <2>2 DEF ResetPlatform
    <3> QED BY <1>0, <3>1, <3>2 DEF ShopChanges, Shop
  <2> QED BY <2>1, <2>2
<1>2. ASSUME Replan(p) PROVE ShopChanges(req[p].shop, [plan |-> req[p].plan, configured |-> FALSE])
  BY <1>0, <1>2 DEF Replan, At, Placed, Req, ShopChanges, Shop
<1>3. ASSUME MarkShop(p)
      PROVE  ShopChanges(req[p].shop, [shops[req[p].shop] EXCEPT !.configured = TRUE])
  <2>1. req[p].shop \in DOMAIN shops /\ shops' = [shops EXCEPT ![req[p].shop].configured = TRUE]
    BY <1>0, <1>3 DEF MarkShop, At, Placed
  <2> QED BY <1>0, <2>1 DEF ShopChanges, Shop
<1> QED BY <1>1, <1>2, <1>3

LEMMA CourierEffects ==
  ASSUME TypeInv, NEW p \in Procs
  PROVE  /\ ResetCourier(p) => CouriersGrow \/ CourierChanges(req[p].courier, FALSE)
         /\ MarkCourier(p) => CourierChanges(req[p].courier, TRUE)
<1>0. Placed(pc[p], req[p]) /\ DOMAIN couriers = 1..Len(couriers)
  BY Rows DEF TypeInv, ReqsTyped
<1>1. ASSUME ResetCourier(p) PROVE CouriersGrow \/ CourierChanges(req[p].courier, FALSE)
  <2>1. CASE req[p].courier = 0
    BY <1>1, <2>1, Zenon DEF ResetCourier, CouriersGrow
  <2>2. CASE req[p].courier # 0
    <3>1. req[p].courier \in DOMAIN couriers
      BY <1>0, <2>2 DEF Placed, Req
    <3> QED BY <1>1, <2>2, <3>1, Zenon DEF ResetCourier, CourierChanges
  <2> QED BY <2>1, <2>2
<1>2. ASSUME MarkCourier(p) PROVE CourierChanges(req[p].courier, TRUE)
  <2>1. req[p].courier \in DOMAIN couriers
    BY <1>0, <1>2 DEF MarkCourier, At, Placed
  <2> QED BY <1>2, <2>1 DEF MarkCourier, CourierChanges
<1> QED BY <1>1, <1>2

LEMMA TypeStep == TypeInv /\ [Next]_vars => TypeInv'
<1> SUFFICES ASSUME TypeInv, [Next]_vars PROVE TypeInv'
  OBVIOUS
<1>0. CASE UNCHANGED vars
  BY <1>0 DEF vars, TypeInv, ShopsTyped, CouriersTyped, ReqsTyped, Placed
<1>1. CASE Remove
  BY <1>1 DEF Remove, TypeInv, ShopsTyped, CouriersTyped, ReqsTyped, Placed
<1>2. ASSUME NEW p \in Procs, Request(p) PROVE TypeInv'
  <2> USE <1>2
  <2>0. /\ DOMAIN shops = 1..Len(shops) /\ Len(shops) \in Nat
        /\ DOMAIN couriers = 1..Len(couriers) /\ Len(couriers) \in Nat
        /\ \A i \in DOMAIN shops : shops[i] \in Shop
        /\ Placed(pc[p], req[p])
    BY Rows DEF TypeInv, ReqsTyped
  <2>1. CASE PickPlatform(p)
    <3>1. PICK s \in IF shops = <<>> THEN {0} ELSE DOMAIN shops : Begin(p, Asks("platform", s, 0, None), "reset")
      BY <2>1 DEF PickPlatform
    <3>2. Placed("reset", Asks("platform", s, 0, None))
      BY <2>0, <3>1 DEF Asks, Placed, Req, Shop, Kind, Label, Plans
    <3>3. UNCHANGED <<shops, couriers>>
      BY <2>1 DEF PickPlatform, Stored
    <3> QED BY <3>1, <3>2, <3>3, BeginTyped
  <2>2. CASE ResetPlatform(p)
    BY <2>2, ShopEffects, EndsWithRow DEF ResetPlatform
  <2>3. CASE PickCourier(p)
    <3>1. PICK c \in IF couriers = <<>> THEN {0} ELSE DOMAIN couriers : Begin(p, Asks("courier", 0, c, None), "reset")
      BY <2>3 DEF PickCourier
    <3>2. Placed("reset", Asks("courier", 0, c, None))
      BY <2>0, <3>1 DEF Asks, Placed, Req, Shop, Kind, Label, Plans
    <3>3. UNCHANGED <<shops, couriers>>
      BY <2>3 DEF PickCourier, Stored
    <3> QED BY <3>1, <3>2, <3>3, BeginTyped
  <2>4. CASE ResetCourier(p)
    BY <2>4, CourierEffects, EndsWithRow DEF ResetCourier
  <2>5. CASE \E plan \in Plans : ChoosePlan(p, plan)
    <3>1. PICK plan \in Plans, s \in DOMAIN shops : Begin(p, Asks("plan", s, 0, plan), "replan")
      BY <2>5 DEF ChoosePlan
    <3>2. Placed("replan", Asks("plan", s, 0, plan))
      BY <2>0, <3>1 DEF Asks, Placed, Req, Shop, Kind, Label, Plans
    <3>3. UNCHANGED <<shops, couriers>>
      BY <2>5 DEF ChoosePlan, Stored
    <3> QED BY <3>1, <3>2, <3>3, BeginTyped
  <2>6. CASE Replan(p)
    BY <2>6, ShopEffects, EndsWithRow DEF Replan
  <2>7. CASE BeginImap(p)
    <3>1. PICK s \in DOMAIN shops : Begin(p, Asks("imap", s, 0, None), "save")
      BY <2>7 DEF BeginImap
    <3>2. Placed("save", Asks("imap", s, 0, None))
      BY <2>0, <3>1 DEF Asks, Placed, Req, Shop, Kind, Label, Plans
    <3>3. UNCHANGED <<shops, couriers>>
      BY <2>7 DEF BeginImap, Stored
    <3> QED BY <3>1, <3>2, <3>3, BeginTyped
  <2>8. CASE SaveImap(p)
    BY <2>0, <2>8, GoesTyped DEF SaveImap, At, Placed, Label
  <2>9. CASE SaveApi(p)
    BY <2>0, <2>9, GoesTyped, EndsTyped DEF SaveApi, At, Placed, Label
  <2>10. CASE MarkShop(p)
    BY <2>10, ShopEffects, EndsWithRow DEF MarkShop
  <2>11. CASE \E kind \in {"api", "token"} : BeginApi(p, kind)
    <3>1. PICK kind \in {"api", "token"}, s \in DOMAIN shops : Begin(p, Asks(kind, s, 0, shops[s].plan), "save")
      BY <2>11 DEF BeginApi
    <3>2. Placed("save", Asks(kind, s, 0, shops[s].plan))
      BY <2>0, <3>1 DEF Asks, Placed, Req, Shop, Kind, Label, Plans
    <3>3. UNCHANGED <<shops, couriers>>
      BY <2>11 DEF BeginApi, Stored
    <3> QED BY <3>1, <3>2, <3>3, BeginTyped
  <2>12. CASE BeginPudo(p)
    <3>1. PICK c \in DOMAIN couriers : Begin(p, Asks("pudo", 0, c, None), "save")
      BY <2>12 DEF BeginPudo
    <3>2. Placed("save", Asks("pudo", 0, c, None))
      BY <2>0, <3>1 DEF Asks, Placed, Req, Shop, Kind, Label, Plans
    <3>3. UNCHANGED <<shops, couriers>>
      BY <2>12 DEF BeginPudo, Stored
    <3> QED BY <3>1, <3>2, <3>3, BeginTyped
  <2>13. CASE SavePudo(p)
    BY <2>0, <2>13, GoesTyped DEF SavePudo, At, Placed, Label
  <2>14. CASE MarkCourier(p)
    BY <2>14, CourierEffects, EndsWithRow DEF MarkCourier
  <2>15. CASE SaveFails(p)
    BY <2>15, EndsTyped DEF SaveFails, Stored
  <2>16. CASE Complete(p)
    <3>1. PICK s \in DOMAIN shops : Begin(p, Asks("complete", s, 0, None), "courier")
      BY <2>16 DEF Complete
    <3>2. Placed("courier", Asks("complete", s, 0, None))
      BY <2>0, <3>1 DEF Asks, Placed, Req, Shop, Kind, Label, Plans
    <3>3. UNCHANGED <<shops, couriers>>
      BY <2>16 DEF Complete, Stored
    <3> QED BY <3>1, <3>2, <3>3, BeginTyped
  <2>17. CASE CheckCourier(p)
    BY <2>0, <2>17, GoesTyped, EndsTyped DEF CheckCourier, At, Placed, Label, Stored
  <2>18. CASE Activate(p)
    BY <2>18, EndsTyped DEF Activate
  <2> QED BY <2>1, <2>2, <2>3, <2>4, <2>5, <2>6, <2>7, <2>8, <2>9, <2>10, <2>11, <2>12, <2>13,
             <2>14, <2>15, <2>16, <2>17, <2>18 DEF Request
<1> QED BY <1>0, <1>1, <1>2 DEF Next

-----------------------------------------------------------------------------
(* A configured shop is backed. *)

\* Credentials that are saved or deleted are ones the row has, or had.
LEMMA RemoveKeeps ==
  ASSUME Remove
  PROVE  \A s : (ImapOf(s) => ImapOf(s)') /\ (ApiOf(s) => ApiOf(s)') /\ (PudoOf(s) => PudoOf(s)')
<1>1. CASE imap' = {} /\ Deletes("imap", imap) /\ UNCHANGED <<api, pudo>>
  BY <1>1 DEF Deletes, ImapOf, ApiOf, PudoOf, Had
<1>2. CASE api' = {} /\ Deletes("api", api) /\ UNCHANGED <<imap, pudo>>
  BY <1>2 DEF Deletes, ImapOf, ApiOf, PudoOf, Had
<1>3. CASE pudo' = {} /\ Deletes("pudo", pudo) /\ UNCHANGED <<imap, api>>
  BY <1>3 DEF Deletes, ImapOf, ApiOf, PudoOf, Had
<1> QED BY <1>1, <1>2, <1>3 DEF Remove

LEMMA SaveKeeps ==
  ASSUME NEW p \in Procs, SaveImap(p) \/ SaveApi(p) \/ SavePudo(p)
  PROVE  /\ \A s : (ImapOf(s) => ImapOf(s)') /\ (ApiOf(s) => ApiOf(s)') /\ (PudoOf(s) => PudoOf(s)')
         /\ SaveImap(p) => \A i : i = req[p].shop => ImapOf(i)'
         /\ SaveApi(p) => \A i : i = req[p].shop => ApiOf(i)'
         /\ SavePudo(p) => \A i : i = req[p].courier => PudoOf(i)'
<1>1. ASSUME SaveImap(p)
      PROVE  /\ \A s : (ImapOf(s) => ImapOf(s)') /\ (ApiOf(s) => ApiOf(s)') /\ (PudoOf(s) => PudoOf(s)')
             /\ \A i : i = req[p].shop => ImapOf(i)'
  <2>1. PICK i : i = req[p].shop
    OBVIOUS
  <2>2. imap' = imap \cup {i} /\ deleted' = deleted \ {<<"imap", i>>} /\ UNCHANGED <<api, pudo>>
    BY <1>1, <2>1 DEF SaveImap
  <2>3. \A s : ImapOf(s) => ImapOf(s)'
    BY <2>2 DEF ImapOf, Had
  <2>4. \A s : (ApiOf(s) => ApiOf(s)') /\ (PudoOf(s) => PudoOf(s)')
    BY <2>2 DEF ApiOf, PudoOf, Had
  <2>5. ImapOf(i)'
    BY <2>2 DEF ImapOf, Had
  <2> QED BY <2>1, <2>3, <2>4, <2>5
<1>2. ASSUME SaveApi(p)
      PROVE  /\ \A s : (ImapOf(s) => ImapOf(s)') /\ (ApiOf(s) => ApiOf(s)') /\ (PudoOf(s) => PudoOf(s)')
             /\ \A i : i = req[p].shop => ApiOf(i)'
  <2>1. PICK i : i = req[p].shop
    OBVIOUS
  <2>2. api' = api \cup {i} /\ deleted' = deleted \ {<<"api", i>>} /\ UNCHANGED <<imap, pudo>>
    BY <1>2, <2>1 DEF SaveApi
  <2>3. \A s : ApiOf(s) => ApiOf(s)'
    BY <2>2 DEF ApiOf, Had
  <2>4. \A s : (ImapOf(s) => ImapOf(s)') /\ (PudoOf(s) => PudoOf(s)')
    BY <2>2 DEF ImapOf, PudoOf, Had
  <2>5. ApiOf(i)'
    BY <2>2 DEF ApiOf, Had
  <2> QED BY <2>1, <2>3, <2>4, <2>5
<1>3. ASSUME SavePudo(p)
      PROVE  /\ \A s : (ImapOf(s) => ImapOf(s)') /\ (ApiOf(s) => ApiOf(s)') /\ (PudoOf(s) => PudoOf(s)')
             /\ \A i : i = req[p].courier => PudoOf(i)'
  <2>1. PICK i : i = req[p].courier
    OBVIOUS
  <2>2. pudo' = pudo \cup {i} /\ deleted' = deleted \ {<<"pudo", i>>} /\ UNCHANGED <<imap, api>>
    BY <1>3, <2>1 DEF SavePudo
  <2>3. \A s : PudoOf(s) => PudoOf(s)'
    BY <2>2 DEF PudoOf, Had
  <2>4. \A s : (ImapOf(s) => ImapOf(s)') /\ (ApiOf(s) => ApiOf(s)')
    BY <2>2 DEF ImapOf, ApiOf, Had
  <2>5. PudoOf(i)'
    BY <2>2 DEF PudoOf, Had
  <2> QED BY <2>1, <2>3, <2>4, <2>5
<1> QED BY <1>1, <1>2, <1>3

LEMMA SavedStands ==
  ASSUME UNCHANGED <<imap, api, deleted>>
  PROVE  \A s : (ImapOf(s) <=> ImapOf(s)') /\ (ApiOf(s) <=> ApiOf(s)')
  BY DEF ImapOf, ApiOf, Had

\* A step of p that leaves the shops alone and takes no credentials away.
LEMMA ShopFrame ==
  ASSUME TypeInv, ConfiguredIsBacked, ShopSaved, UNCHANGED shops,
         \A s : (ImapOf(s) => ImapOf(s)') /\ (ApiOf(s) => ApiOf(s)'),
         excused \subseteq excused', NEW p \in Procs,
         \A q \in Procs \ {p} : pc'[q] = pc[q] /\ req'[q] = req[q],
         SavedBy(pc[p], req[p])'
  PROVE  (ConfiguredIsBacked /\ ShopSaved)'
<1>1. ConfiguredIsBacked'
  BY DEF ConfiguredIsBacked, ImapOf, ApiOf
<1>2. ASSUME NEW q \in Procs PROVE SavedBy(pc[q], req[q])'
  <2>1. CASE q = p  BY <2>1
  <2>2. CASE q # p
    <3>1. SavedBy(pc[q], req[q]) /\ pc'[q] = pc[q] /\ req'[q] = req[q]
      BY <2>2 DEF ShopSaved
    <3> QED BY <3>1 DEF SavedBy
  <2> QED BY <2>1, <2>2
<1> QED BY <1>1, <1>2 DEF ShopSaved

\* Where the step of p leaves every request.
LEMMA Steps ==
  ASSUME TypeInv, NEW p \in Procs
  PROVE  /\ \A r, l : Begin(p, r, l) => /\ pc'[p] = l /\ req'[p] = r
                                        /\ \A q \in Procs \ {p} : pc'[q] = pc[q] /\ req'[q] = req[q]
         /\ Finish(p) => /\ pc'[p] = "idle" /\ req'[p] = Idle
                         /\ \A q \in Procs \ {p} : pc'[q] = pc[q] /\ req'[q] = req[q]
         /\ \A l : Goto(p, l) /\ req' = req =>
              /\ pc'[p] = l /\ req'[p] = req[p]
              /\ \A q \in Procs \ {p} : pc'[q] = pc[q] /\ req'[q] = req[q]
  BY DEF TypeInv, ReqsTyped, Begin, Goto, Finish

LEMMA BackedStep == TypeInv /\ ConfiguredIsBacked /\ ShopSaved /\ [Next]_vars
                      => (ConfiguredIsBacked /\ ShopSaved)'
<1> SUFFICES ASSUME TypeInv, ConfiguredIsBacked, ShopSaved, [Next]_vars
             PROVE  (ConfiguredIsBacked /\ ShopSaved)'
  OBVIOUS
<1>0. CASE UNCHANGED vars
  BY <1>0 DEF vars, ConfiguredIsBacked, ShopSaved, SavedBy, ImapOf, ApiOf, Had
<1>1. CASE Remove
  <2>0. UNCHANGED <<shops, pc, req, excused>> /\ \A s : (ImapOf(s) => ImapOf(s)') /\ (ApiOf(s) => ApiOf(s)')
    BY <1>1, RemoveKeeps DEF Remove
  <2>1. ConfiguredIsBacked'
    BY <2>0 DEF ConfiguredIsBacked, ImapOf, ApiOf
  <2>2. ASSUME NEW q \in Procs PROVE SavedBy(pc[q], req[q])'
    BY <2>0, <2>2 DEF ShopSaved, SavedBy
  <2> QED BY <2>1, <2>2 DEF ShopSaved
<1>2. ASSUME NEW p \in Procs, Request(p) PROVE (ConfiguredIsBacked /\ ShopSaved)'
  <2> USE <1>2
  <2>0. /\ DOMAIN shops = 1..Len(shops) /\ Len(shops) \in Nat
        /\ \A i \in DOMAIN shops : shops[i] \in Shop
        /\ \A q \in Procs : Placed(pc[q], req[q]) /\ SavedBy(pc[q], req[q])
        /\ ShopsTyped
    BY Rows DEF TypeInv, ReqsTyped, ShopSaved
  <2>1. CASE \/ PickPlatform(p) \/ PickCourier(p) \/ BeginPudo(p) \/ Complete(p) \/ BeginImap(p)
             \/ (\E plan \in Plans : ChoosePlan(p, plan))
             \/ (\E kind \in {"api", "token"} : BeginApi(p, kind))
    <3>1. UNCHANGED <<shops, imap, api, deleted, excused>>
      BY <2>1 DEF PickPlatform, PickCourier, BeginPudo, Complete, BeginImap, ChoosePlan, BeginApi, Stored
    <3>2. PICK r, l : /\ Begin(p, r, l)
                      /\ l = "save" /\ r.kind = "imap" => shops[r.shop].plan = "basic"
                      /\ l = "save" /\ r.kind = "api" => shops[r.shop].plan = r.plan
                      /\ l # "mark"
      BY <2>1 DEF PickPlatform, PickCourier, BeginPudo, Complete, BeginImap, ChoosePlan, BeginApi, Asks
    <3>3. SavedBy(pc[p], req[p])'
      BY <3>1, <3>2, Steps DEF SavedBy
    <3> QED BY <3>1, <3>2, <3>3, Steps, SavedStands, ShopFrame
  <2>2. CASE SaveImap(p) \/ SavePudo(p)
    <3>1. /\ UNCHANGED <<shops, excused>>
          /\ \A s : (ImapOf(s) => ImapOf(s)') /\ (ApiOf(s) => ApiOf(s)')
      BY <2>2, SaveKeeps DEF SaveImap, SavePudo
    <3>2. Goto(p, "mark") /\ req' = req /\ pc[p] = "save"
      BY <2>2 DEF SaveImap, SavePudo, At
    <3>3. req[p].kind = "imap" => ImapOf(req[p].shop)'
      BY <2>2, <3>2, SaveKeeps DEF SavePudo
    <3>4. req[p].kind # "api"
      BY <2>2 DEF SaveImap, SavePudo
    <3>5. SavedBy(pc[p], req[p])'
      BY <2>0, <3>1, <3>2, <3>3, <3>4, Steps DEF SavedBy
    <3> QED BY <3>1, <3>2, <3>5, Steps, ShopFrame
  <2>3. CASE SaveApi(p)
    <3>1. /\ UNCHANGED <<shops, excused>> /\ pc[p] = "save" /\ \A i : i = req[p].shop => ApiOf(i)'
          /\ \A s : (ImapOf(s) => ImapOf(s)') /\ (ApiOf(s) => ApiOf(s)')
      BY <2>3, SaveKeeps DEF SaveApi, At
    <3>2. CASE Finish(p)
      <4>1. SavedBy(pc[p], req[p])'
        BY <3>2, Steps DEF SavedBy
      <4> QED BY <3>1, <3>2, <4>1, Steps, ShopFrame
    <3>3. CASE req[p].kind = "api" /\ req[p].plan # "basic" /\ Goto(p, "mark") /\ req' = req
      <4>1. SavedBy(pc[p], req[p])'
        BY <2>0, <3>1, <3>3, Steps DEF SavedBy
      <4> QED BY <3>1, <3>3, <4>1, Steps, ShopFrame
    <3> QED BY <2>3, <3>2, <3>3 DEF SaveApi
  <2>4. CASE ResetCourier(p) \/ MarkCourier(p) \/ SaveFails(p) \/ Activate(p)
    <3>1. UNCHANGED <<shops, imap, api, deleted, excused>> /\ Finish(p)
      BY <2>4 DEF ResetCourier, MarkCourier, SaveFails, Activate, Stored
    <3>2. SavedBy(pc[p], req[p])'
      BY <3>1, Steps DEF SavedBy
    <3> QED BY <3>1, <3>2, Steps, SavedStands, ShopFrame
  <2>5. CASE CheckCourier(p)
    <3>1. UNCHANGED <<shops, imap, api, deleted, excused>>
      BY <2>5 DEF CheckCourier, Stored
    <3>2. Finish(p) \/ (Goto(p, "activate") /\ req' = req)
      BY <2>5 DEF CheckCourier
    <3>3. SavedBy(pc[p], req[p])'
      BY <3>2, Steps DEF SavedBy
    <3> QED BY <3>1, <3>2, <3>3, Steps, SavedStands, ShopFrame
  <2>6. CASE ResetPlatform(p)
    <3>1. UNCHANGED <<imap, api, deleted, excused>> /\ Finish(p)
      BY <2>6 DEF ResetPlatform
    <3>2. /\ \A s \in DOMAIN shops : s \in DOMAIN shops' /\ shops'[s].plan = shops[s].plan
          /\ \A s \in DOMAIN shops' : shops'[s].configured => s \in DOMAIN shops /\ shops[s].configured
      <4>1. CASE ShopsGrow
        BY <2>0, <4>1, Growth
      <4>2. CASE ShopChanges(req[p].shop, [shops[req[p].shop] EXCEPT !.configured = FALSE])
        <5>1. req[p].shop \in DOMAIN shops /\ shops[req[p].shop] \in Shop
          BY <2>0, <4>2 DEF ShopChanges
        <5> QED BY <2>0, <4>2, <5>1, Change DEF Shop
      <4> QED BY <2>6, <4>1, <4>2, ShopEffects
    <3>3. ConfiguredIsBacked'
      BY <3>1, <3>2, SavedStands DEF ConfiguredIsBacked, ImapOf, ApiOf
    <3>4. ASSUME NEW q \in Procs PROVE SavedBy(pc[q], req[q])'
      BY <2>0, <3>1, <3>2, Steps, SavedStands DEF SavedBy, Placed
    <3> QED BY <3>3, <3>4 DEF ShopSaved
  <2>7. CASE Replan(p)
    <3> DEFINE i == req[p].shop
    <3>1. /\ UNCHANGED <<imap, api, deleted>> /\ Finish(p) /\ excused \subseteq excused' /\ pc[p] = "replan"
          /\ \A q \in Procs \ {p} : req[q].shop = i /\ req[q].kind # "plan" => i \in excused'
      BY <2>7 DEF Replan, At
    <3>2. /\ i \in DOMAIN shops /\ DOMAIN shops' = DOMAIN shops /\ ~shops'[i].configured
          /\ \A s \in DOMAIN shops \ {i} : shops'[s] = shops[s]
      <4>1. ShopChanges(i, [plan |-> req[p].plan, configured |-> FALSE])
        BY <2>7, ShopEffects
      <4>2. i \in DOMAIN shops
        BY <4>1 DEF ShopChanges
      <4> HIDE DEF i
      <4> QED BY <2>0, <4>1, <4>2, Change
    <3> HIDE DEF i
    <3>3. ConfiguredIsBacked'
      BY <3>1, <3>2, SavedStands DEF ConfiguredIsBacked, ImapOf, ApiOf
    <3>4. ASSUME NEW q \in Procs PROVE SavedBy(pc[q], req[q])'
      <4>1. CASE q = p
        BY <3>1, <4>1, Steps DEF SavedBy
      <4>2. CASE q # p
        <5>1. pc'[q] = pc[q] /\ req'[q] = req[q] /\ SavedBy(pc[q], req[q]) /\ Placed(pc[q], req[q])
          BY <2>0, <3>1, <4>2, Steps
        <5>2. CASE req[q].shop = i
          BY <3>1, <4>2, <5>1, <5>2, SavedStands DEF SavedBy
        <5>3. CASE req[q].shop # i
          BY <3>1, <3>2, <5>1, <5>3, SavedStands DEF SavedBy, Placed
        <5> QED BY <5>2, <5>3
      <4> QED BY <4>1, <4>2
    <3> QED BY <3>3, <3>4 DEF ShopSaved
  <2>8. CASE MarkShop(p)
    <3> DEFINE i == req[p].shop
    <3>1. /\ UNCHANGED <<imap, api, deleted, excused>> /\ Finish(p) /\ pc[p] = "mark" /\ req[p].kind \in {"imap", "api"}
      BY <2>8 DEF MarkShop, At
    <3>2. /\ i \in DOMAIN shops /\ DOMAIN shops' = DOMAIN shops /\ shops'[i].plan = shops[i].plan
          /\ \A s \in DOMAIN shops \ {i} : shops'[s] = shops[s]
      <4>1. ShopChanges(i, [shops[i] EXCEPT !.configured = TRUE])
        BY <2>8, ShopEffects
      <4>2. i \in DOMAIN shops
        BY <4>1 DEF ShopChanges
      <4> HIDE DEF i
      <4> QED BY <2>0, <4>1, <4>2, Change DEF Shop
    <3>3. i \notin excused => IF shops[i].plan = "basic" THEN ImapOf(i) ELSE ApiOf(i)
      BY <2>0, <3>1 DEF SavedBy
    <3> HIDE DEF i
    <3>4. ConfiguredIsBacked'
      BY <3>1, <3>2, <3>3, SavedStands DEF ConfiguredIsBacked, ImapOf, ApiOf
    <3>5. ASSUME NEW q \in Procs PROVE SavedBy(pc[q], req[q])'
      <4>1. CASE q = p
        BY <3>1, <4>1, Steps DEF SavedBy
      <4>2. CASE q # p
        <5>1. pc'[q] = pc[q] /\ req'[q] = req[q] /\ SavedBy(pc[q], req[q]) /\ Placed(pc[q], req[q])
          BY <2>0, <3>1, <4>2, Steps
        <5>2. \A s \in DOMAIN shops : shops'[s].plan = shops[s].plan
          BY <3>2
        <5> QED BY <3>1, <5>1, <5>2, SavedStands DEF SavedBy, Placed
      <4> QED BY <4>1, <4>2
    <3> QED BY <3>4, <3>5 DEF ShopSaved
  <2> QED BY <2>1, <2>2, <2>3, <2>4, <2>5, <2>6, <2>7, <2>8 DEF Request
<1> QED BY <1>0, <1>1, <1>2 DEF Next

-----------------------------------------------------------------------------
(* An active tenant is served. *)

\* Whether a courier is used, and none without credentials.
CouriersUsed == \E c \in DOMAIN couriers : couriers[c]
CouriersPaid == \A c \in DOMAIN couriers : couriers[c] => PudoOf(c)
ShopsUsed == \E s \in DOMAIN shops : shops[s].configured

LEMMA PaidStands == ASSUME UNCHANGED <<pudo, deleted>> PROVE \A c : PudoOf(c) <=> PudoOf(c)'
  BY DEF PudoOf, Had

LEMMA PaidKept ==
  ASSUME NEW p \in Procs, CourierSaved, CouriersPaid', \A c : PudoOf(c) => PudoOf(c)',
         \A q \in Procs \ {p} : pc'[q] = pc[q] /\ req'[q] = req[q], PaidBy(pc[p], req[p])'
  PROVE  CourierSaved'
<1>1. ASSUME NEW q \in Procs PROVE PaidBy(pc[q], req[q])'
  <2>1. CASE q = p  BY <2>1
  <2>2. CASE q # p
    <3>1. pc'[q] = pc[q] /\ req'[q] = req[q] /\ PaidBy(pc[q], req[q])
      BY <2>2 DEF CourierSaved
    <3> QED BY <3>1 DEF PaidBy
  <2> QED BY <2>1, <2>2
<1> QED BY <1>1 DEF CourierSaved, CouriersPaid

\* A step of p after which every row that was in use is.
LEMMA ServedFrame ==
  ASSUME TypeInv, CourierSaved, Seen, NEW p \in Procs,
         unsettled' \subseteq unsettled, unsettled \ {p} \subseteq unsettled',
         \A c : PudoOf(c) => PudoOf(c)',
         \A s \in DOMAIN shops : s \in DOMAIN shops' /\ (shops[s].configured => shops'[s].configured),
         CouriersUsed => CouriersUsed', CouriersPaid => CouriersPaid',
         \A q \in Procs \ {p} : pc'[q] = pc[q] /\ req'[q] = req[q],
         PaidBy(pc[p], req[p])', p \notin unsettled' => SeenBy(pc[p], req[p])',
         UNCHANGED status, None \in unsettled => None \in unsettled'
  PROVE  (CourierSaved /\ Seen)'
<1>1. CourierSaved'
  <2>1. CouriersPaid'
    BY DEF CourierSaved, CouriersPaid
  <2> QED BY <2>1, PaidKept
<1>2. ASSUME NEW q \in Procs, q \notin unsettled' PROVE SeenBy(pc[q], req[q])'
  <2>1. CASE q = p  BY <1>2, <2>1
  <2>2. CASE q # p
    <3>1. SeenBy(pc[q], req[q]) /\ Placed(pc[q], req[q])
      BY <1>2, <2>2 DEF Seen, TypeInv, ReqsTyped
    <3>2. pc'[q] = pc[q] /\ req'[q] = req[q]
      BY <2>2
    <3> QED BY <3>1, <3>2 DEF SeenBy, Placed, CouriersUsed
  <2> QED BY <2>1, <2>2
<1>3. (status = "active" /\ None \notin unsettled => ShopsUsed /\ CouriersUsed)'
  BY DEF Seen, ShopsUsed, CouriersUsed
<1> QED BY <1>1, <1>2, <1>3 DEF Seen, CouriersUsed, ShopsUsed

\* A step of p that unsettles whatever completion is under way or has ended.
LEMMA ServedUnsettle ==
  ASSUME TypeInv, CourierSaved, Seen, NEW p \in Procs, Unsettle, Finish(p), UNCHANGED <<status, pudo, deleted>>,
         CouriersPaid => CouriersPaid', req[p].kind # "complete"
  PROVE  (CourierSaved /\ Seen)'
<1>1. /\ None \in unsettled'
      /\ \A q \in Procs : q \notin unsettled' => req[q].kind # "complete"
  BY DEF Unsettle
<1>2. CourierSaved'
  <2>1. CouriersPaid' /\ PaidBy(pc[p], req[p])'
    BY Steps DEF CourierSaved, CouriersPaid, PaidBy
  <2> QED BY <2>1, Steps, PaidStands, PaidKept
<1>3. ASSUME NEW q \in Procs, q \notin unsettled' PROVE SeenBy(pc[q], req[q])'
  <2>1. Placed(pc[q], req[q])
    BY DEF TypeInv, ReqsTyped
  <2>2. CASE q = p
    BY <2>2, Steps DEF SeenBy
  <2>3. CASE q # p
    BY <1>1, <1>3, <2>1, <2>3, Steps DEF SeenBy, Placed
  <2> QED BY <2>2, <2>3
<1> QED BY <1>1, <1>2, <1>3 DEF Seen

LEMMA ServedStep == TypeInv /\ CourierSaved /\ Seen /\ [Next]_vars => (CourierSaved /\ Seen)'
<1> SUFFICES ASSUME TypeInv, CourierSaved, Seen, [Next]_vars
             PROVE  (CourierSaved /\ Seen)'
  OBVIOUS
<1>0. CASE UNCHANGED vars
  BY <1>0 DEF vars, CourierSaved, PaidBy, Seen, SeenBy, PudoOf, Had
<1>1. CASE Remove
  <2>1. UNCHANGED <<status, shops, couriers, pc, req, unsettled>> /\ \A c : PudoOf(c) => PudoOf(c)'
    BY <1>1, RemoveKeeps DEF Remove
  <2>2. CourierSaved'
    BY <2>1 DEF CourierSaved, PaidBy
  <2> QED BY <2>1, <2>2 DEF Seen, SeenBy
<1>2. ASSUME NEW p \in Procs, Request(p) PROVE (CourierSaved /\ Seen)'
  <2> USE <1>2
  <2>0. /\ ShopsTyped /\ CouriersTyped
        /\ \A q \in Procs : Placed(pc[q], req[q])
        /\ PaidBy(pc[p], req[p]) /\ (p \notin unsettled => SeenBy(pc[p], req[p]))
    BY DEF TypeInv, ReqsTyped, CourierSaved, Seen
  <2>1. CASE \/ PickPlatform(p) \/ PickCourier(p) \/ BeginPudo(p) \/ Complete(p) \/ BeginImap(p)
             \/ (\E plan \in Plans : ChoosePlan(p, plan))
             \/ (\E kind \in {"api", "token"} : BeginApi(p, kind))
    <3>1. /\ UNCHANGED <<status, shops, couriers, pudo, deleted>>
          /\ unsettled' = unsettled \/ unsettled' = unsettled \ {p}
      BY <2>1 DEF PickPlatform, PickCourier, BeginPudo, Complete, BeginImap, ChoosePlan, BeginApi, Stored
    <3>2. PICK r, l : /\ Begin(p, r, l) /\ l \notin {"mark", "activate"}
                      /\ l = "courier" => shops[r.shop].configured
      <4>1. CASE Complete(p)
        BY <4>1 DEF Complete, Asks
      <4>2. CASE PickPlatform(p) \/ PickCourier(p) \/ BeginPudo(p)
        BY <4>2 DEF PickPlatform, PickCourier, BeginPudo
      <4>3. CASE BeginImap(p) \/ (\E plan \in Plans : ChoosePlan(p, plan))
                 \/ (\E kind \in {"api", "token"} : BeginApi(p, kind))
        BY <4>3 DEF BeginImap, ChoosePlan, BeginApi
      <4> QED BY <2>1, <4>1, <4>2, <4>3
    <3>3. (PaidBy(pc[p], req[p]) /\ SeenBy(pc[p], req[p]))'
      BY <3>1, <3>2, Steps DEF PaidBy, SeenBy
    <3>4. (CouriersUsed => CouriersUsed') /\ (CouriersPaid => CouriersPaid')
      BY <3>1, PaidStands DEF CouriersUsed, CouriersPaid
    <3>5. \A q \in Procs \ {p} : pc'[q] = pc[q] /\ req'[q] = req[q]
      BY <3>2, Steps
    <3> QED BY <3>1, <3>3, <3>4, <3>5, PaidStands, NoneIsNoRequest, ServedFrame
  <2>2. CASE ResetPlatform(p) \/ Replan(p)
    <3>1. UNCHANGED <<status, couriers, pudo, deleted>> /\ Unsettle /\ Finish(p)
      BY <2>2 DEF ResetPlatform, Replan
    <3>2. req[p].kind # "complete"
      BY <2>0, <2>2 DEF ResetPlatform, Replan, At, Placed
    <3>3. CouriersPaid => CouriersPaid'
      BY <3>1, PaidStands DEF CouriersPaid
    <3> QED BY <3>1, <3>2, <3>3, ServedUnsettle
  <2>3. CASE ResetCourier(p)
    <3>1. UNCHANGED <<status, pudo, deleted>> /\ Unsettle /\ Finish(p) /\ req[p].kind # "complete"
      BY <2>3 DEF ResetCourier
    <3>2. CouriersPaid => CouriersPaid'
      <4>1. CASE CouriersGrow
        BY <2>0, <3>1, <4>1, CourierGrowth, PaidStands DEF CouriersPaid
      <4>2. CASE CourierChanges(req[p].courier, FALSE)
        <5>1. req[p].courier \in DOMAIN couriers
          BY <4>2 DEF CourierChanges
        <5> QED BY <2>0, <3>1, <4>2, <5>1, CourierChange, PaidStands DEF CouriersPaid
      <4> QED BY <2>3, <4>1, <4>2, CourierEffects
    <3> QED BY <3>1, <3>2, ServedUnsettle
  <2>4. CASE SaveImap(p) \/ SaveApi(p) \/ SavePudo(p)
    <3>1. UNCHANGED <<status, shops, couriers, unsettled>> /\ \A c : PudoOf(c) => PudoOf(c)'
      BY <2>4, SaveKeeps DEF SaveImap, SaveApi, SavePudo
    <3>2. Finish(p) \/ (Goto(p, "mark") /\ req' = req /\ (req[p].kind = "pudo" => PudoOf(req[p].courier)'))
      BY <2>4, SaveKeeps DEF SaveImap, SaveApi, SavePudo
    <3>3. (PaidBy(pc[p], req[p]) /\ SeenBy(pc[p], req[p]))'
      BY <3>2, Steps DEF PaidBy, SeenBy
    <3>4. (CouriersUsed => CouriersUsed') /\ (CouriersPaid => CouriersPaid')
      BY <3>1 DEF CouriersUsed, CouriersPaid
    <3>5. \A q \in Procs \ {p} : pc'[q] = pc[q] /\ req'[q] = req[q]
      BY <3>2, Steps
    <3> QED BY <3>1, <3>3, <3>4, <3>5, ServedFrame
  <2>5. CASE MarkShop(p) \/ SaveFails(p)
    <3>1. UNCHANGED <<status, couriers, pudo, deleted, unsettled>> /\ Finish(p)
      BY <2>5 DEF MarkShop, SaveFails, Stored
    <3>2. \A s \in DOMAIN shops : s \in DOMAIN shops' /\ (shops[s].configured => shops'[s].configured)
      <4>1. CASE MarkShop(p)
        <5> DEFINE i == req[p].shop
        <5>1. ShopChanges(i, [shops[i] EXCEPT !.configured = TRUE])
          BY <4>1, ShopEffects
        <5>2. i \in DOMAIN shops /\ shops[i] \in Shop
          BY <2>0, <5>1, Rows DEF ShopChanges
        <5> HIDE DEF i
        <5> QED BY <2>0, <5>1, <5>2, Change DEF Shop
      <4>2. CASE SaveFails(p)
        BY <4>2 DEF SaveFails, Stored
      <4> QED BY <2>5, <4>1, <4>2
    <3>3. (PaidBy(pc[p], req[p]) /\ SeenBy(pc[p], req[p]))'
      BY <3>1, Steps DEF PaidBy, SeenBy
    <3>4. (CouriersUsed => CouriersUsed') /\ (CouriersPaid => CouriersPaid')
      BY <3>1, PaidStands DEF CouriersUsed, CouriersPaid
    <3>5. \A q \in Procs \ {p} : pc'[q] = pc[q] /\ req'[q] = req[q]
      BY <3>1, Steps
    <3> QED BY <3>1, <3>2, <3>3, <3>4, <3>5, PaidStands, ServedFrame
  <2>8. CASE Activate(p)
    <3>1. /\ UNCHANGED <<shops, couriers, pudo, deleted>> /\ Finish(p) /\ pc[p] = "activate"
          /\ unsettled' = IF p \in unsettled THEN unsettled \cup {None} ELSE unsettled \ {None}
      BY <2>8 DEF Activate, At
    <3>2. CourierSaved'
      <4>1. CouriersPaid' /\ PaidBy(pc[p], req[p])'
        BY <3>1, Steps, PaidStands DEF CourierSaved, CouriersPaid, PaidBy
      <4> QED BY <3>1, <4>1, Steps, PaidStands, PaidKept
    <3>3. ASSUME NEW q \in Procs, q \notin unsettled' PROVE SeenBy(pc[q], req[q])'
      <4>1. CASE q = p
        BY <3>1, <4>1, Steps DEF SeenBy
      <4>2. CASE q # p
        <5>1. q \notin unsettled /\ pc'[q] = pc[q] /\ req'[q] = req[q]
          BY <3>1, <3>3, <4>2, Steps, NoneIsNoRequest
        <5> QED BY <3>1, <5>1 DEF Seen, SeenBy
      <4> QED BY <4>1, <4>2
    <3>4. None \notin unsettled' => ShopsUsed /\ CouriersUsed
      BY <2>0, <3>1 DEF Placed, SeenBy, CouriersUsed, ShopsUsed
    <3> QED BY <3>1, <3>2, <3>3, <3>4 DEF Seen, CouriersUsed, ShopsUsed
  <2>6. CASE MarkCourier(p)
    <3>1. /\ UNCHANGED <<status, shops, pudo, deleted, unsettled>> /\ Finish(p)
          /\ pc[p] = "mark" /\ req[p].kind = "pudo"
      BY <2>6 DEF MarkCourier, At
    <3>2. CourierChanges(req[p].courier, TRUE)
      BY <2>6, CourierEffects
    <3>3. /\ DOMAIN couriers' = DOMAIN couriers /\ req[p].courier \in DOMAIN couriers
          /\ couriers'[req[p].courier] = TRUE
          /\ \A j \in DOMAIN couriers \ {req[p].courier} : couriers'[j] = couriers[j]
      BY <2>0, <3>2, CourierChange, Zenon DEF CourierChanges
    <3>4. CouriersUsed'
      BY <3>3 DEF CouriersUsed
    <3>5. CouriersPaid => CouriersPaid'
      BY <2>0, <3>1, <3>3, PaidStands DEF CouriersPaid, PaidBy
    <3>6. (PaidBy(pc[p], req[p]) /\ SeenBy(pc[p], req[p]))'
      BY <3>1, Steps DEF PaidBy, SeenBy
    <3>7. \A q \in Procs \ {p} : pc'[q] = pc[q] /\ req'[q] = req[q]
      BY <3>1, Steps
    <3> QED BY <3>1, <3>4, <3>5, <3>6, <3>7, PaidStands, ServedFrame
  <2>7. CASE CheckCourier(p)
    <3>1. UNCHANGED <<status, shops, couriers, pudo, deleted, unsettled>> /\ pc[p] = "courier"
      BY <2>7 DEF CheckCourier, Stored, At
    <3>2. Finish(p) \/ (Goto(p, "activate") /\ req' = req /\ CouriersUsed)
      BY <2>7 DEF CheckCourier, CouriersUsed
    <3>3. PaidBy(pc[p], req[p])' /\ (p \notin unsettled => SeenBy(pc[p], req[p])')
      BY <2>0, <3>1, <3>2, Steps DEF PaidBy, SeenBy, CouriersUsed
    <3>4. (CouriersUsed => CouriersUsed') /\ (CouriersPaid => CouriersPaid')
      BY <3>1, PaidStands DEF CouriersUsed, CouriersPaid
    <3>5. \A q \in Procs \ {p} : pc'[q] = pc[q] /\ req'[q] = req[q]
      BY <3>2, Steps
    <3> QED BY <3>1, <3>3, <3>4, <3>5, PaidStands, ServedFrame
  <2> QED BY <2>1, <2>2, <2>3, <2>4, <2>5, <2>6, <2>7, <2>8 DEF Request
<1> QED BY <1>0, <1>1, <1>2 DEF Next

-----------------------------------------------------------------------------
LEMMA InvStep == IInv /\ [Next]_vars => IInv'
  BY TypeStep, BackedStep, ServedStep DEF IInv

\* What the completion saw, with the credentials, is what serves the tenant.
LEMMA InvServes == IInv => ActiveIsServed
<1> SUFFICES ASSUME IInv, status = "active", None \notin unsettled
             PROVE  /\ \E c \in DOMAIN couriers : couriers[c] /\ PudoOf(c)
                    /\ \E s \in DOMAIN shops :
                         /\ shops[s].configured
                         /\ \/ shops[s].plan = "basic" /\ (s \in Polled \/ <<"imap", s>> \in deleted)
                            \/ shops[s].plan # "basic" /\ ApiOf(s)
                            \/ s \in excused
  BY DEF ActiveIsServed, PudoOf, ApiOf
<1>1. \E c \in DOMAIN couriers : couriers[c] /\ PudoOf(c)
  BY DEF IInv, CourierSaved, Seen
<1>2. PICK s \in DOMAIN shops : shops[s].configured
  BY DEF IInv, Seen
<1>3. s \notin excused => IF shops[s].plan = "basic" THEN ImapOf(s) ELSE ApiOf(s)
  BY <1>2 DEF IInv, ConfiguredIsBacked, ImapOf, ApiOf
<1>4. ImapOf(s) /\ shops[s].plan = "basic" => s \in Polled \/ <<"imap", s>> \in deleted
  BY <1>2 DEF Polled, ImapOf, Had
<1> QED BY <1>1, <1>2, <1>3, <1>4

LEMMA InvHolds == Spec => []IInv
<1>1. Init => IInv
  BY InvInit
<1>2. IInv /\ [Next]_vars => IInv'
  BY InvStep
<1> QED BY <1>1, <1>2, PTL DEF Spec

\* Whatever overlaps, a shop that is configured has its plan's credentials,
\* unless they were deleted since or its plan was replaced under a request.
THEOREM ConfiguredIsBackedHolds == Spec => []ConfiguredIsBacked
<1>1. IInv => ConfiguredIsBacked
  BY DEF IInv
<1> QED BY <1>1, InvHolds, PTL

\* A tenant that is active can be served, as long as nothing was reset or replanned
\* since the completion that made it active began; credentials that were deleted
\* are missing only where they were.
THEOREM ActiveIsServedHolds == Spec => []ActiveIsServed
  BY InvServes, InvHolds, PTL

-----------------------------------------------------------------------------
(* Accounts: an owner found by address is the one a first login made, and  *)
(* the request that made it carries on to the grant.                       *)

Perm == {"*", "manage", "view"}
User == [id : 1..MaxUsers, tenant : A!Addresses, email : A!Addresses, status : {"active", "disabled"}]
Token == [tenant : A!Addresses, user : Nat, perms : SUBSET Perm]
Call == [kind : {"login", "invite", None}, email : A!Addresses \cup {None},
         tenant : A!Addresses \cup {None}, user : Nat, perms : SUBSET Perm]

AccountsTyped ==
  /\ tenants \subseteq A!Addresses /\ users \subseteq User /\ tokens \subseteq Token
  /\ ids \in 0..MaxUsers /\ perms \in [1..MaxUsers -> SUBSET Perm]
  /\ at \in [Procs -> {"idle", "permissions", "owner", "insert", "grant"}]
  /\ call \in [Procs -> Call]

\* What a request is about where it is: a login that inserts or grants gives
\* every permission, an invitation only to a row that is touched.
CallFits(p) ==
  /\ at[p] # "idle" => call[p].email \in A!Addresses /\ call[p].tenant \in A!Addresses
  /\ at[p] \in {"permissions", "grant"} => call[p].user \in 1..MaxUsers
  /\ at[p] \in {"owner", "insert", "grant"} => call[p].kind \in {"login", "invite"}
  /\ at[p] = "owner" => call[p].kind = "login"
  /\ at[p] \in {"insert", "grant"} /\ call[p].kind = "login" => call[p].perms = {"*"}
  /\ at[p] = "grant" /\ call[p].kind = "invite" => call[p].user \in touched

AccountsInv == AccountsTyped /\ (\A p \in Procs : CallFits(p)) /\ OwnerGetsIn

LEMMA AccountsInit == A!Init => AccountsInv
  BY TenantAssumption DEF A!Init, A!Idle, A!AccountsAssumption, AccountsInv, AccountsTyped, CallFits, OwnerGetsIn, A!OwnerGetsIn,
     Call, User, Token, Perm

\* A request goes on at label l with the call r, and the others stay.
MovesOn(p, l, r) ==
  /\ \A q \in Procs : at'[q] = IF q = p THEN l ELSE at[q]
  /\ \A q \in Procs : call'[q] = IF q = p THEN r ELSE call[q]

LEMMA CallsMove ==
  ASSUME AccountsTyped, NEW p \in Procs, NEW r, NEW l,
         at' = [at EXCEPT ![p] = l], call' = [call EXCEPT ![p] = r]
  PROVE  MovesOn(p, l, r)
  BY DEF AccountsTyped, MovesOn

LEMMA AccountsNext == AccountsInv /\ [A!Next]_(A!vars) => AccountsInv'
<1> SUFFICES ASSUME AccountsInv, [A!Next]_(A!vars) PROVE AccountsInv'
  OBVIOUS
<1> USE TenantAssumption DEF A!AccountsAssumption
<1>1. CASE UNCHANGED A!vars
  BY <1>1 DEF AccountsInv, AccountsTyped, CallFits, OwnerGetsIn, A!OwnerGetsIn, A!vars, A!At
<1>2. ASSUME NEW t \in Signups, A!Register(t) PROVE AccountsInv'
  BY <1>2 DEF A!Register, AccountsInv, AccountsTyped, CallFits, OwnerGetsIn, A!OwnerGetsIn, A!At, A!Addresses
<1>3. ASSUME NEW p \in Procs, NEW e \in A!Addresses, A!Login(p, e) PROVE AccountsInv'
  <2>1. ASSUME NEW l \in {"permissions", "owner"}, NEW r \in Call,
               at' = [at EXCEPT ![p] = l], call' = [call EXCEPT ![p] = r],
               r.kind = "login", r.email \in A!Addresses, r.tenant \in A!Addresses,
               l = "permissions" => r.user \in 1..MaxUsers
        PROVE  AccountsInv'
    <3>1. MovesOn(p, l, r)
      BY <2>1, CallsMove DEF AccountsInv
    <3>2. at[p] = "idle" /\ UNCHANGED <<tenants, users, perms, ids, tokens, touched>>
      BY <1>3 DEF A!Login, A!At
    <3>3. AccountsTyped'
      BY <2>1, <3>2 DEF AccountsInv, AccountsTyped
    <3>4. \A q \in Procs : CallFits(q)'
      BY <2>1, <3>1, <3>2 DEF MovesOn, AccountsInv, CallFits
    <3>5. OwnerGetsIn'
      BY <2>1, <3>1, <3>2 DEF MovesOn, A!At, AccountsInv, OwnerGetsIn, A!OwnerGetsIn
    <3> QED BY <3>3, <3>4, <3>5 DEF AccountsInv
  <2>2. ASSUME NEW u \in users, u.email = e,
               call' = [call EXCEPT ![p] = [A!Idle EXCEPT !.kind = "login", !.email = e, !.tenant = u.tenant, !.user = u.id]],
               A!Goto(p, "permissions")
        PROVE  AccountsInv'
    <3> DEFINE r == [A!Idle EXCEPT !.kind = "login", !.email = e, !.tenant = u.tenant, !.user = u.id]
    <3>1. u.id \in 1..MaxUsers /\ u.tenant \in A!Addresses
      BY DEF AccountsInv, AccountsTyped, User
    <3> DEFINE r0 == [A!Idle EXCEPT !.kind = "login", !.email = e, !.tenant = u.tenant]
    <3>2. r0 \in Call /\ r0.kind = "login" /\ r0.email = e /\ r0.tenant = u.tenant
      BY <3>1 DEF A!Idle, Call
    <3>4. r = [r0 EXCEPT !.user = u.id]
      OBVIOUS
    <3> HIDE DEF r, r0
    <3>3. r \in Call /\ r.kind = "login" /\ r.email = e /\ r.tenant = u.tenant /\ r.user = u.id
      BY <3>1, <3>2, <3>4 DEF Call
    <3> QED BY <2>1, <2>2, <3>1, <3>3 DEF A!Goto, r
  <2>3. ASSUME e \in tenants, A!Goto(p, "owner"),
               call' = [call EXCEPT ![p] = [A!Idle EXCEPT !.kind = "login", !.email = e, !.tenant = e]]
        PROVE  AccountsInv'
    <3> DEFINE r == [A!Idle EXCEPT !.kind = "login", !.email = e, !.tenant = e]
    <3>1. r \in Call /\ r.kind = "login" /\ r.email = e /\ r.tenant = e
      BY DEF A!Idle, Call
    <3> QED BY <2>1, <2>3, <3>1 DEF A!Goto
  <2> QED BY <1>3, <2>2, <2>3 DEF A!Login
<1>4. ASSUME NEW p \in Procs, A!LoadPermissions(p) PROVE AccountsInv'
  <2>1. /\ at' = [at EXCEPT ![p] = "idle"] /\ call' = [call EXCEPT ![p] = A!Idle] /\ A!Idle \in Call
        /\ tokens' \subseteq Token /\ at[p] = "permissions"
        /\ UNCHANGED <<tenants, users, perms, ids, touched>>
    BY <1>4 DEF A!LoadPermissions, A!Issue, A!Finish, A!Goto, A!At, A!Idle, AccountsInv, AccountsTyped, CallFits, Call, Token
  <2> QED BY <2>1, CallsMove DEF MovesOn, AccountsInv, AccountsTyped, CallFits, OwnerGetsIn, A!OwnerGetsIn, A!At
<1>5. ASSUME NEW p \in Procs, A!Backfill(p) PROVE AccountsInv'
  <2>1. at[p] = "owner" /\ UNCHANGED <<tenants, users, perms, ids, tokens, touched>>
    BY <1>5 DEF A!Backfill, A!At
  <2>2. CASE A!Of(call[p].tenant) = {}
    <3> DEFINE r == [call[p] EXCEPT !.perms = {"*"}]
    <3>1. at' = [at EXCEPT ![p] = "insert"] /\ call' = [call EXCEPT ![p] = r]
      BY <1>5, <2>2 DEF A!Backfill, A!Goto
    <3>2. /\ r \in Call /\ r.perms = {"*"} /\ r.kind = call[p].kind
          /\ r.email = call[p].email /\ r.tenant = call[p].tenant
      BY DEF AccountsInv, AccountsTyped, Call, Perm
    <3> HIDE DEF r
    <3>3. MovesOn(p, "insert", r)
      BY <3>1, CallsMove DEF AccountsInv
    <3> QED BY <2>1, <3>1, <3>2, <3>3 DEF MovesOn, AccountsInv, AccountsTyped, CallFits, OwnerGetsIn, A!OwnerGetsIn, A!At
  <2>3. CASE A!Of(call[p].tenant) # {}
    <3>1. at' = [at EXCEPT ![p] = "idle"] /\ call' = [call EXCEPT ![p] = A!Idle] /\ A!Idle \in Call
      BY <1>5, <2>3 DEF A!Backfill, A!Finish, A!Goto, A!Idle, Call
    <3>2. MovesOn(p, "idle", A!Idle)
      BY <3>1, CallsMove DEF AccountsInv
    <3> QED BY <2>1, <3>1, <3>2 DEF MovesOn, AccountsInv, AccountsTyped, CallFits, OwnerGetsIn, A!OwnerGetsIn, A!At
  <2> QED BY <2>2, <2>3
<1>6. ASSUME NEW p \in Procs, NEW k \in tokens, NEW e \in A!Addresses, NEW role \in A!Roles, A!Invite(p, k, e, role)
      PROVE  AccountsInv'
  <2> DEFINE r == [A!Idle EXCEPT !.kind = "invite", !.email = e, !.tenant = k.tenant, !.perms = role]
  <2>1. /\ at' = [at EXCEPT ![p] = "insert"] /\ call' = [call EXCEPT ![p] = r] /\ at[p] = "idle"
        /\ UNCHANGED <<tenants, users, perms, ids, touched, tokens>>
    BY <1>6 DEF A!Invite, A!Goto, A!At
  <2>2. k.tenant \in A!Addresses /\ role \in SUBSET Perm
    BY DEF A!Roles, AccountsInv, AccountsTyped, Perm, Token
  <2>3. r \in Call /\ r.kind = "invite" /\ r.email = e /\ r.tenant = k.tenant
    BY <2>2 DEF A!Idle, Call
  <2> HIDE DEF r
  <2>4. MovesOn(p, "insert", r)
    BY <2>1, CallsMove DEF AccountsInv
  <2> QED BY <2>1, <2>2, <2>3, <2>4 DEF MovesOn, AccountsInv, AccountsTyped, CallFits, OwnerGetsIn, A!OwnerGetsIn, A!At
<1>7. ASSUME NEW p \in Procs, A!InsertUser(p) PROVE AccountsInv'
  <2>1. CASE \E u \in A!Of(call[p].tenant) : u.email = call[p].email
    <3>1. /\ at' = [at EXCEPT ![p] = "idle"] /\ call' = [call EXCEPT ![p] = A!Idle] /\ A!Idle \in Call
          /\ at[p] = "insert" /\ UNCHANGED <<tenants, users, perms, ids, touched, tokens>>
      BY <1>7, <2>1 DEF A!InsertUser, A!Finish, A!Goto, A!At, A!Idle, Call
    <3> QED BY <3>1, CallsMove DEF MovesOn, AccountsInv, AccountsTyped, CallFits, OwnerGetsIn, A!OwnerGetsIn, A!At
  <2>2. CASE ~ \E u \in A!Of(call[p].tenant) : u.email = call[p].email
    <3> DEFINE n == ids + 1
               r == [call[p] EXCEPT !.user = n]
               u == [id |-> n, tenant |-> call[p].tenant, email |-> call[p].email, status |-> "active"]
    <3>1. /\ at' = [at EXCEPT ![p] = "grant"] /\ call' = [call EXCEPT ![p] = r] /\ at[p] = "insert"
          /\ UNCHANGED <<tenants, perms, tokens>>
          /\ users' = users \cup {u} /\ ids' = n /\ ids < MaxUsers
          /\ touched' = IF call[p].kind = "invite" THEN touched \cup {n} ELSE touched
      BY <1>7, <2>2 DEF A!InsertUser, A!Goto, A!At, AccountsInv, AccountsTyped
    <3>2. n \in 1..MaxUsers /\ call[p] \in Call /\ call[p].email \in A!Addresses /\ call[p].tenant \in A!Addresses
      BY <3>1 DEF AccountsInv, AccountsTyped, CallFits
    <3>3. u \in User /\ u.id = n
      BY <3>2 DEF User
    <3>4. /\ r \in Call /\ r.user = n /\ r.kind = call[p].kind /\ r.perms = call[p].perms
          /\ r.email = call[p].email /\ r.tenant = call[p].tenant
      BY <3>2 DEF Call
    <3>5. MovesOn(p, "grant", r)
      BY <3>1, CallsMove DEF AccountsInv
    <3> HIDE DEF n, r, u
    <3>6. AccountsTyped'
      BY <3>1, <3>2, <3>3, <3>4 DEF AccountsInv, AccountsTyped
    <3>7. \A q \in Procs : CallFits(q)'
      BY <3>1, <3>2, <3>4, <3>5 DEF MovesOn, AccountsInv, CallFits
    <3>8. OwnerGetsIn'
      <4>1. \A q \in Procs : at[q] = "grant" => at'[q] = "grant" /\ call'[q].user = call[q].user
        BY <3>1, <3>5 DEF MovesOn
      <4>2. at'[p] = "grant" /\ call'[p].user = n
        BY <3>4, <3>5 DEF MovesOn
      <4> QED BY <3>1, <3>3, <4>1, <4>2 DEF AccountsInv, OwnerGetsIn, A!OwnerGetsIn, A!At
    <3> QED BY <3>6, <3>7, <3>8 DEF AccountsInv
  <2> QED BY <2>1, <2>2
<1>8. ASSUME NEW p \in Procs, A!GrantPermissions(p) PROVE AccountsInv'
  <2>1. /\ at' = [at EXCEPT ![p] = "idle"] /\ call' = [call EXCEPT ![p] = A!Idle] /\ A!Idle \in Call
        /\ at[p] = "grant" /\ call[p].user \in 1..MaxUsers /\ call[p] \in Call
        /\ UNCHANGED <<tenants, users, ids, touched>>
    BY <1>8 DEF A!GrantPermissions, A!Finish, A!Goto, A!At, A!Idle, Call, AccountsInv, AccountsTyped, CallFits
  <2>2. perms' \in [1..MaxUsers -> SUBSET Perm]
    BY <1>8, <2>1 DEF A!GrantPermissions, AccountsInv, AccountsTyped, Call
  <2>7. [tenant |-> call[p].tenant, user |-> call[p].user, perms |-> call[p].perms] \in Token
    BY <2>1 DEF AccountsInv, AccountsTyped, CallFits, Call, Token
  <2>8. tokens' \subseteq Token
    BY <1>8, <2>7 DEF A!GrantPermissions, A!Issue, AccountsInv, AccountsTyped
  <2>6. MovesOn(p, "idle", A!Idle)
    BY <2>1, CallsMove DEF AccountsInv
  <2>3. AccountsTyped'
    BY <2>1, <2>2, <2>8 DEF AccountsInv, AccountsTyped
  <2>4. \A q \in Procs : CallFits(q)'
    BY <2>1, <2>6 DEF MovesOn, AccountsInv, CallFits
  <2>5. OwnerGetsIn'
    <3> SUFFICES ASSUME NEW u \in users, u.id \notin touched
                 PROVE  ("*" \in perms'[u.id]) \/ \E q \in Procs : at'[q] = "grant" /\ call'[q].user = u.id
      BY <2>1 DEF OwnerGetsIn, A!OwnerGetsIn, A!At
    <3>1. \A i \in 1..MaxUsers : perms[i] \subseteq perms'[i]
      BY <1>8, <2>1 DEF A!GrantPermissions, AccountsInv, AccountsTyped
    <3>2. u.id \in 1..MaxUsers
      BY DEF AccountsInv, AccountsTyped, User
    <3>3. CASE "*" \in perms[u.id]
      BY <3>1, <3>2, <3>3
    <3>4. CASE call[p].user = u.id /\ "*" \notin perms[u.id]
      <4>1. call[p].perms = {"*"}
        BY <2>1, <3>4 DEF AccountsInv, CallFits
      <4> QED BY <1>8, <3>2, <3>4, <4>1 DEF A!GrantPermissions, AccountsInv, AccountsTyped
    <3>5. CASE \E q \in Procs \ {p} : at[q] = "grant" /\ call[q].user = u.id
      BY <2>1, <2>6, <3>5 DEF MovesOn
    <3> QED BY <3>3, <3>4, <3>5 DEF AccountsInv, OwnerGetsIn, A!OwnerGetsIn, A!At
  <2> QED BY <2>3, <2>4, <2>5 DEF AccountsInv
<1>9. ASSUME NEW p \in Procs, A!GrantLost(p) PROVE AccountsInv'
  <2>1. /\ at' = [at EXCEPT ![p] = "idle"] /\ call' = [call EXCEPT ![p] = A!Idle] /\ A!Idle \in Call
        /\ touched' = touched \cup {call[p].user} /\ UNCHANGED <<tenants, users, perms, ids, tokens>>
    BY <1>9 DEF A!GrantLost, A!Finish, A!Goto, A!At, A!Idle, Call
  <2> QED BY <2>1, CallsMove DEF MovesOn, AccountsInv, AccountsTyped, CallFits, OwnerGetsIn, A!OwnerGetsIn, A!At
<1>10. ASSUME NEW k \in tokens, NEW u \in users, NEW role \in A!Roles, A!ReplacePermissions(k, u, role)
       PROVE  AccountsInv'
  <2>1. u.id \in 1..MaxUsers /\ role \in SUBSET Perm
    BY DEF AccountsInv, AccountsTyped, User, A!Roles, Perm
  <2> QED BY <1>10, <2>1 DEF A!ReplacePermissions, A!Edit, AccountsInv, AccountsTyped, CallFits, OwnerGetsIn, A!OwnerGetsIn, A!At
<1>11. ASSUME NEW k \in tokens, NEW u \in users, NEW status_ \in {"active", "disabled"}, A!SetStatus(k, u, status_)
       PROVE  AccountsInv'
  <2>1. [u EXCEPT !.status = status_] \in User /\ [u EXCEPT !.status = status_].id = u.id
    BY DEF AccountsInv, AccountsTyped, User
  <2> QED BY <1>11, <2>1 DEF A!SetStatus, A!Edit, AccountsInv, AccountsTyped, CallFits, OwnerGetsIn, A!OwnerGetsIn, A!At
<1>12. ASSUME NEW k \in tokens, NEW u \in users, A!DeleteUser(k, u) PROVE AccountsInv'
  <2>1. u.id \in 1..MaxUsers
    BY DEF AccountsInv, AccountsTyped, User
  <2> QED BY <1>12, <2>1 DEF A!DeleteUser, A!Edit, AccountsInv, AccountsTyped, CallFits, OwnerGetsIn, A!OwnerGetsIn, A!At
<1>13. ASSUME NEW k \in tokens, A!TokenExpires(k) PROVE AccountsInv'
  BY <1>13 DEF A!TokenExpires, AccountsInv, AccountsTyped, CallFits, OwnerGetsIn, A!OwnerGetsIn, A!At
<1> QED BY <1>1, <1>2, <1>3, <1>4, <1>5, <1>6, <1>7, <1>8, <1>9, <1>10, <1>11, <1>12, <1>13 DEF A!Next

\* However logins and edits of users overlap, the row a first login made of an owner
\* holds every permission or is about to, unless a hand or a failure came between.
THEOREM OwnerGetsInHolds == A!Spec => []OwnerGetsIn
<1>1. AccountsInv => OwnerGetsIn
  BY DEF AccountsInv
<1> QED BY AccountsInit, AccountsNext, <1>1, PTL DEF A!Spec

-----------------------------------------------------------------------------
(* Sequences whose elements have no type worth stating. *)
IsSeq(s) == \E S : s \in Seq(S)

LEMMA SeqAppends ==
  ASSUME NEW s, IsSeq(s), NEW e
  PROVE  /\ IsSeq(Append(s, e)) /\ Len(s) \in Nat /\ Len(Append(s, e)) = Len(s) + 1
         /\ \A i \in 1..Len(s) : Append(s, e)[i] = s[i]
         /\ Append(s, e)[Len(s) + 1] = e
<1>1. PICK S : s \in Seq(S)
  BY DEF IsSeq
<1>2. s \in Seq(S \cup {e})
  BY <1>1
<1>3. Append(s, e) \in Seq(S \cup {e})
  BY <1>2
<1>4. IsSeq(Append(s, e))
  BY <1>3 DEF IsSeq
<1> QED BY <1>2, <1>4

LEMMA SeqReplaces ==
  ASSUME NEW s, IsSeq(s), NEW i \in 1..Len(s), NEW t,
         DOMAIN t = DOMAIN s, t = [j \in DOMAIN t |-> t[j]], \A j \in DOMAIN s : j # i => t[j] = s[j]
  PROVE  IsSeq(t) /\ Len(s) \in Nat /\ DOMAIN s = 1..Len(s) /\ Len(t) = Len(s)
<1>1. PICK S : s \in Seq(S)
  BY DEF IsSeq
<1>2. s \in Seq(S \cup {t[i]}) /\ s \in [1..Len(s) -> S \cup {t[i]}] /\ Len(s) \in Nat
  BY <1>1
<1>3. t \in [1..Len(s) -> S \cup {t[i]}]
  BY <1>2
<1>4. t \in Seq(S \cup {t[i]}) /\ Len(t) = Len(s)
  BY <1>2, <1>3
<1>5. IsSeq(t)
  BY <1>4 DEF IsSeq
<1> QED BY <1>2, <1>4, <1>5

LEMMA EmptyIsSeq == IsSeq(<<>>) /\ Len(<<>>) = 0
  BY <<>> \in Seq({}) DEF IsSeq

LEMMA CardAdds ==
  ASSUME NEW S, IsFiniteSet(S), NEW x
  PROVE  /\ IsFiniteSet(S \cup {x}) /\ IsFiniteSet(S \ {x}) /\ Cardinality(S) \in Nat
         /\ Cardinality(S \cup {x}) = IF x \in S THEN Cardinality(S) ELSE Cardinality(S) + 1
         /\ Cardinality(S \ {x}) = IF x \in S THEN Cardinality(S) - 1 ELSE Cardinality(S)
  BY FS_AddElement, FS_RemoveElement, FS_CardinalityType

-----------------------------------------------------------------------------
(* WhatsApp: what is sent of a key, who may still send it, and the slack   *)
(* its state leaves together never exceed what is excused.                 *)

Senders(k) == {x \in Procs : procs[x].step \in {"send", "post"} /\ W!KeyOf(x) = k}
Slack(k) == IF keys[k].status \in {"none", "failed"} THEN 1 ELSE 0

NoticesTyped ==
  /\ DOMAIN procs = Procs
  /\ \A x \in Procs : /\ {"step", "event", "todo", "id", "purpose", "row"} \subseteq DOMAIN procs[x]
                      /\ procs[x].step \in {"idle", "next", "send", "post", "record"}
  /\ DOMAIN keys = W!Keys /\ \A k \in W!Keys : {"status", "owner"} \subseteq DOMAIN keys[k]
  /\ excuses \in [W!Keys -> Nat]
  /\ IsSeq(rows)
  /\ \A i \in 1..Len(rows) : {"key", "status", "taken", "named"} \subseteq DOMAIN rows[i]

\* A process that has logged its message works on a row of its own, which is
\* queued, and taken once Meta has the message.
RowOf(x) ==
  /\ procs[x].step \in {"idle", "next", "send"} => procs[x].row = 0
  /\ procs[x].step \in {"post", "record"} =>
       LET i == procs[x].row IN
       /\ i \in 1..Len(rows) /\ rows[i].key = W!KeyOf(x)
       /\ rows[i].status = "queued" /\ rows[i].named = FALSE
       /\ rows[i].taken = (procs[x].step = "record")

RowsApart == \A x, y \in Procs : procs[x].row = procs[y].row => x = y \/ procs[x].row = 0

\* Of the sends a key allows, some were made, some are under way, and one more
\* may come as long as the key says so.
KeyBudget(k) ==
  /\ IsFiniteSet(W!Sent(k)) /\ IsFiniteSet(Senders(k))
  /\ Cardinality(W!Sent(k)) + Cardinality(Senders(k)) + Slack(k) <= 1 + excuses[k]

NoticesInv ==
  /\ NoticesTyped /\ (\A x \in Procs : RowOf(x)) /\ RowsApart
  /\ (\A k \in W!Keys : KeyBudget(k)) /\ RowsTellTheTruth

LEMMA NoticesInit == W!Init => NoticesInv
<1> SUFFICES ASSUME W!Init PROVE NoticesInv
  OBVIOUS
<1>1. NoticesTyped
  BY EmptyIsSeq DEF W!Init, NoticesTyped, W!IdleProc, W!NoKey
<1>2. (\A x \in Procs : RowOf(x)) /\ RowsApart /\ RowsTellTheTruth
  BY EmptyIsSeq DEF W!Init, RowOf, RowsApart, RowsTellTheTruth, W!RowsTellTheTruth, W!IdleProc
<1>3. ASSUME NEW k \in W!Keys PROVE KeyBudget(k)
  <2>1. W!Sent(k) = {} /\ Senders(k) = {}
    BY EmptyIsSeq DEF W!Init, W!Sent, Senders, W!IdleProc
  <2>2. Slack(k) = 1 /\ excuses[k] = 0
    BY DEF W!Init, W!NoKey, Slack
  <2> QED BY <2>1, <2>2, FS_EmptySet DEF KeyBudget
<1> QED BY <1>1, <1>2, <1>3 DEF NoticesInv

\* The processes when one of them takes a step.
LEMMA ProcMoves ==
  ASSUME NoticesTyped, NEW x \in Procs, NEW r, procs' = [procs EXCEPT ![x] = r]
  PROVE  /\ DOMAIN procs' = Procs
         /\ \A y \in Procs : procs'[y] = IF y = x THEN r ELSE procs[y]
         /\ \A k : Senders(k)' = IF r.step \in {"send", "post"} /\ <<r.event, r.purpose, r.id>> = k
                                 THEN Senders(k) \cup {x} ELSE Senders(k) \ {x}
<1>1. DOMAIN procs' = Procs /\ \A y \in Procs : procs'[y] = IF y = x THEN r ELSE procs[y]
  BY DEF NoticesTyped
<1>2. ASSUME NEW k
      PROVE  Senders(k)' = IF r.step \in {"send", "post"} /\ <<r.event, r.purpose, r.id>> = k
                           THEN Senders(k) \cup {x} ELSE Senders(k) \ {x}
  BY <1>1 DEF Senders, W!KeyOf
<1> QED BY <1>1, <1>2

LEMMA SenderJoins ==
  ASSUME NoticesTyped, NEW x \in Procs, NEW r, procs' = [procs EXCEPT ![x] = r], r.step \in {"send", "post"}
  PROVE  Senders(<<r.event, r.purpose, r.id>>)' = Senders(<<r.event, r.purpose, r.id>>) \cup {x}
<1>1. \A y \in Procs : procs'[y] = IF y = x THEN r ELSE procs[y]
  BY DEF NoticesTyped
<1> QED BY <1>1 DEF Senders, W!KeyOf

\* Steps that neither send, nor change a process, a row or a key.
LEMMA NoticesRest ==
  ASSUME NoticesInv, UNCHANGED W!sending
  PROVE  NoticesInv'
<1>1. UNCHANGED <<procs, keys, rows, gone, excuses>>
  BY DEF W!sending
<1>2. NoticesTyped' /\ RowsApart' /\ RowsTellTheTruth' /\ \A x \in Procs : RowOf(x)'
  BY <1>1 DEF NoticesInv, NoticesTyped, RowOf, RowsApart, RowsTellTheTruth, W!RowsTellTheTruth, W!KeyOf
<1>3. \A k \in W!Keys : KeyBudget(k)'
  BY <1>1 DEF NoticesInv, KeyBudget, W!Sent, Senders, Slack, W!KeyOf
<1> QED BY <1>2, <1>3 DEF NoticesInv

\* A step of a process that leaves the rows alone: what it comes to has no row,
\* or the one it had.
LEMMA ProcSteps ==
  ASSUME NoticesInv, NEW x \in Procs, NEW r, procs' = [procs EXCEPT ![x] = r], UNCHANGED rows,
         {"step", "event", "todo", "id", "purpose", "row"} \subseteq DOMAIN r,
         r.step \in {"idle", "next", "send"}, r.row = 0,
         gone \subseteq gone', procs[x].row # 0 => procs[x].row \in gone',
         DOMAIN keys' = W!Keys, \A k \in W!Keys : {"status", "owner"} \subseteq DOMAIN keys'[k],
         excuses' \in [W!Keys -> Nat],
         \A k \in W!Keys : KeyBudget(k)'
  PROVE  NoticesInv'
<1>1. NoticesTyped'
  BY ProcMoves DEF NoticesInv, NoticesTyped
<1>2. ASSUME NEW y \in Procs PROVE RowOf(y)'
  BY ProcMoves DEF NoticesInv, RowOf, W!KeyOf
<1>3. RowsApart'
  BY ProcMoves DEF NoticesInv, RowsApart
<1>4. RowsTellTheTruth'
  <2> SUFFICES ASSUME NEW i \in 1..Len(rows), rows[i].status = "queued"
               PROVE  i \in gone' \/ \E y \in Procs : procs'[y].row = i
    BY DEF NoticesInv, RowsTellTheTruth, W!RowsTellTheTruth
  <2>1. CASE procs[x].row = i
    BY <2>1
  <2>2. CASE procs[x].row # i
    BY <2>2, ProcMoves DEF NoticesInv, RowsTellTheTruth, W!RowsTellTheTruth
  <2> QED BY <2>1, <2>2
<1> QED BY <1>1, <1>2, <1>3, <1>4 DEF NoticesInv

\* How a finite set grows or shrinks by one element.
LEMMA CountsMove ==
  ASSUME NEW S, NEW S2, NEW x, NEW d \in Int, IsFiniteSet(S),
         \/ S2 = S /\ d = 0
         \/ S2 = S \cup {x} /\ d = 1
         \/ S2 = S \ {x} /\ (d = 0 \/ (x \in S /\ d = -1))
  PROVE  /\ IsFiniteSet(S2) /\ Cardinality(S) \in Nat /\ Cardinality(S2) \in Nat
         /\ Cardinality(S2) <= Cardinality(S) + d
<1>1. /\ IsFiniteSet(S \cup {x}) /\ IsFiniteSet(S \ {x}) /\ Cardinality(S) \in Nat
      /\ Cardinality(S \cup {x}) = IF x \in S THEN Cardinality(S) ELSE Cardinality(S) + 1
      /\ Cardinality(S \ {x}) = IF x \in S THEN Cardinality(S) - 1 ELSE Cardinality(S)
  BY CardAdds
<1>2. Cardinality(S2) \in Nat /\ IsFiniteSet(S2)
  BY <1>1, FS_CardinalityType
<1>3. CASE S2 = S /\ d = 0
  BY <1>1, <1>3
<1>4. CASE S2 = S \cup {x} /\ d = 1
  BY <1>1, <1>4
<1>5. CASE S2 = S \ {x} /\ d = 0
  <2>1. Cardinality(S2) <= Cardinality(S)
    BY <1>1, <1>5
  <2> QED BY <1>1, <1>2, <1>5, <2>1
<1>6. CASE S2 = S \ {x} /\ x \in S /\ d = -1
  <2>1. Cardinality(S2) = Cardinality(S) - 1
    BY <1>1, <1>6
  <2> QED BY <1>1, <1>2, <1>6, <2>1
<1> QED BY <1>2, <1>1, <1>3, <1>4, <1>5, <1>6

\* One key's budget is kept when its senders and its slack do not grow by more
\* than its excuses.
LEMMA BudgetKept ==
  ASSUME NoticesInv, NEW k \in W!Keys, W!Sent(k)' = W!Sent(k), excuses' \in [W!Keys -> Nat],
         NEW x, NEW d \in Int,
         \/ Senders(k)' = Senders(k) /\ d = 0
         \/ Senders(k)' = Senders(k) \cup {x} /\ d = 1
         \/ Senders(k)' = Senders(k) \ {x} /\ (d = 0 \/ (x \in Senders(k) /\ d = -1)),
         d + Slack(k)' - Slack(k) <= excuses'[k] - excuses[k]
  PROVE  KeyBudget(k)'
<1>1. /\ IsFiniteSet(W!Sent(k)) /\ IsFiniteSet(Senders(k)) /\ Cardinality(W!Sent(k)) \in Nat
      /\ Cardinality(W!Sent(k)) + Cardinality(Senders(k)) + Slack(k) <= 1 + excuses[k]
  BY FS_CardinalityType DEF NoticesInv, KeyBudget
<1>2. Slack(k) \in 0..1 /\ Slack(k)' \in 0..1 /\ excuses[k] \in Nat /\ excuses'[k] \in Nat
  BY DEF Slack, NoticesInv, NoticesTyped
<1>3. /\ IsFiniteSet(Senders(k)') /\ Cardinality(Senders(k)) \in Nat /\ Cardinality(Senders(k)') \in Nat
      /\ Cardinality(Senders(k)') <= Cardinality(Senders(k)) + d
  BY <1>1, CountsMove
<1>4. Cardinality(W!Sent(k)) + Cardinality(Senders(k)') + Slack(k)' <= 1 + excuses'[k]
  BY <1>1, <1>2, <1>3
<1> QED BY <1>1, <1>3, <1>4 DEF KeyBudget

LEMMA BudgetStays ==
  ASSUME NoticesInv, NEW k \in W!Keys, W!Sent(k)' = W!Sent(k), excuses' \in [W!Keys -> Nat],
         NEW x, Senders(k)' = Senders(k) \ {x}, Slack(k)' - Slack(k) <= excuses'[k] - excuses[k]
  PROVE  KeyBudget(k)'
<1>1. 0 + Slack(k)' - Slack(k) <= excuses'[k] - excuses[k]
  BY DEF Slack
<1> DEFINE d == 0
<1>2. d \in Int /\ d = 0 /\ d + Slack(k)' - Slack(k) <= excuses'[k] - excuses[k]
  BY <1>1
<1> HIDE DEF d
<1>3. Senders(k)' = Senders(k) \ {x} /\ (d = 0 \/ (x \in Senders(k) /\ d = -1))
  BY <1>2
<1> QED BY <1>2, <1>3, BudgetKept

LEMMA BudgetLent ==
  ASSUME NoticesInv, NEW k \in W!Keys, W!Sent(k)' = W!Sent(k), excuses' \in [W!Keys -> Nat],
         NEW x, Senders(k)' = Senders(k) \cup {x}, 1 + Slack(k)' - Slack(k) <= excuses'[k] - excuses[k]
  PROVE  KeyBudget(k)'
<1>1. Slack(k) \in 0..1 /\ Slack(k)' \in 0..1 /\ excuses[k] \in Nat /\ excuses'[k] \in Nat
  BY DEF Slack, NoticesInv, NoticesTyped
<1> DEFINE d == 1
<1>2. d \in Int /\ d = 1 /\ d + Slack(k)' - Slack(k) <= excuses'[k] - excuses[k]
  BY <1>1
<1> HIDE DEF d
<1>3. Senders(k)' = Senders(k) \cup {x} /\ d = 1
  BY <1>2
<1> QED BY <1>2, <1>3, BudgetKept

LEMMA BudgetReturned ==
  ASSUME NoticesInv, NEW k \in W!Keys, W!Sent(k)' = W!Sent(k), excuses' \in [W!Keys -> Nat],
         NEW x \in Senders(k), Senders(k)' = Senders(k) \ {x}, Slack(k)' - Slack(k) <= 1 + excuses'[k] - excuses[k]
  PROVE  KeyBudget(k)'
<1>1. Slack(k) \in 0..1 /\ Slack(k)' \in 0..1 /\ excuses[k] \in Nat /\ excuses'[k] \in Nat
  BY DEF Slack, NoticesInv, NoticesTyped
<1> DEFINE d == -1
<1>2. d \in Int /\ d = -1 /\ d + Slack(k)' - Slack(k) <= excuses'[k] - excuses[k]
  BY <1>1
<1> HIDE DEF d
<1> QED BY <1>2, BudgetKept

LEMMA NoticesDeliver ==
  ASSUME NoticesInv, NEW x \in Procs, NEW e \in Events, W!Deliver(x, e)
  PROVE  NoticesInv'
<1> DEFINE matching == {p \in Purposes : templates[Owner][p].on /\ Type[e] \in templates[Owner][p].types}
           some == [W!IdleProc EXCEPT !.step = "next", !.event = e,
                      !.todo = {[id |-> templates[Owner][p].id, purpose |-> p] : p \in matching}]
           r == IF matching = {} THEN W!IdleProc ELSE some
<1>1. procs' = [procs EXCEPT ![x] = r]
  BY DEF W!Deliver, W!Become
<1>2. r.step \in {"idle", "next"} /\ r.row = 0 /\ {"step", "event", "todo", "id", "purpose", "row"} \subseteq DOMAIN r
  BY DEF W!IdleProc
<1>3. procs[x].step = "idle" /\ procs[x].row = 0 /\ UNCHANGED <<keys, rows, gone, excuses>>
  BY DEF W!Deliver, W!IdleProc
<1> HIDE DEF r
<1>4. ASSUME NEW k \in W!Keys PROVE KeyBudget(k)'
  <2>1. Senders(k)' = Senders(k) \ {x}
    BY <1>1, <1>2, ProcMoves DEF NoticesInv
  <2>2. Slack(k)' = Slack(k) /\ W!Sent(k)' = W!Sent(k)
    BY <1>3 DEF Slack, W!Sent
  <2>3. Slack(k)' - Slack(k) <= excuses'[k] - excuses[k] /\ excuses' \in [W!Keys -> Nat]
    BY <1>3, <2>2 DEF NoticesInv, NoticesTyped, Slack
  <2> QED BY <2>1, <2>2, <2>3, BudgetStays
<1> QED BY <1>1, <1>2, <1>3, <1>4, ProcSteps DEF NoticesInv, NoticesTyped

LEMMA NoticesDispatch ==
  ASSUME NoticesInv, NEW x \in Procs, NEW p \in Purposes, W!Dispatch(x, p)
  PROVE  NoticesInv'
<1> DEFINE r == [W!IdleProc EXCEPT !.step = "send", !.purpose = p]
<1>1. procs' = [procs EXCEPT ![x] = r]
  BY DEF W!Dispatch, W!Become
<1>2. /\ r.step = "send" /\ r.row = 0 /\ r.event = None
      /\ {"step", "event", "todo", "id", "purpose", "row"} \subseteq DOMAIN r
  BY DEF W!IdleProc
<1>3. procs[x].step = "idle" /\ procs[x].row = 0 /\ UNCHANGED <<keys, rows, gone, excuses>>
  BY DEF W!Dispatch, W!IdleProc
<1> HIDE DEF r
<1>4. ASSUME NEW k \in W!Keys PROVE KeyBudget(k)'
  <2>1. <<r.event, r.purpose, r.id>> # k
    BY <1>2, TenantAssumption DEF W!Keys, W!WhatsAppAssumption
  <2>2. Senders(k)' = Senders(k) \ {x}
    BY <1>1, <2>1, ProcMoves DEF NoticesInv
  <2>3. Slack(k)' = Slack(k) /\ W!Sent(k)' = W!Sent(k)
    BY <1>3 DEF Slack, W!Sent
  <2>4. Slack(k)' - Slack(k) <= excuses'[k] - excuses[k] /\ excuses' \in [W!Keys -> Nat]
    BY <1>3, <2>3 DEF NoticesInv, NoticesTyped, Slack
  <2> QED BY <2>2, <2>3, <2>4, BudgetStays
<1> QED BY <1>1, <1>2, <1>3, <1>4, ProcSteps DEF NoticesInv, NoticesTyped

\* A step that takes the process out of its send, with a result for its key.
LEMMA NoticesSettle ==
  ASSUME NoticesInv, NEW x \in Procs, NEW status_ \in {"completed", "failed"}, W!Settled(x, status_),
         procs[x].step \in {"send", "post", "record"}, Len(rows') = Len(rows)
  PROVE  /\ DOMAIN keys' = W!Keys /\ \A k \in W!Keys : {"status", "owner"} \subseteq DOMAIN keys'[k]
         /\ \A k \in W!Keys : keys'[k].status = IF k = W!KeyOf(x) /\ keys[k].status # "none" THEN status_ ELSE keys[k].status
         /\ \E r : /\ procs' = [procs EXCEPT ![x] = r] /\ r.step \in {"idle", "next"} /\ r.row = 0
                   /\ {"step", "event", "todo", "id", "purpose", "row"} \subseteq DOMAIN r
         /\ \A k : Senders(k)' = Senders(k) \ {x}
<1> DEFINE r == IF W!Keyed(x) THEN [procs[x] EXCEPT !.step = "next", !.id = 0, !.purpose = None, !.row = 0] ELSE W!IdleProc
<1>1. procs' = [procs EXCEPT ![x] = r]
  BY DEF W!Settled, W!Become
<1>2. r.step \in {"idle", "next"} /\ r.row = 0 /\ {"step", "event", "todo", "id", "purpose", "row"} \subseteq DOMAIN r
  BY DEF NoticesInv, NoticesTyped, W!IdleProc
<1> HIDE DEF r
<1>3. \A k : Senders(k)' = Senders(k) \ {x}
  BY <1>1, <1>2, ProcMoves DEF NoticesInv
<1>4. CASE W!Keyed(x) /\ keys[W!KeyOf(x)].status # "none"
  <2>1. keys' = [keys EXCEPT ![W!KeyOf(x)].status = status_]
    BY <1>4 DEF W!Settled
  <2>2. /\ DOMAIN keys' = W!Keys /\ \A k \in W!Keys : {"status", "owner"} \subseteq DOMAIN keys'[k]
        /\ \A k \in W!Keys : keys'[k].status = IF k = W!KeyOf(x) /\ keys[k].status # "none" THEN status_ ELSE keys[k].status
    BY <1>4, <2>1 DEF NoticesInv, NoticesTyped
  <2> QED BY <1>1, <1>2, <1>3, <2>2
<1>5. CASE ~(W!Keyed(x) /\ keys[W!KeyOf(x)].status # "none")
  <2>1. keys' = keys
    BY <1>5 DEF W!Settled
  <2>2. \A k \in W!Keys : k # W!KeyOf(x) \/ keys[k].status = "none"
    BY <1>5, TenantAssumption DEF W!Keys, W!Keyed, W!KeyOf, W!WhatsAppAssumption
  <2>3. /\ DOMAIN keys' = W!Keys /\ \A k \in W!Keys : {"status", "owner"} \subseteq DOMAIN keys'[k]
        /\ \A k \in W!Keys : keys'[k].status = IF k = W!KeyOf(x) /\ keys[k].status # "none" THEN status_ ELSE keys[k].status
    BY <2>1, <2>2 DEF NoticesInv, NoticesTyped
  <2> QED BY <1>1, <1>2, <1>3, <2>3
<1> QED BY <1>4, <1>5

\* A key whose result is stored has no slack left; one that failed has one send
\* left, the one its sender did not make or one that its excuse allows.
LEMMA SettledBudget ==
  ASSUME NoticesInv, NEW x \in Procs, NEW status_ \in {"completed", "failed"}, W!Settled(x, status_),
         procs[x].step \in {"send", "post", "record"}, Len(rows') = Len(rows),
         NEW k \in W!Keys, W!Sent(k)' = W!Sent(k), excuses' \in [W!Keys -> Nat], excuses[k] <= excuses'[k],
         status_ = "failed" /\ k = W!KeyOf(x) => excuses'[k] = excuses[k] + 1 \/ procs[x].step # "record"
  PROVE  KeyBudget(k)'
<1>1. Slack(k) \in 0..1 /\ Slack(k)' \in 0..1 /\ excuses[k] \in Nat /\ excuses'[k] \in Nat
  BY DEF Slack, NoticesInv, NoticesTyped
<1>2. keys'[k].status = IF k = W!KeyOf(x) /\ keys[k].status # "none" THEN status_ ELSE keys[k].status
  BY NoticesSettle
<1>3. CASE k = W!KeyOf(x) /\ procs[x].step # "record"
  <2>1. x \in Senders(k)
    BY <1>3 DEF Senders
  <2>2. Slack(k)' - Slack(k) <= 1 + excuses'[k] - excuses[k]
    BY <1>1
  <2> QED BY <2>1, <2>2, NoticesSettle, BudgetReturned
<1>4. CASE ~(k = W!KeyOf(x) /\ procs[x].step # "record")
  <2>1. Slack(k)' - Slack(k) <= excuses'[k] - excuses[k]
    BY <1>1, <1>2, <1>4 DEF Slack
  <2> QED BY <2>1, NoticesSettle, BudgetStays
<1> QED BY <1>3, <1>4

LEMMA NoticesSkipThrow ==
  ASSUME NoticesInv, NEW x \in Procs, W!SkipSend(x) \/ W!Throw(x)
  PROVE  NoticesInv'
<1>1. CASE W!SkipSend(x)
  <2>1. /\ procs[x].step = "send" /\ procs[x].row = 0 /\ W!Settled(x, "completed")
        /\ UNCHANGED <<rows, gone, excuses>>
    BY <1>1 DEF W!SkipSend, NoticesInv, RowOf
  <2>2. ASSUME NEW k \in W!Keys PROVE KeyBudget(k)'
    <3>1. W!Sent(k)' = W!Sent(k) /\ excuses' \in [W!Keys -> Nat] /\ excuses[k] <= excuses'[k]
      BY <2>1 DEF W!Sent, NoticesInv, NoticesTyped
    <3> QED BY <2>1, <3>1, SettledBudget
  <2>3. excuses' \in [W!Keys -> Nat]
    BY <2>1 DEF NoticesInv, NoticesTyped
  <2> QED BY <2>1, <2>2, <2>3, NoticesSettle, ProcSteps
<1>2. CASE W!Throw(x)
  <2>1. /\ procs[x].step \in {"send", "post", "record"} /\ W!Settled(x, "failed") /\ UNCHANGED rows
        /\ gone' = IF procs[x].row = 0 THEN gone ELSE gone \cup {procs[x].row}
        /\ excuses' = IF W!Keyed(x) /\ procs[x].step = "record" THEN [excuses EXCEPT ![W!KeyOf(x)] = @ + 1] ELSE excuses
    BY <1>2 DEF W!Throw, W!Excuse
  <2>2. excuses' \in [W!Keys -> Nat]
    <3>1. excuses \in [W!Keys -> Nat]
      BY DEF NoticesInv, NoticesTyped
    <3>2. ASSUME NEW k0 PROVE [excuses EXCEPT ![k0] = @ + 1] \in [W!Keys -> Nat]
      <4>1. CASE k0 \in W!Keys
        BY <3>1, <4>1
      <4>2. CASE k0 \notin W!Keys
        BY <3>1, <4>2
      <4> QED BY <4>1, <4>2
    <3> QED BY <2>1, <3>1, <3>2
  <2>3. ASSUME NEW k \in W!Keys PROVE KeyBudget(k)'
    <3>1. W!Sent(k)' = W!Sent(k)
      BY <2>1 DEF W!Sent
    <3>2. k = W!KeyOf(x) => W!Keyed(x)
      BY TenantAssumption DEF W!Keys, W!Keyed, W!KeyOf, W!WhatsAppAssumption
    <3>3. excuses'[k] = IF k = W!KeyOf(x) /\ procs[x].step = "record" THEN excuses[k] + 1 ELSE excuses[k]
      BY <2>1, <3>2 DEF NoticesInv, NoticesTyped
    <3>4. excuses[k] <= excuses'[k]
      BY <3>3 DEF NoticesInv, NoticesTyped
    <3> QED BY <2>1, <2>2, <3>1, <3>3, <3>4, SettledBudget
  <2> QED BY <2>1, <2>2, <2>3, NoticesSettle, ProcSteps
<1> QED BY <1>1, <1>2

LEMMA NoticesCrashLapse ==
  ASSUME NoticesInv, (\E x \in Procs : W!Crash(x)) \/ (\E k \in W!Keys : W!Lapse(k) \/ W!ClearKey(k))
  PROVE  NoticesInv'
<1>1. ASSUME NEW x \in Procs, W!Crash(x) PROVE NoticesInv'
  <2> DEFINE r == W!IdleProc
  <2>1. /\ procs' = [procs EXCEPT ![x] = r] /\ UNCHANGED <<keys, rows, excuses>>
        /\ gone' = IF procs[x].row = 0 THEN gone ELSE gone \cup {procs[x].row}
    BY <1>1 DEF W!Crash, W!Become
  <2>2. r.step = "idle" /\ r.row = 0 /\ {"step", "event", "todo", "id", "purpose", "row"} \subseteq DOMAIN r
    BY DEF W!IdleProc
  <2> HIDE DEF r
  <2>3. ASSUME NEW k \in W!Keys PROVE KeyBudget(k)'
    <3>1. Senders(k)' = Senders(k) \ {x}
      BY <2>1, <2>2, ProcMoves DEF NoticesInv
    <3>2. Slack(k)' = Slack(k) /\ W!Sent(k)' = W!Sent(k)
      BY <2>1 DEF Slack, W!Sent
    <3>3. Slack(k)' - Slack(k) <= excuses'[k] - excuses[k] /\ excuses' \in [W!Keys -> Nat]
      BY <2>1, <3>2 DEF NoticesInv, NoticesTyped, Slack
    <3> QED BY <3>1, <3>2, <3>3, BudgetStays
  <2> QED BY <2>1, <2>2, <2>3, ProcSteps DEF NoticesInv, NoticesTyped
<1>2. ASSUME NEW k0 \in W!Keys, W!Lapse(k0) PROVE NoticesInv'
  <2>1. /\ keys[k0].status \in {"in_progress", "completed"} /\ keys' = [keys EXCEPT ![k0].status = "stale"]
        /\ UNCHANGED <<procs, rows, gone, excuses>>
    BY <1>2 DEF W!Lapse
  <2>2. /\ DOMAIN keys' = W!Keys /\ \A k \in W!Keys : {"status", "owner"} \subseteq DOMAIN keys'[k]
        /\ \A k \in W!Keys : keys'[k].status = IF k = k0 THEN "stale" ELSE keys[k].status
    BY <2>1 DEF NoticesInv, NoticesTyped
  <2>3. NoticesTyped' /\ RowsApart' /\ RowsTellTheTruth' /\ \A x \in Procs : RowOf(x)'
    BY <2>1, <2>2 DEF NoticesInv, NoticesTyped, RowsApart, RowsTellTheTruth, W!RowsTellTheTruth, RowOf, W!KeyOf
  <2>4. ASSUME NEW k \in W!Keys PROVE KeyBudget(k)'
    <3>1. W!Sent(k)' = W!Sent(k) /\ Senders(k)' = Senders(k) /\ Slack(k)' = Slack(k)
      BY <2>1, <2>2 DEF W!Sent, Senders, W!KeyOf, Slack
    <3> QED BY <2>1, <3>1 DEF NoticesInv, KeyBudget
  <2> QED BY <2>3, <2>4 DEF NoticesInv
<1>3. ASSUME NEW k0 \in W!Keys, W!ClearKey(k0) PROVE NoticesInv'
  <2>1. /\ keys' = [keys EXCEPT ![k0] = W!NoKey] /\ UNCHANGED <<procs, rows, gone>>
        /\ excuses' = IF keys[k0].status = "failed" THEN excuses ELSE [excuses EXCEPT ![k0] = @ + 1]
    BY <1>3 DEF W!ClearKey, W!Excuse
  <2>2. /\ DOMAIN keys' = W!Keys /\ \A k \in W!Keys : {"status", "owner"} \subseteq DOMAIN keys'[k]
        /\ \A k \in W!Keys : keys'[k].status = IF k = k0 THEN "none" ELSE keys[k].status
    BY <2>1 DEF NoticesInv, NoticesTyped, W!NoKey
  <2>3. /\ excuses \in [W!Keys -> Nat] /\ excuses' \in [W!Keys -> Nat]
        /\ \A k \in W!Keys : excuses'[k] = IF k = k0 /\ keys[k0].status # "failed" THEN excuses[k] + 1 ELSE excuses[k]
    BY <2>1 DEF NoticesInv, NoticesTyped
  <2>4. NoticesTyped' /\ RowsApart' /\ RowsTellTheTruth' /\ \A x \in Procs : RowOf(x)'
    BY <2>1, <2>2, <2>3 DEF NoticesInv, NoticesTyped, RowsApart, RowsTellTheTruth, W!RowsTellTheTruth, RowOf, W!KeyOf
  <2>5. ASSUME NEW k \in W!Keys PROVE KeyBudget(k)'
    <3>1. W!Sent(k)' = W!Sent(k) /\ Senders(k)' = Senders(k)
      BY <2>1 DEF W!Sent, Senders, W!KeyOf
    <3>2. Slack(k)' <= Slack(k) + excuses'[k] - excuses[k] /\ Slack(k) \in 0..1 /\ Slack(k)' \in 0..1
      BY <2>2, <2>3 DEF Slack
    <3>3. /\ IsFiniteSet(W!Sent(k)) /\ IsFiniteSet(Senders(k))
          /\ Cardinality(W!Sent(k)) \in Nat /\ Cardinality(Senders(k)) \in Nat
          /\ Cardinality(W!Sent(k)) + Cardinality(Senders(k)) + Slack(k) <= 1 + excuses[k]
      BY FS_CardinalityType DEF NoticesInv, KeyBudget
    <3>4. Cardinality(W!Sent(k)) + Cardinality(Senders(k)) + Slack(k)' <= 1 + excuses'[k]
      BY <2>3, <3>2, <3>3
    <3> QED BY <3>1, <3>3, <3>4 DEF KeyBudget
  <2> QED BY <2>4, <2>5 DEF NoticesInv
<1> QED BY <1>1, <1>2, <1>3

LEMMA NoticesClaim ==
  ASSUME NoticesInv, NEW x \in Procs, W!Claim(x)
  PROVE  NoticesInv'
<1>1. procs[x].step = "next" /\ procs[x].row = 0 /\ UNCHANGED <<rows, gone>>
  BY DEF W!Claim, NoticesInv, RowOf
<1>2. ASSUME NEW r, procs' = [procs EXCEPT ![x] = r], UNCHANGED <<keys, excuses>>,
             r.step \in {"idle", "next"}, r.row = 0,
             {"step", "event", "todo", "id", "purpose", "row"} \subseteq DOMAIN r
      PROVE  NoticesInv'
  <2>1. ASSUME NEW k \in W!Keys PROVE KeyBudget(k)'
    <3>1. Senders(k)' = Senders(k) \ {x}
      BY <1>2, ProcMoves DEF NoticesInv
    <3>2. Slack(k)' = Slack(k) /\ W!Sent(k)' = W!Sent(k)
      BY <1>1, <1>2 DEF Slack, W!Sent
    <3>3. Slack(k)' - Slack(k) <= excuses'[k] - excuses[k] /\ excuses' \in [W!Keys -> Nat]
      BY <1>2, <3>2 DEF NoticesInv, NoticesTyped, Slack
    <3> QED BY <3>1, <3>2, <3>3, BudgetStays
  <2> QED BY <1>1, <1>2, <2>1, ProcSteps DEF NoticesInv, NoticesTyped
<1>3. CASE W!Become(x, W!IdleProc) /\ UNCHANGED <<keys, excuses>>
  <2> DEFINE r == W!IdleProc
  <2>1. r.step = "idle" /\ r.row = 0 /\ {"step", "event", "todo", "id", "purpose", "row"} \subseteq DOMAIN r
    BY DEF W!IdleProc
  <2> QED BY <1>2, <1>3, <2>1 DEF W!Become
<1>4. ASSUME NEW w \in procs[x].todo, W!Become(x, [procs[x] EXCEPT !.todo = @ \ {w}]), UNCHANGED <<keys, excuses>>
      PROVE  NoticesInv'
  <2> DEFINE r == [procs[x] EXCEPT !.todo = @ \ {w}]
  <2>1. r.step = "next" /\ r.row = 0 /\ {"step", "event", "todo", "id", "purpose", "row"} \subseteq DOMAIN r
    BY <1>1 DEF NoticesInv, NoticesTyped
  <2> QED BY <1>2, <1>4, <2>1 DEF W!Become
<1>5. ASSUME NEW w \in procs[x].todo, NEW k0, k0 = <<procs[x].event, w.purpose, w.id>>, W!Free(k0),
             W!Become(x, [[procs[x] EXCEPT !.todo = @ \ {w}] EXCEPT !.step = "send", !.id = w.id, !.purpose = w.purpose]),
             keys' = [keys EXCEPT ![k0] = [status |-> "in_progress", owner |-> x]],
             excuses' = IF keys[k0].status = "stale" THEN [excuses EXCEPT ![k0] = @ + 1] ELSE excuses
      PROVE  NoticesInv'
  <2> DEFINE r == [[procs[x] EXCEPT !.todo = @ \ {w}] EXCEPT !.step = "send", !.id = w.id, !.purpose = w.purpose]
  <2>1. procs' = [procs EXCEPT ![x] = r]
    BY <1>5 DEF W!Become
  <2>2. /\ r.step = "send" /\ r.row = 0 /\ <<r.event, r.purpose, r.id>> = k0
        /\ {"step", "event", "todo", "id", "purpose", "row"} \subseteq DOMAIN r
    BY <1>1, <1>5 DEF NoticesInv, NoticesTyped
  <2> HIDE DEF r
  <2>3. /\ DOMAIN keys' = W!Keys /\ \A k \in W!Keys : {"status", "owner"} \subseteq DOMAIN keys'[k]
        /\ \A k \in W!Keys : keys'[k].status = IF k = k0 THEN "in_progress" ELSE keys[k].status
    BY <1>5 DEF NoticesInv, NoticesTyped
  <2>4. /\ excuses' \in [W!Keys -> Nat]
        /\ \A k \in W!Keys : excuses'[k] = IF k = k0 /\ keys[k0].status = "stale" THEN excuses[k] + 1 ELSE excuses[k]
    <3>1. excuses \in [W!Keys -> Nat]
      BY DEF NoticesInv, NoticesTyped
    <3>2. CASE k0 \in W!Keys
      BY <1>5, <3>1, <3>2
    <3>3. CASE k0 \notin W!Keys
      BY <1>5, <3>1, <3>3
    <3> QED BY <3>2, <3>3
  <2>5. ASSUME NEW k \in W!Keys PROVE KeyBudget(k)'
    <3>1. W!Sent(k)' = W!Sent(k)
      BY <1>1 DEF W!Sent
    <3>2. excuses[k] \in Nat /\ excuses'[k] \in Nat
      BY <2>4 DEF NoticesInv, NoticesTyped
    <3>3. CASE k = k0
      <4>1. Senders(k)' = Senders(k) \cup {x}
        <5>1. r.step \in {"send", "post"} /\ <<r.event, r.purpose, r.id>> = k
          BY <2>2, <3>3
        <5> QED BY <2>1, <5>1, SenderJoins DEF NoticesInv
      <4>2. 1 + Slack(k)' - Slack(k) <= excuses'[k] - excuses[k]
        BY <1>5, <2>3, <2>4, <3>2, <3>3 DEF Slack, W!Free
      <4> QED BY <2>4, <3>1, <4>1, <4>2, BudgetLent
    <3>4. CASE k # k0
      <4>1. Senders(k)' = Senders(k) \ {x}
        BY <2>1, <2>2, <3>4, ProcMoves DEF NoticesInv
      <4>2. Slack(k)' - Slack(k) <= excuses'[k] - excuses[k]
        BY <2>3, <2>4, <3>2, <3>4 DEF Slack
      <4> QED BY <2>4, <3>1, <4>1, <4>2, BudgetStays
    <3> QED BY <3>3, <3>4
  <2> QED BY <1>1, <2>1, <2>2, <2>3, <2>4, <2>5, ProcSteps
<1> QED BY <1>3, <1>4, <1>5 DEF W!Claim, W!Excuse

LEMMA NoticesLog ==
  ASSUME NoticesInv, NEW x \in Procs, W!LogSend(x)
  PROVE  NoticesInv'
<1> DEFINE n == Len(rows) + 1
           r == [procs[x] EXCEPT !.step = "post", !.row = n]
           new == [key |-> W!KeyOf(x), status |-> "queued", taken |-> FALSE, named |-> FALSE]
<1>1. /\ procs' = [procs EXCEPT ![x] = r] /\ procs[x].step = "send" /\ rows' = Append(rows, new)
      /\ UNCHANGED <<keys, gone, excuses>>
  BY DEF W!LogSend, W!Logged, W!Become
<1>2. /\ r.step = "post" /\ r.row = n /\ <<r.event, r.purpose, r.id>> = W!KeyOf(x)
      /\ {"step", "event", "todo", "id", "purpose", "row"} \subseteq DOMAIN r
  BY DEF NoticesInv, NoticesTyped, W!KeyOf
<1>3. /\ IsSeq(rows') /\ Len(rows) \in Nat /\ Len(rows') = n /\ rows'[n] = new
      /\ \A i \in 1..Len(rows) : rows'[i] = rows[i]
  BY <1>1, SeqAppends DEF NoticesInv, NoticesTyped
<1>4. /\ new.key = W!KeyOf(x) /\ new.status = "queued" /\ new.taken = FALSE /\ new.named = FALSE
      /\ {"key", "status", "taken", "named"} \subseteq DOMAIN new
  OBVIOUS
<1> HIDE DEF r, new
<1>5. /\ DOMAIN procs' = Procs /\ \A y \in Procs : procs'[y] = IF y = x THEN r ELSE procs[y]
      /\ \A y \in Procs : W!KeyOf(y)' = W!KeyOf(y)
  <2>1. DOMAIN procs' = Procs /\ \A y \in Procs : procs'[y] = IF y = x THEN r ELSE procs[y]
    BY <1>1, ProcMoves DEF NoticesInv
  <2> QED BY <1>2, <2>1 DEF W!KeyOf
<1>6. \A y \in Procs : procs[y].row \in 0..Len(rows)
  BY <1>3 DEF NoticesInv, NoticesTyped, RowOf
<1>7. NoticesTyped'
  BY <1>1, <1>2, <1>3, <1>4, <1>5 DEF NoticesInv, NoticesTyped
<1>8. ASSUME NEW y \in Procs PROVE RowOf(y)'
  <2>1. CASE y = x
    <3>1. procs'[x] = r /\ W!KeyOf(x)' = W!KeyOf(x) /\ n \in 1..Len(rows')
      BY <1>3, <1>5
    <3> QED BY <1>2, <1>3, <1>4, <2>1, <3>1 DEF RowOf
  <2>2. CASE y # x
    BY <1>3, <1>5, <2>2 DEF RowOf, NoticesInv
  <2> QED BY <2>1, <2>2
<1>9. RowsApart'
  BY <1>2, <1>3, <1>5, <1>6 DEF RowsApart, NoticesInv
<1>10. RowsTellTheTruth'
  <2>1. ASSUME NEW i \in 1..n
        PROVE  /\ rows'[i].status = "queued" => i \in gone \/ \E y \in Procs : procs'[y].row = i
               /\ rows'[i].status \in {"sent", "delivered", "read"} => rows'[i].taken
    <3>1. CASE i = n
      BY <1>2, <1>3, <1>4, <1>5, <3>1
    <3>2. CASE i # n
      <4>1. i \in 1..Len(rows) /\ rows'[i] = rows[i] /\ procs[x].row # i
        BY <1>1, <1>3, <3>2 DEF NoticesInv, RowOf
      <4> QED BY <1>5, <4>1 DEF NoticesInv, RowsTellTheTruth, W!RowsTellTheTruth
    <3> QED BY <3>1, <3>2
  <2> QED BY <1>1, <1>3, <2>1 DEF RowsTellTheTruth, W!RowsTellTheTruth
<1>11. ASSUME NEW k \in W!Keys PROVE KeyBudget(k)'
  <2>1. W!Sent(k)' = W!Sent(k)
    BY <1>3, <1>4 DEF W!Sent
  <2>2. Senders(k)' = Senders(k)
    BY <1>1, <1>2, <1>5 DEF Senders
  <2>3. Slack(k)' = Slack(k)
    BY <1>1 DEF Slack
  <2> QED BY <1>1, <2>1, <2>2, <2>3 DEF NoticesInv, KeyBudget
<1> QED BY <1>7, <1>8, <1>9, <1>10, <1>11 DEF NoticesInv

LEMMA NoticesAccept ==
  ASSUME NoticesInv, NEW x \in Procs, W!Accept(x)
  PROVE  NoticesInv'
<1> DEFINE n == procs[x].row
           r == [procs[x] EXCEPT !.step = "record"]
           new == [rows[n] EXCEPT !.taken = TRUE]
<1>1. /\ procs' = [procs EXCEPT ![x] = r] /\ procs[x].step = "post" /\ rows' = [rows EXCEPT ![n] = new]
      /\ UNCHANGED <<keys, gone, excuses>>
  BY DEF W!Accept, W!Become
<1>2. /\ r.step = "record" /\ r.row = n /\ <<r.event, r.purpose, r.id>> = W!KeyOf(x)
      /\ {"step", "event", "todo", "id", "purpose", "row"} \subseteq DOMAIN r
  BY DEF NoticesInv, NoticesTyped, W!KeyOf
<1>3. /\ n \in 1..Len(rows) /\ rows[n].key = W!KeyOf(x) /\ rows[n].status = "queued"
      /\ rows[n].named = FALSE /\ rows[n].taken = FALSE
  BY <1>1 DEF NoticesInv, RowOf
<1>4. /\ new.key = W!KeyOf(x) /\ new.status = "queued" /\ new.taken = TRUE /\ new.named = FALSE
      /\ {"key", "status", "taken", "named"} \subseteq DOMAIN new
  BY <1>3 DEF NoticesInv, NoticesTyped
<1> HIDE DEF r, new
<1>5. /\ IsSeq(rows') /\ Len(rows) \in Nat /\ Len(rows') = Len(rows)
      /\ \A i \in 1..Len(rows) : rows'[i] = IF i = n THEN new ELSE rows[i]
  <2>1. IsSeq(rows) /\ n \in 1..Len(rows)
    BY <1>3 DEF NoticesInv, NoticesTyped
  <2>2. /\ DOMAIN rows' = DOMAIN rows /\ rows' = [j \in DOMAIN rows' |-> rows'[j]]
        /\ \A j \in DOMAIN rows : rows'[j] = IF j = n THEN new ELSE rows[j]
    BY <1>1
  <2> HIDE DEF n
  <2> QED BY <2>1, <2>2, SeqReplaces
<1>6. /\ DOMAIN procs' = Procs /\ \A y \in Procs : procs'[y] = IF y = x THEN r ELSE procs[y]
      /\ \A y \in Procs : W!KeyOf(y)' = W!KeyOf(y)
      /\ \A k : Senders(k)' = Senders(k) \ {x}
  <2>1. DOMAIN procs' = Procs /\ \A y \in Procs : procs'[y] = IF y = x THEN r ELSE procs[y]
    BY <1>1, ProcMoves DEF NoticesInv
  <2>2. \A k : Senders(k)' = Senders(k) \ {x}
    BY <1>1, <1>2, ProcMoves DEF NoticesInv
  <2> QED BY <1>2, <2>1, <2>2 DEF W!KeyOf
<1>7. NoticesTyped'
  BY <1>1, <1>2, <1>4, <1>5, <1>6 DEF NoticesInv, NoticesTyped
<1>8. ASSUME NEW y \in Procs PROVE RowOf(y)'
  <2>1. CASE y = x
    BY <1>2, <1>3, <1>4, <1>5, <1>6, <2>1 DEF RowOf
  <2>2. CASE y # x
    <3>1. procs[y].row # n
      BY <1>3, <2>2 DEF NoticesInv, RowsApart
    <3> QED BY <1>5, <1>6, <2>2, <3>1 DEF RowOf, NoticesInv
  <2> QED BY <2>1, <2>2
<1>9. RowsApart'
  BY <1>2, <1>6 DEF RowsApart, NoticesInv
<1>10. RowsTellTheTruth'
  BY <1>1, <1>2, <1>3, <1>4, <1>5, <1>6 DEF NoticesInv, RowsTellTheTruth, W!RowsTellTheTruth
<1>11. ASSUME NEW k \in W!Keys PROVE KeyBudget(k)'
  <2>1. CASE k = W!KeyOf(x)
    <3>1. x \in Senders(k) /\ n \notin W!Sent(k)
      BY <1>1, <1>3, <2>1 DEF Senders, W!Sent
    <3>2. W!Sent(k)' = W!Sent(k) \cup {n}
      BY <1>3, <1>4, <1>5, <2>1 DEF W!Sent
    <3>3. Senders(k)' = Senders(k) \ {x} /\ Slack(k)' = Slack(k) /\ excuses'[k] = excuses[k]
      BY <1>1, <1>6 DEF Slack
    <3>4. /\ IsFiniteSet(W!Sent(k) \cup {n}) /\ IsFiniteSet(Senders(k) \ {x})
          /\ Cardinality(W!Sent(k) \cup {n}) = Cardinality(W!Sent(k)) + 1
          /\ Cardinality(Senders(k) \ {x}) = Cardinality(Senders(k)) - 1
          /\ Cardinality(W!Sent(k)) \in Nat /\ Cardinality(Senders(k)) \in Nat
      BY <3>1, CardAdds DEF NoticesInv, KeyBudget
    <3>5. Slack(k) \in 0..1 /\ excuses[k] \in Nat
      BY DEF Slack, NoticesInv, NoticesTyped
    <3>6. Cardinality(W!Sent(k)) + Cardinality(Senders(k)) + Slack(k) <= 1 + excuses[k]
      BY DEF NoticesInv, KeyBudget
    <3> QED BY <3>2, <3>3, <3>4, <3>5, <3>6 DEF KeyBudget
  <2>2. CASE k # W!KeyOf(x)
    <3>1. W!Sent(k)' = W!Sent(k) /\ Senders(k)' = Senders(k) \ {x} /\ Slack(k)' = Slack(k)
      BY <1>1, <1>3, <1>4, <1>5, <1>6, <2>2 DEF W!Sent, Slack
    <3>2. Slack(k)' - Slack(k) <= excuses'[k] - excuses[k] /\ excuses' \in [W!Keys -> Nat]
      BY <1>1, <3>1 DEF NoticesInv, NoticesTyped, Slack
    <3> QED BY <3>1, <3>2, BudgetStays
  <2> QED BY <2>1, <2>2
<1> QED BY <1>7, <1>8, <1>9, <1>10, <1>11 DEF NoticesInv

\* The end of a send: its row gets its outcome, its key is completed.
LEMMA NoticesRecord ==
  ASSUME NoticesInv, NEW x \in Procs, W!Refuse(x) \/ W!Record(x) \/ W!RecordFails(x)
  PROVE  NoticesInv'
<1> DEFINE n == procs[x].row
<1>1. PICK s \in {"sent", "failed"} :
        /\ procs[x].step \in {"post", "record"} /\ (s = "sent" => procs[x].step = "record")
        /\ W!Settled(x, "completed") /\ UNCHANGED <<gone, excuses>> /\ W!Recorded(n, s)
  BY DEF W!Refuse, W!Record, W!RecordFails
<1>2. /\ n \in 1..Len(rows) /\ rows[n].named = FALSE /\ rows[n].taken = (procs[x].step = "record")
  BY <1>1 DEF NoticesInv, RowOf
<1> DEFINE new == [[rows[n] EXCEPT !.status = s] EXCEPT !.named = (s = "sent")]
<1>3. /\ new.key = rows[n].key /\ new.status = s /\ new.taken = rows[n].taken /\ new.named = (s = "sent")
      /\ {"key", "status", "taken", "named"} \subseteq DOMAIN new
  BY <1>2 DEF NoticesInv, NoticesTyped
<1>4. /\ IsSeq(rows') /\ Len(rows) \in Nat /\ Len(rows') = Len(rows)
      /\ \A i \in 1..Len(rows) : rows'[i] = IF i = n THEN new ELSE rows[i]
  <2>1. IsSeq(rows)
    BY DEF NoticesInv, NoticesTyped
  <2>2. /\ DOMAIN rows' = DOMAIN rows /\ rows' = [j \in DOMAIN rows' |-> rows'[j]]
        /\ \A j \in DOMAIN rows : rows'[j] = IF j = n THEN new ELSE rows[j]
    BY <1>1 DEF W!Recorded
  <2> HIDE DEF n, new
  <2> QED BY <1>2, <2>1, <2>2, SeqReplaces
<1> HIDE DEF new
<1>5. PICK r : /\ procs' = [procs EXCEPT ![x] = r] /\ r.step \in {"idle", "next"} /\ r.row = 0
               /\ {"step", "event", "todo", "id", "purpose", "row"} \subseteq DOMAIN r
  BY <1>1, <1>4, NoticesSettle
<1>6. DOMAIN procs' = Procs /\ \A y \in Procs : procs'[y] = IF y = x THEN r ELSE procs[y]
  BY <1>5, ProcMoves DEF NoticesInv
<1>7. DOMAIN keys' = W!Keys /\ \A k \in W!Keys : {"status", "owner"} \subseteq DOMAIN keys'[k]
  BY <1>1, <1>4, NoticesSettle
<1>8. NoticesTyped'
  <2>1. NoticesTyped
    BY DEF NoticesInv
  <2>2. /\ DOMAIN procs' = Procs
        /\ \A y \in Procs : /\ {"step", "event", "todo", "id", "purpose", "row"} \subseteq DOMAIN procs'[y]
                            /\ procs'[y].step \in {"idle", "next", "send", "post", "record"}
    BY <1>5, <1>6, <2>1 DEF NoticesTyped
  <2>3. \A i \in 1..Len(rows') : {"key", "status", "taken", "named"} \subseteq DOMAIN rows'[i]
    BY <1>3, <1>4, <2>1 DEF NoticesTyped
  <2>4. excuses' \in [W!Keys -> Nat]
    BY <1>1, <2>1 DEF NoticesTyped
  <2> QED BY <1>4, <1>7, <2>2, <2>3, <2>4 DEF NoticesTyped
<1>9. ASSUME NEW y \in Procs PROVE RowOf(y)'
  <2>1. CASE y = x
    BY <1>5, <1>6, <2>1 DEF RowOf
  <2>2. CASE y # x
    <3>1. procs[y].row # n /\ W!KeyOf(y)' = W!KeyOf(y)
      BY <1>2, <1>6, <2>2 DEF NoticesInv, RowsApart, W!KeyOf
    <3> QED BY <1>4, <1>6, <2>2, <3>1 DEF RowOf, NoticesInv
  <2> QED BY <2>1, <2>2
<1>10. RowsApart'
  BY <1>5, <1>6 DEF RowsApart, NoticesInv
<1>11. RowsTellTheTruth'
  <2>1. ASSUME NEW i \in 1..Len(rows)
        PROVE  /\ rows'[i].status = "queued" => i \in gone \/ \E y \in Procs : procs'[y].row = i
               /\ rows'[i].status \in {"sent", "delivered", "read"} => rows'[i].taken
    <3>1. CASE i = n
      BY <1>1, <1>2, <1>3, <1>4, <3>1
    <3>2. CASE i # n
      BY <1>4, <1>6, <3>2 DEF NoticesInv, RowsTellTheTruth, W!RowsTellTheTruth
    <3> QED BY <3>1, <3>2
  <2> QED BY <1>1, <1>4, <2>1 DEF RowsTellTheTruth, W!RowsTellTheTruth
<1>12. ASSUME NEW k \in W!Keys PROVE KeyBudget(k)'
  <2>1. W!Sent(k)' = W!Sent(k)
    BY <1>3, <1>4 DEF W!Sent
  <2>2. excuses' \in [W!Keys -> Nat] /\ excuses[k] <= excuses'[k]
    BY <1>1 DEF NoticesInv, NoticesTyped
  <2> QED BY <1>1, <1>4, <2>1, <2>2, SettledBudget
<1> QED BY <1>8, <1>9, <1>10, <1>11, <1>12 DEF NoticesInv

LEMMA NoticesStatus ==
  ASSUME NoticesInv, NEW n \in 1..Len(rows), W!StatusUpdate(n)
  PROVE  NoticesInv'
<1>1. PICK s \in {"sent", "delivered", "read", "failed"} :
        /\ rows[n].taken /\ rows[n].named /\ rows' = [rows EXCEPT ![n].status = s]
        /\ UNCHANGED <<keys, procs, gone, excuses>>
  BY DEF W!StatusUpdate
<1> DEFINE new == [rows[n] EXCEPT !.status = s]
<1>2. /\ new.key = rows[n].key /\ new.status = s /\ new.taken = rows[n].taken /\ new.named = rows[n].named
      /\ {"key", "status", "taken", "named"} \subseteq DOMAIN new
  BY DEF NoticesInv, NoticesTyped
<1>3. rows' = [rows EXCEPT ![n] = new]
  BY <1>1
<1> HIDE DEF new
<1>4. /\ IsSeq(rows') /\ Len(rows) \in Nat /\ Len(rows') = Len(rows)
      /\ \A i \in 1..Len(rows) : rows'[i] = IF i = n THEN new ELSE rows[i]
  <2>1. IsSeq(rows)
    BY DEF NoticesInv, NoticesTyped
  <2>2. /\ DOMAIN rows' = DOMAIN rows /\ rows' = [j \in DOMAIN rows' |-> rows'[j]]
        /\ \A j \in DOMAIN rows : rows'[j] = IF j = n THEN new ELSE rows[j]
    BY <1>3
  <2> QED BY <2>1, <2>2, SeqReplaces
<1>5. NoticesTyped' /\ RowsApart'
  BY <1>1, <1>2, <1>4 DEF NoticesInv, NoticesTyped, RowsApart
<1>6. ASSUME NEW y \in Procs PROVE RowOf(y)'
  BY <1>1, <1>4 DEF NoticesInv, RowOf, W!KeyOf
<1>7. RowsTellTheTruth'
  BY <1>1, <1>2, <1>4 DEF NoticesInv, RowsTellTheTruth, W!RowsTellTheTruth
<1>8. ASSUME NEW k \in W!Keys PROVE KeyBudget(k)'
  <2>1. W!Sent(k)' = W!Sent(k) /\ Senders(k)' = Senders(k) /\ Slack(k)' = Slack(k)
    BY <1>1, <1>2, <1>4 DEF W!Sent, Senders, W!KeyOf, Slack
  <2> QED BY <1>1, <2>1 DEF NoticesInv, KeyBudget
<1> QED BY <1>5, <1>6, <1>7, <1>8 DEF NoticesInv

LEMMA NoticesNext == NoticesInv /\ [W!Next]_(W!vars) => NoticesInv'
<1> SUFFICES ASSUME NoticesInv, [W!Next]_(W!vars) PROVE NoticesInv'
  OBVIOUS
<1>1. CASE UNCHANGED W!vars
  <2>1. UNCHANGED W!sending
    BY <1>1 DEF W!vars, W!sending
  <2> QED BY <2>1, NoticesRest
<1>2. ASSUME NEW t \in Tenants,
             \/ \E n \in Numbers : W!CheckClaim(t, n)
             \/ W!StoreSettings(t) \/ W!DeleteSettings(t) \/ W!Submitted(t)
             \/ \E p \in Purposes : \/ W!EditTemplate(t, p) \/ W!DeleteTemplate(t, p)
                                    \/ W!Submit(t, p) \/ W!Sync(t, p) \/ W!Import(t, p)
                                    \/ \E e \in Events : W!CreateTemplate(t, p, {Type[e]})
      PROVE  NoticesInv'
  <2>1. UNCHANGED W!sending
    BY <1>2 DEF W!CheckClaim, W!StoreSettings, W!DeleteSettings, W!Submitted, W!EditTemplate, W!DeleteTemplate,
                W!Submit, W!Sync, W!Import, W!CreateTemplate
  <2> QED BY <2>1, NoticesRest
<1>3. ASSUME NEW x \in Procs, \/ \E e \in Events : W!Deliver(x, e)
                              \/ \E p \in Purposes : W!Dispatch(x, p)
                              \/ W!Claim(x) \/ W!SkipSend(x) \/ W!LogSend(x) \/ W!Accept(x) \/ W!Refuse(x)
                              \/ W!Record(x) \/ W!RecordFails(x) \/ W!Throw(x) \/ W!Crash(x)
      PROVE  NoticesInv'
  BY <1>3, NoticesDeliver, NoticesDispatch, NoticesClaim, NoticesSkipThrow, NoticesLog, NoticesAccept, NoticesRecord,
     NoticesCrashLapse
<1>4. CASE \E k \in W!Keys : W!Lapse(k) \/ W!ClearKey(k)
  BY <1>4, NoticesCrashLapse
<1>5. CASE \E i \in 1..Len(rows) : W!StatusUpdate(i)
  BY <1>5, NoticesStatus
<1> QED BY <1>1, <1>2, <1>3, <1>4, <1>5 DEF W!Next

\* The instance has an operator of its own for the size of a set.
LEMMA SameCardinality == \A S : W!Cardinality(S) = Cardinality(S)
  BY DEF W!Cardinality, Cardinality

\* However often the outbox delivers an event, a template is sent for it once, and once
\* more only each time a lease or an answer too old was taken over, a result could not be
\* stored once Meta had the message, or the key of a message sent or being sent was cleared.
THEOREM NoticeBudgetHolds == W!Spec => []NoticeBudget
<1>1. NoticesInv => NoticeBudget
  <2> SUFFICES ASSUME NoticesInv, NEW k \in W!Keys PROVE Cardinality(W!Sent(k)) <= 1 + excuses[k]
    BY SameCardinality DEF NoticeBudget, W!NoticeBudget
  <2>1. /\ Cardinality(W!Sent(k)) \in Nat /\ Cardinality(Senders(k)) \in Nat /\ Slack(k) \in Nat /\ excuses[k] \in Nat
        /\ Cardinality(W!Sent(k)) + Cardinality(Senders(k)) + Slack(k) <= 1 + excuses[k]
    BY FS_CardinalityType DEF NoticesInv, NoticesTyped, KeyBudget, Slack
  <2> QED BY <2>1
<1> QED BY NoticesInit, NoticesNext, <1>1, PTL DEF W!Spec

\* A row of the log is queued only while its sender works on it or has broken off, and
\* one that says sent, delivered or read is of a message Meta took, whatever order the
\* answers and the status calls come in.
THEOREM RowsTellTheTruthHolds == W!Spec => []RowsTellTheTruth
<1>1. NoticesInv => RowsTellTheTruth
  BY DEF NoticesInv
<1> QED BY NoticesInit, NoticesNext, <1>1, PTL DEF W!Spec

-----------------------------------------------------------------------------
(* Chatbot: a row that is old among those a summariser read is old among   *)
(* all, and a reply that promises was flagged before it is sent.           *)

CallRecords == [step : {"wait", "create", "save", "answer", "reply", "send"}, left : Int,
                topic : Topics \cup {"none"}, escalated : BOOLEAN]

ChatTyped ==
  /\ last \in Nat /\ table \subseteq 1..last
  /\ calls \in [Calls -> CallRecords]
  /\ summaries \in [Calls -> [rows : SUBSET (1..last), stored : BOOLEAN]]
  /\ promised \in BOOLEAN

\* A reply about to be sent that hands over belongs to a flagged conversation.
FlaggedBefore == \A c \in Calls : calls[c].step = "send" /\ calls[c].escalated = TRUE => conv = "escalated"

\* The rows summaries were stored for; a summariser that has stored its own may delete only those.
Told == context \cup forgotten
StoredFirst == \A c \in Calls : summaries[c].stored => C!OldRows(summaries[c].rows) \subseteq Told

ChatInv == ChatTyped /\ FlaggedBefore /\ StoredFirst /\ OnlySummarisedGo /\ PromiseIsFlagged

\* The newest rows of a set of rows, in a set that holds them: a row that is
\* old among some of the rows is old among all.
LEMMA OldIsOld ==
  ASSUME NEW n \in Nat, NEW S \in SUBSET (1..n)
  PROVE  C!OldRows(S) \cap C!Newest(1..n, KeepRecent) = {}
<1> SUFFICES ASSUME NEW i \in C!OldRows(S), i \in C!Newest(1..n, KeepRecent) PROVE FALSE
  OBVIOUS
<1> DEFINE Later(T) == {j \in T : j > i}
<1>0. KeepRecent \in Nat
  BY TenantAssumption DEF C!ChatbotAssumption
<1>1. i \in S /\ ~ C!Cardinality(Later(S)) < KeepRecent /\ C!Cardinality(Later(1..n)) < KeepRecent
  BY DEF C!OldRows, C!Newest
<1>2. Later(S) \subseteq Later(1..n) /\ Later(1..n) \subseteq 1..n
  OBVIOUS
<1>3. IsFiniteSet(1..n)
  BY FS_Interval
<1>4. Cardinality(Later(S)) <= Cardinality(Later(1..n)) /\ Cardinality(Later(S)) \in Nat /\ Cardinality(Later(1..n)) \in Nat
  BY <1>2, <1>3, FS_Subset, FS_CardinalityType
<1> QED BY <1>0, <1>1, <1>4 DEF C!Cardinality, Cardinality

\* A new row pushes out of the newest rows, and pushes none in.
LEMMA NewestGrows ==
  ASSUME NEW n \in Nat
  PROVE  C!Newest(1..(n + 1), KeepRecent) \subseteq C!Newest(1..n, KeepRecent) \cup {n + 1}
<1> SUFFICES ASSUME NEW i \in C!Newest(1..(n + 1), KeepRecent), i # n + 1 PROVE i \in C!Newest(1..n, KeepRecent)
  OBVIOUS
<1> DEFINE Later(T) == {j \in T : j > i}
<1>0. KeepRecent \in Nat
  BY TenantAssumption DEF C!ChatbotAssumption
<1>1. i \in 1..n /\ C!Cardinality(Later(1..(n + 1))) < KeepRecent
  BY DEF C!Newest
<1>2. Later(1..n) \subseteq Later(1..(n + 1)) /\ Later(1..(n + 1)) \subseteq 1..(n + 1)
  OBVIOUS
<1>3. IsFiniteSet(1..(n + 1))
  BY FS_Interval
<1>4. Cardinality(Later(1..n)) <= Cardinality(Later(1..(n + 1))) /\ Cardinality(Later(1..n)) \in Nat
        /\ Cardinality(Later(1..(n + 1))) \in Nat
  BY <1>2, <1>3, FS_Subset, FS_CardinalityType
<1> QED BY <1>0, <1>1, <1>4 DEF C!Newest, C!Cardinality, Cardinality

LEMMA ChatInit == C!Init => ChatInv
<1> SUFFICES ASSUME C!Init PROVE ChatInv
  OBVIOUS
<1>1. Batch \in [Calls -> Int]
  BY TenantAssumption DEF C!ChatbotAssumption
<1>2. ChatTyped
  BY <1>1 DEF C!Init, C!Waiting, C!NoSummary, ChatTyped, CallRecords
<1>3. FlaggedBefore /\ StoredFirst /\ PromiseIsFlagged
  BY DEF C!Init, C!Waiting, C!NoSummary, FlaggedBefore, StoredFirst, PromiseIsFlagged, C!PromiseIsFlagged
<1>4. OnlySummarisedGo
  BY DEF C!Init, OnlySummarisedGo, C!OnlySummarisedGo, C!Newest
<1> QED BY <1>2, <1>3, <1>4 DEF ChatInv

\* A call that stores a row.
LEMMA InsertKeeps ==
  ASSUME ChatTyped, OnlySummarisedGo, C!Insert, UNCHANGED C!memory
  PROVE  last' \in Nat /\ last' = last + 1 /\ table' \subseteq 1..last' /\ OnlySummarisedGo'
<1>1. last \in Nat /\ last' = last + 1 /\ table \subseteq 1..last /\ table' = table \cup {last + 1}
  BY DEF C!Insert, ChatTyped
<1>2. (1..last') \ table' \subseteq context' \cup forgotten'
  BY <1>1 DEF OnlySummarisedGo, C!OnlySummarisedGo, C!memory
<1>3. C!Newest(1..last', KeepRecent) \subseteq table'
  BY <1>1, NewestGrows DEF OnlySummarisedGo, C!OnlySummarisedGo
<1> QED BY <1>1, <1>2, <1>3 DEF OnlySummarisedGo, C!OnlySummarisedGo

LEMMA ChatNext == ChatInv /\ [C!Next]_cVars => ChatInv'
<1> SUFFICES ASSUME ChatInv, [C!Next]_cVars PROVE ChatInv'
  OBVIOUS
<1> USE DEF ChatInv
<1>typed. ChatTyped
  OBVIOUS
<1>c. last \in Nat /\ table \subseteq 1..last /\ calls \in [Calls -> CallRecords] /\ promised \in BOOLEAN
       /\ summaries \in [Calls -> [rows : SUBSET (1..last), stored : BOOLEAN]]
  BY <1>typed DEF ChatTyped
<1>same. ASSUME UNCHANGED <<last, table>>, Told \subseteq Told' PROVE OnlySummarisedGo'
  BY <1>same DEF OnlySummarisedGo, C!OnlySummarisedGo, Told
<1>behind. ASSUME UNCHANGED summaries, Told \subseteq Told' PROVE StoredFirst'
  BY <1>behind DEF StoredFirst
<1>still. UNCHANGED C!memory => Told' = Told
  BY DEF C!memory, Told
<1>new. \A old, kept : C!Summarised(old, kept) => Told \cup old \subseteq Told'
  BY DEF C!Summarised, Told
<1>1. CASE C!HandOff
  <2> USE <1>1 DEF C!HandOff
  <2>3. Told \subseteq Told'
    BY <1>still, <1>new
  <2>1. ChatTyped'
    BY <1>c DEF ChatTyped
  <2>2. FlaggedBefore' /\ PromiseIsFlagged'
    BY DEF FlaggedBefore, PromiseIsFlagged, C!PromiseIsFlagged
  <2> QED BY <1>same, <1>behind, <2>1, <2>2, <2>3
<1>2. ASSUME NEW c \in Calls, C!TakeMessage(c) PROVE ChatInv'
  <2> USE <1>2 DEF C!TakeMessage, C!background
  <2>1. calls' \in [Calls -> CallRecords]
    <3>1. calls[c].left - 1 \in Int
      BY <1>c DEF CallRecords
    <3>2. ASSUME NEW t \in Topics,
                 calls' = [calls EXCEPT ![c] =
                   [step |-> IF conv = "none" THEN "create" ELSE "save", left |-> @.left - 1, topic |-> t, escalated |-> FALSE]]
          PROVE  calls' \in [Calls -> CallRecords]
      BY <1>c, <3>1, <3>2 DEF CallRecords
    <3>3. CASE calls' = [calls EXCEPT ![c].left = @ - 1]
      <4>1. [calls[c] EXCEPT !.left = @ - 1] \in CallRecords
        BY <1>c, <3>1 DEF CallRecords
      <4> QED BY <1>c, <3>3, <4>1
    <3> QED BY <3>2, <3>3
  <2>2. ChatTyped'
    BY <1>c, <2>1 DEF ChatTyped
  <2>3. FlaggedBefore' /\ PromiseIsFlagged'
    BY <1>c DEF FlaggedBefore, PromiseIsFlagged, C!PromiseIsFlagged, CallRecords
  <2> QED BY <1>same, <1>behind, <1>still, <2>2, <2>3
<1>3. ASSUME NEW c \in Calls, C!CreateConversation(c) PROVE ChatInv'
  <2> USE <1>3 DEF C!CreateConversation, C!background, C!Step, C!Waiting
  <2>1. calls' \in [Calls -> CallRecords]
    <3>1. [calls[c] EXCEPT !.step = "save"] \in CallRecords /\ C!Waiting(0) \in CallRecords
      BY <1>c DEF CallRecords
    <3>2. CASE calls' = [calls EXCEPT ![c].step = "save"]
      BY <1>c, <3>1, <3>2
    <3>3. CASE calls' = [calls EXCEPT ![c] = C!Waiting(0)]
      BY <1>c, <3>1, <3>3
    <3> QED BY <3>2, <3>3
  <2>2. ChatTyped'
    BY <1>c, <2>1 DEF ChatTyped
  <2>3. FlaggedBefore' /\ PromiseIsFlagged'
    BY SMTT(30), <1>c DEF FlaggedBefore, PromiseIsFlagged, C!PromiseIsFlagged, CallRecords
  <2> QED BY <1>same, <1>behind, <1>still, <2>2, <2>3
<1>4. ASSUME NEW c \in Calls, C!SaveUserMessage(c) PROVE ChatInv'
  <2> USE <1>4 DEF C!SaveUserMessage, C!background, C!Step
  <2>1. calls' \in [Calls -> CallRecords]
    BY SMTT(30), <1>c DEF CallRecords
  <2>2. ChatTyped' /\ OnlySummarisedGo'
    BY <1>c, <2>1, InsertKeeps DEF ChatTyped
  <2>3. FlaggedBefore' /\ PromiseIsFlagged'
    BY <1>c DEF FlaggedBefore, PromiseIsFlagged, C!PromiseIsFlagged, CallRecords
  <2> QED BY <1>behind, <1>still, <2>2, <2>3
<1>5. ASSUME NEW c \in Calls, C!Answer(c) PROVE ChatInv'
  <2> USE <1>5 DEF C!Answer, C!background, C!Escalates
  <2>1. calls' \in [Calls -> CallRecords]
    <3>1. PICK esc \in BOOLEAN : calls' = [calls EXCEPT ![c].step = "reply", ![c].escalated = esc]
      OBVIOUS
    <3>2. [calls[c] EXCEPT !.step = "reply", !.escalated = esc] \in CallRecords
      BY ZenonT(30), <1>c DEF CallRecords
    <3> QED BY <1>c, <3>1, <3>2
  <2>2. ChatTyped'
    BY <1>c, <2>1 DEF ChatTyped
  <2>3. FlaggedBefore' /\ PromiseIsFlagged'
    BY <1>c DEF FlaggedBefore, PromiseIsFlagged, C!PromiseIsFlagged, CallRecords
  <2> QED BY <1>same, <1>behind, <1>still, <2>2, <2>3
<1>6. ASSUME NEW c \in Calls, C!AnswerBlocked(c) PROVE ChatInv'
  <2> USE <1>6 DEF C!AnswerBlocked, C!background
  <2>1. calls' \in [Calls -> CallRecords]
    BY ZenonT(30), <1>c DEF CallRecords
  <2>2. ChatTyped' /\ OnlySummarisedGo'
    BY <1>c, <2>1, InsertKeeps DEF ChatTyped
  <2>3. FlaggedBefore' /\ PromiseIsFlagged'
    BY <1>c DEF FlaggedBefore, PromiseIsFlagged, C!PromiseIsFlagged, CallRecords
  <2> QED BY <1>behind, <1>still, <2>2, <2>3
<1>7. ASSUME NEW c \in Calls, C!SaveReply(c) PROVE ChatInv'
  <2> USE <1>7 DEF C!SaveReply, C!Step, C!StatusAfter
  <2>1. calls' \in [Calls -> CallRecords]
    BY <1>c DEF CallRecords
  <2>2. last' \in Nat /\ last' = last + 1 /\ table' \subseteq 1..last' /\ OnlySummarisedGo'
    BY <1>typed, InsertKeeps
  <2>3. summaries' \in [Calls -> [rows : SUBSET (1..last'), stored : BOOLEAN]]
    BY <1>c, <2>2
  <2>4. ChatTyped'
    BY <1>c, <2>1, <2>2, <2>3 DEF ChatTyped
  <2>5. FlaggedBefore' /\ PromiseIsFlagged'
    BY <1>c DEF FlaggedBefore, PromiseIsFlagged, C!PromiseIsFlagged, CallRecords
  <2>6. StoredFirst'
    BY <1>c, <1>still DEF StoredFirst, C!NoSummary
  <2> QED BY <2>2, <2>4, <2>5, <2>6
<1>8. ASSUME NEW c \in Calls, C!Send(c) PROVE ChatInv'
  <2> USE <1>8 DEF C!Send, C!background, C!Waiting
  <2>1. calls' \in [Calls -> CallRecords]
    BY <1>c DEF CallRecords
  <2>2. ChatTyped'
    BY <1>c, <2>1 DEF ChatTyped, CallRecords
  <2>3. FlaggedBefore' /\ PromiseIsFlagged'
    BY <1>c DEF FlaggedBefore, PromiseIsFlagged, C!PromiseIsFlagged, CallRecords
  <2> QED BY <1>same, <1>behind, <1>still, <2>2, <2>3
<1>9. ASSUME NEW c \in Calls, C!Fail(c) PROVE ChatInv'
  <2> USE <1>9 DEF C!Fail, C!background, C!Waiting
  <2>1. calls' \in [Calls -> CallRecords]
    BY <1>c DEF CallRecords
  <2>2. ChatTyped'
    BY <1>c, <2>1 DEF ChatTyped
  <2>3. FlaggedBefore' /\ PromiseIsFlagged'
    BY <1>c DEF FlaggedBefore, PromiseIsFlagged, C!PromiseIsFlagged, CallRecords
  <2> QED BY <1>same, <1>behind, <1>still, <2>2, <2>3
<1>10. ASSUME NEW c \in Calls, C!StoreSummary(c) PROVE ChatInv'
  <2> USE <1>10 DEF C!StoreSummary
  <2>1. ChatTyped'
    BY <1>c DEF ChatTyped
  <2>2. FlaggedBefore' /\ PromiseIsFlagged'
    BY DEF FlaggedBefore, PromiseIsFlagged, C!PromiseIsFlagged
  <2> DEFINE old == C!OldRows(summaries[c].rows)
  <2>3. Told \cup old \subseteq Told'
    BY <1>new
  <2>4. StoredFirst'
    BY <1>c, <2>3 DEF StoredFirst
  <2> QED BY <1>same, <2>1, <2>2, <2>3, <2>4
<1>11. ASSUME NEW c \in Calls, C!DeleteOldRows(c) PROVE ChatInv'
  <2> USE <1>11 DEF C!DeleteOldRows, C!MayDelete
  <2>1. ChatTyped'
    BY <1>c DEF ChatTyped, C!NoSummary
  <2>2. FlaggedBefore' /\ PromiseIsFlagged'
    BY DEF FlaggedBefore, PromiseIsFlagged, C!PromiseIsFlagged
  <2>3. C!OldRows(summaries[c].rows) \subseteq Told
    BY DEF StoredFirst
  <2>4. C!OldRows(summaries[c].rows) \cap C!Newest(1..last, KeepRecent) = {}
    BY <1>c, OldIsOld
  <2>5. OnlySummarisedGo'
    BY <1>still, <2>3, <2>4 DEF OnlySummarisedGo, C!OnlySummarisedGo, C!memory, Told
  <2>6. StoredFirst'
    BY <1>c, <1>still DEF StoredFirst, C!NoSummary
  <2> QED BY <2>1, <2>2, <2>5, <2>6
<1>12. ASSUME NEW c \in Calls, C!DropSummary(c) PROVE ChatInv'
  <2> USE <1>12 DEF C!DropSummary
  <2>1. ChatTyped'
    BY <1>c DEF ChatTyped, C!NoSummary
  <2>2. FlaggedBefore' /\ PromiseIsFlagged'
    BY DEF FlaggedBefore, PromiseIsFlagged, C!PromiseIsFlagged
  <2>3. StoredFirst'
    BY <1>c, <1>still DEF StoredFirst, C!NoSummary
  <2> QED BY <1>same, <1>still, <2>1, <2>2, <2>3
<1>13. CASE UNCHANGED cVars
  <2> USE <1>13 DEF cVars
  <2>1. ChatTyped' /\ FlaggedBefore' /\ PromiseIsFlagged'
    BY DEF ChatTyped, FlaggedBefore, PromiseIsFlagged, C!PromiseIsFlagged
  <2> QED BY <1>same, <1>behind, <1>still, <2>1 DEF C!memory
<1> QED BY <1>1, <1>2, <1>3, <1>4, <1>5, <1>6, <1>7, <1>8, <1>9, <1>10, <1>11, <1>12, <1>13 DEF C!Next

\* Summarisers of overlapping calls delete nothing that no stored summary was made for, and
\* never the newest rows.
THEOREM OnlySummarisedGoHolds == C!Spec => []OnlySummarisedGo
<1>1. [C!Next]_C!vars => [C!Next]_cVars
  BY DEF C!vars, cVars
<1> QED BY <1>1, ChatInit, ChatNext, PTL DEF C!Spec, ChatInv

\* A promise to hand over is flagged, whatever overlaps it.
THEOREM PromiseIsFlaggedHolds == C!Spec => []PromiseIsFlagged
<1>1. [C!Next]_C!vars => [C!Next]_cVars
  BY DEF C!vars, cVars
<1> QED BY <1>1, ChatInit, ChatNext, PTL DEF C!Spec, ChatInv

-----------------------------------------------------------------------------
(* Corrections: a run whose requests never met has one reviewer at most    *)
(* and one row, which says the last word or is about to be told.           *)

Lesson == [run : Runs, text : Texts, active : BOOLEAN]
WorkRecords == [step : {"idle"}] \cup [step : {"find"}, run : Runs, text : Texts]
           \cup [step : {"save", "mark"}, run : Runs, text : Texts, row : Nat]
           \cup [step : {"distil"}, of : SUBSET (Runs \X Texts)]

LessonsTyped ==
  /\ lessons \in Seq(Lesson)
  /\ work \in [Procs -> WorkRecords]
  /\ word \in [Runs -> Texts \cup {None, L!Muddled}]

Reviewing(p, r) == work[p].step \in {"find", "save", "mark"} /\ work[p].run = r

\* A row that was found is still there, and of the run it was looked up for.
FoundRowStays ==
  \A p \in Procs : work[p].step = "save" /\ work[p].row # 0 => work[p].row \in L!Rows(work[p].run)

\* Nobody disturbs the reviewer of a run whose requests never met ...
OneReviewer(r) == \A p, q \in Procs : Reviewing(p, r) /\ Reviewing(q, r) => p = q
\* ... so the run has one row, which the reviewer found if it was there ...
OneRow(r) == \A i, j \in L!Rows(r) : i = j
MissingRow(r) == \A p \in Procs : Reviewing(p, r) /\ work[p].step = "save" /\ work[p].row = 0 => L!Rows(r) = {}
\* ... and the row says what the reviewer was told last, or is about to be told.
WordIsKept(r) ==
  (\A p \in Procs : ~(Reviewing(p, r) /\ work[p].step = "mark")) =>
    /\ \A i \in L!Rows(r) : lessons[i].active => lessons[i].text = word[r]
    /\ word[r] # None => \E i \in L!Rows(r) : lessons[i].active
SavedIsActive(r) ==
  \A p \in Procs : Reviewing(p, r) /\ work[p].step = "mark" =>
    \E i \in L!Rows(r) : lessons[i].active /\ lessons[i].text = work[p].text

RunInv(r) == word[r] # L!Muddled => OneReviewer(r) /\ OneRow(r) /\ MissingRow(r) /\ WordIsKept(r) /\ SavedIsActive(r)

LessonsInv == LessonsTyped /\ FoundRowStays /\ \A r \in Runs : RunInv(r)

LEMMA LessonsInit == L!Init => LessonsInv
<1> SUFFICES ASSUME L!Init PROVE LessonsInv
  OBVIOUS
<1> USE DEF L!Init, L!Idle
<1>1. LessonsTyped
  BY DEF LessonsTyped, WorkRecords
<1>2. \A p \in Procs : work[p].step = "idle"
  OBVIOUS
<1>3. \A r \in Runs : L!Rows(r) = {} /\ word[r] = None
  BY DEF L!Rows
<1>4. FoundRowStays
  BY <1>2 DEF FoundRowStays
<1>5. \A r \in Runs : RunInv(r)
  BY <1>2, <1>3 DEF RunInv, OneReviewer, OneRow, MissingRow, WordIsKept, SavedIsActive, Reviewing
<1> QED BY <1>1, <1>4, <1>5 DEF LessonsInv

\* What is known of a run while nobody touches its rows, its word or its reviewers.
LEMMA RunUntouched ==
  ASSUME NEW r \in Runs, RunInv(r), word'[r] = word[r],
         L!Rows(r)' = L!Rows(r), \A i \in L!Rows(r) : lessons'[i] = lessons[i],
         \A p \in Procs : Reviewing(p, r)' => work'[p] = work[p]
         , \A p \in Procs : Reviewing(p, r) => work'[p] = work[p]
  PROVE  RunInv(r)'
<1> SUFFICES ASSUME word'[r] # L!Muddled
             PROVE  (OneReviewer(r) /\ OneRow(r) /\ MissingRow(r) /\ WordIsKept(r) /\ SavedIsActive(r))'
  BY DEF RunInv
<1>1. OneReviewer(r) /\ OneRow(r) /\ MissingRow(r) /\ WordIsKept(r) /\ SavedIsActive(r)
  BY DEF RunInv
<1>2. \A p \in Procs : Reviewing(p, r)' <=> Reviewing(p, r)
  BY DEF Reviewing
<1>3. OneReviewer(r)' /\ OneRow(r)'
  BY <1>1, <1>2 DEF OneReviewer, OneRow
<1>4. MissingRow(r)'
  BY <1>1, <1>2 DEF MissingRow
<1>5. WordIsKept(r)'
  BY <1>1, <1>2 DEF WordIsKept
<1>6. SavedIsActive(r)'
  BY <1>1, <1>2 DEF SavedIsActive
<1> QED BY <1>3, <1>4, <1>5, <1>6

\* A run whose requests have met is no longer answered for.
LEMMA MuddledRun ==
  ASSUME NEW r \in Runs, word'[r] = L!Muddled
  PROVE  RunInv(r)'
BY DEF RunInv

\* A row written over stays a row of its run.
LEMMA RowsAmended ==
  ASSUME lessons \in Seq(Lesson), NEW k \in 1..Len(lessons), NEW l \in Lesson, l.run = lessons[k].run,
         lessons' = [lessons EXCEPT ![k] = l]
  PROVE  /\ lessons' \in Seq(Lesson)
         /\ \A s : L!Rows(s)' = L!Rows(s)
         /\ \A i \in 1..Len(lessons) : lessons'[i] = IF i = k THEN l ELSE lessons[i]
<1>1. lessons' \in Seq(Lesson) /\ Len(lessons') = Len(lessons)
  OBVIOUS
<1>2. \A i \in 1..Len(lessons) : lessons'[i] = IF i = k THEN l ELSE lessons[i]
  OBVIOUS
<1> QED BY <1>1, <1>2 DEF L!Rows

\* A row appended is one more of its run.
LEMMA RowsAppended ==
  ASSUME lessons \in Seq(Lesson), NEW l \in Lesson, lessons' = Append(lessons, l)
  PROVE  /\ lessons' \in Seq(Lesson)
         /\ \A s : s # l.run => L!Rows(s)' = L!Rows(s)
         /\ L!Rows(l.run)' = L!Rows(l.run) \cup {Len(lessons) + 1}
         /\ lessons'[Len(lessons) + 1] = l
         /\ \A i \in 1..Len(lessons) : lessons'[i] = lessons[i]
<1>1. lessons' \in Seq(Lesson) /\ Len(lessons') = Len(lessons) + 1 /\ Len(lessons) \in Nat
  OBVIOUS
<1>2. lessons'[Len(lessons) + 1] = l /\ \A i \in 1..Len(lessons) : lessons'[i] = lessons[i]
  OBVIOUS
<1> QED BY <1>1, <1>2 DEF L!Rows

LEMMA LessonsNext == LessonsInv /\ [L!Next]_lVars => LessonsInv'
<1> SUFFICES ASSUME LessonsInv, [L!Next]_lVars PROVE LessonsInv'
  OBVIOUS
<1>t. /\ lessons \in Seq(Lesson) /\ work \in [Procs -> WorkRecords] /\ word \in [Runs -> Texts \cup {None, L!Muddled}]
      /\ Len(lessons) \in Nat
  BY DEF LessonsInv, LessonsTyped
<1>l. \A i \in 1..Len(lessons) : lessons[i] \in Lesson
  BY <1>t
<1>f. FoundRowStays
  BY DEF LessonsInv
<1>r. \A r \in Runs : RunInv(r)
  BY DEF LessonsInv
<1>none. None \notin Texts /\ None # L!Muddled /\ L!Muddled \notin Texts
  BY TenantAssumption DEF L!CorrectionsAssumption
\* A step of a process that is not reviewing, before it or after it.
<1>aside. ASSUME NEW p \in Procs, UNCHANGED <<lessons, word>>, work' \in [Procs -> WorkRecords],
                 work[p].step \in {"idle", "distil"}, work'[p].step \in {"idle", "distil"},
                 \A q \in Procs : q # p => work'[q] = work[q]
          PROVE  LessonsInv'
  <2>1. \A r \in Runs : L!Rows(r)' = L!Rows(r)
    BY <1>aside DEF L!Rows
  <2>2. \A q \in Procs, r \in Runs : (Reviewing(q, r) \/ Reviewing(q, r)') => work'[q] = work[q]
    BY <1>aside DEF Reviewing
  <2>3. FoundRowStays'
    BY <1>f, <1>aside, <2>1 DEF FoundRowStays, L!Rows
  <2>4. \A r \in Runs : RunInv(r)'
    BY <1>r, <1>aside, <2>1, <2>2, RunUntouched
  <2> QED BY <1>t, <1>aside, <2>3, <2>4 DEF LessonsInv, LessonsTyped
<1>1. ASSUME NEW p \in Procs, NEW r \in Runs, NEW t \in Texts, L!Correct(p, r, t) PROVE LessonsInv'
  <2> USE <1>1 DEF L!Correct, L!At, L!Met, L!Told
  <2>1. work' \in [Procs -> WorkRecords]
    BY <1>t DEF WorkRecords
  <2>2. word' \in [Runs -> Texts \cup {None, L!Muddled}]
    BY <1>t
  <2>3. LessonsTyped'
    BY <1>t, <2>1, <2>2 DEF LessonsTyped
  <2>4. \A s \in Runs : L!Rows(s)' = L!Rows(s)
    BY DEF L!Rows
  <2>5. work'[p].step = "find" /\ work'[p].run = r /\ \A q \in Procs : q # p => work'[q] = work[q]
    BY <1>t
  <2>6. FoundRowStays'
    BY <1>f, <2>4, <2>5 DEF FoundRowStays, L!Rows
  <2>7. ASSUME NEW s \in Runs, s # r PROVE RunInv(s)'
    <3>1. \A q \in Procs : (Reviewing(q, s) \/ Reviewing(q, s)') => work'[q] = work[q]
      BY <2>5, <2>7 DEF Reviewing
    <3>2. word'[s] = word[s]
      BY <1>t, <2>7
    <3> QED BY <1>r, <2>4, <3>1, <3>2, RunUntouched
  <2>8. CASE L!Reviewed(r)
    <3>1. word'[r] = L!Muddled
      BY <1>t, <2>8
    <3> QED BY <3>1, MuddledRun, <2>3, <2>6, <2>7 DEF LessonsInv
  <2>9. CASE ~L!Reviewed(r)
    <3>1. \A q \in Procs : ~Reviewing(q, r)
      BY <2>9 DEF L!Reviewed, Reviewing
    <3>2. word'[r] = word[r]
      BY <1>t, <2>9
    <3>3. \A q \in Procs : Reviewing(q, r)' => q = p
      BY <3>1, <2>5 DEF Reviewing
    <3>4. ASSUME word'[r] # L!Muddled
          PROVE  (OneReviewer(r) /\ OneRow(r) /\ MissingRow(r) /\ WordIsKept(r) /\ SavedIsActive(r))'
      <4>1. OneReviewer(r) /\ OneRow(r) /\ MissingRow(r) /\ WordIsKept(r) /\ SavedIsActive(r)
        BY <1>r, <3>2, <3>4 DEF RunInv
      <4>2. OneReviewer(r)'
        BY <3>3 DEF OneReviewer
      <4>3. OneRow(r)'
        BY <4>1, <2>4 DEF OneRow
      <4>4. MissingRow(r)' /\ SavedIsActive(r)'
        BY <3>3, <2>5 DEF MissingRow, SavedIsActive
      <4>5. WordIsKept(r)'
        BY <4>1, <3>1, <3>2, <2>4 DEF WordIsKept
      <4> QED BY <4>2, <4>3, <4>4, <4>5
    <3>5. RunInv(r)'
      BY <3>4 DEF RunInv
    <3> QED BY <3>5, <2>3, <2>6, <2>7 DEF LessonsInv
  <2> QED BY <2>8, <2>9
<1>2. ASSUME NEW p \in Procs, L!FindCorrection(p) PROVE LessonsInv'
  <2> USE <1>2 DEF L!FindCorrection, L!At
  <2>r. PICK r \in Runs : r = work[p].run
    BY <1>t DEF WorkRecords
  <2>0. work[p].step = "find" /\ work[p].run = r /\ work[p].text \in Texts
    BY <1>t, <2>r DEF WorkRecords
  <2>1. PICK i \in (IF L!Rows(r) = {} THEN {0} ELSE L!Rows(r)) :
          work' = [work EXCEPT ![p] = [step |-> "save", run |-> r, text |-> work[p].text, row |-> i]]
    BY <1>t, <2>r
  <2>2. i \in Nat /\ (i = 0 => L!Rows(r) = {}) /\ (i # 0 => i \in L!Rows(r))
    BY <2>1, <1>t DEF L!Rows
  <2>3. work' \in [Procs -> WorkRecords]
    <3>1. [step |-> "save", run |-> r, text |-> work[p].text, row |-> i] \in WorkRecords
      BY <2>0, <2>2 DEF WorkRecords
    <3> QED BY <1>t, <2>1, <3>1
  <2>4. LessonsTyped'
    BY <1>t, <2>3 DEF LessonsTyped
  <2>5. \A s \in Runs : L!Rows(s)' = L!Rows(s)
    BY DEF L!Rows
  <2>6. work'[p].step = "save" /\ work'[p].run = r /\ work'[p].row = i /\ \A q \in Procs : q # p => work'[q] = work[q]
    BY <1>t, <2>1
  <2>7. FoundRowStays'
    <3>1. \A s : L!Rows(s)' = L!Rows(s)
      BY DEF L!Rows
    <3>2. ASSUME NEW q \in Procs, work'[q].step = "save" /\ work'[q].row # 0 PROVE work'[q].row \in L!Rows(work[q].run)'
      <4>1. CASE q = p
        BY <4>1, <2>0, <2>2, <2>5, <2>6, <3>2
      <4>2. CASE q # p
        BY <4>2, <1>f, <2>6, <3>1, <3>2 DEF FoundRowStays
      <4> QED BY <4>1, <4>2
    <3> QED BY <3>2 DEF FoundRowStays
  <2>8. ASSUME NEW s \in Runs, s # r PROVE RunInv(s)'
    <3>1. \A q \in Procs : (Reviewing(q, s) \/ Reviewing(q, s)') => work'[q] = work[q]
      BY <2>6, <2>8 DEF Reviewing
    <3> QED BY <1>r, <2>5, <3>1, RunUntouched
  <2>9. RunInv(r)'
    <3> SUFFICES ASSUME word'[r] # L!Muddled
                 PROVE  (OneReviewer(r) /\ OneRow(r) /\ MissingRow(r) /\ WordIsKept(r) /\ SavedIsActive(r))'
      BY DEF RunInv
    <3>1. OneReviewer(r) /\ OneRow(r) /\ MissingRow(r) /\ WordIsKept(r) /\ SavedIsActive(r)
      BY <1>r, <2>0 DEF RunInv
    <3>2. \A q \in Procs : Reviewing(q, r)' <=> Reviewing(q, r)
      BY <2>0, <2>6 DEF Reviewing
    <3>3. \A q \in Procs : Reviewing(q, r) => q = p
      BY <2>0, <3>1 DEF OneReviewer, Reviewing
    <3>4. OneReviewer(r)' /\ OneRow(r)'
      BY <3>1, <3>2, <2>0, <2>5 DEF OneReviewer, OneRow
    <3>5. MissingRow(r)'
      BY <3>2, <3>3, <2>0, <2>2, <2>5, <2>6 DEF MissingRow
    <3>6. SavedIsActive(r)'
      BY <3>2, <3>3, <2>6 DEF SavedIsActive
    <3>7. \A q \in Procs : ~(Reviewing(q, r) /\ work[q].step = "mark")
      BY <3>3, <2>0
    <3>8. WordIsKept(r)'
      BY <3>1, <3>7, <2>0, <2>5 DEF WordIsKept
    <3> QED BY <3>4, <3>5, <3>6, <3>8
  <2> QED BY <2>0, <2>4, <2>7, <2>8, <2>9 DEF LessonsInv
<1>3. ASSUME NEW p \in Procs, L!SaveCorrection(p) PROVE LessonsInv'
  <2> USE <1>3 DEF L!SaveCorrection, L!At
  <2>r. PICK r \in Runs : r = work[p].run
    BY <1>t DEF WorkRecords
  <2>t. PICK t \in Texts : t = work[p].text
    BY <1>t DEF WorkRecords
  <2> DEFINE k == IF work[p].row # 0 THEN work[p].row ELSE Len(lessons) + 1
  <2>0. work[p].step = "save" /\ work[p].run = r /\ work[p].text = t /\ work[p].row \in Nat
    BY <1>t, <2>r, <2>t DEF WorkRecords
  <2>1. /\ lessons' \in Seq(Lesson)
        /\ \A s \in Runs : s # r => L!Rows(s)' = L!Rows(s)
        /\ L!Rows(r)' = L!Rows(r) \cup {k}
        /\ work[p].row # 0 => k \in L!Rows(r)
        /\ lessons'[k].active = TRUE /\ lessons'[k].text = t /\ lessons'[k].run = r
        /\ \A i \in 1..Len(lessons) : i # k => lessons'[i] = lessons[i]
    <3>1. CASE work[p].row # 0
      <4>1. k \in 1..Len(lessons) /\ lessons[k].run = r /\ k \in L!Rows(r)
        BY <3>1, <2>0, <1>f DEF FoundRowStays, L!Rows
      <4> DEFINE l == L!Amended(lessons[k], t)
      <4>2. lessons[k] \in Lesson
        BY <1>l, <4>1
      <4>3. l \in Lesson /\ l.run = lessons[k].run /\ l.active = TRUE /\ l.text = t
        BY <4>2, <2>0 DEF L!Amended, Lesson
      <4>4. lessons' = [lessons EXCEPT ![k] = l]
        BY <2>0, <3>1
      <4> HIDE DEF l
      <4>5. /\ lessons' \in Seq(Lesson)
            /\ \A s : L!Rows(s)' = L!Rows(s)
            /\ \A i \in 1..Len(lessons) : lessons'[i] = IF i = k THEN l ELSE lessons[i]
        BY <1>t, <4>1, <4>3, <4>4, RowsAmended
      <4> QED BY <4>1, <4>3, <4>5, <2>0
    <3>2. CASE work[p].row = 0
      <4> DEFINE l == L!NewLesson(r, t)
      <4>1. l \in Lesson /\ l.run = r /\ l.active = TRUE /\ l.text = t
        BY <2>0 DEF L!NewLesson, Lesson
      <4>2. lessons' = Append(lessons, l)
        BY <2>0, <3>2
      <4> HIDE DEF l
      <4>3. /\ lessons' \in Seq(Lesson)
            /\ \A s : s # l.run => L!Rows(s)' = L!Rows(s)
            /\ L!Rows(l.run)' = L!Rows(l.run) \cup {Len(lessons) + 1}
            /\ lessons'[Len(lessons) + 1] = l
            /\ \A i \in 1..Len(lessons) : lessons'[i] = lessons[i]
        BY <1>t, <4>1, <4>2, RowsAppended
      <4> QED BY <3>2, <4>1, <4>3
    <3> QED BY <3>1, <3>2
  <2> HIDE DEF k
  <2>2. work' \in [Procs -> WorkRecords]
    <3>1. [work[p] EXCEPT !.step = "mark"] \in WorkRecords
      BY <2>0, <1>t DEF WorkRecords
    <3> QED BY <1>t, <3>1
  <2>3. work'[p].step = "mark" /\ work'[p].run = r /\ work'[p].text = t /\ \A q \in Procs : q # p => work'[q] = work[q]
    <3>1. work[p] \in [step : {"save", "mark"}, run : Runs, text : Texts, row : Nat]
      BY <1>t, <2>0 DEF WorkRecords
    <3>2. work'[p] = [work[p] EXCEPT !.step = "mark"] /\ \A q \in Procs : q # p => work'[q] = work[q]
      BY <1>t
    <3> QED BY <2>0, <3>1, <3>2
  <2>4. LessonsTyped'
    BY <1>t, <2>1, <2>2 DEF LessonsTyped
  <2>5. FoundRowStays'
    <3> SUFFICES ASSUME NEW q \in Procs, work'[q].step = "save", work'[q].row # 0
                 PROVE  work'[q].row \in L!Rows(work[q].run)'
      BY DEF FoundRowStays
    <3>1. work'[q] = work[q] /\ work[q].run \in Runs
      BY <2>3, <1>t DEF WorkRecords
    <3>2. work[q].row \in L!Rows(work[q].run)
      BY <3>1, <1>f DEF FoundRowStays
    <3> QED BY <3>1, <3>2, <2>1
  <2>6. ASSUME NEW s \in Runs, s # r PROVE RunInv(s)'
    <3>1. \A q \in Procs : (Reviewing(q, s) \/ Reviewing(q, s)') => work'[q] = work[q]
      BY <2>3, <2>6 DEF Reviewing
    <3>2. \A i \in L!Rows(s) : lessons'[i] = lessons[i]
      <4> SUFFICES ASSUME NEW i \in L!Rows(s) PROVE lessons'[i] = lessons[i]
        OBVIOUS
      <4>1. i \in 1..Len(lessons) /\ i \in L!Rows(s)'
        BY <2>1, <2>6 DEF L!Rows
      <4>2. lessons'[i].run = s
        BY <4>1 DEF L!Rows
      <4> QED BY <4>1, <4>2, <2>1, <2>6
    <3> QED BY <1>r, <2>1, <2>6, <3>1, <3>2, RunUntouched
  <2>7. RunInv(r)'
    <3> SUFFICES ASSUME word'[r] # L!Muddled
                 PROVE  (OneReviewer(r) /\ OneRow(r) /\ MissingRow(r) /\ WordIsKept(r) /\ SavedIsActive(r))'
      BY DEF RunInv
    <3>1. OneReviewer(r) /\ OneRow(r) /\ MissingRow(r)
      BY <1>r, <2>0 DEF RunInv
    <3>2. \A q \in Procs : Reviewing(q, r)' <=> Reviewing(q, r)
      BY <2>0, <2>3 DEF Reviewing
    <3>3. Reviewing(p, r) /\ \A q \in Procs : Reviewing(q, r) => q = p
      BY <2>0, <3>1 DEF OneReviewer, Reviewing
    <3>4. OneReviewer(r)'
      BY <3>2, <3>3 DEF OneReviewer
    <3>5. OneRow(r)'
      <4>1. work[p].row = 0 => L!Rows(r) = {}
        BY <3>1, <3>3, <2>0 DEF MissingRow
      <4> QED BY <4>1, <3>1, <2>1 DEF OneRow
    <3>6. MissingRow(r)'
      BY <3>2, <3>3, <2>3 DEF MissingRow
    <3>7. SavedIsActive(r)'
      BY ZenonT(30), <3>2, <3>3, <2>1, <2>3 DEF SavedIsActive
    <3>8. WordIsKept(r)'
      BY <3>2, <3>3, <2>3 DEF WordIsKept
    <3> QED BY <3>4, <3>5, <3>6, <3>7, <3>8
  <2> QED BY <2>0, <2>4, <2>5, <2>6, <2>7 DEF LessonsInv
\* What a reviewer leaves behind when the request is over: its rows, and a word.
<1>over. ASSUME NEW p \in Procs, work[p].step \in {"save", "mark"}, UNCHANGED lessons,
                work' = [work EXCEPT ![p] = L!Idle], NEW v \in Texts \cup {None, L!Muddled},
                word' = [word EXCEPT ![work[p].run] = IF @ = L!Muddled THEN @ ELSE v],
                v = L!Muddled \/ (work[p].step = "mark" /\ v = work[p].text)
         PROVE  LessonsInv'
  <2>r. PICK r \in Runs : r = work[p].run
    BY <1>t, <1>over DEF WorkRecords
  <2>0. work[p].run = r /\ work[p].text \in Texts
    BY <1>t, <1>over, <2>r DEF WorkRecords
  <2>1. work' \in [Procs -> WorkRecords] /\ word' \in [Runs -> Texts \cup {None, L!Muddled}]
    BY <1>t, <1>over, <2>0 DEF WorkRecords, L!Idle
  <2>2. LessonsTyped'
    BY <1>t, <1>over, <2>1 DEF LessonsTyped
  <2>3. work'[p].step = "idle" /\ \A q \in Procs : q # p => work'[q] = work[q]
    BY <1>t, <1>over DEF L!Idle
  <2>4. \A s : L!Rows(s)' = L!Rows(s)
    BY <1>over DEF L!Rows
  <2>5. FoundRowStays'
    BY <1>f, <2>3, <2>4 DEF FoundRowStays
  <2>6. ASSUME NEW s \in Runs, s # r PROVE RunInv(s)'
    <3>1. \A q \in Procs : (Reviewing(q, s) \/ Reviewing(q, s)') => work'[q] = work[q]
      BY <2>0, <2>3, <2>6 DEF Reviewing
    <3>2. word'[s] = word[s]
      BY <2>0, <1>t, <1>over, <2>6
    <3> QED BY <1>r, <1>over, <2>4, <3>1, <3>2, RunUntouched
  <2>7. RunInv(r)'
    <3> SUFFICES ASSUME word'[r] # L!Muddled
                 PROVE  (OneReviewer(r) /\ OneRow(r) /\ MissingRow(r) /\ WordIsKept(r) /\ SavedIsActive(r))'
      BY DEF RunInv
    <3>0. word[r] # L!Muddled /\ word'[r] = v /\ v # L!Muddled
      BY <1>t, <1>over, <2>0
    <3>1. OneReviewer(r) /\ OneRow(r) /\ SavedIsActive(r) /\ work[p].step = "mark" /\ v = work[p].text
      BY <1>r, <1>over, <2>0, <3>0 DEF RunInv
    <3>2. Reviewing(p, r) /\ \A q \in Procs : ~Reviewing(q, r)'
      BY <2>0, <2>3, <3>1 DEF OneReviewer, Reviewing
    <3>3. \E i \in L!Rows(r) : lessons[i].active /\ lessons[i].text = v
      BY <3>1, <3>2 DEF SavedIsActive
    <3>4. WordIsKept(r)'
      BY <3>0, <3>1, <3>3, <2>4, <1>over DEF WordIsKept, OneRow
    <3> QED BY <3>1, <3>2, <3>4, <2>4 DEF OneReviewer, OneRow, MissingRow, SavedIsActive
  <2> QED BY <2>0, <2>2, <2>5, <2>6, <2>7 DEF LessonsInv
<1>4. ASSUME NEW p \in Procs, L!MarkCorrected(p) PROVE LessonsInv'
  <2>1. work[p].step = "mark" /\ work[p].text \in Texts
    BY <1>4, <1>t DEF L!MarkCorrected, L!At, WorkRecords
  <2> QED BY <1>4, <1>over, <2>1 DEF L!MarkCorrected, L!Told
<1>5. ASSUME NEW p \in Procs, L!Interrupt(p) PROVE LessonsInv'
  BY <1>5, <1>over DEF L!Interrupt, L!Told
<1>6. ASSUME NEW i \in 1..Len(lessons), L!Deactivate(i) PROVE LessonsInv'
  <2> USE <1>6 DEF L!Deactivate, L!Met, L!Told
  <2>r. PICK r \in Runs : r = lessons[i].run
    BY <1>l DEF Lesson
  <2> DEFINE l == [lessons[i] EXCEPT !.active = FALSE]
  <2>0. lessons[i].run = r /\ l \in Lesson /\ l.run = r /\ l.active = FALSE
    BY <1>l, <2>r DEF Lesson
  <2>1. /\ lessons' \in Seq(Lesson) /\ \A s : L!Rows(s)' = L!Rows(s)
        /\ \A j \in 1..Len(lessons) : lessons'[j] = IF j = i THEN l ELSE lessons[j]
    <3>1. lessons' = [lessons EXCEPT ![i] = l]
      OBVIOUS
    <3> HIDE DEF l
    <3>2. i \in 1..Len(lessons) /\ l.run = lessons[i].run
      BY <2>0
    <3> QED BY <1>t, <2>0, <3>1, <3>2, RowsAmended
  <2>2. word' = [word EXCEPT ![r] = IF @ = L!Muddled THEN @ ELSE IF L!Reviewed(r) THEN L!Muddled ELSE None]
    BY <2>r
  <2>3. word' \in [Runs -> Texts \cup {None, L!Muddled}]
    BY <1>t, <2>2
  <2>4. LessonsTyped'
    BY <1>t, <2>1, <2>3 DEF LessonsTyped
  <2>5. FoundRowStays'
    BY <1>f, <2>1 DEF FoundRowStays
  <2>6. ASSUME NEW s \in Runs, s # r PROVE RunInv(s)'
    <3>1. word'[s] = word[s]
      BY <1>t, <2>6, <2>2
    <3>2. \A j \in L!Rows(s) : lessons'[j] = lessons[j]
      BY <2>0, <2>1, <2>6 DEF L!Rows
    <3> QED BY <1>r, <2>1, <3>1, <3>2, RunUntouched
  <2>7. CASE word'[r] = L!Muddled
    BY <2>0, <2>4, <2>5, <2>6, <2>7, MuddledRun DEF LessonsInv
  <2>8. CASE word'[r] # L!Muddled
    <3>0. word[r] # L!Muddled /\ ~L!Reviewed(r) /\ word'[r] = None
      BY <1>t, <2>0, <2>2, <2>8
    <3>1. \A q \in Procs : ~Reviewing(q, r) /\ ~Reviewing(q, r)'
      BY <3>0 DEF L!Reviewed, Reviewing
    <3>2. OneRow(r)
      BY <1>r, <2>0, <3>0 DEF RunInv
    <3>3. i \in L!Rows(r) /\ \A j \in L!Rows(r) : j = i
      BY <2>0, <3>2 DEF L!Rows, OneRow
    <3>4. ~lessons'[i].active
      BY <2>0, <2>1
    <3>5. OneRow(r)'
      BY <3>2, <2>1 DEF OneRow
    <3>6. \A j \in L!Rows(r)' : ~lessons'[j].active
      BY <3>3, <3>4, <2>1
    <3>7. WordIsKept(r)'
      BY <3>0, <3>6 DEF WordIsKept
    <3>8. RunInv(r)'
      BY <3>1, <3>5, <3>7 DEF RunInv, OneReviewer, MissingRow, SavedIsActive
    <3> QED BY <2>4, <2>5, <2>6, <3>8 DEF LessonsInv
  <2> QED BY <2>7, <2>8
<1>7. ASSUME NEW r \in Runs, NEW t \in Texts, L!ThumbsDown(r, t) PROVE LessonsInv'
  <2> USE <1>7 DEF L!ThumbsDown, L!Told
  <2> DEFINE l == L!NewLesson(r, t)
  <2>0. l \in Lesson /\ l.run = r
    BY DEF L!NewLesson, Lesson
  <2>1. /\ lessons' \in Seq(Lesson)
        /\ \A s : s # r => L!Rows(s)' = L!Rows(s)
        /\ L!Rows(r)' = L!Rows(r) \cup {Len(lessons) + 1}
        /\ \A i \in 1..Len(lessons) : lessons'[i] = lessons[i]
    <3>1. lessons' = Append(lessons, l)
      OBVIOUS
    <3> HIDE DEF l
    <3> QED BY <1>t, <2>0, <3>1, RowsAppended
  <2>2. word' \in [Runs -> Texts \cup {None, L!Muddled}] /\ word'[r] = L!Muddled
        /\ \A s \in Runs : s # r => word'[s] = word[s]
    BY <1>t
  <2>3. LessonsTyped'
    BY <1>t, <2>1, <2>2 DEF LessonsTyped
  <2>4. FoundRowStays'
    <3>1. \A s : L!Rows(s) \subseteq L!Rows(s)'
      BY <2>1
    <3> QED BY <1>f, <3>1 DEF FoundRowStays
  <2>5. ASSUME NEW s \in Runs, s # r PROVE RunInv(s)'
    <3>1. \A j \in L!Rows(s) : lessons'[j] = lessons[j]
      BY <2>1 DEF L!Rows
    <3> QED BY <1>r, <2>1, <2>2, <2>5, <3>1, RunUntouched
  <2>6. RunInv(r)'
    BY <2>2, MuddledRun
  <2> QED BY <2>3, <2>4, <2>5, <2>6 DEF LessonsInv
<1>8. ASSUME NEW p \in Procs, L!BeginDistil(p) PROVE LessonsInv'
  <2>1. L!Said(L!Active) \subseteq Runs \X Texts
    BY <1>l DEF L!Said, L!Active, Lesson
  <2>2. [step |-> "distil", of |-> L!Said(L!Active)] \in WorkRecords
    BY <2>1 DEF WorkRecords
  <2>3. work' \in [Procs -> WorkRecords] /\ work'[p].step = "distil"
    BY <1>8, <1>t, <2>2 DEF L!BeginDistil
  <2>4. work[p].step = "idle" /\ UNCHANGED <<lessons, word>>
    BY <1>8 DEF L!BeginDistil, L!At
  <2>5. \A q \in Procs : q # p => work'[q] = work[q]
    BY <1>8, <1>t DEF L!BeginDistil
  <2> QED BY <1>aside, <2>3, <2>4, <2>5
<1>9. ASSUME NEW p \in Procs, L!StoreRules(p) \/ L!GiveUp(p) PROVE LessonsInv'
  <2>1. work' = [work EXCEPT ![p] = [step |-> "idle"]] /\ UNCHANGED <<lessons, word>> /\ work[p].step = "distil"
    BY <1>9 DEF L!StoreRules, L!GiveUp, L!At, L!Idle
  <2>2. work' \in [Procs -> WorkRecords] /\ work'[p].step = "idle"
    BY <1>t, <2>1 DEF WorkRecords
  <2>3. \A q \in Procs : q # p => work'[q] = work[q]
    BY <1>t, <2>1
  <2> QED BY <1>aside, <2>1, <2>2, <2>3
<1>10. CASE L!SaveSettings \/ UNCHANGED lVars
  <2>1. UNCHANGED <<lessons, work, word>>
    BY <1>10 DEF L!SaveSettings, lVars
  <2>2. \A s : L!Rows(s)' = L!Rows(s)
    BY <2>1 DEF L!Rows
  <2>3. \A s \in Runs : RunInv(s)'
    BY <2>1, <2>2, <1>r, RunUntouched
  <2> QED BY <2>1, <2>2, <2>3, <1>t, <1>f DEF LessonsInv, LessonsTyped, FoundRowStays
<1> QED BY <1>1, <1>2, <1>3, <1>4, <1>5, <1>6, <1>7, <1>8, <1>9, <1>10 DEF L!Next

\* The prompt of a run whose requests never met teaches its last word, and nothing else.
LEMMA KeptIsTaught ==
  ASSUME LessonsInv, NEW r \in Runs, word[r] # L!Muddled, ~L!Reviewed(r)
  PROVE  LET taught == {l \in L!Prompt : l[1] = r} IN
         /\ taught \subseteq {<<r, word[r]>>}
         /\ (word[r] # None /\ L!Cardinality(L!Active) <= Limit) => taught # {}
<1> DEFINE taught == {l \in L!Prompt : l[1] = r}
<1>0. \A p \in Procs : ~Reviewing(p, r)
  BY DEF L!Reviewed, Reviewing
<1>1. WordIsKept(r) /\ Len(lessons) \in Nat
  BY DEF LessonsInv, RunInv, LessonsTyped
<1>2. L!Prompt = L!Said(L!Examples)
  BY DEF L!Prompt, L!DistilledRules, L!Parses
<1>3. taught \subseteq {<<r, word[r]>>}
  <2> SUFFICES ASSUME NEW l \in taught PROVE l = <<r, word[r]>>
    OBVIOUS
  <2>1. PICK i \in L!Examples : l = <<lessons[i].run, lessons[i].text>>
    BY <1>2 DEF L!Said
  <2>2. lessons[i].run = r /\ lessons[i].active /\ i \in L!Rows(r)
    BY <2>1 DEF L!Examples, L!Active, L!Rows
  <2> QED BY <2>1, <2>2, <1>0, <1>1 DEF WordIsKept
<1>4. ASSUME word[r] # None, L!Cardinality(L!Active) <= Limit PROVE taught # {}
  <2>1. PICK i \in L!Rows(r) : lessons[i].active
    BY <1>0, <1>1, <1>4 DEF WordIsKept
  <2> DEFINE later == {j \in L!Active : j > i}
  <2>2. i \in L!Active /\ i \notin later /\ later \subseteq L!Active /\ L!Active \subseteq 1..Len(lessons)
    BY <2>1 DEF L!Active, L!Rows
  <2>3. IsFiniteSet(L!Active)
    <3>1. IsFiniteSet(1..Len(lessons))
      BY <1>1, FS_Interval
    <3> QED BY <2>2, <3>1, FS_Subset
  <2>4. Cardinality(later) < Cardinality(L!Active) /\ Cardinality(later) \in Nat /\ Cardinality(L!Active) \in Nat
    BY <2>2, <2>3, FS_Subset, FS_CardinalityType
  <2>5. Limit \in Nat
    BY TenantAssumption DEF L!CorrectionsAssumption
  <2>6. L!Cardinality(L!Active) = Cardinality(L!Active) /\ L!Cardinality(later) = Cardinality(later)
    BY DEF L!Cardinality, Cardinality
  <2>7. i \in L!Examples
    BY <1>4, <2>2, <2>4, <2>5, <2>6 DEF L!Examples
  <2>8. <<lessons[i].run, lessons[i].text>> \in taught
    BY <2>1, <2>7, <1>2 DEF L!Said, L!Rows
  <2> QED BY <2>8
<1> QED BY <1>3, <1>4

\* Overlapping corrections, withdrawals and distillations of other runs do not
\* change what the prompt teaches of a run whose requests never met.
THEOREM LastWordIsTaughtHolds == L!Spec => []LastWordIsTaught
<1>1. [L!Next]_L!vars => [L!Next]_lVars
  BY DEF L!vars, lVars
<1>2. LessonsInv => LastWordIsTaught
  BY KeptIsTaught DEF LastWordIsTaught, L!LastWordIsTaught
<1> QED BY <1>1, <1>2, LessonsInit, LessonsNext, PTL DEF L!Spec

-----------------------------------------------------------------------------
(* Knowledge: a request on an undisturbed source is alone there, so the    *)
(* rows it has read are those there are when it writes, one per chunk.     *)

Chunks == {Edited, None} \cup UNION {{page[i] : i \in DOMAIN page} : page \in Pages}
Doc == [id : Nat, source : Nat, url : Urls \cup {None}, index : Nat, body : Chunks, hash : Chunks]
Stages == {"idle", "insert", "mark", "list", "page", "read", "write", "count", "complete", "add", "bump"}
ReqFields == {"kind", "source", "todo", "urls", "url", "page", "seen", "got", "shot", "count"}

SourcesTyped ==
  /\ \A r \in sources : {"id", "kind", "status", "count"} \subseteq DOMAIN r /\ r.id \in 1..made
  /\ \A r, t \in sources : r.id = t.id => r = t

DocsTyped ==
  /\ docs \subseteq Doc
  /\ \A d \in docs : d.id <= docIds /\ K!There(d.source)
  /\ \A d, e \in docs : d.id = e.id => d = e

SyncTyped ==
  /\ site \in [Urls -> Pages] /\ docIds \in Nat /\ made \in Nat
  /\ stage \in [Procs -> Stages] /\ DOMAIN sync = Procs
  /\ SourcesTyped /\ DocsTyped

\* What a request carries at each of its stages.
Begins(p) ==
  /\ ReqFields \subseteq DOMAIN sync[p]
  /\ stage[p] = "idle" => sync[p] = K!Idle
  /\ stage[p] = "insert" => sync[p].source = 0
  /\ stage[p] \notin {"idle", "insert"} =>
       sync[p].source \in 1..made /\ \A r \in sources : r.id = sync[p].source => r.kind = sync[p].kind
  /\ stage[p] \in {"add", "bump"} => sync[p].kind = "manual"
  /\ stage[p] \in {"mark", "list", "page", "read", "write", "count", "complete"} => sync[p].kind # "manual"
  /\ stage[p] \in {"insert", "mark", "list"} => sync[p].todo = {} /\ sync[p].urls = {} /\ sync[p].url = None
  /\ stage[p] \in {"insert", "mark", "list", "add", "bump", "complete"} => sync[p].got = {}

Pagewise(p) ==
  /\ sync[p].got \subseteq (Urls \cup {None}) \X Pages
  /\ stage[p] \in {"page", "read", "write"} =>
       /\ sync[p].todo \subseteq sync[p].urls /\ sync[p].urls \subseteq Urls
       /\ sync[p].kind = "products" => sync[p].shot \in [Urls -> Pages]
       /\ \A g \in sync[p].got : g[1] \notin sync[p].todo /\ (sync[p].kind = "sitemap" => g[1] \in sync[p].urls)
  /\ stage[p] \in {"read", "write"} =>
       /\ sync[p].url \in Urls \cup {None} /\ sync[p].page \in Pages
       /\ sync[p].url \notin sync[p].todo /\ (sync[p].kind = "sitemap" => sync[p].url \in sync[p].urls)
       /\ \A g \in sync[p].got : g[1] # sync[p].url

\* The rows a request has read may have changed their text since, and nothing else.
ReadRows(p) ==
  stage[p] = "write" =>
    /\ sync[p].seen \subseteq Doc
    /\ \A d \in sync[p].seen :
         d.id <= docIds /\ \A e \in docs : d.id = e.id => e.source = sync[p].source /\ e.index = d.index

Carries(p) == Begins(p) /\ Pagewise(p) /\ ReadRows(p)

\* A synced source that neither two requests nor a hand have worked on.
Clean(s) == s \notin messy /\ \E r \in sources : r.id = s /\ r.kind # "manual"

CleanDocs(s) ==
  Clean(s) =>
    /\ \A d, e \in K!OfSource(s) : d.url = e.url /\ d.index = e.index => d = e
    /\ \A d \in K!OfSource(s) : d.body = d.hash /\ d.index # 0

\* The documents of a page are its chunks.
Holds(s, u, page) ==
  /\ \A d \in K!OfSource(s) : d.url = u => d.index \in DOMAIN page /\ d.body = page[d.index]
  /\ \A j \in DOMAIN page : \E d \in K!OfSource(s) : d.url = u /\ d.index = j

Works(p, s) == stage[p] \notin {"idle", "insert"} /\ sync[p].source = s

Alone(p, s) == \A q \in Procs : q # p /\ stage[q] # "idle" => sync[q].source # s

Undisturbed(p, s) ==
  /\ stage[p] = "write" => sync[p].seen = {d \in K!OfSource(s) : d.url = sync[p].url}
  /\ \A g \in sync[p].got : Holds(s, g[1], g[2])
  /\ (stage[p] = "count" /\ sync[p].kind = "sitemap" /\ sync[p].urls # {}) =>
       \A d \in K!OfSource(s) : d.url \in sync[p].urls

WorkKept(p, s) == Works(p, s) /\ Clean(s) => Alone(p, s) /\ Undisturbed(p, s)

SyncInv ==
  /\ SyncTyped
  /\ \A p \in Procs : Carries(p)
  /\ \A s \in Nat : CleanDocs(s)
  /\ \A p \in Procs, s \in Nat : WorkKept(p, s)

LEMMA SyncInit == K!Init => SyncInv
<1> SUFFICES ASSUME K!Init PROVE SyncInv
  OBVIOUS
<1> USE DEF K!Init, K!Idle
<1>1. SyncTyped
  BY DEF SyncTyped, SourcesTyped, DocsTyped, Stages
<1>2. \A p \in Procs : stage[p] = "idle" /\ sync[p] = K!Idle
  OBVIOUS
<1>3. \A p \in Procs : Carries(p)
  BY <1>2 DEF Carries, Begins, Pagewise, ReadRows, ReqFields
<1>4. \A s \in Nat : CleanDocs(s)
  BY DEF CleanDocs, Clean
<1>5. \A p \in Procs, s \in Nat : WorkKept(p, s)
  BY <1>2 DEF WorkKept, Works
<1> QED BY <1>1, <1>3, <1>4, <1>5 DEF SyncInv

SameSources == \A t, k : (\E r \in sources' : r.id = t /\ r.kind = k) <=> (\E r \in sources : r.id = t /\ r.kind = k)
RowsFrom(S) == \A e \in S : e.id > docIds \/ \E d \in docs : d.id = e.id /\ d.source = e.source /\ d.index = e.index

\* What a request carries is not touched by another.
LEMMA CarriesOn ==
  ASSUME SyncTyped, NEW q \in Procs, Carries(q), stage'[q] = stage[q], sync'[q] = sync[q],
         made' \in Nat, made' >= made, docIds' \in Nat, docIds' >= docIds, RowsFrom(docs'),
         \A r \in sources' : r.id \in 1..made => \E t \in sources : t.id = r.id /\ t.kind = r.kind
  PROVE  Carries(q)'
<1>1. made \in Nat /\ docIds \in Nat
  BY DEF SyncTyped
<1>2. Begins(q)'
  BY <1>1 DEF Carries, Begins
<1>3. Pagewise(q)'
  BY DEF Carries, Pagewise
<1>4. ReadRows(q)'
  <2> SUFFICES ASSUME stage[q] = "write"
               PROVE  /\ sync[q].seen \subseteq Doc
                      /\ \A d \in sync[q].seen :
                           d.id <= docIds' /\ \A e \in docs' : d.id = e.id => e.source = sync[q].source /\ e.index = d.index
    BY DEF ReadRows
  <2>1. /\ sync[q].seen \subseteq Doc
        /\ \A d \in sync[q].seen :
             d.id <= docIds /\ \A e \in docs : d.id = e.id => e.source = sync[q].source /\ e.index = d.index
    BY DEF Carries, ReadRows
  <2>2. ASSUME NEW d \in sync[q].seen, NEW e \in docs', d.id = e.id PROVE e.source = sync[q].source /\ e.index = d.index
    <3>1. d.id \in Nat /\ d.id <= docIds
      BY <2>1 DEF Doc
    <3>2. PICK c \in docs : c.id = e.id /\ c.source = e.source /\ c.index = e.index
      BY <1>1, <2>2, <3>1 DEF RowsFrom
    <3> QED BY <2>1, <2>2, <3>2
  <2>3. ASSUME NEW d \in sync[q].seen PROVE d.id <= docIds'
    BY <1>1, <2>1 DEF Doc
  <2> QED BY <2>1, <2>2, <2>3
<1> QED BY <1>2, <1>3, <1>4 DEF Carries

\* A step of a request that works on a source and leaves every other alone.
LEMMA OneMoves ==
  ASSUME SyncInv, NEW p \in Procs, NEW s \in Nat, Works(p, s), SyncTyped', Carries(p)',
         \A q \in Procs : q # p => stage'[q] = stage[q] /\ sync'[q] = sync[q],
         stage'[p] = "idle" \/ Works(p, s)',
         messy' = messy, made' = made, SameSources, docIds' >= docIds, RowsFrom(docs'),
         \A t : t # s => K!OfSource(t)' = K!OfSource(t),
         CleanDocs(s)',
         (Clean(s) /\ Alone(p, s) /\ Undisturbed(p, s) /\ stage'[p] # "idle") => Undisturbed(p, s)'
  PROVE  SyncInv'
<1>1. SyncTyped /\ made \in Nat /\ docIds' \in Nat
  BY DEF SyncInv, SyncTyped
<1>2. \A t : Clean(t)' <=> Clean(t)
  <2>1. ASSUME NEW t, NEW r \in sources, r.id = t /\ r.kind # "manual" PROVE \E c \in sources' : c.id = t /\ c.kind # "manual"
    <3>1. \E c \in sources' : c.id = t /\ c.kind = r.kind
      BY <2>1 DEF SameSources
    <3> QED BY <2>1, <3>1
  <2>2. ASSUME NEW t, NEW r \in sources', r.id = t /\ r.kind # "manual" PROVE \E c \in sources : c.id = t /\ c.kind # "manual"
    <3>1. \E c \in sources : c.id = t /\ c.kind = r.kind
      BY <2>2 DEF SameSources
    <3> QED BY <2>2, <3>1
  <2> QED BY <2>1, <2>2 DEF Clean
<1>3. ASSUME NEW q \in Procs PROVE Carries(q)'
  <2>1. \A r \in sources' : r.id \in 1..made => \E t \in sources : t.id = r.id /\ t.kind = r.kind
    BY DEF SameSources
  <2>2. CASE q # p
    <3>1. Carries(q) /\ stage'[q] = stage[q] /\ sync'[q] = sync[q] /\ made' >= made /\ made' \in Nat
      BY <1>1, <2>2 DEF SyncInv
    <3> QED BY <1>1, <2>1, <3>1, CarriesOn
  <2> QED BY <2>2
<1>4. ASSUME NEW t \in Nat PROVE CleanDocs(t)'
  <2>1. CASE t # s
    BY <1>2, <2>1 DEF SyncInv, CleanDocs
  <2> QED BY <2>1
<1>5. ASSUME NEW q \in Procs, NEW t \in Nat, Works(q, t)', Clean(t)' PROVE Alone(q, t)' /\ Undisturbed(q, t)'
  <2>0. Clean(t)
    BY <1>2, <1>5
  <2>1. CASE q = p
    <3>1. t = s /\ stage'[p] # "idle"
      BY <1>5, <2>1 DEF Works
    <3>2. Alone(p, s) /\ Undisturbed(p, s)
      BY <2>0, <3>1 DEF SyncInv, WorkKept
    <3>3. Alone(p, s)'
      BY <3>2 DEF Alone
    <3> QED BY <2>0, <2>1, <3>1, <3>2, <3>3
  <2>2. CASE q # p
    <3>1. Works(q, t) /\ stage'[q] = stage[q] /\ sync'[q] = sync[q]
      BY <1>5, <2>2 DEF Works
    <3>2. Alone(q, t) /\ Undisturbed(q, t)
      BY <2>0, <3>1 DEF SyncInv, WorkKept
    <3>3. t # s
      BY <2>2, <3>2 DEF Alone, Works
    <3>4. Alone(q, t)'
      <4> SUFFICES ASSUME NEW x \in Procs, x # q, stage'[x] # "idle" PROVE sync'[x].source # t
        BY DEF Alone
      <4>1. CASE x = p
        BY <3>3, <4>1 DEF Works
      <4>2. CASE x # p
        BY <3>2, <4>2 DEF Alone
      <4> QED BY <4>1, <4>2
    <3>5. K!OfSource(t)' = K!OfSource(t)
      BY <3>3
    <3>6. \A u, g : Holds(t, u, g)' <=> Holds(t, u, g)
      BY <3>5 DEF Holds
    <3>7. Undisturbed(q, t)'
      BY <3>1, <3>2, <3>5, <3>6 DEF Undisturbed
    <3> QED BY <3>4, <3>7
  <2> QED BY <2>1, <2>2
<1> QED BY <1>3, <1>4, <1>5 DEF SyncInv, WorkKept

\* A step of a request that works on a source and touches no document.
LEMMA OneWorks ==
  ASSUME SyncInv, NEW p \in Procs, NEW s \in Nat, Works(p, s),
         UNCHANGED <<site, docs, docIds, made, messy>>, SourcesTyped', SameSources,
         stage' \in [Procs -> Stages], DOMAIN sync' = Procs, Carries(p)',
         \A q \in Procs : q # p => stage'[q] = stage[q] /\ sync'[q] = sync[q],
         stage'[p] = "idle" \/ Works(p, s)',
         (Clean(s) /\ Alone(p, s) /\ Undisturbed(p, s) /\ stage'[p] # "idle") => Undisturbed(p, s)'
  PROVE  SyncInv'
<1>1. SyncTyped /\ docIds \in Nat /\ DocsTyped
  BY DEF SyncInv, SyncTyped
<1>2. \A t : K!OfSource(t)' = K!OfSource(t)
  BY DEF K!OfSource
<1>3. \A t : K!There(t)' <=> K!There(t)
  <2>1. ASSUME NEW t, NEW r \in sources, r.id = t PROVE \E c \in sources' : c.id = t
    <3>1. \E c \in sources' : c.id = t /\ c.kind = r.kind
      BY <2>1 DEF SameSources
    <3> QED BY <3>1
  <2>2. ASSUME NEW t, NEW r \in sources', r.id = t PROVE \E c \in sources : c.id = t
    <3>1. \E c \in sources : c.id = t /\ c.kind = r.kind
      BY <2>2 DEF SameSources
    <3> QED BY <3>1
  <2> QED BY <2>1, <2>2 DEF K!There
<1>4. DocsTyped'
  BY <1>1, <1>3 DEF DocsTyped
<1>5. SyncTyped'
  BY <1>1, <1>4 DEF SyncTyped
<1>6. docIds' >= docIds /\ RowsFrom(docs')
  BY <1>1 DEF RowsFrom
<1>7. Clean(s)' => Clean(s)
  <2> SUFFICES ASSUME NEW r \in sources', r.id = s, r.kind # "manual" PROVE \E c \in sources : c.id = s /\ c.kind # "manual"
    BY DEF Clean
  <2>1. \E c \in sources : c.id = s /\ c.kind = r.kind
    BY DEF SameSources
  <2> QED BY <2>1
<1>8. CleanDocs(s)'
  BY <1>2, <1>7 DEF SyncInv, CleanDocs
<1> QED BY <1>2, <1>5, <1>6, <1>8, OneMoves

\* A status or a count written leaves the sources what they are.
LEMMA Relabelled ==
  ASSUME SourcesTyped, made' = made, NEW f, sources' = {f[r] : r \in sources},
         \A r \in sources : f[r].id = r.id /\ f[r].kind = r.kind /\ {"id", "kind", "status", "count"} \subseteq DOMAIN f[r]
  PROVE  SourcesTyped' /\ SameSources
<1>1. SourcesTyped'
  BY DEF SourcesTyped
<1>2. SameSources
  <2>1. \A r \in sources : f[r] \in sources'
    OBVIOUS
  <2> QED BY <2>1 DEF SameSources
<1> QED BY <1>1, <1>2

\* A request that is over carries nothing.
LEMMA Finishes ==
  ASSUME SyncTyped, NEW p \in Procs, K!Finish(p)
  PROVE  /\ stage' \in [Procs -> Stages] /\ DOMAIN sync' = Procs /\ Carries(p)' /\ stage'[p] = "idle"
         /\ \A q \in Procs : q # p => stage'[q] = stage[q] /\ sync'[q] = sync[q]
<1>1. stage \in [Procs -> Stages] /\ DOMAIN sync = Procs
  BY DEF SyncTyped
<1>2. /\ stage' \in [Procs -> Stages] /\ DOMAIN sync' = Procs /\ stage'[p] = "idle" /\ sync'[p] = K!Idle
      /\ \A q \in Procs : q # p => stage'[q] = stage[q] /\ sync'[q] = sync[q]
  BY <1>1 DEF K!Finish, Stages
<1>3. Carries(p)'
  BY <1>2 DEF Carries, Begins, Pagewise, ReadRows, ReqFields, K!Idle
<1> QED BY <1>2, <1>3

\* A request that only names its next stage.
LEMMA GoesTo ==
  ASSUME SyncTyped, NEW p \in Procs, NEW l \in Stages, stage' = [stage EXCEPT ![p] = l]
  PROVE  /\ stage' \in [Procs -> Stages] /\ stage'[p] = l
         /\ \A q \in Procs : q # p => stage'[q] = stage[q]
BY DEF SyncTyped

\* The source of a request that works on one.
LEMMA ItsSource ==
  ASSUME SyncInv, NEW p \in Procs, stage[p] \notin {"idle", "insert"}
  PROVE  \E s \in Nat : Works(p, s) /\ s \in 1..made
<1>1. sync[p].source \in 1..made
  BY DEF SyncInv, Carries, Begins
<1> QED BY <1>1 DEF Works

LEMMA MarkSyncingKeeps ==
  ASSUME SyncInv, NEW p \in Procs, K!MarkSyncing(p)
  PROVE  SyncInv'
<1> USE DEF K!MarkSyncing, K!At
<1>0. stage[p] = "mark" /\ SyncTyped /\ SourcesTyped
  BY DEF SyncInv, SyncTyped
<1>1. PICK s \in Nat : Works(p, s)
  BY <1>0, ItsSource
<1>2. SourcesTyped' /\ SameSources
  <2> DEFINE f == [r \in sources |-> IF r.id = sync[p].source THEN [r EXCEPT !.status = "syncing"] ELSE r]
  <2>1. sources' = {f[r] : r \in sources}
    BY DEF K!SetSource
  <2>2. \A r \in sources : f[r].id = r.id /\ f[r].kind = r.kind /\ {"id", "kind", "status", "count"} \subseteq DOMAIN f[r]
    BY <1>0 DEF SourcesTyped
  <2> HIDE DEF f
  <2> QED BY <1>0, <2>1, <2>2, Relabelled
<1>3. /\ stage' \in [Procs -> Stages] /\ stage'[p] = "list" /\ \A q \in Procs : q # p => stage'[q] = stage[q]
  BY <1>0, GoesTo DEF K!Goto, Stages
<1>4. Carries(p)'
  <2>1. Begins(p) /\ Pagewise(p)
    BY DEF SyncInv, Carries
  <2>2. \A r \in sources' : r.id = sync[p].source => r.kind = sync[p].kind
    BY <2>1, <1>0, <1>2 DEF Begins, SameSources
  <2> QED BY <2>1, <2>2, <1>0, <1>3 DEF Carries, Begins, Pagewise, ReadRows
<1>5. Works(p, s)'
  BY <1>1, <1>3 DEF Works
<1>6. Undisturbed(p, s) => Undisturbed(p, s)'
  BY <1>0, <1>3 DEF Undisturbed, Holds, K!OfSource
<1>7. DOMAIN sync' = Procs
  BY <1>0 DEF SyncTyped
<1> QED BY <1>1, <1>2, <1>3, <1>4, <1>5, <1>6, <1>7, OneWorks

\* A request that ends with a last word about its source.
LEMMA LastLabelKeeps ==
  ASSUME SyncInv, NEW p \in Procs, stage[p] \notin {"idle", "insert"}, K!Finish(p),
         UNCHANGED <<site, docs, docIds, made, messy>>, SourcesTyped', SameSources
  PROVE  SyncInv'
<1>0. SyncTyped
  BY DEF SyncInv
<1>1. PICK s \in Nat : Works(p, s)
  BY ItsSource
<1>2. /\ stage' \in [Procs -> Stages] /\ DOMAIN sync' = Procs /\ Carries(p)' /\ stage'[p] = "idle"
      /\ \A q \in Procs : q # p => stage'[q] = stage[q] /\ sync'[q] = sync[q]
  BY <1>0, Finishes
<1> QED BY <1>1, <1>2, OneWorks

LEMMA MarkFailedKeeps ==
  ASSUME SyncInv, NEW p \in Procs, stage[p] \notin {"idle", "insert"}, K!MarkFailed(p)
  PROVE  SyncInv'
<1>0. SourcesTyped
  BY DEF SyncInv, SyncTyped
<1> DEFINE f == [r \in sources |-> IF r.id = sync[p].source THEN [r EXCEPT !.status = "failed"] ELSE r]
<1>1. sources' = {f[r] : r \in sources} /\ UNCHANGED <<site, docs, docIds, made, messy>> /\ K!Finish(p)
  BY DEF K!MarkFailed, K!SetSource
<1>2. \A r \in sources : f[r].id = r.id /\ f[r].kind = r.kind /\ {"id", "kind", "status", "count"} \subseteq DOMAIN f[r]
  BY <1>0 DEF SourcesTyped
<1> HIDE DEF f
<1>3. SourcesTyped' /\ SameSources
  BY <1>0, <1>1, <1>2, Relabelled
<1> QED BY <1>1, <1>3, LastLabelKeeps

LEMMA CompleteKeeps ==
  ASSUME SyncInv, NEW p \in Procs, K!Complete(p)
  PROVE  SyncInv'
<1>0. SourcesTyped /\ stage[p] = "complete"
  BY DEF SyncInv, SyncTyped, K!Complete, K!At
<1> DEFINE f == [r \in sources |-> IF r.id = sync[p].source
                  THEN [r EXCEPT !.status = "completed", !.count = sync[p].count] ELSE r]
<1>1. sources' = {f[r] : r \in sources} /\ UNCHANGED <<site, docs, docIds, made, messy>> /\ K!Finish(p)
  BY DEF K!Complete, K!SetSource
<1>2. \A r \in sources : f[r].id = r.id /\ f[r].kind = r.kind /\ {"id", "kind", "status", "count"} \subseteq DOMAIN f[r]
  BY <1>0 DEF SourcesTyped
<1> HIDE DEF f
<1>3. SourcesTyped' /\ SameSources
  BY <1>0, <1>1, <1>2, Relabelled
<1> QED BY <1>0, <1>1, <1>3, LastLabelKeeps

LEMMA BumpCountKeeps ==
  ASSUME SyncInv, NEW p \in Procs, K!BumpCount(p)
  PROVE  SyncInv'
<1>0. SourcesTyped /\ stage[p] = "bump"
  BY DEF SyncInv, SyncTyped, K!BumpCount, K!At
<1> DEFINE f == [r \in sources |-> IF r.id = sync[p].source THEN [r EXCEPT !.count = @ + 1] ELSE r]
<1>1. sources' = {f[r] : r \in sources} /\ UNCHANGED <<site, docs, docIds, made, messy>> /\ K!Finish(p)
  BY DEF K!BumpCount, K!SetSource
<1>2. \A r \in sources : f[r].id = r.id /\ f[r].kind = r.kind /\ {"id", "kind", "status", "count"} \subseteq DOMAIN f[r]
  BY <1>0 DEF SourcesTyped
<1> HIDE DEF f
<1>3. SourcesTyped' /\ SameSources
  BY <1>0, <1>1, <1>2, Relabelled
<1> QED BY <1>0, <1>1, <1>3, LastLabelKeeps

LEMMA SyncFailsKeeps ==
  ASSUME SyncInv, NEW p \in Procs, K!SyncFails(p)
  PROVE  SyncInv'
<1>1. stage[p] \notin {"idle", "insert"} /\ K!MarkFailed(p)
  BY DEF K!SyncFails, K!At
<1> QED BY <1>1, MarkFailedKeeps

\* A step of a request that only changes what the request carries.
LEMMA OwnStep ==
  ASSUME SyncInv, NEW p \in Procs, NEW s \in Nat, Works(p, s), NEW l \in Stages, l \notin {"idle", "insert"},
         stage' = [stage EXCEPT ![p] = l],
         UNCHANGED <<site, sources, docs, docIds, made, messy>>,
         DOMAIN sync' = Procs, \A q \in Procs : q # p => sync'[q] = sync[q],
         ReqFields \subseteq DOMAIN sync'[p], sync'[p].source = s, sync'[p].kind = sync[p].kind,
         l \in {"add", "bump"} <=> stage[p] \in {"add", "bump"},
         l \in {"list", "mark"} => sync'[p].todo = {} /\ sync'[p].urls = {} /\ sync'[p].url = None,
         l \in {"mark", "list", "add", "bump", "complete"} => sync'[p].got = {},
         Pagewise(p)', ReadRows(p)',
         (Clean(s) /\ Alone(p, s) /\ Undisturbed(p, s)) => Undisturbed(p, s)'
  PROVE  SyncInv'
<1>0. SyncTyped /\ SourcesTyped /\ Begins(p) /\ stage[p] \in Stages
  BY DEF SyncInv, SyncTyped, Carries
<1>1. SourcesTyped' /\ SameSources
  BY <1>0 DEF SourcesTyped, SameSources
<1>2. /\ stage' \in [Procs -> Stages] /\ stage'[p] = l /\ \A q \in Procs : q # p => stage'[q] = stage[q]
  BY <1>0, GoesTo
<1>3. Begins(p)'
  BY <1>0, <1>2 DEF Begins, Works, Stages
<1>4. Works(p, s)' /\ Carries(p)'
  BY <1>2, <1>3 DEF Works, Carries
<1> QED BY <1>1, <1>2, <1>4, OneWorks

LEMMA ListKeeps ==
  ASSUME SyncInv, NEW p \in Procs, K!List(p)
  PROVE  SyncInv'
<1> USE DEF K!List, K!At
<1>0. stage[p] = "list" /\ DOMAIN sync = Procs /\ Begins(p) /\ Pagewise(p) /\ Home \in Urls
  BY TenantAssumption DEF SyncInv, SyncTyped, Carries, K!KnowledgeAssumption
<1>1. PICK s \in Nat : Works(p, s)
  BY <1>0, ItsSource
<1>2. PICK urls \in SUBSET Urls : sync' = [sync EXCEPT ![p].todo = urls, ![p].urls = urls]
  BY <1>0 DEF K!Present
<1>3. /\ DOMAIN sync' = Procs /\ \A q \in Procs : q # p => sync'[q] = sync[q]
      /\ ReqFields \subseteq DOMAIN sync'[p] /\ sync'[p].source = sync[p].source /\ sync'[p].kind = sync[p].kind
      /\ sync'[p].got = sync[p].got /\ sync'[p].todo = urls /\ sync'[p].urls = urls
  BY <1>0, <1>2 DEF Begins, ReqFields
<1>4. stage' = [stage EXCEPT ![p] = "page"] /\ stage'[p] = "page" /\ stage[p] \in Stages
  BY <1>0 DEF K!Goto, SyncInv, SyncTyped
<1>5. sync[p].got = {} /\ sync[p].kind # "products"
  BY <1>0 DEF Begins
<1>6. Pagewise(p)'
  BY <1>3, <1>4, <1>5 DEF Pagewise
<1>7. ReadRows(p)' /\ Undisturbed(p, s)'
  BY <1>3, <1>4, <1>5 DEF ReadRows, Undisturbed
<1>8. UNCHANGED <<site, sources, docs, docIds, made, messy>> /\ sync'[p].source = s
  BY <1>1, <1>3 DEF Works
<1> QED BY <1>0, <1>1, <1>3, <1>4, <1>6, <1>7, <1>8, OwnStep DEF Stages

LEMMA FetchProductsKeeps ==
  ASSUME SyncInv, NEW p \in Procs, K!FetchProducts(p)
  PROVE  SyncInv'
<1> USE DEF K!FetchProducts, K!At
<1>0. stage[p] = "list" /\ DOMAIN sync = Procs /\ Begins(p) /\ Pagewise(p) /\ site \in [Urls -> Pages]
  BY DEF SyncInv, SyncTyped, Carries
<1>1. PICK s \in Nat : Works(p, s)
  BY <1>0, ItsSource
<1>2. K!Present \subseteq Urls
  BY DEF K!Present
<1>3. /\ DOMAIN sync' = Procs /\ \A q \in Procs : q # p => sync'[q] = sync[q]
      /\ ReqFields \subseteq DOMAIN sync'[p] /\ sync'[p].source = sync[p].source /\ sync'[p].kind = sync[p].kind
      /\ sync'[p].got = sync[p].got /\ sync'[p].todo = K!Present /\ sync'[p].urls = K!Present /\ sync'[p].shot = site
  BY <1>0 DEF Begins, ReqFields
<1>4. stage' = [stage EXCEPT ![p] = "page"] /\ stage'[p] = "page" /\ stage[p] \in Stages
  BY <1>0 DEF K!Goto, SyncInv, SyncTyped
<1>5. sync[p].got = {} /\ UNCHANGED <<site, sources, docs, docIds, made, messy>> /\ sync'[p].source = s
  BY <1>0, <1>1, <1>3 DEF Begins, Works
<1>6. Pagewise(p)'
  BY <1>0, <1>2, <1>3, <1>4, <1>5 DEF Pagewise
<1>7. ReadRows(p)' /\ Undisturbed(p, s)'
  BY <1>3, <1>4, <1>5 DEF ReadRows, Undisturbed
<1> QED BY <1>0, <1>1, <1>3, <1>4, <1>5, <1>6, <1>7, OwnStep DEF Stages

LEMMA ExtractFileKeeps ==
  ASSUME SyncInv, NEW p \in Procs, K!ExtractFile(p)
  PROVE  SyncInv'
<1> USE DEF K!ExtractFile, K!At
<1>0. stage[p] = "list" /\ DOMAIN sync = Procs /\ Begins(p) /\ Pagewise(p)
  BY DEF SyncInv, SyncTyped, Carries
<1>1. PICK s \in Nat : Works(p, s)
  BY <1>0, ItsSource
<1>2. PICK page \in Pages : sync' = [sync EXCEPT ![p].page = page]
  OBVIOUS
<1>3. /\ DOMAIN sync' = Procs /\ \A q \in Procs : q # p => sync'[q] = sync[q]
      /\ ReqFields \subseteq DOMAIN sync'[p] /\ sync'[p].source = sync[p].source /\ sync'[p].kind = sync[p].kind
      /\ sync'[p].got = sync[p].got /\ sync'[p].todo = sync[p].todo /\ sync'[p].urls = sync[p].urls
      /\ sync'[p].url = sync[p].url /\ sync'[p].page = page
  BY <1>0, <1>2 DEF Begins, ReqFields
<1>4. stage' = [stage EXCEPT ![p] = "read"] /\ stage'[p] = "read" /\ stage[p] \in Stages
  BY <1>0 DEF K!Goto, SyncInv, SyncTyped
<1>5. sync[p].got = {} /\ UNCHANGED <<site, sources, docs, docIds, made, messy>> /\ sync'[p].source = s
      /\ sync[p].todo = {} /\ sync[p].urls = {} /\ sync[p].url = None /\ sync[p].kind = "upload"
  BY <1>0, <1>1, <1>3 DEF Begins, Works
<1>6. Pagewise(p)'
  BY <1>0, <1>3, <1>4, <1>5 DEF Pagewise
<1>7. ReadRows(p)' /\ Undisturbed(p, s)'
  BY <1>3, <1>4, <1>5 DEF ReadRows, Undisturbed
<1> QED BY <1>0, <1>1, <1>3, <1>4, <1>5, <1>6, <1>7, OwnStep DEF Stages

LEMMA FetchKeeps ==
  ASSUME SyncInv, NEW p \in Procs, NEW u \in Urls, K!Fetch(p, u)
  PROVE  SyncInv'
<1> USE DEF K!Fetch, K!At
<1>0. stage[p] = "page" /\ DOMAIN sync = Procs /\ stage \in [Procs -> Stages] /\ Begins(p) /\ Pagewise(p)
        /\ site \in [Urls -> Pages] /\ u \in sync[p].todo
  BY DEF SyncInv, SyncTyped, Carries
<1>1. PICK s \in Nat : Works(p, s)
  BY <1>0, ItsSource
<1>2. UNCHANGED <<site, sources, docs, docIds, made, messy>>
  OBVIOUS
<1>3. CASE stage' = [stage EXCEPT ![p] = "read"] /\ \E page \in Pages :
             sync' = [sync EXCEPT ![p].todo = @ \ {u}, ![p].url = u, ![p].page = page]
  <2>1. PICK page \in Pages : sync' = [sync EXCEPT ![p].todo = @ \ {u}, ![p].url = u, ![p].page = page]
    BY <1>3
  <2>2. /\ DOMAIN sync' = Procs /\ \A q \in Procs : q # p => sync'[q] = sync[q]
        /\ ReqFields \subseteq DOMAIN sync'[p] /\ sync'[p].source = sync[p].source /\ sync'[p].kind = sync[p].kind
        /\ sync'[p].got = sync[p].got /\ sync'[p].todo = sync[p].todo \ {u} /\ sync'[p].urls = sync[p].urls
        /\ sync'[p].url = u /\ sync'[p].page = page /\ sync'[p].shot = sync[p].shot
    BY <1>0, <2>1 DEF Begins, ReqFields
  <2>3. stage'[p] = "read"
    BY <1>0, <1>3
  <2>4. Pagewise(p)'
    BY <1>0, <2>2, <2>3 DEF Pagewise
  <2>5. ReadRows(p)'
    BY <2>3 DEF ReadRows
  <2>6. Undisturbed(p, s) => Undisturbed(p, s)'
    BY <1>2, <2>2, <2>3 DEF Undisturbed, Holds, K!OfSource
  <2>7. sync'[p].source = s
    BY <1>1, <2>2 DEF Works
  <2> QED BY <1>0, <1>1, <1>2, <1>3, <2>2, <2>3, <2>4, <2>5, <2>6, <2>7, OwnStep DEF Stages
<1>4. CASE stage' = stage /\ sync' = [sync EXCEPT ![p].todo = @ \ {u}]
  <2>2. /\ DOMAIN sync' = Procs /\ \A q \in Procs : q # p => sync'[q] = sync[q]
        /\ ReqFields \subseteq DOMAIN sync'[p] /\ sync'[p].source = sync[p].source /\ sync'[p].kind = sync[p].kind
        /\ sync'[p].got = sync[p].got /\ sync'[p].todo = sync[p].todo \ {u} /\ sync'[p].urls = sync[p].urls
        /\ sync'[p].shot = sync[p].shot
    BY <1>0, <1>4 DEF Begins, ReqFields
  <2>3. stage' = [stage EXCEPT ![p] = "page"] /\ stage'[p] = "page"
    BY <1>0, <1>4
  <2>4. Pagewise(p)'
    BY <1>0, <2>2, <2>3 DEF Pagewise
  <2>5. ReadRows(p)'
    BY <2>3 DEF ReadRows
  <2>6. Undisturbed(p, s) => Undisturbed(p, s)'
    BY <1>2, <2>2, <2>3 DEF Undisturbed, Holds, K!OfSource
  <2>7. sync'[p].source = s
    BY <1>1, <2>2 DEF Works
  <2> QED BY <1>0, <1>1, <1>2, <2>2, <2>3, <2>4, <2>5, <2>6, <2>7, OwnStep DEF Stages
<1>5. sync[p].kind = "products" => sync[p].shot[u] \in Pages
  BY <1>0 DEF Pagewise
<1>6. site[u] \in Pages
  BY <1>0
<1> QED BY <1>3, <1>4, <1>5, <1>6 DEF K!Goto

LEMMA ReadExistingKeeps ==
  ASSUME SyncInv, NEW p \in Procs, K!ReadExisting(p)
  PROVE  SyncInv'
<1> USE DEF K!ReadExisting, K!At
<1>0. stage[p] = "read" /\ DOMAIN sync = Procs /\ stage \in [Procs -> Stages] /\ Begins(p) /\ Pagewise(p) /\ DocsTyped
  BY DEF SyncInv, SyncTyped, Carries
<1>1. PICK s \in Nat : Works(p, s)
  BY <1>0, ItsSource
<1>2. UNCHANGED <<site, sources, docs, docIds, made, messy>>
  OBVIOUS
<1>3. /\ DOMAIN sync' = Procs /\ \A q \in Procs : q # p => sync'[q] = sync[q]
      /\ ReqFields \subseteq DOMAIN sync'[p] /\ sync'[p].source = sync[p].source /\ sync'[p].kind = sync[p].kind
      /\ sync'[p].got = sync[p].got /\ sync'[p].todo = sync[p].todo /\ sync'[p].urls = sync[p].urls
      /\ sync'[p].url = sync[p].url /\ sync'[p].page = sync[p].page /\ sync'[p].shot = sync[p].shot
      /\ sync'[p].seen = {d \in K!OfSource(sync[p].source) : d.url = sync[p].url}
  BY <1>0 DEF Begins, ReqFields
<1>4. stage' = [stage EXCEPT ![p] = "write"] /\ stage'[p] = "write"
  BY <1>0 DEF K!Goto
<1>5. Pagewise(p)'
  BY <1>0, <1>3, <1>4 DEF Pagewise
<1>6. sync[p].source = s /\ sync'[p].source = s
  BY <1>1, <1>3 DEF Works
<1>7. ReadRows(p)'
  BY <1>0, <1>2, <1>3, <1>6 DEF ReadRows, DocsTyped, K!OfSource
<1>8. Undisturbed(p, s) => Undisturbed(p, s)'
  BY <1>0, <1>2, <1>3, <1>4, <1>6 DEF Undisturbed, Holds, K!OfSource
<1> QED BY <1>0, <1>1, <1>2, <1>3, <1>4, <1>5, <1>6, <1>7, <1>8, OwnStep DEF Stages

LEMMA WriteFailsKeeps ==
  ASSUME SyncInv, NEW p \in Procs, K!WriteFails(p)
  PROVE  SyncInv'
<1> USE DEF K!WriteFails, K!At
<1>0. stage[p] = "write" /\ DOMAIN sync = Procs /\ stage \in [Procs -> Stages] /\ Begins(p) /\ Pagewise(p)
  BY DEF SyncInv, SyncTyped, Carries
<1>1. PICK s \in Nat : Works(p, s)
  BY <1>0, ItsSource
<1>2. CASE sync[p].kind = "sitemap"
  <2>2. UNCHANGED <<site, sources, docs, docIds, made, messy>>
    BY <1>2
  <2>3. /\ DOMAIN sync' = Procs /\ \A q \in Procs : q # p => sync'[q] = sync[q]
        /\ ReqFields \subseteq DOMAIN sync'[p] /\ sync'[p].source = sync[p].source /\ sync'[p].kind = sync[p].kind
        /\ sync'[p].got = sync[p].got /\ sync'[p].todo = sync[p].todo /\ sync'[p].urls = sync[p].urls
        /\ sync'[p].shot = sync[p].shot
    BY <1>0, <1>2 DEF Begins, ReqFields
  <2>4. stage' = [stage EXCEPT ![p] = "page"] /\ stage'[p] = "page"
    BY <1>0, <1>2 DEF K!Goto
  <2>5. Pagewise(p)' /\ ReadRows(p)'
    BY <1>0, <2>3, <2>4 DEF Pagewise, ReadRows
  <2>6. sync'[p].source = s
    BY <1>1, <2>3 DEF Works
  <2>7. Undisturbed(p, s) => Undisturbed(p, s)'
    BY <2>2, <2>3, <2>4 DEF Undisturbed, Holds, K!OfSource
  <2> QED BY <1>0, <1>1, <2>2, <2>3, <2>4, <2>5, <2>6, <2>7, OwnStep DEF Stages
<1>3. CASE sync[p].kind # "sitemap"
  BY <1>0, <1>3, MarkFailedKeeps
<1> QED BY <1>2, <1>3

LEMMA CountKeeps ==
  ASSUME SyncInv, NEW p \in Procs, K!Count(p)
  PROVE  SyncInv'
<1> USE DEF K!Count, K!At
<1>0. stage[p] = "count" /\ DOMAIN sync = Procs /\ stage \in [Procs -> Stages] /\ Begins(p)
  BY DEF SyncInv, SyncTyped, Carries
<1>1. PICK s \in Nat : Works(p, s)
  BY <1>0, ItsSource
<1>2. UNCHANGED <<site, sources, docs, docIds, made, messy>>
  OBVIOUS
<1>3. /\ DOMAIN sync' = Procs /\ \A q \in Procs : q # p => sync'[q] = sync[q]
      /\ ReqFields \subseteq DOMAIN sync'[p] /\ sync'[p].source = sync[p].source /\ sync'[p].kind = sync[p].kind
      /\ sync'[p].got = {}
  <2> DEFINE r0 == [sync[p] EXCEPT !.count = K!Cardinality(K!OfSource(sync[p].source)), !.urls = {}]
             r1 == [r0 EXCEPT !.got = {}, !.shot = None]
  <2>1. ReqFields \subseteq DOMAIN r0 /\ r0.source = sync[p].source /\ r0.kind = sync[p].kind
    BY <1>0 DEF Begins, ReqFields
  <2>2. sync' = [sync EXCEPT ![p] = r1]
    BY <1>0
  <2> HIDE DEF r0
  <2>3. ReqFields \subseteq DOMAIN r1 /\ r1.source = sync[p].source /\ r1.kind = sync[p].kind /\ r1.got = {}
    BY <2>1 DEF ReqFields
  <2> QED BY <1>0, <2>2, <2>3
<1>4. stage' = [stage EXCEPT ![p] = "complete"] /\ stage'[p] = "complete"
  BY <1>0 DEF K!Goto
<1>5. Pagewise(p)' /\ ReadRows(p)' /\ Undisturbed(p, s)'
  BY <1>3, <1>4 DEF Pagewise, ReadRows, Undisturbed
<1>6. sync'[p].source = s
  BY <1>1, <1>3 DEF Works
<1> QED BY <1>0, <1>1, <1>2, <1>3, <1>4, <1>5, <1>6, OwnStep DEF Stages

LEMMA PruneKeeps ==
  ASSUME SyncInv, NEW p \in Procs, K!Prune(p)
  PROVE  SyncInv'
<1> USE DEF K!Prune, K!At
<1>0. stage[p] = "page" /\ sync[p].todo = {} /\ SyncTyped /\ stage \in [Procs -> Stages] /\ Begins(p) /\ Pagewise(p)
        /\ SourcesTyped /\ DocsTyped
  BY DEF SyncInv, SyncTyped, Carries
<1>1. PICK s \in Nat : Works(p, s)
  BY <1>0, ItsSource
<1>2. UNCHANGED <<site, sources, docIds, made, sync, messy>> /\ docs' = docs \ K!Stale(p) /\ sync[p].source = s
  BY <1>1 DEF Works
<1>3. K!Stale(p) \subseteq K!OfSource(s)
  BY <1>2 DEF K!Stale
<1>4. stage' \in [Procs -> Stages] /\ stage'[p] = "count" /\ \A q \in Procs : q # p => stage'[q] = stage[q]
  BY <1>0, GoesTo DEF K!Goto, Stages
<1>5. docs' \subseteq docs /\ \A t : t # s => K!OfSource(t)' = K!OfSource(t)
  BY <1>2, <1>3 DEF K!OfSource
<1>6. SyncTyped'
  BY <1>0, <1>2, <1>4, <1>5 DEF SyncTyped, SourcesTyped, DocsTyped, K!There
<1>7. Carries(p)'
  BY <1>0, <1>2, <1>4 DEF Carries, Begins, Pagewise, ReadRows
<1>8. K!OfSource(s)' = K!OfSource(s) \ K!Stale(p)
  BY <1>2 DEF K!OfSource
<1>9. CleanDocs(s)'
  BY <1>2, <1>8 DEF SyncInv, CleanDocs, Clean
<1>10. ASSUME Undisturbed(p, s) PROVE Undisturbed(p, s)'
  <2>1. ASSUME NEW g \in sync[p].got PROVE Holds(s, g[1], g[2])'
    <3>1. \A d \in K!Stale(p) : d.url # g[1]
      BY <1>0 DEF K!Stale, Pagewise
    <3>2. Holds(s, g[1], g[2])
      BY <1>10 DEF Undisturbed
    <3> QED BY <3>1, <3>2, <1>8 DEF Holds
  <2>2. (sync[p].kind = "sitemap" /\ sync[p].urls # {}) => \A d \in K!OfSource(s)' : d.url \in sync[p].urls
    BY <1>2, <1>8 DEF K!Stale
  <2> QED BY <1>2, <1>4, <2>1, <2>2 DEF Undisturbed
<1>11. SameSources /\ RowsFrom(docs') /\ docIds' >= docIds /\ Works(p, s)'
  BY <1>0, <1>1, <1>2, <1>4, <1>5 DEF SameSources, RowsFrom, Works, SyncTyped
<1> QED BY <1>1, <1>2, <1>4, <1>5, <1>6, <1>7, <1>9, <1>10, <1>11, OneMoves

LEMMA AddDocKeeps ==
  ASSUME SyncInv, NEW p \in Procs, K!AddDoc(p)
  PROVE  SyncInv'
<1> USE DEF K!AddDoc, K!At
<1>0. stage[p] = "add" /\ SyncTyped /\ stage \in [Procs -> Stages] /\ Begins(p) /\ Pagewise(p)
        /\ SourcesTyped /\ DocsTyped /\ docIds \in Nat /\ made \in Nat
  BY DEF SyncInv, SyncTyped, Carries
<1>1. PICK s \in Nat : Works(p, s)
  BY <1>0, ItsSource
<1>2. UNCHANGED <<site, sources, made, messy>> /\ sync[p].source = s
  BY <1>1 DEF Works
<1>3. CASE ~K!There(sync[p].source)
  <2>1. K!Finish(p) /\ UNCHANGED <<docs, docIds>>
    BY <1>3
  <2>2. SourcesTyped' /\ SameSources
    BY <1>0, <1>2 DEF SourcesTyped, SameSources
  <2> QED BY <1>0, <1>2, <2>1, <2>2, LastLabelKeeps
<1>4. CASE K!There(sync[p].source)
  <2> DEFINE new == [id |-> docIds + 1, source |-> sync[p].source, url |-> None, index |-> 0, body |-> Edited, hash |-> None]
  <2>1. docs' = docs \cup {new} /\ docIds' = docIds + 1 /\ sync' = sync /\ stage' = [stage EXCEPT ![p] = "bump"]
    BY <1>4 DEF K!Goto
  <2>2. new \in Doc /\ new.id = docIds + 1 /\ new.source = s
    <3>1. Edited \in Chunks /\ None \in Chunks
      BY DEF Chunks
    <3>2. s \in Nat /\ docIds + 1 \in Nat
      BY <1>0
    <3>3. sync[p].source = s
      BY <1>2
    <3> QED BY <3>1, <3>2, <3>3 DEF Doc
  <2> HIDE DEF new
  <2>3. stage' \in [Procs -> Stages] /\ stage'[p] = "bump" /\ \A q \in Procs : q # p => stage'[q] = stage[q]
    BY <1>0, <2>1, GoesTo DEF Stages
  <2>4. \A t : t # s => K!OfSource(t)' = K!OfSource(t)
    BY <2>1, <2>2 DEF K!OfSource
  <2>5. DocsTyped'
    <3>1. \A d \in docs : d.id <= docIds /\ d.id \in Nat
      BY <1>0 DEF DocsTyped, Doc
    <3>2. K!There(s) /\ \A t : K!There(t)' <=> K!There(t)
      BY <1>2, <1>4 DEF K!There
    <3>3. \A d \in docs : K!There(d.source)
      BY <1>0 DEF DocsTyped
    <3>4. \A d \in docs' : d.id <= docIds' /\ K!There(d.source)'
      BY <1>0, <2>1, <2>2, <3>1, <3>2, <3>3
    <3>5. docs' \subseteq Doc
      BY <1>0, <2>1, <2>2 DEF DocsTyped
    <3>6. \A d, e \in docs' : d.id = e.id => d = e
      BY <1>0, <2>1, <2>2, <3>1 DEF DocsTyped
    <3> QED BY <3>4, <3>5, <3>6 DEF DocsTyped
  <2>6. SyncTyped'
    BY <1>0, <1>2, <2>1, <2>3, <2>5 DEF SyncTyped, SourcesTyped
  <2>7. Carries(p)'
    BY <1>0, <1>2, <2>1, <2>3 DEF Carries, Begins, Pagewise, ReadRows
  <2>8. ~Clean(s) /\ ~Clean(s)'
    BY <1>0, <1>2 DEF Clean, Begins
  <2>9. SameSources /\ RowsFrom(docs') /\ docIds' >= docIds /\ Works(p, s)'
    BY <1>0, <1>1, <1>2, <2>1, <2>2, <2>3 DEF SameSources, RowsFrom, Works
  <2>10. CleanDocs(s)'
    BY <2>8 DEF CleanDocs
  <2> QED BY <1>1, <1>2, <2>1, <2>3, <2>4, <2>6, <2>7, <2>8, <2>9, <2>10, OneMoves
<1> QED BY <1>3, <1>4

\* What another source's request, or nobody's, works on is left alone by what
\* begins, ends or changes a source.
LEMMA EnsureKeeps ==
  ASSUME SyncInv, NEW p \in Procs, NEW k \in Kinds, K!Ensure(p, k)
  PROVE  SyncInv'
<1> USE DEF K!Ensure, K!At
<1>0. stage[p] = "idle" /\ SyncTyped /\ stage \in [Procs -> Stages] /\ DOMAIN sync = Procs /\ sync[p] = K!Idle
        /\ SourcesTyped /\ DocsTyped /\ docIds \in Nat /\ made \in Nat
  BY DEF SyncInv, SyncTyped, Carries, Begins
<1>1. UNCHANGED <<site, sources, docs, docIds, made>>
  OBVIOUS
<1>2. \A t : K!OfSource(t)' = K!OfSource(t)
  BY <1>1 DEF K!OfSource
<1>3. SourcesTyped' /\ DocsTyped' /\ RowsFrom(docs')
  BY <1>0, <1>1 DEF SourcesTyped, DocsTyped, K!There, RowsFrom
<1>4. ASSUME NEW q \in Procs, stage'[q] = stage[q], sync'[q] = sync[q] PROVE Carries(q)'
  BY <1>0, <1>1, <1>3, <1>4, CarriesOn DEF SyncInv
<1>5. CASE /\ sync' = [sync EXCEPT ![p].kind = k] /\ stage' = [stage EXCEPT ![p] = "insert"] /\ messy' = messy
  <2>1. /\ stage' \in [Procs -> Stages] /\ stage'[p] = "insert" /\ DOMAIN sync' = Procs
        /\ \A q \in Procs : q # p => stage'[q] = stage[q] /\ sync'[q] = sync[q]
    BY <1>0, <1>5 DEF Stages
  <2>2. /\ ReqFields \subseteq DOMAIN sync'[p] /\ sync'[p].source = 0 /\ sync'[p].todo = {} /\ sync'[p].urls = {}
        /\ sync'[p].url = None /\ sync'[p].got = {}
    <3>1. sync'[p] = [K!Idle EXCEPT !.kind = k]
      BY <1>0, <1>5
    <3>2. ReqFields \subseteq DOMAIN sync'[p] /\ \A f \in ReqFields \ {"kind"} : sync'[p][f] = K!Idle[f]
      BY <3>1 DEF K!Idle, ReqFields
    <3> QED BY <3>2 DEF K!Idle, ReqFields
  <2>3. Carries(p)'
    BY <2>1, <2>2 DEF Carries, Begins, Pagewise, ReadRows
  <2>4. \A q \in Procs : Carries(q)'
    BY <1>4, <2>1, <2>3
  <2>5. \A t \in Nat : CleanDocs(t)'
    BY <1>1, <1>2, <1>5 DEF SyncInv, CleanDocs, Clean
  <2>6. ASSUME NEW q \in Procs, NEW t \in Nat, Works(q, t)', Clean(t)' PROVE Alone(q, t)' /\ Undisturbed(q, t)'
    <3>1. q # p /\ Works(q, t) /\ Clean(t)
      BY <1>1, <1>5, <2>1, <2>6 DEF Works, Clean
    <3>2. Alone(q, t) /\ Undisturbed(q, t)
      BY <3>1 DEF SyncInv, WorkKept
    <3>3. t # 0
      BY <1>0, <3>1 DEF Clean, SourcesTyped
    <3>4. Alone(q, t)'
      BY <2>1, <2>2, <3>2, <3>3 DEF Alone
    <3>5. Undisturbed(q, t)'
      BY <1>1, <1>2, <2>1, <3>1, <3>2 DEF Undisturbed, Holds
    <3> QED BY <3>4, <3>5
  <2>7. SyncTyped'
    BY <1>0, <1>1, <1>3, <2>1 DEF SyncTyped
  <2> QED BY <2>4, <2>5, <2>6, <2>7 DEF SyncInv, WorkKept
<1>6. ASSUME NEW r \in sources, NEW l \in {"add", "mark"}, r.kind = k, l = (IF k = "manual" THEN "add" ELSE "mark"),
             sync' = [sync EXCEPT ![p].kind = k, ![p].source = r.id], stage' = [stage EXCEPT ![p] = l],
             messy' = IF K!Working(r.id) # {} THEN messy \cup {r.id} ELSE messy
      PROVE  SyncInv'
  <2>0. PICK s \in Nat : s = r.id /\ s \in 1..made
    BY <1>0 DEF SourcesTyped
  <2>1. /\ stage' \in [Procs -> Stages] /\ stage'[p] = l /\ DOMAIN sync' = Procs
        /\ \A q \in Procs : q # p => stage'[q] = stage[q] /\ sync'[q] = sync[q]
    BY <1>0, <1>6 DEF Stages
  <2>2. /\ ReqFields \subseteq DOMAIN sync'[p] /\ sync'[p].source = s /\ sync'[p].todo = {} /\ sync'[p].urls = {}
        /\ sync'[p].url = None /\ sync'[p].got = {} /\ sync'[p].kind = k
    <3>1. sync'[p] = [K!Idle EXCEPT !.kind = k, !.source = r.id]
      BY <1>0, <1>6
    <3>2. /\ ReqFields \subseteq DOMAIN sync'[p] /\ \A f \in ReqFields \ {"kind", "source"} : sync'[p][f] = K!Idle[f]
          /\ sync'[p].kind = k /\ sync'[p].source = r.id
      BY <3>1 DEF K!Idle, ReqFields
    <3> QED BY <3>2, <2>0 DEF K!Idle, ReqFields
  <2>3. Carries(p)'
    <3>1. \A c \in sources' : c.id = s => c.kind = k
      BY <1>0, <1>1, <1>6, <2>0 DEF SourcesTyped
    <3>2. l = "add" <=> k = "manual"
      BY <1>6
    <3> QED BY ZenonT(30), <1>1, <1>6, <2>0, <2>1, <2>2, <3>1, <3>2 DEF Carries, Begins, Pagewise, ReadRows
  <2>4. \A q \in Procs : Carries(q)'
    BY <1>4, <2>1, <2>3
  <2>5. \A t : Clean(t)' => Clean(t)
    BY <1>1, <1>6 DEF Clean
  <2>6. \A t \in Nat : CleanDocs(t)'
    BY <1>2, <2>5 DEF SyncInv, CleanDocs
  <2>7. ASSUME NEW q \in Procs, NEW t \in Nat, Works(q, t)', Clean(t)' PROVE Alone(q, t)' /\ Undisturbed(q, t)'
    <3>1. CASE q = p
      <4>1. t = s
        BY <2>2, <2>7, <3>1 DEF Works
      <4>2. K!Working(s) = {}
        BY <1>6, <2>0, <2>7, <4>1 DEF Clean
      <4>3. Alone(p, s)'
        BY <2>1, <4>2 DEF Alone, K!Working
      <4>4. Undisturbed(p, s)'
        BY <2>1, <2>2 DEF Undisturbed
      <4> QED BY <3>1, <4>1, <4>3, <4>4
    <3>2. CASE q # p
      <4>1. Works(q, t) /\ Clean(t)
        BY <2>1, <2>5, <2>7, <3>2 DEF Works
      <4>2. Alone(q, t) /\ Undisturbed(q, t)
        BY <4>1 DEF SyncInv, WorkKept
      <4>3. t # s
        <5> SUFFICES ASSUME t = s PROVE FALSE
          OBVIOUS
        <5>1. q \in K!Working(s)
          BY <4>1 DEF K!Working, Works
        <5>2. s \in messy'
          BY <5>1, <1>6, <2>0
        <5> QED BY <5>2, <2>7 DEF Clean
      <4>4. Alone(q, t)'
        BY <2>1, <2>2, <4>2, <4>3 DEF Alone
      <4>5. Undisturbed(q, t)'
        BY <1>1, <1>2, <2>1, <3>2, <4>2 DEF Undisturbed, Holds
      <4> QED BY <4>4, <4>5
    <3> QED BY <3>1, <3>2
  <2>8. SyncTyped'
    BY <1>0, <1>1, <1>3, <2>1 DEF SyncTyped
  <2> QED BY <2>4, <2>6, <2>7, <2>8 DEF SyncInv, WorkKept
<1>7. CASE \E t \in {r.id : r \in {r \in sources : r.kind = k /\ k # "upload"}} :
             /\ sync' = [sync EXCEPT ![p].kind = k, ![p].source = t]
             /\ stage' = [stage EXCEPT ![p] = IF k = "manual" THEN "add" ELSE "mark"]
             /\ messy' = IF K!Working(t) # {} THEN messy \cup {t} ELSE messy
  <2>1. PICK r \in sources :
             /\ r.kind = k
             /\ sync' = [sync EXCEPT ![p].kind = k, ![p].source = r.id]
             /\ stage' = [stage EXCEPT ![p] = IF k = "manual" THEN "add" ELSE "mark"]
             /\ messy' = IF K!Working(r.id) # {} THEN messy \cup {r.id} ELSE messy
    <3>1. PICK t \in {r.id : r \in {r \in sources : r.kind = k /\ k # "upload"}} :
             /\ sync' = [sync EXCEPT ![p].kind = k, ![p].source = t]
             /\ stage' = [stage EXCEPT ![p] = IF k = "manual" THEN "add" ELSE "mark"]
             /\ messy' = IF K!Working(t) # {} THEN messy \cup {t} ELSE messy
      BY <1>7
    <3>2. PICK r \in sources : r.kind = k /\ r.id = t
      OBVIOUS
    <3> QED BY <3>1, <3>2
  <2>2. (IF k = "manual" THEN "add" ELSE "mark") \in {"add", "mark"}
    OBVIOUS
  <2> QED BY <1>6, <2>1, <2>2
<1> QED BY <1>5, <1>7 DEF K!Goto

LEMMA InsertSourceKeeps ==
  ASSUME SyncInv, NEW p \in Procs, K!InsertSource(p)
  PROVE  SyncInv'
<1> USE DEF K!InsertSource, K!At
<1>0. stage[p] = "insert" /\ SyncTyped /\ stage \in [Procs -> Stages] /\ DOMAIN sync = Procs /\ Begins(p)
        /\ SourcesTyped /\ DocsTyped /\ docIds \in Nat /\ made \in Nat
  BY DEF SyncInv, SyncTyped, Carries
<1> DEFINE label == IF sync[p].kind = "manual" THEN "completed" ELSE "pending"
           new == [id |-> made + 1, kind |-> sync[p].kind, count |-> 0, status |-> label]
           l == IF sync[p].kind = "manual" THEN "add" ELSE "mark"
<1>1. /\ UNCHANGED <<site, docs, docIds, messy>> /\ made' = made + 1 /\ sources' = sources \cup {new}
      /\ sync' = [sync EXCEPT ![p].source = made + 1] /\ stage' = [stage EXCEPT ![p] = l]
  BY DEF K!Goto
<1>2. /\ new.id = made + 1 /\ new.kind = sync[p].kind /\ {"id", "kind", "status", "count"} \subseteq DOMAIN new
      /\ l \in {"add", "mark"} /\ (l = "add" <=> sync[p].kind = "manual")
  OBVIOUS
<1> HIDE DEF new, l
<1>3. /\ stage' \in [Procs -> Stages] /\ stage'[p] = l /\ DOMAIN sync' = Procs
      /\ \A q \in Procs : q # p => stage'[q] = stage[q] /\ sync'[q] = sync[q]
  BY <1>0, <1>1, <1>2 DEF Stages
<1>4. /\ ReqFields \subseteq DOMAIN sync'[p] /\ sync'[p].source = made + 1 /\ sync'[p].todo = {} /\ sync'[p].urls = {}
      /\ sync'[p].url = None /\ sync'[p].got = {} /\ sync'[p].kind = sync[p].kind
  BY <1>0, <1>1 DEF Begins, ReqFields
<1>5. \A r \in sources : r.id # made + 1
  BY <1>0 DEF SourcesTyped
<1>6. SourcesTyped'
  BY <1>0, <1>1, <1>2, <1>5 DEF SourcesTyped
<1>7. DocsTyped' /\ RowsFrom(docs') /\ \A t : K!OfSource(t)' = K!OfSource(t)
  BY <1>0, <1>1 DEF DocsTyped, K!There, RowsFrom, K!OfSource
<1>8. SyncTyped'
  BY <1>0, <1>1, <1>3, <1>6, <1>7 DEF SyncTyped
<1>9. \A q \in Procs : Carries(q)'
  <2>1. Carries(p)'
    <3>1. \A c \in sources' : c.id = made + 1 => c.kind = sync[p].kind
      BY <1>1, <1>2, <1>5
    <3> QED BY <1>0, <1>1, <1>2, <1>3, <1>4, <3>1 DEF Carries, Begins, Pagewise, ReadRows
  <2>2. ASSUME NEW q \in Procs, q # p PROVE Carries(q)'
    <3>1. \A r \in sources' : r.id \in 1..made => \E t \in sources : t.id = r.id /\ t.kind = r.kind
      BY <1>0, <1>1, <1>2
    <3>2. Carries(q) /\ stage'[q] = stage[q] /\ sync'[q] = sync[q] /\ made' >= made /\ made' \in Nat
            /\ docIds' >= docIds /\ docIds' \in Nat
      BY <1>0, <1>1, <1>3, <2>2 DEF SyncInv
    <3> QED BY <1>0, <1>7, <3>1, <3>2, CarriesOn
  <2> QED BY <2>1, <2>2
<1>10. \A t : t # made + 1 => (Clean(t)' => Clean(t))
  BY <1>1, <1>2 DEF Clean
<1>11. K!OfSource(made + 1) = {} /\ \A q \in Procs : stage[q] # "idle" => sync[q].source # made + 1
  <2>1. \A d \in docs : d.source # made + 1
    BY <1>5, <1>0 DEF DocsTyped, K!There
  <2>2. ASSUME NEW q \in Procs, stage[q] # "idle" PROVE sync[q].source # made + 1
    BY <1>0, <2>2 DEF SyncInv, Carries, Begins
  <2> QED BY <2>1, <2>2 DEF K!OfSource
<1>12. ASSUME NEW t \in Nat PROVE CleanDocs(t)'
  <2>1. CASE t # made + 1
    BY <1>7, <1>10, <2>1 DEF SyncInv, CleanDocs
  <2>2. CASE t = made + 1
    <3>1. K!OfSource(t)' = {}
      BY <1>7, <1>11, <2>2
    <3> QED BY <3>1 DEF CleanDocs
  <2> QED BY <2>1, <2>2
<1>13. ASSUME NEW q \in Procs, NEW t \in Nat, Works(q, t)', Clean(t)' PROVE Alone(q, t)' /\ Undisturbed(q, t)'
  <2>1. CASE q = p
    <3>1. t = made + 1
      BY <1>4, <1>13, <2>1 DEF Works
    <3>2. Alone(p, t)'
      BY <1>3, <1>11, <3>1 DEF Alone
    <3>3. Undisturbed(p, t)'
      BY <1>2, <1>3, <1>4 DEF Undisturbed
    <3> QED BY <2>1, <3>2, <3>3
  <2>2. CASE q # p
    <3>0. Works(q, t)
      BY <1>3, <1>13, <2>2 DEF Works
    <3>1. t # made + 1
      BY <1>11, <3>0 DEF Works
    <3>2. Alone(q, t) /\ Undisturbed(q, t)
      BY <1>10, <1>13, <3>0, <3>1 DEF SyncInv, WorkKept
    <3>3. Alone(q, t)'
      BY <1>3, <1>4, <3>1, <3>2 DEF Alone
    <3>4. Undisturbed(q, t)'
      BY <1>1, <1>3, <1>7, <2>2, <3>2 DEF Undisturbed, Holds
    <3> QED BY <3>3, <3>4
  <2> QED BY <2>1, <2>2
<1> QED BY <1>8, <1>9, <1>12, <1>13 DEF SyncInv, WorkKept

\* A step beside the requests: of a hand, of the site, or none.
LEMMA OutsideKeeps ==
  ASSUME SyncInv, UNCHANGED <<stage, sync, made, docIds>>, site' \in [Urls -> Pages],
         SourcesTyped', DocsTyped', RowsFrom(docs'), sources' \subseteq sources,
         \A t : Clean(t)' => Clean(t) /\ K!OfSource(t)' = K!OfSource(t)
  PROVE  SyncInv'
<1>0. SyncTyped /\ made \in Nat /\ docIds \in Nat
  BY DEF SyncInv, SyncTyped
<1>1. SyncTyped'
  BY <1>0 DEF SyncTyped
<1>2. ASSUME NEW q \in Procs PROVE Carries(q)'
  <2>1. Carries(q) /\ stage'[q] = stage[q] /\ sync'[q] = sync[q] /\ made' >= made /\ docIds' >= docIds
    BY <1>0 DEF SyncInv
  <2> QED BY <1>0, <2>1, CarriesOn
<1>3. \A t \in Nat : CleanDocs(t)'
  BY DEF SyncInv, CleanDocs
<1>4. ASSUME NEW q \in Procs, NEW t \in Nat, Works(q, t)', Clean(t)' PROVE Alone(q, t)' /\ Undisturbed(q, t)'
  <2>1. Works(q, t) /\ Clean(t) /\ K!OfSource(t)' = K!OfSource(t)
    BY <1>4 DEF Works
  <2>2. Alone(q, t) /\ Undisturbed(q, t)
    BY <2>1 DEF SyncInv, WorkKept
  <2> QED BY <2>1, <2>2 DEF Alone, Undisturbed, Holds
<1> QED BY <1>1, <1>2, <1>3, <1>4 DEF SyncInv, WorkKept

LEMMA HandKeeps ==
  ASSUME SyncInv, NEW d \in docs, K!EditDoc(d) \/ K!DeleteDoc(d)
  PROVE  SyncInv'
<1> USE DEF K!EditDoc, K!DeleteDoc
<1>0. SyncTyped /\ SourcesTyped /\ DocsTyped
  BY DEF SyncInv, SyncTyped
<1>1. UNCHANGED <<stage, sync, made, docIds, site, sources>> /\ messy' = messy \cup {d.source}
  OBVIOUS
<1> DEFINE e == [d EXCEPT !.body = Edited]
<1>2. docs' \subseteq (docs \ {d}) \cup {e} /\ docs \ {d} \subseteq docs'
  OBVIOUS
<1>3. e \in Doc /\ e.id = d.id /\ e.source = d.source /\ e.index = d.index
  <2>1. d \in Doc /\ Edited \in Chunks
    BY <1>0 DEF DocsTyped, Chunks
  <2> QED BY <2>1 DEF Doc
<1> HIDE DEF e
<1>4. DocsTyped' /\ SourcesTyped'
  BY <1>0, <1>1, <1>2, <1>3 DEF DocsTyped, SourcesTyped, K!There
<1>5. RowsFrom(docs')
  BY <1>2, <1>3 DEF RowsFrom
<1>6. \A t : Clean(t)' => Clean(t) /\ t # d.source
  BY <1>1 DEF Clean
<1>7. \A t : t # d.source => K!OfSource(t)' = K!OfSource(t)
  BY <1>2, <1>3 DEF K!OfSource
<1>8. site' \in [Urls -> Pages]
  BY <1>0, <1>1 DEF SyncTyped
<1> QED BY <1>1, <1>4, <1>5, <1>6, <1>7, <1>8, OutsideKeeps

LEMMA DeleteSourceKeeps ==
  ASSUME SyncInv, NEW r \in sources, K!DeleteSource(r)
  PROVE  SyncInv'
<1> USE DEF K!DeleteSource
<1>0. SyncTyped /\ SourcesTyped /\ DocsTyped
  BY DEF SyncInv, SyncTyped
<1>1. UNCHANGED <<stage, sync, made, docIds, site, messy>> /\ sources' = sources \ {r} /\ docs' = docs \ K!OfSource(r.id)
  OBVIOUS
<1>2. SourcesTyped'
  BY <1>0, <1>1 DEF SourcesTyped
<1>3. \A c \in sources' : c.id # r.id
  BY <1>0, <1>1 DEF SourcesTyped
<1>4. DocsTyped'
  <2>1. ASSUME NEW d \in docs' PROVE K!There(d.source)'
    <3>1. d \in docs /\ d.source # r.id
      BY <1>1, <2>1 DEF K!OfSource
    <3>2. PICK c \in sources : c.id = d.source
      BY <1>0, <3>1 DEF DocsTyped, K!There
    <3> QED BY <1>1, <3>1, <3>2 DEF K!There
  <2>2. docs' \subseteq docs
    BY <1>1
  <2> QED BY <1>0, <1>1, <2>1, <2>2 DEF DocsTyped
<1>5. RowsFrom(docs')
  BY <1>1 DEF RowsFrom
<1>6. \A t : Clean(t)' => Clean(t) /\ t # r.id
  BY <1>1, <1>3 DEF Clean
<1>7. \A t : t # r.id => K!OfSource(t)' = K!OfSource(t)
  BY <1>1 DEF K!OfSource
<1>8. site' \in [Urls -> Pages]
  BY <1>0, <1>1 DEF SyncTyped
<1> QED BY <1>1, <1>2, <1>4, <1>5, <1>6, <1>7, <1>8, OutsideKeeps

LEMMA ElsewhereKeeps ==
  ASSUME SyncInv, UNCHANGED <<sources, docs, docIds, made, stage, sync, messy>>, site' \in [Urls -> Pages]
  PROVE  SyncInv'
<1>0. SyncTyped /\ SourcesTyped /\ DocsTyped
  BY DEF SyncInv, SyncTyped
<1>1. SourcesTyped' /\ DocsTyped' /\ RowsFrom(docs')
  BY <1>0 DEF SourcesTyped, DocsTyped, K!There, RowsFrom
<1>2. \A t : Clean(t)' => Clean(t) /\ K!OfSource(t)' = K!OfSource(t)
  BY DEF Clean, K!OfSource
<1> QED BY <1>1, <1>2, OutsideKeeps

\* Some row has the least id.
LEMMA LeastId ==
  ASSUME NEW S \in SUBSET Doc, S # {}
  PROVE  \E d \in S : \A e \in S : d.id <= e.id
<1> DEFINE T == {d.id : d \in S}
<1>1. T \subseteq Nat /\ T # {}
  BY DEF Doc
<1> HIDE DEF T
<1>2. \E x \in T : \A y \in T : <<y, x>> \notin OpToRel(<, Nat)
  BY <1>1, NatLessThanWellFounded, WFMin
<1>3. PICK x \in T : \A y \in T : <<y, x>> \notin OpToRel(<, Nat)
  BY <1>2
<1>4. \A y \in T : ~(y < x)
  BY <1>1, <1>3 DEF OpToRel
<1>5. \A y \in T : x <= y
  BY <1>1, <1>4
<1> QED BY <1>5 DEF T

\* The ids handed out for a finite set of chunks are new and distinct.
LEMMA RanksDiffer ==
  ASSUME NEW N \in SUBSET Nat, IsFiniteSet(N)
  PROVE  /\ Cardinality(N) \in Nat
         /\ \A i \in N : Cardinality({j \in N : j <= i}) \in 1..Cardinality(N)
         /\ \A i, k \in N : Cardinality({j \in N : j <= i}) = Cardinality({j \in N : j <= k}) => i = k
<1> DEFINE upto(i) == {j \in N : j <= i}
<1>1. \A i \in N : IsFiniteSet(upto(i)) /\ Cardinality(upto(i)) \in Nat /\ Cardinality(upto(i)) <= Cardinality(N)
  BY FS_Subset, FS_CardinalityType
<1>2. \A i \in N : Cardinality(upto(i)) # 0
  <2> TAKE i \in N
  <2>1. i \in upto(i)
    OBVIOUS
  <2> QED BY <1>1, <2>1, FS_EmptySet
<1>3. Cardinality(N) \in Nat
  BY FS_CardinalityType
<1>4. ASSUME NEW i \in N, NEW k \in N, i < k PROVE Cardinality(upto(i)) < Cardinality(upto(k))
  <2>0. i \in Nat /\ k \in Nat /\ \A j \in N : j \in Nat
    OBVIOUS
  <2>1. upto(i) \subseteq upto(k) /\ k \in upto(k) /\ k \notin upto(i)
    <3>1. ASSUME NEW j \in N, j <= i PROVE j <= k
      BY <1>4, <2>0, <3>1
    <3>2. ~(k <= i) /\ k <= k
      BY <1>4, <2>0
    <3> QED BY <3>1, <3>2
  <2>2. upto(i) # upto(k)
    BY <2>1
  <2> HIDE DEF upto
  <2> QED BY <1>1, <2>1, <2>2, FS_Subset
<1>5. \A i \in N : Cardinality(upto(i)) \in 1..Cardinality(N)
  BY <1>1, <1>2, <1>3
<1>6. \A i, k \in N : Cardinality(upto(i)) = Cardinality(upto(k)) => i = k
  <2> TAKE i, k \in N
  <2>1. Cardinality(upto(i)) \in Nat /\ Cardinality(upto(k)) \in Nat
    BY <1>1
  <2>2. i < k => Cardinality(upto(i)) < Cardinality(upto(k))
    BY <1>4
  <2>3. k < i => Cardinality(upto(k)) < Cardinality(upto(i))
    BY <1>4
  <2> HIDE DEF upto
  <2> QED BY <2>1, <2>2, <2>3
<1> QED BY <1>3, <1>5, <1>6

LEMMA WriteKeeps ==
  ASSUME SyncInv, NEW p \in Procs, K!Write(p)
  PROVE  SyncInv'
<1>0. stage[p] = "write" /\ SyncTyped /\ stage \in [Procs -> Stages] /\ DOMAIN sync = Procs /\ Begins(p) /\ Pagewise(p)
        /\ ReadRows(p) /\ SourcesTyped /\ DocsTyped /\ docIds \in Nat /\ made \in Nat
  BY DEF SyncInv, SyncTyped, Carries, K!Write, K!At
<1>s. PICK s \in Nat : Works(p, s) /\ s \in 1..made
  BY <1>0, ItsSource
<1>1. sync[p].source = s /\ K!There(s)
  BY <1>s DEF Works, K!Write
<1> DEFINE page == sync[p].page
           u == sync[p].url
           seen == sync[p].seen
<1>pg. page \in Pages /\ page = sync[p].page
  BY <1>0 DEF Pagewise
<1>u. u \in Urls \cup {None} /\ u = sync[p].url
  BY <1>0 DEF Pagewise
<1>sn. seen \in SUBSET Doc /\ seen = sync[p].seen
  BY <1>0 DEF ReadRows
<1>rows. \A d \in seen : d.id <= docIds /\ \A e \in docs : d.id = e.id => e.source = s /\ e.index = d.index
  BY <1>0, <1>1, <1>sn DEF ReadRows
<1>len. Len(page) \in Nat /\ DOMAIN page = 1..Len(page) /\ \A i \in DOMAIN page : page[i] \in Chunks
  BY TenantAssumption, <1>pg DEF K!KnowledgeAssumption, Chunks
<1> DEFINE first(i) == CHOOSE d \in seen : d.index = i /\ \A e \in seen : e.index = i => d.id <= e.id
           had == {i \in DOMAIN page : \E d \in seen : d.index = i}
           new == {i \in DOMAIN page : i \notin had}
           changed == {i \in had : first(i).hash # page[i]}
           rank(i) == docIds + K!Cardinality({j \in new : j <= i})
           rewrite(d) == IF \E i \in changed : first(i).id = d.id
                         THEN [d EXCEPT !.body = page[d.index], !.hash = page[d.index]] ELSE d
           fresh(i) == K!NewDoc(p, i, rank(i))
           orphans == K!Orphans(p)
<1>2. /\ docIds' = docIds + K!Cardinality(new)
      /\ docs' = {rewrite(d) : d \in {e \in docs : e.id \notin orphans}} \cup {fresh(i) : i \in new}
  BY DEF K!Write
<1>orph. orphans = {d.id : d \in {d \in seen : d.index > Len(page)}}
  BY DEF K!Orphans
<1>3. /\ stage' = [stage EXCEPT ![p] = "page"] /\ UNCHANGED <<site, sources, made, messy>>
      /\ sync' = [sync EXCEPT ![p].got = @ \cup {<<u, page>>}, ![p].url = None, ![p].page = <<>>, ![p].seen = {}]
  BY DEF K!Write, K!Goto
<1> HIDE DEF page, u, seen, orphans
<1>4. \A i \in had : first(i) \in seen /\ first(i).index = i
  <2> TAKE i \in had
  <2> DEFINE S == {d \in seen : d.index = i}
  <2>1. S \in SUBSET Doc /\ S # {}
    BY <1>sn
  <2>2. \E d \in S : \A e \in S : d.id <= e.id
    BY <2>1, LeastId
  <2>3. \E d \in seen : d.index = i /\ \A e \in seen : e.index = i => d.id <= e.id
    BY <2>2
  <2> QED BY <2>3
<1>5. new \subseteq DOMAIN page /\ had \subseteq DOMAIN page /\ changed \subseteq had
        /\ (\A i \in DOMAIN page : i \in had \/ i \in new) /\ \A i \in new : \A d \in seen : d.index # i
  OBVIOUS
<1>6. \A i \in changed : first(i).hash # page[i]
  OBVIOUS
<1>7. \A i \in had : i \notin changed => first(i).hash = page[i]
  OBVIOUS
<1>8. /\ docIds' \in Nat /\ docIds' >= docIds
      /\ \A i \in new : rank(i) \in Nat /\ rank(i) > docIds /\ rank(i) <= docIds'
      /\ \A i, k \in new : rank(i) = rank(k) => i = k
  <2>1. new \in SUBSET Nat /\ IsFiniteSet(new)
    <3>1. IsFiniteSet(1..Len(page))
      BY <1>len, FS_Interval
    <3> HIDE DEF new
    <3> QED BY <1>len, <1>5, <3>1, FS_Subset
  <2>2. \A S : K!Cardinality(S) = Cardinality(S)
    BY DEF K!Cardinality, Cardinality
  <2>3. docIds' = docIds + Cardinality(new) /\ \A i : rank(i) = docIds + Cardinality({j \in new : j <= i})
    BY <1>2, <2>2
  <2> HIDE DEF new, rank
  <2>4. /\ Cardinality(new) \in Nat
        /\ \A i \in new : Cardinality({j \in new : j <= i}) \in 1..Cardinality(new)
        /\ \A i, k \in new : Cardinality({j \in new : j <= i}) = Cardinality({j \in new : j <= k}) => i = k
    BY <2>1, RanksDiffer
  <2>5. \A i \in new : Cardinality({j \in new : j <= i}) \in Nat
    BY <2>4
  <2> DEFINE c == Cardinality(new)
             upto(i) == Cardinality({j \in new : j <= i})
  <2>6. docIds' = docIds + c /\ c \in Nat /\ \A i \in new : rank(i) = docIds + upto(i) /\ upto(i) \in Nat /\ upto(i) \in 1..c
    BY <2>3, <2>4, <2>5
  <2>7. \A i, k \in new : upto(i) = upto(k) => i = k
    BY <2>4
  <2> HIDE DEF c, upto
  <2>8. \A i, k \in new : rank(i) = rank(k) => i = k
    <3> TAKE i, k \in new
    <3>1. rank(i) = rank(k) => upto(i) = upto(k)
      BY <1>0, <2>6
    <3> QED BY <2>7, <3>1
  <2> QED BY <1>0, <2>6, <2>8
<1> HIDE DEF first, had, new, rank
\* A row that is rewritten stays the row it is.
<1>9. ASSUME NEW d \in docs
      PROVE  /\ rewrite(d) \in Doc /\ rewrite(d).id = d.id /\ rewrite(d).source = d.source
             /\ rewrite(d).url = d.url /\ rewrite(d).index = d.index
             /\ d.source # s => rewrite(d) = d /\ d.id \notin orphans
  <2>1. d \in Doc
    BY <1>0 DEF DocsTyped
  <2>2. ASSUME NEW i \in changed, first(i).id = d.id PROVE d.index = i /\ d.source = s /\ i \in DOMAIN page
    BY <1>4, <1>5, <1>rows, <2>2
  <2>3. d.id \in orphans => d.source = s
    BY <1>rows, <1>orph
  <2>4. CASE \E i \in changed : first(i).id = d.id
    <3>1. page[d.index] \in Chunks /\ d.source = s
      BY <1>len, <2>2, <2>4
    <3>2. rewrite(d) = [d EXCEPT !.body = page[d.index], !.hash = page[d.index]]
      BY <2>4
    <3> QED BY <2>1, <3>1, <3>2 DEF Doc
  <2>5. CASE ~\E i \in changed : first(i).id = d.id
    <3>1. rewrite(d) = d
      BY <2>5
    <3> QED BY <2>1, <2>3, <3>1
  <2> QED BY <2>4, <2>5
<1>10. \A i \in new : fresh(i) \in Doc /\ fresh(i).id = rank(i) /\ fresh(i).source = s /\ fresh(i).url = u
         /\ fresh(i).index = i /\ fresh(i).body = page[i] /\ fresh(i).hash = page[i]
  <2> TAKE i \in new
  <2>1. i \in Nat /\ page[i] \in Chunks /\ rank(i) \in Nat
    BY <1>len, <1>5, <1>8
  <2>2. fresh(i) = [id |-> rank(i), source |-> s, url |-> u, index |-> i, body |-> page[i], hash |-> page[i]]
    BY <1>1 DEF K!NewDoc, u, page
  <2>3. i \in Nat /\ s \in Nat /\ u \in Urls \cup {None}
    BY <2>1, <1>u
  <2> QED BY <2>1, <2>2, <2>3 DEF Doc
<1>11. \A e \in docs' : (\E d \in docs : e = rewrite(d) /\ d.id \notin orphans) \/ \E i \in new : e = fresh(i)
  BY <1>2
<1>12. (\A d \in docs : d.id \notin orphans => rewrite(d) \in docs') /\ \A i \in new : fresh(i) \in docs'
  BY <1>2
<1>21. ASSUME Undisturbed(p, s)
       PROVE  /\ seen = {d \in K!OfSource(s) : d.url = u}
              /\ \A d \in K!OfSource(s) : d.url # u => rewrite(d) = d /\ d.id \notin orphans
  <2>1. seen = {d \in K!OfSource(s) : d.url = u}
    BY <1>0, <1>u, <1>sn, <1>21 DEF Undisturbed
  <2>2. ASSUME NEW d \in K!OfSource(s), d.url # u PROVE rewrite(d) = d /\ d.id \notin orphans
    <3>0. \A i \in orphans : \E e \in seen : e.id = i
      BY <1>orph
    <3>1. \A e \in seen : e.id # d.id
      BY <1>0, <2>1, <2>2 DEF DocsTyped, K!OfSource
    <3>2. \A i \in changed : first(i).id # d.id
      BY <3>1, <1>4, <1>5
    <3> QED BY <3>0, <3>1, <3>2
  <2> QED BY <2>1, <2>2
<1>22. ASSUME Undisturbed(p, s), CleanDocs(s), Clean(s), NEW d \in seen, d.id \notin orphans
       PROVE  /\ d.index \in had /\ d = first(d.index)
              /\ rewrite(d).body = page[d.index] /\ rewrite(d).hash = page[d.index]
  <2>1. d \in K!OfSource(s) /\ d.index # 0 /\ d.body = d.hash /\ d \in Doc /\ d.url = u
    BY <1>sn, <1>21, <1>22 DEF CleanDocs
  <2>2. ~(d.index > Len(page)) /\ d.index \in Nat
    BY <1>22, <1>orph, <2>1 DEF Doc
  <2>3. d.index \in DOMAIN page /\ d.index \in had
    <3>1. d.index \in DOMAIN page
      BY <1>len, <2>1, <2>2
    <3> QED BY <3>1, <1>5
  <2>4. first(d.index) \in seen /\ first(d.index).index = d.index
    BY <1>4, <2>3
  <2>5. d = first(d.index)
    BY <1>21, <1>22, <2>1, <2>4 DEF CleanDocs
  <2>6. CASE d.index \in changed
    <3>1. rewrite(d) = [d EXCEPT !.body = page[d.index], !.hash = page[d.index]]
      BY <2>5, <2>6
    <3> QED BY <2>1, <2>3, <2>5, <3>1 DEF Doc
  <2>7. CASE d.index \notin changed
    <3>1. \A i \in changed : first(i).id # d.id
      <4> SUFFICES ASSUME NEW i \in changed, first(i).id = d.id PROVE FALSE
        OBVIOUS
      <4>1. first(i) \in seen /\ first(i).index = i
        BY <1>4, <1>5
      <4>2. first(i) = d
        BY <4>1, <1>0, <1>21, <1>22 DEF DocsTyped, K!OfSource
      <4> QED BY <4>1, <4>2, <2>7
    <3>2. rewrite(d) = d
      BY <3>1
    <3> QED BY <2>1, <2>3, <2>5, <2>7, <3>2, <1>7
  <2> QED BY <2>3, <2>5, <2>6, <2>7
<1> HIDE DEF rewrite, fresh, orphans, changed
<1>13. RowsFrom(docs')
  <2> SUFFICES ASSUME NEW e \in docs'
               PROVE  e.id > docIds \/ \E d \in docs : d.id = e.id /\ d.source = e.source /\ d.index = e.index
    BY DEF RowsFrom
  <2>1. CASE \E d \in docs : e = rewrite(d) /\ d.id \notin orphans
    BY <1>9, <2>1
  <2>2. CASE \E i \in new : e = fresh(i)
    BY <1>8, <1>10, <2>2
  <2> QED BY <1>11, <2>1, <2>2
<1>14. DocsTyped'
  <2>1. \A t : K!There(t)' <=> K!There(t)
    BY <1>3 DEF K!There
  <2>2. ASSUME NEW e \in docs' PROVE e \in Doc /\ e.id <= docIds' /\ K!There(e.source)
    <3>1. CASE \E d \in docs : e = rewrite(d) /\ d.id \notin orphans
      <4>1. PICK d \in docs : e = rewrite(d)
        BY <3>1
      <4>2. d.id \in Nat /\ d.id <= docIds /\ K!There(d.source)
        BY <1>0 DEF DocsTyped, Doc
      <4> QED BY <1>0, <1>8, <1>9, <4>1, <4>2
    <3>2. CASE \E i \in new : e = fresh(i)
      BY <1>1, <1>8, <1>10, <3>2
    <3> QED BY <1>11, <3>1, <3>2
  <2>3. ASSUME NEW e \in docs', NEW f \in docs', e.id = f.id PROVE e = f
    <3>1. \A d \in docs : d.id <= docIds /\ d.id \in Nat
      BY <1>0 DEF DocsTyped, Doc
    <3>2. CASE \E i \in new : e = fresh(i)
      <4>1. PICK i \in new : e = fresh(i)
        BY <3>2
      <4>2. e.id > docIds /\ e.id = rank(i)
        BY <4>1, <1>8, <1>10
      <4>3. PICK k \in new : f = fresh(k)
        BY <4>2, <3>1, <1>0, <1>8, <1>9, <1>11, <2>3
      <4>4. rank(i) = rank(k)
        BY <4>2, <4>3, <1>10, <2>3
      <4>5. i = k
        BY <4>4, <1>8
      <4> QED BY <4>1, <4>3, <4>5
    <3>3. CASE \E d \in docs : e = rewrite(d) /\ d.id \notin orphans
      <4>1. PICK d \in docs : e = rewrite(d)
        BY <3>3
      <4>2. e.id = d.id
        BY <4>1, <1>9
      <4>3. PICK c \in docs : f = rewrite(c)
        <5>1. ~\E i \in new : f = fresh(i)
          <6>1. d.id <= docIds /\ d.id \in Nat /\ f.id = d.id
            BY <3>1, <4>2, <2>3
          <6> SUFFICES ASSUME NEW i \in new, f = fresh(i) PROVE FALSE
            OBVIOUS
          <6>2. rank(i) > docIds /\ rank(i) \in Nat /\ f.id = rank(i)
            BY <1>8, <1>10
          <6> QED BY <1>0, <6>1, <6>2
        <5> QED BY <5>1, <1>11
      <4>4. c.id = d.id
        BY <4>2, <4>3, <1>9, <2>3
      <4>5. c = d
        BY <4>4, <1>0 DEF DocsTyped
      <4> QED BY <4>1, <4>3, <4>5
    <3> QED BY <1>11, <3>2, <3>3
  <2>4. \A e \in docs' : e \in Doc /\ e.id <= docIds' /\ K!There(e.source)'
    BY <2>1, <2>2
  <2> QED BY <2>3, <2>4 DEF DocsTyped
<1>15. ASSUME NEW t, t # s PROVE K!OfSource(t)' = K!OfSource(t)
  <2>1. ASSUME NEW e \in docs', e.source = t PROVE e \in docs
    <3>1. PICK d \in docs : e = rewrite(d)
      BY <1>10, <1>11, <1>15, <2>1
    <3> QED BY <3>1, <1>9, <1>15, <2>1
  <2>2. ASSUME NEW e \in docs, e.source = t PROVE e \in docs'
    BY <1>9, <1>12, <1>15, <2>2
  <2> QED BY <2>1, <2>2 DEF K!OfSource
<1>16. /\ DOMAIN sync' = Procs /\ \A q \in Procs : q # p => sync'[q] = sync[q]
       /\ ReqFields \subseteq DOMAIN sync'[p] /\ sync'[p].source = sync[p].source /\ sync'[p].kind = sync[p].kind
       /\ sync'[p].got = sync[p].got \cup {<<u, page>>} /\ sync'[p].todo = sync[p].todo /\ sync'[p].urls = sync[p].urls
       /\ sync'[p].shot = sync[p].shot
  <2> DEFINE r0 == [sync[p] EXCEPT !.got = @ \cup {<<u, page>>}, !.url = None]
             r1 == [r0 EXCEPT !.page = <<>>, !.seen = {}]
  <2>1. ReqFields \subseteq DOMAIN r0 /\ r0.source = sync[p].source /\ r0.kind = sync[p].kind
        /\ r0.got = sync[p].got \cup {<<u, page>>} /\ r0.todo = sync[p].todo /\ r0.urls = sync[p].urls
        /\ r0.shot = sync[p].shot
    BY <1>0 DEF Begins, ReqFields
  <2>2. sync' = [sync EXCEPT ![p] = r1]
    BY <1>0, <1>3
  <2> HIDE DEF r0
  <2>3. ReqFields \subseteq DOMAIN r1 /\ r1.source = r0.source /\ r1.kind = r0.kind /\ r1.got = r0.got
        /\ r1.todo = r0.todo /\ r1.urls = r0.urls /\ r1.shot = r0.shot
    BY <2>1 DEF ReqFields
  <2> QED BY <1>0, <2>1, <2>2, <2>3
<1>17. stage' \in [Procs -> Stages] /\ stage'[p] = "page" /\ \A q \in Procs : q # p => stage'[q] = stage[q]
  BY <1>0, <1>3, GoesTo DEF Stages
<1>18. Carries(p)'
  <2>1. Begins(p)'
    BY <1>0, <1>3, <1>16, <1>17 DEF Begins
  <2>2. Pagewise(p)'
    BY <1>0, <1>pg, <1>u, <1>16, <1>17 DEF Pagewise
  <2> QED BY <2>1, <2>2, <1>17 DEF Carries, ReadRows
<1>19. SyncTyped'
  BY <1>0, <1>3, <1>8, <1>14, <1>16, <1>17 DEF SyncTyped, SourcesTyped
<1>20. Clean(s)' <=> Clean(s)
  BY <1>3 DEF Clean
\* What the source holds when nobody has disturbed the request.
<1>23. ASSUME Undisturbed(p, s), CleanDocs(s), Clean(s)
       PROVE  /\ \A e \in K!OfSource(s)' : e.url # u => e \in K!OfSource(s)
              /\ \A e \in K!OfSource(s) : e.url # u => e \in K!OfSource(s)'
              /\ \A e \in K!OfSource(s)' : e.url = u =>
                   /\ e.index \in DOMAIN page /\ e.body = page[e.index] /\ e.hash = page[e.index]
                   /\ e = IF e.index \in had THEN rewrite(first(e.index)) ELSE fresh(e.index)
              /\ \A j \in DOMAIN page : \E e \in K!OfSource(s)' : e.url = u /\ e.index = j
  <2>1. ASSUME NEW e \in K!OfSource(s)', e.url # u PROVE e \in K!OfSource(s)
    <3>1. PICK d \in docs : e = rewrite(d)
      BY <1>10, <1>11, <2>1 DEF K!OfSource
    <3>2. d \in K!OfSource(s) /\ d.url # u
      BY <1>9, <2>1, <3>1 DEF K!OfSource
    <3> QED BY <1>21, <1>23, <3>1, <3>2
  <2>2. ASSUME NEW e \in K!OfSource(s), e.url # u PROVE e \in K!OfSource(s)'
    <3>1. rewrite(e) = e /\ e.id \notin orphans
      BY <1>21, <1>23, <2>2
    <3> QED BY <3>1, <1>12 DEF K!OfSource
  <2>3. ASSUME NEW e \in K!OfSource(s)', e.url = u
        PROVE  /\ e.index \in DOMAIN page /\ e.body = page[e.index] /\ e.hash = page[e.index]
               /\ e = IF e.index \in had THEN rewrite(first(e.index)) ELSE fresh(e.index)
    <3>1. CASE \E d \in docs : e = rewrite(d) /\ d.id \notin orphans
      <4>1. PICK d \in docs : e = rewrite(d) /\ d.id \notin orphans
        BY <3>1
      <4>2. d \in seen /\ e.index = d.index
        BY <1>9, <1>21, <1>23, <2>3, <4>1 DEF K!OfSource
      <4>3. /\ d.index \in had /\ d = first(d.index)
            /\ rewrite(d).body = page[d.index] /\ rewrite(d).hash = page[d.index]
        BY <1>22, <1>23, <4>1, <4>2
      <4> QED BY <1>5, <4>1, <4>2, <4>3
    <3>2. CASE \E i \in new : e = fresh(i)
      <4>1. PICK i \in new : e = fresh(i)
        BY <3>2
      <4>2. e.index = i /\ e.body = page[i] /\ e.hash = page[i] /\ i \in DOMAIN page
        BY <1>5, <1>10, <4>1
      <4>3. i \notin had
        BY <1>4, <1>5
      <4> QED BY <4>1, <4>2, <4>3
    <3> QED BY <1>11, <3>1, <3>2 DEF K!OfSource
  <2>4. ASSUME NEW j \in DOMAIN page PROVE \E e \in K!OfSource(s)' : e.url = u /\ e.index = j
    <3>1. CASE j \in new
      <4>1. fresh(j) \in K!OfSource(s)'
        BY <1>10, <1>12, <3>1 DEF K!OfSource
      <4> QED BY <4>1, <1>10, <3>1
    <3>2. CASE j \in had
      <4> DEFINE d == first(j)
      <4>1. d \in seen /\ d.index = j
        BY <1>4, <3>2
      <4> HIDE DEF d
      <4>2. d \in docs /\ d.source = s /\ d.url = u
        BY <4>1, <1>21, <1>23 DEF K!OfSource
      <4>3. d.id \notin orphans
        <5> SUFFICES ASSUME NEW c \in seen, c.index > Len(page), c.id = d.id PROVE FALSE
          BY <1>orph
        <5>1. c = d
          BY <1>0, <1>21, <1>23, <4>2 DEF DocsTyped, K!OfSource
        <5> QED BY <5>1, <4>1, <1>len
      <4>4. rewrite(d) \in K!OfSource(s)' /\ rewrite(d).url = u /\ rewrite(d).index = j
        BY <4>1, <4>2, <4>3, <1>9, <1>12 DEF K!OfSource
      <4> QED BY <4>4
    <3> QED BY <1>5, <3>1, <3>2
  <2> QED BY <2>1, <2>2, <2>3, <2>4
<1>24. Clean(s) => Alone(p, s) /\ Undisturbed(p, s) /\ CleanDocs(s)
  BY <1>s DEF SyncInv, WorkKept
<1>25. CleanDocs(s)'
  <2> SUFFICES ASSUME Clean(s)
               PROVE  /\ \A d, e \in K!OfSource(s)' : d.url = e.url /\ d.index = e.index => d = e
                      /\ \A d \in K!OfSource(s)' : d.body = d.hash /\ d.index # 0
    BY <1>20 DEF CleanDocs
  <2>1. Undisturbed(p, s) /\ CleanDocs(s)
    BY <1>24
  <2>2. \A d, e \in K!OfSource(s)' : d.url = e.url /\ d.index = e.index => d = e
    <3> TAKE d, e \in K!OfSource(s)'
    <3> SUFFICES ASSUME d.url = e.url, d.index = e.index PROVE d = e
      OBVIOUS
    <3>1. CASE d.url = u
      BY ZenonT(30), <1>23, <2>1, <3>1
    <3>2. CASE d.url # u
      BY <1>23, <2>1, <3>2 DEF CleanDocs
    <3> QED BY <3>1, <3>2
  <2>3. \A d \in K!OfSource(s)' : d.body = d.hash /\ d.index # 0
    <3> TAKE d \in K!OfSource(s)'
    <3>1. CASE d.url = u
      BY <1>23, <1>len, <2>1, <3>1
    <3>2. CASE d.url # u
      BY <1>23, <2>1, <3>2 DEF CleanDocs
    <3> QED BY <3>1, <3>2
  <2> QED BY <2>2, <2>3
<1>26. ASSUME Clean(s), Undisturbed(p, s) PROVE Undisturbed(p, s)'
  <2>0. CleanDocs(s)
    BY <1>24, <1>26
  <2>1. ASSUME NEW g \in sync'[p].got PROVE Holds(s, g[1], g[2])'
    <3>1. CASE g = <<u, page>>
      <4>1. g[1] = u /\ g[2] = page
        BY <3>1
      <4> QED BY <1>23, <1>26, <2>0, <4>1 DEF Holds
    <3>2. CASE g \in sync[p].got
      <4>1. Holds(s, g[1], g[2]) /\ g[1] # u
        BY <1>0, <1>u, <1>26, <3>2 DEF Undisturbed, Pagewise
      <4> QED BY <1>23, <1>26, <2>0, <4>1 DEF Holds
    <3> QED BY <1>16, <3>1, <3>2
  <2> QED BY <2>1, <1>17 DEF Undisturbed
<1>27. SameSources /\ Works(p, s)'
  BY <1>1, <1>3, <1>16, <1>17 DEF SameSources, Works
<1> QED BY <1>s, <1>3, <1>8, <1>13, <1>15, <1>16, <1>17, <1>18, <1>19, <1>25, <1>26, <1>27, OneMoves

LEMMA SyncNext == SyncInv /\ [K!Next]_kVars => SyncInv'
<1> SUFFICES ASSUME SyncInv, [K!Next]_kVars PROVE SyncInv'
  OBVIOUS
<1>0. site \in [Urls -> Pages]
  BY DEF SyncInv, SyncTyped
<1>1. ASSUME NEW p \in Procs, K!Request(p) PROVE SyncInv'
  BY <1>1, EnsureKeeps, InsertSourceKeeps, MarkSyncingKeeps, SyncFailsKeeps, ListKeeps, FetchProductsKeeps,
     ExtractFileKeeps, FetchKeeps, ReadExistingKeeps, WriteKeeps, WriteFailsKeeps, PruneKeeps, CountKeeps,
     CompleteKeeps, AddDocKeeps, BumpCountKeeps DEF K!Request
<1>2. ASSUME NEW d \in docs, K!EditDoc(d) \/ K!DeleteDoc(d) PROVE SyncInv'
  BY <1>2, HandKeeps
<1>3. ASSUME NEW r \in sources, K!DeleteSource(r) PROVE SyncInv'
  BY <1>3, DeleteSourceKeeps
<1>4. ASSUME NEW u \in Urls, NEW page \in Pages, K!SiteChanges(u, page) PROVE SyncInv'
  <2>1. UNCHANGED <<sources, docs, docIds, made, stage, sync, messy>> /\ site' \in [Urls -> Pages]
    BY <1>0, <1>4 DEF K!SiteChanges
  <2> QED BY <2>1, ElsewhereKeeps
<1>5. CASE UNCHANGED kVars
  <2>1. UNCHANGED <<sources, docs, docIds, made, stage, sync, messy>> /\ site' \in [Urls -> Pages]
    BY <1>0, <1>5 DEF kVars
  <2> QED BY <2>1, ElsewhereKeeps
<1> QED BY <1>1, <1>2, <1>3, <1>4, <1>5 DEF K!Next

Kept(s, u) == {d \in K!OfSource(s) : d.url = u}

\* A page that is held is held once.
LEMMA HeldOnce ==
  ASSUME SyncInv, NEW s \in Nat, Clean(s), NEW u, NEW page \in Pages, Holds(s, u, page)
  PROVE  /\ K!Cardinality(Kept(s, u)) = Len(page)
         /\ \A j \in DOMAIN page : \E d \in Kept(s, u) : d.index = j /\ d.body = page[j]
<1> DEFINE kept == Kept(s, u)
           at_(j) == CHOOSE d \in kept : d.index = j
           f == [j \in 1..Len(page) |-> at_(j)]
<1>0. Len(page) \in Nat /\ DOMAIN page = 1..Len(page)
  BY TenantAssumption DEF K!KnowledgeAssumption
<1>1. \A d, e \in kept : d.index = e.index => d = e
  BY DEF SyncInv, CleanDocs, Kept
<1>2. \A d \in kept : d.index \in 1..Len(page) /\ d.body = page[d.index]
  BY <1>0 DEF Holds, Kept
<1>3. \A j \in 1..Len(page) : \E d \in kept : d.index = j
  BY <1>0 DEF Holds, Kept
<1>4. \A j \in 1..Len(page) : at_(j) \in kept /\ at_(j).index = j
  BY <1>3
<1> HIDE DEF kept, at_
<1>5. f \in Bijection(1..Len(page), kept)
  <2>1. f \in [1..Len(page) -> kept]
    BY <1>4
  <2>2. \A i, j \in 1..Len(page) : f[i] = f[j] => i = j
    BY <1>4
  <2>3. \A d \in kept : \E j \in 1..Len(page) : f[j] = d
    BY <1>1, <1>2, <1>4
  <2> QED BY <2>1, <2>2, <2>3 DEF Bijection, Injection, Surjection, IsInjective
<1>6. ExistsBijection(1..Len(page), kept)
  BY <1>5 DEF ExistsBijection
<1>7. Cardinality(kept) = Len(page)
  BY <1>0, <1>6, FS_CountingElements
<1>8. K!Cardinality(kept) = Len(page)
  BY <1>7 DEF K!Cardinality, Cardinality
<1>9. \A j \in DOMAIN page : \E d \in kept : d.index = j /\ d.body = page[j]
  BY <1>0, <1>2, <1>3
<1> QED BY <1>8, <1>9 DEF kept

\* However requests, edits and deletions overlap and the site changes, a sync
\* that nobody disturbed leaves of every page it has read exactly its chunks.
THEOREM SyncIsFaithfulHolds == K!Spec => []SyncIsFaithful
<1>1. [K!Next]_K!vars => [K!Next]_kVars
  BY DEF K!vars, kVars
<1>2. SyncInv => SyncIsFaithful
  <2> SUFFICES ASSUME SyncInv, NEW p \in Procs, stage[p] = "count", K!There(sync[p].source), sync[p].source \notin messy
               PROVE  /\ \A g \in sync[p].got :
                           LET kept == {d \in K!OfSource(sync[p].source) : d.url = g[1]} IN
                           /\ K!Cardinality(kept) = Len(g[2])
                           /\ \A j \in DOMAIN g[2] : \E d \in kept : d.index = j /\ d.body = g[2][j]
                      /\ (sync[p].kind = "sitemap" /\ sync[p].urls # {}) =>
                           \A d \in K!OfSource(sync[p].source) : d.url \in sync[p].urls
    BY DEF SyncIsFaithful, K!SyncIsFaithful, K!At
  <2>1. Begins(p) /\ Pagewise(p)
    BY DEF SyncInv, Carries
  <2>2. PICK s \in Nat : s = sync[p].source /\ Works(p, s) /\ Clean(s)
    <3>1. sync[p].source \in Nat /\ made \in Nat
      BY <2>1 DEF Begins, SyncInv, SyncTyped
    <3>2. Clean(sync[p].source)
      BY <2>1 DEF Begins, Clean, K!There
    <3> QED BY <3>1, <3>2 DEF Works
  <2>3. Undisturbed(p, s)
    BY <2>2 DEF SyncInv, WorkKept
  <2>4. ASSUME NEW g \in sync[p].got
        PROVE  LET kept == {d \in K!OfSource(s) : d.url = g[1]} IN
               /\ K!Cardinality(kept) = Len(g[2])
               /\ \A j \in DOMAIN g[2] : \E d \in kept : d.index = j /\ d.body = g[2][j]
    <3>1. g[2] \in Pages /\ Holds(s, g[1], g[2])
      BY <2>1, <2>3 DEF Pagewise, Undisturbed
    <3> DEFINE u == g[1]
               page == g[2]
    <3> HIDE DEF u, page
    <3>2. page \in Pages /\ Holds(s, u, page)
      BY <3>1 DEF u, page
    <3>3. /\ K!Cardinality(Kept(s, u)) = Len(page)
          /\ \A j \in DOMAIN page : \E d \in Kept(s, u) : d.index = j /\ d.body = page[j]
      BY <2>2, <3>2, HeldOnce
    <3> QED BY <3>3 DEF u, page, Kept
  <2> QED BY ZenonT(30), <2>2, <2>3, <2>4 DEF Undisturbed
<1> QED BY <1>1, <1>2, SyncInit, SyncNext, PTL DEF K!Spec

-----------------------------------------------------------------------------
(* The whole: a behaviour of Tenant is one of every part. *)

LEMMA EachPart ==
  TenantSpec => Spec /\ A!Spec /\ W!Spec /\ C!Spec /\ K!Spec /\ L!Spec
<1> DEFINE all == <<part, vars, aVars, wVars, cVars, kVars, lVars>>
<1>1. TenantInit => Init /\ A!Init /\ W!Init /\ C!Init /\ K!Init /\ L!Init
  BY DEF TenantInit
<1>2. [TenantNext]_all => /\ [Next]_vars /\ [A!Next]_aVars /\ [W!Next]_wVars
                          /\ [C!Next]_cVars /\ [K!Next]_kVars /\ [L!Next]_lVars
  BY DEF TenantNext
<1>3. [TenantNext]_all => /\ [Next]_vars /\ [A!Next]_(A!vars) /\ [W!Next]_(W!vars)
                          /\ [C!Next]_(C!vars) /\ [K!Next]_(K!vars) /\ [L!Next]_(L!vars)
  BY <1>2 DEF aVars, wVars, cVars, kVars, lVars, A!vars, W!vars, C!vars, K!vars, L!vars
<1> QED BY <1>1, <1>3, PTL DEF TenantSpec, Spec, A!Spec, W!Spec, C!Spec, K!Spec, L!Spec

\* What serves a tenant keeps everything its parts promise, in the composition the
\* run explores, for every value of its constants.
THEOREM TenantKeepsItsWord ==
  TenantSpec => [](/\ ConfiguredIsBacked /\ ActiveIsServed /\ OwnerGetsIn /\ NoticeBudget /\ RowsTellTheTruth
                   /\ OnlySummarisedGo /\ PromiseIsFlagged /\ SyncIsFaithful /\ LastWordIsTaught)
BY EachPart, ConfiguredIsBackedHolds, ActiveIsServedHolds, OwnerGetsInHolds, NoticeBudgetHolds, RowsTellTheTruthHolds,
   OnlySummarisedGoHolds, PromiseIsFlaggedHolds, SyncIsFaithfulHolds, LastWordIsTaughtHolds, PTL
=============================================================================
