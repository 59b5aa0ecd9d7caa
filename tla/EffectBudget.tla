---------------------------- MODULE EffectBudget ----------------------------
(***************************************************************************)
(* What the idempotency cache promises about one business operation (one   *)
(* courier shipment, one Shopify fulfilment, one WhatsApp message): the    *)
(* upstream side effect is paid from a budget.  The budget starts at one,  *)
(* and it grows only when something happens that the cache cannot hide     *)
(* from the upstream service.                                              *)
(***************************************************************************)
EXTENDS Naturals

VARIABLES spent,    \* side effects the upstream service has performed
          granted   \* side effects it may have performed so far

vars == <<spent, granted>>

Init == spent = 0 /\ granted = 1

\* The upstream service performs the side effect once more.
Spend == spent < granted /\ spent' = spent + 1 /\ UNCHANGED granted

\* One of the events that excuse one more side effect.
Grant == granted' = granted + 1 /\ UNCHANGED spent

Next == Spend \/ Grant

Spec == Init /\ [][Next]_vars
=============================================================================
