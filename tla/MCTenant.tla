------------------------------- MODULE MCTenant -------------------------------
(* Values for a run of Tenant. *)
EXTENDS Tenant, TLC

CONSTANTS q1, e1, c1, c2

MCDefaultTypes == q1 :> {"order.confirmed"}
MCType == e1 :> "order.confirmed"
MCBatch == c1 :> 2 @@ c2 :> 1
MCPages == {<<>>, <<"a">>, <<"b", "a">>}

MCSymmetry == Permutations(Procs) \cup Permutations(Runs) \cup Permutations(Texts)
=============================================================================
