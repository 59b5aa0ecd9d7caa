------------------------------ MODULE MCFulfilment -----------------------------
(* Courier statuses of Fulfilment for TLC: the answer without a status, one on  *)
(* the way and the two ends.                                                    *)
EXTENDS Fulfilment
CourierStatuses == {{}, {"transit"}, {"delivered"}, {"cancel"}}
=============================================================================
