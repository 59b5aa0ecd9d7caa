------------------------------ MODULE MCPackers ------------------------------
(* Values for a run of Packing. *)
EXTENDS Packing

CONSTANTS o1, o2, p1, p2, t1, t2, t3, a, b, a1, a2, b1

MCLeg == (o1 :> "locker") @@ (o2 :> "door")
MCPoints == (p1 :> {"locker", "door"}) @@ (p2 :> {"locker"})
MCWeight == (p1 :> 1) @@ (p2 :> 2)
MCProc == (t1 :> a) @@ (t2 :> a) @@ (t3 :> b)
MCPool == (a :> {a1, a2}) @@ (b :> {b1})

MCSymmetry == Permutations(Requests) \cup Permutations(Invitations)
=============================================================================
