------------------------------- MODULE Packing -------------------------------
(***************************************************************************)
(* What a tenant's packers live through: the orders they are assigned,     *)
(* the invites that bring them and the digests they are sent.  The three   *)
(* share no state here; a behaviour takes the steps of one of them, so     *)
(* that a run has the states of each and not their product.                *)
(***************************************************************************)
EXTENDS Packers

CONSTANTS Invitations, Callers, Readers, Ticks, Proc, Pool
VARIABLES part, accounts, invites, lapsed, roster, callers,
          lock, pc, due, sent, marked, clean

I == INSTANCE PackerInvites WITH Invites <- Invitations, None <- Nobody, links <- roster, reqs <- callers
D == INSTANCE PackerDigest WITH Packers <- Readers, None <- Nobody

ASSUME PackingAssumption == I!InvitesAssumption /\ D!DigestAssumption

iVars == <<accounts, invites, lapsed, roster, callers>>
dVars == <<lock, pc, due, sent, marked, clean>>

PackingInit == Init /\ I!Init /\ D!Init /\ part \in {"assignment", "invites", "digest"}

PackingNext ==
    \/ part = "assignment" /\ Next /\ UNCHANGED <<part, iVars, dVars>>
    \/ part = "invites" /\ I!Next /\ UNCHANGED <<part, vars, dVars>>
    \/ part = "digest" /\ D!Next /\ UNCHANGED <<part, vars, iVars>>

PackingSpec == PackingInit /\ [][PackingNext]_<<part, vars, iVars, dVars>>

\* What each promises of overlapping requests and passes.
LinkNamesItsInvite == I!LinkNamesItsInvite
DigestOnce == D!DigestOnce
=============================================================================
