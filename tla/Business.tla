------------------------------- MODULE Business -------------------------------
(***************************************************************************)
(* A tenant's customers: the campaigns that win them back, and the         *)
(* transactions that count their orders.  The two share no state here; a   *)
(* behaviour takes the steps of one of them, so that a run has the states  *)
(* of each and not their product.                                          *)
(***************************************************************************)
EXTENDS Integers

CONSTANTS Customers, Steps, FirstSteps, Passes, BatchSize, NoStep, MaxRows, MaxEdits, MaxTrouble,
          Runs, Bought, OrderOf, PoolSize, None, MaxAttempts
VARIABLES side, campaign, steps, customers, sends, passes, messages, excused, orphans, edits, troubles,
          run, free, held, found, seen, stored, count, attempts, lost

M == INSTANCE Marketing WITH MaxMoves <- MaxEdits, moves <- edits
C == INSTANCE Customers WITH Orders <- Bought, Pool <- PoolSize, pc <- run, lock <- held, orders <- stored

ASSUME BusinessAssumption == M!MarketingAssumption /\ C!CustomersAssumption

mVars == <<campaign, steps, customers, sends, passes, messages, excused, orphans, edits, troubles>>
cVars == <<run, free, held, found, seen, stored, count, attempts, lost>>
bVars == <<side, mVars, cVars>>

Counting(step) == side = "customers" /\ step /\ UNCHANGED <<side, mVars>>
Campaigning(step) == side = "campaigns" /\ step /\ UNCHANGED <<side, cVars>>

BusinessInit == M!Init /\ C!Init /\ side \in {"customers", "campaigns"}
BusinessNext == Counting(C!Next) \/ Campaigning(M!Next)
BusinessSpec == BusinessInit /\ [][BusinessNext]_bVars

\* What each promises of overlapping passes and transactions.
StepHeardOnce == M!StepHeardOnce
DueSendSettles == M!DueSendSettles
OrdersAreCounted == C!OrdersAreCounted
SubmissionEnds == C!SubmissionEnds
=============================================================================
