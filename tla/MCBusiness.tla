------------------------------ MODULE MCBusiness ------------------------------
(* Values for a run of Business, and the fairness of its passes and runs. *)
EXTENDS Business, TLC

CONSTANTS y1, y2, r1, r2, r3, o1, o2

MCOrder == r1 :> o1 @@ r2 :> o1 @@ r3 :> o2

\* Each formula is the fairness of a run or of a pass: only one side ever steps.
MCSpec ==
  /\ BusinessSpec
  /\ WF_bVars(Counting(C!Step(r1)) \/ Campaigning(M!PassStep(y1)))
  /\ WF_bVars(Counting(C!Step(r2)) \/ Campaigning(M!PassStep(y2)))
  /\ WF_bVars(Counting(C!Step(r3)))
=============================================================================
