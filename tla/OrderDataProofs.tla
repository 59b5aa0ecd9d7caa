---------------------------- MODULE OrderDataProofs ----------------------------
(***************************************************************************)
(* Proofs about OrderData for any fields, points, lockers, confidences,    *)
(* extractions, overrides, tenants and packers, and any number of runs and *)
(* interventions.                                                          *)
(*                                                                         *)
(* The invariant says what each stage may rely on: GeoInv to PayloadInv    *)
(* follow the data of a run from stage to stage, SilentMeansComplete adds  *)
(* what an approval of the caretaker has seen, and KeyInv says that the    *)
(* courier has nothing that the row does not tell.                         *)
(***************************************************************************)
EXTENDS OrderData, FiniteSetTheorems, TLAPS

Origins == {None, "google", "ai"}
Place == [address : [Vital -> Origins], point : Points \cup {None}]
Decisions == {"skipped", "auto_merged_high", "auto_merged_low", "flagged"}
Recon == [decision : Decisions, place : Place]
Eval == [verdict : {"approve", "review", "reject"}, resolution : {None, "approved", "rejected"},
         overrides : {NoOverrides} \cup Overrides]

-----------------------------------------------------------------------------
(* What reconciliation can make of an address. *)

\* Neither loses a field nor the coordinates of the other.
Keeps(new, old) ==
  /\ Missing(new) \subseteq Missing(old)
  /\ old.point # None => new.point # None

LEMMA MissingFinite == \A place : IsFiniteSet(Missing(place))
  BY OrderDataAssumption, FS_Subset DEF Missing

LEMMA GooglePlace ==
  ASSUME NEW place \in Place, NEW found \in SUBSET Vital, NEW p \in Points
  PROVE  Google(place, found, p) \in Place /\ Keeps(Google(place, found, p), place)
  BY OrderDataAssumption DEF Google, Place, Origins, Keeps, Missing

LEMMA MergePlace ==
  ASSUME NEW place \in Place, NEW suggestion
  PROVE  Merge(place, suggestion) \in Place /\ Keeps(Merge(place, suggestion), place)
  BY OrderDataAssumption DEF Merge, Place, Origins, Keeps, Missing

LEMMA NowherePlace == Nowhere \in Place
  BY DEF Nowhere, Place, Origins

LEMMA KeepsTransitive ==
  ASSUME NEW a, NEW b, NEW c, Keeps(a, b), Keeps(b, c)
  PROVE  Keeps(a, c)
  BY DEF Keeps

\* What the two passes work on.
Work(place) == {w \in [place : Place, confidence : Int, ai : BOOLEAN] : Keeps(w.place, place)}

LEMMA WorkIs ==
  ASSUME NEW place, NEW new \in Place, NEW confidence \in Int, NEW ai \in BOOLEAN, Keeps(new, place)
  PROVE  [place |-> new, confidence |-> confidence, ai |-> ai] \in Work(place)
  BY DEF Work

LEMMA RegeocodedKeeps ==
  ASSUME NEW place \in Place, NEW w \in Regeocoded(place)
  PROVE  w \in Work(place)
<1>1. CASE w = [place |-> place, confidence |-> 0, ai |-> FALSE]
  BY <1>1 DEF Work, Keeps
<1>2. CASE \E found \in SUBSET Vital, p \in Points :
             w = [place |-> Google(place, found, p), ai |-> FALSE,
                  confidence |-> IF Missing(Google(place, found, p)) = {} THEN 92 ELSE 70]
  BY <1>2, GooglePlace DEF Work
<1> QED BY <1>1, <1>2 DEF Regeocoded

LEMMA SuggestedKeeps ==
  ASSUME NEW place \in Place, NEW v \in Work(place), NEW a \in Advice,
         NEW w \in Suggested(v, a.fields, a.confidence)
  PROVE  w \in Work(place)
<1>1. v.place \in Place /\ Keeps(v.place, place) /\ a.confidence \in Int
  <2>1. v.place \in Place /\ Keeps(v.place, place)
    BY DEF Work
  <2>2. a.confidence \in Confidences
    BY DEF Advice
  <2>3. \A c \in Confidences : c \in Int
    BY OrderDataAssumption
  <2> QED BY <2>1, <2>2, <2>3
<1>2. CASE w = [place |-> Merge(v.place, a.fields), ai |-> TRUE, confidence |-> a.confidence]
  <2>1. Merge(v.place, a.fields) \in Place /\ Keeps(Merge(v.place, a.fields), place)
    BY <1>1, MergePlace, KeepsTransitive
  <2> QED BY <1>1, <1>2, <2>1, WorkIs
<1> DEFINE answers == {v.place} \cup {Google(v.place, found, p) : found \in SUBSET Vital, p \in Points}
<1>3. ASSUME NEW b \in answers,
             w = [place |-> b, ai |-> TRUE,
                  confidence |-> IF a.confidence < 88 THEN 88 ELSE a.confidence]
      PROVE  w \in Work(place)
  <2>1. b \in Place /\ Keeps(b, place)
    <3>1. CASE b = v.place  BY <1>1, <3>1
    <3>2. CASE \E found \in SUBSET Vital, p \in Points : b = Google(v.place, found, p)
      BY <1>1, <3>2, GooglePlace, KeepsTransitive
    <3> QED BY <3>1, <3>2
  <2>2. (IF a.confidence < 88 THEN 88 ELSE a.confidence) \in Int
    BY <1>1
  <2> HIDE DEF answers
  <2> QED BY <1>3, <2>1, <2>2, WorkIs
<1> QED BY <1>2, <1>3 DEF Suggested

LEMMA AdvisedKeeps ==
  ASSUME NEW place \in Place, NEW v \in Work(place), NEW concern, NEW w \in Advised(v, concern)
  PROVE  w \in Work(place)
<1>1. CASE w = v
  BY <1>1
<1>2. CASE \E a \in Advice : w \in Suggested(v, a.fields, a.confidence)
  BY <1>2, SuggestedKeeps
<1> QED BY <1>1, <1>2 DEF Advised

LEMMA DecisionTyped ==
  ASSUME NEW w
  PROVE  Decision(w) \in Decisions /\ (Decision(w) # "flagged" => Missing(w.place) = {})
  BY DEF Decision, Decisions

\* No answer of the geocoder or the model takes anything away, and what is not
\* flagged is complete.
LEMMA ReconciliationKeeps ==
  ASSUME NEW place \in Place, NEW concern, NEW r \in Reconciliations(place, concern)
  PROVE  /\ r \in Recon /\ Keeps(r.place, place)
         /\ r.decision # "flagged" => Missing(r.place) = {}
<1>1. CASE Missing(place) = {} /\ ~concern
  BY <1>1 DEF Reconciliations, Recon, Decisions, Keeps
<1>2. CASE ~(Missing(place) = {} /\ ~concern)
  <2>1. PICK w \in UNION {Advised(v, concern) : v \in Regeocoded(place)} :
          r = [decision |-> Decision(w), place |-> w.place]
    BY <1>2 DEF Reconciliations
  <2>2. w \in Work(place)
    BY <2>1, RegeocodedKeeps, AdvisedKeeps
  <2> QED BY <2>1, <2>2, DecisionTyped DEF Work, Recon
<1> QED BY <1>1, <1>2

-----------------------------------------------------------------------------
(* The inductive invariant. *)

AfterLocate == {"reconcile", "assemble", "route", "fork", "review", "submit"}
AfterReconcile == AfterLocate \ {"reconcile"}
AfterAssemble == AfterReconcile \ {"assemble"}

Shape ==
  /\ stage \in {"idle", "validate", "locate"} \cup AfterLocate
  /\ evals \in Seq(Eval)
  /\ order = [kind |-> order.kind, route |-> order.route, payload |-> order.payload]
  /\ acts \in Nat

GeoInv == stage \in AfterLocate => geo \in Place

ReconInv ==
  IF stage \in AfterReconcile
    THEN /\ recon \in Recon /\ Keeps(recon.place, geo) /\ row = recon.decision
         /\ recon.decision # "flagged" => Missing(recon.place) = {}
    ELSE recon = None

CustomerInv ==
  IF stage \in AfterAssemble
    THEN \A f \in Missing(customer.place) \ Missing(recon.place) : Blanked(f)
    ELSE customer = None

LockerInv == stage = "fork" => (locker = None \/ (geo.point # None /\ locker = Near[geo.point]))

Fits ==
  /\ payload.from.kind = Service[customer.method].from
  /\ payload.to.kind = Service[customer.method].to
  /\ (payload.to.kind = "locker") => (geo.point # None /\ payload.to.at = Near[geo.point])
  /\ payload.packer <=> payload.from.of = "packer"

PayloadInv == IF stage \in {"review", "submit"} THEN Fits ELSE payload = None

RunInv == GeoInv /\ ReconInv /\ CustomerInv /\ LockerInv /\ PayloadInv /\ SilentMeansComplete

\* The courier has nothing before the run that ends with a submission, and no
\* run follows it, while nothing was lost and nobody intervened.
KeyInv ==
  \/ lost \/ acts > 0
  \/ /\ key # None => stage = "idle" /\ status = "completed"
     /\ order.kind = "submitted" => order.payload = key
     /\ order.kind = "awaiting" => key = None

IInv == Shape /\ RunInv /\ KeyInv

-----------------------------------------------------------------------------
(* The steps that end a run, and those between runs. *)

LEMMA IdleRun ==
  ASSUME stage' = "idle", recon' = None, customer' = None, payload' = None
  PROVE  RunInv'
  BY DEF RunInv, GeoInv, ReconInv, CustomerInv, LockerInv, PayloadInv, SilentMeansComplete,
         AfterLocate, AfterReconcile, AfterAssemble

LEMMA FailStep ==
  ASSUME IInv, stage # "idle", Fail
  PROVE  IInv'
<1>1. RunInv'
  BY IdleRun DEF Fail, End
<1>2. Shape'
  BY DEF IInv, Shape, Fail, End, rowVars
<1>3. KeyInv'
  BY DEF IInv, KeyInv, Fail, End, rowVars
<1> QED BY <1>1, <1>2, <1>3 DEF IInv

LEMMA DivertStep ==
  ASSUME IInv, stage # "idle", NEW route, Divert(route)
  PROVE  IInv'
<1>1. RunInv'
  BY IdleRun DEF Divert, End
<1>2. Shape'
  BY DEF IInv, Shape, Divert, End
<1>3. KeyInv'
  BY DEF IInv, Shape, KeyInv, Divert, End
<1> QED BY <1>1, <1>2, <1>3 DEF IInv

LEMMA SubmitStep ==
  ASSUME IInv, Submit \/ SubmitFails
  PROVE  IInv'
<1>1. RunInv'
  BY IdleRun DEF Submit, SubmitFails, End
<1>2. Shape'
  BY DEF IInv, Shape, Submit, SubmitFails, End
<1>3. KeyInv'
  <2>1. CASE Submit
    BY <2>1 DEF IInv, Shape, KeyInv, Submit, End
  <2>2. CASE SubmitFails
    BY <2>2 DEF IInv, KeyInv, SubmitFails, End
  <2> QED BY <2>1, <2>2
<1> QED BY <1>1, <1>2, <1>3 DEF IInv

\* An evaluation that is replaced leaves a sequence of evaluations.
LEMMA ReplacedIn ==
  ASSUME evals \in Seq(Eval), NEW i, NEW e, i \in DOMAIN evals => e \in Eval
  PROVE  [evals EXCEPT ![i] = e] \in Seq(Eval)
<1>1. Len(evals) \in Nat /\ DOMAIN evals = 1..Len(evals) /\ \A j \in 1..Len(evals) : evals[j] \in Eval
  OBVIOUS
<1>2. evals = [j \in 1..Len(evals) |-> evals[j]]
  BY <1>1
<1> DEFINE new == [j \in 1..Len(evals) |-> IF j = i THEN e ELSE evals[j]]
<1>3. [evals EXCEPT ![i] = e] = new
  BY <1>1, <1>2
<1>4. new \in [1..Len(evals) -> Eval]
  BY <1>1
<1>5. new \in Seq(Eval)
  BY <1>1, <1>4
<1> QED BY <1>3, <1>5

LEMMA HumanStep ==
  ASSUME IInv, Resolve \/ Reprocess
  PROVE  IInv'
<1>1. Act /\ UNCHANGED <<tenant, stage, runVars, key, runs, lost>>
  BY DEF Resolve, Reprocess, Approve, Reject, Reopen
<1>2. RunInv'
  <2>1. recon = None /\ customer = None /\ payload = None
    BY <1>1 DEF IInv, RunInv, ReconInv, CustomerInv, PayloadInv, Act,
                AfterLocate, AfterReconcile, AfterAssemble
  <2> QED BY <1>1, <2>1, IdleRun DEF Act, runVars
<1>3. KeyInv'
  BY <1>1 DEF IInv, Shape, KeyInv, Act
<1>4. evals' \in Seq(Eval)
  <2>1. ASSUME NEW i \in DOMAIN evals, NEW o \in Overrides, Approve(i, o)
        PROVE  evals' \in Seq(Eval)
    <3> DEFINE e == [evals[i] EXCEPT !.resolution = "approved", !.overrides = o]
    <3>1. evals \in Seq(Eval) /\ evals[i] \in Eval
      BY DEF IInv, Shape
    <3>2. e \in Eval
      BY <3>1 DEF Eval
    <3>3. evals' = [evals EXCEPT ![i] = e]
      BY <2>1, <3>1 DEF Approve, Eval
    <3> HIDE DEF e
    <3> QED BY <3>1, <3>2, <3>3, ReplacedIn
  <2>2. ASSUME NEW i \in DOMAIN evals, NEW o \in Overrides, Reject(i, o)
        PROVE  evals' \in Seq(Eval)
    <3> DEFINE e == [evals[i] EXCEPT !.resolution = "rejected", !.overrides = o]
    <3>1. evals \in Seq(Eval) /\ evals[i] \in Eval
      BY DEF IInv, Shape
    <3>2. e \in Eval
      BY <3>1 DEF Eval
    <3>3. evals' = [evals EXCEPT ![i] = e]
      BY <2>2, <3>1 DEF Reject, Eval
    <3> HIDE DEF e
    <3> QED BY <3>1, <3>2, <3>3, ReplacedIn
  <2>3. ASSUME NEW i \in DOMAIN evals, Reopen(i)
        PROVE  evals' \in Seq(Eval)
    <3> DEFINE e == [evals[i] EXCEPT !.resolution = None, !.verdict = "review"]
    <3>1. evals \in Seq(Eval) /\ evals[i] \in Eval
      BY DEF IInv, Shape
    <3>2. e \in Eval
      BY <3>1 DEF Eval
    <3>3. evals' = [evals EXCEPT ![i] = e]
      BY <2>3, <3>1 DEF Reopen, Eval
    <3> HIDE DEF e
    <3> QED BY <3>1, <3>2, <3>3, ReplacedIn
  <2>4. CASE Reprocess
    BY <2>4 DEF Reprocess
  <2> QED BY <2>1, <2>2, <2>3, <2>4 DEF Resolve
<1>5. order' = [kind |-> order'.kind, route |-> order'.route, payload |-> order'.payload]
  BY DEF IInv, Shape, Resolve, Reprocess, Approve, Reject, Reopen, NoOrder
<1>6. Shape'
  BY <1>1, <1>4, <1>5 DEF IInv, Shape, Act
<1> QED BY <1>2, <1>3, <1>6 DEF IInv

-----------------------------------------------------------------------------
(* The steps of a run, up to the payload. *)

\* What only reads the rows leaves what is said of them.
LEMMA RowsStay ==
  ASSUME IInv, stage # "idle", stage' \in {"locate"} \cup AfterLocate,
         UNCHANGED <<evals, order, key, acts, lost>>
  PROVE  Shape' /\ KeyInv'
  BY DEF IInv, Shape, KeyInv

LEMMA ExtractStep ==
  ASSUME IInv, NEW e, Extract(e)
  PROVE  IInv'
<1>1. RunInv'
  BY DEF IInv, RunInv, Extract, GeoInv, ReconInv, CustomerInv, LockerInv, PayloadInv,
         SilentMeansComplete, AfterLocate, AfterReconcile, AfterAssemble
<1>2. Shape' /\ KeyInv'
  BY DEF IInv, Shape, KeyInv, Extract, rowVars
<1> QED BY <1>1, <1>2 DEF IInv

LEMMA ValidateStep ==
  ASSUME IInv, Validate
  PROVE  IInv'
<1>1. RunInv'
  BY DEF IInv, RunInv, Validate, runVars, GeoInv, ReconInv, CustomerInv, LockerInv, PayloadInv,
         SilentMeansComplete, AfterLocate, AfterReconcile, AfterAssemble
<1> QED BY <1>1, RowsStay DEF IInv, Validate, rowVars

LEMMA LocateStep ==
  ASSUME IInv, Locate
  PROVE  IInv'
<1>1. geo' \in Place
  BY NowherePlace, GooglePlace DEF Locate
<1>2. RunInv'
  BY <1>1 DEF IInv, RunInv, Locate, GeoInv, ReconInv, CustomerInv, LockerInv, PayloadInv,
         SilentMeansComplete, AfterLocate, AfterReconcile, AfterAssemble
<1> QED BY <1>2, RowsStay DEF IInv, Locate, rowVars, AfterLocate

LEMMA ReconcileStep ==
  ASSUME IInv, Reconcile
  PROVE  IInv'
<1>1. geo \in Place
  BY DEF IInv, RunInv, GeoInv, Reconcile, AfterLocate
<1>2. /\ recon' \in Recon /\ Keeps(recon'.place, geo)
      /\ recon'.decision # "flagged" => Missing(recon'.place) = {}
  BY <1>1, ReconciliationKeeps DEF Reconcile
<1>3. ReconInv'
  <2>1. stage' = "assemble" /\ row' = recon'.decision /\ geo' = geo
    BY DEF Reconcile
  <2> QED BY <1>2, <2>1 DEF ReconInv, Keeps, Missing, AfterLocate, AfterReconcile
<1>4. (GeoInv /\ CustomerInv /\ LockerInv /\ PayloadInv /\ SilentMeansComplete)'
  BY <1>1 DEF IInv, RunInv, Reconcile, GeoInv, CustomerInv, LockerInv, PayloadInv,
         SilentMeansComplete, AfterLocate, AfterReconcile, AfterAssemble
<1> QED BY <1>3, <1>4, RowsStay DEF IInv, RunInv, Reconcile, AfterLocate

\* The newest overrides blank what they name, and nothing else.
LEMMA AssembleStep ==
  ASSUME IInv, Assemble
  PROVE  IInv'
<1>1. recon \in Recon /\ evals \in Seq(Eval)
  BY DEF IInv, Shape, RunInv, ReconInv, Assemble, AfterLocate, AfterReconcile
<1>2. PICK items \in Enriched :
        customer' = [place |-> Corrected(recon.place, Newest),
                     method |-> IF Newest.method = None THEN data.method ELSE Newest.method,
                     has |-> Supplied(data.has \cup items, Newest),
                     corrected |-> Newest # NoOverrides]
  BY DEF Assemble
<1>3. ASSUME NEW f \in Missing(customer'.place) \ Missing(recon.place)
      PROVE  Blanked(f)'
  <2>1. customer'.place.address[f] = None /\ recon.place.address[f] # None /\ f \in Vital
    BY <1>3 DEF Missing
  <2>2. f \in DOMAIN Newest.address
    BY <1>1, <1>2, <2>1 DEF Corrected, Recon, Place
  <2>3. Newest # NoOverrides
    BY <2>2 DEF NoOverrides
  <2>4. evals # <<>> /\ Newest = evals[Len(evals)].overrides
    BY <2>3 DEF Newest
  <2>5. Len(evals) \in DOMAIN evals
    BY <1>1, <2>4
  <2>6. evals' = evals
    BY DEF Assemble, rowVars
  <2> QED BY <1>2, <2>1, <2>2, <2>3, <2>4, <2>5, <2>6 DEF Blanked
<1>4. CustomerInv'
  <2>1. stage' = "route" /\ recon' = recon
    BY DEF Assemble
  <2>2. Missing(recon.place)' = Missing(recon.place) /\ Missing(customer.place)' = Missing(customer'.place)
    BY <2>1 DEF Missing
  <2> QED BY <1>3, <2>1, <2>2 DEF CustomerInv, AfterLocate, AfterReconcile, AfterAssemble
<1>5. (GeoInv /\ ReconInv /\ LockerInv /\ PayloadInv /\ SilentMeansComplete)'
  BY DEF IInv, RunInv, Assemble, rowVars, GeoInv, ReconInv, LockerInv, PayloadInv,
         SilentMeansComplete, AfterLocate, AfterReconcile, AfterAssemble
<1> QED BY <1>4, <1>5, RowsStay DEF IInv, RunInv, Assemble, rowVars, AfterLocate

LEMMA ResolveLockerStep ==
  ASSUME IInv, ResolveLocker
  PROVE  IInv'
<1>1. CustomerInv'
  BY DEF IInv, RunInv, CustomerInv, Blanked, ResolveLocker, rowVars, Missing,
               AfterLocate, AfterReconcile, AfterAssemble
<1>2. (GeoInv /\ ReconInv /\ LockerInv /\ PayloadInv /\ SilentMeansComplete)'
  BY DEF IInv, RunInv, ResolveLocker, rowVars, GeoInv, ReconInv, LockerInv, PayloadInv,
         SilentMeansComplete, AfterLocate, AfterReconcile, AfterAssemble
<1> QED BY <1>1, <1>2, RowsStay DEF IInv, RunInv, ResolveLocker, rowVars, AfterLocate

LEMMA CreatePayloadStep ==
  ASSUME IInv, NEW profile, CreatePayload(profile)
  PROVE  IInv'
<1>1. payload' = Built(profile) /\ Shippable /\ stage = "fork" /\ stage' = "review"
  BY DEF CreatePayload
<1>2. locker = None \/ (geo.point # None /\ locker = Near[geo.point])
  BY <1>1 DEF IInv, RunInv, LockerInv
<1>3. Service[customer.method].to = IF ToLocker THEN "locker" ELSE "door"
  BY <1>1 DEF Shippable, ToLocker, Service
<1>4. ToLocker => geo.point # None /\ locker = Near[geo.point]
  BY <1>1, <1>2 DEF Shippable
<1>5. Overlaid(profile) \in BOOLEAN
  BY DEF Overlaid
<1>6. customer' = customer /\ geo' = geo
  BY DEF CreatePayload
<1>7. Fits'
  BY <1>1, <1>3, <1>4, <1>5, <1>6 DEF Fits, Built
<1>8. PayloadInv'
  BY <1>1, <1>7 DEF PayloadInv
<1>9. CustomerInv'
  BY DEF IInv, RunInv, CustomerInv, Blanked, CreatePayload, rowVars, Missing,
               AfterLocate, AfterReconcile, AfterAssemble
<1>10. (GeoInv /\ ReconInv /\ LockerInv /\ SilentMeansComplete)'
  BY DEF IInv, RunInv, CreatePayload, rowVars, GeoInv, ReconInv, LockerInv,
         SilentMeansComplete, AfterLocate, AfterReconcile, AfterAssemble
<1> QED BY <1>8, <1>9, <1>10, RowsStay DEF IInv, RunInv, CreatePayload, rowVars, AfterLocate

-----------------------------------------------------------------------------
(* The review. *)

\* A verdict that is recorded changes no overrides and takes no evaluation away.
Extends(new) ==
  /\ new \in Seq(Eval) /\ DOMAIN evals \subseteq DOMAIN new
  /\ \A i \in DOMAIN evals : new[i].overrides = evals[i].overrides

LEMMA AppendExtends ==
  ASSUME evals \in Seq(Eval), NEW e \in Eval
  PROVE  Extends(Append(evals, e))
  BY DEF Extends

LEMMA RecordedExtends ==
  ASSUME evals \in Seq(Eval), NEW v \in {"approve", "review", "reject"}
  PROVE  Extends(Recorded(v))
<1>1. CASE Open = {}
  <2>1. [verdict |-> v, resolution |-> None, overrides |-> NoOverrides] \in Eval
    BY DEF Eval
  <2> QED BY <1>1, <2>1, AppendExtends DEF Recorded
<1>2. CASE Open # {}
  <2> DEFINE last == CHOOSE i \in Open : \A j \in Open : j <= i
  <2>1. Recorded(v) = [evals EXCEPT ![last].verdict = v]
    BY <1>2 DEF Recorded
  <2> HIDE DEF last
  <2>2. [evals EXCEPT ![last].verdict = v] \in Seq(Eval)
    <3> DEFINE e == [evals[last] EXCEPT !.verdict = v]
    <3>1. [evals EXCEPT ![last].verdict = v] = [evals EXCEPT ![last] = e]
      OBVIOUS
    <3>2. last \in DOMAIN evals => e \in Eval
      <4> SUFFICES ASSUME last \in DOMAIN evals PROVE e \in Eval
        OBVIOUS
      <4>1. evals[last] \in Eval
        OBVIOUS
      <4> QED BY <4>1 DEF Eval
    <3> HIDE DEF e
    <3> QED BY <3>1, <3>2, ReplacedIn
  <2> QED BY <2>1, <2>2 DEF Extends, Eval
<1> QED BY <1>1, <1>2

\* What the review leaves of the run.
LEMMA ReviewKeeps ==
  ASSUME IInv, stage = "review", stage' = "submit", Extends(evals'),
         UNCHANGED <<data, geo, recon, customer, locker, payload, row, order, key, acts, lost>>
  PROVE  Shape' /\ KeyInv' /\ (GeoInv /\ ReconInv /\ CustomerInv /\ LockerInv /\ PayloadInv)'
<1>1. CustomerInv'
  BY DEF IInv, RunInv, CustomerInv, Blanked, Extends, Missing, AfterLocate, AfterReconcile, AfterAssemble
<1>2. (GeoInv /\ ReconInv /\ LockerInv)'
  BY DEF IInv, RunInv, GeoInv, ReconInv, LockerInv, Keeps, Missing, AfterLocate, AfterReconcile
<1>3. PayloadInv'
  BY DEF IInv, RunInv, PayloadInv, Fits
<1>4. Shape' /\ KeyInv'
  BY DEF IInv, Shape, KeyInv, Extends, AfterLocate
<1> QED BY <1>1, <1>2, <1>3, <1>4

LEMMA InheritStep ==
  ASSUME IInv, Inherit \/ Disabled
  PROVE  IInv'
<1>1. evals \in Seq(Eval)
  BY DEF IInv, Shape
<1>2. Extends(evals')
  <2>1. [verdict |-> "approve", resolution |-> None, overrides |-> NoOverrides] \in Eval
    BY DEF Eval
  <2>2. CASE Inherit  BY <1>1, <2>1, <2>2, AppendExtends DEF Inherit
  <2>3. CASE Disabled  BY <1>1, <2>3 DEF Disabled, rowVars, Extends
  <2> QED BY <2>2, <2>3
<1>3. Shape' /\ KeyInv' /\ (GeoInv /\ ReconInv /\ CustomerInv /\ LockerInv /\ PayloadInv)'
  BY <1>2, ReviewKeeps DEF Inherit, Disabled, rowVars
<1>4. SilentMeansComplete'
  BY DEF SilentMeansComplete, Inherit, Disabled
<1> QED BY <1>3, <1>4 DEF IInv, RunInv

LEMMA EscalatedTyped ==
  ASSUME NEW rules \in {"approve", "review", "reject"}, NEW llm
  PROVE  /\ Escalated(rules, llm) \in {"approve", "review", "reject"}
         /\ Escalated(rules, llm) = "approve" => rules = "approve"
  BY DEF Escalated, Merged

LEMMA DecideTyped ==
  ASSUME NEW errors, NEW warned
  PROVE  /\ Decide(errors, warned) \in {"approve", "review", "reject"}
         /\ Decide(errors, warned) = "approve" /\ tenant.mode # "shadow" => errors = {} /\ ~warned
  BY DEF Decide

LEMMA JudgeStep ==
  ASSUME IInv, NEW duplicate \in BOOLEAN, NEW warn \in BOOLEAN, NEW llm, NEW concern \in BOOLEAN,
         Judge(duplicate, warn, llm, concern)
  PROVE  IInv'
<1> DEFINE rules == Decide(Errors(duplicate), Warned(warn))
           v == IF llm = None THEN rules ELSE Escalated(rules, llm)
<1>1. v \in {"approve", "review", "reject"} /\ (v = "approve" => rules = "approve")
  BY DecideTyped, EscalatedTyped
<1>2. evals \in Seq(Eval) /\ evals' = Recorded(v)
  BY DEF IInv, Shape, Judge
<1>3. Extends(evals')
  BY <1>1, <1>2, RecordedExtends
<1>4. CASE v = "approve"
  <2>1. /\ stage = "review" /\ stage' = "submit" /\ verdict' = v
        /\ UNCHANGED <<data, geo, recon, customer, locker, payload, row, order, key, acts, lost, tenant>>
    BY <1>4 DEF Judge
  <2>2. Shape' /\ KeyInv' /\ (GeoInv /\ ReconInv /\ CustomerInv /\ LockerInv /\ PayloadInv)'
    BY <1>3, <2>1, ReviewKeeps
  <2>3. ASSUME tenant.mode # "shadow"
        PROVE  /\ \A f \in Missing(customer.place) : Blanked(f)
               /\ tenant.requires \cap Fields \subseteq customer.has
               /\ "duplicate" \in tenant.requires => order.kind = "none"
    <3>1. Errors(duplicate) = {}
      BY <1>1, <1>4, <2>3, DecideTyped
    <3>2. /\ tenant.requires \cap Fields \subseteq customer.has /\ row # "flagged"
          /\ "duplicate" \in tenant.requires => order.kind = "none"
      BY <3>1 DEF Errors
    <3>3. Missing(recon.place) = {}
      BY <2>1, <3>2 DEF IInv, RunInv, ReconInv, AfterLocate, AfterReconcile
    <3>4. \A f \in Missing(customer.place) : Blanked(f)
      BY <2>1, <3>3 DEF IInv, RunInv, CustomerInv, AfterLocate, AfterReconcile, AfterAssemble
    <3> QED BY <3>2, <3>4
  <2>4. SilentMeansComplete'
    BY <1>3, <2>1, <2>3 DEF SilentMeansComplete, Missing, Blanked, Extends
  <2> QED BY <2>2, <2>4 DEF IInv, RunInv
<1>5. CASE v # "approve"
  <2>1. stage = "review" /\ End /\ UNCHANGED <<order, key, acts, lost>>
    BY <1>5 DEF Judge
  <2>2. RunInv'
    BY <2>1, IdleRun DEF End
  <2>3. Shape' /\ KeyInv'
    BY <1>3, <2>1 DEF IInv, Shape, KeyInv, End, Extends
  <2> QED BY <2>2, <2>3 DEF IInv
<1> QED BY <1>4, <1>5

-----------------------------------------------------------------------------
(* The theorems. *)

LEMMA InvInit == Init => IInv
<1> SUFFICES ASSUME Init PROVE IInv
  OBVIOUS
<1>1. Shape /\ KeyInv
  BY DEF Init, Shape, KeyInv, NoOrder, AfterLocate
<1>2. RunInv
  BY DEF Init, RunInv, GeoInv, ReconInv, CustomerInv, LockerInv, PayloadInv, SilentMeansComplete,
         AfterLocate, AfterReconcile, AfterAssemble
<1> QED BY <1>1, <1>2 DEF IInv

LEMMA InvStutter == IInv /\ UNCHANGED vars => IInv'
  BY DEF IInv, vars, runVars, rowVars, Shape, RunInv, KeyInv, GeoInv, ReconInv, CustomerInv, Blanked,
         LockerInv, PayloadInv, Fits, SilentMeansComplete, Keeps, Missing

LEMMA InvStep == IInv /\ [Next]_vars => IInv'
<1> SUFFICES ASSUME IInv, Next PROVE IInv'
  BY InvStutter
<1>1. ASSUME NEW e \in Extractions, Extract(e) PROVE IInv'
  BY <1>1, ExtractStep
<1>2. CASE Validate  BY <1>2, ValidateStep
<1>3. CASE Invalid  BY <1>3, FailStep DEF Invalid
<1>4. CASE Locate  BY <1>4, LocateStep
<1>5. CASE Reconcile  BY <1>5, ReconcileStep
<1>6. CASE Assemble  BY <1>6, AssembleStep
<1>7. CASE DivertByRoute  BY <1>7, DivertStep DEF DivertByRoute
<1>8. CASE ResolveLocker  BY <1>8, ResolveLockerStep
<1>9. CASE NoLockerList  BY <1>9, FailStep DEF NoLockerList
<1>10. CASE DivertUnreachable  BY <1>10, DivertStep DEF DivertUnreachable
<1>11. CASE Unshippable  BY <1>11, FailStep DEF Unshippable
<1>12. ASSUME NEW p \in Profiles, CreatePayload(p) PROVE IInv'
  BY <1>12, CreatePayloadStep
<1>13. CASE Inherit \/ Disabled  BY <1>13, InheritStep
<1>14. ASSUME NEW duplicate \in BOOLEAN, NEW warn \in BOOLEAN, NEW concern \in BOOLEAN,
              NEW llm \in {None, "approve", "review", "reject"}, Judge(duplicate, warn, llm, concern)
       PROVE  IInv'
  BY <1>14, JudgeStep
<1>15. CASE Submit \/ SubmitFails  BY <1>15, SubmitStep
<1>16. CASE Resolve \/ Reprocess  BY <1>16, HumanStep
<1> QED BY <1>1, <1>2, <1>3, <1>4, <1>5, <1>6, <1>7, <1>8, <1>9, <1>10, <1>11, <1>12, <1>13, <1>14,
           <1>15, <1>16 DEF Next

LEMMA InvHolds == Spec => []IInv
  BY InvInit, InvStep, PTL DEF Spec

\* Whatever the geocoder, the model and the reviewers say, no field of an
\* address is lost but one that a reviewer blanks.
THEOREM NothingErasedHolds == Spec => []NothingErased
<1>1. IInv => NothingErased
  BY DEF IInv, RunInv, ReconInv, CustomerInv, Blanked, Keeps, NothingErased, AfterLocate,
         AfterReconcile, AfterAssemble, Missing
<1> QED BY <1>1, InvHolds, PTL

\* What reaches the courier on the caretaker's own verdict is complete, in
\* every mode but shadow.
THEOREM SilentMeansCompleteHolds == Spec => []SilentMeansComplete
<1>1. IInv => SilentMeansComplete
  BY DEF IInv, RunInv
<1> QED BY <1>1, InvHolds, PTL

\* Every shipment fits the service it is booked with.
THEOREM ShipmentFitsHolds == Spec => []ShipmentFits
<1>1. IInv => ShipmentFits
  BY DEF IInv, RunInv, PayloadInv, Fits, ShipmentFits
<1> QED BY <1>1, InvHolds, PTL

\* The row and the courier agree until a transaction is lost or a human
\* intervenes.
THEOREM CourierAgreesHolds == Spec => []CourierAgrees
<1>1. IInv => CourierAgrees
  BY DEF IInv, KeyInv, CourierAgrees
<1> QED BY <1>1, InvHolds, PTL
=============================================================================
