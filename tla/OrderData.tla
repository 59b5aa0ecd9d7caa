------------------------------ MODULE OrderData ------------------------------
(***************************************************************************)
(* What the stages of the order pipeline (src/pipeline/stages) and the     *)
(* caretaker (src/caretaker) do to the data of one order: extraction,      *)
(* geocoding, reconciliation of the address, the reviewer's overrides, the *)
(* locker, the courier's payload and the verdict.  Runs of the order come  *)
(* one after the other here; Pipeline has the runs that overlap.           *)
(*                                                                         *)
(* Of a field of an address only its origin is kept, of coordinates only   *)
(* which point they are, of names, phones and items whether they will do.  *)
(***************************************************************************)
EXTENDS Integers, Sequences, FiniteSets

CONSTANTS Vital,       \* the fields an address must have: suburb, city, code
          Points,      \* coordinates the geocoder answers
          Near,        \* the nearest eligible locker within 20 km of a point
          Confidences, \* confidences of the model, in percent
          Extractions, \* what the model may extract from the mail
          Overrides,   \* what a reviewer may override
          Tenants,     \* settings a tenant may have
          Profiles,    \* collection profiles of packers: sets of "locker", "door"
          None,
          MaxRuns, MaxActs  \* bounds: runs, interventions

ASSUME OrderDataAssumption ==
  /\ IsFiniteSet(Vital) /\ "code" \in Vital
  /\ None \notin Points \cup {"google", "ai"}
  /\ Confidences \subseteq 0..100
  /\ MaxRuns \in Nat /\ MaxActs \in Nat

VARIABLES
  tenant,   \* its settings
  stage,    \* the stage the run is about to execute, "idle" between runs
  data,     \* extracted data
  geo,      \* the geocoded address
  recon,    \* the reconciliation of this run
  customer, \* the customer data
  locker,   \* the locker resolved
  payload,  \* the shipment to create
  verdict,  \* of the run's review: "inherited" from a human, "unchecked" or judged
  status,   \* of the pipeline job
  row,      \* decision of the newest LOCATION_RECONCILED row
  evals,    \* caretaker_evaluations of the job, oldest first
  order,    \* its row in orders
  key,      \* the payload whose answer the idempotency key caches
  runs, acts,
  lost      \* history: a transaction failed after the courier had accepted

runVars == <<data, geo, recon, customer, locker, payload, verdict>>
rowVars == <<row, evals, order, key>>
vars == <<tenant, stage, runVars, status, rowVars, runs, acts, lost>>

\* SERVICE_LEVEL_BY_METHOD, by the kinds of the two ends.
Service ==
  [m \in {"locker-to-locker", "locker-to-door", "door-to-locker", "door-to-door"} |->
     [from |-> IF m \in {"locker-to-locker", "locker-to-door"} THEN "locker" ELSE "door",
      to |-> IF m \in {"locker-to-locker", "door-to-locker"} THEN "locker" ELSE "door"]]

Nowhere == [address |-> [f \in Vital |-> None], point |-> None]
NoOrder == [kind |-> "none", route |-> "automatic", payload |-> None]

Init ==
  /\ tenant \in Tenants
  /\ stage = "idle" /\ status = "processing"
  /\ data = None /\ geo = None /\ recon = None /\ customer = None
  /\ locker = None /\ payload = None /\ verdict = None
  /\ row = None /\ evals = <<>> /\ order = NoOrder /\ key = None
  /\ runs = 0 /\ acts = 0 /\ lost = FALSE

\* The run is over; what it had in memory is gone.
End ==
  /\ stage' = "idle"
  /\ data' = None /\ geo' = None /\ recon' = None /\ customer' = None
  /\ locker' = None /\ payload' = None /\ verdict' = None

Fail == End /\ status' = "failed" /\ UNCHANGED <<tenant, rowVars, runs, acts, lost>>

-----------------------------------------------------------------------------
(* The stages. *)

\* Mutant: a run starts whatever the status is.
ExtractAgain(e) ==
  /\ stage = "idle" /\ runs < MaxRuns
  /\ stage' = "validate" /\ data' = e /\ runs' = runs + 1
  /\ UNCHANGED <<tenant, geo, recon, customer, locker, payload, verdict, status,
                 rowVars, acts, lost>>

\* A run starts, unless the status is terminal: the model extracts the order.
Extract(e) ==
  /\ stage = "idle" /\ status \in {"processing", "failed"} /\ runs < MaxRuns
  /\ stage' = "validate" /\ data' = e /\ runs' = runs + 1
  /\ UNCHANGED <<tenant, geo, recon, customer, locker, payload, verdict, status,
                 rowVars, acts, lost>>

\* executeDataValidated: only errors stop the order, and an unknown method is
\* one.
Valid(e) == e.address /\ e.phone /\ e.method \in DOMAIN Service

Validate ==
  /\ stage = "validate" /\ Valid(data)
  /\ stage' = "locate" /\ status' = "processing"
  /\ UNCHANGED <<tenant, runVars, rowVars, runs, acts, lost>>

Invalid == stage = "validate" /\ ~Valid(data) /\ Fail

\* What an answer of the geocoder puts into an address: the fields it found
\* replace those there were, the others stay.
Google(place, found, point) ==
  [address |-> [f \in Vital |-> IF f \in found THEN "google" ELSE place.address[f]],
   point |-> point]

\* LOCATION_RESOLVED: no key, an error or no result give a blank address.
Locate ==
  /\ stage = "locate"
  /\ geo' \in {Nowhere} \cup {Google(Nowhere, found, p) : found \in SUBSET Vital, p \in Points}
  /\ stage' = "reconcile"
  /\ UNCHANGED <<tenant, data, recon, customer, locker, payload, verdict, status,
                 rowVars, runs, acts, lost>>

Missing(place) == {f \in Vital : place.address[f] = None}

\* Pass 1: the address with its typos corrected, if Google knows more of it.
Regeocoded(place) ==
  {[place |-> place, confidence |-> 0, ai |-> FALSE]} \cup
  {[place |-> new, ai |-> FALSE,
    confidence |-> IF Missing(new) = {} THEN 92 ELSE 70] :
     new \in {n \in {Google(place, found, p) : found \in SUBSET Vital, p \in Points} :
                Cardinality(Missing(n)) < Cardinality(Missing(place))}}

\* mergeAddress: the suggestion fills what is blank and replaces nothing.
Merge(place, suggestion) ==
  [place EXCEPT !.address = [f \in Vital |->
     IF f \in suggestion /\ place.address[f] = None THEN "ai" ELSE place.address[f]]]

\* Pass 2, the suggestion of the model and Google's answer to it.  A result is
\* taken when it leaves no field missing, whatever the model has suggested; no
\* result at all leaves the address as it is and passes the same test.
Suggested(w, suggestion, confidence) ==
  LET answers == {w.place} \cup {Google(w.place, found, p) : found \in SUBSET Vital, p \in Points}
      validated == {[place |-> answer, ai |-> TRUE,
                     confidence |-> IF confidence < 88 THEN 88 ELSE confidence] :
                       answer \in {b \in answers : Missing(b) = {}}}
  IN validated \cup {[place |-> Merge(w.place, suggestion), ai |-> TRUE, confidence |-> confidence]}

\* What the model may suggest: some of the fields, and how sure it is.
Advice == [fields : SUBSET Vital, confidence : Confidences]

\* The model is asked when a field is missing or there is a concern; when it
\* cannot be, the address stays.
Advised(w, concern) ==
  {w} \cup IF Missing(w.place) = {} /\ ~concern THEN {}
           ELSE UNION {Suggested(w, a.fields, a.confidence) : a \in Advice}

\* Mutant: the confidence decides alone.
DecisionByConfidence(w) ==
  IF w.confidence >= 85 THEN "auto_merged_high"
  ELSE IF w.confidence >= 60 THEN "auto_merged_low" ELSE "flagged"

Decision(w) ==
  LET complete == Missing(w.place) = {}
  IN CASE complete /\ (w.confidence >= 85 \/ (w.confidence < 60 /\ ~w.ai)) -> "auto_merged_high"
       [] complete /\ w.confidence >= 60 /\ w.confidence < 85 -> "auto_merged_low"
       [] OTHER -> "flagged"

\* The results executeLocationReconciled can have.
Reconciliations(place, concern) ==
  IF Missing(place) = {} /\ ~concern
  THEN {[decision |-> "skipped", place |-> place]}
  ELSE {[decision |-> Decision(w), place |-> w.place] :
          w \in UNION {Advised(v, concern) : v \in Regeocoded(place)}}

\* LOCATION_RECONCILED records its result in a row of its own.
Reconcile ==
  /\ stage = "reconcile"
  /\ recon' \in Reconciliations(geo, FALSE)
  /\ row' = recon'.decision
  /\ stage' = "assemble"
  /\ UNCHANGED <<tenant, data, geo, customer, locker, payload, verdict, status,
                 evals, order, key, runs, acts, lost>>

\* What the caretaker's rules may require of the customer data.
Fields == {"phone", "name", "items"}

\* Overrides: the fields they replace, and whether what they put there will do.
NoOverrides == [address |-> <<>>, method |-> None, has |-> <<>>]
Newest == IF evals = <<>> THEN NoOverrides ELSE evals[Len(evals)].overrides

\* Mutant: the reviewer's address replaces the whole of it.
CorrectedWhole(place, o) ==
  [place EXCEPT !.address = [f \in Vital |-> IF f \in DOMAIN o.address THEN o.address[f] ELSE None]]

\* The reviewer's fields go over the address; its coordinates stay.
Corrected(place, o) ==
  [place EXCEPT !.address = [f \in Vital |->
     IF f \in DOMAIN o.address THEN o.address[f] ELSE place.address[f]]]

\* SHOPIFY_ENRICHED: the items, if any.  There are none without credentials,
\* or when the token, the call or the order fails.
Enriched == {{}} \cup IF tenant.shopify THEN {{"items"}} ELSE {}

\* The reviewer's fields replace the others, for better or worse.
Supplied(has, o) ==
  {f \in Fields : IF f \in DOMAIN o.has THEN o.has[f] ELSE f \in has}

\* CUSTOMER_DATA, with the overrides of the newest evaluation.
Assemble ==
  /\ stage = "assemble"
  /\ \E items \in Enriched :
       customer' = [place |-> Corrected(recon.place, Newest),
                    method |-> IF Newest.method = None THEN data.method ELSE Newest.method,
                    has |-> Supplied(data.has \cup items, Newest),
                    corrected |-> Newest # NoOverrides]
  /\ stage' = "route"
  /\ UNCHANGED <<tenant, data, geo, recon, locker, payload, verdict, status,
                 rowVars, runs, acts, lost>>

\* divertToManualQueue: an order with another route is moved, shipped or not.
Divert(route) ==
  /\ order' = IF order.kind # "none" /\ order.route = route THEN order
              ELSE [order EXCEPT !.kind = "awaiting", !.route = route]
  /\ status' = "completed"
  /\ End
  /\ UNCHANGED <<tenant, row, evals, key, runs, acts, lost>>

DivertByRoute ==
  /\ stage = "route" /\ data.route # "automatic"
  /\ Divert(data.route)

\* LOCKERS_RESOLVED works on the geocoded address, not on the reconciled one;
\* it throws without the tenant's key, or when the list cannot be fetched, and
\* finds no locker in a list that is empty or not what the code looks for.
ResolveLocker ==
  /\ stage = "route" /\ data.route = "automatic"
  /\ geo.point = None \/ tenant.pudo
  /\ locker' \in {None} \cup IF geo.point = None THEN {} ELSE {Near[geo.point]}
  /\ stage' = "fork"
  /\ UNCHANGED <<tenant, data, geo, recon, customer, payload, verdict, status,
                 rowVars, runs, acts, lost>>

NoLockerList == stage = "route" /\ data.route = "automatic" /\ geo.point # None /\ Fail

\* Mutant: only what was extracted is asked for its destination.
ExtractedToLocker == Service[data.method].to = "locker"

ToLocker == customer.method \in DOMAIN Service /\ Service[customer.method].to = "locker"

DivertUnreachable ==
  /\ stage = "fork" /\ ToLocker /\ locker = None
  /\ Divert("manual_upload")

\* The guards of executePayloadCreated, before any packer is chosen.
Shippable ==
  /\ tenant.contact
  /\ customer.method \in DOMAIN Service
  /\ Service[customer.method].from \in tenant.collects
  /\ ToLocker => locker # None

Unshippable == stage = "fork" /\ ~Shippable /\ ~(ToLocker /\ locker = None) /\ Fail

\* overlayPackerCollection: a packer without a usable collection point for the
\* method is not used at all.
Overlaid(profile) == profile # None /\ Service[customer.method].from \in profile

\* deliveryDoorAddress: a four-digit number of the entered text is the code.
DoorCode == IF data.code THEN "entered" ELSE customer.place.address["code"]

\* The builders: the collection point and the contact are the packer's or the
\* tenant's.
Built(profile) ==
  [method |-> customer.method,
   from |-> [kind |-> Service[customer.method].from,
             of |-> IF Overlaid(profile) THEN "packer" ELSE "tenant"],
   to |-> IF ToLocker THEN [kind |-> "locker", at |-> locker]
          ELSE [kind |-> "door", at |-> DoorCode],
   packer |-> Overlaid(profile)]

\* PAYLOAD_CREATED.  The job is completed, before the review.
CreatePayload(profile) ==
  /\ stage = "fork" /\ Shippable
  /\ payload' = Built(profile)
  /\ stage' = "review" /\ status' = "completed"
  /\ UNCHANGED <<tenant, data, geo, recon, customer, locker, verdict, rowVars,
                 runs, acts, lost>>

-----------------------------------------------------------------------------
(* CARETAKER_REVIEW. *)

\* The checks that fail with an error: those of the tenant's rules that it has
\* not switched off, and the address, which the newest reconciliation row
\* judges alone and no rule switches off.
Errors(duplicate) ==
  LET known == IF duplicate \/ order.kind # "none" THEN {"duplicate"} ELSE {}
  IN (tenant.requires \cap ((Fields \ customer.has) \cup known))
       \cup (IF row = "flagged" THEN {"address"} ELSE {})

\* Those that fail with a warning: distance, repeated phone, the address.
Warned(warn) == warn \/ row = "auto_merged_low"

Decide(errors, warned) ==
  IF tenant.mode = "shadow" \/ (errors = {} /\ ~warned) THEN "approve"
  ELSE IF tenant.mode = "strict" /\ errors # {} THEN "reject" ELSE "review"

\* mergeVerdicts: the worse of the two.
Merged(rules, llm) ==
  IF "reject" \in {rules, llm} THEN "reject"
  ELSE IF "review" \in {rules, llm} THEN "review" ELSE "approve"

\* What the model may change in each mode.
Escalated(rules, llm) ==
  CASE tenant.mode = "shadow" -> rules
    [] tenant.mode = "advisory" /\ llm = "reject" -> Merged(rules, "review")
    [] OTHER -> Merged(rules, llm)

HasApproval == \E i \in DOMAIN evals : evals[i].resolution = "approved"
Open == {i \in DOMAIN evals : evals[i].resolution = None}

\* An approval by a human is inherited, and recorded again.
Inherit ==
  /\ stage = "review" /\ HasApproval
  /\ evals' = Append(evals, [verdict |-> "approve", resolution |-> None,
                            overrides |-> NoOverrides])
  /\ verdict' = "inherited" /\ stage' = "submit"
  /\ UNCHANGED <<tenant, data, geo, recon, customer, locker, payload, status, row,
                 order, key, runs, acts, lost>>

Disabled ==
  /\ stage = "review" /\ ~HasApproval /\ ~tenant.enabled
  /\ verdict' = "unchecked" /\ stage' = "submit"
  /\ UNCHANGED <<tenant, data, geo, recon, customer, locker, payload, status,
                 rowVars, runs, acts, lost>>

\* The verdict goes into the newest open evaluation, or into a new one; it
\* keeps the overrides an open one has.
Recorded(v) ==
  IF Open = {} THEN Append(evals, [verdict |-> v, resolution |-> None,
                                   overrides |-> NoOverrides])
  ELSE [evals EXCEPT ![CHOOSE i \in Open : \A j \in Open : j <= i].verdict = v]

\* The model's verdict; None when the tenant has not enabled it or it fails.
LlmVerdicts == {None} \cup IF tenant.llm THEN {"approve", "review", "reject"} ELSE {}

\* The rules, the model if the tenant has it and it answers, and, when a
\* concern about the address leads to a review, the reconciler again.  Its
\* address is a proposal: only its row and its decision are kept.
Judge(duplicate, warn, llm, concern) ==
  /\ stage = "review" /\ ~HasApproval /\ tenant.enabled
  /\ llm \in LlmVerdicts
  /\ LET rules == Decide(Errors(duplicate), Warned(warn))
         v == IF llm = None THEN rules ELSE Escalated(rules, llm)
     IN /\ evals' = Recorded(v)
        /\ IF v = "review" /\ llm # None /\ concern
           THEN \E r \in Reconciliations(customer.place, TRUE) : row' = r.decision
           ELSE row' = row
        /\ IF v = "approve"
           THEN verdict' = v /\ stage' = "submit"
                /\ UNCHANGED <<data, geo, recon, customer, locker, payload, status>>
           ELSE End /\ status' = IF v = "reject" THEN "rejected" ELSE "pending_review"
  /\ UNCHANGED <<tenant, order, key, runs, acts, lost>>

-----------------------------------------------------------------------------
(* COURIER_SUBMITTED and the humans. *)

\* The first call makes the shipment; later ones get its cached answer, for
\* the order number, whatever their payload is.
Submit ==
  /\ stage = "submit"
  /\ key' = IF key = None THEN payload ELSE key
  /\ order' = [order EXCEPT !.kind = "submitted", !.payload = payload]
  /\ status' = "completed"
  /\ End
  /\ UNCHANGED <<tenant, row, evals, runs, acts, lost>>

\* The courier refuses, or the transaction fails after it has accepted.
SubmitFails ==
  /\ stage = "submit"
  /\ \/ UNCHANGED <<key, lost>>
     \/ key' = (IF key = None THEN payload ELSE key) /\ lost' = TRUE
  /\ status' = "failed"
  /\ End
  /\ UNCHANGED <<tenant, row, evals, order, runs, acts>>

Act == stage = "idle" /\ acts < MaxActs /\ acts' = acts + 1

\* POST /evaluations/:id/resolve and /reopen, whatever the job's status is.
Approve(i, o) ==
  /\ Act
  /\ evals' = [evals EXCEPT ![i].resolution = "approved", ![i].overrides = o]
  /\ status' = "processing"
  /\ UNCHANGED <<tenant, stage, runVars, row, order, key, runs, lost>>

Reject(i, o) ==
  /\ Act
  /\ evals' = [evals EXCEPT ![i].resolution = "rejected", ![i].overrides = o]
  /\ status' = "rejected"
  /\ UNCHANGED <<tenant, stage, runVars, row, order, key, runs, lost>>

Reopen(i) ==
  /\ Act
  /\ evals' = [evals EXCEPT ![i].resolution = None, ![i].verdict = "review"]
  /\ status' = "pending_review"
  /\ UNCHANGED <<tenant, stage, runVars, row, order, key, runs, lost>>

\* POST /reprocess deletes the job, its rows and the order, never the key.
Reprocess ==
  /\ Act /\ runs > 0
  /\ evals' = <<>> /\ row' = None /\ order' = NoOrder
  /\ status' = "processing"
  /\ UNCHANGED <<tenant, stage, runVars, key, runs, lost>>

Resolve ==
  \E i \in DOMAIN evals :
    \/ \E o \in Overrides : Approve(i, o) \/ Reject(i, o)
    \/ Reopen(i)

Next ==
  \/ \E e \in Extractions : Extract(e)
  \/ Validate \/ Invalid \/ Locate \/ Reconcile \/ Assemble
  \/ DivertByRoute \/ ResolveLocker \/ NoLockerList \/ DivertUnreachable
  \/ Unshippable
  \/ \E p \in Profiles : CreatePayload(p)
  \/ Inherit \/ Disabled
  \/ \E duplicate, warn, concern \in BOOLEAN, llm \in {None, "approve", "review", "reject"} :
       Judge(duplicate, warn, llm, concern)
  \/ Submit \/ SubmitFails \/ Resolve \/ Reprocess

Spec == Init /\ [][Next]_vars

-----------------------------------------------------------------------------
(* Properties. *)

\* A field that a reviewer has blanked.
Blanked(f) ==
  /\ customer.corrected /\ customer.place.address[f] = None
  /\ \E i \in DOMAIN evals : f \in DOMAIN evals[i].overrides.address

\* Neither the second geocode nor the model takes a field or the coordinates
\* away that the first geocode had found, and after them only a reviewer who
\* blanks a field can.
NothingErased ==
  /\ recon # None =>
       /\ Missing(recon.place) \subseteq Missing(geo)
       /\ geo.point # None => recon.place.point # None
  /\ customer # None =>
       \A f \in Missing(customer.place) \ Missing(recon.place) : Blanked(f)

\* An order that reaches the courier on the caretaker's own verdict has an
\* address without gaps, but for fields a reviewer has blanked, whatever the
\* tenant's rules are, and passes every rule it has not switched off: the phone,
\* the name and the items it requires are there and, if it blocks duplicates, no
\* order of the number is known.  Neither the confidence nor the model's verdict
\* can stand in for that.
SilentMeansComplete ==
  stage = "submit" /\ verdict = "approve" /\ tenant.mode # "shadow" =>
    /\ \A f \in Missing(customer.place) : Blanked(f)
    /\ tenant.requires \cap Fields \subseteq customer.has
    /\ "duplicate" \in tenant.requires => order.kind = "none"

\* What is sent fits the service that is booked, whoever chose the method:
\* each end is of its kind, a destination locker is the one near the geocoded
\* point, and the packer the order is stamped with is the one the courier
\* collects from.
ShipmentFits ==
  payload # None =>
    /\ payload.from.kind = Service[customer.method].from
    /\ payload.to.kind = Service[customer.method].to
    /\ (payload.to.kind = "locker") => (geo.point # None /\ payload.to.at = Near[geo.point])
    /\ payload.packer <=> payload.from.of = "packer"

\* Unless a transaction was lost after the courier had accepted, or a human
\* ran the order again, the row tells what the courier has: the shipment of
\* a submitted order is the one in its row, and an order that waits for a
\* manual upload has none.
CourierAgrees ==
  lost \/ acts > 0 \/
    /\ (order.kind = "submitted") => (order.payload = key)
    /\ (order.kind = "awaiting") => (key = None)

=============================================================================
