------------------------------ MODULE Customers ------------------------------
(***************************************************************************)
(* A customer's order count (src/customers/index.ts), as the transactions  *)
(* that store submitted orders keep it                                     *)
(* (src/pipeline/stages/courierSubmitted.ts).  The upsert of the customer  *)
(* runs inside the transaction but on connections of its own, from the     *)
(* pool the transaction's came from (src/db/connection.ts): it is not      *)
(* rolled back with the order, and it may have to wait for a connection    *)
(* that only the transactions that wait could give back.                   *)
(***************************************************************************)
EXTENDS Integers, FiniteSets

CONSTANTS Runs,        \* runs that submit an order of this customer
          Orders, OrderOf, \* the order of each run
          Pool,        \* connections in the pool
          None,
          MaxAttempts  \* bound: how often a run is started

CustomersAssumption ==
  /\ OrderOf \in [Runs -> Orders] /\ Pool \in Nat \ {0} /\ MaxAttempts \in Nat
  /\ None \notin Runs /\ None \notin Nat

VARIABLES
  pc,       \* where each run is
  free,     \* connections nobody holds
  lock,     \* the run whose uncommitted transaction wrote an order
  found,    \* whether the run found its order there
  seen,     \* the count the run has read; None if there was no customer
  orders,   \* orders committed
  count,    \* customers.order_count; None if there is no row
  attempts, \* bound
  lost      \* history: increments that later writes overwrote

vars == <<pc, free, lock, found, seen, orders, count, attempts, lost>>

Init ==
  /\ pc = [r \in Runs |-> "idle"] /\ free = Pool
  /\ lock = [o \in Orders |-> None]
  /\ found = [r \in Runs |-> FALSE] /\ seen = [r \in Runs |-> None]
  /\ orders = {} /\ count = None
  /\ attempts = [r \in Runs |-> 0] /\ lost = 0

At(r, l) == pc[r] = l
Goto(r, l) == pc' = [pc EXCEPT ![r] = l]

\* db.transaction takes a connection and keeps it.
Open(r) ==
  /\ At(r, "idle") /\ attempts[r] < MaxAttempts /\ free > 0
  /\ attempts' = [attempts EXCEPT ![r] = @ + 1]
  /\ free' = free - 1 /\ Goto(r, "find")
  /\ UNCHANGED <<lock, found, seen, orders, count, lost>>

FindOrder(r) ==
  /\ At(r, "find")
  /\ found' = [found EXCEPT ![r] = OrderOf[r] \in orders]
  /\ Goto(r, "order")
  /\ UNCHANGED <<free, lock, seen, orders, count, attempts, lost>>

\* The end of the transaction: the connection and the row are free again.
Close(r, l) ==
  /\ Goto(r, l) /\ free' = free + 1
  /\ lock' = [o \in Orders |-> IF lock[o] = r THEN None ELSE lock[o]]
  /\ found' = [found EXCEPT ![r] = FALSE] /\ seen' = [seen EXCEPT ![r] = None]

\* An update or an insert waits for the transaction that wrote the row, ...
WriteOrder(r) ==
  /\ At(r, "order") /\ lock[OrderOf[r]] = None
  /\ found[r] \/ OrderOf[r] \notin orders
  /\ lock' = [lock EXCEPT ![OrderOf[r]] = r]
  /\ Goto(r, "customer")
  /\ UNCHANGED <<free, found, seen, orders, count, attempts, lost>>

\* ... and an insert of a row that has come meanwhile breaks its key.
OrderTaken(r) ==
  /\ At(r, "order") /\ ~found[r] /\ OrderOf[r] \in orders
  /\ Close(r, "failed")
  /\ UNCHANGED <<orders, count, attempts, lost>>

\* upsertCustomer: each query has a connection while it runs.
ReadCustomer(r) ==
  /\ At(r, "customer") /\ free > 0
  /\ seen' = [seen EXCEPT ![r] = count]
  /\ Goto(r, "upsert")
  /\ UNCHANGED <<free, lock, found, orders, count, attempts, lost>>

\* Mutant: an existing customer's count is written back as it was.
RewriteCount(r) ==
  /\ At(r, "upsert") /\ free > 0 /\ seen[r] # None
  /\ count' = seen[r]
  /\ lost' = lost + (count - seen[r])
  /\ Goto(r, "commit")
  /\ UNCHANGED <<free, lock, found, seen, orders, attempts>>

UpdateCustomer(r) ==
  /\ At(r, "upsert") /\ free > 0 /\ seen[r] # None
  /\ count' = seen[r] + 1
  /\ lost' = lost + (count - seen[r])
  /\ Goto(r, "commit")
  /\ UNCHANGED <<free, lock, found, seen, orders, attempts>>

InsertCustomer(r) ==
  /\ At(r, "upsert") /\ free > 0 /\ seen[r] = None /\ count = None
  /\ count' = 1
  /\ Goto(r, "commit")
  /\ UNCHANGED <<free, lock, found, seen, orders, attempts, lost>>

\* The customer has come meanwhile: the key refuses the insert, and the order
\* is rolled back.
CustomerTaken(r) ==
  /\ At(r, "upsert") /\ free > 0 /\ seen[r] = None /\ count # None
  /\ Close(r, "failed")
  /\ UNCHANGED <<orders, count, attempts, lost>>

Waiting(r) == pc[r] \in {"customer", "upsert"} /\ free = 0

\* Mutant: a query waits for a connection for ever.
NoTimeout(r) == FALSE

\* The pool's default: a query that gets no connection fails after a minute.
AcquireTimesOut(r) == Waiting(r) /\ Close(r, "failed") /\ UNCHANGED <<orders, count, attempts, lost>>

Commit(r) ==
  /\ At(r, "commit")
  /\ orders' = orders \cup {OrderOf[r]}
  /\ Close(r, "done")
  /\ UNCHANGED <<count, attempts, lost>>

\* Another statement of the transaction fails; so may any, or the commit.
Rollback(r) ==
  /\ pc[r] \in {"order", "commit"} /\ lock[OrderOf[r]] \in {None, r}
  /\ Close(r, "failed")
  /\ UNCHANGED <<orders, count, attempts, lost>>

\* A run that failed, or a shipped order, is run again.
Again(r) ==
  /\ pc[r] \in {"failed", "done"} /\ attempts[r] < MaxAttempts
  /\ Goto(r, "idle")
  /\ UNCHANGED <<free, lock, found, seen, orders, count, attempts, lost>>

Step(r) ==
  \/ FindOrder(r) \/ WriteOrder(r) \/ OrderTaken(r) \/ ReadCustomer(r)
  \/ UpdateCustomer(r) \/ InsertCustomer(r) \/ CustomerTaken(r) \/ AcquireTimesOut(r) \/ Commit(r)

Next == \E r \in Runs : Open(r) \/ Step(r) \/ Rollback(r) \/ Again(r)

Spec == Init /\ [][Next]_vars

\* A transaction that has begun goes on; the pool's clock runs.
Fairness == \A r \in Runs : WF_vars(Step(r))
FairSpec == Spec /\ Fairness

-----------------------------------------------------------------------------
(* Properties. *)

\* Every order stored for the customer is in the count, except those whose
\* increment a racing write has overwritten; a rolled-back transaction and a
\* second submission count too.
OrdersAreCounted ==
  Cardinality(orders) <= (IF count = None THEN 0 ELSE count) + lost

\* A transaction that has begun ends, though each of those that wait for a
\* connection, or for a row, holds a connection the others wait for.
SubmissionEnds ==
  \A r \in Runs : (pc[r] \notin {"idle", "failed", "done"}) ~> (pc[r] \in {"failed", "done"})

=============================================================================
