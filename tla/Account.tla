------------------------------ MODULE Account ------------------------------
(***************************************************************************)
(* What the time-off service promises the people who use it: an account of *)
(* days, and requests on it.  No outbox, no handler, no call and no row of *)
(* balances: a request, and whether HCM has debited it.  TimeOff is shown  *)
(* to implement this, as long as nothing refreshes a balance.              *)
(***************************************************************************)
EXTENDS RequestStatus, Integers

CONSTANTS
  Requests,        \* the ids a request may get
  MaxDays,         \* the longest request
  HeldDays(_, _)   \* the days of a set of requests

VARIABLES
  opened,     \* whether there is an account
  credit,     \* all days granted so far, those since taken included
  status,     \* the status of each request, or "NONE"
  days,       \* its days
  debited     \* the requests that HCM has debited

vars == <<opened, credit, status, days, debited>>

Those(sts) == {r \in Requests : status[r] \in sts}

\* The days of the requests that wait or are approved.
Promised == HeldDays(Those({"PENDING", "APPROVED"}), days)

\* What is not taken.
Balance == credit - HeldDays(Those({"COMMITTED"}), days)

-----------------------------------------------------------------------------
Becomes(r, to) ==
  /\ CanTransition(status[r], to)
  /\ status' = [status EXCEPT ![r] = to]
  /\ UNCHANGED <<opened, credit, days, debited>>

\* A request is taken only if the balance covers it, next to all that is
\* promised already.
Submit(r, d) ==
  /\ opened /\ status[r] = "NONE"
  /\ Balance - Promised >= d
  /\ status' = [status EXCEPT ![r] = "PENDING"]
  /\ days' = [days EXCEPT ![r] = d]
  /\ UNCHANGED <<opened, credit, debited>>

Withdraw(r) == \E to \in {"REJECTED", "CANCELLED"} :
  status[r] = "PENDING" /\ Becomes(r, to)

Approve(r) == status[r] = "PENDING" /\ Becomes(r, "APPROVED")

\* HCM debits an approved request, once; perhaps one that has failed since.
Debit(r) ==
  /\ status[r] \in {"APPROVED", "FAILED"}
  /\ r \notin debited
  /\ debited' = debited \cup {r}
  /\ UNCHANGED <<opened, credit, status, days>>

\* Days are taken for a request that HCM has debited.
Take(r) ==
  /\ status[r] = "APPROVED" /\ r \in debited
  /\ Becomes(r, "COMMITTED")

Fail(r) == status[r] = "APPROVED" /\ Becomes(r, "FAILED")

\* HCM grants or withdraws days.  Requests fail only where the new balance
\* does not cover all that is promised, and it covers what remains.
Regrant(F) ==
  /\ F \subseteq Those({"PENDING", "APPROVED"})
  /\ opened' = TRUE
  /\ credit' \in Int
  /\ F # {} => Balance' < Promised
  /\ status' = [r \in Requests |-> IF r \in F THEN "FAILED" ELSE status[r]]
  /\ Promised' <= Balance'
  /\ UNCHANGED <<days, debited>>

Init ==
  /\ opened \in BOOLEAN /\ credit \in Nat
  /\ status = [r \in Requests |-> "NONE"]
  /\ days = [r \in Requests |-> 0]
  /\ debited = {}

Next ==
  \/ \E r \in Requests :
       \/ \E d \in 1..MaxDays : Submit(r, d)
       \/ Withdraw(r) \/ Approve(r) \/ Debit(r) \/ Take(r) \/ Fail(r)
  \/ \E F \in SUBSET Requests : Regrant(F)

Spec == Init /\ [][Next]_vars
=============================================================================
