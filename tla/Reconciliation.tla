--------------------------- MODULE Reconciliation ---------------------------
(***************************************************************************)
(* HCM's balances on their way into apps/timeoff, for what TimeOff leaves  *)
(* out: several (employee, location) pairs, and balances that are no whole *)
(* number of tenths of a day.                                              *)
(*                                                                         *)
(* domain/balance.ts computes in tenths and throws on anything between     *)
(* (toUnits); handleHcmAbsoluteBalance of requests.service.ts, for batches *)
(* and reconcile(), stores the balance as it comes, and rounds the ledger  *)
(* entry and the comparison with the reservations (Math.round).  Balances  *)
(* are hundredths of a day here, the ledger tenths, and every request is   *)
(* for one day.  approve() is one step: TimeOff has its races.             *)
(***************************************************************************)
EXTENDS Integers, FiniteSets

CONSTANTS
  Pairs,        \* the (employee, location) pairs
  Refreshed,    \* those that refreshFromHcm() is called for
  Values,       \* the balances that HCM's other clients may set
  MaxRounded    \* bound: how many ledger entries of a pair are rounded

ASSUME PairsAssumption == IsFiniteSet(Pairs) /\ Refreshed \subseteq Pairs
ASSUME ValuesAssumption == Values \subseteq Nat /\ MaxRounded \in Nat

VARIABLES
  balance,    \* balance_days of each snapshot
  ledger,     \* the sum of delta over each pair's balance_ledger
  pending,    \* each pair's number of PENDING requests
  stuck,      \* its APPROVED requests whose commit has thrown
  hcm,        \* HCM's balances
  walk,       \* reconcile(): the pairs it has yet to ask for, and what it knows
  rounded     \* history: the entries of each ledger that rounding has changed

vars == <<balance, ledger, pending, stuck, hcm, walk, rounded>>

Day == 100
Tenth == 10

\* The pair that reconcile() has HCM's balance of, or none.
None == "none"
ASSUME NoneAssumption == None \notin Pairs

\* "met": of each pair, what reconcile() has come to since it last began.
Walks ==
  [running: BOOLEAN, todo: SUBSET Pairs, listed: [Pairs -> Nat],
   at: Pairs \cup {None}, answer: Nat,
   met: [Pairs -> {"nothing", "an error", "no drift", "drift"}]]

\* Correct types: balances and the counts of requests are never negative.
TypeOK ==
  /\ balance \in [Pairs -> Nat] /\ ledger \in [Pairs -> Int]
  /\ pending \in [Pairs -> Nat] /\ stuck \in [Pairs -> Nat]
  /\ hcm \in [Pairs -> Nat]
  /\ walk \in Walks
  /\ rounded \in [Pairs -> 0..MaxRounded]

-----------------------------------------------------------------------------
(* Helpers *)

\* Math.round(days * 10).
Round(x) == (x + 5) \div Tenth

\* toUnits returns; it throws for any other number of days.
InTenths(x) == x % Tenth = 0

Reserved(p) == pending[p] + stuck[p]

requests == <<pending, stuck>>

-----------------------------------------------------------------------------
(* RequestsService *)

\* create(), which throws where the balance is not in tenths.
Create(p) ==
  /\ InTenths(balance[p]) /\ balance[p] - Day * Reserved(p) >= Day
  /\ pending' = [pending EXCEPT ![p] = @ + 1]
  /\ UNCHANGED <<balance, ledger, stuck, hcm, walk, rounded>>

\* reject() and cancel() compute with the reservation only.
Withdraw(p) ==
  /\ pending[p] > 0
  /\ pending' = [pending EXCEPT ![p] = @ - 1]
  /\ UNCHANGED <<balance, ledger, stuck, hcm, walk, rounded>>

\* A mutant of CanCommit: the check against a negative balance is dropped.
MutCommitUnchecked(p) == InTenths(balance[p])

\* commitReservation returns.
CanCommit(p) == InTenths(balance[p]) /\ balance[p] >= Day

\* approve(), HCM debiting: commitReservation throws where the balance is not
\* in tenths or too low, and the request stays approved.
Approve(p) ==
  /\ pending[p] > 0 /\ hcm[p] >= Day
  /\ pending' = [pending EXCEPT ![p] = @ - 1]
  /\ hcm' = [hcm EXCEPT ![p] = @ - Day]
  /\ IF CanCommit(p)
     THEN /\ balance' = [balance EXCEPT ![p] = @ - Day]
          /\ ledger' = [ledger EXCEPT ![p] = @ - Round(Day)]
          /\ UNCHANGED stuck
     ELSE /\ stuck' = [stuck EXCEPT ![p] = @ + 1]
          /\ UNCHANGED <<balance, ledger>>
  /\ UNCHANGED <<walk, rounded>>

\* approve(), HCM refusing.
ApproveRefused(p) ==
  /\ hcm[p] < Day
  /\ Withdraw(p)

\* A mutant of Entry: the ledger entry is cut off to tenths.
MutEntryCutOff(p, v) == (v - balance[p]) \div Tenth

\* The ledger entry for a new balance v.
Entry(p, v) == Round(v - balance[p])

\* A mutant of Fitting: a request that fits in part stays.
MutFitsInPart(v) == (Round(v) + 9) \div Round(Day)

\* How many requests a balance of v can hold, all compared in tenths.
Fitting(v) == Round(v) \div Round(Day)

\* handleHcmAbsoluteBalance for the pairs of S and their balances in v: what
\* is reserved beyond v becomes FAILED, pending and approved requests alike.
Absolute(S, v) ==
  /\ balance' = [p \in Pairs |-> IF p \in S THEN v[p] ELSE balance[p]]
  /\ ledger' = [p \in Pairs |-> IF p \in S THEN ledger[p] + Entry(p, v[p]) ELSE ledger[p]]
  /\ LET Keeps(p, n, m) ==
           IF p \in S /\ Reserved(p) > Fitting(v[p])
           THEN n + m = Fitting(v[p]) /\ n <= pending[p] /\ m <= stuck[p]
           ELSE n = pending[p] /\ m = stuck[p]
         Kept(p) == {k \in (0..pending[p]) \X (0..stuck[p]) : Keeps(p, k[1], k[2])}
     IN  \E kept \in [Pairs -> UNION {Kept(p) : p \in Pairs}] :
           /\ \A p \in Pairs : kept[p] \in Kept(p)
           /\ pending' = [p \in Pairs |-> kept[p][1]]
           /\ stuck' = [p \in Pairs |-> kept[p][2]]
  /\ rounded' = [p \in Pairs |->
       IF p \in S /\ ~InTenths(v[p] - balance[p]) THEN rounded[p] + 1 ELSE rounded[p]]
  /\ \A p \in S : rounded'[p] <= MaxRounded

-----------------------------------------------------------------------------
(* ingestBatch and refreshFromHcm *)

\* All entries of a batch, in one transaction.
IngestBatch(S) ==
  /\ S # {}
  /\ Absolute(S, hcm)
  /\ UNCHANGED <<hcm, walk>>

\* setAbsolute throws where the balance is not in tenths: the old or the new.
Refresh(p) ==
  /\ InTenths(hcm[p]) /\ InTenths(balance[p])
  /\ balance' = [balance EXCEPT ![p] = hcm[p]]
  /\ ledger' = [ledger EXCEPT ![p] = @ + Entry(p, hcm[p])]
  /\ UNCHANGED <<requests, hcm, walk, rounded>>

-----------------------------------------------------------------------------
(* reconcile *)

WalkStart ==
  /\ ~walk.running
  /\ walk' = [running |-> TRUE, todo |-> Pairs, listed |-> balance,
              at |-> None, answer |-> 0, met |-> [p \in Pairs |-> "nothing"]]
  /\ UNCHANGED <<balance, ledger, requests, hcm, rounded>>

\* getBalance of the next row.
WalkAsk(p) ==
  /\ walk.running /\ walk.at = None /\ p \in walk.todo
  /\ walk' = [walk EXCEPT !.at = p, !.answer = hcm[p]]
  /\ UNCHANGED <<balance, ledger, requests, hcm, rounded>>

\* The walk is through with pair p, and goes on.
Met(p, what) ==
  walk' = [walk EXCEPT !.todo = @ \ {p}, !.at = None, !.answer = 0,
                       !.met = [@ EXCEPT ![p] = what]]

\* A mutant of WalkError: the error leaves the loop.
MutErrorEndsWalk(p) ==
  /\ walk.running /\ walk.at = None /\ p \in walk.todo
  /\ walk' = [walk EXCEPT !.todo = {}, !.met = [@ EXCEPT ![p] = "an error"]]
  /\ UNCHANGED <<balance, ledger, requests, hcm, rounded>>

\* getBalance of the next row fails: the error is counted.
WalkError(p) ==
  /\ walk.running /\ walk.at = None /\ p \in walk.todo
  /\ Met(p, "an error")
  /\ UNCHANGED <<balance, ledger, requests, hcm, rounded>>

\* A mutant of Drifted: only a balance that has fallen is a drift.
MutOnlyFallen(p) == Round(walk.answer) < Round(walk.listed[p])

\* HCM's answer and the listed balance differ by their tenths.
Drifted(p) == Round(walk.answer) # Round(walk.listed[p])

WalkDrift(p) ==
  /\ walk.at = p /\ Drifted(p)
  /\ Absolute({p}, [walk.listed EXCEPT ![p] = walk.answer])
  /\ Met(p, "drift")
  /\ UNCHANGED hcm

WalkNoDrift(p) ==
  /\ walk.at = p /\ ~Drifted(p)
  /\ Met(p, "no drift")
  /\ UNCHANGED <<balance, ledger, requests, hcm, rounded>>

WalkEnd ==
  /\ walk.running /\ walk.todo = {}
  /\ walk' = [walk EXCEPT !.running = FALSE]
  /\ UNCHANGED <<balance, ledger, requests, hcm, rounded>>

-----------------------------------------------------------------------------
\* Another client of HCM.
HcmSet(p, v) ==
  /\ hcm' = [hcm EXCEPT ![p] = v]
  /\ UNCHANGED <<balance, ledger, requests, walk, rounded>>

\* Every pair has a snapshot in tenths, with its first ledger entry.
Init ==
  /\ hcm \in [Pairs -> {v \in Values : InTenths(v)}]
  /\ balance = hcm /\ ledger = [p \in Pairs |-> Round(hcm[p])]
  /\ pending = [p \in Pairs |-> 0] /\ stuck = [p \in Pairs |-> 0]
  /\ walk = [running |-> FALSE, todo |-> {}, listed |-> balance, at |-> None,
             answer |-> 0, met |-> [p \in Pairs |-> "nothing"]]
  /\ rounded = [p \in Pairs |-> 0]

Walk(p) == WalkAsk(p) \/ WalkError(p) \/ WalkDrift(p) \/ WalkNoDrift(p)

Next ==
  \/ \E p \in Pairs :
       \/ Create(p) \/ Withdraw(p) \/ Approve(p) \/ ApproveRefused(p)
       \/ Walk(p)
       \/ \E v \in Values : HcmSet(p, v)
  \/ \E p \in Refreshed : Refresh(p)
  \/ \E S \in SUBSET Pairs : IngestBatch(S)
  \/ WalkStart \/ WalkEnd

Spec == Init /\ [][Next]_vars

-----------------------------------------------------------------------------
(* Properties *)

\* The balance and the sum of the ledger come apart by half a tenth at most
\* with each sync whose difference was not in tenths, and by nothing else:
\* not by commits, refreshes, batches or reconcile() on balances in tenths.
DriftIsRounding ==
  \A p \in Pairs :
    LET off == balance[p] - Tenth * ledger[p]
    IN  2 * off <= Tenth * rounded[p] /\ -2 * off <= Tenth * rounded[p]

\* What is reserved exceeds the balance by half a tenth at most, whatever
\* batches and reconcile() bring (a refresh does not look at the requests).
OverbookedByRounding ==
  \A p \in Pairs \ Refreshed : 2 * (Day * Reserved(p) - balance[p]) <= Tenth

\* When reconcile() comes to an end it has met every row: one whose call
\* failed does not keep it from the others.
EveryRowIsMet ==
  walk.running /\ walk.todo = {} => \A p \in Pairs : walk.met[p] # "nothing"

\* A row that nothing has changed since it was listed differs from HCM's
\* answer by less than a tenth once reconcile() is through with it.
ReconciledToRounding ==
  [][\A p \in Pairs :
       walk.at = p /\ walk'.at = None /\ balance[p] = walk.listed[p] =>
         balance'[p] - walk.answer \in (1 - Tenth)..(Tenth - 1)]_vars

\* docs/TRD.md, "8. Invariants", 4: the balance is the sum of the ledger.  A
\* sync stores HCM's balance and rounds the entry.
LedgerIsExact == \A p \in Pairs : balance[p] = Tenth * ledger[p]
=============================================================================
