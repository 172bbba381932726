------------------------ MODULE ReconciliationProofs ------------------------
(***************************************************************************)
(* Proofs about HCM's balances on their way in, for any pairs and values.  *)
(***************************************************************************)
EXTENDS Reconciliation, TLAPS

\* While reconcile() runs it has met every pair that it need not ask for any
\* more; it holds the answer for a pair that it is not through with.
WalkInv ==
  /\ walk.running => \A p \in Pairs : p \notin walk.todo => walk.met[p] # "nothing"
  /\ walk.at # None => walk.running /\ walk.at \in walk.todo

\* The inductive invariant.
LInv == TypeOK /\ DriftIsRounding /\ OverbookedByRounding /\ WalkInv

-----------------------------------------------------------------------------
(* Rounding *)

\* Math.round is off by half a tenth at most, and exact on tenths.
LEMMA RoundOff ==
  ASSUME NEW x \in Int
  PROVE  /\ Round(x) \in Int
         /\ x - Tenth * Round(x) \in -5..4
         /\ InTenths(x) => x = Tenth * Round(x)
BY DEF Round, Tenth, InTenths

\* The difference of two numbers of tenths is a number of tenths.
LEMMA TenthsApart ==
  ASSUME NEW x \in Int, NEW y \in Int, InTenths(x), InTenths(y)
  PROVE  InTenths(x - y)
BY DEF InTenths, Tenth

\* Numbers with the same number of tenths are less than a tenth apart.
LEMMA SameTenths ==
  ASSUME NEW x \in Int, NEW y \in Int, Round(x) = Round(y)
  PROVE  x - y \in (1 - Tenth)..(Tenth - 1)
BY DEF Round, Tenth

\* The requests that fit exceed the balance by half a tenth at most.
LEMMA FittingFits ==
  ASSUME NEW v \in Nat
  PROVE  Fitting(v) \in Nat /\ Day * Fitting(v) <= v + 5
<1>1. Round(Day) = 10
  BY DEF Round, Day, Tenth
<1>2. Round(v) \in Nat /\ Tenth * Round(v) <= v + 5
  BY DEF Round, Tenth
<1>3. ASSUME NEW r \in Nat
      PROVE  r \div 10 \in Nat /\ 10 * (r \div 10) <= r
  OBVIOUS
<1>4. Fitting(v) \in Nat /\ 10 * Fitting(v) <= Round(v)
  BY <1>1, <1>2, <1>3 DEF Fitting
<1> QED
  BY <1>2, <1>4 DEF Day, Tenth

-----------------------------------------------------------------------------
(* handleHcmAbsoluteBalance *)

\* What it does to each pair.
AbsoluteEffect(S, v) ==
  /\ balance' \in [Pairs -> Nat] /\ ledger' \in [Pairs -> Int]
  /\ pending' \in [Pairs -> Nat] /\ stuck' \in [Pairs -> Nat]
  /\ rounded' \in [Pairs -> 0..MaxRounded]
  /\ \A p \in S :
       /\ balance'[p] = v[p] /\ ledger'[p] = ledger[p] + Entry(p, v[p])
       /\ pending'[p] + stuck'[p] <= Fitting(v[p])
       /\ rounded'[p] = IF InTenths(v[p] - balance[p]) THEN rounded[p] ELSE rounded[p] + 1
  /\ \A p \in Pairs \ S :
       /\ balance'[p] = balance[p] /\ ledger'[p] = ledger[p]
       /\ pending'[p] = pending[p] /\ stuck'[p] = stuck[p]
       /\ rounded'[p] = rounded[p]

LEMMA AbsoluteStep ==
  ASSUME TypeOK, NEW S \in SUBSET Pairs, NEW v \in [Pairs -> Nat], Absolute(S, v)
  PROVE  AbsoluteEffect(S, v)
<1> USE DEF TypeOK
<1>1. /\ balance' = [p \in Pairs |-> IF p \in S THEN v[p] ELSE balance[p]]
      /\ ledger' = [p \in Pairs |-> IF p \in S THEN ledger[p] + Entry(p, v[p]) ELSE ledger[p]]
      /\ rounded' = [p \in Pairs |->
           IF p \in S /\ ~InTenths(v[p] - balance[p]) THEN rounded[p] + 1 ELSE rounded[p]]
      /\ \A p \in S : rounded'[p] <= MaxRounded
  BY DEF Absolute
<1>2. \A p \in Pairs : Entry(p, v[p]) \in Int
  BY RoundOff DEF Entry
<1>3. balance' \in [Pairs -> Nat] /\ ledger' \in [Pairs -> Int]
  BY <1>1, <1>2
<1>4. rounded' \in [Pairs -> 0..MaxRounded]
  <2>1. ASSUME NEW p \in Pairs
        PROVE  rounded'[p] \in 0..MaxRounded
    <3>1. /\ rounded'[p] \in {rounded[p], rounded[p] + 1}
          /\ p \notin S => rounded'[p] = rounded[p]
      BY <1>1
    <3>2. p \in S => rounded'[p] <= MaxRounded
      BY <1>1
    <3>3. rounded[p] \in 0..MaxRounded
      OBVIOUS
    <3> HIDE DEF TypeOK
    <3> QED
      BY <3>1, <3>2, <3>3, ValuesAssumption
  <2> QED
    BY <1>1, <2>1
<1>5. ASSUME NEW p \in Pairs
      PROVE  /\ pending'[p] \in Nat /\ stuck'[p] \in Nat
             /\ p \in S => pending'[p] + stuck'[p] <= Fitting(v[p])
             /\ p \notin S => pending'[p] = pending[p] /\ stuck'[p] = stuck[p]
  <2> DEFINE Keeps(n, m) ==
               IF p \in S /\ Reserved(p) > Fitting(v[p])
               THEN n + m = Fitting(v[p]) /\ n <= pending[p] /\ m <= stuck[p]
               ELSE n = pending[p] /\ m = stuck[p]
  <2>1. \E k \in (0..pending[p]) \X (0..stuck[p]) :
          Keeps(k[1], k[2]) /\ pending'[p] = k[1] /\ stuck'[p] = k[2]
    BY DEF Absolute
  <2> QED
    BY <2>1, FittingFits DEF Reserved
<1>6. pending' \in [Pairs -> Nat] /\ stuck' \in [Pairs -> Nat]
  <2>1. \E kept : /\ pending' = [p \in Pairs |-> kept[p][1]]
                  /\ stuck' = [p \in Pairs |-> kept[p][2]]
    BY DEF Absolute
  <2> QED
    BY <1>5, <2>1
<1> QED
  BY <1>1, <1>3, <1>4, <1>5, <1>6 DEF AbsoluteEffect

\* It keeps the bounds on rounding and on what is reserved.
LEMMA AbsoluteKeeps ==
  ASSUME LInv, NEW S \in SUBSET Pairs, NEW v \in [Pairs -> Nat], Absolute(S, v)
  PROVE  DriftIsRounding' /\ OverbookedByRounding'
<1>0. AbsoluteEffect(S, v)
  BY AbsoluteStep DEF LInv
<1> USE DEF LInv, TypeOK, Day, Tenth
<1>1. ASSUME NEW p \in Pairs
      PROVE  /\ 2 * (balance'[p] - Tenth * ledger'[p]) <= Tenth * rounded'[p]
             /\ -2 * (balance'[p] - Tenth * ledger'[p]) <= Tenth * rounded'[p]
  <2>1. /\ 2 * (balance[p] - Tenth * ledger[p]) <= Tenth * rounded[p]
        /\ -2 * (balance[p] - Tenth * ledger[p]) <= Tenth * rounded[p]
    BY DEF DriftIsRounding
  <2>2. CASE p \in S
    <3> DEFINE d == v[p] - balance[p]
    <3>1. /\ balance'[p] = balance[p] + d /\ ledger'[p] = ledger[p] + Round(d)
          /\ rounded'[p] = IF InTenths(d) THEN rounded[p] ELSE rounded[p] + 1
      BY <1>0, <2>2 DEF AbsoluteEffect, Entry
    <3>2. /\ d \in Int /\ Round(d) \in Int /\ d - Tenth * Round(d) \in -5..4
          /\ InTenths(d) => d = Tenth * Round(d)
      BY RoundOff
    <3>3. balance[p] \in Int /\ ledger[p] \in Int /\ rounded[p] \in Int
      OBVIOUS
    <3> HIDE DEF d
    <3> QED
      BY <2>1, <3>1, <3>2, <3>3
  <2>3. CASE p \notin S
    BY <1>0, <2>1, <2>3 DEF AbsoluteEffect
  <2> QED
    BY <2>2, <2>3
<1>2. ASSUME NEW p \in Pairs \ Refreshed
      PROVE  2 * (Day * (pending'[p] + stuck'[p]) - balance'[p]) <= Tenth
  <2>1. CASE p \in S
    <3>1. /\ balance'[p] = v[p] /\ pending'[p] + stuck'[p] <= Fitting(v[p])
          /\ pending'[p] \in Nat /\ stuck'[p] \in Nat
      BY <1>0, <2>1 DEF AbsoluteEffect
    <3>2. Fitting(v[p]) \in Nat /\ Day * Fitting(v[p]) <= v[p] + 5
      BY FittingFits
    <3> QED
      BY <3>1, <3>2
  <2>2. CASE p \notin S
    BY <1>0, <2>2 DEF AbsoluteEffect, OverbookedByRounding, Reserved
  <2> QED
    BY <2>1, <2>2
<1> QED
  BY <1>1, <1>2 DEF DriftIsRounding, OverbookedByRounding, Reserved

-----------------------------------------------------------------------------
(* Steps *)

\* create(), reject(), cancel() and approve().
LEMMA RequestStep ==
  ASSUME LInv, NEW p \in Pairs,
         Create(p) \/ Withdraw(p) \/ Approve(p) \/ ApproveRefused(p)
  PROVE  LInv'
<1> USE DEF LInv, TypeOK, Day, Tenth
<1>1. WalkInv'
  BY DEF WalkInv, Create, Withdraw, Approve, ApproveRefused
<1>2. CASE Create(p)
  BY <1>1, <1>2 DEF Create, Reserved, DriftIsRounding, OverbookedByRounding
<1>3. CASE Withdraw(p) \/ ApproveRefused(p)
  BY <1>1, <1>3 DEF Withdraw, ApproveRefused, Reserved, DriftIsRounding, OverbookedByRounding
<1>4. CASE Approve(p)
  <2>1. Round(Day) = 10
    BY DEF Round
  <2>2. TypeOK'
    BY <1>4, <2>1 DEF Approve, CanCommit
  <2>3. DriftIsRounding'
    BY <1>4, <2>1 DEF Approve, DriftIsRounding
  <2>4. OverbookedByRounding'
    BY <1>4 DEF Approve, Reserved, OverbookedByRounding
  <2> QED
    BY <1>1, <2>2, <2>3, <2>4
<1> QED
  BY <1>2, <1>3, <1>4

\* ingestBatch and refreshFromHcm.
LEMMA SyncStep ==
  ASSUME LInv,
         \/ \E S \in SUBSET Pairs : IngestBatch(S)
         \/ \E p \in Refreshed : Refresh(p)
  PROVE  LInv'
<1> USE DEF LInv
<1>1. WalkInv'
  BY DEF WalkInv, IngestBatch, Refresh
<1>2. ASSUME NEW S \in SUBSET Pairs, IngestBatch(S)
      PROVE  LInv'
  <2>1. Absolute(S, hcm) /\ UNCHANGED <<hcm, walk>> /\ hcm \in [Pairs -> Nat]
    BY <1>2 DEF IngestBatch, TypeOK
  <2>2. TypeOK'
    BY <2>1, AbsoluteStep DEF AbsoluteEffect, TypeOK
  <2> QED
    BY <1>1, <2>1, <2>2, AbsoluteKeeps
<1>3. ASSUME NEW p \in Refreshed, Refresh(p)
      PROVE  LInv'
  <2> DEFINE d == hcm[p] - balance[p]
  <2>0. /\ p \in Pairs /\ hcm[p] \in Int /\ balance[p] \in Int
        /\ InTenths(hcm[p]) /\ InTenths(balance[p])
    BY <1>3, PairsAssumption DEF Refresh, TypeOK
  <2>1. p \in Pairs /\ d \in Int /\ d = Tenth * Round(d) /\ Round(d) \in Int
    <3>1. d \in Int
      BY <2>0
    <3>2. InTenths(d)
      BY <2>0, TenthsApart
    <3> HIDE DEF d, LInv
    <3> QED
      BY <2>0, <3>1, <3>2, RoundOff
  <2>2. /\ balance' = [balance EXCEPT ![p] = hcm[p]]
        /\ ledger' = [ledger EXCEPT ![p] = @ + Round(d)]
        /\ UNCHANGED <<pending, stuck, hcm, walk, rounded>>
    BY <1>3 DEF Refresh, Entry, requests
  <2>3. TypeOK'
    BY <2>1, <2>2 DEF TypeOK
  <2>4. DriftIsRounding'
    <3>1. SUFFICES ASSUME NEW q \in Pairs
                   PROVE  balance'[q] - Tenth * ledger'[q] = balance[q] - Tenth * ledger[q]
      BY <2>2 DEF DriftIsRounding
    <3> QED
      BY <2>1, <2>2 DEF TypeOK, Tenth
  <2>5. OverbookedByRounding'
    BY <1>3, <2>2 DEF OverbookedByRounding, Reserved, TypeOK
  <2> QED
    BY <1>1, <2>3, <2>4, <2>5
<1> QED
  BY <1>2, <1>3

\* reconcile() takes one step.
LEMMA WalkStep ==
  ASSUME LInv, WalkStart \/ WalkEnd \/ \E p \in Pairs : Walk(p)
  PROVE  LInv'
<1> USE DEF LInv
<1>1. walk' \in Walks /\ WalkInv'
  <2>1. CASE WalkStart
    BY <2>1 DEF WalkStart, TypeOK, Walks, WalkInv
  <2>2. CASE WalkEnd
    BY <2>2 DEF WalkEnd, TypeOK, Walks, WalkInv
  <2>3. ASSUME NEW p \in Pairs, WalkAsk(p)
        PROVE  walk' \in Walks /\ WalkInv'
    BY <2>3, NoneAssumption DEF WalkAsk, TypeOK, Walks, WalkInv
  <2>4. ASSUME NEW p \in Pairs, NEW what \in {"an error", "no drift", "drift"}, Met(p, what)
        PROVE  walk' \in Walks /\ WalkInv'
    <3>1. /\ walk'.running = walk.running /\ walk'.todo = walk.todo \ {p} /\ walk'.at = None
          /\ walk'.met = [walk.met EXCEPT ![p] = what]
          /\ walk' \in Walks
      BY <2>4 DEF Met, TypeOK, Walks
    <3> QED
      BY <3>1 DEF WalkInv, TypeOK, Walks
  <2> QED
    BY <2>1, <2>2, <2>3, <2>4 DEF Walk, WalkError, WalkDrift, WalkNoDrift
<1>2. ASSUME NEW p \in Pairs, WalkDrift(p)
      PROVE  LInv'
  <2>1. /\ Absolute({p}, [walk.listed EXCEPT ![p] = walk.answer]) /\ UNCHANGED hcm
        /\ [walk.listed EXCEPT ![p] = walk.answer] \in [Pairs -> Nat]
    BY <1>2 DEF WalkDrift, TypeOK, Walks
  <2>2. TypeOK'
    BY <1>1, <2>1, AbsoluteStep DEF AbsoluteEffect, TypeOK
  <2> QED
    BY <1>1, <2>1, <2>2, AbsoluteKeeps
<1>3. ASSUME UNCHANGED <<balance, ledger, pending, stuck, hcm, rounded>>
      PROVE  LInv'
  BY <1>1, <1>3 DEF TypeOK, DriftIsRounding, OverbookedByRounding, Reserved
<1> QED
  BY <1>2, <1>3 DEF WalkStart, WalkEnd, Walk, WalkAsk, WalkError, WalkNoDrift, requests

LEMMA InitInv == Init => LInv
<1> SUFFICES ASSUME Init
             PROVE  LInv
  OBVIOUS
<1>1. hcm \in [Pairs -> Nat] /\ \A p \in Pairs : InTenths(hcm[p])
  BY ValuesAssumption DEF Init
<1>2. \A p \in Pairs : Round(hcm[p]) \in Int /\ hcm[p] = Tenth * Round(hcm[p])
  BY <1>1, RoundOff
<1>3. TypeOK
  BY <1>1, <1>2, ValuesAssumption DEF Init, TypeOK, Walks
<1>4. DriftIsRounding /\ OverbookedByRounding
  BY <1>1, <1>2 DEF Init, DriftIsRounding, OverbookedByRounding, Reserved, Tenth, Day
<1>5. WalkInv
  BY DEF Init, WalkInv
<1> QED
  BY <1>3, <1>4, <1>5 DEF LInv

LEMMA StepInv == LInv /\ [Next]_vars => LInv'
<1> SUFFICES ASSUME LInv, [Next]_vars
             PROVE  LInv'
  OBVIOUS
<1>1. ASSUME NEW p \in Pairs, NEW v \in Values, HcmSet(p, v)
      PROVE  LInv'
  BY <1>1, ValuesAssumption DEF HcmSet, LInv, TypeOK, DriftIsRounding, OverbookedByRounding,
    WalkInv, Reserved, requests
<1>2. CASE UNCHANGED vars
  BY <1>2 DEF vars, LInv, TypeOK, DriftIsRounding, OverbookedByRounding, WalkInv, Reserved
<1> QED
  BY <1>1, <1>2, RequestStep, SyncStep, WalkStep DEF Next

-----------------------------------------------------------------------------
(* Theorems *)

THEOREM Invariance == Spec => []LInv
BY InitInv, StepInv, PTL DEF Spec

\* Balances stay natural numbers, and the counts of requests with them: no
\* commit takes more than there is, whatever balances HCM reports.
THEOREM TypeCorrect == Spec => []TypeOK
<1>1. LInv => TypeOK
  BY DEF LInv
<1> QED
  BY <1>1, Invariance, PTL

\* The balance and its ledger come apart by rounding only, for any number of
\* syncs.
THEOREM LedgerDrift == Spec => []DriftIsRounding
<1>1. LInv => DriftIsRounding
  BY DEF LInv
<1> QED
  BY <1>1, Invariance, PTL

\* Batches and reconcile() leave half a tenth of overbooking at most.
THEOREM Overbooking == Spec => []OverbookedByRounding
<1>1. LInv => OverbookedByRounding
  BY DEF LInv
<1> QED
  BY <1>1, Invariance, PTL

\* reconcile() meets every row, whichever calls fail.
THEOREM WalkMeetsAll == Spec => []EveryRowIsMet
<1>1. LInv => EveryRowIsMet
  BY DEF LInv, WalkInv, EveryRowIsMet
<1> QED
  BY <1>1, Invariance, PTL

\* What reconcile() leaves is less than a tenth from HCM's answer, unless the
\* row has changed since it was listed.
THEOREM Reconciles == Spec => ReconciledToRounding
<1> DEFINE Step ==
      \A p \in Pairs :
        walk.at = p /\ walk'.at = None /\ balance[p] = walk.listed[p] =>
          balance'[p] - walk.answer \in (1 - Tenth)..(Tenth - 1)
<1>1. LInv /\ [Next]_vars => [Step]_vars
  <2> SUFFICES ASSUME LInv, Next, NEW p \in Pairs,
                      walk.at = p, walk'.at = None, balance[p] = walk.listed[p]
               PROVE  balance'[p] - walk.answer \in (1 - Tenth)..(Tenth - 1)
    OBVIOUS
  <2>1. walk' # walk /\ walk.running /\ walk.todo # {} /\ walk.at # None
    BY NoneAssumption DEF LInv, WalkInv
  <2>2. WalkDrift(p) \/ WalkNoDrift(p)
    BY <2>1 DEF Next, Walk, WalkStart, WalkEnd, WalkAsk, WalkError, WalkDrift, WalkNoDrift,
      Create, Withdraw, Approve, ApproveRefused, HcmSet, Refresh, IngestBatch
  <2>3. walk.answer \in Nat /\ walk.listed \in [Pairs -> Nat]
    BY DEF LInv, TypeOK, Walks
  <2>4. CASE WalkDrift(p)
    <3>1. /\ Absolute({p}, [walk.listed EXCEPT ![p] = walk.answer])
          /\ [walk.listed EXCEPT ![p] = walk.answer] \in [Pairs -> Nat]
      BY <2>3, <2>4 DEF WalkDrift
    <3>2. AbsoluteEffect({p}, [walk.listed EXCEPT ![p] = walk.answer])
      BY <3>1, AbsoluteStep DEF LInv
    <3>3. balance'[p] = walk.answer
      BY <2>3, <3>2 DEF AbsoluteEffect
    <3> QED
      BY <2>3, <3>3 DEF Tenth
  <2>5. CASE WalkNoDrift(p)
    <3>1. Round(walk.answer) = Round(walk.listed[p]) /\ balance'[p] = walk.listed[p]
      BY <2>5 DEF WalkNoDrift, Drifted
    <3> QED
      BY <2>3, <3>1, SameTenths DEF Tenth
  <2> QED
    BY <2>2, <2>4, <2>5
<1>2. [][Step]_vars => ReconciledToRounding
  BY PTL DEF ReconciledToRounding
<1> HIDE DEF Step
<1> QED
  BY <1>1, <1>2, Invariance, PTL DEF Spec

-----------------------------------------------------------------------------
(* Balances in tenths of a day *)

\* HCM's clients set balances in tenths only.
TenthsOnly == \A v \in Values : InTenths(v)

\* All days that are stored or under way are in tenths, and no entry of a
\* ledger has been rounded.
InTenthsInv ==
  /\ \A p \in Pairs : InTenths(balance[p]) /\ InTenths(hcm[p]) /\ rounded[p] = 0
  /\ \A p \in Pairs : InTenths(walk.listed[p])
  /\ InTenths(walk.answer)

\* Balances in tenths stay so where they are set to balances in tenths.
LEMMA AbsoluteInTenths ==
  ASSUME TypeOK, NEW S \in SUBSET Pairs, NEW v \in [Pairs -> Nat], Absolute(S, v),
         \A p \in Pairs : InTenths(balance[p]) /\ InTenths(v[p]) /\ rounded[p] = 0
  PROVE  \A p \in Pairs : InTenths(balance'[p]) /\ rounded'[p] = 0
<1> SUFFICES ASSUME NEW p \in Pairs
             PROVE  InTenths(balance'[p]) /\ rounded'[p] = 0
  OBVIOUS
<1>1. AbsoluteEffect(S, v)
  BY AbsoluteStep
<1>2. InTenths(v[p] - balance[p])
  BY TenthsApart DEF TypeOK
<1> QED
  BY <1>1, <1>2 DEF AbsoluteEffect

\* Every step keeps days in tenths.
LEMMA InTenthsStep ==
  ASSUME TenthsOnly, LInv, InTenthsInv, [Next]_vars
  PROVE  InTenthsInv'
<1> USE DEF LInv, InTenthsInv
<1>1. /\ balance \in [Pairs -> Nat] /\ hcm \in [Pairs -> Nat] /\ walk \in Walks
      /\ InTenths(Day) /\ InTenths(0) /\ Day \in Int
  BY DEF TypeOK, InTenths, Day, Tenth
<1>2. ASSUME NEW p \in Pairs,
             Create(p) \/ Withdraw(p) \/ Approve(p) \/ ApproveRefused(p)
      PROVE  InTenthsInv'
  <2>1. /\ UNCHANGED <<walk, rounded>>
        /\ balance' \in {balance, [balance EXCEPT ![p] = @ - Day]}
        /\ hcm' \in {hcm, [hcm EXCEPT ![p] = @ - Day]}
    BY <1>2 DEF Create, Withdraw, Approve, ApproveRefused
  <2>2. ASSUME NEW q \in Pairs
        PROVE  InTenths(balance[q] - Day) /\ InTenths(hcm[q] - Day)
    <3>1. /\ balance[q] \in Int /\ InTenths(balance[q])
          /\ hcm[q] \in Int /\ InTenths(hcm[q])
      BY <1>1
    <3> QED
      BY <1>1, <3>1, TenthsApart
  <2>3. \A q \in Pairs : InTenths(balance'[q]) /\ InTenths(hcm'[q])
    BY <1>1, <2>1, <2>2
  <2> QED
    BY <2>1, <2>3
<1>3. ASSUME NEW p \in Pairs, NEW v \in Values, HcmSet(p, v)
      PROVE  InTenthsInv'
  BY <1>1, <1>3 DEF HcmSet, requests, TenthsOnly
<1>4. ASSUME NEW p \in Refreshed, Refresh(p)
      PROVE  InTenthsInv'
  BY <1>1, <1>4, PairsAssumption DEF Refresh
<1>5. ASSUME NEW S \in SUBSET Pairs, IngestBatch(S)
      PROVE  InTenthsInv'
  BY <1>1, <1>5, AbsoluteInTenths DEF IngestBatch
<1>6. ASSUME WalkStart \/ WalkEnd
      PROVE  InTenthsInv'
  <2>1. CASE WalkStart
    <3>1. walk'.listed = balance /\ walk'.answer = 0 /\ UNCHANGED <<balance, hcm, rounded>>
      BY <2>1 DEF WalkStart
    <3> QED
      BY <1>1, <3>1
  <2>2. CASE WalkEnd
    BY <1>1, <2>2 DEF WalkEnd, Walks
  <2> QED
    BY <1>6, <2>1, <2>2
<1>7. ASSUME NEW p \in Pairs, WalkAsk(p)
      PROVE  InTenthsInv'
  BY <1>1, <1>7 DEF WalkAsk, Walks, requests
<1>8. ASSUME NEW p \in Pairs, NEW what, Met(p, what)
      PROVE  (\A q \in Pairs : InTenths(walk'.listed[q])) /\ InTenths(walk'.answer)
  BY <1>1, <1>8 DEF Met, Walks
<1>9. ASSUME NEW p \in Pairs, WalkError(p) \/ WalkNoDrift(p)
      PROVE  InTenthsInv'
  BY <1>8, <1>9 DEF WalkError, WalkNoDrift, requests
<1>10. ASSUME NEW p \in Pairs, WalkDrift(p)
       PROVE  InTenthsInv'
  <2> DEFINE v == [walk.listed EXCEPT ![p] = walk.answer]
  <2>1. Absolute({p}, v) /\ Met(p, "drift") /\ UNCHANGED hcm
    BY <1>10 DEF WalkDrift
  <2>2. v \in [Pairs -> Nat] /\ \A q \in Pairs : InTenths(v[q])
    BY <1>1 DEF Walks
  <2>3. \A q \in Pairs : InTenths(balance'[q]) /\ rounded'[q] = 0
    <3> HIDE DEF v
    <3> QED
      BY <2>1, <2>2, AbsoluteInTenths
  <2> QED
    BY <1>8, <2>1, <2>3
<1>11. CASE UNCHANGED vars
  BY <1>11 DEF vars
<1> QED
  BY <1>2, <1>3, <1>4, <1>5, <1>6, <1>7, <1>9, <1>10, <1>11 DEF Next, Walk

LEMMA InTenthsInvariance ==
  ASSUME TenthsOnly
  PROVE  Spec => []InTenthsInv
<1>1. Init => InTenthsInv
  BY DEF Init, InTenthsInv, InTenths, Tenth
<1>2. LInv /\ InTenthsInv /\ [Next]_vars => InTenthsInv'
  BY InTenthsStep
<1> QED
  BY <1>1, <1>2, Invariance, PTL DEF Spec

\* Where HCM's balances are in tenths the balance is the sum of the ledger, as
\* docs/TRD.md has it: what breaks it is the rounding of finer balances.
THEOREM LedgerExactInTenths ==
  ASSUME TenthsOnly
  PROVE  Spec => []LedgerIsExact
<1>1. LInv /\ InTenthsInv => LedgerIsExact
  <2> SUFFICES ASSUME LInv, InTenthsInv, NEW p \in Pairs
               PROVE  balance[p] = Tenth * ledger[p]
    BY DEF LedgerIsExact
  <2>1. balance[p] \in Nat /\ ledger[p] \in Int /\ rounded[p] = 0
    BY DEF LInv, TypeOK, InTenthsInv
  <2> QED
    BY <2>1 DEF LInv, DriftIsRounding, Tenth
<1> QED
  BY <1>1, Invariance, InTenthsInvariance, PTL

\* And then batches and reconcile() leave no overbooking at all.
THEOREM CoveredInTenths ==
  ASSUME TenthsOnly
  PROVE  Spec => [](\A p \in Pairs \ Refreshed : Day * Reserved(p) <= balance[p])
<1>1. LInv /\ InTenthsInv => \A p \in Pairs \ Refreshed : Day * Reserved(p) <= balance[p]
  <2> SUFFICES ASSUME LInv, InTenthsInv, NEW p \in Pairs \ Refreshed
               PROVE  Day * Reserved(p) <= balance[p]
    OBVIOUS
  <2>1. /\ balance[p] \in Nat /\ balance[p] % 10 = 0 /\ Reserved(p) \in Nat
        /\ 2 * (100 * Reserved(p) - balance[p]) <= 10
    BY DEF LInv, TypeOK, InTenthsInv, InTenths, OverbookedByRounding, Reserved, Tenth, Day
  <2> QED
    BY <2>1 DEF Day
<1> QED
  BY <1>1, Invariance, InTenthsInvariance, PTL
=============================================================================
