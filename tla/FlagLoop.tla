----------------------------- MODULE FlagLoop ------------------------------
(***************************************************************************)
(* The loop of handleHcmAbsoluteBalance (requests.service.ts) that flags   *)
(* requests when a balance from HCM does not cover what is reserved, one   *)
(* iteration a step, for every set of rows it may be given.                *)
(***************************************************************************)
EXTENDS Reservations, SequencesExt

CONSTANTS
  Requests,     \* the rows that hold a reservation
  MaxDays,      \* bound: the longest request
  MaxBorn,      \* bound: how many different created_at there are
  MaxBalance    \* bound: the largest balance

ASSUME FlagLoopAssumption ==
  IsFiniteSet(Requests) /\ {MaxDays, MaxBorn, MaxBalance} \subseteq Nat

VARIABLES
  dayCount, createdAt,   \* the rows
  absolute,              \* the balance from HCM
  rows,                  \* what the loop has yet to look at, in its order
  overage,               \* how much too much is reserved
  flagged                \* flaggedRequestIds

input == <<dayCount, createdAt, absolute>>
vars == <<input, rows, overage, flagged>>

\* A mutant of Newer: the oldest requests go first.
MutOlder(a, b) == createdAt[a] <= createdAt[b]

\* The comparison of the sort: a may stand before b.
Newer(a, b) == createdAt[a] >= createdAt[b]

Init ==
  /\ dayCount \in [Requests -> 1..MaxDays]
  /\ createdAt \in [Requests -> 1..MaxBorn]
  /\ absolute \in 0..MaxBalance
  /\ overage = HeldDays(Requests, dayCount) - absolute
  /\ rows \in {s \in SetToSeqs(Requests) :
                 \A i, j \in DOMAIN s : i < j => Newer(s[i], s[j])}
  /\ flagged = {}

\* A mutant of Looping: the loop stops one unit early.
MutStopEarly == overage > 1 /\ rows # <<>>

Looping == overage > 0 /\ rows # <<>>

Flag ==
  /\ Looping
  /\ flagged' = flagged \cup {Head(rows)}
  /\ overage' = overage - dayCount[Head(rows)]
  /\ rows' = Tail(rows)
  /\ UNCHANGED input

Next == Flag

Spec == Init /\ [][Next]_vars /\ WF_vars(Next)

\* What the loop flags is what FlagSets, which TimeOff uses, says it may flag.
FlagsAsStated ==
  ~Looping => flagged \in FlagSets(Requests, dayCount, createdAt, absolute)

\* The loop ends, and then the rest is covered by the balance: the newest
\* requests go until nothing is overbooked (docs/TRD.md, "9. Failure Modes").
RestIsCovered ==
  <>[](HeldDays(Requests \ flagged, dayCount) <= absolute)
=============================================================================
