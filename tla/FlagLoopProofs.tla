-------------------------- MODULE FlagLoopProofs --------------------------
(***************************************************************************)
(* What the loop of handleHcmAbsoluteBalance flags is what FlagSets, which *)
(* the action of TimeOff uses, says: for any finite set of rows, any days  *)
(* and dates, and any order the sort may give the rows.                    *)
(***************************************************************************)
EXTENDS FlagLoop, HeldDaysProofs

-----------------------------------------------------------------------------
(* The inductive invariant *)

\* What the variables hold.
LoopTypes ==
  /\ dayCount \in [Requests -> 1..MaxDays]
  /\ createdAt \in [Requests -> 1..MaxBorn]
  /\ absolute \in 0..MaxBalance
  /\ rows \in Seq(Requests)
  /\ flagged \in SUBSET Requests

\* What the loop has yet to look at is in the order of the sort.
StillSorted == \A i, j \in DOMAIN rows : i < j => Newer(rows[i], rows[j])

\* The loop looks at each row once: it is flagged or still to come, at one place.
EachOnce ==
  /\ \A i, j \in DOMAIN rows : rows[i] = rows[j] => i = j
  /\ \A r \in Requests : r \notin flagged <=> \E i \in DOMAIN rows : rows[i] = r

\* No row that is still to come is newer than one that is flagged.
NewestFlagged == \A r \in flagged, i \in DOMAIN rows : Newer(r, rows[i])

\* The counter of the loop is what is reserved beyond the balance.
OverageLeft ==
  overage = HeldDays(Requests, dayCount) - absolute - HeldDays(flagged, dayCount)

\* Without the last row it flagged, the loop had not been done.
LastWasNeeded ==
  flagged # {} =>
    \E last \in flagged :
      /\ \A r \in flagged : Newer(r, last)
      /\ HeldDays(flagged \ {last}, dayCount) < HeldDays(Requests, dayCount) - absolute

LoopInv ==
  /\ LoopTypes /\ StillSorted /\ EachOnce /\ NewestFlagged
  /\ OverageLeft /\ LastWasNeeded

-----------------------------------------------------------------------------
(* Its proof *)

\* The sums that the invariant compares are those of HeldDaysProofs.
LEMMA LoopSums ==
  ASSUME LoopTypes
  PROVE  /\ IsFiniteSet(Requests)
         /\ \A r \in Requests : dayCount[r] \in Nat \ {0} /\ createdAt[r] \in Nat
         /\ absolute \in Nat
         /\ \A F \in SUBSET Requests : IsFiniteSet(F) /\ HeldDays(F, dayCount) \in Nat
<1>1. /\ IsFiniteSet(Requests) /\ absolute \in Nat
      /\ \A r \in Requests : dayCount[r] \in Nat \ {0} /\ createdAt[r] \in Nat
  BY FlagLoopAssumption DEF LoopTypes
<1>2. \A F \in SUBSET Requests : IsFiniteSet(F) /\ HeldDays(F, dayCount) \in Nat
  BY <1>1, FS_Subset, DaysSplit
<1> QED
  BY <1>1, <1>2

\* An order of the rows, as the sort gives it, is one of all of them.
LEMMA OrderOfAll ==
  ASSUME NEW s \in SetToSeqs(Requests)
  PROVE  /\ s \in Seq(Requests)
         /\ \A i, j \in DOMAIN s : s[i] = s[j] => i = j
         /\ \A r \in Requests : \E i \in DOMAIN s : s[i] = r
<1> DEFINE n == Cardinality(Requests)
<1>1. n \in Nat /\ IsFiniteSet(Requests)
  BY FlagLoopAssumption, FS_CardinalityType
<1>2. IsFiniteSet(1..n) /\ Cardinality(1..n) = n
  BY <1>1, FS_Interval
<1>3. s \in [1..n -> Requests] /\ \A i, j \in 1..n : i # j => s[i] # s[j]
  BY DEF SetToSeqs
<1>4. s \in Injection(1..n, Requests)
  BY <1>3 DEF Injection, IsInjective
<1>5. s \in Surjection(1..n, Requests)
  BY <1>1, <1>2, <1>4, FS_Injection
<1> QED
  BY <1>1, <1>3, <1>5 DEF Surjection

\* The loop begins with all rows to come.
LEMMA LoopInit ==
  ASSUME Init
  PROVE  LoopInv
<1>1. rows \in SetToSeqs(Requests)
  BY DEF Init
<1>2. LoopTypes
  BY <1>1, OrderOfAll DEF Init, LoopTypes
<1>3. StillSorted
  BY DEF Init, StillSorted
<1>4. EachOnce
  BY <1>1, OrderOfAll DEF Init, EachOnce
<1>5. OverageLeft
  BY <1>2, LoopSums, DaysOfNone DEF Init, OverageLeft
<1>6. NewestFlagged /\ LastWasNeeded
  BY DEF Init, NewestFlagged, LastWasNeeded
<1> QED
  BY <1>2, <1>3, <1>4, <1>5, <1>6 DEF LoopInv

\* An iteration takes the first of the rows; the others keep their order.
LEMMA RowsAfterFlag ==
  ASSUME LoopInv, Flag
  PROVE  /\ rows' \in Seq(Requests)
         /\ 1 \in DOMAIN rows /\ Head(rows) = rows[1] /\ rows[1] \in Requests
         /\ \A i \in DOMAIN rows' :
              i \in Nat \ {0} /\ i + 1 \in DOMAIN rows /\ rows'[i] = rows[i + 1]
         /\ \A i \in DOMAIN rows : i \in Nat \ {0} /\ (i # 1 => i - 1 \in DOMAIN rows')
<1>1. rows \in Seq(Requests) /\ rows # <<>> /\ rows' = Tail(rows)
  BY DEF LoopInv, LoopTypes, Flag, Looping
<1>2. /\ Len(rows) \in Nat \ {0} /\ DOMAIN rows = 1..Len(rows)
      /\ Head(rows) = rows[1] /\ rows[1] \in Requests
  BY <1>1
<1>3. /\ rows' \in Seq(Requests) /\ Len(rows') = Len(rows) - 1
      /\ DOMAIN rows' = 1..Len(rows')
  BY <1>1
<1>4. \A i \in 1..Len(rows') : rows'[i] = rows[i + 1]
  BY <1>1, <1>3
<1> QED
  BY <1>2, <1>3, <1>4

\* Every iteration keeps the invariant.
LEMMA LoopStep ==
  ASSUME LoopInv, Flag
  PROVE  LoopInv'
<1> DEFINE h == rows[1]
<1>1. flagged' = flagged \cup {h} /\ overage' = overage - dayCount[h] /\ h \in Requests
  BY RowsAfterFlag DEF Flag
<1>2. UNCHANGED input /\ overage > 0
  BY DEF Flag, Looping
<1>3. LoopTypes'
  BY <1>1, <1>2, RowsAfterFlag DEF LoopInv, LoopTypes, input
<1>4. h \notin flagged
  BY RowsAfterFlag DEF LoopInv, EachOnce
<1>5. StillSorted'
  BY <1>2, RowsAfterFlag DEF LoopInv, StillSorted, Newer, input
<1>6. EachOnce'
  <2>1. \A i, j \in DOMAIN rows' : rows'[i] = rows'[j] => i = j
    BY RowsAfterFlag DEF LoopInv, EachOnce
  <2>2. ASSUME NEW r \in Requests, r \notin flagged'
        PROVE  \E i \in DOMAIN rows' : rows'[i] = r
    <3>1. PICK i \in DOMAIN rows : rows[i] = r
      BY <1>1, <2>2 DEF LoopInv, EachOnce
    <3>2. i # 1 /\ i \in Nat
      BY <1>1, <2>2, <3>1, RowsAfterFlag
    <3>3. i - 1 \in DOMAIN rows' /\ rows'[i - 1] = rows[(i - 1) + 1]
      BY <3>1, <3>2, RowsAfterFlag
    <3> QED
      BY <3>1, <3>2, <3>3
  <2>3. ASSUME NEW i \in DOMAIN rows'
        PROVE  rows'[i] \notin flagged'
    <3>1. i + 1 \in DOMAIN rows /\ rows'[i] = rows[i + 1] /\ i + 1 # 1
      BY RowsAfterFlag
    <3>2. rows[i + 1] \in Requests /\ rows[i + 1] # h
      BY <3>1, RowsAfterFlag DEF LoopInv, LoopTypes, EachOnce
    <3> QED
      BY <1>1, <3>1, <3>2 DEF LoopInv, EachOnce
  <2> QED
    BY <2>1, <2>2, <2>3 DEF EachOnce
<1>7. NewestFlagged'
  <2>1. ASSUME NEW r \in flagged', NEW i \in DOMAIN rows'
        PROVE  Newer(r, rows'[i])
    <3>1. i + 1 \in DOMAIN rows /\ rows'[i] = rows[i + 1] /\ 1 < i + 1
      BY RowsAfterFlag
    <3>2. CASE r \in flagged
      BY <3>1, <3>2 DEF LoopInv, NewestFlagged
    <3>3. CASE r = h
      BY <3>1, <3>3, RowsAfterFlag DEF LoopInv, StillSorted
    <3> QED
      BY <1>1, <3>2, <3>3
  <2> QED
    BY <1>2, <2>1 DEF NewestFlagged, Newer, input
<1>8. /\ flagged \in SUBSET Requests /\ flagged' \in SUBSET Requests
      /\ flagged' \ {h} = flagged /\ h \in flagged'
  BY <1>1, <1>4 DEF LoopInv, LoopTypes
<1>9. /\ HeldDays(flagged, dayCount) \in Nat /\ dayCount[h] \in Nat
      /\ HeldDays(flagged', dayCount) = HeldDays(flagged, dayCount) + dayCount[h]
      /\ HeldDays(Requests, dayCount) \in Nat /\ absolute \in Nat
  <2>1. /\ IsFiniteSet(flagged') /\ \A r \in flagged' : dayCount[r] \in Nat
        /\ HeldDays(Requests, dayCount) \in Nat /\ absolute \in Nat /\ dayCount[h] \in Nat
    BY <1>1, <1>8, LoopSums DEF LoopInv
  <2> QED
    BY <1>8, <2>1, DaysRemove
<1>10. OverageLeft'
  BY <1>1, <1>2, <1>9 DEF LoopInv, OverageLeft, input
<1>11. LastWasNeeded'
  <2>1. \A r \in flagged' : Newer(r, h)
    <3>1. createdAt[h] \in Nat
      BY <1>1, LoopSums DEF LoopInv
    <3> QED
      BY <1>1, <3>1, RowsAfterFlag DEF LoopInv, NewestFlagged, Newer
  <2>2. HeldDays(flagged' \ {h}, dayCount) < HeldDays(Requests, dayCount) - absolute
    BY <1>2, <1>8, <1>9 DEF LoopInv, OverageLeft
  <2> QED
    BY <1>2, <1>8, <2>1, <2>2 DEF LastWasNeeded, Newer, input
<1> QED
  BY <1>3, <1>5, <1>6, <1>7, <1>10, <1>11 DEF LoopInv

\* What the invariant says of a loop that has ended.
LEMMA LoopEnd ==
  ASSUME LoopInv, ~Looping
  PROVE  /\ flagged \in FlagSets(Requests, dayCount, createdAt, absolute)
         /\ HeldDays(Requests \ flagged, dayCount) <= absolute
<1> DEFINE over == HeldDays(Requests, dayCount) - absolute
<1>1. /\ HeldDays(Requests, dayCount) \in Nat /\ absolute \in Nat
      /\ \A F \in SUBSET flagged : HeldDays(F, dayCount) \in Nat
      /\ \A r \in Requests : createdAt[r] \in Nat
      /\ flagged \in SUBSET Requests
  BY LoopSums DEF LoopInv, LoopTypes
<1>2. /\ HeldDays(Requests \ flagged, dayCount) \in Nat
      /\ HeldDays(Requests, dayCount) =
           HeldDays(flagged, dayCount) + HeldDays(Requests \ flagged, dayCount)
  <2>1. IsFiniteSet(Requests) /\ \A r \in Requests : dayCount[r] \in Nat
    BY LoopSums DEF LoopInv
  <2> QED
    BY <1>1, <2>1, DaysSplit
<1>3. HeldDays(flagged, dayCount) >= over
  <2>1. CASE ~(overage > 0)
    BY <1>1, <2>1 DEF LoopInv, OverageLeft
  <2>2. CASE rows = <<>>
    <3>1. DOMAIN rows = {}
      BY <2>2
    <3>2. flagged = Requests
      BY <1>1, <3>1 DEF LoopInv, EachOnce
    <3> QED
      BY <1>1, <3>2
  <2> QED
    BY <2>1, <2>2 DEF Looping
<1>4. CASE over <= 0
  <2>1. flagged = {}
    <3>1. SUFFICES ASSUME flagged # {}
                   PROVE  FALSE
      OBVIOUS
    <3>2. PICK last \in flagged : HeldDays(flagged \ {last}, dayCount) < over
      BY <3>1 DEF LoopInv, LastWasNeeded
    <3> QED
      BY <1>1, <1>4, <3>2
  <2> QED
    BY <1>1, <1>2, <1>3, <1>4, <2>1 DEF FlagSets
<1>5. CASE ~(over <= 0)
  <2>1. flagged # {}
    BY <1>3, <1>5, DaysOfNone
  <2>2. PICK last \in flagged :
          /\ \A r \in flagged : createdAt[last] <= createdAt[r]
          /\ ~(HeldDays(flagged \ {last}, dayCount) >= over)
    <3>1. PICK last \in flagged :
            /\ \A r \in flagged : createdAt[r] >= createdAt[last]
            /\ HeldDays(flagged \ {last}, dayCount) < over
      BY <2>1 DEF LoopInv, LastWasNeeded, Newer
    <3> QED
      BY <1>1, <3>1
  <2>3. \A r \in flagged, q \in Requests \ flagged : createdAt[q] <= createdAt[r]
    BY <1>1 DEF LoopInv, EachOnce, NewestFlagged, Newer
  <2>4. flagged \in FlagSets(Requests, dayCount, createdAt, absolute)
    BY <1>1, <1>3, <1>5, <2>2, <2>3 DEF FlagSets
  <2> QED
    BY <1>1, <1>2, <1>3, <2>4
<1> QED
  BY <1>4, <1>5

-----------------------------------------------------------------------------
(* The theorems *)

\* The invariant holds in every state of the loop.
LEMMA LoopInvariance ==
  Spec => []LoopInv
<1>1. LoopInv /\ [Next]_vars => LoopInv'
  <2> SUFFICES ASSUME LoopInv, [Next]_vars
               PROVE  LoopInv'
    OBVIOUS
  <2>1. CASE UNCHANGED vars
    BY <2>1 DEF vars, input, LoopInv, LoopTypes, StillSorted, EachOnce, NewestFlagged,
                OverageLeft, LastWasNeeded, Newer
  <2> QED
    BY <2>1, LoopStep DEF Next
<1> QED
  BY <1>1, LoopInit, PTL DEF Spec

\* What the loop flags is what FlagSets says, for every set of rows: so the
\* action of TimeOff that sets a balance flags what the code flags.
THEOREM LoopFlagsAsStated ==
  Spec => []FlagsAsStated
<1>1. LoopInv => FlagsAsStated
  BY LoopEnd DEF FlagsAsStated
<1> QED
  BY <1>1, LoopInvariance, PTL

\* When the loop ends, the balance covers what is still reserved: the safety
\* half of RestIsCovered.
THEOREM RestCoveredAtEnd ==
  Spec => [](~Looping => HeldDays(Requests \ flagged, dayCount) <= absolute)
<1>1. LoopInv => (~Looping => HeldDays(Requests \ flagged, dayCount) <= absolute)
  BY LoopEnd
<1> QED
  BY <1>1, LoopInvariance, PTL
=============================================================================
