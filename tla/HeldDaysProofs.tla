-------------------------- MODULE HeldDaysProofs --------------------------
(***************************************************************************)
(* Facts about the operators of Reservations, for any finite set of rows:  *)
(* HeldDays is the sum it stands for, and an absolute balance always finds *)
(* a set of rows that it may flag.                                         *)
(***************************************************************************)
EXTENDS Reservations, FunctionTheorems, FiniteSetTheorems, WellFoundedInduction, TLAPS

-----------------------------------------------------------------------------
(* The sum HeldDays *)

\* What HeldDays counts.
Pairs(S, f) == UNION {{r} \X (1..f[r]) : r \in S}

\* The pairs of finitely many rows are finitely many.
LEMMA PairsFinite ==
  ASSUME NEW S, IsFiniteSet(S), NEW f, \A r \in S : f[r] \in Nat
  PROVE  IsFiniteSet(Pairs(S, f))
<1>1. ASSUME NEW r \in S
      PROVE  IsFiniteSet({r} \X (1..f[r]))
  <2>1. IsFiniteSet({r})
    BY FS_Singleton
  <2>2. \A n \in Nat : IsFiniteSet(1..n)
    BY FS_Interval
  <2>3. IsFiniteSet(1..f[r])
    BY <2>2
  <2> QED
    BY <2>1, <2>3, FS_Product
<1> DEFINE Of == [r \in S |-> {r} \X (1..f[r])]
           Parts == {{r} \X (1..f[r]) : r \in S}
<1>2. Of \in Surjection(S, Parts)
  BY DEF Surjection
<1>3. IsFiniteSet(Parts)
  <2> HIDE DEF Of, Parts
  <2> QED
    BY <1>2, FS_Surjection
<1>4. \A T \in Parts : IsFiniteSet(T)
  BY <1>1
<1>5. IsFiniteSet(UNION Parts)
  <2> HIDE DEF Parts
  <2> QED
    BY <1>3, <1>4, FS_UNION
<1> QED
  BY <1>5 DEF Pairs

\* No row holds nothing.
LEMMA DaysOfNone ==
  ASSUME NEW f
  PROVE  HeldDays({}, f) = 0
<1>1. UNION {{r} \X (1..f[r]) : r \in {}} = {}
  OBVIOUS
<1> QED
  BY <1>1, FS_EmptySet DEF HeldDays

\* One row holds its days.
LEMMA DaysOfOne ==
  ASSUME NEW r, NEW f, f[r] \in Nat
  PROVE  HeldDays({r}, f) = f[r]
<1>1. HeldDays({r}, f) = Cardinality({r} \X (1..f[r]))
  <2>1. UNION {{x} \X (1..f[x]) : x \in {r}} = {r} \X (1..f[r])
    OBVIOUS
  <2> QED
    BY <2>1 DEF HeldDays
<1>2. IsFiniteSet({r}) /\ Cardinality({r}) = 1
  BY FS_Singleton
<1>3. IsFiniteSet(1..f[r]) /\ Cardinality(1..f[r]) = f[r]
  BY FS_Interval, SMTT(30)
<1>4. Cardinality({r} \X (1..f[r])) = Cardinality({r}) * Cardinality(1..f[r])
  BY <1>2, <1>3, FS_Product
<1> QED
  BY <1>1, <1>2, <1>3, <1>4

\* The sum over a set is that over a part of it and that over the rest.
LEMMA DaysSplit ==
  ASSUME NEW S, IsFiniteSet(S), NEW f, \A r \in S : f[r] \in Nat, NEW F \in SUBSET S
  PROVE  /\ HeldDays(F, f) \in Nat /\ HeldDays(S \ F, f) \in Nat
         /\ HeldDays(S, f) = HeldDays(F, f) + HeldDays(S \ F, f)
<1>1. IsFiniteSet(F) /\ IsFiniteSet(S \ F)
  BY FS_Subset
<1>2. IsFiniteSet(Pairs(F, f)) /\ IsFiniteSet(Pairs(S \ F, f))
  BY <1>1, PairsFinite
<1>3. Pairs(S, f) = Pairs(F, f) \cup Pairs(S \ F, f)
  BY DEF Pairs
<1>4. Pairs(F, f) \cap Pairs(S \ F, f) = {} /\ Cardinality({}) = 0
  BY FS_EmptySet DEF Pairs
<1>5. /\ Cardinality(Pairs(F, f)) \in Nat /\ Cardinality(Pairs(S \ F, f)) \in Nat
      /\ Cardinality(Pairs(F, f) \cup Pairs(S \ F, f)) =
           Cardinality(Pairs(F, f)) + Cardinality(Pairs(S \ F, f)) - 0
  BY <1>2, <1>4, FS_Union, FS_CardinalityType
<1>6. /\ HeldDays(F, f) = Cardinality(Pairs(F, f))
      /\ HeldDays(S \ F, f) = Cardinality(Pairs(S \ F, f))
      /\ HeldDays(S, f) = Cardinality(Pairs(S, f))
  BY DEF HeldDays, Pairs
<1>7. HeldDays(S, f) = Cardinality(Pairs(F, f) \cup Pairs(S \ F, f))
  BY <1>3, <1>6
<1> QED
  BY <1>5, <1>6, <1>7

\* A set of rows holds the days of one of them and those of the others.
LEMMA DaysRemove ==
  ASSUME NEW S, IsFiniteSet(S), NEW f, \A r \in S : f[r] \in Nat, NEW r \in S
  PROVE  /\ HeldDays(S \ {r}, f) \in Nat
         /\ HeldDays(S, f) = HeldDays(S \ {r}, f) + f[r]
<1>1. HeldDays({r}, f) = f[r] /\ f[r] \in Nat
  BY DaysOfOne
<1>2. /\ HeldDays(S \ {r}, f) \in Nat
      /\ HeldDays(S, f) = HeldDays({r}, f) + HeldDays(S \ {r}, f)
  BY DaysSplit
<1> QED
  BY <1>1, <1>2

\* The sum depends on the days of the summed rows only.
LEMMA HeldSame ==
  ASSUME NEW S, NEW f, NEW g, \A r \in S : f[r] = g[r]
  PROVE  HeldDays(S, f) = HeldDays(S, g)
<1>1. {{r} \X (1..f[r]) : r \in S} = {{r} \X (1..g[r]) : r \in S}
  OBVIOUS
<1> QED
  BY <1>1 DEF HeldDays

-----------------------------------------------------------------------------
(* The rows an absolute balance flags *)

\* The subsets of a finite set cannot shrink for ever.
LEMMA SmallestSet ==
  ASSUME NEW R, IsFiniteSet(R), NEW T \in SUBSET (SUBSET R), T # {}
  PROVE  \E F \in T : \A G \in T : ~(G \subseteq F /\ G # F)
<1>1. IsWellFoundedOn(StrictSubsetOrdering(R), SUBSET R)
  BY FS_StrictSubsetOrderingWellFounded, FS_FiniteSubsetsOfFinite
<1>2. PICK F \in T : \A G \in T : ~(<<G, F>> \in StrictSubsetOrdering(R))
  BY <1>1, WFMin
<1> QED
  BY <1>2 DEF StrictSubsetOrdering

\* Of some rows one is the oldest: the one with the fewest older ones.
LEMMA OldestOf ==
  ASSUME NEW F, IsFiniteSet(F), F # {}, NEW c, \A r \in F : c[r] \in Nat
  PROVE  \E last \in F : \A r \in F : c[last] <= c[r]
<1> DEFINE Older(r) == {q \in F : c[q] < c[r]}
           Olders == {Older(r) : r \in F}
<1>1. PICK G \in Olders : \A H \in Olders : ~(H \subseteq G /\ H # G)
  <2>1. Olders \in SUBSET (SUBSET F) /\ Olders # {}
    OBVIOUS
  <2> HIDE DEF Olders
  <2> QED
    BY <2>1, SmallestSet
<1>2. PICK last \in F : G = Older(last)
  BY <1>1
<1>3. ASSUME NEW r \in F
      PROVE  c[last] <= c[r]
  <2>1. SUFFICES ASSUME c[r] < c[last]
                 PROVE  FALSE
    BY <1>2
  <2>2. c[r] \in Nat /\ c[last] \in Nat
    BY <1>2
  <2>3. Older(r) \subseteq Older(last) /\ r \in Older(last) /\ r \notin Older(r)
    BY <2>1, <2>2
  <2> QED
    BY <1>1, <1>2, <2>3
<1> QED
  BY <1>2, <1>3

\* FlagSets is never empty: some rows are newest first, hold enough, and do
\* not without their oldest.  So the action of TimeOff that takes one of them
\* is never blocked by the choice, as the loop of the code always ends.
LEMMA SomeFlagSet ==
  ASSUME NEW R, IsFiniteSet(R), NEW f, NEW c, NEW v \in Nat,
         \A r \in R : f[r] \in Nat /\ c[r] \in Nat
  PROVE  FlagSets(R, f, c, v) # {}
<1> DEFINE overage == HeldDays(R, f) - v
           Good == {F \in SUBSET R : /\ \A r \in F, q \in R \ F : c[q] <= c[r]
                                     /\ HeldDays(F, f) >= overage}
<1>1. /\ HeldDays(R, f) \in Nat
      /\ \A F \in SUBSET R : HeldDays(F, f) \in Nat
  BY DaysSplit
<1>2. CASE overage <= 0
  BY <1>2 DEF FlagSets
<1>3. CASE ~(overage <= 0)
  <2>1. R \in Good
    BY <1>1
  <2>2. Good \in SUBSET (SUBSET R) /\ Good # {}
    BY <2>1
  <2>3. PICK F \in Good : \A G \in Good : ~(G \subseteq F /\ G # F)
    <3> HIDE DEF Good
    <3> QED
      BY <2>2, SmallestSet
  <2>4. F # {} /\ IsFiniteSet(F)
    BY <1>1, <1>3, <2>3, DaysOfNone, FS_Subset
  <2>5. PICK last \in F : \A r \in F : c[last] <= c[r]
    BY <2>3, <2>4, OldestOf
  <2>6. F \ {last} \notin Good
    BY <2>3, <2>5
  <2>7. \A r \in F \ {last}, q \in R \ (F \ {last}) : c[q] <= c[r]
    BY <2>3, <2>5
  <2>8. ~(HeldDays(F \ {last}, f) >= overage)
    BY <2>3, <2>6, <2>7
  <2>9. F \in FlagSets(R, f, c, v)
    BY <1>3, <2>3, <2>5, <2>8 DEF FlagSets
  <2> QED
    BY <2>9
<1> QED
  BY <1>2, <1>3
=============================================================================
