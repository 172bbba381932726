---------------------------- MODULE Reservations ---------------------------
(***************************************************************************)
(* What handleHcmAbsoluteBalance of requests.service.ts computes from the  *)
(* requests that hold a reservation: their sum, and which of them it has   *)
(* to flag.  dayCount and createdAt are functions on the requests.         *)
(***************************************************************************)
EXTENDS Integers, FiniteSets

\* The sum of days_requested over a set of requests, as the number of their
\* (request, day of the request) pairs.
HeldDays(S, dayCount) == Cardinality(UNION {{r} \X (1..dayCount[r]) : r \in S})

\* The sets of requests that an absolute balance v may flag: the newest ones,
\* one after the other until the rest fits.  The rows are read in no set
\* order, so of those created at the same time any may go first.
FlagSets(holders, dayCount, createdAt, v) ==
  LET overage == HeldDays(holders, dayCount) - v
      NewestFirst(F) == \A r \in F, q \in holders \ F : createdAt[q] <= createdAt[r]
      Enough(F) == HeldDays(F, dayCount) >= overage
      NoMore(F) == \E last \in F : /\ \A r \in F : createdAt[last] <= createdAt[r]
                                   /\ ~Enough(F \ {last})
  IN  IF overage <= 0 THEN {{}}
      ELSE {F \in SUBSET holders : NewestFirst(F) /\ Enough(F) /\ NoMore(F)}
=============================================================================
