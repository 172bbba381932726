----------------------------- MODULE MCTimeOff -----------------------------
(* Instances of TimeOff for TLC. *)
EXTENDS TimeOff, TLC

\* The requests are interchangeable: nothing in TimeOff orders them but born.
Symmetry == Permutations(Requests)
=============================================================================
