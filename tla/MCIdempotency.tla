--------------------------- MODULE MCIdempotency ---------------------------
(* Instances of Idempotency for TLC. *)
EXTENDS Idempotency, TLC

\* Sends, keys and bodies are interchangeable.
Symmetry == Permutations(Sends) \cup Permutations(Keys) \cup Permutations(Bodies)
=============================================================================
