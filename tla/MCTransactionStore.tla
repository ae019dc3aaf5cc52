-------------------------- MODULE MCTransactionStore --------------------------
(* A small instance of TransactionStore for TLC. *)
EXTENDS TransactionStore, TLC

\* Identifiers are opaque to the store, so they are interchangeable.
Symmetry == Permutations(Digests) \cup Permutations(Cards) \cup Permutations(Grants)
              \cup Permutations(Attempts) \cup Permutations(Handles)
=============================================================================
