--------------------------- MODULE MCPostgresStore ---------------------------
(* A small instance of PostgresStore for TLC.  The rows that create_draft is *)
(* given do not point to a Grant or an Attempt.                              *)
EXTENDS PostgresStore, TLC

MCGivenRows ==
  {row \in DraftRow :
     /\ row.state \in {"READY", "AWAITING_AUTHORIZATION", "REVOKED"}
     /\ row.grant = None /\ row.attempt = None}

\* Identifiers and sessions are interchangeable.
Symmetry == Permutations(Digests) \cup Permutations(Cards) \cup Permutations(Grants)
              \cup Permutations(Attempts) \cup Permutations(Sessions)
=============================================================================
