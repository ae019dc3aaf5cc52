--------------------------- MODULE MCCommitProtocol ---------------------------
(* Small instances of CommitProtocol: one Draft, two order versions, turns   *)
(* named after the handles they generate.                                    *)
EXTENDS CommitProtocol, TLC

CONSTANTS w1, w2, r1

MCHandles == Workers \cup Reconcilers

Circumstances(database, leaseHolds, mayCrash, applicationsClose, serverErrors) ==
  [database |-> database, leaseHolds |-> leaseHolds, mayCrash |-> mayCrash,
   applicationsClose |-> applicationsClose, serverErrors |-> serverErrors]

Overlap     == {Circumstances("sqlite", FALSE, TRUE, FALSE, FALSE),
                Circumstances("postgres", FALSE, TRUE, FALSE, FALSE),
                Circumstances("sqlite", TRUE, TRUE, TRUE, TRUE),
                Circumstances("postgres", TRUE, TRUE, TRUE, TRUE),
                Circumstances("sqlite", TRUE, FALSE, TRUE, TRUE),
                Circumstances("postgres", TRUE, FALSE, TRUE, TRUE)}
Recovery    == {Circumstances("sqlite", TRUE, TRUE, FALSE, FALSE),
                Circumstances("sqlite", TRUE, FALSE, TRUE, TRUE)}
DyingTurns  == {Circumstances("sqlite", TRUE, TRUE, FALSE, FALSE)}
OnPostgres  == {Circumstances("postgres", TRUE, FALSE, FALSE, FALSE)}
LeaseLost   == {Circumstances("sqlite", FALSE, FALSE, FALSE, FALSE)}

Symmetry == Permutations(Cards) \cup Permutations(Grants) \cup Permutations(Attempts)
              \cup Permutations(Calls) \cup Permutations(Workers)
=============================================================================
