--------------------------- MODULE MCRunnerClaims ---------------------------
(***************************************************************************)
(* Small instances of RunnerClaims.                                        *)
(***************************************************************************)
EXTENDS RunnerClaims, TLC

\* Neither requests nor worker tokens are ordered or named anywhere.
Symmetry == Permutations(Requests) \cup Permutations(Creds)
=============================================================================
