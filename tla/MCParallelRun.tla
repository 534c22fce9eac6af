--------------------------- MODULE MCParallelRun ----------------------------
(***************************************************************************)
(* Small instances of ParallelRun.                                         *)
(***************************************************************************)
EXTENDS ParallelRun, TLC

\* Workers are interchangeable: no definition orders or names them.
WorkerSymmetry == Permutations(WorkerIds)
=============================================================================
