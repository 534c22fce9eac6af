----------------------- MODULE MCIntegrationDelivery ------------------------
(***************************************************************************)
(* Small instances of IntegrationDelivery.                                 *)
(***************************************************************************)
EXTENDS IntegrationDelivery, TLC

\* A short delay, then a longer one, like the first two of the service.
MCBackoff == <<1, 2>>

\* Worker processes are interchangeable.
WorkerSymmetry == Permutations(Workers)
=============================================================================
