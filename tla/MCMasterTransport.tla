-------------------------- MODULE MCMasterTransport --------------------------
(***************************************************************************)
(* Instances of MasterTransport for TLC.                                   *)
(***************************************************************************)
EXTENDS MasterTransport, TLC

CONSTANTS c1, c2

\* Callers are interchangeable.
CallerSymmetry == Permutations(Callers)
=============================================================================
