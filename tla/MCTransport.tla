------------------------------ MODULE MCTransport ------------------------------
(***************************************************************************)
(* Instances of PmTransport for TLC.                                       *)
(***************************************************************************)
EXTENDS PmTransport, TLC

CONSTANTS c1, c2

ClientSymmetry == Permutations(Clients)
===============================================================================
