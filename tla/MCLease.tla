--------------------------------- MODULE MCLease ---------------------------------
(***************************************************************************)
(* Instances of PmLease for TLC.                                           *)
(***************************************************************************)
EXTENDS PmLease, TLC

CONSTANTS t1, w1, w2, p1, p2

LeaseSymmetry == Permutations(Tasks) \cup Permutations(Workers) \cup Permutations(Sweepers)
===============================================================================
