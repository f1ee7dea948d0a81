-------------------------------- MODULE MCFamily --------------------------------
(***************************************************************************)
(* Instances of PmFamily for TLC.                                          *)
(***************************************************************************)
EXTENDS PmFamily, TLC

CONSTANTS p1, p2

\* two children, one of which can be edited
TwoChildren == {<<1>>, <<1, 1>>, <<2>>}
===============================================================================
