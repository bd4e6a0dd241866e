---------------------------- MODULE MCCommission ----------------------------
(* The instance of Commission for TLC.                                      *)
EXTENDS Commission, TLC

CONSTANTS i1, i2, o1, c1, c2
OneOrder == (i1 :> o1) @@ (i2 :> o1)
=============================================================================
