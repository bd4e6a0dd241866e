------------------------------ MODULE MCStaff ------------------------------
(* The instance of Staff for TLC: either two sales persons, one without an  *)
(* account, or two managers and a craftsman were hired before.           *)
EXTENDS Staff, TLC

CONSTANTS s1, s2, m1, m2, m3, t1

KnownStaff == {(s1 :> 1) @@ (s2 :> 0), (m1 :> 1) @@ (m2 :> 2) @@ (t1 :> 3)}
OneAtATime == ("three" :> 1) @@ ("six" :> 2)
=============================================================================
