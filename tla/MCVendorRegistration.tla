------------------------ MODULE MCVendorRegistration -------------------------
(* Instances of VendorRegistration for TLC.                                 *)
EXTENDS VendorRegistration, TLC

CONSTANTS p1, p2, r1, r2, a1

Symmetry == Permutations({p1, p2}) \cup Permutations({r1, r2})
=============================================================================
