------------------------- MODULE MCVendorDiscipline -------------------------
(* Instances of VendorDiscipline for TLC: the operations each run enables. *)
EXTENDS VendorDiscipline, TLC

LedgerOps == {"detect", "log", "type", "request", "review", "complete"}
ReviewOps == {"detect", "log", "request", "review"}
NightOps == {"detect", "extend", "nightly", "quarterly", "reactivate", "remove",
             "fail"}

(* Vendors are interchangeable, and so are workers.                         *)
Symmetric == Permutations(Vendor) \cup Permutations(Workers)

=============================================================================
