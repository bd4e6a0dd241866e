----------------------------- MODULE MCOrderFlow -----------------------------
EXTENDS OrderFlow, TLC

(* What the runs let clients ask for.                                       *)
EveryOp == {"status", "create", "update", "remove", "history", "public",
            "work.create", "work.set", "work.update", "reschedule", "refund",
            "complaint"}
ReceiptOps == {"status", "create", "update", "public", "remove", "history",
               "refund", "work.create", "work.update"}
FlowOps == EveryOp \ {"public", "history", "status", "refund"}
ComplaintOps == {"create", "complaint"}

Symmetric == Permutations(Workers)

=============================================================================
