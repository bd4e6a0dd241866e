----------------------------- MODULE MCQuotation -----------------------------
(* The instance of Quotation for TLC: all that happens to q1, while q2 of   *)
(* the same order takes the receipt numbers.                                *)
EXTENDS Quotation, TLC

CONSTANTS q1, q2, o1

OneOrder == (q1 :> o1) @@ (q2 :> o1)
Update(status, receipt, receipts, special) ==
  [status |-> status, receipt |-> receipt, receipts |-> receipts, special |-> special]
PaidOnce == Update(Paid, "r1", {}, FALSE)
SecondStep == Update("QUOTATIONPAIDSTEPTWO", None, {"r1"}, TRUE)
SomeUpdates ==
  (q1 :> {PaidOnce, SecondStep, Update("QUOTEIN", None, {}, FALSE),
          Update("QUOTEOUT", None, {}, TRUE)})
  @@ (q2 :> {Update(None, "r1", {"r1"}, FALSE)})
SomeOps == (q1 :> {"create", "update", "set", "remove", "dedup"}) @@ (q2 :> {"update"})
=============================================================================
