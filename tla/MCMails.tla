------------------------------- MODULE MCMails -------------------------------
(* Instances of Mails for TLC.                                              *)
EXTENDS Mails, TLC

Row(table, id, order) == [table |-> table, id |-> id, order |-> order]

(* An order and its refund, which has another id.  The template of order    *)
(* mails stands where the cron job passes it over and serves mails by hand. *)
OrderAndRefund == {Row("orders", 1, 1), Row("refund", 2, 1)}
OrderIsDue == [r \in OrderAndRefund |-> IF r.table = "orders" THEN "due" ELSE "absent"]
TypesInOrder == <<"OTHER", "ORDER", "CSI", "REFUND", "OTHER">>
=============================================================================
