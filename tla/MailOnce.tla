------------------------------- MODULE MailOnce -------------------------------
(***************************************************************************)
(* What the mail system promises a customer, whatever queue, cron job and  *)
(* logs do: a mail goes out only after something called for it, and it     *)
(* goes out once, except that each disturbance (a job run a second time    *)
(* after a stall, a queue that lost what it knew, a deleted log row) may    *)
(* cost one repetition.                                                    *)
(***************************************************************************)
EXTENDS Naturals

CONSTANT Mails

VARIABLES
  asked,    \* the mails something has called for
  sent,     \* mail -> how often it went out
  disturbed \* mail -> disturbances that may have cost a repetition

vars == <<asked, sent, disturbed>>

Init ==
  /\ asked \subseteq Mails
  /\ sent = [m \in Mails |-> 0]
  /\ disturbed = [m \in Mails |-> 0]

Ask(more) ==
  /\ asked' = asked \cup more
  /\ UNCHANGED <<sent, disturbed>>

Send(m) ==
  /\ m \in asked
  /\ sent[m] <= disturbed[m]
  /\ sent' = [sent EXCEPT ![m] = @ + 1]
  /\ UNCHANGED <<asked, disturbed>>

Disturb(some) ==
  /\ disturbed' = [m \in Mails |-> disturbed[m] + IF m \in some THEN 1 ELSE 0]
  /\ UNCHANGED <<asked, sent>>

Next ==
  \/ \E more \in SUBSET Mails : Ask(more)
  \/ \E m \in Mails : Send(m)
  \/ \E some \in SUBSET Mails : Disturb(some)

Spec == Init /\ [][Next]_vars
=============================================================================
