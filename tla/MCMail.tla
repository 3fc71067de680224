------------------------------- MODULE MCMail -------------------------------
(* Two instances and one recipient; nobody is set to hear of cases without  *)
(* an assignee.                                                             *)
EXTENDS Mail

CONSTANTS s1, s2, l1, a1

SentTo == [n \in Notice |-> CASE n = "reminder" -> <<a1>>
                             [] n = "escalation" -> <<a1>>
                             [] OTHER -> <<>>]
=============================================================================
