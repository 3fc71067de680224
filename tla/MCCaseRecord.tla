---------------------------- MODULE MCCaseRecord ----------------------------
(***************************************************************************)
(* What is kept about a case (CaseRecord), and the page an operator works  *)
(* it on (CasePage).  Neither reads the other's state: a behaviour is of   *)
(* the record, of the reply written on the page, or of its rail.           *)
(***************************************************************************)
EXTENDS CaseRecord, CasePage, TLC

CONSTANTS j1, j2, j3, f1, f2, p1, p2

VARIABLE part

Interchangeable == Permutations({j1, j2, j3})

(* The files being alike, a case that has one file has the first.            *)
MCInit ==
    /\ Init /\ CasePageInit /\ attached # {f2}
    /\ part \in {"record", "reply", "rail"}
    /\ (part # "record" => kase.status = "open" /\ attached = {} /\ ~kase.delegated)

MCNext ==
    /\ UNCHANGED part
    /\ \/ part = "record" /\ Next /\ UNCHANGED casePageVars
       \/ part = "reply" /\ ReplyNext /\ UNCHANGED vars
       \/ part = "rail" /\ RailNext /\ UNCHANGED vars

MCSpec == MCInit /\ [][MCNext]_<<vars, casePageVars, part>>
=============================================================================
