------------------------------ MODULE MCIntake ------------------------------
(***************************************************************************)
(* Submissions, and beside them the builder of the form they fill in, used *)
(* by one operator, with two requests under way or with one and something  *)
(* picked, or by two with one request each and nothing picked.             *)
(* A behaviour is of one of the two parts: no property relates a           *)
(* submission to the builder's state.                                      *)
(***************************************************************************)
EXTENDS Intake, FormEditor, TLC

CONSTANTS d1, a1, a2, t1, t2, f1, s1, s2, b1, b2

VARIABLES
    part,
    alone       \* the operator who works alone; none, when both work

MCInit ==
    /\ Init /\ EditorInit
    /\ part \in {"intake", "editor"}
    /\ alone \in {{}, {b1}} /\ (part = "intake" => alone = {})
MCNext ==
    /\ \/ part = "intake" /\ Next /\ UNCHANGED editorVars
       \/ part = "editor" /\ EditorNext /\ UNCHANGED vars
    /\ UNCHANGED <<part, alone>>
MCSpec == MCInit /\ [][MCNext]_<<vars, editorVars, part, alone>>

Interchangeable == Permutations({s1, s2})

FewAtWork ==
    \A p, q \in Builder : p # q =>
        IF alone = {} THEN Cardinality(calls[p]) <= 1 /\ page[p].selected = 0
        ELSE /\ p \in alone \/ ~page[p].open
             /\ Cardinality(calls[p]) <= 1 \/ page[p].selected = 0
=============================================================================
