------------------------- MODULE DelegationPromise -------------------------
(***************************************************************************)
(* What the links to one case promise, whatever the requests behind them   *)
(* do to each other: one step for a send, an acceptance, a close, and the  *)
(* arrival of a file.                                                      *)
(***************************************************************************)
CONSTANTS
    Link,       \* the delegations of the case
    Name,       \* the names people accept under
    NoName,     \* nobody has accepted
    File        \* the files people send

VARIABLES
    stage,      \* where each delegation is
    name,       \* who accepted it
    got         \* the files that came in through it

Init ==
    /\ stage = [l \in Link |-> "none"]
    /\ name = [l \in Link |-> NoName]
    /\ got = [l \in Link |-> {}]

(* One delegation at a time.                                                *)
Send(l) ==
    /\ stage[l] = "none"
    /\ \A k \in Link : stage[k] \in {"none", "closed"}
    /\ stage' = [stage EXCEPT ![l] = "sent"]
    /\ UNCHANGED <<name, got>>

(* Accepted once, by one person, and never after it was closed.             *)
Accept(l, n) ==
    /\ stage[l] = "sent"
    /\ stage' = [stage EXCEPT ![l] = "accepted"]
    /\ name' = [name EXCEPT ![l] = n]
    /\ UNCHANGED got

Close(l) ==
    /\ stage[l] \in {"sent", "accepted"}
    /\ stage' = [stage EXCEPT ![l] = "closed"]
    /\ UNCHANGED <<name, got>>

(* A file comes in once, and only through a link that somebody accepted.    *)
Receive(l, f) ==
    /\ name[l] # NoName
    /\ \A k \in Link : f \notin got[k]
    /\ got' = [got EXCEPT ![l] = @ \cup {f}]
    /\ UNCHANGED <<stage, name>>

Next ==
    \E l \in Link :
        \/ Send(l)
        \/ \E n \in Name : Accept(l, n)
        \/ Close(l)
        \/ \E f \in File : Receive(l, f)

Spec == Init /\ [][Next]_<<stage, name, got>>

=============================================================================
