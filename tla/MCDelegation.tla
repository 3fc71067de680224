---------------------------- MODULE MCDelegation ----------------------------
(***************************************************************************)
(* The links of one case under two loads, in one run: two sends and two    *)
(* acceptances that race over one group edited once, with an upload where  *)
(* only one accepts, and one link whose groups are edited twice and their  *)
(* members renamed.  A behaviour may pass from one load to the other where *)
(* they overlap.                                                           *)
(***************************************************************************)
EXTENDS Delegation, TLC

CONSTANTS g1, g2, m1, m2, m3

(* Two members may be in the first group, one in the second.                *)
TwoGroups == (m1 :> g1) @@ (m2 :> g1) @@ (m3 :> g2)

Race ==
    /\ groups[g2] = "none" /\ edits <= 1
    /\ \A m \in Member : names[m] = CHOOSE n \in Name : TRUE
    /\ \A c \in Click : click[c].member # m3
    /\ \/ \A f \in File : upload[f].pc = "idle"
       \/ Cardinality({c \in Click : click[c].pc # "idle"}) <= 1

Edits ==
    /\ Cardinality({l \in Link : send[l].pc # "idle"}) <= 1
    /\ Cardinality({c \in Click : click[c].pc # "idle"}) <= 1

MCNext == Next /\ (Race' \/ Edits')
MCSpec == Init /\ [][MCNext]_vars

(* Sends and clicks are interchangeable, and the members of the first group. *)
Symmetry == Permutations(Link) \cup Permutations(Click) \cup Permutations({m1, m2})
=============================================================================
