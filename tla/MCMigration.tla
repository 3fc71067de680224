---------------------------- MODULE MCMigration ----------------------------
(* Two exports of the same system, the second one later and narrower.       *)
EXTENDS Migration, TLC

CONSTANTS u1, u2, c1, c2, d1, n1, n2, k1, p1, a1

Row(key, status, answer) ==
    [key |-> key, status |-> status, answer |-> answer, bad |-> FALSE]

Wide == <<Row(k1, "open", a1), Row(NoKey, Silent, Silent)>>
Later == <<Row(k1, "closed", Silent), Row(p1, "open", Silent)>>
Broken == <<[Row(k1, Silent, a1) EXCEPT !.bad = TRUE], Row(k1, Silent, a1)>>
Exports == {Wide, Later, Broken}

Interchangeable == Permutations({c1, c2}) \cup Permutations({u1, u2})
                   \cup Permutations({n1, n2})
=============================================================================
