----------------------------- MODULE MCClusters -----------------------------
(* A source that is deduplicated, by a model and a resolver, and linked,   *)
(* through that resolver, with a second source that has a row in common    *)
(* with it, by a second model and resolver; and a user who judges clusters *)
(* of both resolvers.                                                      *)
EXTENDS Clusters, TLC
CONSTANTS s1, s2, m1, m2, r1, r2, a, b, c, d

MCInputs == s1 :> {} @@ s2 :> {} @@ m1 :> {s1} @@ r1 :> {m1} @@ m2 :> {r1, s1, s2} @@ r2 :> {m2}
MCLineage == s1 :> <<s1>> @@ s2 :> <<s2>> @@ m1 :> <<m1, s1>> @@ r1 :> <<r1, m1, s1>>
             @@ m2 :> <<m2, r1, s1, s2, m1>> @@ r2 :> <<r2, m2, r1, s1, s2, m1>>
MCLeft == m1 :> <<s1>> @@ m2 :> <<r1, m1, s1>>
MCRight == m1 :> <<s1>> @@ m2 :> <<s2>>
MCFeed == s1 :> {{a, b, c}} @@ s2 :> {{a, d}}

(* s2 holds a and d; nothing tells b from c.                               *)
RowSymmetry == Permutations({b, c})
=============================================================================
