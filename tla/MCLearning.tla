----------------------------- MODULE MCLearning -----------------------------
(* A small instance of Knowledge, and with it of Learning, for TLC.        *)
EXTENDS Knowledge, TLC

CONSTANTS r1, r2, i1, i2, i3, s1, s2, k1, k2, k3, e1, x1, p1, p2, f1, f2, f3

TwoRunners == {r1, r2}
ThreeIds == {i1, i2, i3}
TwoTools == <<"ast", "web">>
TwoSources == {s1, s2}
ThreeClaims == {k1, k2, k3}
OneItem == {e1}
OneConflict == {x1}
TwoPlaces == {p1, p2}
ThreeStatements == {f1, f2, f3}

(* Nothing tells two runners, tasks, claim ids or places apart.            *)
PeerSymmetry == Permutations(Ids) \cup Permutations(Runners)
                  \cup Permutations(ClaimIds) \cup Permutations(Places)

(* Bound: the loops, which share no table, are not run at once, and one    *)
(* runner and at most one task take part in the knowledge of claims.       *)
NoClaims == <<sources, claims, evidence, conflicts>> = <<<<>>, <<>>, <<>>, <<>>>>
NoLearning == experiences = <<>> /\ reviews = <<>>

OneLoopAtATime ==
  \/ NoClaims /\ (items = {} \/ NoLearning)
  \/ /\ NoLearning /\ items = {}
     /\ Cardinality({evidence[e].key.task : e \in DOMAIN evidence} \ {NoTask}) <= 1
     /\ Cardinality({r \in Runners : ~At(r, "idle")}) <= 1
=============================================================================
