------------------------------ MODULE MCSkills ------------------------------
(* A small instance of Skills for TLC: one learning loop feeds it.         *)
EXTENDS Skills, TLC

CONSTANTS r2, i1, i2, s1, s2, s3

TwoTools == <<"ast", "web">>
ThreeSkillIds == {s1, s2, s3}

(* Which version of the skill a candidate says it is.                      *)
VersionOf == [s \in SkillIds |-> IF s = s1 THEN 1 ELSE IF s = s2 THEN 2 ELSE 3]

IdSymmetry == Permutations(Ids)
=============================================================================
