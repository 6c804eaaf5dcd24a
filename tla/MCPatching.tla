----------------------------- MODULE MCPatching -----------------------------
(* Small instances of Patching for TLC.                                    *)
EXTENDS Patching, TLC

CONSTANTS p1, p2, old_py, new_py, more_py

TwoCallers == {p1, p2}
ThreeFiles == <<old_py, new_py, more_py>>
NewFile == {new_py}
OldFile == {old_py}

(* Nothing tells the two processes apart.                                  *)
CallerSymmetry == Permutations(TwoCallers)
=============================================================================
