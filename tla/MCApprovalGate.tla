--------------------------- MODULE MCApprovalGate ---------------------------
(* Small instances of ApprovalGate for TLC.                                *)
EXTENDS ApprovalGate, TLC

CONSTANTS a1, q1, q2, d1, d2, r1, r2

OneAction == {a1}
TwoRequests == {q1, q2}
OneDecider == {d1}
TwoDeciders == {d1, d2}
OneRevision == {r1}
TwoRevisions == {r1, r2}

(* Nothing tells two requests or two deciders apart.                       *)
PeerSymmetry == Permutations(TwoRequests) \cup Permutations(TwoDeciders)
=============================================================================
