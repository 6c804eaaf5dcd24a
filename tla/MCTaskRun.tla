------------------------------ MODULE MCTaskRun ------------------------------
(* Small instances of TaskRun for TLC.                                     *)
EXTENDS TaskRun

CONSTANTS a, b, web, ast, scan

TwoSteps == {a, b}
ThreeTools == <<web, ast, scan>>
TwoGranted == {web, ast}

(* b needs a: listed in that order, in the other, and with a needing b too.*)
PlanFor(order, needsOfA) ==
  [order |-> order, needs |-> [s \in {a, b} |-> IF s = a THEN needsOfA ELSE {a}],
   tool |-> [s \in {a, b} |-> web], limit |-> [s \in {a, b} |-> 6]]
Plans == {PlanFor(<<a, b>>, {}), PlanFor(<<b, a>>, {}), PlanFor(<<a, b>>, {b})}
=============================================================================
