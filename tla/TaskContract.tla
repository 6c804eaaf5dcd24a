---------------------------- MODULE TaskContract ----------------------------
(***************************************************************************)
(* What the task queue promises the owner of a task, with no workers,      *)
(* leases or checkpoints: a task is queued, handed out a bounded number of *)
(* times, at most one hand-out ever starts the external operation, a wait  *)
(* for approval comes before that, success is reported only for an         *)
(* operation that was started by the last hand-out, and an outcome, the    *)
(* uncertain one included, is never taken back.                            *)
(***************************************************************************)
EXTENDS Naturals

CONSTANTS Tasks, MaxAttempts

VARIABLES phase,     \* what the owner of the task sees
          handouts,  \* times the task was given to a worker
          by         \* the hand-out that started the operation, 0 for none

contract == <<phase, handouts, by>>

Outcome == {"COMPLETED", "FAILED", "BLOCKED"}

TypeInvariant ==
  /\ phase \in [Tasks -> {"ABSENT", "QUEUED", "LEASED", "WAITING_APPROVAL",
                          "EXECUTION_UNKNOWN"} \cup Outcome]
  /\ handouts \in [Tasks -> 0..MaxAttempts]
  /\ by \in [Tasks -> 0..MaxAttempts]

Init == /\ phase = [t \in Tasks |-> "ABSENT"]
        /\ handouts = [t \in Tasks |-> 0]
        /\ by = [t \in Tasks |-> 0]

MovePhase(t, from, to) == phase[t] = from /\ phase' = [phase EXCEPT ![t] = to]

Submit(t) == MovePhase(t, "ABSENT", "QUEUED") /\ UNCHANGED <<handouts, by>>

HandOut(t) == /\ MovePhase(t, "QUEUED", "LEASED")
              /\ handouts[t] < MaxAttempts
              /\ handouts' = [handouts EXCEPT ![t] = @ + 1]
              /\ UNCHANGED by

(* The operation may also start after its worker was given up for lost.    *)
Start(t) == /\ phase[t] \in {"LEASED", "EXECUTION_UNKNOWN"}
            /\ by[t] = 0
            /\ by' = [by EXCEPT ![t] = handouts[t]]
            /\ UNCHANGED <<phase, handouts>>

AwaitApproval(t) == /\ MovePhase(t, "LEASED", "WAITING_APPROVAL")
                    /\ by[t] = 0
                    /\ UNCHANGED <<handouts, by>>

Approved(t) == MovePhase(t, "WAITING_APPROVAL", "QUEUED") /\ UNCHANGED <<handouts, by>>

Succeed(t) == /\ MovePhase(t, "LEASED", "COMPLETED")
              /\ by[t] = handouts[t]
              /\ UNCHANGED <<handouts, by>>

GiveUp(t) == /\ \E end \in {"FAILED", "BLOCKED", "EXECUTION_UNKNOWN"} :
                   MovePhase(t, "LEASED", end)
             /\ UNCHANGED <<handouts, by>>

Next == \E t \in Tasks : \/ Submit(t) \/ HandOut(t) \/ Start(t)
                         \/ AwaitApproval(t) \/ Approved(t)
                         \/ Succeed(t) \/ GiveUp(t)

Spec == Init /\ [][Next]_contract
=============================================================================
