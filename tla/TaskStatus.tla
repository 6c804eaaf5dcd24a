----------------------------- MODULE TaskStatus -----------------------------
(***************************************************************************)
(* The life-cycle vocabulary of a durable task: the statuses of TaskState, *)
(* the transition table every in-memory move is checked against, and how a *)
(* durable status is reported on the row of the task queue.                *)
(***************************************************************************)

Status == {"CREATED", "QUEUED", "PLANNING", "READY", "EXECUTING",
           "EXECUTION_UNKNOWN", "OBSERVING", "VERIFYING",
           "WAITING_APPROVAL", "BLOCKED", "FAILED", "COMPLETED"}

Terminal == {"BLOCKED", "FAILED", "COMPLETED"}

(* A task that nothing may move any more: the terminal statuses, and the   *)
(* uncertain outcome that only an operator could resolve.                  *)
Verdict == Terminal \cup {"EXECUTION_UNKNOWN"}

(* Allowed[s] is the row of the transition table for status s.             *)
Allowed ==
  LET Early == {"PLANNING", "READY", "WAITING_APPROVAL", "BLOCKED", "FAILED",
                "EXECUTION_UNKNOWN"}
  IN  [s \in Status |->
        CASE s \in {"CREATED", "QUEUED", "PLANNING"} -> {s} \cup Early
          [] s = "READY" -> (Early \ {"PLANNING"}) \cup {"EXECUTING", "COMPLETED"}
          [] s = "EXECUTING" -> {s, "OBSERVING", "EXECUTION_UNKNOWN", "BLOCKED", "FAILED"}
          [] s = "EXECUTION_UNKNOWN" ->
               {s, "OBSERVING", "VERIFYING", "READY", "BLOCKED", "FAILED"}
          [] s = "OBSERVING" ->
               {s, "VERIFYING", "EXECUTION_UNKNOWN", "READY", "BLOCKED", "FAILED"}
          [] s = "VERIFYING" -> {s, "READY", "COMPLETED", "BLOCKED", "FAILED"}
          [] s = "WAITING_APPROVAL" -> {s, "READY", "BLOCKED", "FAILED"}
          [] s \in Terminal -> {s}]

(* TaskState.transition accepts the move; otherwise it raises.             *)
CanMove(from, to) == to \in Allowed[from]

(* What a fence reports for a task it finds in status s, and the status it *)
(* leaves behind: an outcome or an approval wait is kept, everything else  *)
(* is declared uncertain.                                                  *)
Kept == Terminal \cup {"WAITING_APPROVAL"}
Fenced(s) == IF s \in Kept THEN s ELSE "EXECUTION_UNKNOWN"

(* The fence itself goes through the transition table, so it raises for a  *)
(* status that has no move to EXECUTION_UNKNOWN.                           *)
CanFence(s) == CanMove(s, Fenced(s))

(* BackgroundWorker._queue_status for a run that returned with status s.   *)
Reported(s) == IF s \in Verdict \cup {"WAITING_APPROVAL"} THEN s ELSE "FAILED"

(* The durable statuses that mean an action may already have been invoked. *)
MayHaveStarted == {"EXECUTING", "OBSERVING", "VERIFYING", "EXECUTION_UNKNOWN"}
=============================================================================
