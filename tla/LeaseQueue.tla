----------------------------- MODULE LeaseQueue -----------------------------
(***************************************************************************)
(* The durable task queue and the background workers that drain it: rows   *)
(* are claimed under a lease, the lease is renewed by a heartbeat thread,  *)
(* checkpoints are fenced by it, and a lease that expires is recovered by  *)
(* whichever worker polls next.  The orchestrator run of a claimed task is *)
(* a sequence of fenced checkpoints around one external operation, which   *)
(* is the effect that must not be repeated by another worker.              *)
(*                                                                         *)
(* Abstracted: the plan (a run executes steps until it ends), the policy   *)
(* (every verdict is possible), clock values (a lease has `left' ticks),   *)
(* the order in which eligible rows are picked (any of them), lease ids    *)
(* (the attempt number, unique for the task).                              *)
(***************************************************************************)
EXTENDS Naturals, TaskStatus

CONSTANTS Workers,      \* worker processes, each running one claim at a time
          Tasks,        \* queue-managed tasks
          MaxAttempts,  \* max_attempts of a queue row
          Ttl,          \* lease_ttl_seconds, in ticks
          NoWorker, NoTask

ASSUME SomeAttempts == MaxAttempts \in Nat \ {0}
ASSUME SomeTtl      == Ttl \in Nat \ {0}
ASSUME NullWorker   == NoWorker \notin Workers
ASSUME NullTask     == NoTask \notin Tasks

VARIABLES
  queue,     \* task_queue.queue_status; ABSENT before the task is created
  attempts,  \* task_queue.attempt_count
  lease,     \* task_queue.lease_id, 0 when empty
  holder,    \* task_queue.worker_id
  left,      \* ticks until lease_expires_at; 0 is expired
  state,     \* durable TaskState.status
  approval,  \* raw status of the approval requests named by the durable state
  pc,        \* where the worker's main thread is
  job,       \* task_id of the worker's claim
  token,     \* lease_id of the worker's claim
  hb,        \* heartbeat of the claim: held, lost (renewal failed), aged (watchdog fired)
  resumed,   \* the run entered through resume_task
  ran,       \* the operation of the current step was invoked
  out,       \* queue status the worker is about to write
  effects    \* history: leases under which the task's external operation started

rowVars == <<queue, attempts, lease, holder, left>>
runVars == <<job, token, hb, resumed, ran, out>>
vars == <<rowVars, state, approval, pc, runVars, effects>>

QueueStatus == {"QUEUED", "LEASED", "WAITING_APPROVAL"} \cup Verdict

(* Points of a run whose next statement is a write fenced by the lease.    *)
AtFence == {"claimed", "created", "planning", "planned", "revalidating",
            "ready", "returned", "observing", "verifying", "verified",
            "unverified", "replanned", "closing"}
AtBoundary == {"boundary", "invoking", "running"}
AtEnd == {"finishing", "raised", "failing", "fencing"}
Busy == AtFence \cup AtBoundary \cup AtEnd
Free == {"idle", "down", "fatal"}

-----------------------------------------------------------------------------
(* Leases *)

(* The row is leased under the claim of w.                                 *)
Owns(w) == /\ job[w] # NoTask
           /\ queue[job[w]] = "LEASED"
           /\ lease[job[w]] = token[w]
           /\ holder[job[w]] = w

(* Mutant of Valid: a fence that compares owners and forgets the expiry.   *)
ValidIgnoringExpiry(w) == Owns(w)

(* Store._assert_active_lease under the lease context of w.                *)
Valid(w) == Owns(w) /\ left[job[w]] > 0

Expired(t) == queue[t] = "LEASED" /\ left[t] = 0

(* The row leaves the hands of its worker.                                 *)
CloseRow(t, status) ==
  /\ queue' = [queue EXCEPT ![t] = status]
  /\ lease' = [lease EXCEPT ![t] = 0]
  /\ holder' = [holder EXCEPT ![t] = NoWorker]
  /\ left' = [left EXCEPT ![t] = 0]
  /\ UNCHANGED attempts

(* The worker lets go of its claim and continues at p.                     *)
Release(w, p) ==
  /\ pc' = [pc EXCEPT ![w] = p]
  /\ job' = [job EXCEPT ![w] = NoTask]
  /\ token' = [token EXCEPT ![w] = 0]
  /\ hb' = [hb EXCEPT ![w] = "held"]
  /\ resumed' = [resumed EXCEPT ![w] = FALSE]
  /\ ran' = [ran EXCEPT ![w] = FALSE]
  /\ out' = [out EXCEPT ![w] = "FAILED"]

GoTo(w, p) == pc' = [pc EXCEPT ![w] = p]

(* A checkpoint of the run: one transaction that asserts the lease and     *)
(* replaces the durable state.                                             *)
Checkpoint(w, to, next) ==
  /\ Valid(w)
  /\ state' = [state EXCEPT ![job[w]] = to]
  /\ GoTo(w, next)
  /\ UNCHANGED <<rowVars, effects>>

Init ==
  /\ queue = [t \in Tasks |-> "ABSENT"]
  /\ attempts = [t \in Tasks |-> 0]
  /\ lease = [t \in Tasks |-> 0]
  /\ holder = [t \in Tasks |-> NoWorker]
  /\ left = [t \in Tasks |-> 0]
  /\ state = [t \in Tasks |-> "ABSENT"]
  /\ approval = [t \in Tasks |-> "NONE"]
  /\ pc = [w \in Workers |-> "idle"]
  /\ job = [w \in Workers |-> NoTask]
  /\ token = [w \in Workers |-> 0]
  /\ hb = [w \in Workers |-> "held"]
  /\ resumed = [w \in Workers |-> FALSE]
  /\ ran = [w \in Workers |-> FALSE]
  /\ out = [w \in Workers |-> "FAILED"]
  /\ effects = [t \in Tasks |-> {}]

-----------------------------------------------------------------------------
(* Submission, approvals and time *)

(* Store.create_queued_task: state and row in one transaction.             *)
Create(t) ==
  /\ queue[t] = "ABSENT"
  /\ queue' = [queue EXCEPT ![t] = "QUEUED"]
  /\ state' = [state EXCEPT ![t] = "QUEUED"]
  /\ UNCHANGED <<attempts, lease, holder, left, approval, pc, runVars, effects>>

(* ApprovalGate.approve, deny and cancel decide a pending request once.    *)
Decide(t) ==
  /\ approval[t] = "PENDING"
  /\ \E d \in {"APPROVED", "CLOSED"} : approval' = [approval EXCEPT ![t] = d]
  /\ UNCHANGED <<rowVars, state, pc, runVars, effects>>

(* Mutant of Requeue: an approval gives the task its attempts back.        *)
RequeueResetsAttempts(t) ==
  /\ queue[t] = "WAITING_APPROVAL" /\ approval[t] = "APPROVED"
  /\ queue' = [queue EXCEPT ![t] = "QUEUED"]
  /\ attempts' = [attempts EXCEPT ![t] = 0]
  /\ UNCHANGED <<lease, holder, left, state, approval, pc, runVars, effects>>

(* Store.requeue_waiting_approval_task, called by the API after an         *)
(* approval and by every worker poll.                                      *)
Requeue(t) ==
  /\ queue[t] = "WAITING_APPROVAL"
  /\ state[t] = "WAITING_APPROVAL"
  /\ approval[t] = "APPROVED"
  /\ queue' = [queue EXCEPT ![t] = "QUEUED"]
  /\ UNCHANGED <<attempts, lease, holder, left, state, approval, pc, runVars, effects>>

TimePasses(t) ==
  /\ queue[t] = "LEASED" /\ left[t] > 0
  /\ left' = [left EXCEPT ![t] = left[t] - 1]
  /\ UNCHANGED <<queue, attempts, lease, holder, state, approval, pc, runVars, effects>>

-----------------------------------------------------------------------------
(* BackgroundWorker.run_once: claim_next_task *)

(* Mutants of RecoverExpired: the task is tried again; a task that was     *)
(* already settled when its worker died is not looked at.                  *)
RecoverByRequeue(w, t) ==
  /\ pc[w] = "idle"
  /\ Expired(t)
  /\ state' = [state EXCEPT ![t] = "QUEUED"]
  /\ CloseRow(t, "QUEUED")
  /\ UNCHANGED <<approval, pc, runVars, effects>>

RecoverUnsettled(w, t) ==
  /\ pc[w] = "idle"
  /\ Expired(t)
  /\ state[t] \notin Kept /\ CanFence(state[t])
  /\ state' = [state EXCEPT ![t] = "EXECUTION_UNKNOWN"]
  /\ CloseRow(t, "EXECUTION_UNKNOWN")
  /\ UNCHANGED <<approval, pc, runVars, effects>>

(* An expired lease is recovered before anything is claimed; the recovering*)
(* worker does not run the task.                                           *)
RecoverExpired(w, t) ==
  /\ pc[w] = "idle"
  /\ Expired(t)
  /\ CanFence(state[t])
  /\ state' = [state EXCEPT ![t] = Fenced(state[t])]
  /\ CloseRow(t, Fenced(state[t]))
  /\ UNCHANGED <<approval, pc, runVars, effects>>

(* The recovery transaction raises InvalidStateTransition, which run_once  *)
(* does not treat as recoverable: rollback, and the worker loop ends.      *)
RecoveryRaises(w, t) ==
  /\ pc[w] = "idle"
  /\ Expired(t)
  /\ ~CanFence(state[t])
  /\ GoTo(w, "fatal")
  /\ UNCHANGED <<rowVars, state, approval, runVars, effects>>

Claimable(t) == queue[t] = "QUEUED" /\ attempts[t] < MaxAttempts

(* What a fresh claim finds in the durable state: something to run, an     *)
(* outcome that only closes the row, or a state that blocks it.            *)
ClaimOutcome(s) ==
  IF s \in Verdict THEN s
  ELSE IF s \in {"CREATED", "QUEUED", "READY", "WAITING_APPROVAL"} THEN "LEASED"
  ELSE "BLOCKED"

(* Mutant of Claim: the last attempt is never used.                        *)
ClaimBelowLimit(w, t) ==
  /\ pc[w] = "idle"
  /\ \A u \in Tasks : ~Expired(u)
  /\ queue[t] = "QUEUED" /\ attempts[t] + 1 < MaxAttempts
  /\ queue' = [queue EXCEPT ![t] = "LEASED"]
  /\ attempts' = [attempts EXCEPT ![t] = attempts[t] + 1]
  /\ lease' = [lease EXCEPT ![t] = attempts[t] + 1]
  /\ holder' = [holder EXCEPT ![t] = w]
  /\ left' = [left EXCEPT ![t] = Ttl]
  /\ GoTo(w, "claimed")
  /\ job' = [job EXCEPT ![w] = t]
  /\ token' = [token EXCEPT ![w] = attempts[t] + 1]
  /\ UNCHANGED <<state, approval, hb, resumed, ran, out, effects>>

Claim(w, t) ==
  /\ pc[w] = "idle"
  /\ \A u \in Tasks : ~Expired(u)
  /\ Claimable(t)
  /\ LET outcome == ClaimOutcome(state[t])
         granted == outcome = "LEASED"
     IN  /\ queue' = [queue EXCEPT ![t] = outcome]
         /\ attempts' = [attempts EXCEPT ![t] = attempts[t] + 1]
         /\ lease' = [lease EXCEPT ![t] = IF granted THEN attempts[t] + 1 ELSE 0]
         /\ holder' = [holder EXCEPT ![t] = IF granted THEN w ELSE NoWorker]
         /\ left' = [left EXCEPT ![t] = IF granted THEN Ttl ELSE 0]
         /\ IF granted
            THEN /\ GoTo(w, "claimed")
                 /\ job' = [job EXCEPT ![w] = t]
                 /\ token' = [token EXCEPT ![w] = attempts[t] + 1]
            ELSE UNCHANGED <<pc, job, token>>
  /\ UNCHANGED <<state, approval, hb, resumed, ran, out, effects>>

-----------------------------------------------------------------------------
(* Orchestrator.run and resume_task under the lease of w *)

(* A task never run before starts afresh, with TASK_CREATED.               *)
StartFresh(w) ==
  /\ pc[w] = "claimed" /\ state[job[w]] = "QUEUED"
  /\ Checkpoint(w, "CREATED", "created")
  /\ UNCHANGED <<approval, runVars>>

(* Any other state is resumed; no write but audit events.                  *)
StartResume(w) ==
  /\ pc[w] = "claimed" /\ state[job[w]] = "WAITING_APPROVAL"
  /\ Valid(w)
  /\ GoTo(w, "revalidating")
  /\ resumed' = [resumed EXCEPT ![w] = TRUE]
  /\ UNCHANGED <<rowVars, state, approval, job, token, hb, ran, out, effects>>

Plan(w) ==
  /\ \/ pc[w] = "created" /\ Checkpoint(w, "PLANNING", "planning")
     \/ pc[w] = "planning" /\ Checkpoint(w, "READY", "planned")
  /\ UNCHANGED <<approval, runVars>>

(* Mutant of Preflighting: a replanned run is preflighted again.           *)
PreflightingReplans(w) == pc[w] \in {"planned", "revalidating", "replanned"}

(* preflight_plan over the plan of a fresh run, or over what is pending of *)
(* a resumed one.                                                          *)
Preflighting(w) == pc[w] \in {"planned", "revalidating"}

PreflightAllows(w) ==
  /\ Preflighting(w)
  /\ Checkpoint(w, "READY", "ready")
  /\ UNCHANGED <<approval, runVars>>

(* The request is persisted by an earlier transaction than the checkpoint  *)
(* that names it, so it may have been decided in between.                  *)
PreflightAsks(w) ==
  /\ Preflighting(w)
  /\ Checkpoint(w, "WAITING_APPROVAL", "closing")
  /\ \E d \in {"PENDING", "APPROVED", "CLOSED"} :
        approval' = [approval EXCEPT ![job[w]] = d]
  /\ UNCHANGED runVars

PreflightBlocks(w) ==
  /\ Preflighting(w)
  /\ Checkpoint(w, "BLOCKED", "closing")
  /\ UNCHANGED <<approval, runVars>>

(* BEFORE_EXECUTION of the next pending step.                              *)
BeginStep(w) ==
  /\ pc[w] \in {"ready", "verified", "replanned"}
  /\ Checkpoint(w, "EXECUTING", "boundary")
  /\ ran' = [ran EXCEPT ![w] = FALSE]
  /\ UNCHANGED <<approval, job, token, hb, resumed, out>>

(* execute_step up to pre_execution_check: the operation is reached only   *)
(* when every check passes and the lease is still active; otherwise the    *)
(* step result is a refusal.                                               *)
Boundary(w) ==
  /\ pc[w] = "boundary"
  /\ \E authorized \in BOOLEAN :
        GoTo(w, IF authorized /\ Valid(w) THEN "invoking" ELSE "returned")
  /\ UNCHANGED <<rowVars, state, approval, runVars, effects>>

(* operation(): the lease was checked a moment ago and may be gone by now. *)
Invoke(w) ==
  /\ pc[w] = "invoking"
  /\ GoTo(w, "running")
  /\ ran' = [ran EXCEPT ![w] = TRUE]
  /\ effects' = [effects EXCEPT ![job[w]] = @ \cup {token[w]}]
  /\ UNCHANGED <<rowVars, state, approval, job, token, hb, resumed, out>>

OperationReturns(w) ==
  /\ pc[w] = "running"
  /\ GoTo(w, "returned")
  /\ UNCHANGED <<rowVars, state, approval, runVars, effects>>

(* AFTER_EXECUTION, then AFTER_OBSERVATION.                                *)
Observe(w) ==
  /\ \/ pc[w] = "returned" /\ Checkpoint(w, "OBSERVING", "observing")
     \/ pc[w] = "observing" /\ Checkpoint(w, "VERIFYING", "verifying")
  /\ UNCHANGED <<approval, runVars>>

(* Mutant of StepVerified: a refused step may count as verified.           *)
StepVerifiedUnrun(w) ==
  /\ pc[w] = "verifying"
  /\ Checkpoint(w, "READY", "verified")
  /\ UNCHANGED <<approval, runVars>>

(* AFTER_VERIFICATION of a step whose operation ran and was VERIFIED.      *)
StepVerified(w) ==
  /\ pc[w] = "verifying" /\ ran[w]
  /\ Checkpoint(w, "READY", "verified")
  /\ UNCHANGED <<approval, runVars>>

(* AFTER_VERIFICATION of any other step: run keeps the task READY for the  *)
(* recovery decision, resume_task has it FAILED already.                   *)
AfterFailure(w) == IF resumed[w] THEN "FAILED" ELSE "READY"

StepFailed(w) ==
  /\ pc[w] = "verifying"
  /\ Checkpoint(w, AfterFailure(w), "unverified")
  /\ UNCHANGED <<approval, runVars>>

(* Mutant of Replan: the transition table is not consulted.                *)
ReplanUnchecked(w) ==
  /\ pc[w] = "unverified"
  /\ Checkpoint(w, "READY", "replanned")
  /\ UNCHANGED <<approval, runVars>>

(* A recovery decision other than ABORT: AFTER_RECOVERY moves the state to *)
(* READY, in memory first, where the transition table may refuse it.       *)
Replan(w) ==
  /\ pc[w] = "unverified"
  /\ IF CanMove(AfterFailure(w), "READY")
     THEN Checkpoint(w, "READY", "replanned")
     ELSE GoTo(w, "raised") /\ UNCHANGED <<rowVars, state, effects>>
  /\ UNCHANGED <<approval, runVars>>

(* TASK_COMPLETED after the last step, TASK_FAILED when recovery gives up. *)
Complete(w) ==
  /\ pc[w] = "verified"
  /\ Checkpoint(w, "COMPLETED", "closing")
  /\ UNCHANGED <<approval, runVars>>

Abort(w) ==
  /\ pc[w] \in {"unverified", "replanned"}
  /\ Checkpoint(w, "FAILED", "closing")
  /\ UNCHANGED <<approval, runVars>>

(* A fenced write raises QueueLeaseLost, handled by _process_claim.        *)
DetectLoss(w) ==
  /\ pc[w] \in AtFence
  /\ ~Valid(w)
  /\ GoTo(w, "fencing")
  /\ UNCHANGED <<rowVars, state, approval, runVars, effects>>

(* Any other exception: a planner, a store, a post-terminal learning step. *)
Raise(w) ==
  /\ pc[w] \in AtFence \cup {"boundary"}
  /\ GoTo(w, "raised")
  /\ UNCHANGED <<rowVars, state, approval, runVars, effects>>

-----------------------------------------------------------------------------
(* BackgroundWorker._process_claim after the run *)

(* raise_if_lost, then the durable state decides the queue status.         *)
ReadOutcome(w) ==
  /\ pc[w] = "closing"
  /\ IF hb[w] = "held"
     THEN /\ GoTo(w, "finishing")
          /\ out' = [out EXCEPT ![w] = Reported(state[job[w]])]
     ELSE GoTo(w, "fencing") /\ UNCHANGED out
  /\ UNCHANGED <<rowVars, state, approval, job, token, hb, resumed, ran, effects>>

(* Mutant of HandleFailure: a late error relabels a settled task.          *)
HandleFailureRelabels(w) ==
  /\ pc[w] = "raised"
  /\ IF hb[w] # "held"
     THEN GoTo(w, "fencing") /\ UNCHANGED out
     ELSE /\ GoTo(w, "failing")
          /\ out' = [out EXCEPT ![w] = IF state[job[w]] \in MayHaveStarted
                                       THEN "EXECUTION_UNKNOWN" ELSE "FAILED"]
  /\ UNCHANGED <<rowVars, state, approval, job, token, hb, resumed, ran, effects>>

(* The exception handler: a terminal state stands, an execution that may   *)
(* have started is uncertain, anything else failed.                        *)
HandleFailure(w) ==
  /\ pc[w] = "raised"
  /\ LET s == state[job[w]]
     IN  IF hb[w] # "held"
         THEN GoTo(w, "fencing") /\ UNCHANGED out
         ELSE /\ GoTo(w, IF s \in Terminal THEN "finishing" ELSE "failing")
              /\ out' = [out EXCEPT ![w] = IF s \in Terminal THEN s
                                           ELSE IF s \in MayHaveStarted
                                           THEN "EXECUTION_UNKNOWN"
                                           ELSE "FAILED"]
  /\ UNCHANGED <<rowVars, state, approval, job, token, hb, resumed, ran, effects>>

(* Store.finish_task_claim refuses a claim that is not active.             *)
FinishRefused(w) ==
  /\ pc[w] \in {"finishing", "failing"}
  /\ ~Valid(w)
  /\ GoTo(w, "fencing")
  /\ UNCHANGED <<rowVars, state, approval, runVars, effects>>

Finish(w) ==
  /\ pc[w] = "finishing"
  /\ Valid(w)
  /\ CloseRow(job[w], out[w])
  /\ Release(w, "idle")
  /\ UNCHANGED <<state, approval, effects>>

(* finish_task_claim with a state_status: the state it leaves, through the *)
(* transition table.                                                       *)
FailedState(s, status) == IF status = "FAILED" /\ s \in Terminal THEN s ELSE status

FinishFailed(w) ==
  /\ pc[w] = "failing"
  /\ Valid(w)
  /\ LET t == job[w]
         s == FailedState(state[t], out[w])
     IN  IF CanMove(state[t], s)
         THEN /\ state' = [state EXCEPT ![t] = s]
              /\ CloseRow(t, out[w])
              /\ Release(w, "idle")
         ELSE Release(w, "fatal") /\ UNCHANGED <<rowVars, state>>
  /\ UNCHANGED <<approval, effects>>

(* Store.mark_task_execution_unknown_if_owned, called with no regard for   *)
(* the expiry of the lease.                                                *)
Fence(w) ==
  /\ pc[w] = "fencing"
  /\ LET t == job[w]
     IN  IF Owns(w) /\ CanFence(state[t])
         THEN /\ state' = [state EXCEPT ![t] = Fenced(state[t])]
              /\ CloseRow(t, Fenced(state[t]))
              /\ Release(w, "idle")
         ELSE /\ Release(w, IF Owns(w) THEN "fatal" ELSE "idle")
              /\ UNCHANGED <<rowVars, state>>
  /\ UNCHANGED <<approval, effects>>

-----------------------------------------------------------------------------
(* _LeaseHeartbeat: renewal and watchdog threads; process crashes *)

Renew(w) ==
  /\ pc[w] \in Busy
  /\ hb[w] = "held"
  /\ Valid(w)
  /\ left' = [left EXCEPT ![job[w]] = Ttl]
  /\ UNCHANGED <<queue, attempts, lease, holder, state, approval, pc, runVars, effects>>

(* The renewal finds the lease gone, or the database does not answer.      *)
RenewalFails(w) ==
  /\ pc[w] \in Busy
  /\ hb[w] = "held"
  /\ hb' = [hb EXCEPT ![w] = "lost"]
  /\ UNCHANGED <<rowVars, state, approval, pc, job, token, resumed, ran, out, effects>>

(* Mutant of Watchdog: the state is declared uncertain, the row stays.     *)
WatchdogKeepsRow(w) ==
  /\ pc[w] \in Busy
  /\ hb[w] # "aged"
  /\ hb' = [hb EXCEPT ![w] = "aged"]
  /\ IF Owns(w) /\ CanFence(state[job[w]])
     THEN state' = [state EXCEPT ![job[w]] = Fenced(state[job[w]])]
     ELSE UNCHANGED state
  /\ UNCHANGED <<rowVars, approval, pc, job, token, resumed, ran, out, effects>>

(* The execution-age watchdog fires once: it fences the claim if it can,   *)
(* and stops the renewals in any case.                                     *)
Watchdog(w) ==
  /\ pc[w] \in Busy
  /\ hb[w] # "aged"
  /\ hb' = [hb EXCEPT ![w] = "aged"]
  /\ LET t == job[w]
     IN  IF Owns(w) /\ CanFence(state[t])
         THEN /\ state' = [state EXCEPT ![t] = Fenced(state[t])]
              /\ CloseRow(t, Fenced(state[t]))
         ELSE UNCHANGED <<rowVars, state>>
  /\ UNCHANGED <<approval, pc, job, token, resumed, ran, out, effects>>

(* The process dies with its threads; only the database survives.          *)
Crash(w) ==
  /\ pc[w] \in Busy
  /\ Release(w, "down")
  /\ UNCHANGED <<rowVars, state, approval, effects>>

Restart(w) ==
  /\ pc[w] \in {"down", "fatal"}
  /\ GoTo(w, "idle")
  /\ UNCHANGED <<rowVars, state, approval, runVars, effects>>

-----------------------------------------------------------------------------
Environment == \E t \in Tasks : Create(t) \/ Decide(t) \/ Requeue(t) \/ TimePasses(t)

Poll(w) == \E t \in Tasks : RecoverExpired(w, t) \/ RecoveryRaises(w, t) \/ Claim(w, t)

Run(w) == \/ StartFresh(w) \/ StartResume(w) \/ Plan(w)
          \/ PreflightAllows(w) \/ PreflightAsks(w) \/ PreflightBlocks(w)
          \/ BeginStep(w) \/ Boundary(w) \/ Invoke(w)
          \/ Observe(w) \/ StepVerified(w) \/ StepFailed(w)
          \/ Replan(w) \/ Complete(w) \/ Abort(w) \/ DetectLoss(w)

End(w) == \/ ReadOutcome(w) \/ HandleFailure(w) \/ FinishRefused(w)
          \/ Finish(w) \/ FinishFailed(w) \/ Fence(w)

Fault(w) == RenewalFails(w) \/ Raise(w) \/ Crash(w)

Next == \/ Environment
        \/ \E w \in Workers :
              \/ Poll(w) \/ Run(w) \/ OperationReturns(w) \/ End(w)
              \/ Renew(w) \/ Watchdog(w) \/ Fault(w) \/ Restart(w)

Spec == Init /\ [][Next]_vars

(* The worker loop keeps polling and a run keeps making progress, except   *)
(* inside an external operation, which nothing obliges to return; the      *)
(* watchdog timer fires, leases run out, the supervisor restarts a worker. *)
Fairness ==
  /\ \A w \in Workers : /\ WF_vars(Poll(w)) /\ WF_vars(Run(w) \/ End(w))
                        /\ WF_vars(Watchdog(w)) /\ WF_vars(Restart(w))
  /\ \A t \in Tasks : WF_vars(TimePasses(t))

FairSpec == Spec /\ Fairness

-----------------------------------------------------------------------------
(* Type invariant *)

TypeOK ==
  /\ queue \in [Tasks -> QueueStatus \cup {"ABSENT"}]
  /\ attempts \in [Tasks -> 0..MaxAttempts]
  /\ lease \in [Tasks -> 0..MaxAttempts]
  /\ holder \in [Tasks -> Workers \cup {NoWorker}]
  /\ left \in [Tasks -> 0..Ttl]
  /\ state \in [Tasks -> Status \cup {"ABSENT"}]
  /\ approval \in [Tasks -> {"NONE", "PENDING", "APPROVED", "CLOSED"}]
  /\ pc \in [Workers -> Busy \cup Free]
  /\ job \in [Workers -> Tasks \cup {NoTask}]
  /\ token \in [Workers -> 0..MaxAttempts]
  /\ hb \in [Workers -> {"held", "lost", "aged"}]
  /\ resumed \in [Workers -> BOOLEAN]
  /\ ran \in [Workers -> BOOLEAN]
  /\ out \in [Workers -> Verdict \cup {"WAITING_APPROVAL"}]
  /\ effects \in [Tasks -> SUBSET (1..MaxAttempts)]

-----------------------------------------------------------------------------
(* Safety *)

(* The external operation of a task is started under one lease at most: a  *)
(* worker that crashed, stalled or lost its lease may have run it, and then*)
(* no other worker ever does (the EXECUTION_UNKNOWN rule of the queue).    *)
SingleExecutor == \A t \in Tasks : \A a, b \in effects[t] : a = b

(* A row that can still be handed out, now or after an approval, belongs to*)
(* a task whose operation was never started.                               *)
ClaimableNeverExecuted ==
  \A t \in Tasks : queue[t] \in {"ABSENT", "QUEUED", "WAITING_APPROVAL"} => effects[t] = {}

(* The two records of a task agree once its row is closed: the outcome the *)
(* queue shows is the durable outcome, whoever closed the row.             *)
ClosedRowMatchesState ==
  \A t \in Tasks :
    queue[t] \in Verdict \cup {"WAITING_APPROVAL"} => state[t] = queue[t]

(* The durable status a run expects at each point of its code.             *)
Believed(w) ==
  CASE pc[w] = "claimed" -> {"QUEUED", "WAITING_APPROVAL"}
    [] pc[w] = "created" -> {"CREATED"}
    [] pc[w] = "planning" -> {"PLANNING"}
    [] pc[w] \in {"planned", "ready", "verified", "replanned"} -> {"READY"}
    [] pc[w] = "revalidating" -> {"WAITING_APPROVAL"}
    [] pc[w] \in {"boundary", "invoking", "running", "returned"} -> {"EXECUTING"}
    [] pc[w] = "observing" -> {"OBSERVING"}
    [] pc[w] = "verifying" -> {"VERIFYING"}
    [] pc[w] = "unverified" -> {AfterFailure(w)}
    [] pc[w] = "closing" -> Kept
    [] pc[w] = "finishing" -> {out[w]}
    [] pc[w] = "failing" -> Status \ Terminal
    [] OTHER -> Status

(* A worker that still holds a live lease computes its next checkpoint from*)
(* what the database holds: nobody changed the task behind its back.       *)
OwnerSeesDurable ==
  \A w \in Workers : Valid(w) => state[job[w]] \in Believed(w)

(* COMPLETED is only ever recorded for a task whose operation was started  *)
(* by the very claim that completed it.                                    *)
CompletedByLastClaim ==
  \A t \in Tasks : state[t] = "COMPLETED" => effects[t] = {attempts[t]}

(* A durable state changes only under a lease that is still running, or in *)
(* the transaction that fences an expired one and closes its row: a stale  *)
(* worker never commits a checkpoint.                                      *)
LateWritesRefused ==
  [][\A t \in Tasks :
       state'[t] # state[t] =>
         \/ queue[t] = "ABSENT"
         \/ queue[t] = "LEASED" /\ (left[t] > 0 \/ queue'[t] # "LEASED")]_vars

(* An outcome is final, in the durable state and on the row, whatever else *)
(* fails afterwards: retries, recoveries and late workers do not relabel.  *)
VerdictIsFinal ==
  [][\A t \in Tasks : /\ state[t] \in Verdict => state'[t] = state[t]
                      /\ queue[t] \in Verdict => queue'[t] = queue[t]]_vars

-----------------------------------------------------------------------------
(* The inductive invariant behind the safety properties *)

(* Statuses of a task whose operation was never started.                   *)
Untouched == {"ABSENT", "QUEUED", "CREATED", "PLANNING", "WAITING_APPROVAL"}

(* An operation is only ever started by the latest attempt, so one lease   *)
(* started it; a row shows an outcome only when the durable state has it.  *)
TaskInv(t) ==
  /\ queue[t] = "LEASED" => lease[t] = attempts[t] /\ state[t] # "EXECUTION_UNKNOWN"
  /\ queue[t] = "ABSENT" => state[t] = "ABSENT"
  /\ queue[t] = "QUEUED" => state[t] \in {"QUEUED", "WAITING_APPROVAL"}
  /\ queue[t] \in Verdict \cup {"WAITING_APPROVAL"} => state[t] = queue[t]
  /\ effects[t] \subseteq {attempts[t]}
  /\ state[t] \in Untouched => effects[t] = {}
  /\ state[t] = "COMPLETED" => effects[t] # {}

(* A worker about to start the operation either still owns the row or was  *)
(* given up for lost, in which case nobody else can get it any more.       *)
WorkerInv(w) ==
  /\ Owns(w) => state[job[w]] \in Believed(w)
  /\ pc[w] = "invoking" => /\ token[w] = attempts[job[w]]
                           /\ Owns(w) \/ queue[job[w]] = "EXECUTION_UNKNOWN"
  /\ pc[w] = "planned" /\ Owns(w) => effects[job[w]] = {}
  /\ ran[w] => pc[w] \in Busy /\ token[w] \in effects[job[w]]
  /\ pc[w] = "verified" => ran[w]
  /\ pc[w] = "failing" => out[w] \in {"EXECUTION_UNKNOWN", "FAILED"}

LeaseInv == (\A t \in Tasks : TaskInv(t)) /\ (\A w \in Workers : WorkerInv(w))

-----------------------------------------------------------------------------
(* Liveness *)

(* An expired lease the recovery transaction cannot close, or every worker *)
(* inside an external operation: what can stop the queue altogether.       *)
Poisoned == \E t \in Tasks : Expired(t) /\ ~CanFence(state[t])
AllHung == \A w \in Workers : pc[w] = "running"
Stuck == Poisoned \/ AllHung

(* No claim stays open for ever: a run ends, its watchdog fires, or some   *)
(* worker recovers the expired lease, as long as the queue is not stuck.   *)
LeaseEventuallyClosed ==
  []<>~Stuck => \A t \in Tasks : queue[t] = "LEASED" ~> queue[t] # "LEASED"

(* A task that can be handed out is, whatever became of its earlier claims *)
(* and of those of other tasks, as long as the queue is not stuck.         *)
ClaimableEventuallyClaimed ==
  []<>~Stuck => \A t \in Tasks : Claimable(t) ~> ~Claimable(t)

-----------------------------------------------------------------------------
(* What the code says of itself, and does not do *)

(* storage.py on lease recovery: "Fence an expired worker and              *)
(* conservatively persist an unknown outcome."                             *)
ExpiredLeaseCanBeFenced == \A t \in Tasks : Expired(t) => CanFence(state[t])

(* storage.py on requeueing: "Explicitly make an approval-waiting task     *)
(* claimable again."                                                       *)
RequeuedIsClaimable == \A t \in Tasks : queue[t] = "QUEUED" => Claimable(t)

-----------------------------------------------------------------------------
(* Refinement *)

(* The lease that started the operation of each task, 0 for none.          *)
Starter(claims) == IF claims = {} THEN 0 ELSE CHOOSE a \in claims : TRUE
StartedBy == [t \in Tasks |-> Starter(effects[t])]

Contract == INSTANCE TaskContract WITH
  phase <- queue, handouts <- attempts, by <- StartedBy

(* Workers, leases and checkpoints implement the contract of the queue.    *)
ImplementsContract == Contract!Spec
=============================================================================
