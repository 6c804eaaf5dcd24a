----------------------------- MODULE LeaseProofs -----------------------------
(***************************************************************************)
(* Theorems of LeaseQueue, for any workers, tasks, attempts and length of  *)
(* a lease: typing; LeaseInv, which is inductive and from which the safety *)
(* properties follow; what no step does, that is to commit a state without *)
(* a lease or to take back an outcome; and that every step is a step of    *)
(* TaskContract or changes nothing the owner of a task can see.            *)
(***************************************************************************)
EXTENDS LeaseQueue, TLAPS

-----------------------------------------------------------------------------
(* Type correctness *)

(* A worker has a claim exactly while it is busy.                          *)
ClaimShape ==
  \A w \in Workers :
    IF pc[w] \in Busy THEN job[w] \in Tasks /\ token[w] \in 1..MaxAttempts
                      ELSE job[w] = NoTask

Typed == TypeOK /\ ClaimShape

LEMMA TypedInit == Init => Typed
BY SomeAttempts, SomeTtl, NullTask
   DEF Init, Typed, TypeOK, ClaimShape, Busy, Free, AtFence, AtBoundary, AtEnd,
       Verdict, Terminal

(* The two primitives most actions are made of.                            *)
LEMMA TypedFence ==
  ASSUME Typed, NEW t \in Tasks,
         state' = [state EXCEPT ![t] = Fenced(state[t])],
         CloseRow(t, Fenced(state[t]))
  PROVE  /\ state' \in [Tasks -> Status \cup {"ABSENT"}]
         /\ queue' \in [Tasks -> QueueStatus \cup {"ABSENT"}]
         /\ lease' \in [Tasks -> 0..MaxAttempts]
         /\ holder' \in [Tasks -> Workers \cup {NoWorker}]
         /\ left' \in [Tasks -> 0..Ttl]
         /\ attempts' = attempts
BY SomeAttempts, SomeTtl
   DEF Typed, TypeOK, CloseRow, Fenced, Kept, Status, QueueStatus, Verdict, Terminal

LEMMA TypedRelease ==
  ASSUME Typed, NEW w \in Workers, NEW p \in Free, Release(w, p)
  PROVE  /\ pc' \in [Workers -> Busy \cup Free]
         /\ job' \in [Workers -> Tasks \cup {NoTask}]
         /\ token' \in [Workers -> 0..MaxAttempts]
         /\ hb' \in [Workers -> {"held", "lost", "aged"}]
         /\ resumed' \in [Workers -> BOOLEAN]
         /\ ran' \in [Workers -> BOOLEAN]
         /\ out' \in [Workers -> Verdict \cup {"WAITING_APPROVAL"}]
         /\ ClaimShape'
BY SomeAttempts, NullTask
   DEF Typed, TypeOK, ClaimShape, Release, Busy, Free, AtFence, AtBoundary,
       AtEnd, Verdict, Terminal

LEMMA TypedCheckpoint ==
  ASSUME Typed, NEW w \in Workers, pc[w] \in Busy,
         NEW to \in Status, NEW next \in Busy, Checkpoint(w, to, next),
         UNCHANGED <<approval, job, token, hb, resumed, out>>,
         ran' \in [Workers -> BOOLEAN]
  PROVE  Typed'
BY DEF Typed, TypeOK, ClaimShape, Checkpoint, GoTo, rowVars

LEMMA TypedGoTo ==
  ASSUME Typed, NEW w \in Workers, pc[w] \in Busy, NEW next \in Busy, GoTo(w, next),
         UNCHANGED <<rowVars, state, approval, job, token, hb, ran, effects>>,
         resumed' \in [Workers -> BOOLEAN],
         out' \in [Workers -> Verdict \cup {"WAITING_APPROVAL"}]
  PROVE  Typed'
BY ZenonT(40) DEF Typed, TypeOK, ClaimShape, GoTo, rowVars

LEMMA TypedEnvironment == Typed /\ Environment => Typed'
<1> SUFFICES ASSUME Typed, NEW t \in Tasks,
                    Create(t) \/ Decide(t) \/ Requeue(t) \/ TimePasses(t)
             PROVE  Typed'
  BY DEF Environment
<1> USE SomeTtl DEF Typed, TypeOK, ClaimShape, rowVars, runVars
<1>1. CASE Create(t)
  BY <1>1 DEF Create, QueueStatus, Status
<1>2. CASE Decide(t)
  BY <1>2 DEF Decide
<1>3. CASE Requeue(t)
  BY <1>3 DEF Requeue, QueueStatus
<1>4. CASE TimePasses(t)
  BY <1>4 DEF TimePasses
<1> QED
  BY <1>1, <1>2, <1>3, <1>4

LEMMA TypedPoll == ASSUME Typed, NEW w \in Workers, Poll(w) PROVE Typed'
<1> PICK t \in Tasks : RecoverExpired(w, t) \/ RecoveryRaises(w, t) \/ Claim(w, t)
  BY DEF Poll
<1>1. CASE RecoverExpired(w, t)
  BY <1>1, TypedFence DEF RecoverExpired, Typed, TypeOK, ClaimShape, runVars
<1>2. CASE RecoveryRaises(w, t)
  BY <1>2 DEF RecoveryRaises, GoTo, Typed, TypeOK, ClaimShape, rowVars, runVars,
              Busy, Free, AtFence, AtBoundary, AtEnd
<1>3. CASE Claim(w, t)
  <2>1. ClaimOutcome(state[t]) \in QueueStatus
    BY DEF ClaimOutcome, QueueStatus, Verdict, Terminal
  <2>2. attempts[t] + 1 \in 1..MaxAttempts
    BY <1>3, SomeAttempts DEF Claim, Claimable, Typed, TypeOK
  <2>3. CASE ClaimOutcome(state[t]) = "LEASED"
    <3>1. /\ pc' = [pc EXCEPT ![w] = "claimed"] /\ job' = [job EXCEPT ![w] = t]
          /\ token' = [token EXCEPT ![w] = attempts[t] + 1]
          /\ UNCHANGED <<state, approval, hb, resumed, ran, out, effects>>
      BY <1>3, <2>3 DEF Claim, GoTo
    <3>2. /\ queue' = [queue EXCEPT ![t] = "LEASED"]
          /\ attempts' = [attempts EXCEPT ![t] = attempts[t] + 1]
          /\ lease' = [lease EXCEPT ![t] = attempts[t] + 1]
          /\ holder' = [holder EXCEPT ![t] = w]
          /\ left' = [left EXCEPT ![t] = Ttl]
      BY <1>3, <2>3 DEF Claim
    <3>3. ClaimShape'
      BY <2>2, <3>1 DEF Typed, TypeOK, ClaimShape, Busy, AtFence
    <3>4. TypeOK'
      BY <2>2, <3>1, <3>2, SomeTtl, SomeAttempts
         DEF Typed, TypeOK, QueueStatus, Busy, AtFence
    <3> QED
      BY <3>3, <3>4 DEF Typed
  <2>4. CASE ClaimOutcome(state[t]) # "LEASED"
    BY <1>3, <2>1, <2>2, <2>4, SomeTtl, SomeAttempts
       DEF Claim, Typed, TypeOK, ClaimShape
  <2> QED
    BY <2>3, <2>4
<1> QED
  BY <1>1, <1>2, <1>3

LEMMA TypedRun == ASSUME Typed, NEW w \in Workers, Run(w) PROVE Typed'
<1> USE DEF runVars
<1>1. ran \in [Workers -> BOOLEAN] /\ resumed \in [Workers -> BOOLEAN]
      /\ out \in [Workers -> Verdict \cup {"WAITING_APPROVAL"}]
  BY DEF Typed, TypeOK
<1>2. CASE StartFresh(w)
  BY <1>1, <1>2, TypedCheckpoint DEF StartFresh, Busy, AtFence, Status
<1>3. CASE StartResume(w)
  BY <1>1, <1>3, TypedGoTo DEF StartResume, Busy, AtFence
<1>4. CASE Plan(w)
  BY <1>1, <1>4, TypedCheckpoint DEF Plan, Busy, AtFence, Status
<1>5. CASE PreflightAllows(w)
  BY <1>1, <1>5, TypedCheckpoint DEF PreflightAllows, Preflighting, Busy, AtFence, Status
<1>6. CASE PreflightAsks(w)
  BY <1>6 DEF PreflightAsks, Preflighting, Checkpoint, GoTo, Typed, TypeOK,
              ClaimShape, rowVars, Busy, AtFence, Status
<1>7. CASE PreflightBlocks(w)
  BY <1>1, <1>7, TypedCheckpoint DEF PreflightBlocks, Preflighting, Busy, AtFence, Status
<1>8. CASE BeginStep(w)
  <2>1. ran' \in [Workers -> BOOLEAN]
    BY <1>1, <1>8 DEF BeginStep
  <2> QED
    BY <2>1, <1>8, TypedCheckpoint DEF BeginStep, Busy, AtFence, AtBoundary, Status
<1>9. CASE Boundary(w)
  BY <1>1, <1>9, TypedGoTo DEF Boundary, Busy, AtFence, AtBoundary
<1>10. CASE Invoke(w)
  BY <1>10 DEF Invoke, GoTo, Typed, TypeOK, ClaimShape, rowVars, Busy, AtBoundary
<1>11. CASE Observe(w)
  BY <1>1, <1>11, TypedCheckpoint DEF Observe, Busy, AtFence, Status
<1>12. CASE StepVerified(w)
  BY <1>1, <1>12, TypedCheckpoint DEF StepVerified, Busy, AtFence, Status
<1>13. CASE StepFailed(w)
  BY <1>1, <1>13, TypedCheckpoint DEF StepFailed, AfterFailure, Busy, AtFence, Status
<1>14. CASE Replan(w)
  BY <1>1, <1>14, TypedCheckpoint, TypedGoTo DEF Replan, Busy, AtFence, AtEnd, Status
<1>15. CASE Complete(w)
  BY <1>1, <1>15, TypedCheckpoint DEF Complete, Busy, AtFence, Status
<1>16. CASE Abort(w)
  BY <1>1, <1>16, TypedCheckpoint DEF Abort, Busy, AtFence, Status
<1>17. CASE DetectLoss(w)
  BY <1>1, <1>17, TypedGoTo DEF DetectLoss, Busy, AtFence, AtEnd
<1> QED
  BY <1>2, <1>3, <1>4, <1>5, <1>6, <1>7, <1>8, <1>9, <1>10, <1>11, <1>12,
     <1>13, <1>14, <1>15, <1>16, <1>17 DEF Run

LEMMA TypedEnd == ASSUME Typed, NEW w \in Workers, End(w) PROVE Typed'
<1>1. out \in [Workers -> Verdict \cup {"WAITING_APPROVAL"}]
      /\ resumed \in [Workers -> BOOLEAN]
  BY DEF Typed, TypeOK
<1>2. ASSUME pc[w] \in Busy PROVE job[w] \in Tasks
  BY <1>2 DEF Typed, ClaimShape
<1>3. CASE ReadOutcome(w)
  BY <1>1, <1>3, TypedGoTo
     DEF ReadOutcome, Reported, Busy, AtFence, AtEnd, Verdict, Terminal
<1>4. CASE HandleFailure(w)
  BY <1>1, <1>4, TypedGoTo DEF HandleFailure, Busy, AtEnd, Verdict, Terminal
<1>5. CASE FinishRefused(w)
  BY <1>1, <1>5, TypedGoTo DEF FinishRefused, Busy, AtEnd, runVars
<1>6. CASE Finish(w)
  BY <1>2, <1>6, TypedRelease, SomeTtl, SomeAttempts
     DEF Finish, CloseRow, Typed, TypeOK, QueueStatus, Free, Busy, AtEnd
<1>7. CASE FinishFailed(w)
  <2> DEFINE s == FailedState(state[job[w]], out[w])
  <2>1. job[w] \in Tasks
    BY <1>2, <1>7 DEF FinishFailed, Busy, AtEnd
  <2>2. s \in Status /\ out[w] \in QueueStatus
    BY <1>1 DEF FailedState, Status, QueueStatus, Verdict, Terminal
  <2>3. CASE CanMove(state[job[w]], s)
    <3>1. Release(w, "idle") /\ CloseRow(job[w], out[w])
          /\ state' = [state EXCEPT ![job[w]] = s] /\ UNCHANGED <<approval, effects>>
      BY <1>7, <2>3 DEF FinishFailed
    <3> HIDE DEF s
    <3> QED
      BY <2>1, <2>2, <3>1, TypedRelease, SomeTtl, SomeAttempts
         DEF CloseRow, Typed, TypeOK, Free
  <2>4. CASE ~CanMove(state[job[w]], s)
    <3>1. Release(w, "fatal") /\ UNCHANGED <<rowVars, state, approval, effects>>
      BY <1>7, <2>4 DEF FinishFailed
    <3> QED
      BY <3>1, TypedRelease DEF Typed, TypeOK, Free, rowVars
  <2> QED
    BY <2>3, <2>4
<1>8. CASE Fence(w)
  <2>1. CASE Owns(w) /\ CanFence(state[job[w]])
    BY <1>2, <1>8, <2>1, TypedFence, TypedRelease
       DEF Fence, Typed, TypeOK, Free, Busy, AtEnd
  <2>2. CASE ~(Owns(w) /\ CanFence(state[job[w]]))
    BY <1>8, <2>2, TypedRelease DEF Fence, Typed, TypeOK, Free, rowVars
  <2> QED
    BY <2>1, <2>2
<1> QED
  BY <1>3, <1>4, <1>5, <1>6, <1>7, <1>8 DEF End

LEMMA TypedThreads ==
  ASSUME Typed, NEW w \in Workers,
         OperationReturns(w) \/ Renew(w) \/ Watchdog(w) \/ Fault(w) \/ Restart(w)
  PROVE  Typed'
<1>1. out \in [Workers -> Verdict \cup {"WAITING_APPROVAL"}]
      /\ resumed \in [Workers -> BOOLEAN]
  BY DEF Typed, TypeOK
<1>2. CASE OperationReturns(w)
  BY <1>1, <1>2, TypedGoTo DEF OperationReturns, Busy, AtFence, AtBoundary, runVars
<1>3. CASE Renew(w)
  BY <1>3, SomeTtl DEF Renew, Typed, TypeOK, ClaimShape, runVars
<1>4. CASE Watchdog(w)
  <2>1. job[w] \in Tasks
    BY <1>4 DEF Watchdog, Typed, ClaimShape
  <2>2. CASE Owns(w) /\ CanFence(state[job[w]])
    BY <1>4, <2>1, <2>2, TypedFence DEF Watchdog, Typed, TypeOK, ClaimShape
  <2>3. CASE ~(Owns(w) /\ CanFence(state[job[w]]))
    BY <1>4, <2>3 DEF Watchdog, Typed, TypeOK, ClaimShape, rowVars
  <2> QED
    BY <2>2, <2>3
<1>5. CASE RenewalFails(w)
  BY <1>5 DEF RenewalFails, Typed, TypeOK, ClaimShape, rowVars
<1>6. CASE Raise(w)
  BY <1>1, <1>6, TypedGoTo DEF Raise, Busy, AtFence, AtBoundary, AtEnd, runVars
<1>7. CASE Crash(w)
  BY <1>7, TypedRelease DEF Crash, Typed, TypeOK, Free, rowVars
<1>8. CASE Restart(w)
  BY <1>8 DEF Restart, GoTo, Typed, TypeOK, ClaimShape, rowVars, runVars, Busy,
              Free, AtFence, AtBoundary, AtEnd
<1> QED
  BY <1>2, <1>3, <1>4, <1>5, <1>6, <1>7, <1>8 DEF Fault

LEMMA TypedNext == Typed /\ [Next]_vars => Typed'
<1> SUFFICES ASSUME Typed, [Next]_vars PROVE Typed'
  OBVIOUS
<1>1. CASE UNCHANGED vars
  BY <1>1 DEF vars, rowVars, runVars, Typed, TypeOK, ClaimShape
<1>2. CASE Environment
  BY <1>2, TypedEnvironment
<1>3. ASSUME NEW w \in Workers,
             Poll(w) \/ Run(w) \/ OperationReturns(w) \/ End(w)
             \/ Renew(w) \/ Watchdog(w) \/ Fault(w) \/ Restart(w)
      PROVE  Typed'
  BY <1>3, TypedPoll, TypedRun, TypedEnd, TypedThreads
<1> QED
  BY <1>1, <1>2, <1>3 DEF Next

(* Every reachable state has its variables in their sets: attempt counts   *)
(* within max_attempts, statuses of the schema, one claim per busy worker. *)
THEOREM TypeCorrect == Spec => []TypeOK
<1>1. Typed => TypeOK
  BY DEF Typed
<1> QED
  BY <1>1, TypedInit, TypedNext, PTL DEF Spec

-----------------------------------------------------------------------------
(* Safety *)

IInv == Typed /\ LeaseInv

-----------------------------------------------------------------------------
(* Frames *)

(* The step does not concern the claim and the run of worker v.            *)
Same(v) == /\ pc'[v] = pc[v] /\ job'[v] = job[v] /\ token'[v] = token[v]
           /\ resumed'[v] = resumed[v] /\ ran'[v] = ran[v] /\ out'[v] = out[v]

(* The step ends the claim of worker v.                                    *)
Gone(v) == pc'[v] \in Free /\ job'[v] = NoTask /\ ran'[v] = FALSE

LEMMA SameBelief == ASSUME NEW v \in Workers, Same(v) PROVE Believed(v)' = Believed(v)
BY DEF Same, Believed, AfterFailure

(* Two workers never own the same row.                                     *)
LEMMA OneOwner ==
  ASSUME NEW v \in Workers, NEW w \in Workers, Owns(v), Owns(w), job[v] = job[w]
  PROVE  v = w
BY DEF Owns

LEMMA OwnsTask ==
  ASSUME Typed, NEW w \in Workers, Owns(w)
  PROVE  job[w] \in Tasks /\ pc[w] \in Busy
BY DEF Typed, ClaimShape, Owns

-----------------------------------------------------------------------------
(* The kinds of steps *)

(* A checkpoint by the owner of the row.                                   *)
LEMMA CheckpointKeeps ==
  ASSUME IInv, NEW w \in Workers, NEW to \in Status, NEW next \in Busy,
         Checkpoint(w, to, next),
         \A v \in Workers : v # w => Same(v),
         UNCHANGED <<job, token, resumed, out>>,
         ran'[w] => ran[w],
         to \in Believed(w)',
         to \in Untouched => effects[job[w]] = {},
         to = "COMPLETED" => effects[job[w]] # {}, to # "EXECUTION_UNKNOWN",
         next \notin {"invoking", "failing"},
         next = "planned" => effects[job[w]] = {},
         next = "verified" => ran'[w]
  PROVE  LeaseInv'
<1> DEFINE t == job[w]
<1>1. Owns(w) /\ t \in Tasks
  BY OwnsTask DEF Checkpoint, Valid, IInv
<1>2. \A u \in Tasks : TaskInv(u)'
  <2> SUFFICES ASSUME NEW u \in Tasks PROVE TaskInv(u)'
    OBVIOUS
  <2>1. TaskInv(u) /\ queue[t] = "LEASED"
    BY <1>1 DEF IInv, LeaseInv, Owns
  <2>2. CASE u = t
    BY <1>1, <2>1, <2>2 DEF Checkpoint, TaskInv, rowVars, IInv, Typed, TypeOK, Status
  <2>3. CASE u # t
    BY <1>1, <2>1, <2>3 DEF Checkpoint, TaskInv, rowVars, IInv, Typed, TypeOK
  <2> QED
    BY <2>2, <2>3
<1>3. \A v \in Workers : WorkerInv(v)'
  <2> SUFFICES ASSUME NEW v \in Workers PROVE WorkerInv(v)'
    OBVIOUS
  <2>1. WorkerInv(v) /\ (Owns(v)' <=> Owns(v))
    BY DEF IInv, LeaseInv, Checkpoint, rowVars, Owns
  <2>2. CASE v = w
    BY <1>1, <2>1, <2>2 DEF Checkpoint, GoTo, WorkerInv, IInv, Typed, TypeOK, rowVars
  <2>3. CASE v # w
    <3>1. Same(v) /\ Believed(v)' = Believed(v)
      BY <2>3, SameBelief
    <3>2. Owns(v) => state'[job[v]] = state[job[v]]
      BY <1>1, <2>3, OneOwner, OwnsTask DEF Checkpoint, IInv, Typed, TypeOK
    <3> QED
      BY <2>1, <3>1, <3>2 DEF Checkpoint, WorkerInv, rowVars, Same
  <2> QED
    BY <2>2, <2>3
<1> QED
  BY <1>2, <1>3 DEF LeaseInv

(* A checkpoint that changes nothing else of the run.                      *)
LEMMA RunCheckpointKeeps ==
  ASSUME IInv, NEW w \in Workers, NEW to \in Status, NEW next \in Busy,
         Checkpoint(w, to, next), UNCHANGED runVars,
         to \in Believed(w)',
         to \in Untouched => effects[job[w]] = {},
         to = "COMPLETED" => effects[job[w]] # {}, to # "EXECUTION_UNKNOWN",
         next \notin {"invoking", "failing"},
         next = "planned" => effects[job[w]] = {},
         next = "verified" => ran[w]
  PROVE  LeaseInv'
<1>1. \A v \in Workers : v # w => Same(v)
  BY DEF Checkpoint, GoTo, runVars, Same, IInv, Typed, TypeOK
<1>2. UNCHANGED <<job, token, resumed, out>> /\ ran'[w] = ran[w]
  BY DEF runVars
<1> QED
  BY <1>1, <1>2, CheckpointKeeps

(* A step of the main thread that touches neither rows nor states.         *)
LEMMA MoveKeeps ==
  ASSUME IInv, NEW w \in Workers, NEW next \in Busy, GoTo(w, next),
         \A v \in Workers : v # w => Same(v),
         UNCHANGED <<rowVars, state, effects, job, token, ran>>,
         pc[w] \in Busy,
         Owns(w) => state[job[w]] \in Believed(w)',
         next = "invoking" => Owns(w),
         next \notin {"planned", "verified"},
         next = "failing" => out'[w] \in {"EXECUTION_UNKNOWN", "FAILED"}
  PROVE  LeaseInv'
<1>1. \A u \in Tasks : TaskInv(u)'
  BY DEF IInv, LeaseInv, TaskInv, rowVars
<1>2. \A v \in Workers : WorkerInv(v)'
  <2> SUFFICES ASSUME NEW v \in Workers PROVE WorkerInv(v)'
    OBVIOUS
  <2>1. WorkerInv(v) /\ (Owns(v)' <=> Owns(v))
    BY DEF IInv, LeaseInv, rowVars, Owns
  <2>2. CASE v = w
    <3>1. next = "invoking" => token[w] = attempts[job[w]]
      BY OwnsTask DEF IInv, LeaseInv, TaskInv, Owns
    <3> QED
      BY <2>1, <2>2, <3>1 DEF GoTo, WorkerInv, IInv, Typed, TypeOK, rowVars
  <2>3. CASE v # w
    <3>1. Same(v) /\ Believed(v)' = Believed(v)
      BY <2>3, SameBelief
    <3> QED
      BY <2>1, <3>1 DEF WorkerInv, rowVars, Same
  <2> QED
    BY <2>2, <2>3
<1> QED
  BY <1>1, <1>2 DEF LeaseInv

(* The row of a leased task is closed and its state settled accordingly;   *)
(* workers go on as they were or let go of their claim.                    *)
LEMMA CloseKeeps ==
  ASSUME IInv, NEW t \in Tasks, queue[t] = "LEASED",
         NEW status \in Verdict \cup {"WAITING_APPROVAL"}, CloseRow(t, status),
         state' = [state EXCEPT ![t] = status],
         status \in {"WAITING_APPROVAL", "COMPLETED"} => state[t] = status,
         UNCHANGED effects,
         \A v \in Workers : Same(v) \/ Gone(v),
         \A v \in Workers : Owns(v) /\ job[v] = t /\ pc[v] = "invoking"
                              => status = "EXECUTION_UNKNOWN"
  PROVE  LeaseInv'
<1>1. \A u \in Tasks : TaskInv(u)'
  <2> SUFFICES ASSUME NEW u \in Tasks PROVE TaskInv(u)'
    OBVIOUS
  <2>1. TaskInv(u)
    BY DEF IInv, LeaseInv
  <2>2. CASE u = t
    BY <2>1, <2>2
       DEF CloseRow, TaskInv, IInv, Typed, TypeOK, Verdict, Terminal, Untouched
  <2>3. CASE u # t
    BY <2>1, <2>3 DEF CloseRow, TaskInv, IInv, Typed, TypeOK
  <2> QED
    BY <2>2, <2>3
<1>2. \A v \in Workers : WorkerInv(v)'
  <2> SUFFICES ASSUME NEW v \in Workers PROVE WorkerInv(v)'
    OBVIOUS
  <2>1. WorkerInv(v)
    BY DEF IInv, LeaseInv
  <2>2. CASE Gone(v)
    BY <2>2 DEF Gone, WorkerInv, Owns, Free, Busy, AtFence, AtBoundary, AtEnd
  <2>3. CASE Same(v)
    <3>1. Believed(v)' = Believed(v)
      BY <2>3, SameBelief
    <3>2. Owns(v)' => Owns(v) /\ job[v] # t /\ job[v] \in Tasks
      BY <2>3, NullTask DEF Owns, CloseRow, Same, IInv, Typed, TypeOK, ClaimShape,
                            Verdict, Terminal
    <3>3. Owns(v)' => state'[job[v]] = state[job[v]]
      BY <3>2 DEF IInv, Typed, TypeOK
    <3>4. pc[v] = "invoking" => job[v] \in Tasks
      BY DEF IInv, Typed, ClaimShape, Busy, AtBoundary
    <3>5. pc[v] = "invoking" =>
            /\ token[v] = attempts'[job[v]]
            /\ Owns(v)' \/ queue'[job[v]] = "EXECUTION_UNKNOWN"
      <4>1. CASE pc[v] = "invoking" /\ job[v] = t
        <5>1. Owns(v)
          BY <2>1, <4>1 DEF WorkerInv
        <5>2. status = "EXECUTION_UNKNOWN"
          BY <4>1, <5>1
        <5> QED
          BY <2>1, <4>1, <5>2 DEF WorkerInv, CloseRow, IInv, Typed, TypeOK
      <4>2. CASE pc[v] = "invoking" /\ job[v] # t
        BY <2>1, <2>3, <3>4, <4>2 DEF WorkerInv, CloseRow, Owns, Same, IInv, Typed, TypeOK
      <4> QED
        BY <4>1, <4>2
    <3> QED
      BY <2>1, <2>3, <3>1, <3>2, <3>3, <3>5 DEF WorkerInv, Same
  <2> QED
    BY <2>2, <2>3
<1> QED
  BY <1>1, <1>2 DEF LeaseInv

(* A fence closes a row with what Fenced makes of its state.               *)
LEMMA FenceKeeps ==
  ASSUME IInv, NEW t \in Tasks, queue[t] = "LEASED",
         CloseRow(t, Fenced(state[t])),
         state' = [state EXCEPT ![t] = Fenced(state[t])],
         UNCHANGED effects,
         \A v \in Workers : Same(v) \/ Gone(v)
  PROVE  LeaseInv'
<1>1. Fenced(state[t]) \in Verdict \cup {"WAITING_APPROVAL"}
  BY DEF Fenced, Kept, Verdict
<1>2. Fenced(state[t]) \in {"WAITING_APPROVAL", "COMPLETED"} => state[t] = Fenced(state[t])
  BY DEF Fenced
<1>3. ASSUME NEW v \in Workers, Owns(v), job[v] = t, pc[v] = "invoking"
      PROVE  Fenced(state[t]) = "EXECUTION_UNKNOWN"
  <2>1. state[t] = "EXECUTING"
    BY <1>3 DEF IInv, LeaseInv, WorkerInv, Believed
  <2> QED
    BY <2>1 DEF Fenced, Kept, Terminal
<1> QED
  BY <1>1, <1>2, <1>3, CloseKeeps

(* Rows and states stay; workers go on as they were or let go.             *)
LEMMA FrameKeeps ==
  ASSUME IInv, UNCHANGED <<queue, attempts, lease, holder, state, effects>>,
         \A v \in Workers : Same(v) \/ Gone(v)
  PROVE  LeaseInv'
<1>1. \A u \in Tasks : TaskInv(u)'
  BY DEF IInv, LeaseInv, TaskInv
<1>2. ASSUME NEW v \in Workers PROVE WorkerInv(v)'
  <2>1. WorkerInv(v)
    BY DEF IInv, LeaseInv
  <2>2. CASE Gone(v)
    BY <2>2 DEF Gone, WorkerInv, Owns, Free, Busy, AtFence, AtBoundary, AtEnd
  <2>3. CASE Same(v)
    BY <2>1, <2>3, SameBelief DEF WorkerInv, Same, Owns
  <2> QED
    BY <2>2, <2>3
<1> QED
  BY <1>1, <1>2 DEF LeaseInv

-----------------------------------------------------------------------------
(* The inductive invariant *)

LEMMA InitLease == Init => LeaseInv
BY NullTask DEF Init, LeaseInv, TaskInv, WorkerInv, Owns, Verdict, Terminal, Busy,
                AtFence, AtBoundary, AtEnd

LEMMA EnvironmentKeeps == IInv /\ Environment => LeaseInv'
<1> SUFFICES ASSUME IInv, NEW t \in Tasks,
                    Create(t) \/ Decide(t) \/ Requeue(t) \/ TimePasses(t)
             PROVE  LeaseInv'
  BY DEF Environment
<1>1. CASE Create(t)
  <2>1. \A u \in Tasks : TaskInv(u)'
    BY <1>1 DEF Create, IInv, Typed, TypeOK, LeaseInv, TaskInv, Verdict, Terminal, Untouched
  <2>2. ASSUME NEW v \in Workers PROVE WorkerInv(v)'
    <3>1. WorkerInv(v) /\ Same(v) /\ Believed(v)' = Believed(v)
      BY <1>1, SameBelief DEF IInv, LeaseInv, Create, runVars, Same
    <3>2. (Owns(v)' <=> Owns(v)) /\ (Owns(v) => job[v] # t)
      BY <1>1 DEF Create, Owns, runVars, IInv, Typed, TypeOK, ClaimShape
    <3>3. pc[v] = "invoking" => job[v] \in Tasks /\ job[v] # t
      BY <1>1, <3>1, <3>2 DEF WorkerInv, Create, IInv, Typed, ClaimShape, Busy, AtBoundary,
                              Verdict, Terminal
    <3> QED
      BY <1>1, <3>1, <3>2, <3>3, OwnsTask
         DEF Create, WorkerInv, Same, IInv, Typed, TypeOK
  <2> QED
    BY <2>1, <2>2 DEF LeaseInv
<1>2. CASE Decide(t)
  BY <1>2, FrameKeeps DEF Decide, rowVars, runVars, Same
<1>3. CASE Requeue(t)
  <2>1. \A u \in Tasks : TaskInv(u)'
    BY <1>3 DEF Requeue, IInv, Typed, TypeOK, LeaseInv, TaskInv, Verdict, Terminal
  <2>2. ASSUME NEW v \in Workers PROVE WorkerInv(v)'
    <3>1. WorkerInv(v) /\ Same(v) /\ Believed(v)' = Believed(v)
      BY <1>3, SameBelief DEF IInv, LeaseInv, Requeue, runVars, Same
    <3>2. (Owns(v)' <=> Owns(v)) /\ (Owns(v) => job[v] # t)
      BY <1>3 DEF Requeue, Owns, runVars, IInv, Typed, TypeOK, ClaimShape
    <3>3. pc[v] = "invoking" => job[v] \in Tasks /\ job[v] # t
      BY <1>3, <3>1, <3>2 DEF WorkerInv, Requeue, IInv, Typed, ClaimShape, Busy, AtBoundary,
                              Verdict, Terminal
    <3> QED
      BY <1>3, <3>1, <3>2, <3>3, OwnsTask
         DEF Requeue, WorkerInv, Same, IInv, Typed, TypeOK
  <2> QED
    BY <2>1, <2>2 DEF LeaseInv
<1>4. CASE TimePasses(t)
  BY <1>4, FrameKeeps DEF TimePasses, rowVars, runVars, Same
<1> QED
  BY <1>1, <1>2, <1>3, <1>4

LEMMA PollKeeps == ASSUME IInv, NEW w \in Workers, Poll(w) PROVE LeaseInv'
<1> PICK t \in Tasks : RecoverExpired(w, t) \/ RecoveryRaises(w, t) \/ Claim(w, t)
  BY DEF Poll
<1>1. CASE RecoverExpired(w, t)
  BY <1>1, FenceKeeps DEF RecoverExpired, Expired, Same, runVars
<1>2. CASE RecoveryRaises(w, t)
  <2>1. \A v \in Workers : Same(v) \/ Gone(v)
    <3> SUFFICES ASSUME NEW v \in Workers, v = w PROVE Gone(v)
      BY <1>2 DEF RecoveryRaises, GoTo, Same, runVars, IInv, Typed, TypeOK
    <3> QED
      BY SMTT(30), <1>2 DEF RecoveryRaises, GoTo, Gone, runVars, IInv, LeaseInv, WorkerInv, Typed,
                  TypeOK, ClaimShape, Free, Busy, AtFence, AtBoundary, AtEnd
  <2> QED
    BY <1>2, <2>1, FrameKeeps DEF RecoveryRaises, rowVars
<1>3. CASE Claim(w, t)
  <2>1. /\ state[t] \in {"QUEUED", "WAITING_APPROVAL"} /\ queue[t] = "QUEUED"
        /\ ClaimOutcome(state[t]) = "LEASED" /\ effects[t] = {}
    BY <1>3 DEF Claim, Claimable, ClaimOutcome, IInv, LeaseInv, TaskInv, Untouched,
                Verdict, Terminal
  <2>2. \A u \in Tasks : TaskInv(u)'
    BY <1>3, <2>1 DEF Claim, IInv, Typed, TypeOK, LeaseInv, TaskInv, Verdict, Terminal
  <2>3. ASSUME NEW v \in Workers PROVE WorkerInv(v)'
    <3>1. WorkerInv(v)
      BY DEF IInv, LeaseInv
    <3>2. CASE v = w
      <4>1. pc'[v] = "claimed" /\ job'[v] = t /\ ran'[v] = FALSE
        BY <1>3, <2>1, <3>1, <3>2
           DEF Claim, GoTo, WorkerInv, Busy, AtFence, AtBoundary, AtEnd, IInv, Typed, TypeOK
      <4> QED
        BY <1>3, <2>1, <4>1 DEF Claim, WorkerInv, Believed
    <3>3. CASE v # w
      <4>1. Same(v) /\ Believed(v)' = Believed(v)
        BY <1>3, <2>1, <3>3, SameBelief DEF Claim, GoTo, Same, IInv, Typed, TypeOK
      <4>2. Owns(v)' => Owns(v) /\ job[v] # t
        BY <1>3, <2>1, <3>3, <4>1 DEF Claim, Owns, Same, IInv, Typed, TypeOK, ClaimShape
      <4>3. Owns(v) => Owns(v)'
        BY <1>3, <2>1, <4>1, OwnsTask DEF Claim, Owns, Same, IInv, Typed, TypeOK
      <4>4. pc[v] = "invoking" => job[v] \in Tasks /\ job[v] # t
        BY <2>1, <3>1 DEF WorkerInv, Owns, IInv, Typed, ClaimShape, Busy, AtBoundary,
                          Verdict, Terminal
      <4> QED
        BY <1>3, <3>1, <4>1, <4>2, <4>3, <4>4 DEF Claim, WorkerInv, Same, IInv, Typed, TypeOK
    <3> QED
      BY <3>2, <3>3
  <2> QED
    BY <2>2, <2>3 DEF LeaseInv
<1> QED
  BY <1>1, <1>2, <1>3
(* The main thread leaves the run for one of the exits of _process_claim.  *)
LEMMA LeaveKeeps ==
  ASSUME IInv, NEW w \in Workers, pc[w] \in Busy,
         NEW next \in {"fencing", "raised"}, GoTo(w, next),
         UNCHANGED <<rowVars, state, effects, job, token, resumed, ran, out>>
  PROVE  LeaseInv'
<1>1. Owns(w) => state[job[w]] \in Believed(w)'
  <2> SUFFICES ASSUME Owns(w) PROVE state[job[w]] \in Believed(w)'
    OBVIOUS
  <2>1. state[job[w]] \in Status
    <3>1. state[job[w]] \in Believed(w) /\ out[w] \in Status /\ w \in Workers
      BY DEF IInv, LeaseInv, WorkerInv, Typed, TypeOK, Status, Verdict, Terminal
    <3> QED
      BY <3>1 DEF Believed, AfterFailure, Kept, Terminal, Status
  <2>2. Believed(w)' = Status
    BY DEF GoTo, Believed, IInv, Typed, TypeOK
  <2> QED
    BY <2>1, <2>2
<1> QED
  BY <1>1, MoveKeeps DEF GoTo, Same, Busy, AtEnd, IInv, Typed, TypeOK

(* A run of the orchestrator, one checkpoint or move at a time.            *)
LEMMA RunKeeps == ASSUME IInv, NEW w \in Workers, Run(w) PROVE LeaseInv'
<1> DEFINE t == job[w]
<1>1. /\ pc \in [Workers -> Busy \cup Free] /\ ran \in [Workers -> BOOLEAN]
      /\ resumed \in [Workers -> BOOLEAN]
  BY DEF IInv, Typed, TypeOK
<1>2. WorkerInv(w) /\ (Owns(w) => TaskInv(t) /\ t \in Tasks)
  BY OwnsTask DEF IInv, LeaseInv
<1>3. Valid(w) => Owns(w)
  BY DEF Valid
<1>4. Owns(w) /\ state[t] \in Untouched => effects[t] = {}
  BY <1>2 DEF TaskInv
<1>5. CASE StartFresh(w)
  <2>1. /\ Owns(w) /\ effects[t] = {}
        /\ pc' = [pc EXCEPT ![w] = "created"]
        /\ Checkpoint(w, "CREATED", "created") /\ UNCHANGED runVars
    BY <1>3, <1>4, <1>5 DEF StartFresh, Checkpoint, GoTo, Untouched
  <2>2. "CREATED" \in Believed(w)'
    BY <1>1, <2>1 DEF Believed
  <2> QED
    BY <2>1, <2>2, RunCheckpointKeeps DEF Status, Busy, AtFence
<1>6. CASE StartResume(w)
  <2>1. state[t] \in Believed(w)'
    BY <1>1, <1>6 DEF StartResume, GoTo, Believed
  <2> QED
    BY <1>1, <1>6, <2>1, MoveKeeps DEF StartResume, GoTo, Same, Busy, AtFence
<1>7. CASE Plan(w)
  <2>1. CASE pc[w] = "created" /\ Checkpoint(w, "PLANNING", "planning")
    <3>1. Owns(w) /\ effects[t] = {}
      BY <1>2, <1>3, <1>4, <2>1 DEF Checkpoint, WorkerInv, Believed, Untouched
    <3>2. "PLANNING" \in Believed(w)'
      BY <1>1, <2>1 DEF Checkpoint, GoTo, Believed
    <3> QED
      BY <1>7, <2>1, <3>1, <3>2, RunCheckpointKeeps
         DEF Plan, Status, Busy, AtFence
  <2>2. CASE pc[w] = "planning" /\ Checkpoint(w, "READY", "planned")
    <3>1. Owns(w) /\ effects[t] = {}
      BY <1>2, <1>3, <1>4, <2>2 DEF Checkpoint, WorkerInv, Believed, Untouched
    <3>2. "READY" \in Believed(w)'
      BY <1>1, <2>2 DEF Checkpoint, GoTo, Believed
    <3> QED
      BY <1>7, <2>2, <3>1, <3>2, RunCheckpointKeeps
         DEF Plan, Status, Busy, AtFence, Untouched
  <2> QED
    BY <1>7, <2>1, <2>2 DEF Plan
<1>8. CASE PreflightAllows(w)
  <2>1. "READY" \in Believed(w)'
    BY <1>1, <1>8 DEF PreflightAllows, Checkpoint, GoTo, Believed
  <2> QED
    BY <1>8, <2>1, RunCheckpointKeeps
       DEF PreflightAllows, Status, Busy, AtFence, Untouched
<1>9. CASE PreflightAsks(w)
  <2>1. Owns(w) /\ effects[t] = {}
    BY <1>2, <1>3, <1>4, <1>9
       DEF PreflightAsks, Preflighting, Checkpoint, WorkerInv, Believed, Untouched
  <2>2. "WAITING_APPROVAL" \in Believed(w)'
    BY <1>1, <1>9 DEF PreflightAsks, Checkpoint, GoTo, Believed, Kept
  <2> QED
    BY <1>9, <2>1, <2>2, RunCheckpointKeeps
       DEF PreflightAsks, Status, Busy, AtFence
<1>10. CASE PreflightBlocks(w)
  <2>1. "BLOCKED" \in Believed(w)'
    BY <1>1, <1>10 DEF PreflightBlocks, Checkpoint, GoTo, Believed, Kept, Terminal
  <2> QED
    BY <1>10, <2>1, RunCheckpointKeeps
       DEF PreflightBlocks, Status, Busy, AtFence, Untouched
<1>11. CASE BeginStep(w)
  <2>1. "EXECUTING" \in Believed(w)'
    BY <1>1, <1>11 DEF BeginStep, Checkpoint, GoTo, Believed
  <2>2. \A v \in Workers : v # w => Same(v)
    BY <1>1, <1>11 DEF BeginStep, Checkpoint, GoTo, Same
  <2>3. /\ Checkpoint(w, "EXECUTING", "boundary") /\ ran'[w] = FALSE
        /\ UNCHANGED <<job, token, resumed, out>>
    BY <1>1, <1>11 DEF BeginStep
  <2> QED
    BY <2>1, <2>2, <2>3, CheckpointKeeps DEF Status, Busy, AtBoundary, Untouched
<1>12. CASE Boundary(w)
  <2>1. PICK next \in {"invoking", "returned"} :
          GoTo(w, next) /\ (next = "invoking" => Valid(w))
    BY <1>12 DEF Boundary
  <2>2. Owns(w) => state[t] \in Believed(w)'
    BY <1>1, <1>2, <1>12, <2>1 DEF Boundary, GoTo, Believed, WorkerInv
  <2> QED
    BY <1>1, <1>3, <1>12, <2>1, <2>2, MoveKeeps
       DEF Boundary, GoTo, runVars, Same, Busy, AtFence, AtBoundary
<1>13. CASE Invoke(w)
  <2>1. t \in Tasks
    BY <1>13 DEF Invoke, IInv, Typed, ClaimShape, Busy, AtBoundary
  <2>2. /\ token[w] = attempts[t] /\ state[t] \in {"EXECUTING"} \cup Verdict
        /\ effects' = [effects EXCEPT ![t] = @ \cup {token[w]}]
    BY <1>2, <1>13, <2>1
       DEF Invoke, WorkerInv, Believed, IInv, LeaseInv, TaskInv, Verdict
  <2>3. \A u \in Tasks : TaskInv(u)'
    BY <1>13, <2>1, <2>2 DEF Invoke, rowVars, IInv, LeaseInv, TaskInv, Typed, TypeOK,
                             Untouched, Verdict, Terminal
  <2>4. ASSUME NEW v \in Workers PROVE WorkerInv(v)'
    <3>1. WorkerInv(v) /\ (Owns(v)' <=> Owns(v)) /\ effects[job[v]] \subseteq effects'[job[v]]
      BY <1>13, <2>1 DEF Invoke, rowVars, Owns, IInv, LeaseInv, Typed, TypeOK
    <3>2. CASE v = w
      <4>1. pc'[v] = "running" /\ (Owns(v) => state[t] \in Believed(v)')
        BY <1>1, <1>13, <3>1, <3>2 DEF Invoke, GoTo, WorkerInv, Believed
      <4> QED
        BY <1>1, <1>13, <2>1, <3>1, <3>2, <4>1
           DEF Invoke, WorkerInv, IInv, Typed, TypeOK, Busy, AtBoundary
    <3>3. CASE v # w
      <4>1. Same(v) /\ Believed(v)' = Believed(v)
        BY <1>1, <1>13, <3>3, SameBelief DEF Invoke, GoTo, Same
      <4>2. Owns(v) => job[v] # t \/ queue[t] \in Verdict
        BY <1>2, <1>13, <3>3, OneOwner DEF Invoke, WorkerInv, Verdict
      <4>3. Owns(v) => effects'[job[v]] = effects[job[v]]
        BY <2>1, <2>2, <4>2, OwnsTask DEF Owns, Verdict, Terminal, IInv, Typed, TypeOK
      <4> QED
        BY <1>13, <3>1, <4>1, <4>3 DEF Invoke, WorkerInv, Same, rowVars
    <3> QED
      BY <3>2, <3>3
  <2> QED
    BY <2>3, <2>4 DEF LeaseInv
<1>14. CASE Observe(w)
  <2>1. PICK to \in {"OBSERVING", "VERIFYING"}, next \in {"observing", "verifying"} :
          /\ Checkpoint(w, to, next)
          /\ to = (IF next = "observing" THEN "OBSERVING" ELSE "VERIFYING")
    BY <1>14 DEF Observe
  <2>2. to \in Believed(w)'
    BY <1>1, <2>1 DEF Checkpoint, GoTo, Believed
  <2> QED
    BY <1>14, <2>1, <2>2, RunCheckpointKeeps
       DEF Observe, Status, Busy, AtFence, Untouched
<1>15. CASE StepVerified(w)
  <2>1. "READY" \in Believed(w)'
    BY <1>1, <1>15 DEF StepVerified, Checkpoint, GoTo, Believed
  <2> QED
    BY <1>15, <2>1, RunCheckpointKeeps
       DEF StepVerified, Status, Busy, AtFence, Untouched
<1>16. CASE StepFailed(w)
  <2>1. AfterFailure(w) \in Believed(w)' \cap {"FAILED", "READY"}
    BY <1>1, <1>16 DEF StepFailed, Checkpoint, GoTo, runVars, Believed, AfterFailure
  <2> HIDE DEF t
  <2> QED
    BY <1>16, <2>1, RunCheckpointKeeps
       DEF StepFailed, Status, Busy, AtFence, Untouched
<1>17. CASE Replan(w)
  <2>1. CASE Checkpoint(w, "READY", "replanned")
    <3>1. "READY" \in Believed(w)'
      BY <1>1, <2>1 DEF Checkpoint, GoTo, Believed
    <3> QED
      BY <1>17, <2>1, <3>1, RunCheckpointKeeps
         DEF Replan, Status, Busy, AtFence, Untouched
  <2>2. CASE GoTo(w, "raised") /\ UNCHANGED <<rowVars, state, effects>>
    BY <1>17, <2>2, LeaveKeeps DEF Replan, runVars, Busy, AtFence
  <2> QED
    BY <1>17, <2>1, <2>2 DEF Replan
<1>18. CASE Complete(w)
  <2>1. "COMPLETED" \in Believed(w)'
    BY <1>1, <1>18 DEF Complete, Checkpoint, GoTo, Believed, Kept, Terminal
  <2>2. effects[t] # {}
    BY <1>2, <1>18 DEF Complete, WorkerInv
  <2> QED
    BY <1>18, <2>1, <2>2, RunCheckpointKeeps
       DEF Complete, Status, Busy, AtFence, Untouched
<1>19. CASE Abort(w)
  <2>1. "FAILED" \in Believed(w)'
    BY <1>1, <1>19 DEF Abort, Checkpoint, GoTo, Believed, Kept, Terminal
  <2> QED
    BY <1>19, <2>1, RunCheckpointKeeps
       DEF Abort, Status, Busy, AtFence, Untouched
<1>20. CASE DetectLoss(w)
  BY <1>20, LeaveKeeps DEF DetectLoss, runVars, Busy
<1> QED
  BY <1>5, <1>6, <1>7, <1>8, <1>9, <1>10, <1>11, <1>12, <1>13, <1>14, <1>15,
     <1>16, <1>17, <1>18, <1>19, <1>20 DEF Run
(* A worker that lets go of its claim leaves the others alone.             *)
LEMMA ReleaseFrame ==
  ASSUME Typed, NEW w \in Workers, NEW p \in Free, Release(w, p)
  PROVE  \A v \in Workers : Same(v) \/ Gone(v)
BY DEF Release, Same, Gone, Typed, TypeOK

LEMMA EndKeeps == ASSUME IInv, NEW w \in Workers, End(w) PROVE LeaseInv'
<1> DEFINE t == job[w]
<1>1. pc[w] \in AtEnd \cup {"closing"} => t \in Tasks /\ pc[w] \in Busy
  BY DEF IInv, Typed, ClaimShape, Busy, AtFence
<1>2. WorkerInv(w) /\ (Owns(w) => queue[t] = "LEASED")
  BY DEF IInv, LeaseInv, Owns
<1>3. /\ pc \in [Workers -> Busy \cup Free] /\ Typed
      /\ out \in [Workers -> Verdict \cup {"WAITING_APPROVAL"}]
  BY DEF IInv, Typed, TypeOK
<1>4. CASE ReadOutcome(w)
  <2>1. CASE GoTo(w, "finishing") /\ out' = [out EXCEPT ![w] = Reported(state[t])]
    <3>1. Owns(w) => state[t] \in Believed(w)'
      BY <1>2, <1>3, <1>4, <2>1
         DEF ReadOutcome, GoTo, WorkerInv, Believed, Reported, Kept, Verdict
    <3> QED
      BY <1>1, <1>3, <1>4, <2>1, <3>1, MoveKeeps
         DEF ReadOutcome, GoTo, Same, Busy, AtEnd
  <2>2. CASE GoTo(w, "fencing") /\ UNCHANGED out
    BY <1>1, <1>4, <2>2, LeaveKeeps DEF ReadOutcome, Busy
  <2> QED
    BY <1>4, <2>1, <2>2 DEF ReadOutcome
<1>5. CASE HandleFailure(w)
  <2>1. CASE hb[w] # "held"
    BY <1>1, <1>5, <2>1, LeaveKeeps DEF HandleFailure, AtEnd
  <2>2. CASE hb[w] = "held"
    <3>1. PICK next \in {"finishing", "failing"} :
            /\ GoTo(w, next)
            /\ next = (IF state[t] \in Terminal THEN "finishing" ELSE "failing")
      BY <1>5, <2>2 DEF HandleFailure
    <3>2. out'[w] = (IF state[t] \in Terminal THEN state[t]
                     ELSE IF state[t] \in MayHaveStarted THEN "EXECUTION_UNKNOWN"
                     ELSE "FAILED")
      BY <1>3, <1>5, <2>2 DEF HandleFailure
    <3>3. Owns(w) => state[t] \in Status
      BY <1>2, <1>5 DEF WorkerInv, Believed, HandleFailure
    <3>4. Owns(w) => state[t] \in Believed(w)'
      BY <1>3, <3>1, <3>2, <3>3 DEF GoTo, Believed
    <3>5. next = "failing" => out'[w] \in {"EXECUTION_UNKNOWN", "FAILED"}
      BY <3>1, <3>2
    <3>6. \A v \in Workers : v # w => Same(v)
      BY <1>3, <1>5, <2>2, <3>1 DEF HandleFailure, GoTo, Same
    <3>7. UNCHANGED <<rowVars, state, effects, job, token, ran>> /\ pc[w] = "raised"
      BY <1>5 DEF HandleFailure
    <3> QED
      BY <1>1, <3>1, <3>4, <3>5, <3>6, <3>7, MoveKeeps DEF Busy, AtEnd
  <2> QED
    BY <2>1, <2>2
<1>6. CASE FinishRefused(w)
  BY <1>1, <1>6, LeaveKeeps DEF FinishRefused, AtEnd, runVars
<1>7. CASE Finish(w)
  <2>1. \A v \in Workers : Same(v) \/ Gone(v)
    BY <1>3, <1>7, ReleaseFrame DEF Finish, Free
  <2>2. state[t] = out[w] /\ Owns(w) /\ t \in Tasks
    BY <1>1, <1>2, <1>7 DEF Finish, Valid, WorkerInv, Believed, AtEnd
  <2>3. state' = [state EXCEPT ![t] = out[w]]
    BY <1>7, <2>2 DEF Finish, IInv, Typed, TypeOK
  <2>4. CloseRow(t, out[w]) /\ UNCHANGED effects /\ queue[t] = "LEASED"
    BY <1>2, <1>7, <2>2 DEF Finish
  <2>5. out[w] \in Verdict \cup {"WAITING_APPROVAL"}
    BY <1>3
  <2>6. \A v \in Workers : ~(Owns(v) /\ job[v] = t /\ pc[v] = "invoking")
    BY <1>7, <2>2, OneOwner DEF Finish
  <2> QED
    BY ZenonT(40), <2>1, <2>2, <2>3, <2>4, <2>5, <2>6, CloseKeeps
<1>8. CASE FinishFailed(w)
  <2>1. \A v \in Workers : Same(v) \/ Gone(v)
    BY <1>3, <1>8, ReleaseFrame DEF FinishFailed, Free
  <2>2. /\ state[t] \notin Terminal /\ Owns(w) /\ t \in Tasks
        /\ out[w] \in {"EXECUTION_UNKNOWN", "FAILED"}
    BY <1>1, <1>2, <1>8 DEF FinishFailed, Valid, WorkerInv, Believed, AtEnd
  <2>3. FailedState(state[t], out[w]) = out[w]
    BY <2>2 DEF FailedState
  <2>4. CASE CanMove(state[t], FailedState(state[t], out[w]))
    <3>1. /\ state' = [state EXCEPT ![t] = out[w]] /\ CloseRow(t, out[w])
          /\ UNCHANGED effects /\ queue[t] = "LEASED"
      BY <1>2, <1>8, <2>2, <2>3, <2>4 DEF FinishFailed
    <3>2. out[w] \in Verdict \cup {"WAITING_APPROVAL"} /\ t \in Tasks
      BY <1>3, <2>2
    <3>3. \A v \in Workers : ~(Owns(v) /\ job[v] = t /\ pc[v] = "invoking")
      BY <1>8, <2>2, OneOwner DEF FinishFailed
    <3>4. out[w] \in {"WAITING_APPROVAL", "COMPLETED"} => state[t] = out[w]
      BY <2>2
    <3> HIDE DEF t
    <3> QED
      BY ZenonT(40), <2>1, <3>1, <3>2, <3>3, <3>4, CloseKeeps
  <2>5. CASE ~CanMove(state[t], FailedState(state[t], out[w]))
    BY <1>8, <2>1, <2>5, FrameKeeps DEF FinishFailed, rowVars
  <2> QED
    BY <2>4, <2>5
<1>9. CASE Fence(w)
  <2>1. \A v \in Workers : Same(v) \/ Gone(v)
    BY <1>3, <1>9, ReleaseFrame DEF Fence, Free
  <2>2. CASE Owns(w) /\ CanFence(state[t])
    BY <1>1, <1>2, <1>9, <2>1, <2>2, FenceKeeps DEF Fence, AtEnd
  <2>3. CASE ~(Owns(w) /\ CanFence(state[t]))
    BY <1>9, <2>1, <2>3, FrameKeeps DEF Fence, rowVars
  <2> QED
    BY <2>2, <2>3
<1> QED
  BY <1>4, <1>5, <1>6, <1>7, <1>8, <1>9 DEF End

LEMMA ThreadsKeep ==
  ASSUME IInv, NEW w \in Workers,
         OperationReturns(w) \/ Renew(w) \/ Watchdog(w) \/ Fault(w) \/ Restart(w)
  PROVE  LeaseInv'
<1>1. WorkerInv(w) /\ (Owns(w) => queue[job[w]] = "LEASED" /\ job[w] \in Tasks)
  BY OwnsTask DEF IInv, LeaseInv, Owns
<1>2. pc \in [Workers -> Busy \cup Free] /\ Typed
  BY DEF IInv, Typed, TypeOK
<1>3. CASE OperationReturns(w)
  <2>1. Owns(w) => state[job[w]] \in Believed(w)'
    BY <1>1, <1>2, <1>3 DEF OperationReturns, GoTo, WorkerInv, Believed
  <2>2. \A v \in Workers : v # w => Same(v)
    BY <1>2, <1>3 DEF OperationReturns, GoTo, Same, runVars
  <2>3. pc[w] = "running" /\ GoTo(w, "returned") /\ UNCHANGED <<job, token, ran>>
        /\ UNCHANGED <<rowVars, state, effects>>
    BY <1>3 DEF OperationReturns, runVars
  <2> QED
    BY <2>1, <2>2, <2>3, MoveKeeps DEF Busy, AtFence, AtBoundary
<1>4. CASE Renew(w)
  BY <1>4, FrameKeeps DEF Renew, Same, runVars
<1>5. CASE Watchdog(w)
  <2>1. \A v \in Workers : Same(v)
    BY <1>5 DEF Watchdog, Same
  <2>2. CASE Owns(w) /\ CanFence(state[job[w]])
    BY <1>1, <1>5, <2>1, <2>2, FenceKeeps DEF Watchdog
  <2>3. CASE ~(Owns(w) /\ CanFence(state[job[w]]))
    BY <1>5, <2>1, <2>3, FrameKeeps DEF Watchdog, rowVars
  <2> QED
    BY <2>2, <2>3
<1>6. CASE RenewalFails(w)
  BY <1>6, FrameKeeps DEF RenewalFails, Same, rowVars
<1>7. CASE Raise(w)
  BY <1>7, LeaveKeeps DEF Raise, runVars, Busy, AtBoundary
<1>8. CASE Crash(w)
  BY <1>2, <1>8, ReleaseFrame, FrameKeeps DEF Crash, Free, rowVars
<1>9. CASE Restart(w)
  <2>1. job[w] = NoTask /\ ~ran[w] /\ "idle" \in Free
    BY <1>1, <1>9 DEF Restart, WorkerInv, IInv, Typed, ClaimShape, Free, Busy, AtFence,
                      AtBoundary, AtEnd
  <2>2. \A v \in Workers : Same(v) \/ Gone(v)
    BY <1>2, <1>9, <2>1 DEF Restart, GoTo, Same, Gone, runVars, Typed, TypeOK
  <2> QED
    BY <1>9, <2>2, FrameKeeps DEF Restart, rowVars
<1> QED
  BY <1>3, <1>4, <1>5, <1>6, <1>7, <1>8, <1>9 DEF Fault

LEMMA NextKeeps == IInv /\ [Next]_vars => IInv'
<1> SUFFICES ASSUME IInv, [Next]_vars PROVE IInv'
  OBVIOUS
<1>1. Typed'
  BY TypedNext DEF IInv
<1>2. CASE UNCHANGED vars
  BY <1>1, <1>2, FrameKeeps DEF IInv, vars, rowVars, runVars, Same
<1>3. CASE Environment
  BY <1>1, <1>3, EnvironmentKeeps DEF IInv
<1>4. ASSUME NEW w \in Workers,
             Poll(w) \/ Run(w) \/ OperationReturns(w) \/ End(w)
             \/ Renew(w) \/ Watchdog(w) \/ Fault(w) \/ Restart(w)
      PROVE  LeaseInv'
  BY <1>4, PollKeeps, RunKeeps, EndKeeps, ThreadsKeep
<1> QED
  BY <1>1, <1>2, <1>3, <1>4 DEF Next, IInv

LEMMA Inductive == Spec => []IInv
<1>1. Init => IInv
  BY TypedInit, InitLease DEF IInv
<1> QED
  BY <1>1, NextKeeps, PTL DEF Spec
-----------------------------------------------------------------------------
(* The safety properties *)

(* A crashed, stalled or superseded worker may have run the operation of a *)
(* task: nobody else ever does, however many workers poll the queue.       *)
THEOREM OneExecutor == Spec => []SingleExecutor
<1>1. IInv => SingleExecutor
  BY DEF IInv, LeaseInv, TaskInv, SingleExecutor
<1> QED
  BY <1>1, Inductive, PTL

(* Whatever the queue can still hand out was never executed.               *)
THEOREM NothingExecutedIsClaimable == Spec => []ClaimableNeverExecuted
<1>1. IInv => ClaimableNeverExecuted
  BY DEF IInv, LeaseInv, TaskInv, ClaimableNeverExecuted, Untouched
<1> QED
  BY <1>1, Inductive, PTL

(* Finish, fence, watchdog and recovery all leave a row and a durable      *)
(* state that say the same.                                                *)
THEOREM RowAndStateAgree == Spec => []ClosedRowMatchesState
<1>1. IInv => ClosedRowMatchesState
  BY DEF IInv, LeaseInv, TaskInv, ClosedRowMatchesState
<1> QED
  BY <1>1, Inductive, PTL

(* A run under a live lease never works from a stale view of its task.     *)
THEOREM OwnerIsUpToDate == Spec => []OwnerSeesDurable
<1>1. IInv => OwnerSeesDurable
  BY DEF IInv, LeaseInv, WorkerInv, OwnerSeesDurable, Valid
<1> QED
  BY <1>1, Inductive, PTL

(* A task completes only under the claim that started its operation.       *)
THEOREM CompletionIsEarned == Spec => []CompletedByLastClaim
<1>1. IInv => CompletedByLastClaim
  BY DEF IInv, LeaseInv, TaskInv, CompletedByLastClaim
<1> QED
  BY <1>1, Inductive, PTL

-----------------------------------------------------------------------------
(* Steps *)

(* The bodies of LateWritesRefused and VerdictIsFinal for one task.        *)
Fresh(t) == state'[t] # state[t] =>
              \/ queue[t] = "ABSENT"
              \/ queue[t] = "LEASED" /\ (left[t] > 0 \/ queue'[t] # "LEASED")
Final(t) == /\ state[t] \in Verdict => state'[t] = state[t]
            /\ queue[t] \in Verdict => queue'[t] = queue[t]

Disciplined == \A t \in Tasks : Fresh(t) /\ Final(t)

-----------------------------------------------------------------------------
(* The kinds of steps *)

LEMMA CheckpointDisciplined ==
  ASSUME IInv, NEW w \in Workers, NEW to, NEW next, Checkpoint(w, to, next),
         state[job[w]] \in Verdict => to = state[job[w]]
  PROVE  Disciplined
<1>1. queue[job[w]] = "LEASED" /\ left[job[w]] > 0 /\ job[w] \in Tasks
  BY OwnsTask DEF Checkpoint, Valid, Owns, IInv
<1> QED
  BY <1>1 DEF Checkpoint, rowVars, Disciplined, Fresh, Final, IInv, Typed, TypeOK

(* The points of a run where the owner of the row sees no outcome yet.     *)
LEMMA UnsettledPoints ==
  ASSUME IInv, NEW w \in Workers, Owns(w),
         pc[w] \in {"claimed", "created", "planning", "planned", "revalidating", "ready",
                    "returned", "observing", "verifying", "verified", "replanned"}
  PROVE  state[job[w]] \notin Verdict
BY DEF IInv, LeaseInv, WorkerInv, Believed, Verdict, Terminal

LEMMA RunDisciplined ==
  ASSUME IInv, NEW w \in Workers, NEW to, NEW next, Checkpoint(w, to, next),
         pc[w] \in {"claimed", "created", "planning", "planned", "revalidating", "ready",
                    "returned", "observing", "verifying", "verified", "replanned"}
  PROVE  Disciplined
<1>1. state[job[w]] \notin Verdict
  BY UnsettledPoints DEF Checkpoint, Valid
<1> QED
  BY <1>1, CheckpointDisciplined

LEMMA CloseDisciplined ==
  ASSUME IInv, NEW t \in Tasks, queue[t] = "LEASED",
         NEW status \in Verdict \cup {"WAITING_APPROVAL"}, CloseRow(t, status),
         state' = [state EXCEPT ![t] = status],
         state[t] \in Verdict => status = state[t]
  PROVE  Disciplined
<1>1. status # "LEASED" /\ queue[t] \notin Verdict
  BY DEF Verdict, Terminal
<1> QED
  BY <1>1 DEF CloseRow, Disciplined, Fresh, Final, IInv, Typed, TypeOK

LEMMA FenceDisciplined ==
  ASSUME IInv, NEW t \in Tasks, queue[t] = "LEASED",
         CloseRow(t, Fenced(state[t])), state' = [state EXCEPT ![t] = Fenced(state[t])]
  PROVE  Disciplined
<1>1. Fenced(state[t]) \in Verdict \cup {"WAITING_APPROVAL"}
  BY DEF Fenced, Kept, Verdict
<1>2. state[t] \in Verdict => Fenced(state[t]) = state[t]
  BY DEF Fenced, Kept, Verdict
<1> QED
  BY <1>1, <1>2, CloseDisciplined

LEMMA FrameDisciplined == UNCHANGED <<queue, state>> => Disciplined
BY DEF Disciplined, Fresh, Final

-----------------------------------------------------------------------------
(* Every step *)

LEMMA EnvironmentDisciplined == IInv /\ Environment => Disciplined
<1> SUFFICES ASSUME IInv, NEW t \in Tasks,
                    Create(t) \/ Decide(t) \/ Requeue(t) \/ TimePasses(t)
             PROVE  Disciplined
  BY DEF Environment
<1>1. CASE Create(t)
  <2>1. state[t] = "ABSENT"
    BY <1>1 DEF Create, IInv, LeaseInv, TaskInv
  <2> QED
    BY <1>1, <2>1 DEF Create, Disciplined, Fresh, Final, IInv, Typed, TypeOK,
                      Verdict, Terminal
<1>2. CASE Decide(t)
  BY <1>2, FrameDisciplined DEF Decide, rowVars
<1>3. CASE Requeue(t)
  BY <1>3 DEF Requeue, Disciplined, Fresh, Final, IInv, Typed, TypeOK, Verdict, Terminal
<1>4. CASE TimePasses(t)
  BY <1>4, FrameDisciplined DEF TimePasses
<1> QED
  BY <1>1, <1>2, <1>3, <1>4

LEMMA PollDisciplined == ASSUME IInv, NEW w \in Workers, Poll(w) PROVE Disciplined
<1> PICK t \in Tasks : RecoverExpired(w, t) \/ RecoveryRaises(w, t) \/ Claim(w, t)
  BY DEF Poll
<1>1. CASE RecoverExpired(w, t)
  BY <1>1, FenceDisciplined DEF RecoverExpired, Expired
<1>2. CASE RecoveryRaises(w, t)
  BY <1>2, FrameDisciplined DEF RecoveryRaises, rowVars
<1>3. CASE Claim(w, t)
  BY <1>3 DEF Claim, Claimable, Disciplined, Fresh, Final, IInv, Typed, TypeOK,
              Verdict, Terminal
<1> QED
  BY <1>1, <1>2, <1>3

LEMMA StepsDisciplined == ASSUME IInv, NEW w \in Workers, Run(w) PROVE Disciplined
<1>1. CASE StartFresh(w)
  BY <1>1, RunDisciplined DEF StartFresh
<1>2. CASE StartResume(w)
  BY <1>2, FrameDisciplined DEF StartResume, rowVars
<1>3. CASE Plan(w)
  BY <1>3, RunDisciplined DEF Plan
<1>4. CASE PreflightAllows(w)
  BY <1>4, RunDisciplined DEF PreflightAllows, Preflighting
<1>5. CASE PreflightAsks(w)
  BY <1>5, RunDisciplined DEF PreflightAsks, Preflighting
<1>6. CASE PreflightBlocks(w)
  BY <1>6, RunDisciplined DEF PreflightBlocks, Preflighting
<1>7. CASE BeginStep(w)
  BY <1>7, RunDisciplined DEF BeginStep
<1>8. CASE Boundary(w)
  BY <1>8, FrameDisciplined DEF Boundary, rowVars
<1>9. CASE Invoke(w)
  BY <1>9, FrameDisciplined DEF Invoke, rowVars
<1>10. CASE Observe(w)
  BY <1>10, RunDisciplined DEF Observe
<1>11. CASE StepVerified(w)
  BY <1>11, RunDisciplined DEF StepVerified
<1>12. CASE StepFailed(w)
  BY <1>12, RunDisciplined DEF StepFailed
<1>13. CASE Replan(w)
  <2>1. CASE CanMove(AfterFailure(w), "READY")
    <3>1. Owns(w) => state[job[w]] \notin Verdict
      BY <1>13, <2>1 DEF Replan, IInv, LeaseInv, WorkerInv, Believed, AfterFailure, CanMove,
                         Allowed, Status, Verdict, Terminal
    <3> QED
      BY <1>13, <2>1, <3>1, CheckpointDisciplined DEF Replan, Checkpoint, Valid
  <2>2. CASE ~CanMove(AfterFailure(w), "READY")
    BY <1>13, <2>2, FrameDisciplined DEF Replan, rowVars
  <2> QED
    BY <2>1, <2>2
<1>14. CASE Complete(w)
  BY <1>14, RunDisciplined DEF Complete
<1>15. CASE Abort(w)
  <2>1. Owns(w) => state[job[w]] \in {"READY", "FAILED"}
    BY <1>15 DEF Abort, IInv, LeaseInv, WorkerInv, Believed, AfterFailure
  <2>2. Checkpoint(w, "FAILED", "closing") /\ Owns(w)
    BY <1>15 DEF Abort, Checkpoint, Valid
  <2> QED
    BY <2>1, <2>2, CheckpointDisciplined DEF Verdict, Terminal
<1>16. CASE DetectLoss(w)
  BY <1>16, FrameDisciplined DEF DetectLoss, rowVars
<1> QED
  BY <1>1, <1>2, <1>3, <1>4, <1>5, <1>6, <1>7, <1>8, <1>9, <1>10, <1>11, <1>12,
     <1>13, <1>14, <1>15, <1>16 DEF Run

LEMMA EndDisciplined == ASSUME IInv, NEW w \in Workers, End(w) PROVE Disciplined
<1> DEFINE t == job[w]
<1>1. /\ Owns(w) => t \in Tasks /\ queue[t] = "LEASED" /\ state[t] # "EXECUTION_UNKNOWN"
      /\ WorkerInv(w)
      /\ out[w] \in Verdict \cup {"WAITING_APPROVAL"}
  BY OwnsTask DEF IInv, LeaseInv, TaskInv, Owns, Typed, TypeOK
<1>2. CASE ReadOutcome(w)
  BY <1>2, FrameDisciplined DEF ReadOutcome, rowVars
<1>3. CASE HandleFailure(w)
  BY <1>3, FrameDisciplined DEF HandleFailure, rowVars
<1>4. CASE FinishRefused(w)
  BY <1>4, FrameDisciplined DEF FinishRefused, rowVars
<1>5. CASE Finish(w)
  <2>1. Owns(w) /\ state[t] = out[w]
    BY <1>1, <1>5 DEF Finish, Valid, WorkerInv, Believed
  <2>2. state' = [state EXCEPT ![t] = out[w]] /\ CloseRow(t, out[w])
    BY <1>5, <2>1 DEF Finish, IInv, Typed, TypeOK
  <2> QED
    BY <1>1, <2>1, <2>2, CloseDisciplined
<1>6. CASE FinishFailed(w)
  <2>1. Owns(w) /\ state[t] \notin Verdict
    BY <1>1, <1>6 DEF FinishFailed, Valid, WorkerInv, Believed, Verdict
  <2>2. FailedState(state[t], out[w]) = out[w]
    BY <2>1 DEF FailedState, Verdict
  <2>3. CASE CanMove(state[t], FailedState(state[t], out[w]))
    <3>1. state' = [state EXCEPT ![t] = out[w]] /\ CloseRow(t, out[w])
      BY <1>6, <2>2, <2>3 DEF FinishFailed
    <3> QED
      BY <1>1, <2>1, <3>1, CloseDisciplined
  <2>4. CASE ~CanMove(state[t], FailedState(state[t], out[w]))
    BY <1>6, <2>4, FrameDisciplined DEF FinishFailed, rowVars
  <2> QED
    BY <2>3, <2>4
<1>7. CASE Fence(w)
  <2>1. CASE Owns(w) /\ CanFence(state[t])
    BY <1>1, <1>7, <2>1, FenceDisciplined DEF Fence
  <2>2. CASE ~(Owns(w) /\ CanFence(state[t]))
    BY <1>7, <2>2, FrameDisciplined DEF Fence, rowVars
  <2> QED
    BY <2>1, <2>2
<1> QED
  BY <1>2, <1>3, <1>4, <1>5, <1>6, <1>7 DEF End

LEMMA ThreadsDisciplined ==
  ASSUME IInv, NEW w \in Workers,
         OperationReturns(w) \/ Renew(w) \/ Watchdog(w) \/ Fault(w) \/ Restart(w)
  PROVE  Disciplined
<1>1. CASE Watchdog(w)
  <2>1. CASE Owns(w) /\ CanFence(state[job[w]])
    <3>1. job[w] \in Tasks /\ queue[job[w]] = "LEASED"
      BY <2>1, OwnsTask DEF IInv, Owns
    <3> QED
      BY <1>1, <2>1, <3>1, FenceDisciplined DEF Watchdog
  <2>2. CASE ~(Owns(w) /\ CanFence(state[job[w]]))
    BY <1>1, <2>2, FrameDisciplined DEF Watchdog, rowVars
  <2> QED
    BY <2>1, <2>2
<1>2. CASE OperationReturns(w) \/ Renew(w) \/ Fault(w) \/ Restart(w)
  <2>1. UNCHANGED <<queue, state>>
    BY <1>2 DEF OperationReturns, Renew, Fault, RenewalFails, Raise, Crash, Restart, rowVars
  <2> QED
    BY <2>1, FrameDisciplined
<1> QED
  BY <1>1, <1>2

LEMMA NextDisciplined == IInv /\ [Next]_vars => Disciplined
<1> SUFFICES ASSUME IInv, [Next]_vars PROVE Disciplined
  OBVIOUS
<1>1. CASE UNCHANGED vars
  BY <1>1, FrameDisciplined DEF vars, rowVars
<1>2. CASE Environment
  BY <1>2, EnvironmentDisciplined
<1>3. ASSUME NEW w \in Workers,
             Poll(w) \/ Run(w) \/ OperationReturns(w) \/ End(w)
             \/ Renew(w) \/ Watchdog(w) \/ Fault(w) \/ Restart(w)
      PROVE  Disciplined
  BY <1>3, PollDisciplined, StepsDisciplined, EndDisciplined, ThreadsDisciplined
<1> QED
  BY <1>1, <1>2, <1>3 DEF Next

-----------------------------------------------------------------------------
(* The action properties *)

(* A worker that lost its lease commits nothing: only a running lease or   *)
(* the fence of an expired one changes the durable state of a task.        *)
THEOREM NoLateWrite == Spec => LateWritesRefused
<1>1. IInv /\ [Next]_vars =>
        [\A t \in Tasks :
           state'[t] # state[t] =>
             \/ queue[t] = "ABSENT"
             \/ queue[t] = "LEASED" /\ (left[t] > 0 \/ queue'[t] # "LEASED")]_vars
  BY NextDisciplined DEF Disciplined, Fresh
<1> QED
  BY <1>1, Inductive, PTL DEF Spec, LateWritesRefused

(* Completed, failed, blocked or uncertain: no later step says otherwise.  *)
THEOREM OutcomesStand == Spec => VerdictIsFinal
<1>1. IInv /\ [Next]_vars =>
        [\A t \in Tasks : /\ state[t] \in Verdict => state'[t] = state[t]
                          /\ queue[t] \in Verdict => queue'[t] = queue[t]]_vars
  BY NextDisciplined DEF Disciplined, Final
<1> QED
  BY <1>1, Inductive, PTL DEF Spec, VerdictIsFinal

-----------------------------------------------------------------------------
(* The contract *)

Promised == [Contract!Next]_(Contract!contract)

-----------------------------------------------------------------------------
(* The mapping *)

LEMMA NobodyStarts == Starter({}) = 0
BY DEF Starter

LEMMA OnlyStarter == ASSUME NEW a PROVE Starter({a}) = a
<1>1. (CHOOSE b \in {a} : TRUE) \in {a}
  OBVIOUS
<1> QED
  BY <1>1 DEF Starter

(* What the owner of a task sees depends on the row and on the operations  *)
(* started, on nothing else.                                               *)
LEMMA SameStarts == UNCHANGED effects => UNCHANGED StartedBy
BY DEF StartedBy

LEMMA FramePromised == UNCHANGED <<queue, attempts, effects>> => Promised
BY SameStarts DEF Promised, Contract!contract

-----------------------------------------------------------------------------
(* The kinds of steps *)

(* A row is closed as waiting before the operation started, as completed   *)
(* after the last lease started it, and given up on otherwise.             *)
LEMMA ClosePromised ==
  ASSUME IInv, NEW t \in Tasks, queue[t] = "LEASED",
         NEW status \in Verdict \cup {"WAITING_APPROVAL"}, CloseRow(t, status),
         status \in {"WAITING_APPROVAL", "COMPLETED"} => state[t] = status,
         UNCHANGED effects
  PROVE  Promised
<1>1. TaskInv(t) /\ UNCHANGED <<attempts, StartedBy>>
  BY SameStarts DEF IInv, LeaseInv, CloseRow
<1>2. Contract!MovePhase(t, "LEASED", status)
  BY DEF Contract!MovePhase, CloseRow
<1>3. CASE status = "WAITING_APPROVAL"
  <2>1. StartedBy[t] = 0
    BY <1>1, <1>3, NobodyStarts DEF TaskInv, Untouched, StartedBy
  <2>2. Contract!AwaitApproval(t)
    BY <1>1, <1>2, <1>3, <2>1 DEF Contract!AwaitApproval
  <2> QED
    BY <2>2 DEF Promised, Contract!Next
<1>4. CASE status = "COMPLETED"
  <2>1. effects[t] = {attempts[t]}
    BY <1>1, <1>4 DEF TaskInv
  <2>2. StartedBy[t] = attempts[t]
    BY <2>1, OnlyStarter DEF StartedBy
  <2>3. Contract!Succeed(t)
    BY <1>1, <1>2, <1>4, <2>2 DEF Contract!Succeed
  <2> QED
    BY <2>3 DEF Promised, Contract!Next
<1>5. CASE status \in {"FAILED", "BLOCKED", "EXECUTION_UNKNOWN"}
  <2>1. Contract!GiveUp(t)
    BY <1>1, <1>2, <1>5 DEF Contract!GiveUp
  <2> QED
    BY <2>1 DEF Promised, Contract!Next
<1> QED
  BY <1>3, <1>4, <1>5 DEF Verdict, Terminal

LEMMA FencePromised ==
  ASSUME IInv, NEW t \in Tasks, queue[t] = "LEASED",
         CloseRow(t, Fenced(state[t])), UNCHANGED effects
  PROVE  Promised
<1>1. Fenced(state[t]) \in Verdict \cup {"WAITING_APPROVAL"}
  BY DEF Fenced, Kept, Verdict
<1>2. Fenced(state[t]) \in {"WAITING_APPROVAL", "COMPLETED"} => state[t] = Fenced(state[t])
  BY DEF Fenced
<1> QED
  BY <1>1, <1>2, ClosePromised

(* Claims are only granted for rows that are still to be run.              *)
LEMMA ClaimPromised ==
  ASSUME IInv, NEW w \in Workers, NEW t \in Tasks, Claim(w, t) PROVE Promised
<1>1. queue[t] = "QUEUED" /\ attempts[t] < MaxAttempts /\ UNCHANGED effects
  BY DEF Claim, Claimable
<1>2. ClaimOutcome(state[t]) = "LEASED"
  BY <1>1 DEF ClaimOutcome, IInv, LeaseInv, TaskInv, Verdict, Terminal
<1>3. /\ queue' = [queue EXCEPT ![t] = "LEASED"]
      /\ attempts' = [attempts EXCEPT ![t] = attempts[t] + 1]
  BY <1>2 DEF Claim
<1>4. Contract!HandOut(t)
  BY <1>1, <1>3, SameStarts DEF Contract!HandOut, Contract!MovePhase
<1> QED
  BY <1>4 DEF Promised, Contract!Next

(* The operation starts under the latest lease, for the first time or not  *)
(* at all, while the row is leased or after its worker was given up.       *)
LEMMA InvokePromised == ASSUME IInv, NEW w \in Workers, Invoke(w) PROVE Promised
<1> DEFINE t == job[w]
<1>1. t \in Tasks /\ pc[w] = "invoking" /\ TaskInv(t)
  BY DEF Invoke, IInv, LeaseInv, Typed, ClaimShape, Busy, AtBoundary
<1>2. token[w] = attempts[t] /\ queue[t] \in {"LEASED", "EXECUTION_UNKNOWN"}
  BY <1>1 DEF IInv, LeaseInv, WorkerInv, Owns
<1>3. /\ effects' = [effects EXCEPT ![t] = @ \cup {attempts[t]}]
      /\ UNCHANGED <<queue, attempts>>
  BY <1>2 DEF Invoke, rowVars
<1>4. effects[t] \subseteq {attempts[t]} /\ effects \in [Tasks -> SUBSET (1..MaxAttempts)]
  BY <1>1 DEF TaskInv, IInv, Typed, TypeOK
<1> HIDE DEF t
<1>5. CASE effects[t] = {}
  <2>1. effects'[t] = {attempts[t]} /\ \A u \in Tasks : u # t => effects'[u] = effects[u]
    BY <1>1, <1>3, <1>4, <1>5
  <2>2. StartedBy' = [StartedBy EXCEPT ![t] = attempts[t]]
    BY <1>1, <2>1, OnlyStarter DEF StartedBy
  <2>3. Contract!Start(t)
    <3>1. StartedBy[t] = 0
      BY <1>1, <1>5, NobodyStarts DEF StartedBy
    <3> QED
      BY <1>2, <1>3, <2>2, <3>1 DEF Contract!Start
  <2> QED
    BY <1>1, <2>3 DEF Promised, Contract!Next
<1>6. CASE effects[t] # {}
  <2>1. UNCHANGED effects
    BY <1>1, <1>3, <1>4, <1>6
  <2> QED
    BY <1>3, <2>1, FramePromised
<1> QED
  BY <1>5, <1>6

-----------------------------------------------------------------------------
(* Every step *)

LEMMA EnvironmentPromised == IInv /\ Environment => Promised
<1> SUFFICES ASSUME IInv, NEW t \in Tasks,
                    Create(t) \/ Decide(t) \/ Requeue(t) \/ TimePasses(t)
             PROVE  Promised
  BY DEF Environment
<1>1. CASE Create(t)
  <2>1. Contract!Submit(t)
    BY <1>1, SameStarts DEF Create, Contract!Submit, Contract!MovePhase
  <2> QED
    BY <2>1 DEF Promised, Contract!Next
<1>2. CASE Requeue(t)
  <2>1. Contract!Approved(t)
    BY <1>2, SameStarts DEF Requeue, Contract!Approved, Contract!MovePhase
  <2> QED
    BY <2>1 DEF Promised, Contract!Next
<1>3. CASE Decide(t) \/ TimePasses(t)
  BY <1>3, FramePromised DEF Decide, TimePasses, rowVars
<1> QED
  BY <1>1, <1>2, <1>3

LEMMA PollPromised == ASSUME IInv, NEW w \in Workers, Poll(w) PROVE Promised
<1> PICK t \in Tasks : RecoverExpired(w, t) \/ RecoveryRaises(w, t) \/ Claim(w, t)
  BY DEF Poll
<1>1. CASE RecoverExpired(w, t)
  BY <1>1, FencePromised DEF RecoverExpired, Expired, runVars
<1>2. CASE RecoveryRaises(w, t)
  BY <1>2, FramePromised DEF RecoveryRaises, rowVars, runVars
<1>3. CASE Claim(w, t)
  BY <1>3, ClaimPromised
<1> QED
  BY <1>1, <1>2, <1>3

(* Checkpoints are not seen from outside; only the operation is.           *)
LEMMA RunPromised == ASSUME IInv, NEW w \in Workers, Run(w) PROVE Promised
<1>1. CASE Invoke(w)
  BY <1>1, InvokePromised
<1>2. CASE ~Invoke(w)
  <2>1. UNCHANGED <<rowVars, effects>>
    BY <1>2 DEF Run, StartFresh, StartResume, Plan, PreflightAllows, PreflightAsks,
                PreflightBlocks, BeginStep, Boundary, Observe, StepVerified, StepFailed,
                Replan, Complete, Abort, DetectLoss, Checkpoint
  <2> QED
    BY <2>1, FramePromised DEF rowVars
<1> QED
  BY <1>1, <1>2

LEMMA EndPromised == ASSUME IInv, NEW w \in Workers, End(w) PROVE Promised
<1> DEFINE t == job[w]
<1>1. WorkerInv(w) /\ (Owns(w) => t \in Tasks /\ queue[t] = "LEASED")
  BY OwnsTask DEF IInv, LeaseInv, Owns
<1>2. CASE ReadOutcome(w) \/ HandleFailure(w) \/ FinishRefused(w)
  BY <1>2, FramePromised DEF ReadOutcome, HandleFailure, FinishRefused, rowVars
<1>3. CASE Finish(w)
  <2>1. Owns(w) /\ state[t] = out[w] /\ CloseRow(t, out[w]) /\ UNCHANGED effects
    BY <1>1, <1>3 DEF Finish, Valid, WorkerInv, Believed
  <2>2. out[w] \in Verdict \cup {"WAITING_APPROVAL"}
    BY DEF IInv, Typed, TypeOK
  <2> HIDE DEF t
  <2> QED
    BY <1>1, <2>1, <2>2, ClosePromised
<1>4. CASE FinishFailed(w)
  <2>1. Owns(w) /\ out[w] \in {"EXECUTION_UNKNOWN", "FAILED"} /\ UNCHANGED effects
    BY <1>1, <1>4 DEF FinishFailed, Valid, WorkerInv
  <2>2. CASE CloseRow(t, out[w])
    <3>1. /\ out[w] \in Verdict \cup {"WAITING_APPROVAL"}
          /\ out[w] \notin {"WAITING_APPROVAL", "COMPLETED"}
      BY <2>1 DEF Verdict, Terminal
    <3> HIDE DEF t
    <3> QED
      BY <1>1, <2>1, <2>2, <3>1, ClosePromised
  <2>3. CASE UNCHANGED rowVars
    BY <2>1, <2>3, FramePromised DEF rowVars
  <2> QED
    BY <1>4, <2>2, <2>3 DEF FinishFailed
<1>5. CASE Fence(w)
  <2>1. CASE Owns(w) /\ CanFence(state[t])
    BY <1>1, <1>5, <2>1, FencePromised DEF Fence
  <2>2. CASE ~(Owns(w) /\ CanFence(state[t]))
    BY <1>5, <2>2, FramePromised DEF Fence, rowVars
  <2> QED
    BY <2>1, <2>2
<1> QED
  BY <1>2, <1>3, <1>4, <1>5 DEF End

LEMMA ThreadsPromised ==
  ASSUME IInv, NEW w \in Workers,
         OperationReturns(w) \/ Renew(w) \/ Watchdog(w) \/ Fault(w) \/ Restart(w)
  PROVE  Promised
<1>1. CASE Watchdog(w)
  <2>1. CASE Owns(w) /\ CanFence(state[job[w]])
    <3>1. job[w] \in Tasks /\ queue[job[w]] = "LEASED"
      BY <2>1, OwnsTask DEF IInv, Owns
    <3> QED
      BY <1>1, <2>1, <3>1, FencePromised DEF Watchdog
  <2>2. CASE ~(Owns(w) /\ CanFence(state[job[w]]))
    BY <1>1, <2>2, FramePromised DEF Watchdog, rowVars
  <2> QED
    BY <2>1, <2>2
<1>2. CASE OperationReturns(w) \/ Renew(w) \/ Fault(w) \/ Restart(w)
  <2>1. UNCHANGED <<queue, attempts, effects>>
    BY <1>2 DEF OperationReturns, Renew, Fault, RenewalFails, Raise, Crash, Restart, rowVars
  <2> QED
    BY <2>1, FramePromised
<1> QED
  BY <1>1, <1>2

LEMMA NextPromised == IInv /\ [Next]_vars => Promised
<1> SUFFICES ASSUME IInv, [Next]_vars PROVE Promised
  OBVIOUS
<1>1. CASE UNCHANGED vars
  BY <1>1, FramePromised DEF vars, rowVars
<1>2. CASE Environment
  BY <1>2, EnvironmentPromised
<1>3. ASSUME NEW w \in Workers,
             Poll(w) \/ Run(w) \/ OperationReturns(w) \/ End(w)
             \/ Renew(w) \/ Watchdog(w) \/ Fault(w) \/ Restart(w)
      PROVE  Promised
  BY <1>3, PollPromised, RunPromised, EndPromised, ThreadsPromised
<1> QED
  BY <1>1, <1>2, <1>3 DEF Next

-----------------------------------------------------------------------------
(* The refinement *)

(* Whatever crashes, stalls or expires, the owner of a task sees what      *)
(* TaskContract promises: bounded hand-outs, one start, a wait only before *)
(* it, success only after it, and outcomes that stand.                     *)
THEOREM ContractImplemented == Spec => ImplementsContract
<1>1. Init => Contract!Init
  <2>1. Init => StartedBy = [t \in Tasks |-> 0]
    BY NobodyStarts DEF Init, StartedBy
  <2> QED
    BY <2>1 DEF Init, Contract!Init
<1>2. IInv /\ [Next]_vars => [Contract!Next]_(Contract!contract)
  BY NextPromised DEF Promised
<1> QED
  BY <1>1, <1>2, Inductive, PTL DEF Spec, ImplementsContract, Contract!Spec
=============================================================================
