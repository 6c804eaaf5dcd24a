--------------------------- MODULE TaskRunProofs ----------------------------
(***************************************************************************)
(* Proofs about TaskRun, for any steps, tools, proposed plans and bounds:  *)
(* RunInv is inductive, and the safety properties follow from it.          *)
(***************************************************************************)
EXTENDS TaskRun, WellFoundedInduction, TLAPS

-----------------------------------------------------------------------------
(* The inductive invariant *)

Executing == {"boundary", "running", "returned"}
InRound == Executing \cup {"stepping", "observing", "verified", "recovering"}
Planless == {"idle", "created", "planning", "reloaded"}
Over == {"ending", "learning"}

(* The action of the step under way.                                       *)
Here == <<task.version, Current>>

(* The status a run has saved when it is at a point of the code.           *)
PointInv ==
  /\ At("created") => task.status = "CREATED"
  /\ At("planning") => task.status = "PLANNING"
  /\ run.pc \in {"planned", "round", "stepping"} => task.status = "READY"
  /\ At("blocked") => task.status \in {"WAITING_APPROVAL", "BLOCKED"}
  /\ run.pc \in Executing => task.status = "EXECUTING"
  /\ At("observing") => task.status = "OBSERVING" \/ (task.status = "READY" /\ entry.resumed)
  /\ At("verified") => task.status = "VERIFYING"
  /\ At("recovering") => task.status = IF entry.resumed THEN "FAILED" ELSE "READY"
  /\ At("ending") => task.status = "READY" \/ (task.status = "FAILED" /\ entry.resumed)
  /\ At("learning") => task.status \in {"COMPLETED", "FAILED"}
  /\ At("reloaded") =>
       /\ task.status \in {"CREATED", "QUEUED", "PLANNING", "READY", "WAITING_APPROVAL"}
       /\ entry.resumed

(* What is saved passes validate; a run has a plan from planning on.       *)
PlanInv ==
  /\ Consistent(task)
  /\ run.pc \in {"created", "planning"} =>
       task.plan = NoPlan /\ task.version = 0 /\ task.done = {} /\ ~entry.resumed
  /\ run.pc \notin Planless => task.plan # NoPlan

(* What is recorded of an action is what happened to it; it is on record   *)
(* as EXECUTING until its result is saved, and nothing else is meanwhile.  *)
ActionInv(k) ==
  /\ k \in task.done =>
       task.rec[k] = [st |-> "VERIFIED", out |-> "success"] /\ ran[k] = "verified"
  /\ ran[k] = "verified" => k \in task.done
  /\ ran[k] = "doubt" => task.rec[k].st = "EXECUTING"
  /\ ran[k] = "result" => task.rec[k].st = "OBSERVING"
  /\ task.rec[k].st = "OBSERVING" => task.rec[k].out \in Outcomes
  /\ task.rec[k].st = "EXECUTING" =>
       \/ run.pc \in Executing /\ k = Here
       \/ At("idle") /\ task.status \in {"EXECUTING", "EXECUTION_UNKNOWN", "BLOCKED"}
  /\ task.rec[k].st = "OBSERVING" /\ ~entry.resumed =>
       At("idle") \/ (run.pc \in {"observing", "verified"} /\ k = Here)

(* Within a round the steps left are those that are not completed, and a   *)
(* result is a success only of a completed step or of the one under way.   *)
RoundInv ==
  run.pc \in InRound =>
    /\ run.queue \subseteq Members(task.plan)
    /\ \A s \in Members(task.plan) : s \in run.queue <=> <<task.version, s>> \notin task.done
    /\ ~At("stepping") => run.queue # {}
    /\ \A d \in Steps : run.prev[d] = "success" =>
         \/ <<task.version, d>> \in task.done
         \/ run.pc \in {"observing", "verified", "recovering"} /\ d = Current

(* How far the step under way has come.                                    *)
StepInv ==
  /\ run.pc \in Executing => task.rec[Here].st = "EXECUTING"
  /\ At("boundary") => ran[Here] \in {"never", "failed"}
  /\ At("running") => ran[Here] = "doubt"
  /\ run.pc \in {"returned", "observing"} => run.out \in Outcomes
  /\ At("returned") /\ run.out = "success" => ran[Here] = "doubt"
  /\ At("verified") \/ (At("observing") /\ task.status = "OBSERVING") =>
       /\ task.rec[Here] = [st |-> "OBSERVING", out |-> run.out]
       /\ run.out = "success" => ran[Here] = "result"
  /\ At("verified") =>
       /\ run.latest[Current] = run.verdict
       /\ run.verdict \in Verdicts
       /\ run.verdict = "VERIFIED" => run.out = "success"
  /\ At("recovering") => run.latest[Current] \in Verdicts \ {"VERIFIED"}

EndInv ==
  /\ At("ending") /\ AllVerified =>
       task.status = "READY" /\ KeysOf(task.version, task.plan) \subseteq task.done
  /\ At("learning") => (task.status = "COMPLETED" <=> run.term = "COMPLETED")
  /\ task.status = "COMPLETED" =>
       run.pc \in {"idle", "learning"} /\ KeysOf(task.version, task.plan) \subseteq task.done
  /\ SummaryAgrees
  /\ FirstRunNeverRaises

(* Every attempt but the last led to a new plan version, which a first run *)
(* counts in step.  Without a provider a change of the tool leaves every   *)
(* tool tried before behind, and a change of the input every larger limit. *)
TriesInv ==
  /\ run.pc \in Planless \cup {"planned", "blocked"} => run.tries = <<>>
  /\ run.pc \notin Over =>
       /\ Len(run.tries) <= MaxRecovery
       /\ \A i \in DOMAIN run.tries : run.tries[i].strategy # "ABORT"
       /\ ~entry.resumed /\ run.pc \notin Planless => task.version = Len(run.tries) + 1
  /\ NoExactRepeat
  /\ ~provider /\ run.pc \notin Over =>
       \A i \in DOMAIN run.tries :
         /\ run.tries[i].strategy = "CHANGE_TOOL" =>
              run.tries[i].tool # task.plan.tool[run.tries[i].step]
         /\ run.tries[i].strategy = "RETRY_WITH_MODIFIED_INPUT" =>
              run.tries[i].limit > task.plan.limit[run.tries[i].step]

RunInv ==
  /\ TypeOK
  /\ PointInv
  /\ PlanInv
  /\ \A k \in Keys : ActionInv(k)
  /\ RoundInv
  /\ StepInv
  /\ EndInv
  /\ TriesInv

-----------------------------------------------------------------------------
(* Facts about the operators of the model *)

(* Every set of numbers has a least one.                                   *)
LEMMA LeastNat ==
  ASSUME NEW H, H \subseteq Nat, H # {}
  PROVE  \E i \in H : \A j \in H : i <= j
<1> DEFINE R == OpToRel(<, Nat)
<1>1. IsWellFoundedOn(R, Nat)
  BY NatLessThanWellFounded
<1>2. \A i, j \in Nat : <<j, i>> \in R <=> j < i
  BY DEF OpToRel
<1> HIDE DEF R
<1>3. PICK i \in H : \A j \in H : ~(<<j, i>> \in R)
  BY <1>1, WFMin
<1>4. i \in Nat
  BY <1>3
<1>5. ASSUME NEW j \in H PROVE i <= j
  <2>1. j \in Nat /\ ~(<<j, i>> \in R)
    BY <1>3
  <2>2. ~(j < i)
    BY <1>2, <1>4, <2>1
  <2> QED
    BY <2>1, <2>2, <1>4
<1> QED
  BY <1>5

(* The earliest element is an element, of the sequence and of the set.     *)
LEMMA EarliestIsIn ==
  ASSUME NEW T, NEW seq \in Seq(T), NEW S, \E i \in DOMAIN seq : seq[i] \in S
  PROVE  Earliest(seq, S) \in S \cap T
<1> DEFINE Hits == {i \in DOMAIN seq : seq[i] \in S}
           C == CHOOSE i \in DOMAIN seq : seq[i] \in S /\ \A j \in 1 .. i - 1 : seq[j] \notin S
<1>1. DOMAIN seq = 1..Len(seq) /\ Len(seq) \in Nat
  OBVIOUS
<1>2. Hits \subseteq Nat /\ Hits # {}
  BY <1>1
<1> HIDE DEF Hits
<1>3. PICK i \in Hits : \A j \in Hits : i <= j
  BY <1>2, LeastNat
<1>5. \A j \in 1 .. i-1 : j \notin Hits
  BY <1>3, <1>2
<1>4. i \in DOMAIN seq /\ seq[i] \in S /\ \A j \in 1 .. i - 1 : seq[j] \notin S
  BY <1>1, <1>3, <1>5, <1>2 DEF Hits
<1>6. C \in DOMAIN seq /\ seq[C] \in S
  BY <1>4
<1>7. Earliest(seq, S) = seq[C]
  BY DEF Earliest
<1> QED
  BY <1>6, <1>7

LEMMA VersionsAndKeys == /\ Versions \subseteq Nat \ {0}
                         /\ \A v \in Versions, s \in Steps : <<v, s>> \in Keys
                         /\ \A k \in Keys : k = <<k[1], k[2]>> /\ k[1] \in Versions /\ k[2] \in Steps
BY SomeRecovery DEF Versions, Keys

LEMMA MembersAreSteps == ASSUME NEW p \in Proposals PROVE Members(p) \subseteq Steps
BY DEF Proposals, Members

(* What mark_action leaves alone, and what it changes.                     *)
LEMMA MarkFields ==
  ASSUME NEW t \in Tasks, NEW s \in Steps, t.version \in Versions, NEW st \in ActionStatus
  PROVE  LET k == <<t.version, s>>
             m == Mark(t, s, st)
         IN  /\ m \in Tasks
             /\ m.status = t.status /\ m.version = t.version /\ m.plan = t.plan
             /\ m.count = t.count /\ m.verified = t.verified
             /\ m.done = IF st = "VERIFIED" THEN t.done \cup {k} ELSE t.done
             /\ m.todo = t.todo \ m.done
             /\ m.rec[k] = [st |-> st, out |-> t.rec[k].out]
             /\ \A j \in Keys \ {k} : m.rec[j] = t.rec[j]
<1> DEFINE k == <<t.version, s>>
           done == IF st = "VERIFIED" THEN t.done \cup {k} ELSE t.done
           rec == [t.rec EXCEPT ![k].st = st]
           m == Mark(t, s, st)
<1>1. k \in Keys /\ done \subseteq Keys
  BY VersionsAndKeys DEF Tasks
<1>2. /\ rec \in [Keys -> [st : ActionStatus, out : Outcomes \cup {"none"}]]
      /\ rec[k] = [st |-> st, out |-> t.rec[k].out]
      /\ \A j \in Keys \ {k} : rec[j] = t.rec[j]
  <2>1. t.rec \in [Keys -> [st : ActionStatus, out : Outcomes \cup {"none"}]]
    BY DEF Tasks
  <2> HIDE DEF k
  <2> QED
    BY <1>1, <2>1
<1>3. m = [t EXCEPT !.rec = rec, !.done = done, !.todo = t.todo \ done]
  BY DEF Mark, Tasks
<1> HIDE DEF rec, done, k
<1>4. /\ m.status = t.status /\ m.version = t.version /\ m.plan = t.plan
      /\ m.count = t.count /\ m.verified = t.verified
      /\ m.done = done /\ m.todo = t.todo \ done /\ m.rec = rec
  BY <1>3 DEF Tasks
<1>5. m \in Tasks
  BY <1>1, <1>2, <1>3 DEF Tasks
<1> QED
  BY <1>2, <1>4, <1>5 DEF done, k

LEMMA SetPlanFields ==
  ASSUME NEW t \in Tasks, NEW p \in Proposals, NEW v \in Versions
  PROVE  LET m == SetPlan(t, p, v)
         IN  /\ m \in Tasks
             /\ m.version = v /\ m.plan = p /\ m.todo = KeysOf(v, p) \ t.done
             /\ m.status = t.status /\ m.done = t.done /\ m.count = t.count
             /\ m.verified = t.verified /\ m.rec = t.rec
<1>1. KeysOf(v, p) \subseteq Keys
  BY VersionsAndKeys, MembersAreSteps DEF KeysOf
<1>2. v \in 0 .. MaxRecovery + 1 /\ KeysOf(v, p) \ t.done \in SUBSET Keys
  BY <1>1, SomeRecovery DEF Versions
<1> QED
  BY <1>2 DEF SetPlan, Tasks

LEMMA NoRunFields ==
  /\ NoRun \in Runs
  /\ NoRun.pc = "idle" /\ NoRun.tries = <<>> /\ NoRun.queue = {}
  /\ \A s \in Steps : NoRun.prev[s] = "absent" /\ NoRun.latest[s] = "none"
BY DEF NoRun, Runs, PC, Endings, Outcomes, Verdicts

(* A checkpoint saves, or raises and leaves the durable state alone.       *)
LEMMA SavesOrRaises ==
  ASSUME NEW t, NEW status, NEW r, Checkpoint(t, status, r)
  PROVE  LET next == [t EXCEPT !.status = status]
         IN  \/ /\ CanMove(task.status, status) /\ Consistent(next)
                /\ task' = next /\ summary' = Row(status)
                /\ run' = r /\ exit' \in {"returned", "running"}
             \/ /\ ~(CanMove(task.status, status) /\ Consistent(next))
                /\ task' = task /\ summary' = summary
                /\ run' = NoRun /\ exit' = "raised"
BY DEF Checkpoint, Goto

LEMMA RowTyped ==
  ASSUME NEW status
  PROVE  /\ Row(status) \in {"open", "completed", "failed", "blocked", "aborted"}
         /\ Row(status) = "completed" <=> status = "COMPLETED"
BY DEF Row

(* The step a round is at is one of the plan, and not completed yet.       *)
LEMMA CurrentStep ==
  ASSUME RunInv, run.pc \in InRound, run.queue # {}
  PROVE  /\ task.plan \in Proposals /\ task.version \in Versions
         /\ Current \in run.queue /\ Current \in Steps /\ Current \in Members(task.plan)
         /\ Here \in Keys /\ Here \notin task.done
<1>1. task.plan \in Proposals /\ task.version \in Versions
  BY VersionsAndKeys DEF RunInv, TypeOK, PlanInv, Consistent, Tasks, InRound, Executing,
     Planless, Versions
<1>2. task.plan.order \in Seq(Steps) /\ run.queue \subseteq Members(task.plan)
  BY <1>1 DEF RunInv, RoundInv, Proposals
<1>3. \E i \in DOMAIN task.plan.order : task.plan.order[i] \in run.queue
  BY <1>2 DEF Members
<1>4. Current \in run.queue \cap Steps
  BY <1>2, <1>3, EarliestIsIn DEF Current
<1> QED
  BY <1>1, <1>2, <1>4, VersionsAndKeys DEF RunInv, RoundInv, Here

-----------------------------------------------------------------------------
(* The beginning and the end of a run *)

LEMMA InitRunInv == Init => RunInv
<1> SUFFICES ASSUME Init PROVE RunInv
  OBVIOUS
<1> USE NoRunFields DEF Init, At
<1>r. /\ run \in Runs /\ run.pc = "created" /\ run.tries = <<>>
  <2>1. NoRun.pc = "idle" /\ MaxRecovery + 1 \in Nat /\ "created" \in PC
    BY SomeRecovery DEF PC
  <2> QED
    BY <2>1 DEF Runs
<1>t. task \in Tasks
  BY SomeRecovery DEF Tasks, Status, ActionStatus
<1>1. TypeOK
  BY <1>r, <1>t, SomeRecovery, SomeBounds DEF TypeOK
<1>2. PointInv
  BY <1>r DEF PointInv, Executing
<1>3. PlanInv
  <2>1. /\ task.plan = NoPlan /\ task.version = 0 /\ task.done = {}
        /\ task.status = "CREATED" /\ entry.resumed = FALSE
    OBVIOUS
  <2> QED
    BY <1>r, <2>1 DEF PlanInv, Consistent, Planless
<1>4. \A k \in Keys : ActionInv(k)
  BY <1>r DEF ActionInv
<1>5. RoundInv /\ StepInv
  BY <1>r DEF RoundInv, StepInv, InRound, Executing
<1>6. EndInv
  BY <1>r DEF EndInv, SummaryAgrees, FirstRunNeverRaises
<1>7. TriesInv
  BY <1>r, SomeRecovery DEF TriesInv, Over, Planless, NoExactRepeat
<1> QED
  BY <1>1, <1>2, <1>3, <1>4, <1>5, <1>6, <1>7 DEF RunInv

(* A run is over: at most the status of the task was saved once more.      *)
LEMMA Stopping ==
  ASSUME RunInv, run' = NoRun, provider' = provider, ran' = ran,
         resumes' \in 0 .. MaxResumes, entry' \in [resumed : BOOLEAN, clean : BOOLEAN],
         exit' \in {"returned", "rejected", "raised", "crashed"},
         exit' = "raised" => entry'.resumed,
         NEW st \in Status, task' = [task EXCEPT !.status = st],
         Consistent(task'),
         \/ st = task.status
         \/ st \in {"EXECUTION_UNKNOWN", "BLOCKED"}
         \/ st # "COMPLETED" /\ \A k \in Keys : task.rec[k].st # "EXECUTING",
         summary' \in {"open", "completed", "failed", "blocked", "aborted"},
         summary' = "completed" <=> st = "COMPLETED"
  PROVE  RunInv'
<1> USE NoRunFields DEF At
<1>t. /\ task' \in Tasks /\ task'.status = st /\ task'.rec = task.rec
      /\ task'.done = task.done /\ task'.version = task.version /\ task'.plan = task.plan
  BY DEF RunInv, TypeOK, Tasks
<1>1. TypeOK'
  BY <1>t, SomeRecovery DEF RunInv, TypeOK
<1>2. PointInv'
  BY DEF PointInv, Executing
<1>3. PlanInv'
  BY DEF PlanInv, Planless, Consistent
<1>4. ASSUME NEW k \in Keys PROVE ActionInv(k)'
  <2>1. ActionInv(k) /\ PointInv
    BY DEF RunInv
  <2> QED
    BY <1>t, <2>1 DEF ActionInv, PointInv
<1>5. RoundInv' /\ StepInv'
  BY DEF RoundInv, StepInv, InRound, Executing
<1>6. EndInv'
  BY <1>t DEF RunInv, EndInv, SummaryAgrees, FirstRunNeverRaises, KeysOf
<1>7. TriesInv'
  BY SomeRecovery DEF TriesInv, Over, Planless, NoExactRepeat
<1> QED
  BY <1>1, <1>2, <1>3, <1>4, <1>5, <1>6, <1>7 DEF RunInv

LEMMA StoppingUnsaved ==
  ASSUME RunInv, run' = NoRun, task' = task, provider' = provider, ran' = ran,
         resumes' \in 0 .. MaxResumes, entry' \in [resumed : BOOLEAN, clean : BOOLEAN],
         exit' \in {"returned", "rejected", "raised", "crashed"},
         exit' = "raised" => entry'.resumed,
         summary' \in {"open", "completed", "failed", "blocked", "aborted"},
         summary' = "completed" <=> task.status = "COMPLETED"
  PROVE  RunInv'
<1>1. task' = [task EXCEPT !.status = task.status] /\ task.status \in Status
  BY DEF RunInv, TypeOK, Tasks
<1>2. Consistent(task')
  BY DEF RunInv, PlanInv
<1> QED
  BY <1>1, <1>2, Stopping

LEMMA StoppedKeep ==
  RunInv /\ (PlanRejected \/ ReportBlocked \/ Archive \/ Crash) => RunInv'
<1> SUFFICES ASSUME RunInv, PlanRejected \/ ReportBlocked \/ Archive \/ Crash PROVE RunInv'
  OBVIOUS
<1> USE DEF RunInv, TypeOK, SummaryAgrees, EndInv, At
<1>1. CASE PlanRejected
  BY <1>1, StoppingUnsaved DEF PlanRejected
<1>2. CASE ReportBlocked
  BY <1>2, StoppingUnsaved DEF ReportBlocked, Goto, PointInv
<1>3. CASE Archive
  BY <1>3, StoppingUnsaved DEF Archive, Goto
<1>4. CASE Crash
  BY <1>4, StoppingUnsaved DEF Crash
<1> QED
  BY <1>1, <1>2, <1>3, <1>4

LEMMA Raising ==
  ASSUME RunInv, run' = NoRun, exit' = "raised", task' = task, summary' = summary,
         provider' = provider, ran' = ran, resumes' \in 0 .. MaxResumes,
         entry' \in [resumed : BOOLEAN, clean : BOOLEAN], entry'.resumed
  PROVE  RunInv'
BY StoppingUnsaved DEF RunInv, TypeOK, EndInv, SummaryAgrees

(* A checkpoint of a resumed task that leaves the plan as it is.           *)
LEMMA StoppingSaved ==
  ASSUME RunInv, provider' = provider, ran' = ran,
         resumes' \in 0 .. MaxResumes, entry' \in [resumed : BOOLEAN, clean : BOOLEAN],
         entry'.resumed,
         NEW st \in Status \ {"COMPLETED"}, Checkpoint(task, st, NoRun),
         st \in {"EXECUTION_UNKNOWN", "BLOCKED"}
           \/ \A k \in Keys : task.rec[k].st # "EXECUTING"
  PROVE  RunInv'
<1> DEFINE next == [task EXCEPT !.status = st]
<1>1. CASE /\ Consistent(next) /\ task' = next /\ summary' = Row(st)
           /\ run' = NoRun /\ exit' \in {"returned", "running"}
  <2>1. exit' = "returned"
    BY <1>1 DEF Checkpoint, Goto
  <2> QED
    BY <1>1, <2>1, RowTyped, Stopping
<1>2. CASE /\ task' = task /\ summary' = summary
           /\ run' = NoRun /\ exit' = "raised"
  BY <1>2, Raising
<1> QED
  BY <1>1, <1>2, SavesOrRaises

LEMMA ResumesThatStopKeep ==
  RunInv /\ (ResumeUncertain \/ ResolutionRefused \/ ResumeWithoutPlan \/ ResumeBlocked)
    => RunInv'
<1> SUFFICES ASSUME RunInv, ResumeUncertain \/ ResolutionRefused \/ ResumeWithoutPlan
                              \/ ResumeBlocked
             PROVE  RunInv'
  OBVIOUS
<1> USE DEF Status
<1>e. Entering => resumes' \in 0 .. MaxResumes
  BY SomeBounds DEF RunInv, TypeOK, Entering
<1>r. At("reloaded") => \A k \in Keys : task.rec[k].st # "EXECUTING"
  BY DEF RunInv, ActionInv, At, Executing
<1>s. Spoiled /\ At("reloaded") => /\ entry' \in [resumed : BOOLEAN, clean : BOOLEAN]
                                  /\ entry'.resumed
  BY DEF RunInv, TypeOK, PointInv, Spoiled
<1>1. CASE ResumeUncertain
  BY <1>1, <1>e, StoppingSaved DEF ResumeUncertain
<1>2. CASE ResolutionRefused
  BY <1>2, <1>e, StoppingSaved DEF ResolutionRefused
<1>3. CASE ResumeWithoutPlan
  BY <1>3, <1>s, StoppingSaved DEF ResumeWithoutPlan, RunInv, TypeOK
<1>4. CASE ResumeBlocked
  BY <1>4, <1>r, <1>s, StoppingSaved DEF ResumeBlocked, RunInv, TypeOK
<1> QED
  BY <1>1, <1>2, <1>3, <1>4

-----------------------------------------------------------------------------
(* Steps of a run that save nothing *)

LEMMA StartRoundKeeps == RunInv /\ StartRound => RunInv'
<1> SUFFICES ASSUME RunInv, StartRound PROVE RunInv'
  OBVIOUS
<1> DEFINE queue == Pending(task)
<1> USE DEF StartRound, At
<1>0. /\ UNCHANGED <<provider, task, summary, resumes, ran, entry>>
      /\ exit' \in {"returned", "running"}
  BY DEF Goto
<1>k. KnownOutcomes \in [Steps -> Verdicts \cup {"none"}]
  BY DEF KnownOutcomes, Verdicts
<1>p. /\ task.plan \in Proposals /\ queue \subseteq Members(task.plan) /\ queue \subseteq Steps
  BY MembersAreSteps DEF RunInv, TypeOK, PlanInv, Planless, Tasks, Pending
<1>r. /\ run' \in Runs
      /\ run'.pc = (IF queue = {} THEN "ending" ELSE "stepping")
      /\ run'.queue = queue /\ run'.tries = run.tries
      /\ \A s \in Steps : run'.prev[s] = "absent"
  <2>1. run \in Runs /\ run.round + 1 \in Nat
    BY DEF RunInv, TypeOK, Runs
  <2>2. /\ NoRun.prev \in [Steps -> Outcomes \cup {"absent"}]
        /\ "COMPLETED" \in Endings /\ {"ending", "stepping"} \subseteq PC
    BY NoRunFields DEF Runs, PC, Endings
  <2>3. run' = [run EXCEPT !.round = @ + 1, !.latest = KnownOutcomes, !.prev = NoRun.prev,
                           !.queue = queue,
                           !.term = IF queue = {} THEN "COMPLETED" ELSE @,
                           !.pc = IF queue = {} THEN "ending" ELSE "stepping"]
    BY DEF Goto
  <2> HIDE DEF queue
  <2> QED
    BY <1>k, <1>p, <2>1, <2>2, <2>3, NoRunFields DEF Runs
<1>1. TypeOK'
  BY <1>0, <1>r DEF RunInv, TypeOK
<1>2. PointInv'
  BY <1>0, <1>r DEF RunInv, PointInv, Executing
<1>3. PlanInv'
  BY <1>0, <1>r DEF RunInv, PlanInv, Consistent, Planless
<1>4. ASSUME NEW k \in Keys PROVE ActionInv(k)'
  <2>1. ActionInv(k) /\ run.pc = "round"
    BY DEF RunInv
  <2> QED
    BY <1>0, <1>r, <2>1 DEF ActionInv, Executing
<1>5. RoundInv'
  BY <1>0, <1>p, <1>r DEF RoundInv, InRound, Executing, Pending
<1>6. StepInv'
  BY <1>r DEF StepInv, Executing
<1>7. EndInv'
  <2>1. queue = {} => KeysOf(task.version, task.plan) \subseteq task.done
    BY DEF Pending, KeysOf
  <2>2. task.status = "READY"
    BY DEF RunInv, PointInv
  <2> QED
    BY <1>0, <1>r, <2>1, <2>2 DEF RunInv, EndInv, SummaryAgrees, FirstRunNeverRaises
<1>8. TriesInv'
  BY <1>0, <1>r DEF RunInv, TriesInv, Over, Planless, NoExactRepeat
<1> QED
  BY <1>1, <1>2, <1>3, <1>4, <1>5, <1>6, <1>7, <1>8 DEF RunInv

(* The run goes from one point to another, and what it knows of its plan,  *)
(* its queue and its attempts stays as it is.                              *)
LEMMA Moving ==
  ASSUME RunInv, UNCHANGED <<provider, task, summary, resumes>>, run' \in Runs,
         run'.queue = run.queue, run'.prev = run.prev, run'.tries = run.tries,
         entry' \in [resumed : BOOLEAN, clean : BOOLEAN], entry'.resumed = entry.resumed,
         exit' \in {"returned", "running"},
         \/ run'.pc = "round" /\ run.pc = "planned"
         \/ /\ run'.pc \in InRound \ {"stepping"} /\ run.queue # {}
            /\ run.pc \in Executing \cup {"stepping"}
         \/ run'.pc = "ending" /\ run.pc = "stepping"
  PROVE  /\ Here' = Here /\ Current' = Current
         /\ PlanInv' /\ RoundInv' /\ TriesInv'
<1> USE DEF At
<1>1. Here' = Here /\ Current' = Current
  BY DEF Here, Current
<1>2. PlanInv'
  BY DEF RunInv, PlanInv, Consistent, Planless, InRound, Executing
<1>3. RoundInv'
  BY <1>1 DEF RunInv, RoundInv, InRound, Executing
<1>4. TriesInv'
  BY DEF RunInv, TriesInv, Over, Planless, NoExactRepeat, InRound, Executing
<1> QED
  BY <1>1, <1>2, <1>3, <1>4

LEMMA MovesKeep ==
  RunInv /\ (PreflightAllowed \/ ReuseResult \/ RoundDone) => RunInv'
<1> SUFFICES ASSUME RunInv, PreflightAllowed \/ ReuseResult \/ RoundDone PROVE RunInv'
  OBVIOUS
<1> USE DEF At
<1>0. /\ UNCHANGED <<provider, task, summary, resumes, ran>>
      /\ exit' \in {"returned", "running"}
      /\ entry' \in [resumed : BOOLEAN, clean : BOOLEAN] /\ entry'.resumed = entry.resumed
  BY DEF PreflightAllowed, ReuseResult, RoundDone, Goto, RunInv, TypeOK
<1>t. run \in Runs /\ task \in Tasks /\ {"round", "observing", "ending"} \subseteq PC
  BY DEF RunInv, TypeOK, PC
<1>r. /\ run' \in Runs
      /\ run'.queue = run.queue /\ run'.prev = run.prev /\ run'.tries = run.tries
      /\ run'.latest = run.latest
      /\ \/ run.pc = "planned" /\ run'.pc = "round"
         \/ /\ run.pc = "stepping" /\ run'.pc = "observing"
            /\ run.queue # {} /\ entry.resumed /\ run'.out \in Outcomes
         \/ run.pc = "stepping" /\ run'.pc = "ending" /\ run.queue = {}
  <2>1. CASE PreflightAllowed
    BY <1>t, <2>1 DEF PreflightAllowed, Goto, To, Runs
  <2>2. CASE ReuseResult
    <3>1. run.queue # {} /\ run.pc = "stepping" /\ Reusable(Current)
      BY <2>2 DEF ReuseResult
    <3>2. Here \in Keys
      BY <3>1, CurrentStep DEF InRound
    <3>3. task.rec[Here].out \in Outcomes
      BY <3>1, <3>2 DEF Reusable, Here, RunInv, ActionInv
    <3>4. run' = [run EXCEPT !.out = task.rec[Here].out, !.pc = "observing"]
      BY <2>2 DEF ReuseResult, Goto, Here
    <3> QED
      BY <1>t, <3>1, <3>3, <3>4 DEF Reusable, Runs
  <2>3. CASE RoundDone
    <3>1. run' = [run EXCEPT !.pc = "ending", !.term = IF AllVerified THEN "COMPLETED" ELSE @]
      BY <2>3 DEF RoundDone, Goto
    <3> QED
      BY <1>t, <2>3, <3>1 DEF RoundDone, Runs, Endings
  <2> QED
    BY <2>1, <2>2, <2>3
<1>m. Here' = Here /\ Current' = Current /\ PlanInv' /\ RoundInv' /\ TriesInv'
  BY <1>0, <1>r, Moving DEF InRound, Executing
<1>1. TypeOK'
  BY <1>0, <1>r DEF RunInv, TypeOK
<1>2. PointInv'
  BY <1>0, <1>r DEF RunInv, PointInv, Executing
<1>4. ASSUME NEW k \in Keys PROVE ActionInv(k)'
  <2>1. ActionInv(k)
    BY DEF RunInv
  <2> QED
    BY <1>0, <1>r, <1>m, <2>1 DEF ActionInv, Executing
<1>6. StepInv'
  <2>1. run.pc = "stepping" => task.status = "READY"
    BY DEF RunInv, PointInv
  <2> QED
    BY <1>0, <1>r, <2>1 DEF StepInv, Executing
<1>7. EndInv'
  <2>1. run.pc = "stepping" => task.status = "READY"
    BY DEF RunInv, PointInv
  <2>2. run.pc = "stepping" /\ run.queue = {}
          => KeysOf(task.version, task.plan) \subseteq task.done
    BY DEF RunInv, RoundInv, InRound, KeysOf
  <2>3. run'.pc # "learning" /\ task.status # "COMPLETED"
    BY <1>r, <2>1 DEF RunInv, PointInv
  <2> QED
    BY <1>0, <1>r, <2>1, <2>2, <2>3 DEF RunInv, EndInv, SummaryAgrees, FirstRunNeverRaises
<1> QED
  BY <1>1, <1>2, <1>m, <1>4, <1>6, <1>7 DEF RunInv

LEMMA ExecutionKeeps ==
  RunInv /\ (Refuse \/ Invoke \/ Return) => RunInv'
<1> SUFFICES ASSUME RunInv, Refuse \/ Invoke \/ Return PROVE RunInv'
  OBVIOUS
<1> USE DEF At
<1>t. run \in Runs /\ task \in Tasks /\ Executing \subseteq PC /\ run.pc \in {"boundary", "running"}
  BY DEF RunInv, TypeOK, PC, Executing, Refuse, Invoke, Return
<1>h. /\ Here \in Keys /\ run.queue # {}
  BY <1>t, CurrentStep DEF RunInv, RoundInv, InRound, Executing
<1>0. /\ UNCHANGED <<provider, task, summary, resumes>>
      /\ exit' \in {"returned", "running"}
      /\ entry' \in [resumed : BOOLEAN, clean : BOOLEAN] /\ entry'.resumed = entry.resumed
  BY DEF Refuse, Invoke, Return, Goto, RunInv, TypeOK
<1>r. /\ run' \in Runs
      /\ run'.queue = run.queue /\ run'.prev = run.prev /\ run'.tries = run.tries
      /\ run'.latest = run.latest
      /\ \/ /\ run.pc = "boundary" /\ run'.pc = "returned" /\ run'.out # "success"
            /\ run'.out \in Outcomes /\ ran' = ran
         \/ /\ run.pc = "boundary" /\ run'.pc = "running"
            /\ ran' = [ran EXCEPT ![Here] = "doubt"]
         \/ /\ run.pc = "running" /\ run'.pc = "returned"
            /\ run'.out \in Outcomes /\ ran' = ran
  <2>1. CASE Refuse
    <3>1. PICK out \in Dependency \cup Refusals :
            run' = [run EXCEPT !.out = out, !.pc = "returned"]
      BY <2>1 DEF Refuse, Goto, MissingNeeds, Dependency
    <3>2. out \in Outcomes /\ out # "success"
      BY DEF Outcomes, Dependency, Refusals
    <3> QED
      BY <1>t, <2>1, <3>1, <3>2 DEF Refuse, Runs, Executing
  <2>2. CASE Invoke
    BY <1>t, <2>2 DEF Invoke, Goto, To, Runs, Here, Executing
  <2>3. CASE Return
    <3>1. PICK out \in Outcomes : run' = [run EXCEPT !.out = out, !.pc = "returned"]
      BY <2>3 DEF Return, Goto, Outcomes
    <3> QED
      BY <1>t, <2>3, <3>1 DEF Return, Runs, Executing
  <2> QED
    BY <2>1, <2>2, <2>3
<1>m. Here' = Here /\ Current' = Current /\ PlanInv' /\ RoundInv' /\ TriesInv'
  BY <1>0, <1>h, <1>r, Moving DEF InRound, Executing
<1>1. TypeOK'
  BY <1>0, <1>r, <1>h DEF RunInv, TypeOK
<1>2. PointInv'
  BY <1>0, <1>r DEF RunInv, PointInv, Executing
<1>e. task.rec[Here].st = "EXECUTING" /\ ran \in [Keys -> {"never", "doubt", "result", "verified", "failed"}]
  BY <1>t DEF RunInv, StepInv, Executing, TypeOK
<1>4. ASSUME NEW k \in Keys PROVE ActionInv(k)'
  <2>1. ActionInv(k) /\ (run.pc = "boundary" => ran[Here] \in {"never", "failed"})
    BY DEF RunInv, StepInv
  <2>2. k # Here => ran'[k] = ran[k]
    BY <1>r, <1>e, <1>h
  <2>3. ran'[Here] \in {ran[Here], "doubt"}
    BY <1>r, <1>e, <1>h
  <2>4. k \in task.done => k # Here
    BY <1>h, <1>t, CurrentStep DEF InRound, Executing
  <2> QED
    BY <1>0, <1>t, <1>r, <1>m, <1>e, <2>1, <2>2, <2>3, <2>4 DEF ActionInv, Executing
<1>6. StepInv'
  <2>1. StepInv
    BY DEF RunInv
  <2> QED
    BY <1>0, <1>r, <1>m, <1>h, <1>e, <2>1 DEF StepInv, Executing
<1>7. EndInv'
  <2>1. task.status = "EXECUTING"
    BY <1>t DEF RunInv, PointInv, Executing
  <2> QED
    BY <1>0, <1>r, <2>1 DEF RunInv, EndInv, SummaryAgrees, FirstRunNeverRaises
<1> QED
  BY <1>1, <1>2, <1>m, <1>4, <1>6, <1>7 DEF RunInv

-----------------------------------------------------------------------------
(* Steps of a run that save another status *)

LEMMA TableMoves ==
  /\ CanMove("CREATED", "PLANNING") /\ CanMove("PLANNING", "READY")
  /\ \A st \in {"READY", "EXECUTING", "WAITING_APPROVAL", "BLOCKED", "FAILED", "COMPLETED"} :
       CanMove("READY", st)
  /\ CanMove("EXECUTING", "OBSERVING") /\ CanMove("OBSERVING", "VERIFYING")
  /\ CanMove("VERIFYING", "READY") /\ CanMove("VERIFYING", "FAILED")
  /\ ~CanMove("READY", "VERIFYING")
  /\ \A st \in Status : CanMove("FAILED", st) <=> st = "FAILED"
BY DEF CanMove, Allowed, Status, Terminal

LEMMA SavedStatus ==
  ASSUME RunInv, NEW st \in Status \ {"COMPLETED"}, NEW r, Checkpoint(task, st, r)
  PROVE  \/ /\ CanMove(task.status, st) /\ task' \in Tasks
            /\ task' = [task EXCEPT !.status = st]
            /\ task'.status = st /\ task'.rec = task.rec /\ task'.done = task.done
            /\ task'.plan = task.plan /\ task'.version = task.version
            /\ Consistent(task') /\ run' = r /\ exit' \in {"returned", "running"}
            /\ summary' \in {"open", "completed", "failed", "blocked", "aborted"}
            /\ summary' # "completed"
         \/ /\ ~CanMove(task.status, st)
            /\ task' = task /\ summary' = summary /\ run' = NoRun /\ exit' = "raised"
<1> DEFINE next == [task EXCEPT !.status = st]
<1>1. /\ next \in Tasks /\ next.status = st /\ next.rec = task.rec /\ next.done = task.done
      /\ next.plan = task.plan /\ next.version = task.version /\ next.todo = task.todo
  BY DEF RunInv, TypeOK, Tasks
<1>2. Consistent(next)
  BY <1>1 DEF RunInv, PlanInv, Consistent
<1> HIDE DEF next
<1>3. \/ /\ CanMove(task.status, st) /\ task' = next /\ summary' = Row(st)
         /\ run' = r /\ exit' \in {"returned", "running"}
      \/ /\ ~CanMove(task.status, st)
         /\ task' = task /\ summary' = summary /\ run' = NoRun /\ exit' = "raised"
  BY <1>2, SavesOrRaises DEF next
<1> QED
  BY <1>1, <1>2, <1>3, RowTyped DEF next

(* The run gets as far as saving the status; its queue is another one, or  *)
(* it is not yet or no longer in a round.                                  *)
LEMMA SavedOutsideRounds ==
  ASSUME RunInv, NEW st \in Status, task' = [task EXCEPT !.status = st],
         provider' = provider, ran' = ran, resumes' \in 0 .. MaxResumes,
         st \notin {"COMPLETED", "EXECUTING", "OBSERVING", "VERIFYING"}, Consistent(task'),
         summary' \in {"open", "completed", "failed", "blocked", "aborted"},
         summary' # "completed", run' \in Runs, exit' \in {"returned", "running"},
         entry' \in [resumed : BOOLEAN, clean : BOOLEAN], entry.resumed => entry'.resumed,
         run.pc \notin InRound, At("idle") => ~Uncertain /\ entry'.resumed,
         run'.pc \in {"planning", "blocked", "reloaded", "round"},
         run'.pc = "planning" =>
           st = "PLANNING" /\ task.plan = NoPlan /\ task.version = 0 /\ task.done = {}
             /\ ~entry'.resumed,
         run'.pc = "blocked" =>
           st \in {"WAITING_APPROVAL", "BLOCKED"} /\ task.plan # NoPlan
             /\ (~entry'.resumed => task.version = 1),
         run'.pc = "reloaded" => st \notin Terminal \cup {"EXECUTION_UNKNOWN"},
         run'.pc \in {"reloaded", "round"} => entry'.resumed,
         run'.pc = "round" => st = "READY" /\ task.plan # NoPlan,
         run'.tries = <<>>
  PROVE  RunInv'
<1> USE DEF At
<1>t. /\ task' \in Tasks /\ task'.status = st /\ task'.rec = task.rec
      /\ task'.done = task.done /\ task'.version = task.version /\ task'.plan = task.plan
  BY DEF RunInv, TypeOK, Tasks
<1>1. TypeOK'
  BY <1>t, SomeRecovery DEF RunInv, TypeOK
<1>2. PointInv'
  BY <1>t DEF PointInv, Executing, Status, Terminal
<1>3. PlanInv'
  BY <1>t DEF PlanInv, Planless
<1>4. ASSUME NEW k \in Keys PROVE ActionInv(k)'
  <2>1. ActionInv(k) /\ task.rec[k].st # "EXECUTING"
    BY DEF RunInv, ActionInv, InRound, Executing, Uncertain, Unresolved
  <2>2. task.rec[k].st = "OBSERVING" => entry'.resumed
    BY DEF RunInv, ActionInv, InRound, Executing, PlanInv
  <2> QED
    BY <1>t, <2>1, <2>2 DEF ActionInv, Executing
<1>5. RoundInv' /\ StepInv'
  BY DEF RoundInv, StepInv, InRound, Executing
<1>6. EndInv'
  BY <1>t DEF RunInv, EndInv, SummaryAgrees, FirstRunNeverRaises
<1>7. TriesInv'
  BY <1>t, SomeRecovery DEF TriesInv, Over, Planless, NoExactRepeat
<1> QED
  BY <1>1, <1>2, <1>3, <1>4, <1>5, <1>6, <1>7 DEF RunInv

LEMMA PcMoves ==
  ASSUME RunInv, NEW p \in PC
  PROVE  LET r == [run EXCEPT !.pc = p]
         IN  /\ r \in Runs /\ r.pc = p /\ r.queue = run.queue /\ r.prev = run.prev
             /\ r.tries = run.tries /\ r.latest = run.latest /\ r.out = run.out
             /\ r.verdict = run.verdict
BY DEF RunInv, TypeOK, Runs

LEMMA StatusesKeep ==
  RunInv /\ (StartPlanning \/ PreflightBlocked) => RunInv'
<1> SUFFICES ASSUME RunInv, StartPlanning \/ PreflightBlocked PROVE RunInv'
  OBVIOUS
<1> USE DEF At
<1>0. /\ UNCHANGED <<provider, resumes, ran, entry>> /\ resumes \in 0 .. MaxResumes
      /\ entry \in [resumed : BOOLEAN, clean : BOOLEAN]
      /\ {"planning", "blocked"} \subseteq PC
      /\ {"PLANNING", "WAITING_APPROVAL", "BLOCKED"} \subseteq Status \ {"COMPLETED"}
  BY DEF StartPlanning, PreflightBlocked, RunInv, TypeOK, PC, Status
<1>1. CASE StartPlanning
  <2>1. /\ Checkpoint(task, "PLANNING", To("planning")) /\ task.status = "CREATED"
        /\ task.plan = NoPlan /\ task.version = 0 /\ task.done = {} /\ ~entry.resumed
        /\ run.tries = <<>>
    BY <1>1 DEF StartPlanning, RunInv, PointInv, PlanInv, TriesInv
  <2>2. CanMove(task.status, "PLANNING")
    BY <2>1, TableMoves
  <2>3. To("planning") \in Runs /\ To("planning").pc = "planning" /\ To("planning").tries = <<>>
    BY <1>0, <2>1, PcMoves DEF To
  <2>4. run.pc = "created"
    BY <1>1 DEF StartPlanning
  <2> QED
    BY <1>0, <2>1, <2>2, <2>3, <2>4, SavedStatus, SavedOutsideRounds DEF InRound, Executing
<1>2. CASE PreflightBlocked
  <2>1. PICK st \in {"WAITING_APPROVAL", "BLOCKED"} : Checkpoint(task, st, To("blocked"))
    BY <1>2 DEF PreflightBlocked
  <2>2. /\ run.pc = "planned" /\ task.status = "READY" /\ task.plan # NoPlan
        /\ run.tries = <<>> /\ (~entry.resumed => task.version = 1)
    <3>1. run.pc = "planned"
      BY <1>2 DEF PreflightBlocked
    <3>2. run.tries = <<>>
      BY <3>1 DEF RunInv, TriesInv
    <3>3. ~entry.resumed => task.version = Len(run.tries) + 1
      BY <3>1 DEF RunInv, TriesInv, Over, Planless
    <3> QED
      BY <3>1, <3>2, <3>3 DEF RunInv, PointInv, PlanInv, Planless
  <2>3. CanMove(task.status, st)
    BY <2>2, TableMoves
  <2>4. To("blocked") \in Runs /\ To("blocked").pc = "blocked" /\ To("blocked").tries = <<>>
    BY <1>0, <2>2, PcMoves DEF To
  <2> QED
    BY <1>0, <2>1, <2>2, <2>3, <2>4, SavedStatus, SavedOutsideRounds DEF InRound, Executing
<1> QED
  BY <1>1, <1>2

LEMMA ResumesKeep == RunInv /\ (Resume \/ ResumeAllowed) => RunInv'
<1> SUFFICES ASSUME RunInv, Resume \/ ResumeAllowed PROVE RunInv'
  OBVIOUS
<1> USE DEF At
<1>0. "READY" \in Status \ {"COMPLETED"} /\ {"reloaded", "round"} \subseteq PC
  BY DEF PC, Status
<1>1. CASE Resume
  <2> DEFINE r == [NoRun EXCEPT !.pc = "reloaded"]
  <2>1. /\ At("idle") /\ ~Uncertain /\ task.status \notin Terminal
        /\ provider' = provider /\ ran' = ran /\ resumes' \in 0 .. MaxResumes
        /\ entry' \in [resumed : BOOLEAN, clean : BOOLEAN] /\ entry'.resumed
    BY <1>1, SomeBounds DEF Resume, Entering, RunInv, TypeOK
  <2>2. r \in Runs /\ r.pc = "reloaded" /\ r.tries = <<>>
    BY <1>0, NoRunFields DEF Runs
  <2> HIDE DEF r
  <2>3. CASE task.status \in {"OBSERVING", "VERIFYING"}
    <3>1. Checkpoint(task, "READY", r)
      BY <1>1, <2>3 DEF Resume, r
    <3> QED
      BY <1>0, <2>1, <2>2, <3>1, SavedStatus, SavedOutsideRounds, Raising
         DEF InRound, Executing, Terminal
  <2>4. CASE task.status \notin {"OBSERVING", "VERIFYING"}
    <3>1. run' = r /\ exit' \in {"returned", "running"} /\ UNCHANGED <<task, summary>>
      BY <1>1, <2>4 DEF Resume, Goto, r
    <3>2. /\ task' = [task EXCEPT !.status = task.status] /\ task.status \in Status
          /\ task.status \notin {"COMPLETED", "EXECUTING", "OBSERVING", "VERIFYING"}
          /\ task.status # "EXECUTION_UNKNOWN"
          /\ summary' \in {"open", "completed", "failed", "blocked", "aborted"}
          /\ summary' # "completed" /\ Consistent(task')
      BY <2>1, <2>4, <3>1 DEF RunInv, TypeOK, Tasks, EndInv, PlanInv, SummaryAgrees, Uncertain,
         Terminal
    <3> QED
      BY <2>1, <2>2, <3>1, <3>2, SavedOutsideRounds DEF InRound, Executing, Terminal
  <2> QED
    BY <2>3, <2>4
<1>2. CASE ResumeAllowed
  <2> DEFINE max == IF task.count > MaxRecovery THEN task.count + 1 ELSE MaxRecovery + 1
             r == [run EXCEPT !.pc = "round", !.round = task.count, !.max = max]
  <2>1. /\ At("reloaded") /\ task.plan # NoPlan /\ Checkpoint(task, "READY", r)
        /\ UNCHANGED <<provider, resumes, ran, entry>>
    BY <1>2 DEF ResumeAllowed
  <2>2. /\ run \in Runs /\ task.count \in Nat /\ run.tries = <<>> /\ entry.resumed
        /\ entry \in [resumed : BOOLEAN, clean : BOOLEAN] /\ resumes \in 0 .. MaxResumes
    BY <2>1 DEF RunInv, TypeOK, Tasks, TriesInv, PointInv, Planless
  <2>3. r \in Runs /\ r.pc = "round" /\ r.tries = <<>>
    <3>1. max \in Nat
      BY <2>2, SomeRecovery
    <3> HIDE DEF max
    <3> QED
      BY <1>0, <2>2, <3>1 DEF Runs
  <2> HIDE DEF r
  <2> QED
    BY <1>0, <2>1, <2>2, <2>3, SavedStatus, SavedOutsideRounds, Raising DEF InRound, Executing
<1> QED
  BY <1>1, <1>2

-----------------------------------------------------------------------------
(* Steps of a round that save the action they are at *)

LEMMA ObserveKeeps == RunInv /\ Observe => RunInv'
<1> SUFFICES ASSUME RunInv, Observe PROVE RunInv'
  OBVIOUS
<1> USE DEF At
<1>0. /\ run.pc = "observing" /\ run.queue # {} /\ run.pc \in InRound
      /\ UNCHANGED <<provider, resumes, ran>> /\ resumes \in 0 .. MaxResumes
      /\ entry' \in [resumed : BOOLEAN, clean : BOOLEAN] /\ entry'.resumed = entry.resumed
      /\ "VERIFYING" \in Status \ {"COMPLETED"}
  BY DEF Observe, RunInv, RoundInv, TypeOK, InRound, Status
<1>h. Current \in Steps /\ Here \in Keys
  BY <1>0, CurrentStep
<1>1. PICK verdict \in VerdictsOn(run.out) :
        Checkpoint(task, "VERIFYING",
                   [run EXCEPT !.verdict = verdict, !.latest[Current] = verdict,
                               !.prev[Current] = run.out, !.pc = "verified"])
  BY DEF Observe
<1> DEFINE r == [run EXCEPT !.verdict = verdict, !.latest[Current] = verdict,
                            !.prev[Current] = run.out, !.pc = "verified"]
<1>2. verdict \in Verdicts /\ (verdict = "VERIFIED" => run.out = "success")
  BY DEF VerdictsOn, GenericVerdicts, ResearchVerdicts, Verdicts
<1>3. /\ r \in Runs /\ r.pc = "verified" /\ r.queue = run.queue /\ r.tries = run.tries
      /\ r.verdict = verdict /\ r.latest[Current] = verdict /\ r.out = run.out
      /\ \A d \in Steps : r.prev[d] = IF d = Current THEN run.out ELSE run.prev[d]
  <2>1. run \in Runs /\ run.out \in Outcomes /\ "verified" \in PC
    BY <1>0 DEF RunInv, TypeOK, StepInv, PC
  <2> QED
    BY <1>h, <1>2, <2>1 DEF Runs
<1> HIDE DEF r
<1>4. CASE task.status = "OBSERVING"
  <2>1. /\ task' \in Tasks /\ task'.status = "VERIFYING" /\ task'.rec = task.rec
        /\ task'.done = task.done /\ task'.plan = task.plan /\ task'.version = task.version
        /\ Consistent(task') /\ run' = r /\ exit' \in {"returned", "running"}
        /\ summary' \in {"open", "completed", "failed", "blocked", "aborted"}
        /\ summary' # "completed"
    BY <1>0, <1>1, <1>4, SavedStatus, TableMoves DEF r
  <2>h. Here' = Here /\ Current' = Current
    BY <1>3, <2>1 DEF Here, Current
  <2>t. TypeOK'
    BY <1>0, <1>3, <2>1 DEF RunInv, TypeOK
  <2>2. PointInv'
    BY <1>3, <2>1 DEF PointInv, Executing
  <2>3. PlanInv'
    BY <1>0, <1>3, <2>1 DEF RunInv, PlanInv, Planless
  <2>4. ASSUME NEW k \in Keys PROVE ActionInv(k)'
    <3>1. ActionInv(k)
      BY DEF RunInv
    <3> QED
      BY <1>0, <1>3, <2>1, <2>h, <3>1 DEF ActionInv, Executing
  <2>5. RoundInv'
    BY <1>0, <1>3, <2>1, <2>h DEF RunInv, RoundInv, InRound, Executing
  <2>6. StepInv'
    BY <1>0, <1>2, <1>3, <1>4, <2>1, <2>h DEF RunInv, StepInv, Executing
  <2>7. EndInv'
    BY <1>3, <2>1 DEF EndInv, SummaryAgrees, FirstRunNeverRaises
  <2>8. TriesInv'
    BY <1>0, <1>3, <2>1 DEF RunInv, TriesInv, Over, Planless, NoExactRepeat
  <2> QED
    BY <2>t, <2>2, <2>3, <2>4, <2>5, <2>6, <2>7, <2>8 DEF RunInv
<1>5. CASE task.status # "OBSERVING"
  <2>1. task.status = "READY" /\ entry.resumed
    BY <1>0, <1>5 DEF RunInv, PointInv
  <2> QED
    BY <1>0, <1>1, <2>1, SavedStatus, TableMoves, Raising
<1> QED
  BY <1>4, <1>5

LEMMA MarkHere ==
  ASSUME RunInv, run.pc \in InRound, run.queue # {}, NEW st \in ActionStatus
  PROVE  LET m == Mark(task, Current, st)
         IN  /\ m \in Tasks /\ m.version = task.version /\ m.plan = task.plan
             /\ m.done = IF st = "VERIFIED" THEN task.done \cup {Here} ELSE task.done
             /\ m.todo = task.todo \ m.done
             /\ m.rec[Here] = [st |-> st, out |-> task.rec[Here].out]
             /\ \A j \in Keys \ {Here} : m.rec[j] = task.rec[j]
<1>1. /\ Current \in Steps /\ task.version \in Versions /\ task \in Tasks
  BY CurrentStep DEF RunInv, TypeOK
<1> QED
  BY <1>1, MarkFields DEF Here

(* What a checkpoint saves that was preceded by mark_action.               *)
LEMMA MarkSaved ==
  ASSUME RunInv, run.pc \in InRound, run.queue # {},
         NEW st \in ActionStatus \ {"ABSENT"}, NEW t \in Tasks, NEW r,
         t.version = task.version, t.plan = task.plan,
         t.done = IF st = "VERIFIED" THEN task.done \cup {Here} ELSE task.done,
         t.todo = task.todo \ t.done,
         t.rec[Here].st = st,
         \A j \in Keys \ {Here} : t.rec[j] = task.rec[j],
         NEW status \in Status \ {"COMPLETED"}, CanMove(task.status, status),
         Checkpoint(t, status, r)
  PROVE  /\ task' \in Tasks /\ task'.status = status
         /\ task'.version = task.version /\ task'.plan = task.plan /\ task'.done = t.done
         /\ task'.rec[Here] = t.rec[Here]
         /\ \A j \in Keys \ {Here} : task'.rec[j] = task.rec[j]
         /\ Consistent(task') /\ run' = r /\ exit' \in {"returned", "running"}
         /\ summary' \in {"open", "completed", "failed", "blocked", "aborted"}
         /\ summary' # "completed"
<1> DEFINE next == [t EXCEPT !.status = status]
<1>h. Here \in Keys /\ Here \notin task.done /\ task.plan # NoPlan /\ task.done \subseteq Keys
  BY CurrentStep, PlansAreProposed DEF RunInv, TypeOK, Tasks
<1>1. /\ next \in Tasks /\ next.status = status /\ next.version = task.version
      /\ next.plan = task.plan /\ next.done = t.done /\ next.todo = t.todo
      /\ next.rec = t.rec
  BY DEF Tasks
<1>2. Consistent(next)
  <2> HIDE DEF next
  <2>1. Consistent(task)
    BY DEF RunInv, PlanInv
  <2>2. next.version >= 1 /\ next.done \cap next.todo = {}
    BY <1>1, <1>h, <2>1 DEF Consistent
  <2>3. \A k \in next.done : next.rec[k].st = "VERIFIED"
    BY <1>1, <1>h, <2>1 DEF Consistent
  <2>4. next.done \cup next.todo \subseteq
          KeysOf(next.version, next.plan) \cup {k \in Keys : next.rec[k].st # "ABSENT"}
    <3>1. task.done \cup task.todo \subseteq
            KeysOf(task.version, task.plan) \cup {k \in Keys : task.rec[k].st # "ABSENT"}
      BY <1>h, <2>1 DEF Consistent
    <3>2. \A k \in Keys : task.rec[k].st # "ABSENT" => next.rec[k].st # "ABSENT"
      BY <1>1, <1>h
    <3>3. next.rec[Here].st # "ABSENT"
      BY <1>1
    <3> QED
      BY <1>1, <1>h, <3>1, <3>2, <3>3
  <2> QED
    BY <1>1, <2>2, <2>3, <2>4 DEF Consistent
<1> HIDE DEF next
<1>3. /\ task' = next /\ summary' = Row(status) /\ run' = r
      /\ exit' \in {"returned", "running"}
  BY <1>2, SavesOrRaises DEF next
<1> QED
  BY <1>1, <1>2, <1>3, RowTyped

(* An action that is not the one under way is settled in every sense.      *)
LEMMA OtherActions ==
  ASSUME RunInv, run.pc \in InRound, NEW k \in Keys \ {Here},
         task'.rec[k] = task.rec[k], ran'[k] = ran[k], k \in task'.done <=> k \in task.done,
         entry'.resumed = entry.resumed
  PROVE  ActionInv(k)'
<1>1. ActionInv(k)
  BY DEF RunInv
<1> QED
  BY <1>1 DEF ActionInv, InRound, Executing, At

(* The action under way has been saved: what does not depend on how.       *)
LEMMA Marking ==
  ASSUME RunInv, run.pc \in InRound, UNCHANGED <<provider, resumes, entry>>,
         task' \in Tasks, task'.version = task.version, task'.plan = task.plan,
         task'.status # "COMPLETED", Consistent(task'),
         run' \in Runs, run'.pc \in InRound, run'.tries = run.tries,
         exit' \in {"returned", "running"}, ran' \in [Keys -> {"never", "doubt", "result", "verified", "failed"}],
         summary' \in {"open", "completed", "failed", "blocked", "aborted"},
         summary' # "completed"
  PROVE  TypeOK' /\ PlanInv' /\ EndInv' /\ TriesInv'
<1> USE DEF At, InRound, Executing
<1>1. TypeOK'
  BY DEF RunInv, TypeOK
<1>2. PlanInv'
  BY DEF RunInv, PlanInv, Planless
<1>3. EndInv'
  BY DEF EndInv, SummaryAgrees, FirstRunNeverRaises
<1>4. TriesInv'
  BY DEF RunInv, TriesInv, Over, Planless, NoExactRepeat
<1> QED
  BY <1>1, <1>2, <1>3, <1>4

LEMMA BeforeExecutionKeeps == RunInv /\ BeforeExecution => RunInv'
<1> SUFFICES ASSUME RunInv, BeforeExecution PROVE RunInv'
  OBVIOUS
<1> USE DEF At
<1> DEFINE m == Mark(task, Current, "EXECUTING")
           t == [m EXCEPT !.count = run.round]
           r == To("boundary")
<1>0. /\ run.pc = "stepping" /\ run.queue # {} /\ run.pc \in InRound
      /\ UNCHANGED <<provider, resumes, ran, entry>> /\ ~Reusable(Current)
      /\ Checkpoint(t, "EXECUTING", r) /\ task \in Tasks /\ run.round \in Nat
      /\ ran \in [Keys -> {"never", "doubt", "result", "verified", "failed"}]
      /\ task.status = "READY"
  BY DEF BeforeExecution, InRound, RunInv, TypeOK, Runs, PointInv
<1>h. Current \in Steps /\ Here \in Keys /\ Here \notin task.done /\ task.version \in Versions
  BY <1>0, CurrentStep
<1>c. "EXECUTING" \in ActionStatus \ {"ABSENT"} /\ "EXECUTING" \in Status \ {"COMPLETED"}
      /\ "boundary" \in PC
  BY DEF ActionStatus, Status, PC
<1>m. /\ m \in Tasks /\ m.version = task.version /\ m.plan = task.plan
      /\ m.done = task.done /\ m.todo = task.todo \ m.done
      /\ m.rec[Here] = [st |-> "EXECUTING", out |-> task.rec[Here].out]
      /\ \A j \in Keys \ {Here} : m.rec[j] = task.rec[j]
  BY <1>0, <1>c, MarkHere
<1> HIDE DEF m
<1>t. /\ t \in Tasks /\ t.version = task.version /\ t.plan = task.plan
      /\ t.done = task.done /\ t.todo = task.todo \ t.done
      /\ t.rec[Here] = [st |-> "EXECUTING", out |-> task.rec[Here].out]
      /\ \A j \in Keys \ {Here} : t.rec[j] = task.rec[j]
  BY <1>0, <1>m DEF Tasks
<1>r. /\ r \in Runs /\ r.pc = "boundary" /\ r.queue = run.queue /\ r.prev = run.prev
      /\ r.tries = run.tries
  BY <1>c, PcMoves DEF To
<1> HIDE DEF t, r
<1>1. /\ task' \in Tasks /\ task'.status = "EXECUTING"
      /\ task'.version = task.version /\ task'.plan = task.plan /\ task'.done = task.done
      /\ task'.rec[Here] = [st |-> "EXECUTING", out |-> task.rec[Here].out]
      /\ \A j \in Keys \ {Here} : task'.rec[j] = task.rec[j]
      /\ Consistent(task') /\ run' = r /\ exit' \in {"returned", "running"}
      /\ summary' \in {"open", "completed", "failed", "blocked", "aborted"}
      /\ summary' # "completed"
  BY <1>0, <1>c, <1>t, TableMoves, MarkSaved
<1>H. Here' = Here /\ Current' = Current
  BY <1>1, <1>r DEF Here, Current
<1>2. TypeOK' /\ PlanInv' /\ EndInv' /\ TriesInv'
  BY <1>0, <1>1, <1>r, Marking DEF InRound, Executing
<1>3. PointInv'
  BY <1>1, <1>r DEF PointInv, Executing
<1>f. ran[Here] \in {"never", "failed"}
  <2>1. ActionInv(Here)
    BY <1>h DEF RunInv
  <2>2. ran[Here] # "result"
    BY <1>0, <2>1 DEF ActionInv, Reusable, Here
  <2> QED
    BY <1>0, <1>h, <2>1, <2>2 DEF ActionInv, Executing
<1>4. ASSUME NEW k \in Keys PROVE ActionInv(k)'
  <2>1. CASE k = Here
    BY <1>0, <1>1, <1>f, <1>h, <1>H, <1>r, <2>1 DEF ActionInv, Executing
  <2>2. CASE k # Here
    BY <1>0, <1>1, <2>2, OtherActions
  <2> QED
    BY <2>1, <2>2
<1>5. RoundInv'
  BY <1>0, <1>1, <1>r, <1>H DEF RunInv, RoundInv, InRound, Executing
<1>6. StepInv'
  BY <1>0, <1>1, <1>f, <1>r, <1>H DEF StepInv, Executing
<1> QED
  BY <1>2, <1>3, <1>4, <1>5, <1>6 DEF RunInv

LEMMA AfterExecutionKeeps == RunInv /\ AfterExecution => RunInv'
<1> SUFFICES ASSUME RunInv, AfterExecution PROVE RunInv'
  OBVIOUS
<1> USE DEF At
<1> DEFINE m == Mark(task, Current, "OBSERVING")
           t == [m EXCEPT !.rec[Here].out = run.out]
           r == [run EXCEPT !.prev[Current] = run.out, !.pc = "observing"]
<1>0. /\ run.pc = "returned" /\ run.queue # {} /\ run.pc \in InRound
      /\ UNCHANGED <<provider, resumes, entry>>
      /\ Checkpoint(t, "OBSERVING", r) /\ task \in Tasks /\ run.out \in Outcomes
      /\ ran \in [Keys -> {"never", "doubt", "result", "verified", "failed"}]
      /\ ran' = [ran EXCEPT ![Here] = IF @ = "doubt" THEN "result" ELSE @]
      /\ task.status = "EXECUTING" /\ (run.out = "success" => ran[Here] = "doubt")
      /\ task.rec[Here].st = "EXECUTING" /\ run \in Runs
  BY DEF AfterExecution, InRound, Executing, RunInv, TypeOK, RoundInv, StepInv, PointInv, Here
<1>h. Current \in Steps /\ Here \in Keys /\ Here \notin task.done /\ task.version \in Versions
  BY <1>0, CurrentStep
<1>c. "OBSERVING" \in ActionStatus \ {"ABSENT"} /\ "OBSERVING" \in Status \ {"COMPLETED"}
      /\ "observing" \in PC
  BY DEF ActionStatus, Status, PC
<1>m. /\ m \in Tasks /\ m.version = task.version /\ m.plan = task.plan
      /\ m.done = task.done /\ m.todo = task.todo \ m.done
      /\ m.rec[Here] = [st |-> "OBSERVING", out |-> task.rec[Here].out]
      /\ \A j \in Keys \ {Here} : m.rec[j] = task.rec[j]
  BY <1>0, <1>c, MarkHere
<1> HIDE DEF m
<1>t. /\ t \in Tasks /\ t.version = task.version /\ t.plan = task.plan
      /\ t.done = task.done /\ t.todo = task.todo \ t.done
      /\ t.rec[Here] = [st |-> "OBSERVING", out |-> run.out]
      /\ \A j \in Keys \ {Here} : t.rec[j] = task.rec[j]
  <2>1. run.out \in Outcomes /\ m.rec \in [Keys -> [st : ActionStatus, out : Outcomes \cup {"none"}]]
    BY <1>0, <1>m DEF Tasks
  <2> QED
    BY SMTT(30), <1>h, <1>m, <2>1 DEF Tasks
<1>r. /\ r \in Runs /\ r.pc = "observing" /\ r.queue = run.queue /\ r.tries = run.tries
      /\ r.out = run.out
      /\ \A d \in Steps : r.prev[d] = IF d = Current THEN run.out ELSE run.prev[d]
  BY <1>0, <1>c, <1>h DEF Runs
<1> HIDE DEF t, r
<1>1. /\ task' \in Tasks /\ task'.status = "OBSERVING"
      /\ task'.version = task.version /\ task'.plan = task.plan /\ task'.done = task.done
      /\ task'.rec[Here] = [st |-> "OBSERVING", out |-> run.out]
      /\ \A j \in Keys \ {Here} : task'.rec[j] = task.rec[j]
      /\ Consistent(task') /\ run' = r /\ exit' \in {"returned", "running"}
      /\ summary' \in {"open", "completed", "failed", "blocked", "aborted"}
      /\ summary' # "completed"
  BY <1>0, <1>c, <1>t, TableMoves, MarkSaved
<1>H. Here' = Here /\ Current' = Current
  BY <1>1, <1>r DEF Here, Current
<1>n. /\ ran' \in [Keys -> {"never", "doubt", "result", "verified", "failed"}]
      /\ \A j \in Keys \ {Here} : ran'[j] = ran[j]
      /\ ran'[Here] = IF ran[Here] = "doubt" THEN "result" ELSE ran[Here]
  BY <1>0, <1>h
<1>2. TypeOK' /\ PlanInv' /\ EndInv' /\ TriesInv'
  BY <1>0, <1>1, <1>n, <1>r, Marking DEF InRound, Executing
<1>3. PointInv'
  BY <1>1, <1>r DEF PointInv, Executing
<1>4. ASSUME NEW k \in Keys PROVE ActionInv(k)'
  <2>1. CASE k = Here
    <3>1. ran[Here] # "verified"
      BY <1>h DEF RunInv, ActionInv
    <3> QED
      BY <1>0, <1>1, <1>n, <1>h, <1>H, <1>r, <2>1, <3>1 DEF ActionInv, Executing
  <2>2. CASE k # Here
    BY <1>0, <1>1, <1>n, <2>2, OtherActions
  <2> QED
    BY <2>1, <2>2
<1>5. RoundInv'
  BY <1>0, <1>1, <1>r, <1>H DEF RunInv, RoundInv, InRound, Executing
<1>6. StepInv'
  BY <1>0, <1>1, <1>n, <1>r, <1>H DEF StepInv, Executing
<1> QED
  BY <1>2, <1>3, <1>4, <1>5, <1>6 DEF RunInv

LEMMA StepVerifiedKeeps == RunInv /\ StepVerified => RunInv'
<1> SUFFICES ASSUME RunInv, StepVerified PROVE RunInv'
  OBVIOUS
<1> USE DEF At
<1> DEFINE t == Mark(task, Current, "VERIFIED")
           r == [run EXCEPT !.queue = @ \ {Current}, !.out = "none",
                            !.verdict = "none", !.pc = "stepping"]
<1>0. /\ run.pc = "verified" /\ run.queue # {} /\ run.pc \in InRound
      /\ UNCHANGED <<provider, resumes, entry>>
      /\ Checkpoint(t, "READY", r) /\ run \in Runs
      /\ ran \in [Keys -> {"never", "doubt", "result", "verified", "failed"}]
      /\ ran' = [ran EXCEPT ![Here] = "verified"]
      /\ task.status = "VERIFYING" /\ task.rec[Here].out = "success"
  BY DEF StepVerified, Proven, InRound, RunInv, TypeOK, RoundInv, StepInv, PointInv, Here
<1>h. Current \in Steps /\ Here \in Keys /\ Here \notin task.done /\ task.version \in Versions
      /\ task.plan \in Proposals
  BY <1>0, CurrentStep
<1>c. "VERIFIED" \in ActionStatus \ {"ABSENT"} /\ "READY" \in Status \ {"COMPLETED"}
      /\ "stepping" \in PC
  BY DEF ActionStatus, Status, PC
<1>t. /\ t \in Tasks /\ t.version = task.version /\ t.plan = task.plan
      /\ t.done = task.done \cup {Here} /\ t.todo = task.todo \ t.done
      /\ t.rec[Here] = [st |-> "VERIFIED", out |-> "success"]
      /\ \A j \in Keys \ {Here} : t.rec[j] = task.rec[j]
  BY <1>0, <1>c, MarkHere
<1>r. /\ r \in Runs /\ r.pc = "stepping" /\ r.queue = run.queue \ {Current}
      /\ r.prev = run.prev /\ r.tries = run.tries
  BY <1>0, <1>c DEF Runs
<1> HIDE DEF t, r
<1>1. /\ task' \in Tasks /\ task'.status = "READY"
      /\ task'.version = task.version /\ task'.plan = task.plan
      /\ task'.done = task.done \cup {Here}
      /\ task'.rec[Here] = [st |-> "VERIFIED", out |-> "success"]
      /\ \A j \in Keys \ {Here} : task'.rec[j] = task.rec[j]
      /\ Consistent(task') /\ run' = r /\ exit' \in {"returned", "running"}
      /\ summary' \in {"open", "completed", "failed", "blocked", "aborted"}
      /\ summary' # "completed"
  BY SMTT(30), <1>0, <1>c, <1>t, TableMoves, MarkSaved
<1>n. /\ ran' \in [Keys -> {"never", "doubt", "result", "verified", "failed"}]
      /\ \A j \in Keys \ {Here} : ran'[j] = ran[j]
      /\ ran'[Here] = "verified"
  BY <1>0, <1>h
<1>2. TypeOK' /\ PlanInv' /\ EndInv' /\ TriesInv'
  BY <1>0, <1>1, <1>n, <1>r, Marking DEF InRound, Executing
<1>3. PointInv'
  BY <1>1, <1>r DEF PointInv, Executing
<1>4. ASSUME NEW k \in Keys PROVE ActionInv(k)'
  <2>1. CASE k = Here
    BY <1>0, <1>1, <1>n, <1>h, <1>r, <2>1 DEF ActionInv
  <2>2. CASE k # Here
    BY <1>0, <1>1, <1>n, <2>2, OtherActions
  <2> QED
    BY <2>1, <2>2
<1>5. RoundInv'
  <2>1. RoundInv
    BY DEF RunInv
  <2>2. \A s \in Steps : <<task.version, s>> = Here <=> s = Current
    BY DEF Here
  <2>3. Members(task.plan) \subseteq Steps
    BY <1>h, MembersAreSteps
  <2>4. \A d \in Steps : run.prev[d] = "success" => <<task.version, d>> \in task'.done
    BY <1>0, <1>1, <2>1, <2>2 DEF RoundInv
  <2>5. \A s \in Members(task.plan) : s \in r.queue <=> <<task.version, s>> \notin task'.done
    BY <1>0, <1>1, <1>r, <2>1, <2>2, <2>3 DEF RoundInv
  <2> QED
    BY <1>0, <1>1, <1>r, <2>1, <2>4, <2>5 DEF RoundInv
<1>6. StepInv'
  BY <1>1, <1>r DEF StepInv, Executing
<1> QED
  BY <1>2, <1>3, <1>4, <1>5, <1>6 DEF RunInv

LEMMA StepFailedKeeps == RunInv /\ StepFailed => RunInv'
<1> SUFFICES ASSUME RunInv, StepFailed PROVE RunInv'
  OBVIOUS
<1> USE DEF At
<1> DEFINE t == Mark(task, Current, "FAILED")
           st == IF entry.resumed THEN "FAILED" ELSE "READY"
           r == To("recovering")
<1>0. /\ run.pc = "verified" /\ run.queue # {} /\ run.pc \in InRound
      /\ UNCHANGED <<provider, resumes, entry>>
      /\ Checkpoint(t, st, r)
      /\ ran \in [Keys -> {"never", "doubt", "result", "verified", "failed"}]
      /\ ran' = [ran EXCEPT ![Here] = IF @ = "never" THEN @ ELSE "failed"]
      /\ task.status = "VERIFYING" /\ run.latest[Current] \in Verdicts \ {"VERIFIED"}
  BY DEF StepFailed, Proven, InRound, RunInv, TypeOK, RoundInv, StepInv, PointInv, Here
<1>h. Current \in Steps /\ Here \in Keys /\ Here \notin task.done /\ task.version \in Versions
  BY <1>0, CurrentStep
<1>c. /\ "FAILED" \in ActionStatus \ {"ABSENT"} /\ st \in Status \ {"COMPLETED"}
      /\ "recovering" \in PC /\ st \in {"FAILED", "READY"}
      /\ (entry.resumed => st = "FAILED") /\ (~entry.resumed => st = "READY")
  BY DEF ActionStatus, Status, PC
<1>t. /\ t \in Tasks /\ t.version = task.version /\ t.plan = task.plan
      /\ t.done = task.done /\ t.todo = task.todo \ t.done
      /\ t.rec[Here] = [st |-> "FAILED", out |-> task.rec[Here].out]
      /\ \A j \in Keys \ {Here} : t.rec[j] = task.rec[j]
  BY <1>0, <1>c, MarkHere
<1>r. /\ r \in Runs /\ r.pc = "recovering" /\ r.queue = run.queue
      /\ r.prev = run.prev /\ r.tries = run.tries /\ r.latest = run.latest
  BY <1>c, PcMoves DEF To
<1>v. CanMove(task.status, st)
  BY <1>0, <1>c, TableMoves
<1> HIDE DEF t, r, st
<1>1. /\ task' \in Tasks /\ task'.status = st
      /\ task'.version = task.version /\ task'.plan = task.plan /\ task'.done = task.done
      /\ task'.rec[Here] = [st |-> "FAILED", out |-> task.rec[Here].out]
      /\ \A j \in Keys \ {Here} : task'.rec[j] = task.rec[j]
      /\ Consistent(task') /\ run' = r /\ exit' \in {"returned", "running"}
      /\ summary' \in {"open", "completed", "failed", "blocked", "aborted"}
      /\ summary' # "completed"
  BY <1>0, <1>c, <1>t, <1>v, MarkSaved
<1>H. Here' = Here /\ Current' = Current
  BY <1>1, <1>r DEF Here, Current
<1>n. /\ ran' \in [Keys -> {"never", "doubt", "result", "verified", "failed"}]
      /\ \A j \in Keys \ {Here} : ran'[j] = ran[j]
      /\ ran'[Here] \in {"never", "failed"}
  BY <1>0, <1>h
<1>2. TypeOK' /\ PlanInv' /\ EndInv' /\ TriesInv'
  BY <1>0, <1>1, <1>c, <1>n, <1>r, Marking DEF InRound, Executing
<1>3. PointInv'
  BY <1>0, <1>1, <1>c, <1>r DEF PointInv, Executing
<1>4. ASSUME NEW k \in Keys PROVE ActionInv(k)'
  <2>1. CASE k = Here
    BY <1>0, <1>1, <1>n, <1>h, <1>r, <2>1 DEF ActionInv
  <2>2. CASE k # Here
    BY <1>0, <1>1, <1>n, <2>2, OtherActions
  <2> QED
    BY <2>1, <2>2
<1>5. RoundInv'
  BY <1>0, <1>1, <1>r, <1>H DEF RunInv, RoundInv, InRound, Executing
<1>6. StepInv'
  BY <1>0, <1>1, <1>r, <1>H DEF StepInv, Executing
<1> QED
  BY <1>2, <1>3, <1>4, <1>5, <1>6 DEF RunInv

LEMMA ConcludeKeeps == RunInv /\ Conclude => RunInv'
<1> SUFFICES ASSUME RunInv, Conclude PROVE RunInv'
  OBVIOUS
<1> USE DEF At
<1> DEFINE term == CASE AllVerified -> "COMPLETED"
                     [] ~AllVerified /\ run.term = "COMPLETED" -> "FAILED"
                     [] OTHER -> run.term
           st == IF term = "COMPLETED" THEN "COMPLETED" ELSE "FAILED"
           t == [task EXCEPT !.verified = AllVerified]
           next == [t EXCEPT !.status = st]
           r == [run EXCEPT !.term = term, !.pc = "learning"]
<1>0. /\ run.pc = "ending" /\ Checkpoint(t, st, r)
      /\ UNCHANGED <<provider, resumes, ran, entry>>
      /\ run \in Runs /\ task \in Tasks /\ Consistent(task) /\ task.plan # NoPlan
      /\ task.status = "READY" \/ (task.status = "FAILED" /\ entry.resumed)
      /\ AllVerified =>
           task.status = "READY" /\ KeysOf(task.version, task.plan) \subseteq task.done
  BY DEF Conclude, RunInv, TypeOK, PlanInv, PointInv, EndInv, Planless
<1>1. /\ term \in Endings /\ (term = "COMPLETED" <=> AllVerified)
      /\ AllVerified \in BOOLEAN
  BY <1>0 DEF Runs, Endings, AllVerified
<1>2. /\ st \in {"COMPLETED", "FAILED"} /\ (st = "COMPLETED" <=> AllVerified)
      /\ (st = "COMPLETED" <=> term = "COMPLETED")
  BY <1>1
<1>3. r \in Runs /\ r.pc = "learning" /\ r.term = term /\ r.tries = run.tries
  BY <1>0, <1>1 DEF Runs, PC
<1>4. /\ next \in Tasks /\ next.status = st /\ next.rec = task.rec /\ next.done = task.done
      /\ next.plan = task.plan /\ next.version = task.version /\ next.todo = task.todo
      /\ next.verified = AllVerified
  BY <1>0, <1>1, <1>2 DEF Tasks, Status
<1>5. CanMove(task.status, st)
  BY <1>0, <1>2, TableMoves DEF Status
<1> HIDE DEF term, st, next, r
<1>6. Consistent(next)
  BY <1>0, <1>2, <1>4 DEF Consistent
<1>7. /\ task' = next /\ summary' = Row(st) /\ run' = r /\ exit' \in {"returned", "running"}
  BY <1>0, <1>5, <1>6, SavesOrRaises DEF next
<1>8. TypeOK'
  BY <1>0, <1>3, <1>4, <1>7, RowTyped DEF RunInv, TypeOK
<1>9. PointInv'
  BY <1>2, <1>3, <1>4, <1>7 DEF PointInv, Executing
<1>10. PlanInv'
  BY <1>0, <1>3, <1>4, <1>6, <1>7 DEF PlanInv
<1>11. ASSUME NEW k \in Keys PROVE ActionInv(k)'
  <2>1. ActionInv(k)
    BY DEF RunInv
  <2> QED
    BY <1>0, <1>3, <1>4, <1>7, <2>1 DEF ActionInv, Executing
<1>12. RoundInv' /\ StepInv'
  BY <1>3, <1>7 DEF RoundInv, StepInv, InRound, Executing
<1>13. EndInv'
  BY <1>0, <1>2, <1>3, <1>4, <1>7, RowTyped DEF EndInv, SummaryAgrees, FirstRunNeverRaises,
     KeysOf
<1>14. TriesInv'
  BY <1>0, <1>3, <1>7 DEF RunInv, TriesInv, Over, Planless, NoExactRepeat
<1> QED
  BY <1>8, <1>9, <1>10, <1>11, <1>12, <1>13, <1>14 DEF RunInv

-----------------------------------------------------------------------------
(* Plans and recoveries *)

LEMMA AnswersAreProposals == PlannerAnswers \subseteq Proposals
<1>1. CASE provider
  BY <1>1, PlansAreProposed DEF PlannerAnswers
<1>2. CASE ~provider
  <2>1. ASSUME NEW preferred, NEW avoided PROVE FallbackTool(preferred, avoided) \in Tools
    <3>1. Registry \in Seq(Tools) /\ Registry # <<>>
      BY SomeTools
    <3>2. Tools \ avoided # {} => \E i \in DOMAIN Registry : Registry[i] \in Tools \ avoided
      BY DEF Tools
    <3>3. Tools \ avoided # {} => Earliest(Registry, Tools \ avoided) \in Tools
      BY <3>1, <3>2, EarliestIsIn
    <3> QED
      BY <3>1, <3>3 DEF FallbackTool
  <2>2. ASSUME NEW tool \in Tools PROVE Fallback(tool) \in Proposals
    <3>1. (CHOOSE s \in Steps : TRUE) \in Steps
      BY SomeSteps
    <3>2. <<CHOOSE s \in Steps : TRUE>> \in Seq(Steps)
      BY <3>1
    <3> QED
      BY <3>2, SomeBounds DEF Fallback, Proposals
  <2> QED
    BY <1>2, <2>1, <2>2 DEF PlannerAnswers
<1> QED
  BY <1>1, <1>2

(* A checkpoint that saves a new plan.                                     *)
LEMMA PlanSaved ==
  ASSUME RunInv, NEW p \in Proposals, NEW v \in Versions, NEW r,
         \A k \in task.done : task.rec[k].st = "VERIFIED",
         CanMove(task.status, "READY"), Checkpoint(SetPlan(task, p, v), "READY", r)
  PROVE  /\ task' \in Tasks /\ task'.status = "READY"
         /\ task'.plan = p /\ task'.version = v /\ task'.done = task.done
         /\ task'.rec = task.rec /\ Consistent(task')
         /\ run' = r /\ exit' \in {"returned", "running"}
         /\ summary' \in {"open", "completed", "failed", "blocked", "aborted"}
         /\ summary' # "completed"
<1> DEFINE t == SetPlan(task, p, v)
           next == [t EXCEPT !.status = "READY"]
<1>1. task \in Tasks /\ task.done \subseteq Keys /\ v >= 1
  BY VersionsAndKeys DEF RunInv, TypeOK, Tasks
<1>2. /\ t \in Tasks /\ t.version = v /\ t.plan = p /\ t.todo = KeysOf(v, p) \ task.done
      /\ t.done = task.done /\ t.rec = task.rec
  BY <1>1, SetPlanFields
<1> HIDE DEF t
<1>3. /\ next \in Tasks /\ next.status = "READY" /\ next.version = v /\ next.plan = p
      /\ next.todo = KeysOf(v, p) \ task.done
      /\ next.done = task.done /\ next.rec = task.rec
  BY <1>2 DEF Tasks, Status
<1>4. Consistent(next)
  <2>1. \A k \in task.done : k \in {j \in Keys : task.rec[j].st # "ABSENT"}
    BY <1>1
  <2> HIDE DEF next
  <2> QED
    BY <1>1, <1>3, <2>1 DEF Consistent
<1>5. /\ task' = next /\ summary' = Row("READY") /\ run' = r
      /\ exit' \in {"returned", "running"}
  BY <1>4, SavesOrRaises DEF next, t
<1> QED
  BY <1>3, <1>4, <1>5, RowTyped

LEMMA PlanAcceptedKeeps == RunInv /\ PlanAccepted => RunInv'
<1> SUFFICES ASSUME RunInv, PlanAccepted PROVE RunInv'
  OBVIOUS
<1> USE DEF At
<1>1. PICK p \in PlannerAnswers : Checkpoint(SetPlan(task, p, 1), "READY", To("planned"))
  BY DEF PlanAccepted
<1>0. /\ run.pc = "planning" /\ p \in Proposals /\ 1 \in Versions /\ "planned" \in PC
      /\ UNCHANGED <<provider, resumes, ran, entry>> /\ task.done = {}
      /\ CanMove(task.status, "READY")
      /\ run.tries = <<>>
  BY AnswersAreProposals, SomeRecovery, TableMoves
     DEF PlanAccepted, Versions, PC, RunInv, PlanInv, PointInv, TriesInv
<1>r. /\ To("planned") \in Runs /\ To("planned").pc = "planned" /\ To("planned").tries = <<>>
  BY <1>0, PcMoves DEF To
<1>2. /\ task' \in Tasks /\ task'.status = "READY"
      /\ task'.plan = p /\ task'.version = 1 /\ task'.done = task.done
      /\ task'.rec = task.rec /\ Consistent(task')
      /\ run' = To("planned") /\ exit' \in {"returned", "running"}
      /\ summary' \in {"open", "completed", "failed", "blocked", "aborted"}
      /\ summary' # "completed"
  BY <1>0, <1>1, PlanSaved
<1>3. TypeOK'
  BY <1>0, <1>2, <1>r, SomeRecovery DEF RunInv, TypeOK
<1>4. PointInv' /\ PlanInv'
  BY <1>0, <1>2, <1>r, PlansAreProposed DEF PointInv, PlanInv, Executing
<1>5. ASSUME NEW k \in Keys PROVE ActionInv(k)'
  <2>1. ActionInv(k)
    BY DEF RunInv
  <2> QED
    BY <1>0, <1>2, <1>r, <2>1 DEF ActionInv, Executing
<1>6. RoundInv' /\ StepInv' /\ EndInv'
  BY <1>0, <1>2, <1>r DEF RoundInv, StepInv, EndInv, InRound, Executing, SummaryAgrees,
     FirstRunNeverRaises
<1>7. TriesInv'
  BY <1>0, <1>2, <1>r, SomeRecovery DEF TriesInv, Over, Planless, NoExactRepeat
<1> QED
  BY <1>3, <1>4, <1>5, <1>6, <1>7 DEF RunInv

(* Why an answer to a failure is chosen.                                   *)
LEMMA Chosen ==
  ASSUME NEW s, NEW out, NEW verdict
  PROVE  LET d == Choose(s, Diagnosis(out, verdict))
         IN  /\ d.strategy \in Strategies
             /\ d.strategy = "ABORT" => d.end \in Endings \ {"COMPLETED"}
             /\ d.strategy # "ABORT" => ~(Len(run.tries) >= MaxRecovery)
             /\ d.strategy = "REPLAN" => provider
             /\ d.strategy = "CHANGE_TOOL" => Unused(s) # {}
             /\ d.strategy = "RETRY" => ~WasAttempted(s, "RETRY", task.plan.limit[s])
             /\ d.strategy = "RETRY_WITH_MODIFIED_INPUT" =>
                  Halved(task.plan.limit[s]) # task.plan.limit[s]
<1> DEFINE why == Diagnosis(out, verdict)
<1>1. /\ why.suggest \in {"ABORT", "CHANGE_TOOL", "CHANGE_PARAMETERS", "RETRY"}
      /\ why.suggest = "ABORT" => why.end \in {"BLOCKED", "FAILED"}
  BY DEF Diagnosis
<1> HIDE DEF why
<1>2. LET d == Suggested(s, why)
      IN  /\ d.strategy \in Strategies
          /\ d.strategy = "ABORT" => d.end \in Endings \ {"COMPLETED"}
          /\ d.strategy = "REPLAN" => provider
          /\ d.strategy = "CHANGE_TOOL" => Unused(s) # {}
          /\ d.strategy = "RETRY" => ~WasAttempted(s, "RETRY", task.plan.limit[s])
          /\ d.strategy = "RETRY_WITH_MODIFIED_INPUT" =>
               Halved(task.plan.limit[s]) # task.plan.limit[s]
  BY <1>1 DEF Suggested, ChangeTool, Abort, Strategies, Endings
<1>3. \/ Choose(s, why) = Abort("ABORTED") \/ Choose(s, why) = Abort("FAILED")
      \/ Choose(s, why) = Suggested(s, why) /\ ~(Len(run.tries) >= MaxRecovery)
  BY DEF Choose
<1> QED
  BY <1>2, <1>3 DEF Abort, Strategies, Endings, why

LEMMA Halving ==
  ASSUME NEW limit \in Nat
  PROVE  Halved(limit) \in Nat /\ (Halved(limit) # limit => Halved(limit) < limit)
BY DEF Halved

(* The first registered tool that is unused is one.                        *)
LEMMA FirstUnused ==
  ASSUME NEW s, Unused(s) # {} PROVE Earliest(Registry, Unused(s)) \in Unused(s) \cap Tools
<1>1. Registry \in Seq(Tools) /\ \E i \in DOMAIN Registry : Registry[i] \in Unused(s)
  BY SomeTools DEF Unused, Tools
<1> QED
  BY <1>1, EarliestIsIn

LEMMA NextPlansAreProposals ==
  ASSUME TypeOK, task.plan \in Proposals, NEW s \in Steps, NEW d,
         d.strategy = "CHANGE_TOOL" => Unused(s) # {}
  PROVE  NextPlans(s, d) \subseteq Proposals
<1>1. ASSUME NEW tool \in Tools \cup {"unregistered"}, NEW limit \in Nat
      PROVE  Rewritten(s, tool, limit) \in Proposals
  BY DEF Rewritten, Proposals
<1>2. task.plan.tool[s] \in Tools \cup {"unregistered"} /\ task.plan.limit[s] \in Nat
  BY DEF Proposals
<1>3. Halved(task.plan.limit[s]) \in Nat
  BY <1>2, Halving
<1>4. d.strategy = "CHANGE_TOOL" => Earliest(Registry, Unused(s)) \in Tools
  BY FirstUnused
<1> QED
  BY <1>1, <1>2, <1>3, <1>4, PlansAreProposed DEF NextPlans, ProviderPlans

(* What a recovery looks at, and the attempt it puts on record.            *)
LEMMA Recovering ==
  ASSUME RunInv, At("recovering")
  PROVE  LET d == Choose(Current, Diagnosis(run.out, run.verdict))
             a == [step |-> Current, strategy |-> d.strategy,
                   tool |-> task.plan.tool[Current], limit |-> task.plan.limit[Current]]
         IN  /\ Current \in Steps /\ task.plan \in Proposals /\ task.version \in Versions
             /\ a \in Attempts /\ Record(Current, d) = Append(run.tries, a)
             /\ ~provider => \A i \in DOMAIN run.tries : run.tries[i] # a
<1> DEFINE d == Choose(Current, Diagnosis(run.out, run.verdict))
           a == [step |-> Current, strategy |-> d.strategy,
                 tool |-> task.plan.tool[Current], limit |-> task.plan.limit[Current]]
<1>1. run.queue # {} /\ run.pc \in InRound /\ run.pc \notin Over /\ run.tries \in Seq(Attempts)
  BY DEF RunInv, TypeOK, Runs, RoundInv, InRound, Over, At
<1>2. Current \in Steps /\ task.plan \in Proposals /\ task.version \in Versions
  BY <1>1, CurrentStep
<1>3. task.plan.tool[Current] \in Tools \cup {"unregistered"} /\ task.plan.limit[Current] \in Nat
  BY <1>2 DEF Proposals
<1>4. /\ d.strategy \in Strategies
      /\ d.strategy = "REPLAN" => provider
      /\ d.strategy = "RETRY" => ~WasAttempted(Current, "RETRY", task.plan.limit[Current])
  BY Chosen
<1> HIDE DEF d
<1>5. a \in Attempts
  BY <1>2, <1>3, <1>4 DEF Attempts
<1>6. ASSUME ~provider, NEW i \in DOMAIN run.tries, run.tries[i] = a PROVE FALSE
  <2>1. /\ run.tries[i].step = Current /\ run.tries[i].strategy = d.strategy
        /\ run.tries[i].tool = task.plan.tool[Current]
        /\ run.tries[i].limit = task.plan.limit[Current]
    BY <1>6
  <2>2. /\ run.tries[i].strategy # "ABORT"
        /\ run.tries[i].strategy # "CHANGE_TOOL"
        /\ run.tries[i].strategy # "RETRY_WITH_MODIFIED_INPUT"
    BY <1>1, <1>3, <1>6, <2>1 DEF RunInv, TriesInv
  <2>3. d.strategy = "RETRY"
    BY <1>4, <1>6, <2>1, <2>2 DEF Strategies
  <2> QED
    BY <1>4, <1>6, <2>1, <2>3 DEF WasAttempted, Tried
<1> QED
  BY <1>2, <1>5, <1>6 DEF Record, d

LEMMA Appended ==
  ASSUME NEW S, NEW q \in Seq(S), NEW e \in S
  PROVE  /\ Append(q, e) \in Seq(S) /\ Len(Append(q, e)) = Len(q) + 1
         /\ \A i \in DOMAIN q : Append(q, e)[i] = q[i]
         /\ Append(q, e)[Len(q) + 1] = e
         /\ \A i \in DOMAIN Append(q, e) : i \in DOMAIN q \/ i = Len(q) + 1
OBVIOUS

(* A run that gives up, or whose new plan is rejected.                     *)
LEMMA GivingUpKeeps == RunInv /\ (RecoveryAborts \/ ReplanRejected) => RunInv'
<1> SUFFICES ASSUME RunInv, RecoveryAborts \/ ReplanRejected PROVE RunInv'
  OBVIOUS
<1> USE DEF At
<1> DEFINE d == Choose(Current, Diagnosis(run.out, run.verdict))
           tries == Record(Current, d)
           term == IF d.strategy = "ABORT" THEN d.end ELSE "BLOCKED"
           r == [run EXCEPT !.tries = tries, !.term = term, !.pc = "ending"]
<1>0. /\ run.pc = "recovering" /\ run' = r /\ exit' \in {"returned", "running"}
      /\ UNCHANGED <<provider, task, summary, resumes, ran, entry>>
      /\ run \in Runs /\ Len(run.tries) <= MaxRecovery
      /\ task.status = (IF entry.resumed THEN "FAILED" ELSE "READY")
      /\ run.latest[Current] \in Verdicts \ {"VERIFIED"}
  BY DEF RecoveryAborts, ReplanRejected, Goto, RunInv, TypeOK, TriesInv, Over, PointInv, StepInv
<1>1. PICK a \in Attempts :
        /\ tries = Append(run.tries, a)
        /\ ~provider => \A i \in DOMAIN run.tries : run.tries[i] # a
  BY <1>0, Recovering
<1>2. Current \in Steps
  BY <1>0, Recovering
<1>3. term \in Endings
  BY Chosen DEF Endings
<1>4. /\ tries \in Seq(Attempts) /\ Len(tries) = Len(run.tries) + 1
      /\ Len(run.tries) \in Nat
  BY <1>0, <1>1, Appended DEF Runs
<1> HIDE DEF tries, term, d
<1>5. r \in Runs /\ r.pc = "ending" /\ r.tries = tries /\ r.latest = run.latest
  BY <1>0, <1>3, <1>4 DEF Runs, PC
<1> HIDE DEF r
<1>6. TypeOK'
  BY <1>0, <1>4, <1>5, SomeRecovery DEF RunInv, TypeOK
<1>7. PointInv' /\ PlanInv'
  BY <1>0, <1>5 DEF RunInv, PointInv, PlanInv, Planless, Executing, Consistent
<1>8. ASSUME NEW k \in Keys PROVE ActionInv(k)'
  <2>1. ActionInv(k)
    BY DEF RunInv
  <2> QED
    BY <1>0, <1>5, <2>1 DEF ActionInv, Executing
<1>9. RoundInv' /\ StepInv'
  BY <1>0, <1>5 DEF RoundInv, StepInv, InRound, Executing
<1>10. EndInv'
  <2>1. ~AllVerified'
    BY <1>0, <1>2, <1>5 DEF AllVerified, Seen, Verdicts
  <2> QED
    BY <1>0, <1>5, <2>1 DEF RunInv, EndInv, SummaryAgrees, FirstRunNeverRaises
<1>11. TriesInv'
  <2>1. NoExactRepeat'
    <3>1. SUFFICES ASSUME ~provider, NEW i \in DOMAIN tries, NEW j \in DOMAIN tries,
                          tries[i] = tries[j]
                   PROVE  i = j
      BY <1>0, <1>5 DEF NoExactRepeat
    <3>2. run.tries \in Seq(Attempts) /\ NoExactRepeat
      BY <1>0 DEF RunInv, TriesInv, Runs
    <3> QED
      BY <1>1, <3>1, <3>2, Appended DEF NoExactRepeat
  <2> QED
    BY <1>0, <1>5, <2>1 DEF TriesInv, Over, Planless
<1> QED
  BY <1>6, <1>7, <1>8, <1>9, <1>10, <1>11 DEF RunInv

(* Without a provider a new plan leaves behind the tool of every change of *)
(* tool, and every input larger than its own.                              *)
LEMMA LeftBehind ==
  ASSUME RunInv, At("recovering"), ~provider,
         NEW d, d = Choose(Current, Diagnosis(run.out, run.verdict)),
         d.strategy # "ABORT", NEW p \in NextPlans(Current, d),
         NEW e, \/ e \in {run.tries[i] : i \in DOMAIN run.tries}
                \/ e = [step |-> Current, strategy |-> d.strategy,
                        tool |-> task.plan.tool[Current], limit |-> task.plan.limit[Current]]
  PROVE  /\ e.strategy = "CHANGE_TOOL" => e.tool # p.tool[e.step]
         /\ e.strategy = "RETRY_WITH_MODIFIED_INPUT" => e.limit > p.limit[e.step]
<1> DEFINE tool == task.plan.tool[Current]
           limit == task.plan.limit[Current]
           first == Earliest(Registry, Unused(Current))
<1>1. /\ run.tries \in Seq(Attempts) /\ run.pc \notin Over /\ task.plan \in Proposals
      /\ Current \in Steps
  BY Recovering DEF RunInv, TypeOK, Runs, Over, At
<1>2. tool \in Tools \cup {"unregistered"} /\ limit \in Nat
  BY <1>1 DEF Proposals
<1>3. /\ d.strategy \in Strategies \ {"ABORT", "REPLAN"}
      /\ d.strategy = "CHANGE_TOOL" => Unused(Current) # {}
      /\ d.strategy = "RETRY_WITH_MODIFIED_INPUT" => Halved(limit) # limit
  BY Chosen
<1>4. /\ e \in Attempts
      /\ e.step # Current =>
           /\ e.strategy = "CHANGE_TOOL" => e.tool # task.plan.tool[e.step]
           /\ e.strategy = "RETRY_WITH_MODIFIED_INPUT" => e.limit > task.plan.limit[e.step]
      /\ e.step = Current =>
           /\ e.strategy = "CHANGE_TOOL" => e.tool # tool \/ d.strategy = "CHANGE_TOOL"
           /\ e.strategy = "RETRY_WITH_MODIFIED_INPUT" =>
                e.limit > limit \/ (e.limit = limit /\ d.strategy = "RETRY_WITH_MODIFIED_INPUT")
           /\ d.strategy = "CHANGE_TOOL" => e.tool # first
  <2>1. CASE e \in {run.tries[i] : i \in DOMAIN run.tries}
    <3>1. PICK i \in DOMAIN run.tries : e = run.tries[i]
      BY <2>1
    <3>2. /\ e.strategy = "CHANGE_TOOL" => e.tool # task.plan.tool[e.step]
          /\ e.strategy = "RETRY_WITH_MODIFIED_INPUT" => e.limit > task.plan.limit[e.step]
      BY <1>1, <3>1 DEF RunInv, TriesInv
    <3>3. e.step = Current /\ d.strategy = "CHANGE_TOOL" => e.tool # first
      BY <1>3, <3>1, FirstUnused DEF Unused, Tried
    <3> QED
      BY <1>1, <3>1, <3>2, <3>3
  <2>2. CASE e = [step |-> Current, strategy |-> d.strategy, tool |-> tool, limit |-> limit]
    <3>1. d.strategy = "CHANGE_TOOL" => tool # first
      BY <1>3, FirstUnused DEF Unused
    <3> QED
      BY <1>1, <1>2, <1>3, <2>2, <3>1 DEF Attempts
  <2> QED
    BY <2>1, <2>2
<1>5. p = Rewritten(Current, IF d.strategy = "CHANGE_TOOL" THEN first ELSE tool,
                    IF d.strategy = "RETRY_WITH_MODIFIED_INPUT" THEN Halved(limit) ELSE limit)
  BY <1>3 DEF NextPlans, Strategies
<1> DEFINE newTool == IF d.strategy = "CHANGE_TOOL" THEN first ELSE tool
           newLimit == IF d.strategy = "RETRY_WITH_MODIFIED_INPUT" THEN Halved(limit) ELSE limit
<1>6. /\ p.tool[Current] = newTool /\ p.limit[Current] = newLimit
      /\ \A s \in Steps \ {Current} :
           p.tool[s] = task.plan.tool[s] /\ p.limit[s] = task.plan.limit[s]
  BY <1>1, <1>5 DEF Rewritten, Proposals
<1>7. /\ newLimit \in Nat /\ newLimit <= limit
      /\ d.strategy = "RETRY_WITH_MODIFIED_INPUT" => newLimit < limit
  BY <1>2, <1>3, Halving
<1>8. e.step \in Steps /\ e.limit \in Nat
  BY <1>4 DEF Attempts
<1> HIDE DEF newLimit, limit, tool, first
<1>9. CASE e.step = Current
  BY <1>2, <1>4, <1>6, <1>7, <1>8, <1>9
<1>10. CASE e.step # Current
  BY <1>4, <1>6, <1>8, <1>10
<1> QED
  BY <1>9, <1>10

LEMMA ReplannedKeeps == RunInv /\ Replanned => RunInv'
<1> SUFFICES ASSUME RunInv, Replanned PROVE RunInv'
  OBVIOUS
<1> USE DEF At
<1> DEFINE d == Choose(Current, Diagnosis(run.out, run.verdict))
           a == [step |-> Current, strategy |-> d.strategy,
                 tool |-> task.plan.tool[Current], limit |-> task.plan.limit[Current]]
           tries == Record(Current, d)
           v == task.version + 1
           r == [run EXCEPT !.tries = tries, !.out = "none", !.verdict = "none",
                            !.term = "FAILED", !.pc = "round"]
<1>1. PICK p \in NextPlans(Current, d) : Checkpoint(SetPlan(task, p, v), "READY", r)
  BY DEF Replanned
<1>0. /\ run.pc = "recovering" /\ d.strategy # "ABORT"
      /\ UNCHANGED <<provider, resumes, ran, entry>>
      /\ run \in Runs /\ resumes \in 0 .. MaxResumes
      /\ entry \in [resumed : BOOLEAN, clean : BOOLEAN]
      /\ task.status = (IF entry.resumed THEN "FAILED" ELSE "READY")
  BY DEF Replanned, RunInv, TypeOK, PointInv
<1>2. /\ Current \in Steps /\ task.plan \in Proposals /\ task.version \in Versions
      /\ a \in Attempts /\ tries = Append(run.tries, a)
      /\ ~provider => \A i \in DOMAIN run.tries : run.tries[i] # a
  BY <1>0, Recovering
<1>3. CASE entry.resumed
  <2>1. ~CanMove(task.status, "READY")
    BY <1>0, <1>3, TableMoves DEF Status
  <2>2. /\ run' = NoRun /\ exit' = "raised" /\ task' = task /\ summary' = summary
    BY <1>1, <2>1, SavesOrRaises
  <2> QED
    BY <1>0, <1>3, <2>2, Raising
<1>4. CASE ~entry.resumed
  <2>1. /\ task.status = "READY" /\ CanMove(task.status, "READY")
        /\ Len(run.tries) \in Nat /\ Len(run.tries) < MaxRecovery
        /\ task.version = Len(run.tries) + 1
    <3>1. ~(Len(run.tries) >= MaxRecovery)
      BY <1>0, Chosen
    <3>2. Len(run.tries) \in Nat /\ task.version = Len(run.tries) + 1
      BY <1>0, <1>4 DEF RunInv, TriesInv, Runs, Over, Planless
    <3> QED
      BY <1>0, <1>4, <3>1, <3>2, SomeRecovery, TableMoves
  <2>2. v \in Versions /\ v = Len(run.tries) + 2
    BY <2>1, SomeRecovery DEF Versions
  <2>3. p \in Proposals
    <3>1. d.strategy = "CHANGE_TOOL" => Unused(Current) # {}
      BY Chosen
    <3> QED
      BY <1>1, <1>2, <3>1, NextPlansAreProposals DEF RunInv
  <2>4. \A k \in task.done : task.rec[k].st = "VERIFIED"
    BY <1>2, PlansAreProposed DEF RunInv, PlanInv, Consistent
  <2>5. /\ tries \in Seq(Attempts) /\ Len(tries) = Len(run.tries) + 1
        /\ run.tries \in Seq(Attempts)
    BY <1>0, <1>2, Appended DEF Runs
  <2>6. /\ \A e \in {run.tries[i] : i \in DOMAIN run.tries} \cup {a} :
             ~provider =>
               /\ e.strategy = "CHANGE_TOOL" => e.tool # p.tool[e.step]
               /\ e.strategy = "RETRY_WITH_MODIFIED_INPUT" => e.limit > p.limit[e.step]
    BY <1>0, <1>1, LeftBehind
  <2> HIDE DEF tries, v
  <2>7. /\ r \in Runs /\ r.pc = "round" /\ r.tries = tries
    BY <1>0, <2>5 DEF Runs, PC, Endings
  <2> HIDE DEF r
  <2>8. /\ task' \in Tasks /\ task'.status = "READY"
        /\ task'.plan = p /\ task'.version = v /\ task'.done = task.done
        /\ task'.rec = task.rec /\ Consistent(task')
        /\ run' = r /\ exit' \in {"returned", "running"}
        /\ summary' \in {"open", "completed", "failed", "blocked", "aborted"}
        /\ summary' # "completed"
    BY <1>1, <2>1, <2>2, <2>3, <2>4, PlanSaved
  <2>9. TypeOK'
    BY <1>0, <2>1, <2>5, <2>7, <2>8, SomeRecovery DEF RunInv, TypeOK
  <2>10. PointInv' /\ PlanInv'
    BY <2>3, <2>7, <2>8, PlansAreProposed DEF PointInv, PlanInv, Executing
  <2>11. ASSUME NEW k \in Keys PROVE ActionInv(k)'
    <3>1. ActionInv(k)
      BY DEF RunInv
    <3> QED
      BY <1>0, <2>7, <2>8, <3>1 DEF ActionInv, Executing
  <2>12. RoundInv' /\ StepInv' /\ EndInv'
    BY <2>7, <2>8 DEF RoundInv, StepInv, EndInv, InRound, Executing, SummaryAgrees,
       FirstRunNeverRaises
  <2>13. TriesInv'
    <3>1. \A i \in DOMAIN tries : \/ (i \in DOMAIN run.tries /\ tries[i] = run.tries[i])
                                 \/ (i = Len(run.tries) + 1 /\ tries[i] = a)
      BY <1>2, <2>5, Appended
    <3>2. /\ \A i \in DOMAIN run.tries : run.tries[i].strategy # "ABORT"
          /\ NoExactRepeat
      BY <1>0 DEF RunInv, TriesInv, Over
    <3>3. a.strategy # "ABORT"
      BY <1>0
    <3> HIDE DEF a
    <3>4. \A i \in DOMAIN tries : tries[i].strategy # "ABORT"
      BY <3>1, <3>2, <3>3
    <3>5. ~provider => \A i, j \in DOMAIN tries : tries[i] = tries[j] => i = j
      BY <1>2, <3>1, <3>2 DEF NoExactRepeat
    <3>6. ~provider => \A i \in DOMAIN tries :
            /\ tries[i].strategy = "CHANGE_TOOL" => tries[i].tool # p.tool[tries[i].step]
            /\ tries[i].strategy = "RETRY_WITH_MODIFIED_INPUT" =>
                 tries[i].limit > p.limit[tries[i].step]
      BY <2>6, <3>1
    <3>7. Len(tries) <= MaxRecovery /\ v = Len(tries) + 1
      BY <2>1, <2>2, <2>5, SomeRecovery
    <3> QED
      BY <1>0, <2>7, <2>8, <3>4, <3>5, <3>6, <3>7 DEF TriesInv, Planless, NoExactRepeat
  <2> QED
    BY <2>9, <2>10, <2>11, <2>12, <2>13 DEF RunInv
<1> QED
  BY <1>3, <1>4

-----------------------------------------------------------------------------
(* The invariant *)

LEMMA StutteringKeeps == RunInv /\ UNCHANGED vars => RunInv'
<1> SUFFICES ASSUME RunInv, UNCHANGED vars PROVE RunInv'
  OBVIOUS
<1> USE DEF vars, At
<1>1. TypeOK' /\ PointInv' /\ PlanInv'
  BY DEF RunInv, TypeOK, PointInv, PlanInv, Consistent
<1>2. Here' = Here /\ Current' = Current
  BY DEF Here, Current
<1>3. ASSUME NEW k \in Keys PROVE ActionInv(k)'
  BY <1>2 DEF RunInv, ActionInv
<1>4. RoundInv' /\ StepInv'
  BY <1>2 DEF RunInv, RoundInv, StepInv
<1>5. EndInv'
  BY DEF RunInv, EndInv, AllVerified, Seen, SummaryAgrees, FirstRunNeverRaises
<1>6. TriesInv'
  BY DEF RunInv, TriesInv, NoExactRepeat
<1> QED
  BY <1>1, <1>3, <1>4, <1>5, <1>6 DEF RunInv

LEMMA NextRunInv == RunInv /\ [Next]_vars => RunInv'
<1> SUFFICES ASSUME RunInv, [Next]_vars PROVE RunInv'
  OBVIOUS
<1>1. CASE Proceed
  BY <1>1, StatusesKeep, PlanAcceptedKeeps, StoppedKeep, MovesKeep, StartRoundKeeps,
     BeforeExecutionKeeps, ExecutionKeeps, AfterExecutionKeeps, ObserveKeeps,
     StepVerifiedKeeps, StepFailedKeeps, GivingUpKeeps, ReplannedKeeps, ConcludeKeeps,
     ResumesThatStopKeep, ResumesKeep
     DEF Proceed
<1>2. CASE Return \/ Crash \/ ResumeUncertain \/ ResolutionRefused \/ Resume
  BY <1>2, ExecutionKeeps, StoppedKeep, ResumesThatStopKeep, ResumesKeep
<1>3. CASE UNCHANGED vars
  BY <1>3, StutteringKeeps
<1> QED
  BY <1>1, <1>2, <1>3 DEF Next

LEMMA AlwaysRunInv == Spec => []RunInv
BY InitRunInv, NextRunInv, PTL DEF Spec

-----------------------------------------------------------------------------
(* The safety properties *)

(* The types of the durable state and of the run, with the bounds on plan  *)
(* versions and attempts that the limit of recoveries promises.            *)
THEOREM RunTypeCorrect == Spec => []TypeOK
BY AlwaysRunInv, PTL DEF RunInv

(* A task saved as COMPLETED is one whose every step was run, succeeded    *)
(* and was verified under the current plan version, with nothing in doubt. *)
THEOREM CompletionIsProved == Spec => []CompletedIsProved
<1>1. RunInv => CompletedIsProved
  <2> SUFFICES ASSUME RunInv, task.status = "COMPLETED" PROVE CompletedIsProved
    BY DEF CompletedIsProved
  <2>1. /\ run.pc \in {"idle", "learning"} /\ task.done \subseteq Keys
        /\ KeysOf(task.version, task.plan) \subseteq task.done
    BY DEF RunInv, EndInv, TypeOK, Tasks
  <2>2. ASSUME NEW k \in Keys PROVE ran[k] # "doubt"
    BY <2>1 DEF RunInv, ActionInv, Executing, At
  <2>3. ASSUME NEW k \in KeysOf(task.version, task.plan)
        PROVE  task.rec[k] = [st |-> "VERIFIED", out |-> "success"] /\ ran[k] = "verified"
    BY <2>1 DEF RunInv, ActionInv
  <2> QED
    BY <2>2, <2>3 DEF CompletedIsProved
<1> QED
  BY <1>1, AlwaysRunInv, PTL

(* Only a resumed run saves what validate or the transition table refuse.  *)
THEOREM FirstRunsAreLegal == Spec => []FirstRunNeverRaises
BY AlwaysRunInv, PTL DEF RunInv, EndInv

(* The tasks row and the durable state call the same tasks completed.      *)
THEOREM RowAgrees == Spec => []SummaryAgrees
BY AlwaysRunInv, PTL DEF RunInv, EndInv

(* Without a provider no recovery decision is made twice in a run.         *)
THEOREM RecoveriesDiffer == Spec => []NoExactRepeat
BY AlwaysRunInv, PTL DEF RunInv, TriesInv

-----------------------------------------------------------------------------
(* The action properties *)

(* Nothing but Invoke starts an operation, that of the step under way.     *)
LEMMA OnlyInvokeStarts ==
  ASSUME RunInv, [Next]_vars, NEW k \in Keys, ran[k] # ran'[k], ran'[k] = "doubt"
  PROVE  At("boundary") /\ MissingNeeds(Current) = {} /\ k = Here
<1>1. ran \in [Keys -> {"never", "doubt", "result", "verified", "failed"}]
  BY DEF RunInv, TypeOK
<1>2. CASE Invoke
  BY <1>1, <1>2 DEF Invoke, Here
<1>3. CASE AfterExecution \/ StepVerified \/ StepFailed
  BY <1>1, <1>3 DEF AfterExecution, StepVerified, StepFailed
<1>4. CASE /\ ~Invoke /\ ~(AfterExecution \/ StepVerified \/ StepFailed)
           /\ Proceed
  BY <1>4 DEF Proceed, StartPlanning, PlanAccepted, PlanRejected, PreflightAllowed,
     PreflightBlocked, ReportBlocked, StartRound, BeforeExecution, ReuseResult, Refuse, Observe,
     RecoveryAborts, Replanned, ReplanRejected, RoundDone, Conclude, Archive,
     ResumeWithoutPlan, ResumeBlocked, ResumeAllowed
<1>5. CASE Return \/ Crash \/ ResumeUncertain \/ ResolutionRefused \/ Resume
  BY <1>5 DEF Return, Crash, ResumeUncertain, ResolutionRefused, Resume
<1>6. CASE UNCHANGED vars
  BY <1>6 DEF vars
<1> QED
  BY <1>2, <1>3, <1>4, <1>5, <1>6 DEF Next

(* No operation is started twice unless its failure is on record, and none *)
(* while another one is in doubt.                                          *)
THEOREM FreshStarts == Spec => StartsAreFresh
<1>1. ASSUME RunInv, [Next]_vars, NEW k \in Keys, ran[k] # ran'[k], ran'[k] = "doubt"
      PROVE  ran[k] \in {"never", "failed"} /\ \A j \in Keys : ran[j] # "doubt"
  <2>1. At("boundary") /\ k = Here /\ ran[Here] \in {"never", "failed"}
    BY <1>1, OnlyInvokeStarts DEF RunInv, StepInv
  <2>2. ASSUME NEW j \in Keys, ran[j] = "doubt" PROVE FALSE
    BY <2>1, <2>2, <1>1 DEF RunInv, ActionInv, At
  <2> QED
    BY <2>1, <2>2
<1>2. RunInv /\ [Next]_vars =>
        [\A k \in Keys : ran[k] # ran'[k] /\ ran'[k] = "doubt" =>
           ran[k] \in {"never", "failed"} /\ \A j \in Keys : ran[j] # "doubt"]_vars
  BY <1>1
<1> QED
  BY <1>2, AlwaysRunInv, PTL DEF Spec, StartsAreFresh

(* Whatever order a plan lists its steps in, none starts before those it   *)
(* depends on are verified under the same version.                         *)
THEOREM NeedsComeFirst == Spec => StartsAfterNeeds
<1>1. ASSUME RunInv, [Next]_vars, NEW k \in Keys, ran[k] # ran'[k], ran'[k] = "doubt"
      PROVE  \A d \in task.plan.needs[k[2]] : <<k[1], d>> \in task.done
  <2>1. At("boundary") /\ k = Here /\ MissingNeeds(Current) = {}
    BY <1>1, OnlyInvokeStarts
  <2>2. run.pc \in InRound /\ run.queue # {}
    BY <1>1, <2>1 DEF RunInv, RoundInv, InRound, Executing, At
  <2>3. /\ k[1] = task.version /\ k[2] = Current
        /\ task.plan.needs[Current] \subseteq Steps
    BY <1>1, <2>1, <2>2, CurrentStep DEF Here, Proposals
  <2>4. ASSUME NEW d \in task.plan.needs[Current] PROVE run.prev[d] = "success"
    BY <2>1 DEF MissingNeeds
  <2> QED
    BY <1>1, <2>1, <2>2, <2>3, <2>4 DEF RunInv, RoundInv, At
<1>2. RunInv /\ [Next]_vars =>
        [\A k \in Keys : ran[k] # ran'[k] /\ ran'[k] = "doubt" =>
           \A d \in task.plan.needs[k[2]] : <<k[1], d>> \in task.done]_vars
  BY <1>1
<1> QED
  BY <1>2, AlwaysRunInv, PTL DEF Spec, StartsAfterNeeds
=============================================================================
