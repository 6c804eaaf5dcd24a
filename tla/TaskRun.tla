------------------------------ MODULE TaskRun ------------------------------
(***************************************************************************)
(* One task from its goal to its end, as the orchestrator runs it: a plan  *)
(* is validated, its steps are executed, observed and verified one after   *)
(* the other, a failure is diagnosed and answered by one recovery          *)
(* decision, a new plan version replaces the old one, and everything that  *)
(* must survive a crash is in the durable TaskState.  The task is not on   *)
(* the queue (LeaseQueue models that), so after a crash resume_task is     *)
(* called on it directly.  One runner at a time.                           *)
(*                                                                         *)
(* Abstracted: goals, evidence, memory and every text; a step's input is   *)
(* its `limit', the one field a recovery modifies; an action key is its    *)
(* plan version and its step, because tool and input are fixed by the two. *)
(***************************************************************************)
EXTENDS Naturals, Sequences, FiniteSets, TaskStatus

CONSTANTS Steps,        \* step ids
          Registry,     \* registered tools, in the order describe() lists them
          Granted,      \* tools whose permission level is approved
          Proposed,     \* plans that a planner or a provider may propose
          NoPlan,
          MaxSteps,     \* max_steps of the planner
          MaxLimit,     \* largest `limit' an input schema admits
          FallbackLimit, \* `limit' of a plan made without a provider
          MaxRecovery,  \* max_recovery_attempts
          MaxPerStep,   \* max_attempts_per_step
          MaxResumes    \* bound on how often the task is resumed

Tools == {Registry[i] : i \in DOMAIN Registry}

(* What a planner or a provider may answer, before any validation.  All    *)
(* tools that are not registered are the same to the program.              *)
Proposals ==
  [order : Seq(Steps), needs : [Steps -> SUBSET Steps],
   tool : [Steps -> Tools \cup {"unregistered"}], limit : [Steps -> Nat]]

ASSUME SomeSteps == Steps # {}
ASSUME SomeTools == Registry \in Seq(Tools) \ {<<>>}
ASSUME GrantedAreTools == Granted \subseteq Tools
ASSUME PlansAreProposed == Proposed \subseteq Proposals /\ NoPlan \notin Proposals
ASSUME SomeRecovery == MaxRecovery \in Nat /\ MaxPerStep \in Nat \ {0}
ASSUME SomeBounds == {MaxSteps, MaxLimit, FallbackLimit, MaxResumes} \subseteq Nat

VARIABLES
  provider,  \* a language model is configured for planning and replanning
  task,      \* the durable TaskState
  summary,   \* status in the task's row of the tasks table
  run,       \* locals of the run or resume_task under way
  resumes,   \* how often the task was resumed
  ran,       \* history: what the outside world knows of each action
  entry,     \* history: the latest run was a resume; nothing spoiled it so far
  exit       \* history: how the latest run ended

vars == <<provider, task, summary, run, resumes, ran, entry, exit>>

Versions == 1 .. MaxRecovery + 1
Keys == Versions \X Steps

(* Error codes of a step, one of each kind the diagnosis tells apart.  The *)
(* first are given before the operation is invoked (security_policy_blocked*)
(* also stands for a refusal at the boundary), the others after it.        *)
Dependency == {"missing_dependency", "dependency_failed"}
Refusals == {"permission_not_approved", "security_policy_blocked", "invalid_input"}
Failures == {"timeout", "tool_exception"}
Outcomes == {"success"} \cup Dependency \cup Refusals \cup Failures
Blocked == Dependency \cup (Refusals \ {"invalid_input"})
Verdicts == {"VERIFIED", "INSUFFICIENT", "FAILED", "BLOCKED"}

-----------------------------------------------------------------------------
(* Plans.                                                                  *)

(* The first element of a sequence that is in a set.                       *)
Earliest(seq, S) ==
  seq[CHOOSE i \in DOMAIN seq : seq[i] \in S /\ \A j \in 1 .. i - 1 : seq[j] \notin S]

Members(p) == {p.order[i] : i \in DOMAIN p.order}
KeysOf(v, p) == {<<v, s>> : s \in Members(p)}

(* Planner._has_cycle: every set of steps has one that needs none of them. *)
Acyclic(p) ==
  \A S \in SUBSET Members(p) \ {{}} : \E s \in S : p.needs[s] \cap S = {}

(* Planner._validate_input, against the schema of the step's tool.         *)
InputFits(p, s) == p.limit[s] \in 1 .. MaxLimit

(* Planner.validate: what a proposal has to satisfy to become a plan.      *)
ValidPlan(p) ==
  /\ Len(p.order) \in 1 .. MaxSteps
  /\ Cardinality(Members(p)) = Len(p.order)
  /\ \A s \in Members(p) : /\ p.tool[s] \in Granted
                           /\ InputFits(p, s)
                           /\ p.needs[s] \subseteq Members(p)
  /\ Acyclic(p)

(* Planner._unavailable_fallback: one step with the tool that learned      *)
(* strategies prefer, or else the first one they do not avoid.             *)
FallbackTool(preferred, avoided) ==
  LET allowed == Tools \ avoided
  IN  CASE preferred \in Tools -> preferred
        [] preferred \notin Tools /\ allowed # {} -> Earliest(Registry, allowed)
        [] OTHER -> Head(Registry)

Fallback(tool) ==
  [order |-> <<CHOOSE s \in Steps : TRUE>>, needs |-> [s \in Steps |-> {}],
   tool |-> [s \in Steps |-> tool], limit |-> [s \in Steps |-> FallbackLimit]]

(* _learned_preferred_tool and _learned_avoided_tools give any advice.     *)
LearnedAdvice == (Tools \cup {"none"}) \X SUBSET Tools

(* Planner.create: what the provider answers, or the fallback without one. *)
PlannerAnswers ==
  IF provider THEN Proposed
  ELSE {Fallback(FallbackTool(advice[1], advice[2])) : advice \in LearnedAdvice}

-----------------------------------------------------------------------------
(* The durable state and its checkpoints.                                  *)

(* TaskState.set_plan.                                                     *)
SetPlan(t, p, v) ==
  [t EXCEPT !.plan = p, !.version = v, !.todo = KeysOf(v, p) \ t.done]

(* TaskState.mark_action for the current version of step s.                *)
Mark(t, s, st) ==
  LET k == <<t.version, s>>
      done == IF st = "VERIFIED" THEN t.done \cup {k} ELSE t.done
  IN  [t EXCEPT !.rec[k].st = st, !.done = done, !.todo = t.todo \ done]

(* TaskState.validate, run before every save.                              *)
Consistent(t) ==
  /\ t.plan # NoPlan =>
       /\ t.version >= 1
       /\ t.done \cup t.todo \subseteq
            KeysOf(t.version, t.plan) \cup {k \in Keys : t.rec[k].st # "ABSENT"}
       /\ t.done \cap t.todo = {}
       /\ \A k \in t.done : t.rec[k].st = "VERIFIED"
  /\ t.status = "COMPLETED" => t.verified

(* The tasks row repeats the status; only an ending matters here.          *)
Row(status) ==
  CASE status = "COMPLETED" -> "completed"
    [] status = "FAILED"    -> "failed"
    [] status = "BLOCKED"   -> "blocked"
    [] OTHER                -> "open"

NoRun == [pc |-> "idle", round |-> 0, max |-> 0, queue |-> {},
          prev |-> [s \in Steps |-> "absent"], latest |-> [s \in Steps |-> "none"],
          out |-> "none", verdict |-> "none", term |-> "FAILED", tries |-> <<>>]

(* The run goes on at r, or has returned when r is NoRun.                  *)
Goto(r) ==
  /\ run' = r
  /\ exit' = IF r = NoRun THEN "returned" ELSE "running"

(* A checkpoint: the move must be in the transition table and the state    *)
(* consistent, then state and summary are written in one transaction.      *)
(* Otherwise an exception ends the run and nothing is written.             *)
Checkpoint(t, status, r) ==
  LET next == [t EXCEPT !.status = status]
  IN  IF CanMove(task.status, status) /\ Consistent(next)
      THEN /\ task' = next
           /\ summary' = Row(status)
           /\ Goto(r)
      ELSE /\ run' = NoRun
           /\ exit' = "raised"
           /\ UNCHANGED <<task, summary>>

At(pc) == run.pc = pc
To(pc) == [run EXCEPT !.pc = pc]
Spoiled == entry' = [entry EXCEPT !.clean = FALSE]

-----------------------------------------------------------------------------
(* Orchestrator.run up to the first round.  Init is the state just saved   *)
(* by TASK_CREATED.                                                        *)

Init ==
  /\ provider \in BOOLEAN
  /\ task = [status |-> "CREATED", version |-> 0, plan |-> NoPlan, done |-> {},
             todo |-> {}, count |-> 0, verified |-> FALSE,
             rec |-> [k \in Keys |-> [st |-> "ABSENT", out |-> "none"]]]
  /\ summary = "open"
  /\ run = [NoRun EXCEPT !.pc = "created", !.max = MaxRecovery + 1]
  /\ resumes = 0
  /\ ran = [k \in Keys |-> "never"]
  /\ entry = [resumed |-> FALSE, clean |-> TRUE]
  /\ exit = "running"

StartPlanning ==
  /\ At("created")
  /\ Checkpoint(task, "PLANNING", To("planning"))
  /\ UNCHANGED <<provider, resumes, ran, entry>>

(* The planner proposes, validate accepts: TASK_PLANNING becomes version 1.*)
PlanAccepted ==
  /\ At("planning")
  /\ \E p \in PlannerAnswers :
       /\ ValidPlan(p)
       /\ Checkpoint(SetPlan(task, p, 1), "READY", To("planned"))
  /\ UNCHANGED <<provider, resumes, ran, entry>>

(* PLAN_REJECTED: the exception leaves the durable state at PLANNING.      *)
PlanRejected ==
  /\ At("planning")
  /\ \E p \in PlannerAnswers : ~ValidPlan(p)
  /\ run' = NoRun
  /\ exit' = "rejected"
  /\ UNCHANGED <<provider, task, summary, resumes, ran, entry>>

PreflightAllowed ==
  /\ At("planned")
  /\ Goto(To("round"))
  /\ UNCHANGED <<provider, task, summary, resumes, ran, entry>>

PreflightBlocked ==
  /\ At("planned")
  /\ \E status \in {"WAITING_APPROVAL", "BLOCKED"} :
       Checkpoint(task, status, To("blocked"))
  /\ UNCHANGED <<provider, resumes, ran, entry>>

(* _security_blocked_result: the status is saved once more with the result *)
(* and the row says blocked, also for a task that waits for an approval.   *)
ReportBlocked ==
  /\ At("blocked")
  /\ Goto(NoRun)
  /\ summary' = "blocked"
  /\ UNCHANGED <<provider, task, resumes, ran, entry>>

-----------------------------------------------------------------------------
(* The rounds of run and of _resume_execute_state.                         *)

(* Steps whose action is not completed.                                    *)
Pending(t) == {s \in Members(t.plan) : <<t.version, s>> \notin t.done}

(* A round takes its steps in the order the plan lists them.               *)
Current == Earliest(task.plan.order, run.queue)

(* The outcomes a round starts from: none, or after a resume the verified  *)
(* ones, of whatever plan version.                                         *)
KnownOutcomes ==
  [s \in Steps |-> IF entry.resumed /\ \E v \in Versions : <<v, s>> \in task.done
                   THEN "VERIFIED" ELSE "none"]

(* The limit of recovery attempts ends a run before the round limit does.  *)
StartRound ==
  /\ At("round")
  /\ run.round < run.max
  /\ LET queue == Pending(task)
     IN  Goto([run EXCEPT !.round = @ + 1,
                          !.latest = KnownOutcomes,
                          !.prev = NoRun.prev,
                          !.queue = queue,
                          !.term = IF queue = {} THEN "COMPLETED" ELSE @,
                          !.pc = IF queue = {} THEN "ending" ELSE "stepping"])
  /\ UNCHANGED <<provider, task, summary, resumes, ran, entry>>

(* Mutant of Reusable: only a verified result is used.                     *)
ReusableIfVerified(s) ==
  /\ entry.resumed
  /\ task.rec[<<task.version, s>>].st = "VERIFIED"

(* A result saved before an interruption is used instead of a new start.   *)
Reusable(s) ==
  /\ entry.resumed
  /\ task.rec[<<task.version, s>>].st = "OBSERVING"

(* The record is EXECUTING in the durable state before anything is invoked.*)
BeforeExecution ==
  /\ At("stepping")
  /\ run.queue # {}
  /\ ~Reusable(Current)
  /\ Checkpoint([Mark(task, Current, "EXECUTING") EXCEPT !.count = run.round],
                "EXECUTING", To("boundary"))
  /\ UNCHANGED <<provider, resumes, ran, entry>>

ReuseResult ==
  /\ At("stepping")
  /\ run.queue # {}
  /\ Reusable(Current)
  /\ LET out == task.rec[<<task.version, Current>>].out
     IN  /\ Goto([run EXCEPT !.out = out, !.pc = "observing"])
         /\ entry' = [entry EXCEPT !.clean = @ /\ out = "success"]
  /\ UNCHANGED <<provider, task, summary, resumes, ran>>

(* Mutant of MissingNeeds: a step that has not run yet is not missed.      *)
FailedNeeds(s) ==
  LET bad == {d \in task.plan.needs[s] : run.prev[d] \notin {"absent", "success"}}
  IN  {"dependency_failed" : d \in bad}

(* GenericExecutor._check_dependencies, against the results of this round. *)
MissingNeeds(s) ==
  LET bad == {d \in task.plan.needs[s] : run.prev[d] # "success"}
  IN  {IF run.prev[d] = "absent" THEN "missing_dependency" ELSE "dependency_failed" :
         d \in bad}

(* execute_step ends before the operation: dependencies are looked at      *)
(* first, then the policy, the permission and the input schema.            *)
Refuse ==
  /\ At("boundary")
  /\ LET missing == MissingNeeds(Current)
     IN  \E out \in IF missing # {} THEN missing ELSE Refusals :
           /\ Goto([run EXCEPT !.out = out, !.pc = "returned"])
           /\ entry' = [entry EXCEPT !.clean = @ /\ out \in Dependency]
  /\ UNCHANGED <<provider, task, summary, resumes, ran>>

Invoke ==
  /\ At("boundary")
  /\ MissingNeeds(Current) = {}
  /\ Goto(To("running"))
  /\ ran' = [ran EXCEPT ![<<task.version, Current>>] = "doubt"]
  /\ UNCHANGED <<provider, task, summary, resumes, entry>>

Return ==
  /\ At("running")
  /\ \E out \in {"success"} \cup Failures :
       /\ Goto([run EXCEPT !.out = out, !.pc = "returned"])
       /\ entry' = [entry EXCEPT !.clean = @ /\ out = "success"]
  /\ UNCHANGED <<provider, task, summary, resumes, ran>>

AfterExecution ==
  /\ At("returned")
  /\ LET s == Current
         k == <<task.version, s>>
     IN  /\ Checkpoint([Mark(task, s, "OBSERVING") EXCEPT !.rec[k].out = run.out],
                       "OBSERVING",
                       [run EXCEPT !.prev[s] = run.out, !.pc = "observing"])
         /\ ran' = [ran EXCEPT ![k] = IF @ = "doubt" THEN "result" ELSE @]
  /\ UNCHANGED <<provider, resumes, entry>>

(* GenericVerifier.verify: criteria or output may be missing, required     *)
(* fields too.                                                             *)
GenericVerdicts(out) ==
  CASE out = "success" -> {"VERIFIED", "INSUFFICIENT", "FAILED"}
    [] out \in Blocked -> {"BLOCKED"}
    [] OTHER           -> {"FAILED"}

(* WebResearchVerifier.verify: too few valid sources are INSUFFICIENT;     *)
(* reported errors, a wrong form and missing terms are FAILED.             *)
ResearchVerdicts(out) ==
  CASE out = "success" -> {"VERIFIED", "INSUFFICIENT", "FAILED"}
    [] out \in Blocked -> {"BLOCKED"}
    [] OTHER           -> {"FAILED"}

(* VerifierRegistry.verify: an unknown verifier is BLOCKED, one that       *)
(* raises FAILED, and nothing but a success can be VERIFIED.               *)
VerdictsOn(out) ==
  {v \in {"BLOCKED", "FAILED"} \cup GenericVerdicts(out) \cup ResearchVerdicts(out) :
     v = "VERIFIED" => out = "success"}

(* _observe_verify_diagnose and the checkpoint AFTER_OBSERVATION.  After a *)
(* reuse the status is still READY, which has no move to VERIFYING.        *)
Observe ==
  /\ At("observing")
  /\ LET s == Current
     IN  \E verdict \in VerdictsOn(run.out) :
           /\ Checkpoint(task, "VERIFYING",
                         [run EXCEPT !.verdict = verdict, !.latest[s] = verdict,
                                     !.prev[s] = run.out, !.pc = "verified"])
           /\ entry' = [entry EXCEPT
                          !.clean = @ /\ (verdict = "VERIFIED" \/ run.out \in Dependency)]
  /\ UNCHANGED <<provider, resumes, ran>>

Proven == run.verdict = "VERIFIED" /\ run.out = "success"

(* AFTER_VERIFICATION: the action is completed, the next step may begin.   *)
StepVerified ==
  /\ At("verified")
  /\ Proven
  /\ LET s == Current
     IN  /\ Checkpoint(Mark(task, s, "VERIFIED"), "READY",
                       [run EXCEPT !.queue = @ \ {s}, !.out = "none",
                                   !.verdict = "none", !.pc = "stepping"])
         /\ ran' = [ran EXCEPT ![<<task.version, s>>] = "verified"]
  /\ UNCHANGED <<provider, resumes, entry>>

(* Mutants of StepFailed: the step is tried again without a decision; a    *)
(* first run saves the failure as FAILED too.                              *)
StepFailedAgain ==
  /\ At("verified")
  /\ ~Proven
  /\ Checkpoint(Mark(task, Current, "FAILED"), "READY", To("stepping"))
  /\ ran' = [ran EXCEPT ![<<task.version, Current>>] = "failed"]
  /\ UNCHANGED <<provider, resumes, entry>>

StepFailedFinally ==
  /\ At("verified")
  /\ ~Proven
  /\ LET s == Current
     IN  /\ Checkpoint(Mark(task, s, "FAILED"), "FAILED", To("recovering"))
         /\ ran' = [ran EXCEPT ![<<task.version, s>>] = IF @ = "never" THEN @ ELSE "failed"]
  /\ UNCHANGED <<provider, resumes, entry>>

(* A resumed run saves the failure as FAILED, a terminal status.           *)
StepFailed ==
  /\ At("verified")
  /\ ~Proven
  /\ LET s == Current
     IN  /\ Checkpoint(Mark(task, s, "FAILED"),
                       IF entry.resumed THEN "FAILED" ELSE "READY", To("recovering"))
         /\ ran' = [ran EXCEPT ![<<task.version, s>>] = IF @ = "never" THEN @ ELSE "failed"]
  /\ UNCHANGED <<provider, resumes, entry>>

-----------------------------------------------------------------------------
(* Diagnosis, recovery and replanning.                                     *)

(* FailureDiagnoser.diagnose: the recovery suggested for an outcome, or    *)
(* how the task ends when the failure is not recoverable.                  *)
Diagnosis(out, verdict) ==
  CASE out = "success" ->
         IF verdict = "BLOCKED" THEN [suggest |-> "ABORT", end |-> "FAILED"]
         ELSE [suggest |-> "CHANGE_TOOL", end |-> "none"]
    [] out = "permission_not_approved" -> [suggest |-> "ABORT", end |-> "BLOCKED"]
    [] out \in Dependency -> [suggest |-> "ABORT", end |-> "FAILED"]
    [] out = "invalid_input" -> [suggest |-> "CHANGE_PARAMETERS", end |-> "none"]
    [] out = "tool_exception" -> [suggest |-> "CHANGE_TOOL", end |-> "none"]
    [] OTHER -> [suggest |-> "RETRY", end |-> "none"]

Tried(s) == {i \in DOMAIN run.tries : run.tries[i].step = s}

(* Mutant of WasAttempted: looks for the input a retry would have had.     *)
WasAttemptedChanged(s, strategy, limit) ==
  \E i \in Tried(s) :
     /\ run.tries[i].strategy = strategy
     /\ run.tries[i].tool = task.plan.tool[s]
     /\ run.tries[i].limit = limit \div 2

(* RecoveryManager._was_attempted.                                         *)
WasAttempted(s, strategy, limit) ==
  \E i \in Tried(s) :
     /\ run.tries[i].strategy = strategy
     /\ run.tries[i].tool = task.plan.tool[s]
     /\ run.tries[i].limit = limit

(* _find_alternative: the registered tools that are neither the one that   *)
(* failed nor the one of an earlier attempt at the step; the first is used.*)
Unused(s) ==
  {t \in Tools : t # task.plan.tool[s] /\ \A i \in Tried(s) : run.tries[i].tool # t}

Halved(limit) == IF limit > 1 THEN limit \div 2 ELSE limit

Abort(end) == [strategy |-> "ABORT", end |-> end]
ChangeTool(s) ==
  IF Unused(s) # {} THEN [strategy |-> "CHANGE_TOOL", end |-> "none"] ELSE Abort("FAILED")

(* RecoveryManager.choose after its limits: what the diagnosis suggests.   *)
Suggested(s, why) ==
  LET limit == task.plan.limit[s]
  IN  CASE why.suggest = "ABORT" -> Abort(why.end)
        [] why.suggest = "CHANGE_TOOL" ->
             IF provider /\ Unused(s) = {}
             THEN [strategy |-> "REPLAN", end |-> "none"] ELSE ChangeTool(s)
        [] why.suggest = "CHANGE_PARAMETERS" ->
             IF /\ Halved(limit) # limit
                /\ ~WasAttempted(s, "RETRY_WITH_MODIFIED_INPUT", Halved(limit))
             THEN [strategy |-> "RETRY_WITH_MODIFIED_INPUT", end |-> "none"]
             ELSE Abort("FAILED")
        [] why.suggest = "RETRY" ->
             IF ~WasAttempted(s, "RETRY", limit)
             THEN [strategy |-> "RETRY", end |-> "none"] ELSE ChangeTool(s)

(* Mutant of Choose: the limit of the whole run is not looked at.          *)
ChooseUnlimited(s, why) ==
  IF Cardinality(Tried(s)) >= MaxPerStep THEN Abort("FAILED") ELSE Suggested(s, why)

Choose(s, why) ==
  IF Len(run.tries) >= MaxRecovery THEN Abort("ABORTED")
  ELSE IF Cardinality(Tried(s)) >= MaxPerStep THEN Abort("FAILED")
  ELSE Suggested(s, why)

(* RecoveryManager.record: the attempt names the tool and the input the    *)
(* step had, not the ones it is going to have.                             *)
Record(s, decision) ==
  Append(run.tries, [step |-> s, strategy |-> decision.strategy,
                     tool |-> task.plan.tool[s], limit |-> task.plan.limit[s]])

(* Replanner.replan_step: the plan with another tool or input for a step.  *)
Rewritten(s, tool, limit) == [task.plan EXCEPT !.tool[s] = tool, !.limit[s] = limit]

(* Replanner._llm_replan: the provider may propose anything, again.        *)
ProviderPlans == Proposed

(* _apply_decision: the plans a decision may lead to, before validation.   *)
NextPlans(s, decision) ==
  LET tool == task.plan.tool[s]
      limit == task.plan.limit[s]
  IN  CASE provider -> ProviderPlans
        [] ~provider /\ decision.strategy = "CHANGE_TOOL" ->
             {Rewritten(s, Earliest(Registry, Unused(s)), limit)}
        [] ~provider /\ decision.strategy = "RETRY" -> {Rewritten(s, tool, limit)}
        [] OTHER -> {Rewritten(s, tool, Halved(limit))}

RecoveryAborts ==
  /\ At("recovering")
  /\ LET s == Current
         decision == Choose(s, Diagnosis(run.out, run.verdict))
     IN  /\ decision.strategy = "ABORT"
         /\ Goto([run EXCEPT !.tries = Record(s, decision), !.term = decision.end,
                             !.pc = "ending"])
  /\ UNCHANGED <<provider, task, summary, resumes, ran, entry>>

(* The new plan is validated; set_plan gives it the next version and the   *)
(* checkpoint AFTER_RECOVERY saves both, after which a round begins.       *)
Replanned ==
  /\ At("recovering")
  /\ LET s == Current
         decision == Choose(s, Diagnosis(run.out, run.verdict))
     IN  /\ decision.strategy # "ABORT"
         /\ \E p \in NextPlans(s, decision) :
              /\ ValidPlan(p)
              /\ Checkpoint(SetPlan(task, p, task.version + 1), "READY",
                            [run EXCEPT !.tries = Record(s, decision), !.out = "none",
                                        !.verdict = "none", !.term = "FAILED",
                                        !.pc = "round"])
  /\ UNCHANGED <<provider, resumes, ran, entry>>

ReplanRejected ==
  /\ At("recovering")
  /\ LET s == Current
         decision == Choose(s, Diagnosis(run.out, run.verdict))
     IN  /\ decision.strategy # "ABORT"
         /\ \E p \in NextPlans(s, decision) : ~ValidPlan(p)
         /\ Goto([run EXCEPT !.tries = Record(s, decision), !.term = "BLOCKED",
                             !.pc = "ending"])
  /\ UNCHANGED <<provider, task, summary, resumes, ran, entry>>

-----------------------------------------------------------------------------
(* The end of a run.                                                       *)

Seen == {s \in Steps : run.latest[s] # "none"}

(* Mutant of AllVerified: one verified outcome is enough.                  *)
OneVerified == \E s \in Seen : run.latest[s] = "VERIFIED"

(* _task_verification: one verdict over the outcomes of the last round.    *)
AllVerified == Seen # {} /\ \A s \in Seen : run.latest[s] = "VERIFIED"

RoundDone ==
  /\ At("stepping")
  /\ run.queue = {}
  /\ Goto([run EXCEPT !.pc = "ending", !.term = IF AllVerified THEN "COMPLETED" ELSE @])
  /\ UNCHANGED <<provider, task, summary, resumes, ran, entry>>

(* Whatever the run's own ending, only COMPLETED and FAILED are persisted. *)
Conclude ==
  /\ At("ending")
  /\ LET term == CASE AllVerified -> "COMPLETED"
                   [] ~AllVerified /\ run.term = "COMPLETED" -> "FAILED"
                   [] OTHER -> run.term
     IN  Checkpoint([task EXCEPT !.verified = AllVerified],
                    IF term = "COMPLETED" THEN "COMPLETED" ELSE "FAILED",
                    [run EXCEPT !.term = term, !.pc = "learning"])
  /\ UNCHANGED <<provider, resumes, ran, entry>>

(* Mutant of Archive: an ending it does not know counts as completed.      *)
ArchiveByDefault ==
  /\ At("learning")
  /\ summary' = CASE run.term = "BLOCKED" -> "blocked"
                  [] run.term = "ABORTED" -> "aborted"
                  [] OTHER                -> "completed"
  /\ Goto(NoRun)
  /\ UNCHANGED <<provider, task, resumes, ran, entry>>

(* save_task after reflection and learning: the row gets the run's ending, *)
(* with completed, blocked, aborted and failed told apart.                 *)
Archive ==
  /\ At("learning")
  /\ summary' = CASE run.term = "COMPLETED" -> "completed"
                  [] run.term = "BLOCKED"   -> "blocked"
                  [] run.term = "ABORTED"   -> "aborted"
                  [] OTHER                  -> "failed"
  /\ Goto(NoRun)
  /\ UNCHANGED <<provider, task, resumes, ran, entry>>

(* The process dies, or an exception no handler expects ends the run.      *)
Crash ==
  /\ ~At("idle")
  /\ run' = NoRun
  /\ exit' = "crashed"
  /\ UNCHANGED <<provider, task, summary, resumes, ran, entry>>

-----------------------------------------------------------------------------
(* resume_task.  A task with an outcome is returned as it is.              *)

Unresolved == {k \in Keys : task.rec[k].st = "EXECUTING"}
Uncertain == task.status \in {"EXECUTING", "EXECUTION_UNKNOWN"} \/ Unresolved # {}

Entering ==
  /\ At("idle")
  /\ task.status \notin Terminal
  /\ resumes < MaxResumes
  /\ resumes' = resumes + 1

(* An operation may have been invoked and its result is not known: without *)
(* a resolution by the caller the task stays EXECUTION_UNKNOWN.            *)
ResumeUncertain ==
  /\ Entering
  /\ Uncertain
  /\ entry' = [resumed |-> TRUE, clean |-> FALSE]
  /\ Checkpoint(task, "EXECUTION_UNKNOWN", NoRun)
  /\ UNCHANGED <<provider, ran>>

(* _resolve_unknown refuses every resolution, bound to the action or not   *)
(* (orchestrator.py:871-882), and a refused one is final.  The README has  *)
(* a way back to READY by such a decision (README.md:216-223).             *)
ResolutionRefused ==
  /\ Entering
  /\ Uncertain /\ Unresolved # {}
  /\ entry' = [resumed |-> TRUE, clean |-> FALSE]
  /\ Checkpoint(task, "BLOCKED", NoRun)
  /\ UNCHANGED <<provider, ran>>

(* The state is loaded; a run that was observing or verifying is put back  *)
(* to READY.  The attempt list of the recovery manager starts empty.       *)
Resume ==
  /\ Entering
  /\ ~Uncertain
  /\ entry' = [resumed |-> TRUE, clean |-> TRUE]
  /\ LET r == [NoRun EXCEPT !.pc = "reloaded"]
     IN  IF task.status \in {"OBSERVING", "VERIFYING"}
         THEN Checkpoint(task, "READY", r)
         ELSE Goto(r) /\ UNCHANGED <<task, summary>>
  /\ UNCHANGED <<provider, ran>>

(* persisted_plan_invalid: the task was interrupted before it had a plan.  *)
ResumeWithoutPlan ==
  /\ At("reloaded")
  /\ task.plan = NoPlan
  /\ Spoiled
  /\ Checkpoint(task, "BLOCKED", NoRun)
  /\ UNCHANGED <<provider, resumes, ran>>

(* _revalidate_resume_security and _resume_blocked: the policy is asked    *)
(* again about every pending step, if there is one.                        *)
ResumeBlocked ==
  /\ At("reloaded")
  /\ task.plan # NoPlan
  /\ Pending(task) # {}
  /\ Spoiled
  /\ \E status \in {"WAITING_APPROVAL", "BLOCKED"} : Checkpoint(task, status, NoRun)
  /\ UNCHANGED <<provider, resumes, ran>>

(* At least one more round is left to a resumed run.                       *)
ResumeAllowed ==
  /\ At("reloaded")
  /\ task.plan # NoPlan
  /\ Checkpoint(task, "READY",
                [run EXCEPT !.pc = "round", !.round = task.count,
                            !.max = IF task.count > MaxRecovery
                                    THEN task.count + 1 ELSE MaxRecovery + 1])
  /\ UNCHANGED <<provider, resumes, ran, entry>>

-----------------------------------------------------------------------------
(* Steps the run's own thread takes.                                       *)
Proceed ==
  \/ StartPlanning \/ PlanAccepted \/ PlanRejected
  \/ PreflightAllowed \/ PreflightBlocked \/ ReportBlocked
  \/ StartRound
  \/ BeforeExecution \/ ReuseResult \/ Refuse \/ Invoke
  \/ AfterExecution \/ Observe \/ StepVerified \/ StepFailed
  \/ RecoveryAborts \/ Replanned \/ ReplanRejected
  \/ RoundDone \/ Conclude \/ Archive
  \/ ResumeWithoutPlan \/ ResumeBlocked \/ ResumeAllowed

Next ==
  \/ Proceed
  \/ Return
  \/ Crash
  \/ ResumeUncertain \/ ResolutionRefused \/ Resume

Spec == Init /\ [][Next]_vars

(* A run is a thread of a live process, so its next statement is executed; *)
(* nothing makes a tool return, a process crash or anybody resume a task.  *)
FairSpec == Spec /\ WF_vars(Proceed)

-----------------------------------------------------------------------------
(* Properties.                                                             *)

PC == {"idle", "created", "planning", "planned", "blocked", "round", "stepping",
       "boundary", "running", "returned", "observing", "verified", "recovering",
       "ending", "learning", "reloaded"}
ActionStatus == {"ABSENT", "EXECUTING", "OBSERVING", "VERIFIED", "FAILED"}

Endings == {"COMPLETED", "FAILED", "BLOCKED", "ABORTED"}
Strategies == {"ABORT", "CHANGE_TOOL", "REPLAN", "RETRY", "RETRY_WITH_MODIFIED_INPUT"}

Tasks ==
  [status : Status, version : 0 .. MaxRecovery + 1, plan : Proposals \cup {NoPlan},
   done : SUBSET Keys, todo : SUBSET Keys, count : Nat, verified : BOOLEAN,
   rec : [Keys -> [st : ActionStatus, out : Outcomes \cup {"none"}]]]

Attempts ==
  [step : Steps, strategy : Strategies, tool : Tools \cup {"unregistered"}, limit : Nat]

Runs ==
  [pc : PC, round : Nat, max : Nat, queue : SUBSET Steps,
   prev : [Steps -> Outcomes \cup {"absent"}], latest : [Steps -> Verdicts \cup {"none"}],
   out : Outcomes \cup {"none"}, verdict : Verdicts \cup {"none"}, term : Endings,
   tries : Seq(Attempts)]

(* Types of the variables; the number of attempts and of plan versions is  *)
(* bounded by the limit of recoveries.                                     *)
TypeOK ==
  /\ provider \in BOOLEAN
  /\ task \in Tasks
  /\ summary \in {"open", "completed", "failed", "blocked", "aborted"}
  /\ run \in Runs
  /\ Len(run.tries) <= MaxRecovery + 1
  /\ resumes \in 0 .. MaxResumes
  /\ ran \in [Keys -> {"never", "doubt", "result", "verified", "failed"}]
  /\ entry \in [resumed : BOOLEAN, clean : BOOLEAN]
  /\ exit \in {"running", "returned", "rejected", "raised", "crashed"}

(* A COMPLETED task is proved: every step of its plan, in the version that *)
(* is current, was run, succeeded and was verified, across crashes and     *)
(* resumes, and no operation of the task is left in doubt.                 *)
CompletedIsProved ==
  task.status = "COMPLETED" =>
    /\ \A k \in KeysOf(task.version, task.plan) :
         task.rec[k] = [st |-> "VERIFIED", out |-> "success"] /\ ran[k] = "verified"
    /\ \A k \in Keys : ran[k] # "doubt"

(* The operation of an action is started only if it never was, or if its   *)
(* failure was recorded; and never while any operation of the task is in   *)
(* doubt because a crash came between its start and its result.            *)
StartsAreFresh ==
  [][\A k \in Keys : ran[k] # ran'[k] /\ ran'[k] = "doubt" =>
        ran[k] \in {"never", "failed"} /\ \A j \in Keys : ran[j] # "doubt"]_vars

(* An operation starts only after every step it depends on was verified    *)
(* under the same plan version, in whatever order the plan lists them.     *)
StartsAfterNeeds ==
  [][\A k \in Keys : ran[k] # ran'[k] /\ ran'[k] = "doubt" =>
        \A d \in task.plan.needs[k[2]] : <<k[1], d>> \in task.done]_vars

(* A first run never leaves the transition table and never saves a state   *)
(* that validate rejects: only a resumed run raises.                       *)
FirstRunNeverRaises == exit = "raised" => entry.resumed

(* The tasks row calls a task completed exactly when its durable state is  *)
(* COMPLETED, although reports and archives write the row by themselves.   *)
SummaryAgrees == summary = "completed" <=> task.status = "COMPLETED"

(* Without a provider no recovery decision is made twice: the same         *)
(* strategy for the same step, tool and input.                             *)
NoExactRepeat ==
  ~provider => \A i, j \in DOMAIN run.tries : run.tries[i] = run.tries[j] => i = j

(* Every run ends, unless an operation it started never returns.           *)
RunEnds == []<>(run.pc = "idle") \/ <>[](run.pc = "running")

(* A resumed run continues: unless something fails, is refused or is       *)
(* uncertain after the resume, the run ends with the task COMPLETED.       *)
ResumeContinues ==
  exit \in {"returned", "raised"} /\ entry.resumed /\ entry.clean =>
    task.status = "COMPLETED"
=============================================================================
