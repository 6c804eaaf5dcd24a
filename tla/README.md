# A TLA+ development of private-self-learning-agent

This directory models the control logic of the agent in `src/src/private_agent`
(paths below are relative to it), checks the models with TLC and proves theorems
about them with TLAPS. `PROJECT.json` maps each definition to the lines it stands
for and lists runs, mutants, hazards, findings and theorems.

## 1. Inventory of the system

| Part | Where | State it keeps | Operations | What makes it correct |
|---|---|---|---|---|
| Task queue | `storage.py` | `task_queue` rows (status, attempts, lease, worker, expiry), `task_states`, `tasks` in SQLite | create, claim or recover, renew, finish, fence, requeue, fenced checkpoint | no operation is started by two claims; row and state agree; outcomes are final; claims end |
| Worker | `worker.py` | one claim, heartbeat and watchdog threads, last error | poll, process a claim, report, restart | a late worker writes nothing; an error never relabels an outcome |
| Task life cycle | `core/task_state.py` | status, plan, plan version, action records, approvals | transition, checkpoint, mark_action, validate | only allowed moves, records consistent with the plan |
| Orchestrator | `core/orchestrator.py`, `core/execution.py` | a `TaskState` in memory, rounds, outcomes | `run`, `resume_task`, recovery rounds, reflection and learning afterwards | checkpoint before and after each effect; what is in doubt is not started again; COMPLETED is proved; runs end |
| Recovery | `core/recovery.py`, `core/replanning.py`, `core/diagnosis.py` | attempts of a run | diagnose, choose, record, replan | bounded rounds, no loops |
| Verification | `core/observation.py`, `core/verification.py` | none | observe, verify a step and a task | success only on evidence |
| Planner | `core/planner.py`, `core/llm.py` | none | create and validate a plan | only registered tools, no cycles |
| Learning | `core/experience.py`, `core/reflection.py`, `core/learning.py`, tables in `storage.py` | experiences, reviews, insights, strategies | store, reflect, save, merge, plan by what was learned | plans deviate only on enough evidence, active strategies are backed, evidence is kept |
| Knowledge | `core/memory.py`, `core/knowledge.py`, tables in `storage.py` | sources, claims, evidence, conflicts, pages | store or refresh each, open a conflict, search | claims only advance, nothing is taken for a fact, conflicts are grounded |
| Policy | `security.py` (`PolicyEngine`), owner rules in `storage.py` | rules, policy version | evaluate, create and disable rules | DENY wins; every change has a version |
| Approvals | `security.py` (`ApprovalGate`), `approval_requests` | requests bound to an action, input and version, with a deadline | request, approve, deny, cancel, expire, list | decided once; valid for one action as it is |
| Security boundary | `security.py` (`SecurityController`) | authorization evidence, operations in flight | preflight, authorize, execute, receipt, record | what starts is what was authorized |
| API | `api.py` | idempotency keys, locals of each request | create, list and read tasks, administer accounts, answer approvals | one task per key; every answer is the caller's |
| Authentication | `auth.py` | accounts, sessions | initialise the owner, create, log in, log out, disable, enable, expire | a disabled account has no open session |
| Research stages | `bugbounty/research.py`, `stage_execution.py` | stage rows with leases, locals of workers | create, cancel, claim, sweep, execute, finish, mark unknown | a stage is begun once; what is settled stays |
| Bug bounty analysis | the rest of `bugbounty/` | documents | scan, validate | (deterministic analysis, not modelled) |
| Skills | `skills/lifecycle.py`, `registry.py` | versions with a status, metrics, enabled flags | submit, analyse, quarantine, execute, degrade, roll back | nothing returns to service, nothing is retired without cause |
| Patching | `tools/patching.py` | session metadata, workspace, backup, lock | prepare, apply, roll back | metadata and files agree; edits of others survive |
| Repository and analysis tools | the rest of `tools/` | none | read, parse, analyse | (input and output, not modelled) |
| Observability, assembly, sandbox | `observability.py`, `app.py`, `cli.py`, `skills/sandbox_*` | events | record, redact, construct | (not modelled) |
| Outside the program | `mobile/`, `deploy/`, `scripts/` | | | (not modelled) |

How they interact: the API creates a task (state and queue row in one
transaction); workers in any number of processes claim rows; a claim runs the
orchestrator, whose checkpoints are writes fenced by the lease; the orchestrator
preflights the plan and the executor authorizes each step with the security
controller, which evaluates the policy and reads approvals from the store; the
external operation runs between two evaluations; people answer approvals through
the API, which requeues the waiting task, and so does every worker poll. All of
them share one SQLite database with immediate transactions: a transaction is
atomic, everything between two transactions can interleave.

The learning loop runs at the end of each run and feeds the planner of the next;
a rollback of a skill and the review of a finding feed the same tables. Research
stages have a queue of their own, with leases nobody renews, worked off by the
same worker loop. A patch session has no table: its state is in files, shared by
every process that may apply it or roll it back.

The hard behaviours: leases that expire while an operation runs; three threads
and several processes writing about one claim; crashes between two writes of
different records, or between two files; rules, versions and approvals read one
after the other while somebody changes them; approvals that lapse; retries that
reuse an approval or a saved result; replans that make verified work pending again;
two runners that merge into one strategy; requests repeated under one key; a login
that races the disabling of its account; late answers of a swept stage; edits made
while a rollback restores files. `PROJECT.json` has the list, with lines.

## 2. Modules

| Module | Stands for | Uses |
|---|---|---|
| `TaskStatus` | statuses, transition table, what a fence and a report make of a status | |
| `TaskContract` | abstract: what the queue promises the owner of a task | |
| `LeaseQueue` | queue, workers, heartbeat, checkpoints of a run | `TaskStatus`, refines `TaskContract` |
| `ApprovalGate` | policy, approvals, security boundary | |
| `TaskRun` | planner, executor, verification, recovery and resume of one task | `TaskStatus` |
| `Patching` | a patch session in files | |
| `Learning` | experience, reflection, strategies, reviews | |
| `Knowledge` | sources, claims, evidence, conflicts, pages | extends `Learning`: the runner that plans and learns is the one that keeps pages |
| `Skills` | versions of a learned skill | extends `Learning`: a rollback leaves an experience |
| `Sessions` | accounts, logins, API requests, idempotency keys | |
| `Stages` | research stages, their queue and workers | extends `Sessions`: requests create and cancel stages |
| `MC...` | small instances for TLC, symmetry, two state constraints | the module after `MC` |
| `LeaseProofs` | typing, state invariants, action properties, refinement of the contract | `LeaseQueue`, `TaskContract` |
| `ApprovalProofs` | typing and safety of the boundary | `ApprovalGate` |
| `TaskRunProofs` | typing and safety of a run | `TaskRun` |
| `PatchingProofs` | typing and safety of a patch session | `Patching` |
| `LearningProofs` | typing of the loop, plans, strategies, evidence | `Learning` |
| `KnowledgeProofs` | claims and conflicts; every step is one of the loop or leaves it alone | `Knowledge`, `LearningProofs` |
| `SkillProofs` | what enters and leaves service | `Skills`, `LearningProofs` |
| `StageProofs` | accounts and answers; the verdict on a stage, the limits | `Stages` (with `Sessions`) |

### LeaseQueue

State: the row (`queue`, `attempts`, `lease`, `holder`, `left`), the durable
status (`state`), the status of the approvals it names (`approval`); for each
worker the point of its code (`pc`), its claim (`job`, `token`), the heartbeat
flag (`hb`) and locals (`resumed`, `ran`, `out`). `effects` is a history
variable: the leases under which the operation of the task was started.

One action per transaction or in-memory decision: `Create`, `Decide`, `Requeue`;
`RecoverExpired`, `RecoveryRaises` and `Claim` are the outcomes of
`claim_next_task`; `StartFresh` to `Abort` are the checkpoints of
`Orchestrator.run` and `resume_task` in their order, with `Boundary`, `Invoke` and
`OperationReturns` around the external operation; `DetectLoss` is the exception of
a fenced write; `ReadOutcome`, `HandleFailure`, `FinishRefused`, `Finish`,
`FinishFailed`, `Fence` are `_process_claim`; `Renew`, `RenewalFails` and
`Watchdog` are the threads of `_LeaseHeartbeat`; `Raise`, `Crash` and `Restart`
are what goes wrong and is put right.

Left out or abstracted:

- `MayHaveStarted` looks at the status alone; the code also looks for an action record EXECUTING
  or OBSERVING (`worker.py:685-688`). Under a lease such a record is durable only while the status
  is one of those that `MayHaveStarted` names, so the answer is the same;
- the plan: a run executes steps until it ends, so any number of steps and of
  recovery rounds (the code bounds the rounds; more behaviours are checked here);
- the policy: every verdict of a preflight or authorization is possible
  (`ApprovalGate` has the policy);
- which eligible row is picked: any, where the code orders by `available_at`;
  nothing writes a later `available_at` or `RETRY_WAIT`;
- lease ids: the attempt number, which is as unique within a task;
- all requests a task waits for are one `approval`, APPROVED when all are;
- malformed durable states, which a run does not write; events and audit writes,
  which are part of the checkpoint next to them;
- the watchdog's fence and its flag are one step; a crash of an idle worker
  changes nothing and is left out;
- a boundary refusal is any failure before the operation starts; what a tool
  returns only matters as verified or not, and verification of a step whose
  operation never ran cannot succeed (`execution_status` must be a success).

### ApprovalGate

State: the rules now in force (`version`, `effect` on each action), requests
(`status`, `bound`, `left`), for each action its content (`revision`), the approval
id it holds (`named`), the stage and read it is at (`pc`, `phase`), the evaluation in
progress (`seen`), the authorization evidence (`snap`) and the result (`ok`).
`answers` and `ran` are history variables. `seen.at` records the version at the
moment the rules were read, for the properties; no guard uses it.

An evaluation is `ReadRules`, `ReadVersion` and then a decision that reads the
version a third time inside `_bound_request`. The same three steps happen at
`preflight`, `authorize`, `begin`, `receipt` and `record`. `ChangePolicy`,
`RuleLapses`, `TimePasses`, `View`, `Look` and `Answer` interleave with them.

Left out or abstracted:

- matching of rules, risk levels and capabilities: one effect per action, any
  effect after any change; QUARANTINE blocks as DENY does and is DENY;
- what a step consists of (tool, capabilities, input, goal) is its `revision`;
- the version of the in-process `SecurityPolicy` is folded into the shared one;
- a decision and the reads of one request inside it are one step: the reads in
  between differ only in whether the request has lapsed, and a lapse found late
  ends in the same refusal or exception;
- a lapsed rule may turn into any effect, which is more than the rules left
  could give;
- requests are a finite supply: an action that needs one and finds none stops,
  which is a bound of the model, like `MaxVersion`;
- a missing approval ends the step; a denial is diagnosed as an unknown failure,
  which may be retried; audit claims and operation bindings are not modelled.

### TaskRun

State: the durable `TaskState` (`task`: status, plan and its version, keys completed
and pending, the record of each action, the count of recovery rounds), the row of
the `tasks` table (`summary`), the locals of the run under way (`run`: point of the
code, round, steps left, results of this round, list of attempts). `ran` is what the
outside world knows of each operation; `entry` and `exit` say how the latest run came
in and went out.

`StartPlanning` to `Archive` are `Orchestrator.run` and `_resume_execute_state` in the
order of their checkpoints; every checkpoint is checked against the transition table and
`TaskState.validate`, and raises when one of them says no. `Observe` and the
verdicts are `core/observation.py` and the verifiers, `StepFailed` is the diagnosis
and the choice of `RecoveryManager`, `Replanned` and `ReplanRejected` are `Replanner`. `Resume...` and
`ResolutionRefused` are `resume_task`.

- `src/README.md:216-223` leads from EXECUTION_UNKNOWN back to READY by an explicit decision of the
  caller, and the transition table allows it (`core/task_state.py:36`). The code refuses every decision
  (`core/orchestrator.py:871-882`, on purpose, as a comment there says) and blocks the task: that is
  `ResolutionRefused`. No property claims that a task in doubt has to stay so.
- One runner: that two of them exclude each other is `LeaseQueue`'s part.
- `Crash` also stands for any unexpected exception, a refused receipt included.
- Without a provider plans are single steps and recovery makes no new plan: the
  deterministic replanner needs an alternative plan that nobody passes in.
- The recovery limit ends a run before the round limit does, so that the end of the
  rounds without a verdict is unreachable and left out.
- The steps a round still has to take are a set (`run.queue`), taken in the order of
  the plan (`Current`). A planner may answer anything of `Proposals`, before validation.
- A replan makes a new version, under which steps verified before are pending and
  executed again: the properties are stated per version, as the action keys are.

### Patching

State: source tree, session metadata, workspace and backup directory, lock, and the
locals of each caller. Every read and write of a file is a step; `ApplyFails` removes
the workspace as the code's handler does, `Crash` and an error inside a rollback remove
nothing. `EditSource` and `EditWorkspace` are other people, who may change a text or only its
line endings: `_apply_file_patch` splits and joins lines, so `Patched` makes the same proposal
of both. The originals are copied into the backup after the proposals are written and checked,
as the code does (the document on patching has it the other way round). One session. A diff that
names a file twice is refused by the parser, so no file is in `Files` twice (`FilesOnce`).

### Learning and Knowledge

State: tables `experiences`, `bugbounty_finding_reviews`, `reflection_insights`,
`learned_strategies`, and what each runner has in hand (`work`). Every read and every
write is a transaction of its own; `Abandon` is the end of the process or the loss of
the lease. `Knowledge` adds sources, claims, evidence, conflicts and pages. A
row is placed by the rule the store methods share (`Place`): found by id or by key,
returned if it agrees, refused if not.

- A planner has a tool to plan with (`ToolsAssumption`): without one it raises and nothing
  is planned.
- Which related experiences a retrieval returns is any choice within the limit; tools
  of `planning_inputs` are left out, the planner without a provider is modelled.
- Reviews carry an abstract finding: evidence gate, validation and digest.
- The store operations of sources, claims, evidence and conflicts are called by tests
  only; production code searches, and keeps pages through `_persist_knowledge`. They are
  modelled with any caller, under a task's lease or without one.
- A call brings one item of evidence. `RefreshClaim` attaches it under the id the caller
  names even when the refreshed row has another one, and drops it when the claim is
  the first of its statement (`storage.py:2178-2213`). Open conflicts are never resolved: no
  operation does that. A search returns nothing as active, because no stored
  evidence carries an attestation.

### Skills

State: candidates by skill id, runtime metrics, the enabled flags, the call of the one
manager. Mutation testing always fails in this build and the sandbox quarantines
every execution, so a submission ends REJECTED or QUARANTINED; the branches behind it
(`skills/lifecycle.py:1002-1151`) are unreachable. Versions that were activated by an
earlier build are the initial state (`Inherited`), which is what degradation and
rollback need to happen at all; no version of them is held by two ids (`InheritedAssumption`,
the UNIQUE constraint of `storage.py:545`). No entry point uses the manager yet, tests do. The
two status writes of a rollback are one step.

### Sessions and Stages

State: accounts, sessions, tasks with their owners, idempotency keys, the locals of
each request; then analyses, stages and the job of each worker. A request is the
lookup of its session, the CSRF check and one transaction; a login is two. `Ends` is a
refusal, an answer, or an answer lost. Stages are claimed in the order of
their creation under leases nobody renews; `ClaimNext` sweeps what is
abandoned before it claims, and a worker may answer after that. `executions` counts
how often the work of a stage was begun.

- Rate limits and lock times are left open (any failure may lock, any lock may end);
  passwords are right or wrong; refresh and change of a password do not exist.
- The bearer fallback is in the model (`OwnerAuthEnforced`).
- `start` and `finish` of a stage without a lease (`bugbounty/research.py:399-434`) are
  reached from no entry point and left out.

## 3. Runs

| Run | Instance | States | What it checks |
|---|---|---|---|
| `lease_race` | 2 workers, 1 task, 3 attempts, lease of 2 ticks | 180 093 | six safety properties, refinement of `TaskContract`, every claim is closed, claimable tasks are claimed |
| `lease_poison` | as `lease_race` | violation | recovery of a VERIFYING task |
| `lease_requeue` | as `lease_race` | violation | requeued with no attempt left |
| `gate_race` | 1 action, 2 revisions, 2 requests, 2 deciders, 2 versions, deadline 1 | 1 877 106 | boundary properties under changes of policy and content; races of deciders |
| `gate_lapse` | 1 action, 2 requests, 2 versions | violation | lapsed approvals become EXPIRED |
| `task_run` | plans of 1 and 2 steps, 3 tools (2 granted), 2 recoveries, 2 attempts per step, 2 resumes | 293 568 | what is started, what COMPLETED means, who may raise, that runs end |
| `task_resume` | as `task_run` | violation | a resumed run continues |
| `patch_session` | 2 callers, 3 files, one of them new, 3 edits | 59 298 | metadata and files, edits of others, the lock |
| `patch_window` | as `patch_session` | violation | a rollback refuses concurrent changes |
| `learning` | 2 runners, 3 tasks or reviews, 2 tools, 2 sources, 3 claims, 3 statements, 2 versions | 68 627 | plans, strategies, evidence, claims, conflicts |
| `skills` | 3 inherited ids and versions, at most 3 executions of each | 532 991 | what enters and leaves service |
| `stages` | 2 threads, 2 accounts, 2 sessions, 2 tasks, 1 key, 1 goal; 2 workers, 2 stages, 1 attempt, 1 stage per analysis | 2 169 377 | disabled accounts, answers, verdicts on stages, the limit of stages |

Why the bounds are enough.

- Leases: the conflicts are between one worker that holds or held a claim and one
  that polls; a third would only repeat one of them. Three attempts allow two approval
  round trips and a claim afterwards; two ticks separate a lease that is renewed in time
  from one that runs out. Tasks meet only where recovery comes before claims, and the
  safety theorems hold for any number; that a task is not kept waiting by *other* tasks'
  expired leases is not checked.
- Gate: two versions allow a change at any point between two reads; two revisions a
  replanned step; two requests a lapsed or foreign one next to the action's own. Two
  actions that share requests, and any number of changes, are covered by the theorems.
- Task: two steps have every dependency (in order, out of order, cyclic); three
  tools let a recovery change to a granted one and meet one that is not; two
  recoveries allow a retry after a replan; two resumes allow an interruption of a resumed run.
- Patching: one file before, one at and one after the point where it stops, a created
  one among them; a third caller would wait for the lock.
- Learning: `MinSupport` is the code's; confidence 65 lets two failures suffice where the
  default of 70 needs three, which leaves one task to plan by them. `OneLoopAtATime` runs the
  learning loop and the tables of claims apart: they share no table.
- Skills: an active version, one to fall back on and a further one that a second
  rollback reaches; the rate is looked at from two executions on.
- Sessions: one account to disable and the owner who does it, at two threads; two tasks
  for one key. Stages: two workers are the late one and the one that sweeps. `OneRaceAtATime` keeps
  the race of two threads before the first analysis and lets one thread and one session race the
  workers afterwards; that more of them do is covered by the theorems.

`CHECK_DEADLOCK FALSE` is stated everywhere because the systems really stop: every row
is closed, every action has come to rest, the task has an outcome, the last version
is retired. Symmetry is used only in runs without liveness.

The properties, in the words of the system:

- `SingleExecutor`, `ClaimableNeverExecuted`: the rule behind EXECUTION_UNKNOWN, no
  second worker after one that may have acted;
- `ClosedRowMatchesState`, `OwnerSeesDurable`, `CompletedByLastClaim`: the two records
  of a task and what a run believes of it;
- `LateWritesRefused`, `VerdictIsFinal`: what no step may do;
- `ImplementsContract`: all of it, as the owner of a task sees it;
- `LeaseEventuallyClosed`, `ClaimableEventuallyClaimed`: the queue goes on;
- `StartsOnCurrentRules`, `StartsAsApproved`, `RecordedUnderOnePolicy`: what reading
  rules, versions and approvals apart could break, and does not;
- `AnswersAreKept`, `WaitsForOwnRequest`: decisions of people;
- `StartsAreFresh`, `StartsAfterNeeds`: what a run may start, across crashes, replans and
  resumes;
- `CompletedIsProved`, `SummaryAgrees`: what a finished task says of itself;
- `FirstRunNeverRaises`, `NoExactRepeat`, `RunEnds`: the control of a run;
- `AppliedAsPrepared`, `RolledBackIsOriginal`: what a patch session says of the files. The
  backup of an applied patch holds originals of which the diff makes the proposals. They need not
  be those that were reviewed: apply compares the digests of the proposals only
  (`tools/patching.py:736`), which do not depend on the line endings of the original. A source whose line
  endings change between the check of the revision and the read is saved as the backup, and every
  rollback refuses it (`rollback_backup_invalid`, line 804), although the session says that a rollback
  is available (line 749);
- `ConcurrentChangeRefused` (false): a rollback overwrites nobody's change; `EditsSurvive`:
  how far that goes, edits are overwritten in two windows only, while another file is
  restored and between the comparison and the replacement of the file;
- `DetoursAreEarned`, `ActiveIsBacked`, `EvidenceIsKept`: learning; the last has the one
  exception the code leaves, a strategy read before another runner's save. In that
  case the later save may put an active strategy in the place of one that the other runner has just
  found contradicted (`core/learning.py:168-170`): a fault of the code, and no property says otherwise;
- `ClaimsOnlyAdvance`, `ConflictsAreGrounded`: knowledge;
- `OutOfServiceForGood`, `RetiredWithCause`: skills;
- `DisabledHoldsNothing`, `AnswersAreOwn`: the API; `VerdictsStand`: stages.

Type invariants are checked as `TypeOK` of `TaskRun`, `Patching`, `Skills` (with
`LearnTypeOK`) and `Stages` (with `SessionTypeOK`, and the limit of stages per analysis);
all of them are theorems too, like those of `LeaseQueue` and `ApprovalGate`.

### Findings

1. *A VERIFYING task poisons the queue* (`lease_poison`). The recovery of an
   expired lease goes through the transition table, which has no move from
   VERIFYING to EXECUTION_UNKNOWN; the recovery raises, in every poll of every
   worker, before anything is claimed.
2. *Approved and never claimed* (`lease_requeue`). Approval round trips consume
   attempts; after the last one the task is QUEUED for ever.
3. *A lapsed approval cannot expire* (`gate_lapse`). The store accepts EXPIRED from
   PENDING only; reading a lapsed APPROVED request raises.
4. *A task with a saved result cannot be resumed* (`task_resume`). `resume_task` puts an
   OBSERVING task back to READY, uses its result, and then checkpoints VERIFYING, a move
   the table does not have from READY: it raises, at every resume.
5. *A rollback overwrites concurrent changes* (`patch_window`). The document says that it
   refuses on any; a file may be changed between its comparison and its replacement, or while another
   one is restored (the next comparison expects the change), and the rollback ends
   ROLLED_BACK. The run shows the first of them.

### Fairness

`LeaseQueue`: `FairSpec` assumes, for each worker, that it polls again (`_run_loop` waits
and repeats), that a run and its ending make progress (they are one thread, apart
from the external operation, which `OperationReturns` leaves unconstrained), that
its watchdog timer fires, and that a stopped worker is started again
(`Restart=on-failure` in `deploy/production/vulnora-backend.service`); and that
time passes for each lease. Renewals, faults, submissions and answers are not
assumed to happen. The queue is `Stuck` while a VERIFYING lease is expired
(finding 1) or every worker sits in an operation that does not return: the
liveness properties are stated for behaviours that are not stuck for ever, because
in the others they are false of the code.

`ApprovalGate`: `ViewedSpec` assumes that time passes and that somebody lists the
approvals now and then. `TaskRun`: `FairSpec` assumes that the thread of a run takes its
next step (`Proceed`), and neither that a tool returns nor that anybody resumes a task;
`RunEnds` says accordingly that the run ends or is inside the operation for ever.

## 4. Proofs

Every invariant and every action property that a passing run checks, the type invariants
included, and the refinement of `TaskContract` are theorems of their
specifications, for every value of the constants that satisfies the assumptions named in the
modules: limits are numbers, positive where the code's are; null values are outside the
sets; there is a step, a tool, a revision and an owner; granted tools are registered,
proposals well-formed, no file is twice in a diff and no version twice in the registry.
Runners, workers, clients, tasks, tools and ids may be any sets, infinite ones included;
plans and diffs are sequences of any length.

`LeaseQueue`. `TypeOK` is inductive. The others follow from `LeaseInv`, a conjunction of
`TaskInv(t)` and `WorkerInv(w)`. None of the properties is inductive: that two leases never
start the operation needs that whoever is about to start it either owns the row
or was given up for lost (`pc = "invoking"`), in which case the row says
EXECUTION_UNKNOWN and will not be handed out; that in turn needs that a live owner knows the durable
status (`Believed`), that a QUEUED row has a task nothing was started for, and that
a leased row carries the number of its last attempt. The proof has one step per
action and one per conjunct it can disturb; the two action properties and the
refinement come from the same invariant. A contract sees the row, the number of claims and the claim that started the
operation (`StartedBy`), so checkpoints, renewals and crashes are stutters and what
remains is to submit, claim, invoke, close and requeue: `LeaseInv` says why a row closed
as waiting has nothing started, why a completed one was started by its last claim,
and why a late start finds the row leased or uncertain.

`ApprovalGate`. The point of `BoundaryInv` is that `version` only grows. The evidence has
a version `s` no newer than the rules the boundary reads afterwards (at version
`at`), which are no newer than the version `v` it reads after them: `s <= at <= v`. The
code compares `s` with `v` only; equality squeezes `at`. The same argument, with the
versions at the start and end of the operation between, gives
`RecordedUnderOnePolicy`. `RequestInv` says that answers are given only to decided
requests, which makes `AnswersAreKept` inductive.

`TaskRun`. `RunInv` ties the durable record to what happened outside. Its heart is
`ActionInv`: a completed action was run, succeeded and was verified, an operation in doubt is
recorded as EXECUTING, one with a result as OBSERVING, and an EXECUTING record is either the
step under way or belongs to a run that was interrupted, whose task then says EXECUTING,
EXECUTION_UNKNOWN or BLOCKED, from none of which `resume_task` moves it back to READY: nothing
in doubt is ever started again. `CompletedIsProved` needs, beyond this,
`RoundInv` (the steps left in a round are those not completed) and `EndInv` (a run that
ends verified has completed every key of the plan in force); `FirstRunNeverRaises` needs
`PointInv`, the status saved at each point of the code. `NoExactRepeat` is `TriesInv`: without a
provider a change of tool leaves every tool tried before behind and a change of
input every larger limit. "The first tool in the registry" is a CHOOSE, which exists because the order of the
naturals is well-founded (`LeastNat`, the one place where the proofs need it, here and
for the most confident insight in `Learning`).

`Patching`. `PatchInv` says where each caller is: whoever is past the lock is alone with
workspace and backup; the proposal of a caller comes from originals it read itself,
and the digests it compares before it copies make the proposals, not the originals, those of the
session (`IntegrityIsOfProposals`); a rollback restores what was reviewed because it has
checked the digests of the backup, which nobody else changes meanwhile; files before
its place have the patch (or the original, in a rollback) unless somebody edited them. A file
is named once, so a later write cannot undo an earlier one. `EditInv` is the same argument for edits:
what other people wrote in a file that is still to be restored is either seen by the
next comparison or was written in one of the two windows.

`Learning`. `LearnInv` types the tables, finite rows of evidence included, and reserves the id of
a run until its experience is stored. `EvidenceInv` is about where things come from: whatever an
insight, a merged strategy or a plan in anybody's hand says has been `Earned` by
experiences that are stored, and those tables only grow. The confidence a runner computes from a
sample is at most the one all stored runs give, because confidence is
monotone in the number of runs (`MoreConfidence`). Hence a plan made from stale reads is still earned.

`Knowledge`. Every step is one of the loop or leaves its variables alone (`KnowledgeLearns`, a
refinement), so the theorems about the loop hold here without another proof.
`KnowledgeInv` adds one row per statement and the rows that evidence and conflicts cite.

`Skills`. `SkillInv` says that a version number is one id's, that a degraded or rolled-back row has
the record to be (`Condemned`; metrics only grow, and a submission that replaces the row
leaves it neither), and that the manager in the middle of a degradation or a
rollback still holds the version its row has. From the last follows that the version it falls back on,
which is lower, is another row: a rollback cannot put back into service what it retires.

`Sessions`. `SessionInv` adds to `DisabledHoldsNothing`, which is inductive once the rows are
typed, that keys and tasks name each other (`KeysLead`) and that a client holds a task
made with the key it gave (`Answering`). A key stands for one task only because its row is
written in the transaction that inserts the task.

`Stages`. `StageInv` counts: a QUEUED stage was begun by nobody and is at no worker, a
claimed one was begun by nobody and is at one, an executed one was begun once. Nothing
makes a stage QUEUED again, so no second worker comes; a settled stage is changed by
none of the three writers, the worker, the sweep and the request that cancels, because
each of them looks at the status in the transaction that sets it. `TypeOK` needs `Refer` (no
account is ever deleted, so what a request read of it stays a name of one) and
`Limited`: the stages of an account are counted in the transaction that adds one.

Only model-checked: liveness (`LeaseEventuallyClosed`, `ClaimableEventuallyClaimed`, `RunEnds`), which is
beyond the prover, and the five violations. Nothing is assumed
beyond the ASSUMEs, which TLC evaluates in the runs.

## 5. Not modelled, and plan

Hazards without a property: a rule that lapses without a version change
(`storage.py:962`, the code promises no more than the version); a denied request that
leaves its task waiting (`worker.py:555`, it needs the composition of queue and
gate); the decision on a task in doubt that the code refuses (`core/orchestrator.py:871`) and the lost
update of a strategy (`core/learning.py:170`), which are as the code has them.

Not modelled: the analysis of bug bounty documents and programs' scopes, the skill sandbox,
repository and static analysis tools (input, output and pure functions of text);
observability, the command line, construction; scripts, the mobile client, deployment.
Ranking of searches, risk levels, hashing, rate limits, retention by age and all
wording are abstracted inside the modelled parts.

What is left: a composition of `LeaseQueue` and `ApprovalGate` for the hazards that cross them, with
its theorems from those of the parts. Modules that are proved about declare no
RECURSIVE operator.
