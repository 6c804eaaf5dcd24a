------------------------------- MODULE Stages -------------------------------
(***************************************************************************)
(* Research stages: requests of the API create and cancel them, workers    *)
(* claim, execute and settle them.  A stage is claimed under a lease that  *)
(* nobody renews; when it has run out, or is gone, the next claim makes    *)
(* the stage UNKNOWN.  The work itself runs outside any transaction.       *)
(*                                                                         *)
(* Abstracted: a stage's type, what the caller supplied and what comes of  *)
(* it are chosen when a result is recorded (nothing reads them before);    *)
(* results and error codes are left out; one program per account.          *)
(***************************************************************************)
EXTENDS Sessions

CONSTANTS Workers,    \* background workers, of one or several processes
          StageLimit, \* MAX_STAGE_COUNT_PER_ANALYSIS
          MaxStages,  \* bound on the rows of the table
          MaxAttempts \* column max_attempts, always its default

ASSUME StageAssumption == StageLimit \in Nat \ {0} /\ MaxAttempts \in Nat \ {0}

VARIABLES
  analyses,  \* owners of rows in bugbounty_program_analyses
  stages,    \* table bugbounty_research_stages, in the order of creation
  job,       \* locals of each worker
  executions \* history: how often each stage's work was begun

stageVars == <<analyses, stages, job, executions>>
vars == <<sessionVars, stageVars>>

STAGE_STATUSES == {"QUEUED", "RUNNING", "COMPLETED", "PARTIAL", "FAILED", "CANCELLED",
                   "UNKNOWN", "UNAVAILABLE"}
TERMINAL == STAGE_STATUSES \ {"QUEUED", "RUNNING"}

(* lease: number of the claim that holds it, 0 when there is none.         *)
Stage(analysis, owner) ==
  [analysis |-> analysis, owner |-> owner, status |-> "QUEUED", attempts |-> 0,
   lease |-> 0, expired |-> FALSE]

Settled(stage, status) == [stage EXCEPT !.status = status, !.lease = 0, !.expired = FALSE]

-----------------------------------------------------------------------------
(* Requests                                                                *)

Analyze(c) ==
  /\ Ready(c, "analyze")
  /\ analyses' = analyses \cup {call[c].user}
  /\ Answered(c)
  /\ UNCHANGED <<users, sessions, tasks, keys, stages, job, executions>>

Count(analysis, owner) ==
  Cardinality({i \in DOMAIN stages : stages[i].analysis = analysis /\ stages[i].owner = owner})

(* Mutant of Below: one stage too many.                                    *)
BelowOrAt(analysis, owner) == Count(analysis, owner) <= StageLimit

Below(analysis, owner) == Count(analysis, owner) < StageLimit

(* An account that is not the owner sees what is its own.                  *)
Visible(c, owner) == IsOwner(c) \/ owner = call[c].user

(* The stage belongs to whoever creates it, not to the program's account.  *)
CreateStage(c) ==
  /\ Ready(c, "create_stage")
  /\ \E analysis \in analyses :
       /\ Visible(c, analysis)
       /\ Below(analysis, call[c].user)
       /\ Len(stages) < MaxStages
       /\ stages' = Append(stages, Stage(analysis, call[c].user))
  /\ executions' = Append(executions, 0)
  /\ Answered(c)
  /\ UNCHANGED <<users, sessions, tasks, keys, analyses, job>>

Cancellable(stage) == stage.status \notin TERMINAL

CancelStage(c) ==
  /\ Ready(c, "cancel_stage")
  /\ \E i \in DOMAIN stages :
       /\ Visible(c, stages[i].owner)
       /\ Cancellable(stages[i])
       /\ stages' = [stages EXCEPT ![i] = Settled(@, "CANCELLED")]
  /\ Answered(c)
  /\ UNCHANGED <<users, sessions, tasks, keys, analyses, job, executions>>

-----------------------------------------------------------------------------
(* Workers                                                                 *)

NoJob == [pc |-> "idle", stage |-> 0, lease |-> 0]
Doing(w, pc) == job[w].pc = pc

Abandoned(stage) == stage.status = "RUNNING" /\ (stage.lease = 0 \/ stage.expired)

(* Mutant of Recovered: an abandoned stage is run again, like a task.      *)
RecoveredByRetry(stage) ==
  IF Abandoned(stage) THEN [Settled(stage, "QUEUED") EXCEPT !.attempts = 0] ELSE stage

Recovered(stage) == IF Abandoned(stage) THEN Settled(stage, "UNKNOWN") ELSE stage

Claimable == {i \in DOMAIN stages : stages[i].status = "QUEUED" /\ stages[i].attempts < MaxAttempts}

Claimed(stage) ==
  [stage EXCEPT !.status = "RUNNING", !.attempts = @ + 1, !.lease = stage.attempts + 1]

(* Abandoned stages are recovered and the oldest queued one is claimed.    *)
ClaimNext(w) ==
  /\ Doing(w, "idle")
  /\ \E next \in Claimable :
       /\ \A i \in Claimable : next <= i
       /\ stages' = [i \in DOMAIN stages |-> IF i = next THEN Claimed(stages[i])
                                                         ELSE Recovered(stages[i])]
       /\ job' = [job EXCEPT ![w] = [pc |-> "claimed", stage |-> next,
                                     lease |-> stages[next].attempts + 1]]
  /\ UNCHANGED <<sessionVars, analyses, executions>>

(* With nothing to claim the recovery is all.                              *)
RecoverOnly(w) ==
  /\ Doing(w, "idle") /\ Claimable = {}
  /\ \E i \in DOMAIN stages : Abandoned(stages[i])
  /\ stages' = [i \in DOMAIN stages |-> Recovered(stages[i])]
  /\ UNCHANGED <<sessionVars, analyses, job, executions>>

(* What an execution of each type may come to, by what it was given: all   *)
(* work is local and deterministic, except that passive sources may fail.  *)
AnalysisOutcome(found, scoped) ==
  IF ~found THEN "FAILED" ELSE IF scoped THEN "COMPLETED" ELSE "PARTIAL"

LocalOutcomes == {"UNAVAILABLE", "COMPLETED"}
EvidenceOutcomes == {"UNAVAILABLE", "COMPLETED", "PARTIAL"}
PassiveOutcomes == {"UNAVAILABLE", "COMPLETED", "PARTIAL"}

Outcomes(stage) ==
  {AnalysisOutcome(stage.analysis \in analyses, scoped) : scoped \in BOOLEAN}
    \cup LocalOutcomes \cup EvidenceOutcomes \cup PassiveOutcomes

(* The work is done, or an exception ends it.                              *)
Execute(w) ==
  /\ Doing(w, "claimed")
  /\ \E pc \in {"executed", "lost"} : job' = [job EXCEPT ![w].pc = pc]
  /\ executions' = [executions EXCEPT ![job[w].stage] = @ + 1]
  /\ UNCHANGED <<sessionVars, analyses, stages>>

OwnedBy(w, stage) == stage.status = "RUNNING" /\ stage.lease = job[w].lease

Holds(w, stage) == OwnedBy(w, stage) /\ ~stage.expired

(* A stage over its time budget has no known result.                       *)
FinishClaim(w) ==
  /\ Doing(w, "executed") /\ Holds(w, stages[job[w].stage])
  /\ \E outcome \in Outcomes(stages[job[w].stage]) \cup {"UNKNOWN"} :
       stages' = [stages EXCEPT ![job[w].stage] = Settled(@, outcome)]
  /\ job' = [job EXCEPT ![w] = NoJob]
  /\ UNCHANGED <<sessionVars, analyses, executions>>

LeaseLost(w) ==
  /\ Doing(w, "executed") /\ ~Holds(w, stages[job[w].stage])
  /\ job' = [job EXCEPT ![w].pc = "lost"]
  /\ UNCHANGED <<sessionVars, analyses, stages, executions>>

(* mark_unknown_if_owned: an expired lease does for this.                  *)
MarkUnknown(w) ==
  /\ Doing(w, "lost")
  /\ stages' = [stages EXCEPT ![job[w].stage] = IF OwnedBy(w, @) THEN Settled(@, "UNKNOWN") ELSE @]
  /\ job' = [job EXCEPT ![w] = NoJob]
  /\ UNCHANGED <<sessionVars, analyses, executions>>

WorkerDies(w) ==
  /\ ~Doing(w, "idle")
  /\ job' = [job EXCEPT ![w] = NoJob]
  /\ UNCHANGED <<sessionVars, analyses, stages, executions>>

LeaseExpires ==
  /\ \E i \in DOMAIN stages : /\ stages[i].status = "RUNNING" /\ ~stages[i].expired
                              /\ stages' = [stages EXCEPT ![i].expired = TRUE]
  /\ UNCHANGED <<sessionVars, analyses, job, executions>>

-----------------------------------------------------------------------------
Init ==
  /\ SessionInit
  /\ analyses = {} /\ stages = <<>> /\ executions = <<>>
  /\ job = [w \in Workers |-> NoJob]

Work(w) ==
  \/ ClaimNext(w) \/ RecoverOnly(w) \/ Execute(w) \/ FinishClaim(w) \/ LeaseLost(w)
  \/ MarkUnknown(w) \/ WorkerDies(w)

Next ==
  \/ SessionNext /\ UNCHANGED stageVars
  \/ \E c \in Clients : Analyze(c) \/ CreateStage(c) \/ CancelStage(c)
  \/ LeaseExpires
  \/ \E w \in Workers : Work(w)

Spec == Init /\ [][Next]_vars

-----------------------------------------------------------------------------
(* Properties                                                              *)

TypeOK ==
  /\ SessionTypeOK
  /\ analyses \subseteq Users \cup {NoUser}
  /\ DOMAIN executions = DOMAIN stages
  /\ \A i \in DOMAIN stages : /\ stages[i].status \in STAGE_STATUSES
                              /\ stages[i].attempts \in 0..MaxAttempts
                              /\ Count(stages[i].analysis, stages[i].owner) <= StageLimit
  /\ \A w \in Workers : job[w].pc \in {"idle", "claimed", "executed", "lost"}

(* "Expired RUNNING stages are made UNKNOWN, never requeued"               *)
(* (bugbounty/research.py:200): the work of a stage is begun at most once, *)
(* a result is recorded only of work that was done, and what was settled,  *)
(* cancelled or given up stays so, though the worker that ran it may       *)
(* answer later.                                                           *)
VerdictsStand ==
  [][\A i \in DOMAIN stages :
       /\ executions'[i] <= 1
       /\ stages'[i].status \in {"COMPLETED", "PARTIAL", "FAILED", "UNAVAILABLE"}
            => executions'[i] = 1
       /\ stages[i].status \in TERMINAL => stages'[i] = stages[i]]_vars
=============================================================================
