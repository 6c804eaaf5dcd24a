------------------------------- MODULE Skills -------------------------------
(***************************************************************************)
(* The versions of one learned skill: submission, analysis, quarantine,    *)
(* execution of the active version, degradation, rollback - and the        *)
(* experience a rollback leaves, which is reflected on and learned from    *)
(* (Learning).  There is one lifecycle manager; it may be killed between   *)
(* any two writes.                                                         *)
(*                                                                         *)
(* In this build no candidate is ever executed: mutation testing never     *)
(* passes and the sandbox always quarantines, so no new version gets       *)
(* active.  The versions that are active at the start were activated by    *)
(* an earlier build, which kept the previous ones active.                  *)
(***************************************************************************)
EXTENDS Learning

CONSTANTS Manager,      \* the runner that calls the lifecycle manager
          Capabilities, \* what a skill may declare or use: network, filesystem, subprocess
          SkillIds,     \* skill ids candidates are submitted under
          MaxVersion,   \* bound on version numbers
          Inherited,    \* skill id -> version activated by the earlier build
          Successes,    \* executions that succeeded under the earlier build
          MinExecutions, \* executions before the monitor looks at the rate
          MaxExecutions  \* bound on the executions counted of one version

ASSUME ManagerAssumption == Manager \in Runners
ASSUME MinExecutionsAssumption == MinExecutions \in Nat \ {0} /\ Successes \in Nat

(* No version is held by two ids (storage.py: UNIQUE).                     *)
ASSUME InheritedAssumption ==
  /\ DOMAIN Inherited \subseteq SkillIds /\ Inherited \in [DOMAIN Inherited -> 1..MaxVersion]
  /\ \A id, other \in DOMAIN Inherited : Inherited[id] = Inherited[other] => id = other

VARIABLES
  rows,    \* table skill_candidates, by skill id
  metrics, \* table skill_runtime_metrics, by skill id
  enabled, \* versions with skills.enabled = 1
  call     \* locals of the manager

skillVars == <<rows, metrics, enabled, call>>
vars == <<learnVars, skillVars>>

Versions == 1..MaxVersion
SKILL_STATUSES == {"ANALYZING", "TESTING", "QUARANTINED", "ACTIVE", "DEGRADED",
                   "ROLLED_BACK", "REJECTED"}

(* What contract and source of a candidate say of it.                      *)
Candidates == [declares : SUBSET Capabilities, uses : SUBSET Capabilities,
               rooted : BOOLEAN, denied : BOOLEAN]

ContractHolds(c) == /\ "subprocess" \notin c.declares
                    /\ "filesystem" \in c.declares => c.rooted

(* No denied import or call, no use of a capability not declared.          *)
AnalysisPasses(c) == ~c.denied /\ c.uses \subseteq c.declares

-----------------------------------------------------------------------------
(* Registry                                                                *)

NoCall == [pc |-> "idle", id |-> "none", version |-> 0]
CallAt(pc) == call.pc = pc
Ready == CallAt("idle") /\ At(Manager, "idle")

HasVersion(v) == {id \in DOMAIN rows : rows[id].version = v}
ActiveIds == {id \in DOMAIN rows : rows[id].status = "ACTIVE"}
Serving == {id \in ActiveIds : \A other \in ActiveIds : rows[other].version <= rows[id].version}

Row(version, status) == [version |-> version, status |-> status]

(* Mutant of Persisted: versions may be numbered twice.                    *)
PersistedAnyway(id, v, status) == Put(rows, id, Row(v, status))

(* persist_candidate: a version another id holds is left alone, and a row  *)
(* of the same id is replaced whatever it was.                             *)
Persisted(id, v, status) ==
  IF HasVersion(v) \ {id} # {} THEN rows ELSE Put(rows, id, Row(v, status))

Mark(id, status) == IF id \in DOMAIN rows THEN [rows EXCEPT ![id].status = status] ELSE rows

(* Mutant of Previous: the last version below this one, in any state.      *)
PreviousOfAnyStatus(v) ==
  LET lower == {id \in DOMAIN rows : rows[id].version < v}
  IN  {id \in lower : \A other \in lower : rows[other].version <= rows[id].version}

Previous(v) ==
  LET lower == {id \in ActiveIds : rows[id].version < v}
  IN  {id \in lower : \A other \in lower : rows[other].version <= rows[id].version}

Metrics(id) == IF id \in DOMAIN metrics THEN metrics[id]
               ELSE [executions |-> 0, successes |-> 0, rollbacks |-> 0]

(* Nothing ever succeeds here.                                             *)
RecordFailure(id) == Put(metrics, id, [Metrics(id) EXCEPT !.executions = @ + 1])

(* Mutant of Degraded: a rate of one half is too low as well.              *)
DegradedAtHalf(m) == m.executions >= MinExecutions /\ 2 * m.successes <= m.executions

Degraded(m) == m.executions >= MinExecutions /\ 2 * m.successes < m.executions

-----------------------------------------------------------------------------
(* Submission                                                              *)

NewerThanActive(v) == \A id \in ActiveIds : rows[id].version < v

Keep == UNCHANGED <<learnVars, metrics, enabled>>

SubmitRefused ==
  /\ Ready
  /\ \E id \in SkillIds, v \in Versions :
       ~NewerThanActive(v) /\ rows' = Persisted(id, v, "REJECTED")
  /\ UNCHANGED call /\ Keep

Submit ==
  /\ Ready
  /\ \E id \in SkillIds, v \in Versions :
       /\ NewerThanActive(v)
       /\ rows' = Persisted(id, v, "ANALYZING")
       /\ call' = [pc |-> "analyzing", id |-> id, version |-> v]
  /\ Keep

Judge(c) ==
  IF ContractHolds(c) /\ AnalysisPasses(c)
  THEN /\ rows' = Persisted(call.id, call.version, "TESTING")
       /\ call' = [call EXCEPT !.pc = "testing"]
  ELSE /\ rows' = Persisted(call.id, call.version, "REJECTED")
       /\ call' = NoCall

Analyzed ==
  /\ CallAt("analyzing")
  /\ \E c \in Candidates : Judge(c)
  /\ Keep

(* MutationTestingEngine.run never passes: whatever comes after it - the   *)
(* activation boundary, the sandbox, the approval - is not reached.        *)
Quarantine ==
  /\ CallAt("testing")
  /\ rows' = Persisted(call.id, call.version, "QUARANTINED")
  /\ call' = NoCall
  /\ Keep

-----------------------------------------------------------------------------
(* Execution of the active version                                         *)

Executable(id) == Metrics(id).executions < MaxExecutions

(* No controller, or it does not allow the action: counted as a failure,   *)
(* but nobody looks at the rate.                                           *)
ExecuteRefused ==
  /\ Ready
  /\ \E id \in Serving : /\ Metrics(id).executions < MinExecutions + Successes
                         /\ metrics' = RecordFailure(id)
  /\ UNCHANGED <<learnVars, rows, enabled, call>>

(* The sandbox quarantines it: a failure.                                  *)
Execute ==
  /\ Ready
  /\ \E id \in Serving :
       LET recorded == RecordFailure(id)
       IN  /\ Executable(id)
           /\ metrics' = recorded
           /\ call' = IF Degraded(recorded[id])
                      THEN [pc |-> "degrade", id |-> id, version |-> rows[id].version]
                      ELSE NoCall
  /\ UNCHANGED <<learnVars, rows, enabled>>

MarkDegraded ==
  /\ CallAt("degrade")
  /\ rows' = Mark(call.id, "DEGRADED")
  /\ call' = [call EXCEPT !.pc = "rollback"]
  /\ Keep

(* registry.rollback: with nothing to fall back on, quarantine.            *)
NothingToRollBackTo ==
  /\ CallAt("rollback") /\ Previous(call.version) = {}
  /\ rows' = Mark(call.id, "QUARANTINED")
  /\ call' = NoCall
  /\ Keep

RollBack ==
  /\ CallAt("rollback")
  /\ \E previous \in Previous(call.version) :
       rows' = [Mark(call.id, "ROLLED_BACK") EXCEPT ![previous].status = "ACTIVE"]
  /\ call' = [call EXCEPT !.pc = "enable"]
  /\ Keep

SwitchEnabled ==
  /\ CallAt("enable")
  /\ \E previous \in Previous(call.version) :
       enabled' = (enabled \ {call.version}) \cup {rows[previous].version}
  /\ call' = [call EXCEPT !.pc = "record"]
  /\ UNCHANGED <<learnVars, rows, metrics>>

RecordRollback ==
  /\ CallAt("record")
  /\ metrics' = [metrics EXCEPT ![call.id].rollbacks = @ + 1]
  /\ call' = [call EXCEPT !.pc = "experience"]
  /\ UNCHANGED <<learnVars, rows, enabled>>

(* _record_rollback_experience: stored, then reflected on by this runner.  *)
RollbackExperience ==
  /\ CallAt("experience")
  /\ \E id \in Ids : /\ Free(id)
                     /\ StoreExperience(Manager, id, Experience("skill", <<"skill">>, "ROLLED_BACK",
                                                                {"SKILL_DEGRADED"}))
  /\ call' = NoCall
  /\ UNCHANGED <<rows, metrics, enabled>>

Crash ==
  /\ ~CallAt("idle")
  /\ call' = NoCall
  /\ UNCHANGED <<learnVars, rows, metrics, enabled>>

-----------------------------------------------------------------------------
Init ==
  /\ LearnInit
  /\ rows = [id \in DOMAIN Inherited |-> Row(Inherited[id], "ACTIVE")]
  /\ metrics = [id \in DOMAIN Inherited |-> [executions |-> Successes, successes |-> Successes,
                                             rollbacks |-> 0]]
  /\ enabled = {Inherited[id] : id \in DOMAIN Inherited}
  /\ call = NoCall

(* The manager's runner reflects and learns before its call returns.       *)
Learn ==
  /\ \E r \in Runners : LearnStep(r) /\ (r = Manager => CallAt("idle"))
  /\ UNCHANGED skillVars

Next ==
  \/ Learn
  \/ SubmitRefused \/ Submit \/ Analyzed \/ Quarantine
  \/ ExecuteRefused \/ Execute \/ MarkDegraded \/ NothingToRollBackTo
  \/ RollBack \/ SwitchEnabled \/ RecordRollback \/ RollbackExperience \/ Crash

Spec == Init /\ [][Next]_vars

-----------------------------------------------------------------------------
(* Properties                                                              *)

TypeOK ==
  /\ LearnTypeOK
  /\ DOMAIN rows \subseteq SkillIds
  /\ \A id \in DOMAIN rows : rows[id] \in [version : Versions, status : SKILL_STATUSES]
  /\ \A v \in Versions : Cardinality(HasVersion(v)) <= 1
  /\ enabled \subseteq Versions

(* Nothing puts a version into service, or back into it: not a submission  *)
(* under an id that was active, not a rollback, not a crash amid one.      *)
OutOfServiceForGood ==
  [][\A id \in DOMAIN rows' :
       rows'[id].status = "ACTIVE" => id \in ActiveIds /\ rows'[id] = rows[id]]_vars

(* A version is rolled back only on its own record: enough executions,     *)
(* most of them failures.                                                  *)
RetiredWithCause ==
  \A id \in DOMAIN rows : rows[id].status \in {"DEGRADED", "ROLLED_BACK"} =>
    metrics[id].executions >= MinExecutions /\ 2 * metrics[id].successes < metrics[id].executions

=============================================================================
