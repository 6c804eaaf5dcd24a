---------------------------- MODULE SkillProofs ----------------------------
(***************************************************************************)
(* What the registry of skills keeps true, for any number of versions, ids *)
(* and executions, with the learning loop at work next to the manager and  *)
(* the manager killed at any point.                                        *)
(***************************************************************************)
EXTENDS Skills, LearningProofs

SkillRows == [version : Versions, status : SKILL_STATUSES]
MetricRows == [executions : Nat, successes : Nat, rollbacks : Nat]
CallPoints == {"idle", "analyzing", "testing", "degrade", "rollback", "enable", "record", "experience"}
SkillCalls == [pc : CallPoints, id : SkillIds, version : Versions]

(* A version number is one id's.                                           *)
RowsTyped ==
  /\ DOMAIN rows \subseteq SkillIds /\ rows \in [DOMAIN rows -> SkillRows]
  /\ \A id, other \in DOMAIN rows : rows[id].version = rows[other].version => id = other

MetricsTyped == metrics \in [DOMAIN metrics -> MetricRows]

(* Bad enough a record to be taken out of service for.                     *)
Failed(id) == id \in DOMAIN metrics /\ Degraded(metrics[id])

Retired == {"DEGRADED", "ROLLED_BACK"}
Condemned == \A id \in DOMAIN rows : rows[id].status \in Retired => Failed(id)

(* The manager goes on with the version it has judged.                     *)
CallInv ==
  /\ call \in SkillCalls \cup {NoCall}
  /\ CallAt("degrade") \/ CallAt("rollback") =>
       /\ call.id \in DOMAIN rows /\ rows[call.id].version = call.version /\ Failed(call.id)
  /\ CallAt("enable") \/ CallAt("record") => call.id \in DOMAIN metrics

SkillInv ==
  RowsTyped /\ MetricsTyped /\ Condemned /\ CallInv /\ enabled \subseteq Versions

-----------------------------------------------------------------------------
(* Rows *)

(* A submission's row in whatever state, but never in service or retired.  *)
LEMMA PersistedRows ==
  ASSUME SkillInv, NEW id \in SkillIds, NEW v \in Versions,
         NEW status \in SKILL_STATUSES \ (Retired \cup {"ACTIVE"}),
         rows' = Persisted(id, v, status), UNCHANGED metrics
  PROVE  /\ RowsTyped' /\ Condemned'
         /\ \A x \in DOMAIN rows' : \/ x = id /\ rows'[x].status = status
                                    \/ x \in DOMAIN rows /\ rows'[x] = rows[x]
<1>1. CASE HasVersion(v) \ {id} # {}
  BY <1>1 DEF Persisted, SkillInv, RowsTyped, Condemned, Failed
<1>2. CASE HasVersion(v) \ {id} = {}
  <2>1. Row(v, status) \in SkillRows /\ Row(v, status).version = v /\ Row(v, status).status = status
    BY DEF Row, SkillRows
  <2>2. rows' = Put(rows, id, Row(v, status))
    BY <1>2 DEF Persisted
  <2>3. /\ DOMAIN rows' = DOMAIN rows \cup {id} /\ rows'[id] = Row(v, status)
        /\ rows' \in [DOMAIN rows \cup {id} -> SkillRows]
        /\ \A x \in DOMAIN rows : x # id => rows'[x] = rows[x]
    BY <2>1, <2>2 DEF Put, SkillInv, RowsTyped
  <2>4. \A x \in DOMAIN rows \ {id} : rows[x].version # v
    BY <1>2 DEF HasVersion
  <2>5. RowsTyped'
    BY <2>1, <2>3, <2>4 DEF SkillInv, RowsTyped
  <2>6. Condemned'
    BY <2>1, <2>3 DEF SkillInv, Condemned, Failed
  <2>7. ASSUME NEW x \in DOMAIN rows'
        PROVE  \/ x = id /\ rows'[x].status = status
               \/ x \in DOMAIN rows /\ rows'[x] = rows[x]
    BY <2>1, <2>3
  <2> QED
    BY <2>5, <2>6, <2>7
<1> QED
  BY <1>1, <1>2

(* A mark changes the status of one row and nothing else.                  *)
LEMMA MarkedRows ==
  ASSUME RowsTyped, NEW id \in SkillIds, NEW status \in SKILL_STATUSES
  PROVE  /\ DOMAIN Mark(id, status) = DOMAIN rows /\ Mark(id, status) \in [DOMAIN rows -> SkillRows]
         /\ \A x \in DOMAIN rows : /\ Mark(id, status)[x].version = rows[x].version
                                   /\ x = id => Mark(id, status)[x].status = status
                                   /\ x # id => Mark(id, status)[x] = rows[x]
<1>1. CASE id \in DOMAIN rows
  <2> DEFINE row == [rows[id] EXCEPT !.status = status]
  <2>1. rows[id] \in SkillRows
    BY <1>1 DEF RowsTyped
  <2>2. row \in SkillRows /\ row.status = status /\ row.version = rows[id].version
    BY <2>1 DEF SkillRows
  <2>3. Mark(id, status) = [rows EXCEPT ![id] = row]
    BY <1>1 DEF Mark
  <2> HIDE DEF row
  <2> QED
    BY <1>1, <2>2, <2>3 DEF RowsTyped
<1>2. CASE id \notin DOMAIN rows
  BY <1>2 DEF Mark, RowsTyped
<1> QED
  BY <1>1, <1>2

LEMMA MarkedKeeps ==
  ASSUME SkillInv, NEW id \in SkillIds, NEW status \in SKILL_STATUSES,
         rows' = Mark(id, status), UNCHANGED metrics, status \in Retired => Failed(id)
  PROVE  RowsTyped' /\ Condemned'
<1>1. /\ DOMAIN rows' = DOMAIN rows /\ rows' \in [DOMAIN rows -> SkillRows]
      /\ \A x \in DOMAIN rows : /\ rows'[x].version = rows[x].version
                                /\ x = id => rows'[x].status = status
                                /\ x # id => rows'[x] = rows[x]
  BY MarkedRows DEF SkillInv
<1> QED
  BY <1>1 DEF SkillInv, RowsTyped, Condemned, Failed

LEMMA PreviousIs ==
  ASSUME NEW v, NEW p \in Previous(v)
  PROVE  p \in ActiveIds /\ p \in DOMAIN rows /\ rows[p].status = "ACTIVE" /\ rows[p].version < v
BY DEF Previous, ActiveIds

(* A rollback retires the version judged and finds another still serving.  *)
LEMMA RolledBackRows ==
  ASSUME SkillInv, RollBack
  PROVE  /\ DOMAIN rows' = DOMAIN rows /\ rows' \in [DOMAIN rows -> SkillRows]
         /\ rows'[call.id].status = "ROLLED_BACK" /\ rows'[call.id].version = rows[call.id].version
         /\ \A x \in DOMAIN rows : x # call.id => rows'[x] = rows[x]
<1>1. PICK p \in Previous(call.version) :
        rows' = [Mark(call.id, "ROLLED_BACK") EXCEPT ![p].status = "ACTIVE"]
  BY DEF RollBack
<1>2. /\ call.id \in DOMAIN rows /\ rows[call.id].version = call.version /\ call.id \in SkillIds
  BY DEF RollBack, CallAt, SkillInv, CallInv, RowsTyped
<1>3. p \in DOMAIN rows /\ rows[p].status = "ACTIVE" /\ rows[p].version < call.version
  BY PreviousIs
<1>4. p # call.id
  <2>1. rows[call.id].version \in Nat
    BY <1>2 DEF SkillInv, RowsTyped, SkillRows, Versions
  <2> QED
    BY <1>2, <1>3, <2>1
<1> DEFINE marked == Mark(call.id, "ROLLED_BACK")
<1>5. "ROLLED_BACK" \in SKILL_STATUSES
  BY DEF SKILL_STATUSES
<1>6. /\ DOMAIN marked = DOMAIN rows /\ marked \in [DOMAIN rows -> SkillRows]
      /\ \A x \in DOMAIN rows : /\ marked[x].version = rows[x].version
                                /\ x = call.id => marked[x].status = "ROLLED_BACK"
                                /\ x # call.id => marked[x] = rows[x]
  BY <1>2, <1>5, MarkedRows DEF SkillInv
<1>7. rows' = [marked EXCEPT ![p].status = "ACTIVE"]
  BY <1>1
<1> HIDE DEF marked
<1>8. marked[p] = rows[p] /\ marked[p] \in SkillRows
  BY <1>3, <1>4, <1>6
<1>9. [marked[p] EXCEPT !.status = "ACTIVE"] = marked[p]
  BY <1>3, <1>8 DEF SkillRows
<1>10. rows' = marked
  BY <1>3, <1>6, <1>7, <1>9
<1> QED
  BY <1>2, <1>6, <1>10

-----------------------------------------------------------------------------
(* Metrics *)

(* Another failure never clears a version.                                 *)
LEMMA FailureRecorded ==
  ASSUME SkillInv, NEW id, metrics' = RecordFailure(id), UNCHANGED rows
  PROVE  /\ MetricsTyped' /\ Condemned' /\ id \in DOMAIN metrics'
         /\ \A x : Failed(x) => Failed(x)'
<1> DEFINE m == [Metrics(id) EXCEPT !.executions = @ + 1]
<1>1. Metrics(id) \in MetricRows
  BY DEF Metrics, MetricRows, SkillInv, MetricsTyped
<1>2. m \in MetricRows /\ m.executions = Metrics(id).executions + 1 /\ m.successes = Metrics(id).successes
  BY <1>1 DEF MetricRows
<1>3. metrics' = Put(metrics, id, m)
  BY DEF RecordFailure
<1>4. Degraded(Metrics(id)) => Degraded(m)
  BY <1>1, <1>2, MinExecutionsAssumption DEF Degraded, MetricRows
<1> HIDE DEF m
<1>5. /\ DOMAIN metrics' = DOMAIN metrics \cup {id} /\ metrics'[id] = m
      /\ metrics' \in [DOMAIN metrics \cup {id} -> MetricRows]
      /\ \A x \in DOMAIN metrics : x # id => metrics'[x] = metrics[x]
  BY <1>2, <1>3 DEF Put, SkillInv, MetricsTyped
<1>6. \A x : Failed(x) => Failed(x)'
  BY <1>4, <1>5 DEF Failed, Metrics
<1>7. MetricsTyped'
  BY <1>5 DEF MetricsTyped
<1>8. Condemned'
  BY <1>6 DEF SkillInv, Condemned
<1> QED
  BY <1>5, <1>6, <1>7, <1>8

(* What a call leaves as it was.                                           *)
LEMMA SameRegistry ==
  ASSUME SkillInv, UNCHANGED <<rows, metrics, enabled>>, CallInv'
  PROVE  SkillInv'
BY DEF SkillInv, RowsTyped, MetricsTyped, Condemned, Failed

LEMMA IdleCall == ASSUME call' = NoCall PROVE CallInv'
BY DEF CallInv, NoCall, CallAt

LEMMA CallTyped ==
  ASSUME SkillInv, ~CallAt("idle")
  PROVE  call \in SkillCalls /\ call.id \in SkillIds /\ call.version \in Versions
BY DEF SkillInv, CallInv, CallAt, NoCall, SkillCalls

-----------------------------------------------------------------------------
(* SkillInv is inductive *)

SkillStep ==
  \/ SubmitRefused \/ Submit \/ Analyzed \/ Quarantine
  \/ ExecuteRefused \/ Execute \/ MarkDegraded \/ NothingToRollBackTo
  \/ RollBack \/ SwitchEnabled \/ RecordRollback \/ RollbackExperience \/ Crash

LEMMA SkillStart == Init => SkillInv
<1> SUFFICES ASSUME Init PROVE SkillInv
  OBVIOUS
<1>1. /\ DOMAIN rows = DOMAIN Inherited
      /\ \A id \in DOMAIN Inherited : rows[id].version = Inherited[id] /\ rows[id].status = "ACTIVE"
  BY DEF Init, Row
<1>2. rows \in [DOMAIN rows -> SkillRows]
  BY InheritedAssumption DEF Init, Row, SkillRows, Versions, SKILL_STATUSES
<1>3. RowsTyped
  BY <1>1, <1>2, InheritedAssumption DEF RowsTyped
<1>4. MetricsTyped
  BY MinExecutionsAssumption DEF Init, MetricsTyped, MetricRows
<1>5. Condemned
  BY <1>1 DEF Condemned, Retired
<1>6. CallInv /\ enabled \subseteq Versions
  BY InheritedAssumption DEF Init, CallInv, NoCall, CallAt, Versions
<1> QED
  BY <1>3, <1>4, <1>5, <1>6 DEF SkillInv

LEMMA NoOtherStatus ==
  \A status \in {"ANALYZING", "TESTING", "QUARANTINED", "REJECTED"} :
    status \in SKILL_STATUSES \ (Retired \cup {"ACTIVE"})
BY DEF SKILL_STATUSES, Retired

LEMMA SubmissionStep ==
  ASSUME SkillInv, SubmitRefused \/ Submit \/ Analyzed \/ Quarantine
  PROVE  /\ SkillInv'
         /\ \A x \in DOMAIN rows' : \/ rows'[x].status # "ACTIVE"
                                    \/ x \in DOMAIN rows /\ rows'[x] = rows[x]
<1>1. PICK id \in SkillIds, v \in Versions,
           status \in {"ANALYZING", "TESTING", "QUARANTINED", "REJECTED"} :
        rows' = Persisted(id, v, status)
  <2>1. CASE SubmitRefused
    BY <2>1 DEF SubmitRefused
  <2>2. CASE Submit
    BY <2>2 DEF Submit
  <2>3. CASE Analyzed
    BY <2>3, CallTyped DEF Analyzed, Judge, CallAt
  <2>4. CASE Quarantine
    BY <2>4, CallTyped DEF Quarantine, CallAt
  <2> QED
    BY <2>1, <2>2, <2>3, <2>4
<1>2. UNCHANGED <<metrics, enabled>>
  BY DEF SubmitRefused, Submit, Analyzed, Quarantine, Keep
<1>3. /\ RowsTyped' /\ Condemned'
      /\ \A x \in DOMAIN rows' : \/ x = id /\ rows'[x].status = status
                                 \/ x \in DOMAIN rows /\ rows'[x] = rows[x]
  BY <1>1, <1>2, PersistedRows, NoOtherStatus
<1>4. CallInv'
  <2>1. CASE SubmitRefused
    BY <2>1 DEF SubmitRefused, Ready, SkillInv, CallInv, CallAt
  <2>2. CASE Submit
    BY <2>2 DEF Submit, CallInv, CallAt, SkillCalls, CallPoints
  <2>3. CASE Analyzed
    <3>1. call' = [call EXCEPT !.pc = "testing"] \/ call' = NoCall
      BY <2>3 DEF Analyzed, Judge
    <3>2. call \in SkillCalls
      BY <2>3, CallTyped DEF Analyzed, CallAt
    <3> QED
      BY <3>1, <3>2, IdleCall DEF CallInv, CallAt, SkillCalls, CallPoints
  <2>4. CASE Quarantine
    BY <2>4, IdleCall DEF Quarantine
  <2> QED
    BY <2>1, <2>2, <2>3, <2>4
<1> QED
  BY <1>1, <1>2, <1>3, <1>4 DEF SkillInv, MetricsTyped

LEMMA ExecutionStep ==
  ASSUME SkillInv, ExecuteRefused \/ Execute
  PROVE  SkillInv' /\ UNCHANGED rows
<1>1. PICK id \in Serving :
        /\ metrics' = RecordFailure(id)
        /\ \/ UNCHANGED call /\ CallAt("idle")
           \/ call' = IF Degraded(RecordFailure(id)[id])
                      THEN [pc |-> "degrade", id |-> id, version |-> rows[id].version]
                      ELSE NoCall
  BY DEF ExecuteRefused, Execute, Ready
<1>2. UNCHANGED <<rows, enabled>>
  BY DEF ExecuteRefused, Execute
<1>3. MetricsTyped' /\ Condemned' /\ id \in DOMAIN metrics' /\ \A x : Failed(x) => Failed(x)'
  BY <1>1, <1>2, FailureRecorded
<1>4. id \in DOMAIN rows /\ id \in SkillIds /\ rows[id].version \in Versions
  BY DEF Serving, ActiveIds, SkillInv, RowsTyped, SkillRows
<1>5. CallInv'
  <2>1. CASE UNCHANGED call /\ CallAt("idle")
    BY <2>1 DEF SkillInv, CallInv, CallAt
  <2>2. CASE call' = NoCall
    BY <2>2, IdleCall
  <2>3. CASE /\ call' = [pc |-> "degrade", id |-> id, version |-> rows[id].version]
             /\ Degraded(RecordFailure(id)[id])
    <3>1. Failed(id)'
      BY <1>1, <1>3, <2>3 DEF Failed
    <3>2. call'.pc = "degrade" /\ call'.id = id /\ call'.version = rows[id].version /\ call' \in SkillCalls
      BY <1>4, <2>3 DEF SkillCalls, CallPoints
    <3> QED
      BY <1>2, <1>4, <3>1, <3>2 DEF CallInv, CallAt, Failed
  <2> QED
    BY <1>1, <2>1, <2>2, <2>3
<1> QED
  BY <1>2, <1>3, <1>5 DEF SkillInv, RowsTyped

LEMMA MarkDegradedStep == ASSUME SkillInv, MarkDegraded PROVE SkillInv'
<1>1. /\ call \in SkillCalls /\ call.id \in SkillIds /\ call.pc = "degrade"
      /\ call.id \in DOMAIN rows /\ rows[call.id].version = call.version /\ Failed(call.id)
  BY CallTyped DEF MarkDegraded, CallAt, SkillInv, CallInv
<1>2. /\ rows' = Mark(call.id, "DEGRADED") /\ UNCHANGED <<metrics, enabled>>
      /\ call' = [call EXCEPT !.pc = "rollback"]
  BY DEF MarkDegraded, Keep
<1>3. "DEGRADED" \in SKILL_STATUSES
  BY DEF SKILL_STATUSES
<1>4. RowsTyped' /\ Condemned'
  BY <1>1, <1>2, <1>3, MarkedKeeps
<1>5. DOMAIN rows' = DOMAIN rows /\ rows'[call.id].version = rows[call.id].version
  BY <1>1, <1>2, <1>3, MarkedRows DEF SkillInv
<1>6. call' \in SkillCalls /\ call'.id = call.id /\ call'.version = call.version /\ call'.pc = "rollback"
  BY <1>1, <1>2 DEF SkillCalls, CallPoints
<1>7. CallInv'
  BY <1>1, <1>2, <1>5, <1>6 DEF CallInv, CallAt, Failed
<1> QED
  BY <1>2, <1>4, <1>7 DEF SkillInv, MetricsTyped

LEMMA NothingStep == ASSUME SkillInv, NothingToRollBackTo PROVE SkillInv'
<1>1. call.id \in SkillIds /\ "QUARANTINED" \in SKILL_STATUSES /\ "QUARANTINED" \notin Retired
  BY CallTyped DEF NothingToRollBackTo, CallAt, SKILL_STATUSES, Retired
<1>2. /\ rows' = Mark(call.id, "QUARANTINED") /\ UNCHANGED <<metrics, enabled>> /\ call' = NoCall
  BY DEF NothingToRollBackTo, Keep
<1>3. RowsTyped' /\ Condemned'
  BY <1>1, <1>2, MarkedKeeps
<1> QED
  BY <1>2, <1>3, IdleCall DEF SkillInv, MetricsTyped

LEMMA RollBackStep == ASSUME SkillInv, RollBack PROVE SkillInv'
<1>1. /\ call \in SkillCalls /\ call.pc = "rollback" /\ Failed(call.id)
  BY CallTyped DEF RollBack, CallAt, SkillInv, CallInv
<1>2. UNCHANGED <<metrics, enabled>> /\ call' = [call EXCEPT !.pc = "enable"]
  BY DEF RollBack, Keep
<1>3. /\ DOMAIN rows' = DOMAIN rows /\ rows' \in [DOMAIN rows -> SkillRows]
      /\ rows'[call.id].version = rows[call.id].version
      /\ \A x \in DOMAIN rows : x # call.id => rows'[x] = rows[x]
  BY RolledBackRows
<1>4. RowsTyped'
  BY <1>3 DEF SkillInv, RowsTyped
<1>5. Condemned'
  BY <1>1, <1>2, <1>3 DEF SkillInv, Condemned, Failed
<1>6. call' \in SkillCalls /\ call'.id = call.id /\ call'.pc = "enable"
  BY <1>1, <1>2 DEF SkillCalls, CallPoints
<1>7. CallInv'
  BY <1>1, <1>2, <1>6 DEF CallInv, CallAt, Failed
<1> QED
  BY <1>2, <1>4, <1>5, <1>7 DEF SkillInv, MetricsTyped

LEMMA SwitchEnabledStep == ASSUME SkillInv, SwitchEnabled PROVE SkillInv'
<1>1. PICK p \in Previous(call.version) : enabled' = (enabled \ {call.version}) \cup {rows[p].version}
  BY DEF SwitchEnabled
<1>2. call \in SkillCalls /\ call.pc = "enable" /\ call.id \in DOMAIN metrics
  BY CallTyped DEF SwitchEnabled, CallAt, SkillInv, CallInv
<1>3. UNCHANGED <<rows, metrics>> /\ call' = [call EXCEPT !.pc = "record"]
  BY DEF SwitchEnabled
<1>4. enabled' \subseteq Versions
  BY <1>1, PreviousIs DEF SkillInv, RowsTyped, SkillRows
<1>5. call' \in SkillCalls /\ call'.id = call.id /\ call'.pc = "record"
  BY <1>2, <1>3 DEF SkillCalls, CallPoints
<1>6. CallInv'
  BY <1>2, <1>3, <1>5 DEF CallInv, CallAt
<1> QED
  BY <1>3, <1>4, <1>6 DEF SkillInv, RowsTyped, MetricsTyped, Condemned, Failed

LEMMA RecordRollbackStep == ASSUME SkillInv, RecordRollback PROVE SkillInv'
<1> DEFINE m == [metrics[call.id] EXCEPT !.rollbacks = @ + 1]
<1>1. /\ call \in SkillCalls /\ call.pc = "record" /\ call.id \in DOMAIN metrics
      /\ metrics[call.id] \in MetricRows
  BY CallTyped DEF RecordRollback, CallAt, SkillInv, CallInv, MetricsTyped
<1>2. /\ m \in MetricRows /\ m.executions = metrics[call.id].executions
      /\ m.successes = metrics[call.id].successes
  BY <1>1 DEF MetricRows
<1>3. metrics' = [metrics EXCEPT ![call.id] = m] /\ UNCHANGED <<rows, enabled>>
  BY DEF RecordRollback
<1> HIDE DEF m
<1>4. /\ DOMAIN metrics' = DOMAIN metrics /\ metrics' \in [DOMAIN metrics -> MetricRows]
      /\ metrics'[call.id] = m /\ \A x \in DOMAIN metrics : x # call.id => metrics'[x] = metrics[x]
  BY <1>1, <1>2, <1>3 DEF SkillInv, MetricsTyped
<1>5. \A x : Failed(x) => Failed(x)'
  BY <1>2, <1>4 DEF Failed, Degraded
<1>6. Condemned' /\ MetricsTyped'
  BY <1>3, <1>4, <1>5 DEF SkillInv, Condemned, MetricsTyped
<1>7. call' = [call EXCEPT !.pc = "experience"]
  BY DEF RecordRollback
<1>8. call' \in SkillCalls /\ call'.pc = "experience"
  BY <1>1, <1>7 DEF SkillCalls, CallPoints
<1>9. CallInv'
  BY <1>8 DEF CallInv, CallAt
<1> QED
  BY <1>3, <1>6, <1>9 DEF SkillInv, RowsTyped

LEMMA SkillKeeps == ASSUME SkillInv, [Next]_vars PROVE SkillInv'
<1>1. CASE Learn \/ UNCHANGED vars
  <2>1. UNCHANGED <<rows, metrics, enabled, call>>
    BY <1>1 DEF Learn, vars, skillVars
  <2> QED
    BY <2>1, SameRegistry DEF SkillInv, CallInv, CallAt, Failed
<1>2. CASE RollbackExperience \/ Crash
  <2>1. call' = NoCall /\ UNCHANGED <<rows, metrics, enabled>>
    BY <1>2 DEF RollbackExperience, Crash
  <2> QED
    BY <2>1, IdleCall, SameRegistry
<1> QED
  BY <1>1, <1>2, SubmissionStep, ExecutionStep, MarkDegradedStep, NothingStep, RollBackStep,
     SwitchEnabledStep, RecordRollbackStep DEF Next

(* The learning loop takes the experience of a rollback as any other.      *)
LEMMA LoopKeeps == ASSUME LearnInv, [Next]_vars PROVE LearnInv'
<1>1. CASE Learn
  BY <1>1, LearnKeeps DEF Learn
<1>2. CASE RollbackExperience
  <2> DEFINE e == Experience("skill", <<"skill">>, "ROLLED_BACK", {"SKILL_DEGRADED"})
  <2>1. PICK id \in Ids : Free(id) /\ StoreExperience(Manager, id, e)
    BY <1>2 DEF RollbackExperience
  <2>2. e \in ExperienceRows
    <3>1. <<"skill">> \in Uses
      BY DEF Uses, Names
    <3> QED
      BY <3>1 DEF Experience, ExperienceRows, Topics, Outcomes, Causes
  <2>3. /\ id \notin DOMAIN experiences \cup DOMAIN reviews
        /\ \A q \in Runners \ {Manager} : At(q, "run") => work[q].id # id
    BY <2>1 DEF Free
  <2> HIDE DEF e
  <2> QED
    BY <2>1, <2>2, <2>3, StoreStep, ManagerAssumption
<1>3. CASE UNCHANGED learnVars
  BY <1>3, LearnKeeps
<1> QED
  BY <1>1, <1>2, <1>3 DEF Next, vars, SubmitRefused, Submit, Analyzed, Quarantine, ExecuteRefused,
     Execute, MarkDegraded, NothingToRollBackTo, RollBack, SwitchEnabled, RecordRollback, Crash, Keep

LEMMA SkillInvariant == Spec => [](SkillInv /\ LearnInv)
<1>1. Init => SkillInv /\ LearnInv
  BY SkillStart, LearnStart DEF Init
<1>2. SkillInv /\ LearnInv /\ [Next]_vars => (SkillInv /\ LearnInv)'
  BY SkillKeeps, LoopKeeps
<1> QED
  BY <1>1, <1>2, PTL DEF Spec

-----------------------------------------------------------------------------
(* A version number belongs to one skill id at most, in whatever order     *)
(* versions are submitted; rows, metrics and the loop's tables are well    *)
(* formed (skills/registry.py, storage.py).                                *)
THEOREM SkillTypeCorrect == Spec => []TypeOK
<1>1. ASSUME RowsTyped, NEW v \in Versions PROVE Cardinality(HasVersion(v)) <= 1
  <2>1. CASE HasVersion(v) = {}
    BY <2>1, FS_EmptySet
  <2>2. CASE HasVersion(v) # {}
    <3>1. PICK id \in HasVersion(v) : TRUE
      BY <2>2
    <3>2. HasVersion(v) = {id}
      BY <1>1, <3>1 DEF HasVersion, RowsTyped
    <3> QED
      BY <3>2, FS_Singleton
  <2> QED
    BY <2>1, <2>2
<1>2. SkillInv /\ LearnInv => TypeOK
  BY <1>1, LearnTyped DEF SkillInv, RowsTyped, SkillRows, TypeOK
<1> QED
  BY <1>2, SkillInvariant, PTL

(* No version is retired but on a record of its own that is bad enough,    *)
(* wherever the manager was killed (skills/lifecycle.py, degradation).     *)
THEOREM RetirementHasCause == Spec => []RetiredWithCause
<1>1. SkillInv => RetiredWithCause
  BY DEF SkillInv, Condemned, Failed, Degraded, Retired, RetiredWithCause
<1> QED
  BY <1>1, SkillInvariant, PTL

(* Once out of service a version stays out, and none gets into service:    *)
(* not by a submission, a rollback or a crash (skills/lifecycle.py).       *)
THEOREM ServiceOnlyEnds == Spec => OutOfServiceForGood
<1> DEFINE A == \A id \in DOMAIN rows' :
                  rows'[id].status = "ACTIVE" => id \in ActiveIds /\ rows'[id] = rows[id]
<1>1. ASSUME SkillInv, [Next]_vars PROVE [A]_vars
  <2>1. CASE UNCHANGED rows
    BY <2>1 DEF ActiveIds
  <2>2. CASE SubmitRefused \/ Submit \/ Analyzed \/ Quarantine
    BY <1>1, <2>2, SubmissionStep DEF ActiveIds
  <2>3. CASE MarkDegraded \/ NothingToRollBackTo
    <3>1. PICK status \in {"DEGRADED", "QUARANTINED"} : rows' = Mark(call.id, status)
      BY <2>3 DEF MarkDegraded, NothingToRollBackTo
    <3>2. call.id \in SkillIds /\ status \in SKILL_STATUSES
      BY <1>1, <2>3, CallTyped DEF MarkDegraded, NothingToRollBackTo, CallAt, SKILL_STATUSES
    <3>3. /\ DOMAIN rows' = DOMAIN rows
          /\ \A x \in DOMAIN rows : /\ x = call.id => rows'[x].status = status
                                    /\ x # call.id => rows'[x] = rows[x]
      BY <1>1, <3>1, <3>2, MarkedRows DEF SkillInv
    <3> QED
      BY <3>3 DEF ActiveIds
  <2>4. CASE RollBack
    <3>1. /\ DOMAIN rows' = DOMAIN rows /\ rows'[call.id].status = "ROLLED_BACK"
          /\ \A x \in DOMAIN rows : x # call.id => rows'[x] = rows[x]
      BY <1>1, <2>4, RolledBackRows
    <3> QED
      BY <3>1 DEF ActiveIds
  <2> QED
    BY <1>1, <2>1, <2>2, <2>3, <2>4, ExecutionStep
       DEF Next, vars, skillVars, Learn, SwitchEnabled, RecordRollback, RollbackExperience, Crash
<1> HIDE DEF A
<1>2. Spec => [][A]_vars
  BY <1>1, SkillInvariant, PTL DEF Spec
<1> QED
  BY <1>2 DEF OutOfServiceForGood, A
=============================================================================
