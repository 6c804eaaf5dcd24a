------------------------------ MODULE Learning ------------------------------
(***************************************************************************)
(* The loop Experience -> ReflectionInsight -> LearnedStrategy -> plan.    *)
(* A runner plans with the active strategies, stores the experience of the *)
(* run, reflects on a few stored experiences, saves the insights and then  *)
(* merges each of them into its strategy.  Every read and every write is a *)
(* transaction of its own, runners of several workers interleave, and one  *)
(* may be killed (or lose its task's lease) between any two of them.  An   *)
(* owner's review of a finding is learned from in the same way.            *)
(*                                                                         *)
(* Abstracted: goals and task types are one "topic"; which experiences of  *)
(* a topic score highest and fit into the character limit is any choice;   *)
(* confidences are in hundredths; evidence, wording and ids are left out.  *)
(* Every run is a task of its own.  Plans are those made without an LLM    *)
(* provider: one step, the tool chosen by the fallback.                    *)
(***************************************************************************)
EXTENDS Naturals, Sequences, FiniteSets

CONSTANTS Runners,      \* threads that run tasks or answer review requests
          Ids,          \* task ids and review ids
          Available,    \* the registered tools, in order
          Failures,     \* failure types a diagnosis may name
          Decisions,    \* decisions an owner may take on a finding
          MaxResults,   \* experiences retrieved at most
          MinSupport,   \* experiences an insight needs
          MinConfidence \* confidence an active strategy needs, in hundredths

ASSUME LimitsAssumption ==
  /\ MaxResults \in Nat \ {0}
  /\ MinSupport \in Nat \ {0}
  /\ MinConfidence \in 0..100

VARIABLES
  experiences, \* table experiences, by task
  reviews,     \* table bugbounty_finding_reviews, by review
  reflections, \* table reflection_insights
  strategies,  \* table learned_strategies, by strategy id
  work         \* locals of each runner

learnVars == <<experiences, reviews, reflections, strategies, work>>

Tools == {Available[i] : i \in DOMAIN Available}
NoTool == "none"

(* A planner needs a tool (planner.py:361); "none" is not the name of one. *)
ASSUME ToolsAssumption == Available \in Seq(Tools) \ {<<>>} /\ NoTool \notin Tools

Lesser(m, n) == IF m <= n THEN m ELSE n
Greater(m, n) == IF m >= n THEN m ELSE n
Clamp(n, low, high) == Greater(low, Lesser(high, n))
Less(m, n) == IF m <= n THEN 0 ELSE m - n
Put(f, k, v) == [x \in DOMAIN f \cup {k} |-> IF x = k THEN v ELSE f[x]]

-----------------------------------------------------------------------------
(* Experiences                                                             *)

Outcomes == {"COMPLETED", "FAILED", "ROLLED_BACK"}
Topics == {"task", "skill", "review"}

(* What is kept of a run: tools in the order of their first use and the    *)
(* failures diagnosed.  One fails only by a diagnosed failure, and changes *)
(* the planned tool only after one.                                        *)
Experience(topic, tools, outcome, failures) ==
  [topic |-> topic, tools |-> tools, outcome |-> outcome, failures |-> failures]

UsesOf(tool) == {<<tool>>} \cup {<<tool, other>> : other \in Tools \ {tool}}
RunsOf(tool) ==
  {e \in {Experience("task", u, o, f) : u \in UsesOf(tool), o \in Outcomes \ {"ROLLED_BACK"},
                                        f \in SUBSET Failures} :
     e.outcome # "COMPLETED" \/ Len(e.tools) > 1 => e.failures # {}}

First(e) == e.tools[1]
Final(e) == e.tools[Len(e.tools)]

(* The recoveries of a diagnosed invalid input; no other one is looked at. *)
Adjusted(e) == "INVALID_INPUT" \in e.failures /\ e.outcome = "COMPLETED"

(* retrieve and _is_relevant: same task type, a tool or failure in common. *)
Related(e, query) ==
  \/ e.topic = query.topic
  \/ \E i \in DOMAIN e.tools, j \in DOMAIN query.tools : e.tools[i] = query.tools[j]
  \/ e.failures \cap query.failures # {}

(* Some of them, never none: the limits cut the rest.                      *)
Retrievals(query) ==
  LET related == {t \in DOMAIN experiences : Related(experiences[t], query)}
  IN  IF related = {} THEN {{}}
      ELSE {s \in SUBSET related : s # {} /\ Cardinality(s) <= MaxResults}

-----------------------------------------------------------------------------
(* Reflection: pure analysis of the retrieved experiences S                *)

Confidence(supports, conflicts, alternative) ==
  Clamp(Less(45 + Lesser(30, 12 * supports) + (IF alternative THEN 12 ELSE 0),
             Lesser(30, 8 * conflicts)), 10, 95)

Insight(pattern, topic, failed, alternative, failures, supports, conflicts) ==
  [pattern |-> pattern, topic |-> topic, failed |-> failed, alternative |-> alternative,
   failures |-> failures, supports |-> supports, conflicts |-> conflicts,
   confidence |-> Confidence(Cardinality(supports), Cardinality(conflicts),
                             alternative # NoTool)]

(* Mutant of Enough: a single experience is a pattern.                     *)
EnoughAlready(S, least) == S # {}

Enough(S, least) == Cardinality(S) >= least

Recovered(S, f, a, F) ==
  {t \in S : LET e == experiences[t]
             IN  /\ e.outcome = "COMPLETED" /\ Len(e.tools) >= 2
                 /\ First(e) = f /\ Final(e) = a /\ e.failures = F /\ F # {}}

(* Runs that began with f too and say otherwise.                           *)
AgainstAlternative(S, f, a, F) ==
  {t \in S : LET e == experiences[t]
             IN  /\ First(e) = f
                 /\ \/ /\ e.outcome # "COMPLETED"
                       /\ e.failures \cap F # {} \/ a \in {e.tools[i] : i \in DOMAIN e.tools}
                    \/ e.outcome = "COMPLETED" /\ Len(e.tools) = 1}

RecoveryPatterns(S, topic) ==
  {Insight("successful_recovery_alternative", topic, k[1], k[2], k[3],
           Recovered(S, k[1], k[2], k[3]), AgainstAlternative(S, k[1], k[2], k[3])) :
     k \in {<<First(e), Final(e), e.failures>> : e \in {experiences[t] : t \in S}}
           \cap {x \in Tools \X Tools \X SUBSET Failures :
                   Enough(Recovered(S, x[1], x[2], x[3]), MinSupport)}}

Unresolved(S, f, F) ==
  {t \in S : LET e == experiences[t]
             IN  e.outcome # "COMPLETED" /\ First(e) = f /\ e.failures = F /\ F # {}}

AgainstWarning(S, f, F) ==
  {t \in S : LET e == experiences[t]
             IN  e.outcome = "COMPLETED" /\ First(e) = f /\ e.failures \cap F # {}}

RepeatedFailurePatterns(S, topic) ==
  {Insight("repeated_failure_warning", topic, k[1], NoTool, k[2],
           Unresolved(S, k[1], k[2]), AgainstWarning(S, k[1], k[2])) :
     k \in {x \in {<<First(e), e.failures>> : e \in {experiences[t] : t \in S}} :
              Enough(Unresolved(S, x[1], x[2]), Greater(2, MinSupport))}}

(* The two patterns no strategy is made of.                                *)
SharedFailure(S, topic, pattern, failure, supports) ==
  IF Enough(supports, MinSupport)
  THEN {Insight(pattern, topic, NoTool, NoTool, {failure}, supports, {})} ELSE {}

VerificationPatterns(S, topic) ==
  SharedFailure(S, topic, "verification_failure_requires_evidence", "VERIFICATION_FAILED",
                {t \in S : "VERIFICATION_FAILED" \in experiences[t].failures})

InputPatterns(S, topic) ==
  SharedFailure(S, topic, "invalid_input_adjustment", "INVALID_INPUT",
                {t \in S : Adjusted(experiences[t])})

Analyze(S, topic) ==
  RecoveryPatterns(S, topic) \cup RepeatedFailurePatterns(S, topic)
    \cup VerificationPatterns(S, topic) \cup InputPatterns(S, topic)

(* insight_id: what an INSERT OR REPLACE takes for the same insight.       *)
InsightId(i) == [pattern |-> i.pattern, topic |-> i.topic, failed |-> i.failed,
                 alternative |-> i.alternative, failures |-> i.failures, supports |-> i.supports]

(* An owner's review: no experience, no conflicts, an insight of its own.  *)
ReviewInsight(id, decision) ==
  [Insight("bugbounty_review_feedback", "review", NoTool, NoTool, {decision}, {id}, {})
     EXCEPT !.confidence = IF decision = "CONFIRM" THEN 90 ELSE 55]

-----------------------------------------------------------------------------
(* Strategies                                                              *)

Teaches(i) == i.pattern \in {"successful_recovery_alternative", "repeated_failure_warning",
                             "bugbounty_review_feedback"}

StrategyId(i) == [pattern |-> i.pattern, topic |-> i.topic, failed |-> i.failed,
                  alternative |-> i.alternative, failures |-> i.failures]

(* Mutant of Status: conflicting evidence does not matter.                 *)
StatusByConfidence(confidence, conflicts) ==
  IF confidence < MinConfidence THEN "uncertain" ELSE "active"

Status(confidence, conflicts) ==
  IF conflicts # {} \/ confidence < MinConfidence THEN "uncertain" ELSE "active"

Strategy(insights, supports, conflicts, confidence) ==
  [insights |-> insights, supports |-> supports, conflicts |-> conflicts,
   confidence |-> confidence, status |-> Status(confidence, conflicts)]

FromInsight(i) == Strategy({InsightId(i)}, i.supports, i.conflicts, i.confidence)

(* Mutant of Merge: the newest reflection replaces the evidence.           *)
MergeLatest(existing, candidate) ==
  Strategy(existing.insights \cup candidate.insights, candidate.supports, candidate.conflicts,
           Greater(existing.confidence, candidate.confidence))

(* Evidence adds up; every conflict known is held against it once more.    *)
Merge(existing, candidate) ==
  LET conflicts == existing.conflicts \cup candidate.conflicts
      highest == Greater(existing.confidence, candidate.confidence)
  IN  Strategy(existing.insights \cup candidate.insights,
               existing.supports \cup candidate.supports, conflicts,
               Clamp(Less(highest, Lesser(45, 12 * Cardinality(conflicts))), 5, 95))

Known(id) == id \in DOMAIN strategies
NoStrategy == [status |-> "none"]
Lookup(id) == IF Known(id) THEN strategies[id] ELSE NoStrategy

-----------------------------------------------------------------------------
(* Planning                                                                *)

(* retrieve_relevant for a task: strategies of another topic score 0.      *)
Advice == {id \in DOMAIN strategies : /\ id.topic = "task"
                                      /\ strategies[id].status = "active"
                                      /\ strategies[id].confidence >= MinConfidence}

Preferred ==
  LET eligible == {id \in Advice : id.alternative \in Tools}
  IN  {id.alternative : id \in {x \in eligible : \A y \in eligible :
                                  strategies[y].confidence <= strategies[x].confidence}}

Avoided == {id.failed : id \in Advice}

FirstTool(S) == CHOOSE t \in S : \E i \in DOMAIN Available :
  t = Available[i] /\ \A j \in 1..(i - 1) : Available[j] \notin S

(* Ties between preferences are broken by the hash, that is anyhow.        *)
PlannedTools ==
  IF Preferred # {} THEN Preferred
  ELSE IF Available[1] \in Avoided /\ Tools \ Avoided # {} THEN {FirstTool(Tools \ Avoided)}
  ELSE {Available[1]}

-----------------------------------------------------------------------------
(* Runners                                                                 *)

(* todo: insights to save, then to learn from; done: those saved; now: the *)
(* one being learned from; read: the strategy found for it.                *)
Idle == [pc |-> "idle", id |-> NoTool, tool |-> NoTool, todo |-> {}, done |-> {},
         now |-> {}, read |-> NoStrategy]

LearnInit ==
  /\ experiences = <<>> /\ reviews = <<>> /\ reflections = {} /\ strategies = <<>>
  /\ work = [r \in Runners |-> Idle]

At(r, pc) == work[r].pc = pc

Free(id) == /\ id \notin DOMAIN experiences \cup DOMAIN reviews
            /\ \A r \in Runners : work[r].id # id
Foremost(S) == {i \in S : \A j \in S : j.confidence <= i.confidence}

(* What is left to learn, or else the end of the call.                     *)
ToLearn(r, insights) ==
  [work EXCEPT ![r] = IF insights = {} THEN Idle
                      ELSE [Idle EXCEPT !.pc = "learn", !.todo = insights]]

(* A run begins: the strategies are read and a tool is planned.            *)
Plan(r) ==
  /\ At(r, "idle")
  /\ \E id \in Ids, tool \in PlannedTools :
       /\ Free(id)
       /\ work' = [work EXCEPT ![r].pc = "run", ![r].id = id, ![r].tool = tool]
  /\ UNCHANGED <<experiences, reviews, reflections, strategies>>

(* It ends, one way or another, and its experience is stored.              *)
StoreExperience(r, id, e) ==
  /\ experiences' = Put(experiences, id, e)
  /\ work' = [work EXCEPT ![r].pc = "reflect", ![r].id = id, ![r].tool = NoTool]
  /\ UNCHANGED <<reviews, reflections, strategies>>

Finish(r) ==
  /\ At(r, "run")
  /\ \E e \in RunsOf(work[r].tool) : StoreExperience(r, work[r].id, e)

(* reflect_for_experience: retrieval and analysis, nothing written yet.    *)
Reflect(r) ==
  /\ At(r, "reflect")
  /\ LET query == experiences[work[r].id]
     IN  \E s \in Retrievals(query) :
           LET insights == Analyze(s, query.topic)
           IN  IF insights = {} THEN work' = [work EXCEPT ![r] = Idle]
               ELSE work' = [work EXCEPT ![r].pc = "save", ![r].todo = insights,
                                         ![r].id = NoTool]
  /\ UNCHANGED <<experiences, reviews, reflections, strategies>>

(* save_reflection, for each insight before any is learned from.           *)
SaveInsight(r) ==
  /\ At(r, "save")
  /\ \E i \in Foremost(work[r].todo) :
       LET done == work[r].done \cup {i}
       IN  /\ reflections' = {j \in reflections : InsightId(j) # InsightId(i)} \cup {i}
           /\ work' = IF work[r].todo = {i} THEN ToLearn(r, {j \in done : Teaches(j)})
                      ELSE [work EXCEPT ![r].todo = @ \ {i}, ![r].done = done]
  /\ UNCHANGED <<experiences, reviews, strategies>>

(* learn: the strategy of the next insight is read ...                     *)
ReadStrategy(r) ==
  /\ At(r, "learn")
  /\ \E i \in Foremost(work[r].todo) :
       work' = [work EXCEPT ![r].pc = "merge", ![r].todo = @ \ {i}, ![r].now = {i},
                            ![r].read = Lookup(StrategyId(i))]
  /\ UNCHANGED <<experiences, reviews, reflections, strategies>>

Merged(r, i) ==
  IF work[r].read = NoStrategy THEN FromInsight(i) ELSE Merge(work[r].read, FromInsight(i))

(* ... and what it becomes is written, whatever it is by now.              *)
SaveStrategy(r) ==
  /\ At(r, "merge")
  /\ \E i \in work[r].now : strategies' = Put(strategies, StrategyId(i), Merged(r, i))
  /\ work' = ToLearn(r, work[r].todo)
  /\ UNCHANGED <<experiences, reviews, reflections>>

(* apply_review after the review is saved.  A finding may be confirmed     *)
(* only when the evidence gate passed it and its digest is still that one. *)
Findings == [ready : BOOLEAN, validated : BOOLEAN, digest : {"then", "now"}]
Confirmable(f) == f.ready /\ f.validated /\ f.digest = "then"

Review(r) ==
  /\ At(r, "idle")
  /\ \E id \in Ids, decision \in Decisions, f \in Findings :
       /\ Free(id)
       /\ decision = "CONFIRM" => Confirmable(f)
       /\ reviews' = Put(reviews, id, decision)
       /\ work' = ToLearn(r, {ReviewInsight(id, decision)})
  /\ UNCHANGED <<experiences, reflections, strategies>>

(* The process dies, or the task's lease is lost and its writes refused.   *)
Abandon(r) ==
  /\ ~At(r, "idle")
  /\ work' = [work EXCEPT ![r] = Idle]
  /\ UNCHANGED <<experiences, reviews, reflections, strategies>>

LearnStep(r) ==
  \/ Plan(r) \/ Finish(r) \/ Reflect(r) \/ SaveInsight(r)
  \/ ReadStrategy(r) \/ SaveStrategy(r) \/ Review(r) \/ Abandon(r)

LearnSpec == LearnInit /\ [][\E r \in Runners : LearnStep(r)]_learnVars

-----------------------------------------------------------------------------
(* Properties                                                              *)

Patterns == {"successful_recovery_alternative", "repeated_failure_warning",
             "verification_failure_requires_evidence", "invalid_input_adjustment",
             "bugbounty_review_feedback"}

LearnTypeOK ==
  /\ DOMAIN experiences \subseteq Ids
  /\ \A t \in DOMAIN experiences : experiences[t].outcome \in Outcomes
  /\ DOMAIN reviews \subseteq Ids \ DOMAIN experiences
  /\ \A i \in reflections : i.pattern \in Patterns /\ i.confidence \in 10..95
  /\ \A id \in DOMAIN strategies : /\ strategies[id].confidence \in 5..95
                                   /\ strategies[id].status \in {"active", "uncertain"}
  /\ \A r \in Runners : work[r].pc \in {"idle", "run", "reflect", "save", "learn", "merge"}

(* A runner plans another tool than the first one only when enough runs    *)
(* were completed by that tool after another failed, or when enough failed *)
(* with the tool passed over: by default two, or three.                    *)
Convincing(runs, least, alternative) ==
  /\ Cardinality(runs) >= least
  /\ Confidence(Cardinality(runs), 0, alternative) >= MinConfidence

EarnedDetour(tool) ==
  \E f \in Tools \ {tool}, F \in SUBSET Failures :
    \/ Convincing(Recovered(DOMAIN experiences, f, tool, F), MinSupport, TRUE)
    \/ Convincing(Unresolved(DOMAIN experiences, f, F), Greater(2, MinSupport), FALSE)

DetoursAreEarned ==
  \A r \in Runners : At(r, "run") /\ work[r].tool # Available[1] => EarnedDetour(work[r].tool)

(* An active strategy rests on stored evidence that all points one way: no *)
(* conflict, and every experience and insight it cites is in the tables.   *)
ActiveIsBacked ==
  \A id \in DOMAIN strategies :
    strategies[id].status = "active" =>
      /\ strategies[id].conflicts = {}
      /\ strategies[id].supports \subseteq DOMAIN experiences \cup DOMAIN reviews
      /\ id.topic # "review" => strategies[id].insights \subseteq {InsightId(i) : i \in reflections}

(* Evidence about a strategy, for or against it, is never dropped, unless  *)
(* two runners merge into it at once: one that saves what it read before   *)
(* the other one's save undoes that.                                       *)
Remembers(id) ==
  /\ strategies[id].supports \subseteq strategies'[id].supports
  /\ strategies[id].conflicts \subseteq strategies'[id].conflicts

EvidenceIsKept ==
  [][\A id \in DOMAIN strategies :
       \/ Remembers(id)
       \/ \E r \in Runners : \E i \in work[r].now :
            At(r, "merge") /\ StrategyId(i) = id /\ work[r].read # strategies[id]]_learnVars
=============================================================================
