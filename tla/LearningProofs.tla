--------------------------- MODULE LearningProofs ---------------------------
(***************************************************************************)
(* What the learning loop keeps true, step by step, for any number of      *)
(* runners, runs, tools and failure types.  Knowledge and Skills run the   *)
(* loop next to their own operations; their theorems cite this module's.   *)
(***************************************************************************)
EXTENDS Learning, FiniteSetTheorems, WellFoundedInduction, TLAPS

(* What tables and locals consist of.                                      *)
Names == Tools \cup {NoTool, "skill"}
Causes == Failures \cup Decisions
            \cup {"SKILL_DEGRADED", "VERIFICATION_FAILED", "INVALID_INPUT"}
Uses == {<<a>> : a \in Names} \cup {<<a, b>> : a \in Names, b \in Names}
SomeIds == {S \in SUBSET Ids : IsFiniteSet(S)}

ExperienceRows == [topic : Topics, tools : Uses, outcome : Outcomes, failures : SUBSET Causes]

Insights == [pattern : Patterns, topic : Topics, failed : Names, alternative : Names,
             failures : SUBSET Causes, supports : SomeIds, conflicts : SomeIds,
             confidence : 10..95]
InsightIds == [pattern : Patterns, topic : Topics, failed : Names, alternative : Names,
               failures : SUBSET Causes, supports : SomeIds]
StrategyRows == [insights : SUBSET InsightIds, supports : SomeIds, conflicts : SomeIds,
                 confidence : 5..95, status : {"active", "uncertain"}]

Points == {"idle", "run", "reflect", "save", "learn", "merge"}
Works == [pc : Points, id : Ids \cup {NoTool}, tool : Names, todo : SUBSET Insights,
          done : SUBSET Insights, now : SUBSET Insights, read : {NoStrategy} \cup StrategyRows]

TablesTyped ==
  /\ DOMAIN experiences \in SomeIds /\ experiences \in [DOMAIN experiences -> ExperienceRows]
  /\ DOMAIN reviews \subseteq Ids \ DOMAIN experiences /\ reviews \in [DOMAIN reviews -> Decisions]
  /\ reflections \subseteq Insights
  /\ strategies \in [DOMAIN strategies -> StrategyRows]

(* The id of a run is used for nothing else before its end, and then for   *)
(* its experience.                                                         *)
Reserved ==
  \A r \in Runners :
    /\ At(r, "run") => /\ work[r].id \in Ids /\ work[r].tool \in Tools
                       /\ work[r].id \notin DOMAIN experiences \cup DOMAIN reviews
                       /\ \A q \in Runners \ {r} : At(q, "run") => work[q].id # work[r].id
    /\ At(r, "reflect") => work[r].id \in DOMAIN experiences

LearnInv == TablesTyped /\ work \in [Runners -> Works] /\ Reserved

-----------------------------------------------------------------------------
(* Arithmetic *)

LEMMA LeastNat ==
  ASSUME NEW H, H \subseteq Nat, H # {}
  PROVE  \E i \in H : \A j \in H : i <= j
<1> DEFINE R == OpToRel(<, Nat)
<1>1. IsWellFoundedOn(R, Nat)
  BY NatLessThanWellFounded
<1>2. \A i, j \in Nat : <<j, i>> \in R <=> j < i
  BY DEF OpToRel
<1> HIDE DEF R
<1>3. PICK i \in H : \A j \in H : ~(<<j, i>> \in R)
  BY <1>1, WFMin
<1>4. ASSUME NEW j \in H PROVE i <= j
  <2>1. i \in Nat /\ j \in Nat /\ ~(<<j, i>> \in R)
    BY <1>3
  <2>2. ~(j < i)
    BY <1>2, <2>1
  <2> QED
    BY <2>1, <2>2
<1> QED
  BY <1>4

(* The confidence of an insight is in its bounds, and only evidence for it *)
(* can raise it.                                                           *)
LEMMA ConfidenceBounds ==
  ASSUME NEW s \in Nat, NEW c \in Nat, NEW alternative \in BOOLEAN
  PROVE  Confidence(s, c, alternative) \in 10..95
BY DEF Confidence, Clamp, Greater, Lesser, Less

LEMMA ConfidenceGrows ==
  ASSUME NEW s \in Nat, NEW c \in Nat, NEW n \in Nat, s <= n, NEW alternative \in BOOLEAN
  PROVE  Confidence(s, c, alternative) <= Confidence(n, 0, alternative)
<1> DEFINE e(x) == 45 + Lesser(30, 12 * x) + (IF alternative THEN 12 ELSE 0)
<1>1. e(s) \in Nat /\ e(n) \in Nat /\ e(s) <= e(n)
  BY DEF Lesser
<1>2. Lesser(30, 8 * c) \in Nat /\ Lesser(30, 8 * 0) = 0
  BY DEF Lesser
<1> HIDE DEF e
<1>3. \A x, y, d \in Nat : x <= y => Clamp(Less(x, d), 10, 95) <= Clamp(Less(y, 0), 10, 95)
  BY DEF Clamp, Greater, Lesser, Less
<1> QED
  BY <1>1, <1>2, <1>3 DEF Confidence, e

(* What merging makes of two confidences is at most the higher one.        *)
LEMMA MergedConfidence ==
  ASSUME NEW a \in 5..95, NEW b \in 5..95, NEW n \in Nat
  PROVE  LET merged == Clamp(Less(Greater(a, b), Lesser(45, 12 * n)), 5, 95)
         IN  merged \in 5..95 /\ (merged <= a \/ merged <= b)
<1>1. Lesser(45, 12 * n) \in Nat /\ Greater(a, b) \in {a, b}
  BY DEF Lesser, Greater
<1>2. \A h \in 5..95, d \in Nat : Clamp(Less(h, d), 5, 95) \in 5..95 /\ Clamp(Less(h, d), 5, 95) <= h
  BY DEF Clamp, Greater, Lesser, Less
<1> QED
  BY <1>1, <1>2

-----------------------------------------------------------------------------
(* Rows *)

LEMMA FirstAndFinal ==
  ASSUME NEW e \in ExperienceRows
  PROVE  First(e) \in Names /\ Final(e) \in Names
<1>1. e.tools \in Uses
  BY DEF ExperienceRows
<1>2. \A a, b \in Names : Len(<<a>>) = 1 /\ Len(<<a, b>>) = 2
  OBVIOUS
<1> QED
  BY <1>1, <1>2 DEF Uses, First, Final

LEMMA SubsetIsSome ==
  ASSUME NEW S \in SomeIds, NEW T, T \subseteq S
  PROVE  T \in SomeIds /\ Cardinality(T) \in Nat /\ Cardinality(T) <= Cardinality(S)
<1>1. IsFiniteSet(T) /\ Cardinality(T) <= Cardinality(S)
  BY FS_Subset DEF SomeIds
<1> QED
  BY <1>1, FS_CardinalityType DEF SomeIds

LEMMA NewInsight ==
  ASSUME NEW pattern \in Patterns, NEW topic \in Topics, NEW failed \in Names,
         NEW alternative \in Names, NEW failures \in SUBSET Causes,
         NEW supports \in SomeIds, NEW conflicts \in SomeIds
  PROVE  LET i == Insight(pattern, topic, failed, alternative, failures, supports, conflicts)
         IN  /\ i \in Insights /\ i.supports = supports /\ i.failed = failed
             /\ i.alternative = alternative /\ i.failures = failures
             /\ i.confidence = Confidence(Cardinality(supports), Cardinality(conflicts),
                                          alternative # NoTool)
<1>1. Cardinality(supports) \in Nat /\ Cardinality(conflicts) \in Nat
  BY FS_CardinalityType DEF SomeIds
<1>2. Confidence(Cardinality(supports), Cardinality(conflicts), alternative # NoTool) \in 10..95
  BY <1>1, ConfidenceBounds
<1> QED
  BY <1>2 DEF Insight, Insights

-----------------------------------------------------------------------------
(* Reflection *)

LEMMA PartsOf ==
  ASSUME NEW S
  PROVE  /\ \A f, a, F : Recovered(S, f, a, F) \subseteq S /\ AgainstAlternative(S, f, a, F) \subseteq S
         /\ \A f, F : Unresolved(S, f, F) \subseteq S /\ AgainstWarning(S, f, F) \subseteq S
BY DEF Recovered, AgainstAlternative, Unresolved, AgainstWarning

(* What the four analyses find.                                            *)
LEMMA RecoveryFound ==
  ASSUME TablesTyped, NEW S, S \subseteq DOMAIN experiences, NEW topic \in Topics,
         NEW i \in RecoveryPatterns(S, topic)
  PROVE  /\ i \in Insights /\ i.failed \in Tools /\ i.alternative \in Tools
         /\ i.failures \in SUBSET Failures
         /\ i.supports = Recovered(S, i.failed, i.alternative, i.failures)
         /\ Enough(i.supports, MinSupport)
         /\ i.confidence <= Confidence(Cardinality(i.supports), 0, TRUE)
<1> DEFINE new(k) == Insight("successful_recovery_alternative", topic, k[1], k[2], k[3],
                             Recovered(S, k[1], k[2], k[3]), AgainstAlternative(S, k[1], k[2], k[3]))
<1>1. PICK k \in Tools \X Tools \X SUBSET Failures :
        Enough(Recovered(S, k[1], k[2], k[3]), MinSupport) /\ i = new(k)
  BY DEF RecoveryPatterns
<1>2. k[1] \in Tools /\ k[2] \in Tools /\ k[3] \in SUBSET Failures
  OBVIOUS
<1>3. S \in SomeIds
  BY SubsetIsSome DEF TablesTyped
<1>4. /\ Recovered(S, k[1], k[2], k[3]) \in SomeIds /\ AgainstAlternative(S, k[1], k[2], k[3]) \in SomeIds
      /\ Cardinality(Recovered(S, k[1], k[2], k[3])) \in Nat
      /\ Cardinality(AgainstAlternative(S, k[1], k[2], k[3])) \in Nat
  <2>1. /\ Recovered(S, k[1], k[2], k[3]) \subseteq S
        /\ AgainstAlternative(S, k[1], k[2], k[3]) \subseteq S
    BY PartsOf
  <2> QED
    BY <1>3, <2>1, SubsetIsSome
<1>5. "successful_recovery_alternative" \in Patterns /\ Tools \subseteq Names /\ SUBSET Failures \subseteq SUBSET Causes
  BY DEF Patterns, Names, Causes
<1>6. /\ i \in Insights /\ i.supports = Recovered(S, k[1], k[2], k[3])
      /\ i.failed = k[1] /\ i.alternative = k[2] /\ i.failures = k[3]
      /\ i.confidence = Confidence(Cardinality(i.supports),
                                   Cardinality(AgainstAlternative(S, k[1], k[2], k[3])), k[2] # NoTool)
  BY <1>1, <1>2, <1>4, <1>5, NewInsight
<1>7. (k[2] # NoTool) = TRUE
  BY <1>2, ToolsAssumption
<1>8. i.confidence <= Confidence(Cardinality(i.supports), 0, TRUE)
  <2> DEFINE n == Cardinality(i.supports)
             c == Cardinality(AgainstAlternative(S, k[1], k[2], k[3]))
  <2>1. n \in Nat /\ c \in Nat /\ n <= n /\ TRUE \in BOOLEAN
    BY <1>4, <1>6
  <2>2. i.confidence = Confidence(n, c, TRUE)
    BY <1>6, <1>7
  <2> HIDE DEF n, c
  <2> QED
    BY <2>1, <2>2, ConfidenceGrows DEF n
<1> QED
  BY <1>1, <1>2, <1>6, <1>8

LEMMA FailureFound ==
  ASSUME TablesTyped, NEW S, S \subseteq DOMAIN experiences, NEW topic \in Topics,
         NEW i \in RepeatedFailurePatterns(S, topic)
  PROVE  /\ i \in Insights /\ i.alternative = NoTool
         /\ i.supports = Unresolved(S, i.failed, i.failures)
         /\ Enough(i.supports, Greater(2, MinSupport))
         /\ i.confidence <= Confidence(Cardinality(i.supports), 0, FALSE)
         /\ \E t \in S : i.failures = experiences[t].failures
<1> DEFINE new(k) == Insight("repeated_failure_warning", topic, k[1], NoTool, k[2],
                             Unresolved(S, k[1], k[2]), AgainstWarning(S, k[1], k[2]))
<1>1. PICK k \in {<<First(e), e.failures>> : e \in {experiences[t] : t \in S}} :
        Enough(Unresolved(S, k[1], k[2]), Greater(2, MinSupport)) /\ i = new(k)
  BY DEF RepeatedFailurePatterns
<1>2. PICK t \in S : k = <<First(experiences[t]), experiences[t].failures>>
  BY <1>1
<1>3. k[1] \in Names /\ k[2] \in SUBSET Causes /\ k[2] = experiences[t].failures
  <2>1. experiences[t] \in ExperienceRows
    BY DEF TablesTyped
  <2> QED
    BY <2>1, <1>2, FirstAndFinal DEF ExperienceRows
<1>4. S \in SomeIds
  BY SubsetIsSome DEF TablesTyped
<1>5. /\ Unresolved(S, k[1], k[2]) \in SomeIds /\ AgainstWarning(S, k[1], k[2]) \in SomeIds
      /\ Cardinality(Unresolved(S, k[1], k[2])) \in Nat
      /\ Cardinality(AgainstWarning(S, k[1], k[2])) \in Nat
  BY <1>4, PartsOf, SubsetIsSome
<1>6. "repeated_failure_warning" \in Patterns /\ NoTool \in Names
  BY DEF Patterns, Names
<1>7. /\ i \in Insights /\ i.supports = Unresolved(S, k[1], k[2])
      /\ i.failed = k[1] /\ i.alternative = NoTool /\ i.failures = k[2]
      /\ i.confidence = Confidence(Cardinality(i.supports),
                                   Cardinality(AgainstWarning(S, k[1], k[2])), NoTool # NoTool)
  BY <1>1, <1>3, <1>5, <1>6, NewInsight
<1>8. (NoTool # NoTool) = FALSE
  OBVIOUS
<1>9. i.confidence <= Confidence(Cardinality(i.supports), 0, FALSE)
  <2> DEFINE n == Cardinality(i.supports)
             c == Cardinality(AgainstWarning(S, k[1], k[2]))
  <2>1. n \in Nat /\ c \in Nat /\ n <= n /\ FALSE \in BOOLEAN
    BY <1>5, <1>7
  <2>2. i.confidence = Confidence(n, c, FALSE)
    BY <1>7, <1>8
  <2> HIDE DEF n, c
  <2> QED
    BY <2>1, <2>2, ConfidenceGrows DEF n
<1> QED
  BY <1>1, <1>3, <1>7, <1>9

LEMMA SharedFound ==
  ASSUME TablesTyped, NEW S, S \subseteq DOMAIN experiences, NEW topic \in Topics,
         NEW i \in VerificationPatterns(S, topic) \cup InputPatterns(S, topic)
  PROVE  i \in Insights /\ i.failed = NoTool /\ i.alternative = NoTool /\ i.supports \subseteq S
<1>1. S \in SomeIds
  BY SubsetIsSome DEF TablesTyped
<1>2. {} \in SomeIds
  BY FS_EmptySet DEF SomeIds
<1>3. ASSUME NEW pattern \in Patterns, NEW failure \in Causes, NEW T, T \subseteq S,
             i \in SharedFailure(S, topic, pattern, failure, T)
      PROVE  i \in Insights /\ i.failed = NoTool /\ i.alternative = NoTool /\ i.supports \subseteq S
  <2>1. i = Insight(pattern, topic, NoTool, NoTool, {failure}, T, {})
    BY <1>3 DEF SharedFailure
  <2>2. T \in SomeIds /\ NoTool \in Names /\ {failure} \in SUBSET Causes
    BY <1>1, <1>3, SubsetIsSome DEF Names
  <2> QED
    BY <2>1, <2>2, <1>2, <1>3, NewInsight
<1>4. /\ "verification_failure_requires_evidence" \in Patterns /\ "invalid_input_adjustment" \in Patterns
      /\ "VERIFICATION_FAILED" \in Causes /\ "INVALID_INPUT" \in Causes
  BY DEF Patterns, Causes
<1> QED
  BY <1>3, <1>4 DEF VerificationPatterns, InputPatterns

LEMMA AnalyzeTyped ==
  ASSUME TablesTyped, NEW S, S \subseteq DOMAIN experiences, NEW topic \in Topics
  PROVE  \A i \in Analyze(S, topic) : i \in Insights /\ i.supports \subseteq DOMAIN experiences
<1> SUFFICES ASSUME NEW i \in Analyze(S, topic)
             PROVE  i \in Insights /\ i.supports \subseteq DOMAIN experiences
  OBVIOUS
<1>1. CASE i \in RecoveryPatterns(S, topic)
  <2>1. i \in Insights /\ i.supports = Recovered(S, i.failed, i.alternative, i.failures)
    BY <1>1, RecoveryFound
  <2> QED
    BY <2>1, PartsOf
<1>2. CASE i \in RepeatedFailurePatterns(S, topic)
  <2>1. i \in Insights /\ i.supports = Unresolved(S, i.failed, i.failures)
    BY <1>2, FailureFound
  <2> QED
    BY <2>1, PartsOf
<1>3. CASE i \in VerificationPatterns(S, topic) \cup InputPatterns(S, topic)
  BY <1>3, SharedFound
<1> QED
  BY <1>1, <1>2, <1>3 DEF Analyze

LEMMA ReviewTyped ==
  ASSUME NEW id \in Ids, NEW decision \in Decisions
  PROVE  LET i == ReviewInsight(id, decision)
         IN  /\ i \in Insights /\ i.failed = NoTool /\ i.alternative = NoTool
             /\ i.topic = "review" /\ i.supports = {id}
<1> DEFINE i == Insight("bugbounty_review_feedback", "review", NoTool, NoTool, {decision}, {id}, {})
<1>1. {id} \in SomeIds /\ {} \in SomeIds
  BY FS_EmptySet, FS_Singleton DEF SomeIds
<1>2. /\ "bugbounty_review_feedback" \in Patterns /\ NoTool \in Names
      /\ {decision} \in SUBSET Causes /\ "review" \in Topics
  BY DEF Patterns, Names, Causes, Topics
<1>3. i \in Insights
  BY <1>1, <1>2, NewInsight
<1>4. /\ i.failed = NoTool /\ i.alternative = NoTool /\ i.topic = "review" /\ i.supports = {id}
  BY DEF Insight
<1>5. ReviewInsight(id, decision) = [i EXCEPT !.confidence = IF decision = "CONFIRM" THEN 90 ELSE 55]
  BY DEF ReviewInsight
<1> HIDE DEF i
<1> QED
  BY <1>3, <1>4, <1>5 DEF Insights

-----------------------------------------------------------------------------
(* Strategies and plans *)

LEMMA FromInsightTyped ==
  ASSUME NEW i \in Insights
  PROVE  /\ FromInsight(i) \in StrategyRows /\ FromInsight(i).supports = i.supports
         /\ FromInsight(i).insights = {InsightId(i)} /\ FromInsight(i).confidence = i.confidence
         /\ FromInsight(i).status = Status(FromInsight(i).confidence, FromInsight(i).conflicts)
<1>1. InsightId(i) \in InsightIds /\ i.supports \in SomeIds /\ i.conflicts \in SomeIds
  BY DEF InsightId, InsightIds, Insights
<1>2. i.confidence \in 5..95
  BY DEF Insights
<1>3. Status(i.confidence, i.conflicts) \in {"active", "uncertain"}
  BY DEF Status
<1> QED
  BY <1>1, <1>2, <1>3 DEF FromInsight, Strategy, StrategyRows

LEMMA MergeTyped ==
  ASSUME NEW a \in StrategyRows, NEW b \in StrategyRows
  PROVE  /\ Merge(a, b) \in StrategyRows
         /\ Merge(a, b).supports = a.supports \cup b.supports
         /\ Merge(a, b).conflicts = a.conflicts \cup b.conflicts
         /\ Merge(a, b).insights = a.insights \cup b.insights
         /\ Merge(a, b).confidence <= a.confidence \/ Merge(a, b).confidence <= b.confidence
         /\ Merge(a, b).status = Status(Merge(a, b).confidence, Merge(a, b).conflicts)
<1> DEFINE against == a.conflicts \cup b.conflicts
           merged == Clamp(Less(Greater(a.confidence, b.confidence),
                                Lesser(45, 12 * Cardinality(against))), 5, 95)
<1>1. /\ a.supports \in SomeIds /\ b.supports \in SomeIds
      /\ a.conflicts \in SomeIds /\ b.conflicts \in SomeIds
      /\ a.insights \cup b.insights \in SUBSET InsightIds
      /\ a.confidence \in 5..95 /\ b.confidence \in 5..95
  BY DEF StrategyRows
<1>2. a.supports \cup b.supports \in SomeIds /\ against \in SomeIds /\ Cardinality(against) \in Nat
  BY <1>1, FS_Union, FS_CardinalityType DEF SomeIds
<1>3. merged \in 5..95 /\ (merged <= a.confidence \/ merged <= b.confidence)
  BY <1>1, <1>2, MergedConfidence
<1>4. Merge(a, b) = Strategy(a.insights \cup b.insights, a.supports \cup b.supports, against, merged)
  BY DEF Merge
<1>5. Status(merged, against) \in {"active", "uncertain"}
  BY DEF Status
<1> HIDE DEF merged, against
<1>6. Merge(a, b) \in StrategyRows
  BY <1>1, <1>2, <1>3, <1>4, <1>5 DEF Strategy, StrategyRows
<1>7. /\ Merge(a, b).supports = a.supports \cup b.supports
      /\ Merge(a, b).conflicts = against /\ Merge(a, b).confidence = merged
      /\ Merge(a, b).insights = a.insights \cup b.insights
      /\ Merge(a, b).status = Status(merged, against)
  BY <1>4 DEF Strategy
<1> QED
  BY <1>3, <1>6, <1>7 DEF against

LEMMA NoStrategyIsNone == \A s \in StrategyRows : s # NoStrategy
BY DEF StrategyRows, NoStrategy

LEMMA MergedTyped ==
  ASSUME LearnInv, NEW r \in Runners, NEW i \in Insights
  PROVE  Merged(r, i) \in StrategyRows
<1>1. work[r].read \in {NoStrategy} \cup StrategyRows
  BY DEF LearnInv, Works
<1>2. FromInsight(i) \in StrategyRows
  BY FromInsightTyped
<1> QED
  BY <1>1, <1>2, MergeTyped DEF Merged

LEMMA ToolsListed ==
  /\ Len(Available) \in Nat \ {0} /\ DOMAIN Available = 1..Len(Available)
  /\ Available[1] \in Tools
<1>1. Available \in Seq(Tools) /\ Available # <<>>
  BY ToolsAssumption
<1>2. Len(Available) \in Nat /\ DOMAIN Available = 1..Len(Available) /\ Len(Available) # 0
  BY <1>1
<1> QED
  BY <1>2 DEF Tools

LEMMA FirstToolIsOne ==
  ASSUME NEW S \in SUBSET Tools, S # {}
  PROVE  FirstTool(S) \in S
<1> DEFINE H == {i \in DOMAIN Available : Available[i] \in S}
<1>1. H \subseteq Nat /\ H # {}
  BY ToolsListed DEF Tools
<1> HIDE DEF H
<1>2. PICK i \in H : \A j \in H : i <= j
  BY <1>1, LeastNat
<1>3. i \in DOMAIN Available /\ Available[i] \in S /\ i \in Nat /\ i <= Len(Available)
  BY <1>2, ToolsListed DEF H
<1>4. ASSUME NEW j \in 1..(i - 1) PROVE Available[j] \notin S
  <2>1. j \in DOMAIN Available /\ ~(i <= j)
    BY <1>3, ToolsListed
  <2> QED
    BY <1>2, <2>1 DEF H
<1> QED
  BY <1>3, <1>4 DEF FirstTool

LEMMA PlannedIsTool == PlannedTools \subseteq Tools
<1>1. Preferred \subseteq Tools
  BY DEF Preferred
<1>2. Tools \ Avoided # {} => FirstTool(Tools \ Avoided) \in Tools
  BY FirstToolIsOne
<1> QED
  BY <1>1, <1>2, ToolsListed DEF PlannedTools

LEMMA RunIsTyped ==
  ASSUME NEW tool \in Tools, NEW e \in RunsOf(tool)
  PROVE  e \in ExperienceRows
<1>1. PICK u \in UsesOf(tool), o \in Outcomes \ {"ROLLED_BACK"}, f \in SUBSET Failures :
        e = Experience("task", u, o, f)
  BY DEF RunsOf
<1>2. u \in Uses
  BY <1>1 DEF UsesOf, Uses, Names
<1>3. f \in SUBSET Causes /\ "task" \in Topics
  BY <1>1 DEF Causes, Topics
<1> QED
  BY <1>1, <1>2, <1>3 DEF Experience, ExperienceRows

-----------------------------------------------------------------------------
(* LearnInv is inductive *)

LEMMA IdleTyped == Idle \in Works /\ \A r \in Runners : Idle.pc = "idle"
BY DEF Idle, Works, Points, Names

LEMMA LearnStart == LearnInit => LearnInv
<1> SUFFICES ASSUME LearnInit PROVE LearnInv
  OBVIOUS
<1>1. DOMAIN experiences = {} /\ DOMAIN reviews = {} /\ DOMAIN strategies = {}
  BY DEF LearnInit
<1>2. {} \in SomeIds
  BY FS_EmptySet DEF SomeIds
<1>3. TablesTyped
  BY <1>1, <1>2 DEF LearnInit, TablesTyped
<1>4. work \in [Runners -> Works] /\ \A r \in Runners : work[r].pc = "idle"
  BY IdleTyped DEF LearnInit
<1> QED
  BY <1>3, <1>4 DEF LearnInv, Reserved, At

(* A runner whose work changes and no run begins or ends.                  *)
LEMMA MoveOn ==
  ASSUME LearnInv, NEW r \in Runners, NEW w \in Works, w.pc \notin {"run", "reflect"},
         work' = [work EXCEPT ![r] = w], UNCHANGED <<experiences, reviews>>, TablesTyped'
  PROVE  LearnInv'
<1>1. work' \in [Runners -> Works] /\ work'[r] = w /\ \A q \in Runners \ {r} : work'[q] = work[q]
  BY DEF LearnInv
<1>2. Reserved'
  BY <1>1 DEF LearnInv, Reserved, At
<1> QED
  BY <1>1, <1>2 DEF LearnInv

LEMMA ToLearnTyped ==
  ASSUME LearnInv, NEW r \in Runners, NEW T \in SUBSET Insights
  PROVE  \E w \in Works : w.pc \in {"idle", "learn"} /\ ToLearn(r, T) = [work EXCEPT ![r] = w]
<1> DEFINE w == IF T = {} THEN Idle ELSE [Idle EXCEPT !.pc = "learn", !.todo = T]
<1>1. w \in Works /\ w.pc \in {"idle", "learn"}
  BY IdleTyped DEF Works, Points, Idle
<1> QED
  BY <1>1 DEF ToLearn

LEMMA PlanStep == ASSUME LearnInv, NEW r \in Runners, Plan(r) PROVE LearnInv'
<1>1. PICK id \in Ids, tool \in PlannedTools :
        Free(id) /\ work' = [work EXCEPT ![r].pc = "run", ![r].id = id, ![r].tool = tool]
  BY DEF Plan
<1> DEFINE w == [work[r] EXCEPT !.pc = "run", !.id = id, !.tool = tool]
<1>2. tool \in Tools /\ tool \in Names
  BY PlannedIsTool DEF Names
<1>3. work[r] \in Works
  BY DEF LearnInv
<1>4. w \in Works /\ w.pc = "run" /\ w.id = id /\ w.tool = tool
  BY <1>2, <1>3 DEF Works, Points
<1>5. work' = [work EXCEPT ![r] = w]
  BY <1>1, <1>3 DEF Works, LearnInv
<1> HIDE DEF w
<1>6. work' \in [Runners -> Works] /\ work'[r] = w /\ \A q \in Runners \ {r} : work'[q] = work[q]
  BY <1>4, <1>5 DEF LearnInv
<1>7. \A q \in Runners : work[q].id # id
  BY <1>1 DEF Free
<1>8. id \notin DOMAIN experiences \cup DOMAIN reviews /\ UNCHANGED <<experiences, reviews>>
  BY <1>1 DEF Free, Plan
<1>9. Reserved'
  BY <1>2, <1>4, <1>6, <1>7, <1>8 DEF LearnInv, Reserved, At
<1>10. TablesTyped'
  BY DEF Plan, LearnInv, TablesTyped
<1> QED
  BY <1>6, <1>9, <1>10 DEF LearnInv

(* The end of a run, or of a rollback: its experience is a new row.        *)
LEMMA StoreStep ==
  ASSUME LearnInv, NEW r \in Runners, NEW id \in Ids, NEW e \in ExperienceRows,
         id \notin DOMAIN experiences \cup DOMAIN reviews,
         \A q \in Runners \ {r} : At(q, "run") => work[q].id # id,
         StoreExperience(r, id, e)
  PROVE  /\ LearnInv' /\ DOMAIN experiences' = DOMAIN experiences \cup {id}
         /\ experiences'[id] = e /\ \A t \in DOMAIN experiences : experiences'[t] = experiences[t]
         /\ work' = [work EXCEPT ![r] = [work[r] EXCEPT !.pc = "reflect", !.id = id, !.tool = NoTool]]
<1> DEFINE w == [work[r] EXCEPT !.pc = "reflect", !.id = id, !.tool = NoTool]
<1>1. work[r] \in Works /\ work \in [Runners -> Works]
  BY DEF LearnInv
<1>2. w \in Works /\ w.pc = "reflect" /\ w.id = id
  BY <1>1 DEF Works, Points, Names
<1>3. work' = [work EXCEPT ![r] = w]
  BY <1>1 DEF Works, StoreExperience
<1> HIDE DEF w
<1>4. work' \in [Runners -> Works] /\ work'[r] = w /\ \A q \in Runners \ {r} : work'[q] = work[q]
  BY <1>1, <1>2, <1>3
<1>5. /\ DOMAIN experiences' = DOMAIN experiences \cup {id} /\ experiences'[id] = e
      /\ experiences' \in [DOMAIN experiences \cup {id} -> ExperienceRows]
      /\ \A t \in DOMAIN experiences : experiences'[t] = experiences[t]
  <2>1. experiences \in [DOMAIN experiences -> ExperienceRows] /\ experiences' = Put(experiences, id, e)
    BY DEF StoreExperience, LearnInv, TablesTyped
  <2>2. \A t \in DOMAIN experiences : t # id
    OBVIOUS
  <2>3. /\ DOMAIN Put(experiences, id, e) = DOMAIN experiences \cup {id}
        /\ Put(experiences, id, e) \in [DOMAIN experiences \cup {id} -> ExperienceRows]
        /\ Put(experiences, id, e)[id] = e
        /\ \A t \in DOMAIN experiences : t # id => Put(experiences, id, e)[t] = experiences[t]
    BY <2>1 DEF Put
  <2> QED
    BY <2>1, <2>2, <2>3
<1>6. DOMAIN experiences \cup {id} \in SomeIds
  BY FS_AddElement DEF SomeIds, LearnInv, TablesTyped
<1>7. TablesTyped'
  BY <1>5, <1>6 DEF StoreExperience, LearnInv, TablesTyped
<1>8. UNCHANGED reviews
  BY DEF StoreExperience
<1>9. Reserved'
  BY <1>2, <1>4, <1>5, <1>8 DEF LearnInv, Reserved, At
<1> QED
  BY <1>3, <1>4, <1>5, <1>7, <1>9 DEF LearnInv, w

LEMMA FinishStep ==
  ASSUME LearnInv, NEW r \in Runners, Finish(r)
  PROVE  /\ LearnInv'
         /\ \E e \in RunsOf(work[r].tool) :
              /\ work[r].id \notin DOMAIN experiences /\ work[r].tool \in Tools
              /\ DOMAIN experiences' = DOMAIN experiences \cup {work[r].id}
              /\ experiences'[work[r].id] = e
              /\ \A t \in DOMAIN experiences : experiences'[t] = experiences[t]
              /\ work' = [work EXCEPT ![r] = [work[r] EXCEPT !.pc = "reflect", !.id = work[r].id,
                                                             !.tool = NoTool]]
<1>1. PICK e \in RunsOf(work[r].tool) : StoreExperience(r, work[r].id, e)
  BY DEF Finish
<1>2. /\ work[r].id \in Ids /\ work[r].tool \in Tools
      /\ work[r].id \notin DOMAIN experiences \cup DOMAIN reviews
      /\ \A q \in Runners \ {r} : At(q, "run") => work[q].id # work[r].id
  BY DEF Finish, LearnInv, Reserved
<1>3. e \in ExperienceRows
  BY <1>2, RunIsTyped
<1> QED
  BY ZenonT(40), <1>1, <1>2, <1>3, StoreStep

LEMMA ReflectStep ==
  ASSUME LearnInv, NEW r \in Runners, Reflect(r)
  PROVE  /\ LearnInv'
         /\ \E w \in Works : /\ work' = [work EXCEPT ![r] = w]
                             /\ \/ w = Idle
                                \/ \E S \in SUBSET DOMAIN experiences, topic \in Topics :
                                     w = [work[r] EXCEPT !.pc = "save", !.todo = Analyze(S, topic),
                                                         !.id = NoTool]
<1> DEFINE query == experiences[work[r].id]
<1>1. query \in ExperienceRows /\ query.topic \in Topics
  BY DEF Reflect, LearnInv, Reserved, TablesTyped, ExperienceRows
<1>2. work[r] \in Works /\ work \in [Runners -> Works]
  BY DEF LearnInv
<1>3. PICK S \in Retrievals(query) :
        LET insights == Analyze(S, query.topic)
        IN  IF insights = {} THEN work' = [work EXCEPT ![r] = Idle]
            ELSE work' = [work EXCEPT ![r].pc = "save", ![r].todo = insights, ![r].id = NoTool]
  BY DEF Reflect
<1>4. S \in SUBSET DOMAIN experiences
  <2>1. \A T \in Retrievals(query) : T \subseteq DOMAIN experiences
    BY DEF Retrievals
  <2> QED
    BY <2>1
<1> DEFINE insights == Analyze(S, query.topic)
           w == IF insights = {} THEN Idle
                ELSE [work[r] EXCEPT !.pc = "save", !.todo = insights, !.id = NoTool]
<1>5. insights \in SUBSET Insights
  BY <1>1, <1>4, AnalyzeTyped DEF LearnInv
<1> HIDE DEF insights
<1>6. w \in Works /\ w.pc \notin {"run", "reflect"}
  BY <1>2, <1>5, IdleTyped DEF Works, Points, Idle
<1>7. work' = [work EXCEPT ![r] = w]
  BY <1>2, <1>3 DEF Works, insights
<1>8. TablesTyped'
  BY DEF Reflect, LearnInv, TablesTyped
<1>9. w = Idle \/ w = [work[r] EXCEPT !.pc = "save", !.todo = Analyze(S, query.topic), !.id = NoTool]
  BY DEF insights
<1> HIDE DEF w
<1>10. LearnInv'
  BY <1>6, <1>7, <1>8, MoveOn DEF Reflect
<1> QED
  BY <1>1, <1>4, <1>6, <1>7, <1>9, <1>10

LEMMA SaveInsightStep == ASSUME LearnInv, NEW r \in Runners, SaveInsight(r) PROVE LearnInv'
<1>1. PICK i \in Foremost(work[r].todo) :
        LET done == work[r].done \cup {i}
        IN  /\ reflections' = {j \in reflections : InsightId(j) # InsightId(i)} \cup {i}
            /\ work' = IF work[r].todo = {i} THEN ToLearn(r, {j \in done : Teaches(j)})
                       ELSE [work EXCEPT ![r].todo = @ \ {i}, ![r].done = done]
  BY DEF SaveInsight
<1>2. work[r] \in Works /\ work \in [Runners -> Works] /\ work[r].pc = "save"
  BY DEF LearnInv, SaveInsight, At
<1>3. i \in work[r].todo /\ work[r].todo \in SUBSET Insights /\ work[r].done \in SUBSET Insights
  BY <1>2 DEF Foremost, Works
<1>4. TablesTyped'
  BY <1>1, <1>3 DEF SaveInsight, LearnInv, TablesTyped
<1>5. CASE work[r].todo = {i}
  <2> DEFINE T == {j \in work[r].done \cup {i} : Teaches(j)}
  <2>1. T \in SUBSET Insights /\ work' = ToLearn(r, T)
    BY <1>1, <1>3, <1>5
  <2> HIDE DEF T
  <2>2. PICK w \in Works : w.pc \in {"idle", "learn"} /\ ToLearn(r, T) = [work EXCEPT ![r] = w]
    BY <2>1, ToLearnTyped
  <2>3. UNCHANGED <<experiences, reviews>> /\ w.pc \notin {"run", "reflect"}
    BY <2>2 DEF SaveInsight
  <2> QED
    BY <1>4, <2>1, <2>2, <2>3, MoveOn
<1>6. CASE work[r].todo # {i}
  <2> DEFINE w == [work[r] EXCEPT !.todo = @ \ {i}, !.done = @ \cup {i}]
  <2>1. w \in Works /\ w.pc = "save"
    BY <1>2, <1>3 DEF Works
  <2>2. work' = [work EXCEPT ![r] = w]
    BY <1>1, <1>2, <1>6 DEF Works
  <2> HIDE DEF w
  <2> QED
    BY <1>4, <2>1, <2>2, MoveOn DEF SaveInsight
<1> QED
  BY <1>5, <1>6

LEMMA ReadStrategyStep ==
  ASSUME LearnInv, NEW r \in Runners, ReadStrategy(r)
  PROVE  /\ LearnInv'
         /\ \E i \in work[r].todo :
              work' = [work EXCEPT ![r] = [work[r] EXCEPT !.pc = "merge", !.todo = @ \ {i}, !.now = {i},
                                                          !.read = Lookup(StrategyId(i))]]
<1>1. PICK i \in Foremost(work[r].todo) :
        work' = [work EXCEPT ![r].pc = "merge", ![r].todo = @ \ {i}, ![r].now = {i},
                             ![r].read = Lookup(StrategyId(i))]
  BY DEF ReadStrategy
<1> DEFINE s == Lookup(StrategyId(i))
           w == [work[r] EXCEPT !.pc = "merge", !.todo = @ \ {i}, !.now = {i}, !.read = s]
<1>2. work[r] \in Works /\ work \in [Runners -> Works]
  BY DEF LearnInv
<1>3. i \in work[r].todo /\ i \in Insights
  BY <1>2 DEF Foremost, Works
<1>4. s \in {NoStrategy} \cup StrategyRows
  BY DEF Lookup, Known, LearnInv, TablesTyped
<1>5. work' = [work EXCEPT ![r] = w]
  BY <1>1, <1>2 DEF Works
<1> HIDE DEF s
<1>6. w \in Works /\ w.pc = "merge"
  BY <1>2, <1>3, <1>4 DEF Works, Points
<1> HIDE DEF w
<1>7. TablesTyped'
  BY DEF ReadStrategy, LearnInv, TablesTyped
<1>8. LearnInv'
  BY <1>5, <1>6, <1>7, MoveOn DEF ReadStrategy
<1> QED
  BY <1>3, <1>5, <1>8 DEF w, s

LEMMA SaveStrategyStep ==
  ASSUME LearnInv, NEW r \in Runners, SaveStrategy(r)
  PROVE  /\ LearnInv'
         /\ \E i \in work[r].now :
              /\ DOMAIN strategies' = DOMAIN strategies \cup {StrategyId(i)}
              /\ strategies'[StrategyId(i)] = Merged(r, i) /\ i \in Insights
              /\ \A id \in DOMAIN strategies : id # StrategyId(i) => strategies'[id] = strategies[id]
<1>1. PICK i \in work[r].now : strategies' = Put(strategies, StrategyId(i), Merged(r, i))
  BY DEF SaveStrategy
<1>2. work[r] \in Works /\ work[r].todo \in SUBSET Insights /\ i \in Insights
  BY DEF LearnInv, Works
<1>3. Merged(r, i) \in StrategyRows /\ strategies \in [DOMAIN strategies -> StrategyRows]
  BY <1>2, MergedTyped DEF LearnInv, TablesTyped
<1>4. /\ DOMAIN strategies' = DOMAIN strategies \cup {StrategyId(i)}
      /\ strategies' \in [DOMAIN strategies \cup {StrategyId(i)} -> StrategyRows]
      /\ strategies'[StrategyId(i)] = Merged(r, i)
      /\ \A id \in DOMAIN strategies : id # StrategyId(i) => strategies'[id] = strategies[id]
  BY <1>1, <1>3 DEF Put
<1>5. TablesTyped'
  BY <1>4 DEF SaveStrategy, LearnInv, TablesTyped
<1>6. LearnInv'
  BY <1>2, <1>5, ToLearnTyped, MoveOn DEF SaveStrategy
<1> QED
  BY <1>2, <1>4, <1>6

LEMMA ReviewStep ==
  ASSUME LearnInv, NEW r \in Runners, Review(r)
  PROVE  /\ LearnInv'
         /\ \E id \in Ids, decision \in Decisions :
              /\ work' = ToLearn(r, {ReviewInsight(id, decision)})
              /\ id \in DOMAIN reviews' /\ DOMAIN reviews \subseteq DOMAIN reviews'
<1>1. PICK id \in Ids, decision \in Decisions :
        /\ Free(id) /\ reviews' = Put(reviews, id, decision)
        /\ work' = ToLearn(r, {ReviewInsight(id, decision)})
  BY DEF Review
<1>2. /\ DOMAIN reviews' = DOMAIN reviews \cup {id}
      /\ reviews' \in [DOMAIN reviews \cup {id} -> Decisions]
  BY <1>1 DEF Put, LearnInv, TablesTyped
<1>3. id \notin DOMAIN experiences \cup DOMAIN reviews /\ \A q \in Runners : work[q].id # id
  BY <1>1 DEF Free
<1>4. TablesTyped'
  BY <1>2, <1>3 DEF Review, LearnInv, TablesTyped
<1>5. PICK w \in Works : w.pc \in {"idle", "learn"} /\ work' = [work EXCEPT ![r] = w]
  BY SMTT(40), <1>1, ReviewTyped, ToLearnTyped
<1>6. work' \in [Runners -> Works] /\ work'[r] = w /\ \A q \in Runners \ {r} : work'[q] = work[q]
  BY <1>5 DEF LearnInv
<1>7. Reserved'
  BY ZenonT(40), <1>2, <1>3, <1>5, <1>6 DEF Review, LearnInv, Reserved, At
<1> QED
  BY <1>1, <1>2, <1>4, <1>6, <1>7 DEF LearnInv

LEMMA AbandonStep == ASSUME LearnInv, NEW r \in Runners, Abandon(r) PROVE LearnInv'
<1>1. TablesTyped'
  BY DEF Abandon, LearnInv, TablesTyped
<1>2. Idle \in Works /\ Idle.pc \notin {"run", "reflect"}
  BY IdleTyped DEF Idle
<1> QED
  BY <1>1, <1>2, MoveOn DEF Abandon

LEMMA LearnKeeps ==
  ASSUME LearnInv, [\E r \in Runners : LearnStep(r)]_learnVars
  PROVE  LearnInv'
<1>1. CASE UNCHANGED learnVars
  BY <1>1 DEF learnVars, LearnInv, TablesTyped, Reserved, At
<1>2. CASE \E r \in Runners : LearnStep(r)
  BY <1>2, PlanStep, FinishStep, ReflectStep, SaveInsightStep, ReadStrategyStep, SaveStrategyStep,
     ReviewStep, AbandonStep DEF LearnStep
<1> QED
  BY <1>1, <1>2

(* Rows and locals are what the tables hold for them.                      *)
LEMMA LearnTyped == LearnInv => LearnTypeOK
BY DEF LearnInv, TablesTyped, LearnTypeOK, SomeIds, ExperienceRows, Insights, StrategyRows, Works,
       Points

-----------------------------------------------------------------------------
(* Evidence *)

Evidence == DOMAIN experiences \cup DOMAIN reviews
SavedIds == {InsightId(i) : i \in reflections}

(* What confidence in an insight, or in a strategy, rests on: enough runs  *)
(* that recovered with the alternative, or that failed unresolved.         *)
RecoveryEarned(id, confidence) ==
  LET runs == Recovered(DOMAIN experiences, id.failed, id.alternative, id.failures)
  IN  /\ id.failed \in Tools /\ id.alternative \in Tools /\ id.failures \in SUBSET Failures
      /\ Enough(runs, MinSupport) /\ confidence <= Confidence(Cardinality(runs), 0, TRUE)
WarningEarned(id, confidence) ==
  LET runs == Unresolved(DOMAIN experiences, id.failed, id.failures)
  IN  /\ id.alternative = NoTool /\ id.failures \in SUBSET Failures
      /\ Enough(runs, Greater(2, MinSupport))
      /\ confidence <= Confidence(Cardinality(runs), 0, FALSE)
Earned(id, confidence) ==
  \/ id.failed = NoTool /\ id.alternative = NoTool
  \/ RecoveryEarned(id, confidence) \/ WarningEarned(id, confidence)

Sound(i) == i.supports \subseteq Evidence /\ Earned(StrategyId(i), i.confidence)
Saved(i) == i.topic = "review" \/ InsightId(i) \in SavedIds
Grounded(id, s) ==
  /\ s.status = Status(s.confidence, s.conflicts) /\ s.supports \subseteq Evidence
  /\ id.topic # "review" => s.insights \subseteq SavedIds
  /\ Earned(id, s.confidence)

(* What a runner holds has been earned by what is stored ...               *)
WorkSound(r) ==
  /\ \A i \in work[r].todo \cup work[r].done \cup work[r].now : Sound(i)
  /\ \A i \in work[r].done \cup work[r].now : Saved(i)
  /\ At(r, "learn") \/ At(r, "merge") => \A i \in work[r].todo : Saved(i)
  /\ work[r].read # NoStrategy => \A i \in work[r].now : Grounded(StrategyId(i), work[r].read)
  /\ At(r, "run") /\ work[r].tool # Available[1] => EarnedDetour(work[r].tool)

(* ... and so has every strategy.                                          *)
EvidenceInv ==
  /\ \A t \in DOMAIN experiences : \E tool \in Tools : experiences[t] \in RunsOf(tool)
  /\ \A id \in DOMAIN strategies : Grounded(id, strategies[id])
  /\ \A r \in Runners : WorkSound(r)

(* Tables only grow, and rows of runs stay as they are.                    *)
Grows ==
  /\ DOMAIN experiences \subseteq DOMAIN experiences' /\ DOMAIN reviews \subseteq DOMAIN reviews'
  /\ \A t \in DOMAIN experiences : experiences'[t] = experiences[t]
  /\ SavedIds \subseteq SavedIds'

LEMMA RunsOfPart ==
  ASSUME TablesTyped, NEW S, S \subseteq DOMAIN experiences, NEW f, NEW a, NEW F
  PROVE  /\ Cardinality(Recovered(S, f, a, F)) \in Nat
         /\ Cardinality(Recovered(DOMAIN experiences, f, a, F)) \in Nat
         /\ Cardinality(Recovered(S, f, a, F)) <= Cardinality(Recovered(DOMAIN experiences, f, a, F))
         /\ Cardinality(Unresolved(S, f, F)) \in Nat
         /\ Cardinality(Unresolved(DOMAIN experiences, f, F)) \in Nat
         /\ Cardinality(Unresolved(S, f, F)) <= Cardinality(Unresolved(DOMAIN experiences, f, F))
<1>1. /\ Recovered(S, f, a, F) \subseteq Recovered(DOMAIN experiences, f, a, F)
      /\ Unresolved(S, f, F) \subseteq Unresolved(DOMAIN experiences, f, F)
  BY DEF Recovered, Unresolved
<1>2. DOMAIN experiences \in SomeIds
  BY DEF TablesTyped
<1>3. /\ Recovered(DOMAIN experiences, f, a, F) \in SomeIds
      /\ Unresolved(DOMAIN experiences, f, F) \in SomeIds
  <2>1. /\ Recovered(DOMAIN experiences, f, a, F) \subseteq DOMAIN experiences
        /\ Unresolved(DOMAIN experiences, f, F) \subseteq DOMAIN experiences
    BY PartsOf
  <2> QED
    BY <1>2, <2>1, SubsetIsSome
<1> QED
  BY <1>1, <1>3, SubsetIsSome

LEMMA RunsLater ==
  ASSUME LearnInv, LearnInv', Grows, NEW f, NEW a, NEW F
  PROVE  /\ Cardinality(Recovered(DOMAIN experiences, f, a, F)) \in Nat
         /\ Cardinality(Recovered(DOMAIN experiences, f, a, F))' \in Nat
         /\ Cardinality(Recovered(DOMAIN experiences, f, a, F))
              <= Cardinality(Recovered(DOMAIN experiences, f, a, F))'
         /\ Cardinality(Unresolved(DOMAIN experiences, f, F)) \in Nat
         /\ Cardinality(Unresolved(DOMAIN experiences, f, F))' \in Nat
         /\ Cardinality(Unresolved(DOMAIN experiences, f, F))
              <= Cardinality(Unresolved(DOMAIN experiences, f, F))'
<1> DEFINE R == Recovered(DOMAIN experiences, f, a, F)
           Q == Recovered(DOMAIN experiences, f, a, F)'
           U == Unresolved(DOMAIN experiences, f, F)
           V == Unresolved(DOMAIN experiences, f, F)'
<1>1. R \subseteq Q /\ U \subseteq V
  BY DEF Recovered, Unresolved, Grows
<1>2. Q \subseteq DOMAIN experiences' /\ V \subseteq DOMAIN experiences'
  BY DEF Recovered, Unresolved
<1>3. DOMAIN experiences' \in SomeIds
  BY DEF LearnInv, TablesTyped
<1> HIDE DEF R, Q, U, V
<1>4. Q \in SomeIds /\ V \in SomeIds /\ Cardinality(Q) \in Nat /\ Cardinality(V) \in Nat
  BY <1>2, <1>3, SubsetIsSome
<1>5. /\ Cardinality(R) \in Nat /\ Cardinality(R) <= Cardinality(Q)
      /\ Cardinality(U) \in Nat /\ Cardinality(U) <= Cardinality(V)
  BY <1>1, <1>4, SubsetIsSome
<1> QED
  BY <1>4, <1>5 DEF R, Q, U, V

LEMMA Through == \A x, y, z \in Nat : x <= y /\ y <= z => x <= z
OBVIOUS

LEMMA MoreConfidence ==
  \A m, n \in Nat :
    /\ Confidence(m, 0, TRUE) \in Nat /\ Confidence(m, 0, FALSE) \in Nat
    /\ m <= n => /\ Confidence(m, 0, TRUE) <= Confidence(n, 0, TRUE)
                 /\ Confidence(m, 0, FALSE) <= Confidence(n, 0, FALSE)
BY DEF Confidence, Clamp, Greater, Lesser, Less

LEMMA EarnedLater ==
  ASSUME LearnInv, LearnInv', Grows, NEW id, NEW c \in Nat, Earned(id, c)
  PROVE  Earned(id, c)'
<1>t. MinSupport \in Nat /\ Greater(2, MinSupport) \in Nat
  BY LimitsAssumption DEF Greater
<1>1. CASE id.failed = NoTool /\ id.alternative = NoTool
  BY <1>1 DEF Earned
<1>2. CASE RecoveryEarned(id, c)
  <2> DEFINE m == Cardinality(Recovered(DOMAIN experiences, id.failed, id.alternative, id.failures))
             n == Cardinality(Recovered(DOMAIN experiences, id.failed, id.alternative, id.failures))'
  <2>1. m \in Nat /\ n \in Nat /\ m <= n
    BY RunsLater
  <2>2. m >= MinSupport
    BY <1>2 DEF RecoveryEarned, Enough
  <2>3. c <= Confidence(m, 0, TRUE)
    BY <1>2 DEF RecoveryEarned
  <2> HIDE DEF m, n
  <2>4. n >= MinSupport
    BY <1>t, <2>1, <2>2
  <2>5. c <= Confidence(n, 0, TRUE)
    BY <2>1, <2>3, MoreConfidence, Through
  <2> QED
    BY <1>2, <2>4, <2>5 DEF Earned, RecoveryEarned, Enough, n
<1>3. CASE WarningEarned(id, c)
  <2> DEFINE m == Cardinality(Unresolved(DOMAIN experiences, id.failed, id.failures))
             n == Cardinality(Unresolved(DOMAIN experiences, id.failed, id.failures))'
  <2>1. m \in Nat /\ n \in Nat /\ m <= n
    BY RunsLater
  <2>2. m >= Greater(2, MinSupport)
    BY <1>3 DEF WarningEarned, Enough
  <2>3. c <= Confidence(m, 0, FALSE)
    BY <1>3 DEF WarningEarned
  <2> HIDE DEF m, n
  <2>4. n >= Greater(2, MinSupport)
    BY <1>t, <2>1, <2>2
  <2>5. c <= Confidence(n, 0, FALSE)
    BY <2>1, <2>3, MoreConfidence, Through
  <2> QED
    BY <1>3, <2>4, <2>5 DEF Earned, WarningEarned, Enough, n
<1> QED
  BY <1>1, <1>2, <1>3 DEF Earned

LEMMA EarnedLess ==
  ASSUME LearnInv, NEW id, NEW c \in Nat, Earned(id, c), NEW d \in Nat, d <= c
  PROVE  Earned(id, d)
<1> DEFINE m == Cardinality(Recovered(DOMAIN experiences, id.failed, id.alternative, id.failures))
           n == Cardinality(Unresolved(DOMAIN experiences, id.failed, id.failures))
<1>1. m \in Nat /\ n \in Nat
  BY RunsOfPart DEF LearnInv
<1>2. /\ c <= Confidence(m, 0, TRUE) => d <= Confidence(m, 0, TRUE)
      /\ c <= Confidence(n, 0, FALSE) => d <= Confidence(n, 0, FALSE)
  <2> HIDE DEF m, n
  <2> QED
    BY <1>1, MoreConfidence, Through
<1> QED
  BY <1>2 DEF Earned, RecoveryEarned, WarningEarned

LEMMA DetourLater ==
  ASSUME LearnInv, LearnInv', Grows, NEW tool, EarnedDetour(tool)
  PROVE  EarnedDetour(tool)'
<1>t. MinSupport \in Nat /\ Greater(2, MinSupport) \in Nat /\ MinConfidence \in Nat
  BY LimitsAssumption DEF Greater
<1>1. PICK f \in Tools \ {tool}, F \in SUBSET Failures :
        \/ Convincing(Recovered(DOMAIN experiences, f, tool, F), MinSupport, TRUE)
        \/ Convincing(Unresolved(DOMAIN experiences, f, F), Greater(2, MinSupport), FALSE)
  BY DEF EarnedDetour
<1>2. CASE Convincing(Recovered(DOMAIN experiences, f, tool, F), MinSupport, TRUE)
  <2> DEFINE m == Cardinality(Recovered(DOMAIN experiences, f, tool, F))
             n == Cardinality(Recovered(DOMAIN experiences, f, tool, F))'
  <2>1. m \in Nat /\ n \in Nat /\ m <= n
    BY RunsLater
  <2>2. m >= MinSupport
    BY <1>2 DEF Convincing
  <2>3. Confidence(m, 0, TRUE) >= MinConfidence
    BY <1>2 DEF Convincing
  <2> HIDE DEF m, n
  <2>4. n >= MinSupport
    BY <1>t, <2>1, <2>2
  <2>5. Confidence(n, 0, TRUE) >= MinConfidence
    BY <1>t, <2>1, <2>3, MoreConfidence, Through
  <2>6. Convincing(Recovered(DOMAIN experiences, f, tool, F), MinSupport, TRUE)'
    BY <2>4, <2>5 DEF Convincing, n
  <2> QED
    BY <1>1, <2>6 DEF EarnedDetour
<1>3. CASE Convincing(Unresolved(DOMAIN experiences, f, F), Greater(2, MinSupport), FALSE)
  <2> DEFINE m == Cardinality(Unresolved(DOMAIN experiences, f, F))
             n == Cardinality(Unresolved(DOMAIN experiences, f, F))'
  <2>1. m \in Nat /\ n \in Nat /\ m <= n
    BY RunsLater
  <2>2. m >= Greater(2, MinSupport)
    BY <1>3 DEF Convincing
  <2>3. Confidence(m, 0, FALSE) >= MinConfidence
    BY <1>3 DEF Convincing
  <2> HIDE DEF m, n
  <2>4. n >= Greater(2, MinSupport)
    BY <1>t, <2>1, <2>2
  <2>5. Confidence(n, 0, FALSE) >= MinConfidence
    BY <1>t, <2>1, <2>3, MoreConfidence, Through
  <2>6. Convincing(Unresolved(DOMAIN experiences, f, F), Greater(2, MinSupport), FALSE)'
    BY <2>4, <2>5 DEF Convincing, n
  <2> QED
    BY <1>1, <2>6 DEF EarnedDetour
<1> QED
  BY <1>1, <1>2, <1>3

(* What is earned, sound, saved or grounded stays so.                      *)
LEMMA StaysSound ==
  ASSUME LearnInv, LearnInv', Grows, NEW i \in Insights
  PROVE  (Sound(i) => Sound(i)') /\ (Saved(i) => Saved(i)')
<1>1. i.confidence \in Nat
  BY DEF Insights
<1>2. Earned(StrategyId(i), i.confidence) => Earned(StrategyId(i), i.confidence)'
  BY <1>1, EarnedLater
<1> QED
  BY <1>2 DEF Sound, Saved, Grows, Evidence

LEMMA StaysGrounded ==
  ASSUME LearnInv, LearnInv', Grows, NEW id, NEW s \in StrategyRows, Grounded(id, s)
  PROVE  Grounded(id, s)'
<1>1. s.confidence \in Nat
  BY DEF StrategyRows
<1>2. Earned(id, s.confidence) => Earned(id, s.confidence)'
  BY <1>1, EarnedLater
<1> QED
  BY <1>2 DEF Grounded, Grows, Evidence

LEMMA OthersStay ==
  ASSUME LearnInv, LearnInv', Grows, NEW q \in Runners, work'[q] = work[q], WorkSound(q)
  PROVE  WorkSound(q)'
<1>1. /\ work[q].todo \subseteq Insights /\ work[q].done \subseteq Insights
      /\ work[q].now \subseteq Insights /\ work[q].read \in {NoStrategy} \cup StrategyRows
  BY DEF LearnInv, Works
<1>2. \A i \in work[q].todo \cup work[q].done \cup work[q].now :
        (Sound(i) => Sound(i)') /\ (Saved(i) => Saved(i)')
  BY <1>1, StaysSound
<1>3. ASSUME work[q].read # NoStrategy, NEW i \in work[q].now
      PROVE  Grounded(StrategyId(i), work[q].read)'
  <2>1. PICK s \in StrategyRows : s = work[q].read /\ Grounded(StrategyId(i), s)
    BY <1>1, <1>3 DEF WorkSound
  <2>2. Grounded(StrategyId(i), s)' /\ work'[q].read = s
    BY <2>1, StaysGrounded
  <2> QED
    BY <2>2 DEF Grounded
<1>4. ASSUME EarnedDetour(work[q].tool) PROVE EarnedDetour(work[q].tool)'
  <2>1. PICK tool : tool = work[q].tool /\ EarnedDetour(tool)
    BY <1>4
  <2>2. EarnedDetour(tool)' /\ work'[q].tool = tool
    BY <2>1, DetourLater
  <2> QED
    BY <2>2 DEF EarnedDetour
<1> QED
  BY <1>2, <1>3, <1>4 DEF WorkSound, At

(* A step of one runner.                                                   *)
LEMMA EvidenceStep ==
  ASSUME LearnInv, LearnInv', EvidenceInv, Grows, NEW r \in Runners, NEW w \in Works,
         work' = [work EXCEPT ![r] = w], WorkSound(r)',
         \A t \in DOMAIN experiences' : \E tool \in Tools : experiences'[t] \in RunsOf(tool),
         \A id \in DOMAIN strategies' : \/ id \in DOMAIN strategies /\ strategies'[id] = strategies[id]
                                        \/ Grounded(id, strategies[id])'
  PROVE  EvidenceInv'
<1>1. \A q \in Runners \ {r} : work'[q] = work[q]
  BY DEF LearnInv
<1>2. \A q \in Runners : WorkSound(q)'
  BY <1>1, OthersStay DEF EvidenceInv
<1>3. ASSUME NEW id \in DOMAIN strategies' PROVE Grounded(id, strategies[id])'
  <2>1. CASE id \in DOMAIN strategies /\ strategies'[id] = strategies[id]
    <3>1. PICK s \in StrategyRows : s = strategies[id] /\ Grounded(id, s)
      BY <2>1 DEF LearnInv, TablesTyped, EvidenceInv
    <3>2. Grounded(id, s)' /\ strategies'[id] = s
      BY <2>1, <3>1, StaysGrounded
    <3> QED
      BY <3>2 DEF Grounded
  <2> QED
    BY <2>1
<1> QED
  BY <1>2, <1>3 DEF EvidenceInv

(* What reflection finds in some of the stored runs holds of all of them.  *)
LEMMA AnalyzeSound ==
  ASSUME LearnInv, EvidenceInv, NEW S \in SUBSET DOMAIN experiences, NEW topic \in Topics
  PROVE  \A i \in Analyze(S, topic) : Sound(i)
<1> SUFFICES ASSUME NEW i \in Analyze(S, topic) PROVE Sound(i)
  OBVIOUS
<1>t. TablesTyped /\ MinSupport \in Nat /\ Greater(2, MinSupport) \in Nat
  BY LimitsAssumption DEF Greater, LearnInv
<1>s. i \in Insights /\ i.supports \subseteq Evidence
  BY <1>t, AnalyzeTyped DEF Evidence
<1>k. /\ StrategyId(i).failed = i.failed /\ StrategyId(i).alternative = i.alternative
      /\ StrategyId(i).failures = i.failures /\ i.confidence \in Nat
  BY <1>s DEF StrategyId, Insights
<1>1. CASE i \in RecoveryPatterns(S, topic)
  <2> DEFINE m == Cardinality(Recovered(S, i.failed, i.alternative, i.failures))
             n == Cardinality(Recovered(DOMAIN experiences, i.failed, i.alternative, i.failures))
  <2>1. /\ i.failed \in Tools /\ i.alternative \in Tools /\ i.failures \in SUBSET Failures
        /\ i.supports = Recovered(S, i.failed, i.alternative, i.failures)
        /\ Enough(i.supports, MinSupport)
        /\ i.confidence <= Confidence(Cardinality(i.supports), 0, TRUE)
    BY <1>t, <1>1, RecoveryFound
  <2>2. m \in Nat /\ n \in Nat /\ m <= n
    BY <1>t, RunsOfPart
  <2>3. m >= MinSupport
    BY <2>1 DEF Enough
  <2>4. i.confidence <= Confidence(m, 0, TRUE)
    BY <2>1
  <2> HIDE DEF m, n
  <2>5. n >= MinSupport
    BY <1>t, <2>2, <2>3
  <2>6. i.confidence <= Confidence(n, 0, TRUE)
    BY <1>k, <2>2, <2>4, MoreConfidence, Through
  <2>7. RecoveryEarned(StrategyId(i), i.confidence)
    BY <1>k, <2>1, <2>5, <2>6 DEF RecoveryEarned, Enough, n
  <2> QED
    BY <1>s, <2>7 DEF Sound, Earned
<1>2. CASE i \in RepeatedFailurePatterns(S, topic)
  <2> DEFINE m == Cardinality(Unresolved(S, i.failed, i.failures))
             n == Cardinality(Unresolved(DOMAIN experiences, i.failed, i.failures))
  <2>1. /\ i.alternative = NoTool /\ i.supports = Unresolved(S, i.failed, i.failures)
        /\ Enough(i.supports, Greater(2, MinSupport))
        /\ i.confidence <= Confidence(Cardinality(i.supports), 0, FALSE)
        /\ \E t \in S : i.failures = experiences[t].failures
    BY <1>t, <1>2, FailureFound
  <2>2. i.failures \in SUBSET Failures
    <3>1. PICK t \in S : i.failures = experiences[t].failures
      BY <2>1
    <3>2. PICK tool \in Tools : experiences[t] \in RunsOf(tool)
      BY DEF EvidenceInv
    <3> QED
      BY <3>1, <3>2 DEF RunsOf, Experience
  <2>3. m \in Nat /\ n \in Nat /\ m <= n
    BY <1>t, RunsOfPart
  <2>4. m >= Greater(2, MinSupport)
    BY <2>1 DEF Enough
  <2>5. i.confidence <= Confidence(m, 0, FALSE)
    BY <2>1
  <2> HIDE DEF m, n
  <2>6. n >= Greater(2, MinSupport)
    BY <1>t, <2>3, <2>4
  <2>7. i.confidence <= Confidence(n, 0, FALSE)
    BY <1>k, <2>3, <2>5, MoreConfidence, Through
  <2>8. WarningEarned(StrategyId(i), i.confidence)
    BY <1>k, <2>1, <2>2, <2>6, <2>7 DEF WarningEarned, Enough, n
  <2> QED
    BY <1>s, <2>8 DEF Sound, Earned
<1>3. CASE i \in VerificationPatterns(S, topic) \cup InputPatterns(S, topic)
  <2>1. i.failed = NoTool /\ i.alternative = NoTool
    BY <1>t, <1>3, SharedFound
  <2> QED
    BY <1>s, <1>k, <2>1 DEF Sound, Earned
<1> QED
  BY <1>1, <1>2, <1>3 DEF Analyze

(* Of the strategies that prefer a tool, one is the most confident.        *)
LEMMA SomePreferred ==
  ASSUME LearnInv, NEW id \in Advice, id.alternative \in Tools
  PROVE  Preferred # {}
<1> DEFINE eligible == {x \in Advice : x.alternative \in Tools}
           H == {95 - strategies[x].confidence : x \in eligible}
<1>1. \A x \in eligible : strategies[x].confidence \in 5..95
  BY DEF Advice, LearnInv, TablesTyped, StrategyRows
<1>2. id \in eligible
  OBVIOUS
<1>3. H # {} /\ H \subseteq Nat
  BY <1>1, <1>2
<1>4. PICK h \in H : \A j \in H : h <= j
  <2> HIDE DEF H
  <2> QED
    BY <1>3, LeastNat
<1>5. PICK x \in eligible : h = 95 - strategies[x].confidence
  BY <1>4
<1>6. \A y \in eligible : strategies[y].confidence <= strategies[x].confidence
  <2> SUFFICES ASSUME NEW y \in eligible PROVE strategies[y].confidence <= strategies[x].confidence
    OBVIOUS
  <2>1. 95 - strategies[y].confidence \in H
    OBVIOUS
  <2>2. 95 - strategies[x].confidence <= 95 - strategies[y].confidence
    BY <1>4, <1>5, <2>1
  <2>3. strategies[x].confidence \in 5..95 /\ strategies[y].confidence \in 5..95
    BY <1>1
  <2>4. \A a, b \in 5..95 : 95 - a <= 95 - b => b <= a
    OBVIOUS
  <2> QED
    BY <2>2, <2>3, <2>4
<1>7. x.alternative \in Preferred
  BY <1>5, <1>6 DEF Preferred
<1> QED
  BY <1>7

(* The runs of a tool begin with it, and end with another if not alone.    *)
LEMMA Recoverers ==
  ASSUME LearnInv, EvidenceInv, NEW f, NEW F, Enough(Recovered(DOMAIN experiences, f, f, F), MinSupport)
  PROVE  FALSE
<1> DEFINE R == Recovered(DOMAIN experiences, f, f, F)
<1>1. Cardinality(R) >= MinSupport /\ MinSupport \in Nat \ {0}
  BY LimitsAssumption DEF Enough
<1>2. R # {}
  BY <1>1, FS_EmptySet
<1>3. PICK t \in R : TRUE
  BY <1>2
<1>4. t \in DOMAIN experiences /\ Len(experiences[t].tools) >= 2
      /\ First(experiences[t]) = f /\ Final(experiences[t]) = f
  BY <1>3 DEF Recovered
<1>5. PICK tool \in Tools : experiences[t] \in RunsOf(tool)
  BY <1>4 DEF EvidenceInv
<1>6. experiences[t].tools \in UsesOf(tool)
  BY <1>5 DEF RunsOf, Experience
<1>7. CASE experiences[t].tools = <<tool>>
  BY <1>4, <1>7
<1>8. CASE \E other \in Tools \ {tool} : experiences[t].tools = <<tool, other>>
  BY <1>4, <1>8 DEF First, Final
<1> QED
  BY <1>6, <1>7, <1>8 DEF UsesOf

LEMMA DetourPlanned ==
  ASSUME LearnInv, EvidenceInv, NEW tool \in PlannedTools, tool # Available[1]
  PROVE  EarnedDetour(tool)
<1>t. MinSupport \in Nat /\ Greater(2, MinSupport) \in Nat /\ MinConfidence \in Nat
  BY LimitsAssumption DEF Greater
<1>1. CASE Preferred # {}
  <2>1. PICK id \in Advice : id.alternative = tool /\ tool \in Tools
    BY <1>1 DEF PlannedTools, Preferred
  <2>2. RecoveryEarned(id, strategies[id].confidence)
    BY <2>1, ToolsAssumption DEF Advice, EvidenceInv, Grounded, Earned, WarningEarned
  <2>3. /\ id.failed \in Tools /\ id.failures \in SUBSET Failures
        /\ Enough(Recovered(DOMAIN experiences, id.failed, tool, id.failures), MinSupport)
    BY <2>1, <2>2 DEF RecoveryEarned
  <2>4. id.failed # tool
    BY <2>3, Recoverers
  <2> DEFINE n == Cardinality(Recovered(DOMAIN experiences, id.failed, tool, id.failures))
             c == strategies[id].confidence
  <2>5. n \in Nat /\ n >= MinSupport
    BY <2>3, RunsOfPart DEF Enough, LearnInv
  <2>6. c <= Confidence(n, 0, TRUE)
    BY <2>1, <2>2 DEF RecoveryEarned
  <2>7. c \in Nat /\ c >= MinConfidence
    BY DEF Advice, LearnInv, TablesTyped, StrategyRows
  <2> HIDE DEF n, c
  <2>8. Confidence(n, 0, TRUE) >= MinConfidence
    BY <1>t, <2>5, <2>6, <2>7, MoreConfidence, Through
  <2>9. Convincing(Recovered(DOMAIN experiences, id.failed, tool, id.failures), MinSupport, TRUE)
    BY <2>5, <2>8 DEF Convincing, n
  <2> QED
    BY <2>3, <2>4, <2>9 DEF EarnedDetour
<1>2. CASE Preferred = {}
  <2>1. Available[1] \in Avoided
    BY <1>2 DEF PlannedTools
  <2>2. PICK id \in Advice : id.failed = Available[1]
    BY <2>1 DEF Avoided
  <2>3. id.failed \in Tools \ {tool}
    BY <2>2, ToolsListed
  <2>4. id.alternative \notin Tools
    BY <1>2, SomePreferred
  <2>5. WarningEarned(id, strategies[id].confidence)
    BY <2>3, <2>4, ToolsAssumption DEF Advice, EvidenceInv, Grounded, Earned, RecoveryEarned
  <2> DEFINE n == Cardinality(Unresolved(DOMAIN experiences, id.failed, id.failures))
             c == strategies[id].confidence
  <2>6. n \in Nat
    BY RunsOfPart DEF LearnInv
  <2>7. n >= Greater(2, MinSupport) /\ id.failures \in SUBSET Failures
    BY <2>5 DEF WarningEarned, Enough
  <2>8. c <= Confidence(n, 0, FALSE)
    BY <2>5 DEF WarningEarned
  <2>9. c \in Nat /\ c >= MinConfidence
    BY DEF Advice, LearnInv, TablesTyped, StrategyRows
  <2> HIDE DEF n, c
  <2>10. Confidence(n, 0, FALSE) >= MinConfidence
    BY <1>t, <2>6, <2>8, <2>9, MoreConfidence, Through
  <2>11. Convincing(Unresolved(DOMAIN experiences, id.failed, id.failures), Greater(2, MinSupport), FALSE)
    BY <2>7, <2>10 DEF Convincing, n
  <2> QED
    BY <2>3, <2>7, <2>11 DEF EarnedDetour
<1> QED
  BY <1>1, <1>2

(* EvidenceInv is inductive                                                *)

LEMMA EvidenceStart == LearnInit => EvidenceInv
BY DEF LearnInit, EvidenceInv, WorkSound, Idle, At

LEMMA IdleSound == ASSUME NEW r \in Runners, work'[r] = Idle PROVE WorkSound(r)'
BY DEF Idle, WorkSound, At

LEMMA SameRows ==
  ASSUME LearnInv, UNCHANGED <<experiences, reviews, reflections, strategies>>
  PROVE  Grows /\ (EvidenceInv =>
           /\ \A t \in DOMAIN experiences' : \E tool \in Tools : experiences'[t] \in RunsOf(tool)
           /\ \A id \in DOMAIN strategies' : id \in DOMAIN strategies /\ strategies'[id] = strategies[id])
BY DEF Grows, SavedIds, EvidenceInv

LEMMA LearnSound ==
  ASSUME LearnInv, LearnInv', NEW r \in Runners, NEW T \in SUBSET Insights,
         \A i \in T : Sound(i)' /\ Saved(i)', work' = ToLearn(r, T)
  PROVE  WorkSound(r)'
<1>1. work \in [Runners -> Works]
  BY DEF LearnInv
<1>2. CASE T = {}
  <2>1. work'[r] = Idle
    BY <1>1, <1>2 DEF ToLearn
  <2> QED
    BY <2>1, IdleSound
<1>3. CASE T # {}
  <2>1. work'[r] = [Idle EXCEPT !.pc = "learn", !.todo = T]
    BY <1>1, <1>3 DEF ToLearn
  <2>2. /\ work'[r].pc = "learn" /\ work'[r].todo = T /\ work'[r].done = {} /\ work'[r].now = {}
        /\ work'[r].read = NoStrategy
    BY <2>1 DEF Idle
  <2> QED
    BY <2>2 DEF WorkSound, At
<1> QED
  BY <1>2, <1>3

LEMMA HoldingsStay ==
  ASSUME LearnInv, LearnInv', EvidenceInv, Grows, NEW r \in Runners
  PROVE  /\ \A i \in work[r].todo \cup work[r].done \cup work[r].now : i \in Insights /\ Sound(i)'
         /\ \A i \in work[r].done \cup work[r].now : Saved(i)'
         /\ At(r, "learn") \/ At(r, "merge") => \A i \in work[r].todo : Saved(i)'
         /\ \A s \in StrategyRows : s = work[r].read =>
              \A i \in work[r].now : Grounded(StrategyId(i), s)'
<1>1. work[r] \in Works
  BY DEF LearnInv
<1>2. \A i \in work[r].todo \cup work[r].done \cup work[r].now :
        i \in Insights /\ (Sound(i) => Sound(i)') /\ (Saved(i) => Saved(i)')
  BY <1>1, StaysSound DEF Works
<1>3. ASSUME NEW s \in StrategyRows, s = work[r].read, NEW i \in work[r].now
      PROVE  Grounded(StrategyId(i), s)'
  <2>1. Grounded(StrategyId(i), s)
    BY <1>3, NoStrategyIsNone DEF EvidenceInv, WorkSound
  <2> QED
    BY <2>1, StaysGrounded
<1> QED
  BY <1>2, <1>3 DEF EvidenceInv, WorkSound

LEMMA PlanSound == ASSUME LearnInv, EvidenceInv, NEW r \in Runners, Plan(r) PROVE EvidenceInv'
<1>1. PICK id \in Ids, tool \in PlannedTools :
        work' = [work EXCEPT ![r].pc = "run", ![r].id = id, ![r].tool = tool]
  BY DEF Plan
<1> DEFINE w == [work[r] EXCEPT !.pc = "run", !.id = id, !.tool = tool]
<1>2. work[r] \in Works /\ work \in [Runners -> Works] /\ id \in Names \cup Ids
  BY <1>1 DEF LearnInv
<1>3. /\ w \in Works /\ w.pc = "run" /\ w.tool = tool /\ w.todo = work[r].todo
      /\ w.done = work[r].done /\ w.now = work[r].now /\ w.read = work[r].read
  <2>1. tool \in Names
    BY PlannedIsTool DEF Names
  <2> QED
    BY <1>1, <1>2, <2>1 DEF Works, Points
<1>4. work' = [work EXCEPT ![r] = w]
  BY <1>1, <1>2 DEF Works
<1> HIDE DEF w
<1>5. LearnInv' /\ Grows
  BY PlanStep, SameRows DEF Plan
<1>6. work'[r] = w
  BY <1>2, <1>4
<1>7. /\ \A i \in work[r].todo \cup work[r].done \cup work[r].now : Sound(i)'
      /\ \A i \in work[r].done \cup work[r].now : Saved(i)'
  BY <1>5, HoldingsStay
<1>8. ASSUME work[r].read # NoStrategy, NEW i \in work[r].now
      PROVE  Grounded(StrategyId(i), work[r].read)'
  <2>1. PICK s \in StrategyRows : s = work[r].read
    BY <1>2, <1>8 DEF Works
  <2>2. Grounded(StrategyId(i), s)' /\ work'[r].read = s
    BY <1>3, <1>5, <1>6, <1>8, <2>1, HoldingsStay
  <2> QED
    BY <2>2 DEF Grounded
<1>9. tool # Available[1] => EarnedDetour(tool)'
  BY <1>5, DetourPlanned, DetourLater
<1>10. work'[r].tool = tool
  BY <1>3, <1>6
<1>11. work'[r].tool # Available[1] => EarnedDetour(work[r].tool)'
  BY <1>9, <1>10 DEF EarnedDetour
<1>12. WorkSound(r)'
  BY <1>3, <1>6, <1>7, <1>8, <1>11 DEF WorkSound, EvidenceInv, At
<1> QED
  BY <1>3, <1>4, <1>5, <1>12, SameRows, EvidenceStep DEF Plan

LEMMA FinishSound == ASSUME LearnInv, EvidenceInv, NEW r \in Runners, Finish(r) PROVE EvidenceInv'
<1> DEFINE w == [work[r] EXCEPT !.pc = "reflect", !.id = work[r].id, !.tool = NoTool]
<1>1. PICK e \in RunsOf(work[r].tool) :
        /\ work[r].id \notin DOMAIN experiences /\ work[r].tool \in Tools
        /\ DOMAIN experiences' = DOMAIN experiences \cup {work[r].id}
        /\ experiences'[work[r].id] = e
        /\ \A t \in DOMAIN experiences : experiences'[t] = experiences[t]
        /\ work' = [work EXCEPT ![r] = w]
  BY FinishStep
<1>2. LearnInv' /\ UNCHANGED <<reviews, reflections, strategies>>
  BY FinishStep DEF Finish, StoreExperience
<1>3. Grows
  BY <1>1, <1>2 DEF Grows, SavedIds
<1>4. work[r] \in Works /\ work \in [Runners -> Works]
  BY DEF LearnInv
<1>5. /\ w \in Works /\ w.pc = "reflect" /\ w.todo = work[r].todo
      /\ w.done = work[r].done /\ w.now = work[r].now /\ w.read = work[r].read
  BY <1>4 DEF Works, Points, Names
<1> HIDE DEF w
<1>6. work'[r] = w
  BY <1>1, <1>4
<1>7. /\ \A i \in work[r].todo \cup work[r].done \cup work[r].now : Sound(i)'
      /\ \A i \in work[r].done \cup work[r].now : Saved(i)'
  BY <1>2, <1>3, HoldingsStay
<1>8. ASSUME work[r].read # NoStrategy, NEW i \in work[r].now
      PROVE  Grounded(StrategyId(i), work[r].read)'
  <2>1. PICK s \in StrategyRows : s = work[r].read
    BY <1>4, <1>8 DEF Works
  <2>2. Grounded(StrategyId(i), s)' /\ work'[r].read = s
    BY <1>2, <1>3, <1>5, <1>6, <1>8, <2>1, HoldingsStay
  <2> QED
    BY <2>2 DEF Grounded
<1>9. WorkSound(r)'
  BY <1>5, <1>6, <1>7, <1>8 DEF WorkSound, At
<1>10. \A t \in DOMAIN experiences' : \E tool \in Tools : experiences'[t] \in RunsOf(tool)
  BY <1>1 DEF EvidenceInv
<1> QED
  BY <1>1, <1>2, <1>3, <1>5, <1>9, <1>10, EvidenceStep

LEMMA ReflectSound == ASSUME LearnInv, EvidenceInv, NEW r \in Runners, Reflect(r) PROVE EvidenceInv'
<1>1. PICK w \in Works :
        /\ work' = [work EXCEPT ![r] = w]
        /\ \/ w = Idle
           \/ \E S \in SUBSET DOMAIN experiences, topic \in Topics :
                w = [work[r] EXCEPT !.pc = "save", !.todo = Analyze(S, topic), !.id = NoTool]
  BY ReflectStep
<1>2. LearnInv' /\ Grows
  BY ReflectStep, SameRows DEF Reflect
<1>3. work[r] \in Works /\ work'[r] = w
  BY <1>1 DEF LearnInv
<1>4. WorkSound(r)'
  <2>1. CASE w = Idle
    BY <1>3, <2>1, IdleSound
  <2>2. ASSUME NEW S \in SUBSET DOMAIN experiences, NEW topic \in Topics,
               w = [work[r] EXCEPT !.pc = "save", !.todo = Analyze(S, topic), !.id = NoTool]
        PROVE  WorkSound(r)'
    <3>1. /\ w.pc = "save" /\ w.todo = Analyze(S, topic) /\ w.done = work[r].done
          /\ w.now = work[r].now /\ w.read = work[r].read
      BY <1>3, <2>2 DEF Works
    <3>2. \A i \in Analyze(S, topic) : i \in Insights /\ Sound(i)
      BY AnalyzeTyped, AnalyzeSound DEF LearnInv
    <3>3. \A i \in w.todo : Sound(i)'
      BY <1>2, <3>1, <3>2, StaysSound
    <3>4. /\ \A i \in work[r].done \cup work[r].now : Sound(i)'
          /\ \A i \in work[r].done \cup work[r].now : Saved(i)'
      BY <1>2, HoldingsStay
    <3>5. ASSUME work[r].read # NoStrategy, NEW i \in work[r].now
          PROVE  Grounded(StrategyId(i), work[r].read)'
      <4>1. PICK s \in StrategyRows : s = work[r].read
        BY <1>3, <3>5 DEF Works
      <4>2. Grounded(StrategyId(i), s)' /\ work'[r].read = s
        BY <1>2, <1>3, <3>1, <3>5, <4>1, HoldingsStay
      <4> QED
        BY <4>2 DEF Grounded
    <3> QED
      BY <1>3, <3>1, <3>3, <3>4, <3>5 DEF WorkSound, At
  <2> QED
    BY <1>1, <2>1, <2>2
<1> QED
  BY <1>1, <1>2, <1>4, SameRows, EvidenceStep DEF Reflect

LEMMA AbandonSound == ASSUME LearnInv, EvidenceInv, NEW r \in Runners, Abandon(r) PROVE EvidenceInv'
<1>1. work' = [work EXCEPT ![r] = Idle] /\ LearnInv' /\ Grows
  BY AbandonStep, SameRows DEF Abandon
<1>2. WorkSound(r)'
  BY <1>1, IdleSound DEF LearnInv
<1> QED
  BY <1>1, <1>2, IdleTyped, SameRows, EvidenceStep DEF Abandon

LEMMA ReviewSound == ASSUME LearnInv, EvidenceInv, NEW r \in Runners, Review(r) PROVE EvidenceInv'
<1>1. PICK id \in Ids, decision \in Decisions :
        /\ work' = ToLearn(r, {ReviewInsight(id, decision)})
        /\ id \in DOMAIN reviews' /\ DOMAIN reviews \subseteq DOMAIN reviews'
  BY ReviewStep
<1> DEFINE i == ReviewInsight(id, decision)
<1>2. LearnInv' /\ UNCHANGED <<experiences, reflections, strategies>>
  BY ReviewStep DEF Review
<1>3. Grows
  BY <1>1, <1>2 DEF Grows, SavedIds
<1>4. /\ i \in Insights /\ i.failed = NoTool /\ i.alternative = NoTool
      /\ i.topic = "review" /\ i.supports = {id}
  BY ReviewTyped
<1> HIDE DEF i
<1>5. Sound(i)' /\ Saved(i)'
  BY <1>1, <1>4 DEF Sound, Saved, Evidence, Earned, StrategyId
<1>6. WorkSound(r)'
  <2>1. {i} \in SUBSET Insights /\ work' = ToLearn(r, {i}) /\ \A j \in {i} : Sound(j)' /\ Saved(j)'
    BY <1>1, <1>4, <1>5 DEF i
  <2> QED
    BY <1>2, <2>1, LearnSound
<1>7. PICK w \in Works : work' = [work EXCEPT ![r] = w]
  BY <1>1, <1>4, ToLearnTyped DEF i
<1> QED
  BY <1>2, <1>3, <1>6, <1>7, EvidenceStep DEF EvidenceInv

LEMMA ReadStrategySound ==
  ASSUME LearnInv, EvidenceInv, NEW r \in Runners, ReadStrategy(r) PROVE EvidenceInv'
<1>1. PICK i \in work[r].todo :
        work' = [work EXCEPT ![r] = [work[r] EXCEPT !.pc = "merge", !.todo = @ \ {i}, !.now = {i},
                                                    !.read = Lookup(StrategyId(i))]]
  BY ReadStrategyStep
<1> DEFINE w == [work[r] EXCEPT !.pc = "merge", !.todo = @ \ {i}, !.now = {i},
                                !.read = Lookup(StrategyId(i))]
<1>2. LearnInv' /\ Grows
  BY ReadStrategyStep, SameRows DEF ReadStrategy
<1>3. work \in [Runners -> Works] /\ work[r] \in Works
  BY DEF LearnInv
<1>4. /\ work'[r] = w /\ w.pc = "merge" /\ w.todo = work[r].todo \ {i} /\ w.done = work[r].done
      /\ w.now = {i} /\ w.read = Lookup(StrategyId(i))
  BY <1>1, <1>3 DEF Works
<1>5. w \in Works
  <2>1. work'[r] \in Works
    BY <1>2 DEF LearnInv
  <2> QED
    BY <1>4, <2>1
<1>6. work' = [work EXCEPT ![r] = w]
  BY <1>1
<1> HIDE DEF w
<1>7. /\ \A j \in work[r].todo \cup work[r].done \cup work[r].now : Sound(j)'
      /\ \A j \in work[r].done \cup work[r].todo : Saved(j)'
  BY <1>2, HoldingsStay DEF ReadStrategy
<1>8. ASSUME w.read # NoStrategy PROVE Grounded(StrategyId(i), work[r].read)'
  <2>1. PICK s \in StrategyRows : s = w.read /\ Grounded(StrategyId(i), s)
    <3>1. StrategyId(i) \in DOMAIN strategies /\ w.read = strategies[StrategyId(i)]
      BY <1>4, <1>8 DEF Lookup, Known
    <3> QED
      BY <3>1 DEF LearnInv, TablesTyped, EvidenceInv
  <2>2. Grounded(StrategyId(i), s)'
    BY <1>2, <2>1, StaysGrounded
  <2>3. work'[r].read = s
    BY <1>4, <2>1
  <2> QED
    BY <2>1, <2>2, <2>3 DEF Grounded
<1>9. WorkSound(r)'
  BY <1>4, <1>7, <1>8 DEF WorkSound, At
<1> QED
  BY <1>2, <1>5, <1>6, <1>9, SameRows, EvidenceStep DEF ReadStrategy

LEMMA SaveInsightSound ==
  ASSUME LearnInv, EvidenceInv, NEW r \in Runners, SaveInsight(r) PROVE EvidenceInv'
<1>1. PICK i \in Foremost(work[r].todo) :
        LET done == work[r].done \cup {i}
        IN  /\ reflections' = {j \in reflections : InsightId(j) # InsightId(i)} \cup {i}
            /\ work' = IF work[r].todo = {i} THEN ToLearn(r, {j \in done : Teaches(j)})
                       ELSE [work EXCEPT ![r].todo = @ \ {i}, ![r].done = done]
  BY DEF SaveInsight
<1>2. LearnInv' /\ UNCHANGED <<experiences, reviews, strategies>>
  BY SaveInsightStep DEF SaveInsight
<1>3. Grows /\ InsightId(i) \in SavedIds'
  BY <1>1, <1>2 DEF Grows, SavedIds
<1>4. work \in [Runners -> Works] /\ work[r] \in Works /\ At(r, "save")
  BY DEF LearnInv, SaveInsight
<1>5. i \in work[r].todo
  BY <1>1 DEF Foremost
<1> DEFINE done == work[r].done \cup {i}
<1>6. /\ \A j \in work[r].todo \cup work[r].done \cup work[r].now : j \in Insights /\ Sound(j)'
      /\ \A j \in work[r].done \cup work[r].now : Saved(j)'
  BY <1>2, <1>3, HoldingsStay
<1>7. \A j \in done : j \in Insights /\ Sound(j)' /\ Saved(j)'
  BY <1>3, <1>5, <1>6 DEF Saved
<1>8. CASE work[r].todo = {i}
  <2> DEFINE T == {j \in done : Teaches(j)}
  <2>1. T \in SUBSET Insights /\ (\A j \in T : Sound(j)' /\ Saved(j)') /\ work' = ToLearn(r, T)
    BY <1>1, <1>7, <1>8
  <2> HIDE DEF T
  <2>2. WorkSound(r)'
    BY <1>2, <2>1, LearnSound
  <2>3. PICK w \in Works : work' = [work EXCEPT ![r] = w]
    BY <2>1, ToLearnTyped
  <2> QED
    BY <1>2, <1>3, <2>2, <2>3, EvidenceStep DEF EvidenceInv
<1>9. CASE work[r].todo # {i}
  <2> DEFINE w == [work[r] EXCEPT !.todo = @ \ {i}, !.done = done]
  <2>1. /\ w.pc = "save" /\ w.todo = work[r].todo \ {i} /\ w.done = done /\ w.now = work[r].now
        /\ w.read = work[r].read
    BY <1>4 DEF Works, At
  <2>2. work' = [work EXCEPT ![r] = w]
    BY <1>1, <1>4, <1>9 DEF Works
  <2> HIDE DEF w
  <2>3. work'[r] = w
    BY <1>4, <2>2
  <2>4. w \in Works
    BY <1>2, <2>3 DEF LearnInv
  <2>5. ASSUME work[r].read # NoStrategy, NEW j \in work[r].now
        PROVE  Grounded(StrategyId(j), work[r].read)'
    <3>1. PICK s \in StrategyRows : s = work[r].read
      BY <1>4, <2>5 DEF Works
    <3>2. Grounded(StrategyId(j), s)' /\ work'[r].read = s
      BY <1>2, <1>3, <2>1, <2>3, <2>5, <3>1, HoldingsStay
    <3> QED
      BY <3>2 DEF Grounded
  <2>6. WorkSound(r)'
    <3> HIDE DEF done
    <3>1. /\ \A j \in w.todo \cup w.done \cup w.now : Sound(j)'
          /\ \A j \in w.done \cup w.now : Saved(j)'
      BY <1>6, <1>7, <2>1
    <3> QED
      BY <2>1, <2>3, <2>5, <3>1 DEF WorkSound, At
  <2> QED
    BY <1>2, <1>3, <2>2, <2>4, <2>6, EvidenceStep DEF EvidenceInv
<1> QED
  BY <1>8, <1>9

(* What is merged is as well grounded as what was read and what is new.    *)
LEMMA MergedGrounded ==
  ASSUME LearnInv, EvidenceInv, NEW r \in Runners, NEW i \in work[r].now
  PROVE  Grounded(StrategyId(i), Merged(r, i))
<1> DEFINE n == FromInsight(i)
           id == StrategyId(i)
<1>1. i \in Insights /\ Sound(i) /\ Saved(i) /\ work[r].read \in {NoStrategy} \cup StrategyRows
  BY DEF LearnInv, Works, EvidenceInv, WorkSound
<1>2. /\ n \in StrategyRows /\ n.supports = i.supports /\ n.insights = {InsightId(i)}
      /\ n.confidence = i.confidence /\ n.status = Status(n.confidence, n.conflicts)
  BY <1>1, FromInsightTyped
<1>3. id.topic = i.topic
  BY DEF StrategyId
<1>4. Grounded(id, n)
  <2> HIDE DEF n
  <2> QED
    BY <1>1, <1>2, <1>3 DEF Grounded, Sound, Saved
<1>5. CASE work[r].read = NoStrategy
  BY <1>4, <1>5 DEF Merged
<1>6. CASE work[r].read # NoStrategy
  <2> DEFINE s == work[r].read
             m == Merge(s, n)
  <2>1. s \in StrategyRows /\ Grounded(id, s) /\ Merged(r, i) = m
    BY <1>1, <1>6 DEF EvidenceInv, WorkSound, Merged
  <2> HIDE DEF n, id
  <2>2. /\ m \in StrategyRows /\ m.supports = s.supports \cup n.supports
        /\ m.insights = s.insights \cup n.insights
        /\ m.confidence <= s.confidence \/ m.confidence <= n.confidence
        /\ m.status = Status(m.confidence, m.conflicts)
    BY <1>2, <2>1, MergeTyped
  <2>3. m.confidence \in Nat /\ s.confidence \in Nat /\ n.confidence \in Nat
    BY <1>2, <2>1, <2>2 DEF StrategyRows
  <2>4. Earned(id, s.confidence) /\ Earned(id, n.confidence)
    BY <1>4, <2>1 DEF Grounded
  <2> HIDE DEF s, m
  <2>5. Earned(id, m.confidence)
    BY <2>2, <2>3, <2>4, EarnedLess
  <2>6. Grounded(id, m)
    BY <1>4, <2>1, <2>2, <2>5 DEF Grounded
  <2> QED
    BY <2>1, <2>6 DEF id
<1> QED
  BY <1>5, <1>6

LEMMA SaveStrategySound ==
  ASSUME LearnInv, EvidenceInv, NEW r \in Runners, SaveStrategy(r) PROVE EvidenceInv'
<1>1. PICK i \in work[r].now :
        /\ DOMAIN strategies' = DOMAIN strategies \cup {StrategyId(i)}
        /\ strategies'[StrategyId(i)] = Merged(r, i) /\ i \in Insights
        /\ \A id \in DOMAIN strategies : id # StrategyId(i) => strategies'[id] = strategies[id]
  BY SaveStrategyStep
<1>2. LearnInv' /\ UNCHANGED <<experiences, reviews, reflections>> /\ work' = ToLearn(r, work[r].todo)
  BY SaveStrategyStep DEF SaveStrategy
<1>3. Grows
  BY <1>2 DEF Grows, SavedIds
<1>4. Grounded(StrategyId(i), strategies[StrategyId(i)])'
  <2>1. PICK s \in StrategyRows : s = Merged(r, i) /\ Grounded(StrategyId(i), s)
    BY <1>1, MergedTyped, MergedGrounded
  <2>2. Grounded(StrategyId(i), s)' /\ strategies'[StrategyId(i)] = s
    BY <1>1, <1>2, <1>3, <2>1, StaysGrounded
  <2> QED
    BY <2>2 DEF Grounded
<1>5. \A id \in DOMAIN strategies' : \/ id \in DOMAIN strategies /\ strategies'[id] = strategies[id]
                                     \/ Grounded(id, strategies[id])'
  BY <1>1, <1>4
<1>6. work[r].todo \in SUBSET Insights /\ \A j \in work[r].todo : Sound(j)' /\ Saved(j)'
  <2>1. At(r, "merge") /\ work[r] \in Works
    BY DEF SaveStrategy, LearnInv
  <2> QED
    BY <1>2, <1>3, <2>1, HoldingsStay DEF Works
<1>7. WorkSound(r)'
  BY <1>2, <1>6, LearnSound
<1>8. PICK w \in Works : work' = [work EXCEPT ![r] = w]
  BY <1>2, <1>6, ToLearnTyped
<1> QED
  BY <1>2, <1>3, <1>5, <1>7, <1>8, EvidenceStep DEF EvidenceInv

LEMMA EvidenceKeeps ==
  ASSUME LearnInv, EvidenceInv, [\E r \in Runners : LearnStep(r)]_learnVars
  PROVE  EvidenceInv'
<1>1. CASE UNCHANGED learnVars
  <2>1. LearnInv' /\ Grows
    BY <1>1, LearnKeeps, SameRows DEF learnVars
  <2>2. \A q \in Runners : WorkSound(q)'
    BY <1>1, <2>1, OthersStay DEF learnVars, EvidenceInv
  <2>3. ASSUME NEW id \in DOMAIN strategies' PROVE Grounded(id, strategies[id])'
    <3>1. PICK s \in StrategyRows : s = strategies[id] /\ Grounded(id, s)
      BY <1>1, <2>3 DEF learnVars, LearnInv, TablesTyped, EvidenceInv
    <3>2. Grounded(id, s)' /\ strategies'[id] = s
      BY <1>1, <2>1, <3>1, StaysGrounded DEF learnVars
    <3> QED
      BY <3>2 DEF Grounded
  <2> QED
    BY <1>1, <2>2, <2>3 DEF learnVars, EvidenceInv
<1>2. CASE \E r \in Runners : LearnStep(r)
  BY <1>2, PlanSound, FinishSound, ReflectSound, SaveInsightSound, ReadStrategySound,
     SaveStrategySound, ReviewSound, AbandonSound DEF LearnStep
<1> QED
  BY <1>1, <1>2

-----------------------------------------------------------------------------
(* What the invariants say *)

LEMMA DetoursEarned == EvidenceInv => DetoursAreEarned
BY DEF EvidenceInv, WorkSound, DetoursAreEarned

LEMMA ActiveBacked == EvidenceInv => ActiveIsBacked
BY DEF EvidenceInv, Grounded, ActiveIsBacked, Status, Evidence, SavedIds

(* One save either adds to what is stored or was read before it was.       *)
LEMMA SaveRemembers ==
  ASSUME LearnInv, NEW r \in Runners, SaveStrategy(r), NEW id \in DOMAIN strategies
  PROVE  \/ Remembers(id)
         \/ \E i \in work[r].now :
              At(r, "merge") /\ StrategyId(i) = id /\ work[r].read # strategies[id]
<1>1. PICK i \in work[r].now :
        /\ strategies'[StrategyId(i)] = Merged(r, i) /\ i \in Insights
        /\ \A x \in DOMAIN strategies : x # StrategyId(i) => strategies'[x] = strategies[x]
  BY SaveStrategyStep
<1>2. strategies[id] \in StrategyRows /\ FromInsight(i) \in StrategyRows
  BY <1>1, FromInsightTyped DEF LearnInv, TablesTyped
<1>3. CASE id # StrategyId(i)
  BY <1>1, <1>3 DEF Remembers
<1>4. CASE id = StrategyId(i) /\ work[r].read # strategies[id]
  BY <1>4 DEF SaveStrategy
<1>5. CASE id = StrategyId(i) /\ work[r].read = strategies[id]
  <2>1. strategies'[id] = Merge(strategies[id], FromInsight(i))
    BY <1>1, <1>2, <1>5, NoStrategyIsNone DEF Merged
  <2> QED
    BY <1>2, <2>1, MergeTyped DEF Remembers
<1> QED
  BY <1>3, <1>4, <1>5

LEMMA EvidenceKept ==
  ASSUME LearnInv, \E r \in Runners : LearnStep(r), NEW id \in DOMAIN strategies
  PROVE  \/ Remembers(id)
         \/ \E r \in Runners : \E i \in work[r].now :
              At(r, "merge") /\ StrategyId(i) = id /\ work[r].read # strategies[id]
<1>1. CASE \E r \in Runners : SaveStrategy(r)
  BY <1>1, SaveRemembers
<1>2. CASE UNCHANGED strategies
  BY <1>2 DEF Remembers
<1> QED
  BY <1>1, <1>2 DEF LearnStep, Plan, Finish, StoreExperience, Reflect, SaveInsight, ReadStrategy,
                    Review, Abandon

-----------------------------------------------------------------------------
LEMMA LearnInvariant == LearnSpec => [](LearnInv /\ EvidenceInv)
<1>1. LearnInit => LearnInv /\ EvidenceInv
  BY LearnStart, EvidenceStart
<1>2. LearnInv /\ EvidenceInv /\ [\E r \in Runners : LearnStep(r)]_learnVars => (LearnInv /\ EvidenceInv)'
  BY LearnKeeps, EvidenceKeeps
<1> QED
  BY <1>1, <1>2, PTL DEF LearnSpec

(* The tables of the loop hold what they are for: a task or a review is    *)
(* stored once, confidences keep their bounds, and a strategy is active or *)
(* uncertain (experience.py, reflection.py, learning.py).                  *)
THEOREM LearnTypeCorrect == LearnSpec => []LearnTypeOK
BY LearnInvariant, LearnTyped, PTL

(* A run plans another tool than the first one only when stored runs say   *)
(* so, enough of them and with enough confidence - by the time the run is  *)
(* under way as well as when it was planned (learning.py, planner.py).     *)
THEOREM DetoursOfLearning == LearnSpec => []DetoursAreEarned
BY LearnInvariant, DetoursEarned, PTL

(* A strategy is active only while no evidence known to it conflicts, and  *)
(* all it cites is stored (learning.py, storage.py).                       *)
THEOREM StrategiesAreBacked == LearnSpec => []ActiveIsBacked
BY LearnInvariant, ActiveBacked, PTL

(* Saving a strategy drops evidence only when it overwrites what another   *)
(* runner saved since it was read (learning.py, storage.py).               *)
THEOREM EvidenceStays == LearnSpec => EvidenceIsKept
<1>1. LearnInv /\ [\E r \in Runners : LearnStep(r)]_learnVars =>
        [\A id \in DOMAIN strategies :
           \/ Remembers(id)
           \/ \E r \in Runners : \E i \in work[r].now :
                At(r, "merge") /\ StrategyId(i) = id /\ work[r].read # strategies[id]]_learnVars
  BY EvidenceKept
<1> QED
  BY <1>1, LearnInvariant, PTL DEF LearnSpec, EvidenceIsKept
=============================================================================
