--------------------------- MODULE ApprovalProofs ---------------------------
(***************************************************************************)
(* Proofs about ApprovalGate, for any actions, requests, deciders, number  *)
(* of policy changes and approval life.                                    *)
(***************************************************************************)
EXTENDS ApprovalGate, TLAPS

-----------------------------------------------------------------------------
(* Type correctness *)

LEMMA TypedInit == Init => TypeOK
BY SomeVersion, SomeTtl
   DEF Init, TypeOK, Versions, Effects, Bindings, Unbound, Unseen, NoSnap, Rests

(* The pieces steps are made of.                                           *)
LEMMA TypedGo ==
  ASSUME TypeOK, NEW a \in Actions, NEW p \in Stages \cup Rests, Go(a, p)
  PROVE  /\ pc' \in [Actions -> Stages \cup Rests]
         /\ phase' \in [Actions -> {"rules", "version", "decide"}]
         /\ seen' \in [Actions -> [effect : Effects, at : 0..MaxVersion, version : 0..MaxVersion]]
<1>1. Unseen \in [effect : Effects, at : 0..MaxVersion, version : 0..MaxVersion]
  BY SomeVersion DEF Unseen, Effects
<1> QED
  BY <1>1 DEF TypeOK, Go

LEMMA TypedReading ==
  ASSUME TypeOK, NEW q \in Requests \cup {NoRequest}
  PROVE  AfterReading(q) \in [Requests -> Decided \cup {"NONE", "PENDING", "EXPIRED"}]
BY DEF TypeOK, AfterReading

LEMMA TypedIssue ==
  ASSUME TypeOK, NEW a \in Actions, NEW q \in Requests, Deciding(a, "preflight")
         \/ Deciding(a, "authorize"), seen[a].version \in Versions, Issue(q, a)
  PROVE  /\ status' \in [Requests -> Decided \cup {"NONE", "PENDING", "EXPIRED"}]
         /\ bound' \in [Requests -> Bindings]
         /\ left' \in [Requests -> 0..Ttl]
         /\ answers' = answers
<1>1. named[a] \in Requests \cup {NoRequest}
  BY DEF TypeOK
<1>2. AfterReading(named[a]) \in [Requests -> Decided \cup {"NONE", "PENDING", "EXPIRED"}]
  BY <1>1, TypedReading
<1>3. [action |-> a, revision |-> revision[a], version |-> seen[a].version] \in Bindings
  BY DEF TypeOK, Bindings
<1> QED
  BY <1>2, <1>3, SomeTtl DEF Issue, TypeOK

(* A finished evaluation read a real version.                              *)
ReadInv == \A a \in Actions :
             pc[a] \in Stages /\ phase[a] = "decide" => seen[a].version \in Versions

Typed == TypeOK /\ ReadInv

LEMMA TypedEnvironment ==
  ASSUME Typed,
         \/ ChangePolicy
         \/ \E a \in Actions : RuleLapses(a)
         \/ \E q \in Requests : TimePasses(q) \/ View(q)
         \/ \E d \in Deciders : Answer(d) \/ \E q \in Requests : Look(d, q)
  PROVE  Typed'
<1> USE DEF Typed, TypeOK, ReadInv, actionVars, requestVars, policyVars
<1>1. CASE ChangePolicy
  BY <1>1, SomeVersion DEF ChangePolicy, Versions
<1>2. CASE \E a \in Actions : RuleLapses(a)
  BY <1>2 DEF RuleLapses
<1>3. CASE \E q \in Requests : TimePasses(q)
  BY <1>3, SomeTtl DEF TimePasses
<1>4. CASE \E q \in Requests : View(q)
  BY <1>4 DEF View
<1>5. CASE \E d \in Deciders : Answer(d)
  <2>1. PICK d \in Deciders : Answer(d)
    BY <1>5
  <2> DEFINE q == holding[d]
  <2>2. q \in Requests
    BY <2>1 DEF Answer
  <2>f. /\ holding' = [holding EXCEPT ![d] = NoRequest]
        /\ UNCHANGED <<policyVars, bound, left, actionVars>>
    BY <2>1 DEF Answer
  <2>h. holding' \in [Deciders -> Requests \cup {NoRequest}]
    BY <2>1, <2>f
  <2>3. CASE status[q] = "PENDING"
    <3>1. PICK verdict \in Decided :
             /\ status' = [status EXCEPT ![q] = verdict]
             /\ answers' = [answers EXCEPT ![q] = answers[q] \cup {verdict}]
      BY <2>1, <2>3 DEF Answer
    <3>2. status' \in [Requests -> Decided \cup {"NONE", "PENDING", "EXPIRED"}]
      BY <2>2, <3>1
    <3>3. answers' \in [Requests -> SUBSET (Decided \cup {"EXPIRED"})]
      BY <2>2, <3>1
    <3> QED
      BY <2>f, <2>h, <3>2, <3>3
  <2>4. CASE status[q] # "PENDING"
    <3>1. UNCHANGED <<status, answers>>
      BY <2>1, <2>4 DEF Answer
    <3> QED
      BY <2>f, <2>h, <3>1
  <2> QED
    BY <2>3, <2>4
<1>6. CASE \E d \in Deciders : \E q \in Requests : Look(d, q)
  BY <1>6 DEF Look
<1> QED
  BY <1>1, <1>2, <1>3, <1>4, <1>5, <1>6

LEMMA WithVersion ==
  ASSUME NEW s \in [effect : Effects, at : 0..MaxVersion, version : 0..MaxVersion],
         NEW v \in 0..MaxVersion
  PROVE  [s EXCEPT !.version = v]
            \in [effect : Effects, at : 0..MaxVersion, version : 0..MaxVersion]
OBVIOUS

LEMMA TypedEvaluate ==
  ASSUME Typed, NEW a \in Actions, Evaluate(a)
  PROVE  Typed'
<1> USE DEF Typed, TypeOK, ReadInv, requestVars, policyVars
<1>1. CASE ReadRules(a)
  <2>1. [effect |-> effect[a], at |-> version, version |-> 0]
          \in [effect : Effects, at : 0..MaxVersion, version : 0..MaxVersion]
    BY SomeVersion DEF Versions
  <2> QED
    BY <1>1, <2>1 DEF ReadRules
<1>2. CASE ReadVersion(a)
  <2>1. [seen[a] EXCEPT !.version = version]
          \in [effect : Effects, at : 0..MaxVersion, version : 0..MaxVersion]
    <3>1. version \in 0..MaxVersion
      BY SomeVersion DEF Versions
    <3>2. seen[a] \in [effect : Effects, at : 0..MaxVersion, version : 0..MaxVersion]
      OBVIOUS
    <3> QED
      BY <3>1, <3>2, WithVersion
  <2>2. seen' = [seen EXCEPT ![a] = [seen[a] EXCEPT !.version = version]]
    BY <1>2 DEF ReadVersion
  <2>3. seen' \in [Actions -> [effect : Effects, at : 0..MaxVersion, version : 0..MaxVersion]]
    BY <2>1, <2>2
  <2>4. seen'[a].version = version /\ \A b \in Actions : b # a => seen'[b] = seen[b]
    BY <2>2
  <2> QED
    BY <1>2, <2>3, <2>4 DEF ReadVersion
<1> QED
  BY <1>1, <1>2 DEF Evaluate

(* A step of a run that moves on by Go and leaves the policy alone.        *)
LEMMA TypedMove ==
  ASSUME Typed, NEW a \in Actions, NEW p \in Stages \cup Rests, Go(a, p),
         UNCHANGED policyVars, UNCHANGED holding,
         status' \in [Requests -> Decided \cup {"NONE", "PENDING", "EXPIRED"}],
         bound' \in [Requests -> Bindings],
         left' \in [Requests -> 0..Ttl],
         answers' = answers,
         revision' \in [Actions -> Revisions],
         named' \in [Actions -> Requests \cup {NoRequest}],
         snap' \in [Actions -> [version : 0..MaxVersion, approval : Requests \cup {NoRequest}]],
         ok' \in [Actions -> BOOLEAN],
         ran' \in [Actions -> SUBSET Versions]
  PROVE  Typed'
<1>1. TypeOK'
  BY TypedGo DEF Typed, TypeOK, policyVars
<1>2. ReadInv'
  BY DEF Typed, TypeOK, ReadInv, Go
<1> QED
  BY <1>1, <1>2 DEF Typed

LEMMA TypedRunner ==
  ASSUME Typed, NEW a \in Actions, Runner(a)
  PROVE  Typed'
<1> USE DEF requestVars
<1>t. TypeOK
  BY DEF Typed
<1>n. NoSnap \in [version : 0..MaxVersion, approval : Requests \cup {NoRequest}]
  BY SomeVersion DEF NoSnap
<1>e. Deciding(a, "preflight") \/ Deciding(a, "authorize") => seen[a].version \in Versions
  BY DEF Typed, ReadInv, Deciding, Stages
<1>1. CASE Submit(a)
  <2>1. PICK q \in Issued \cup {named[a]} : named' = [named EXCEPT ![a] = q]
    BY <1>1 DEF Submit
  <2> QED
    BY <1>1, <1>t, <2>1, TypedMove DEF Submit, TypeOK, Stages, Issued
<1>2. CASE Execute(a)
  BY <1>2, <1>t, TypedMove DEF Execute, TypeOK, Stages
<1>3. CASE Retry(a)
  BY <1>3, <1>t, TypedMove DEF Retry, TypeOK, Stages
<1>4. CASE Evaluate(a)
  BY <1>4, TypedEvaluate
<1>5. CASE PreflightBlocks(a)
  BY <1>5, <1>t, TypedMove DEF PreflightBlocks, TypeOK, Rests
<1>6. CASE PreflightAllows(a)
  BY <1>6, <1>t, TypedMove DEF PreflightAllows, TypeOK, Rests
<1>7. CASE PreflightRaises(a)
  BY <1>7, <1>t, TypedMove DEF PreflightRaises, TypeOK, Rests
<1>8. CASE KeepWaiting(a)
  BY <1>8, <1>t, TypedMove DEF KeepWaiting, TypeOK, Rests
<1>9. CASE AskAnew(a)
  <2>1. PICK q \in Requests : Issue(q, a) /\ named' = [named EXCEPT ![a] = q]
    BY <1>9 DEF AskAnew
  <2>2. /\ status' \in [Requests -> Decided \cup {"NONE", "PENDING", "EXPIRED"}]
        /\ bound' \in [Requests -> Bindings] /\ left' \in [Requests -> 0..Ttl]
        /\ answers' = answers
    BY <1>9, <1>t, <1>e, <2>1, TypedIssue DEF AskAnew
  <2> QED
    BY <1>9, <1>t, <2>1, <2>2, TypedMove DEF AskAnew, TypeOK, Rests
<1>10. CASE AuthorizeGrants(a)
  <2>1. [version |-> seen[a].version, approval |-> IF Requires(a) THEN named[a] ELSE NoRequest]
          \in [version : 0..MaxVersion, approval : Requests \cup {NoRequest}]
    BY <1>t DEF TypeOK
  <2> QED
    BY <1>10, <1>t, <2>1, TypedMove DEF AuthorizeGrants, TypeOK, Stages
<1>11. CASE AuthorizeRefuses(a)
  <2>1. /\ status' \in [Requests -> Decided \cup {"NONE", "PENDING", "EXPIRED"}]
        /\ bound' \in [Requests -> Bindings] /\ left' \in [Requests -> 0..Ttl]
        /\ answers' = answers
    <3>1. CASE UNCHANGED requestVars
      BY <1>t, <3>1 DEF TypeOK
    <3>2. CASE \E q \in Requests : Issue(q, a)
      BY <1>11, <1>t, <1>e, <3>2, TypedIssue DEF AuthorizeRefuses
    <3>3. CASE status' = AfterReading(named[a]) /\ UNCHANGED <<bound, left, answers>>
      BY <1>t, <3>3, TypedReading DEF TypeOK
    <3> QED
      BY <1>11, <3>1, <3>2, <3>3 DEF AuthorizeRefuses
  <2> QED
    BY <1>11, <1>t, <2>1, TypedMove DEF AuthorizeRefuses, TypeOK, Rests
<1>12. CASE AuthorizeRaises(a)
  BY <1>12, <1>t, TypedMove DEF AuthorizeRaises, TypeOK, Rests
<1>13. CASE Begin(a)
  BY <1>13, <1>t, TypedMove DEF Begin, TypeOK, Rests
<1>14. CASE Invoke(a)
  BY <1>14, <1>t, TypedMove DEF Invoke, TypeOK, Rests
<1>15. CASE LeaseLost(a)
  BY <1>15, <1>t, <1>n, TypedMove DEF LeaseLost, TypeOK, Rests
<1>16. CASE Return(a)
  <2>1. ok' \in [Actions -> BOOLEAN]
    BY <1>16, <1>t DEF Return, TypeOK
  <2>2. ran' \in [Actions -> SUBSET Versions]
    BY <1>16, <1>t DEF Return, TypeOK
  <2>3. Go(a, "receipt") /\ UNCHANGED <<policyVars, requestVars, holding, revision, named, snap>>
    BY <1>16 DEF Return
  <2> QED
    BY <1>t, <2>1, <2>2, <2>3, TypedMove DEF TypeOK, Stages
<1>17. CASE Receipt(a)
  BY <1>17, <1>t, TypedMove DEF Receipt, TypeOK, Stages, Rests
<1>18. CASE RecordSuccess(a)
  BY <1>18, <1>t, TypedMove DEF RecordSuccess, TypeOK, Rests
<1>19. CASE RecordFailure(a)
  BY <1>19, <1>t, <1>n, TypedMove DEF RecordFailure, TypeOK, Rests
<1> QED
  BY <1>1, <1>2, <1>3, <1>4, <1>5, <1>6, <1>7, <1>8, <1>9, <1>10, <1>11, <1>12,
     <1>13, <1>14, <1>15, <1>16, <1>17, <1>18, <1>19
     DEF Runner, Preflight, Authorize, Boundary

LEMMA TypedStep == Typed /\ [Next]_vars => Typed'
<1> SUFFICES ASSUME Typed, [Next]_vars PROVE Typed'
  OBVIOUS
<1>1. CASE UNCHANGED vars
  BY <1>1 DEF Typed, TypeOK, ReadInv, vars, policyVars, requestVars, actionVars
<1>2. CASE \E a \in Actions : Runner(a)
  BY <1>2, TypedRunner
<1>3. CASE \/ ChangePolicy
           \/ \E a \in Actions : RuleLapses(a)
           \/ \E q \in Requests : TimePasses(q) \/ View(q)
           \/ \E d \in Deciders : Answer(d) \/ \E q \in Requests : Look(d, q)
  BY <1>3, TypedEnvironment
<1> QED
  BY <1>1, <1>2, <1>3 DEF Next

LEMMA AlwaysTyped == Spec => []Typed
<1>1. Init => Typed
  BY TypedInit DEF Typed, ReadInv, Init
<1> QED
  BY <1>1, TypedStep, PTL DEF Spec

(* Every variable keeps its type, for any instance of the gate.            *)
THEOREM GateTypeCorrect == Spec => []TypeOK
<1>1. Typed => TypeOK
  BY DEF Typed
<1> QED
  BY <1>1, AlwaysTyped, PTL

-----------------------------------------------------------------------------
(* What steps leave alone *)

(* A step of one action changes neither the policy nor another action.     *)
LEMMA OthersKept ==
  ASSUME Typed, NEW a \in Actions, Runner(a)
  PROVE  /\ version' = version
         /\ \A b \in Actions \ {a} :
              /\ pc'[b] = pc[b] /\ phase'[b] = phase[b] /\ seen'[b] = seen[b]
              /\ snap'[b] = snap[b] /\ ran'[b] = ran[b] /\ named'[b] = named[b]
              /\ revision'[b] = revision[b]
<1> USE DEF Typed, TypeOK, policyVars, requestVars, Go
<1>1. CASE Submit(a)
  BY <1>1 DEF Submit
<1>2. CASE Execute(a) \/ Retry(a)
  BY <1>2 DEF Execute, Retry
<1>3. CASE Evaluate(a)
  BY <1>3 DEF Evaluate, ReadRules, ReadVersion
<1>4. CASE Preflight(a)
  BY <1>4 DEF Preflight, PreflightBlocks, PreflightAllows, PreflightRaises, KeepWaiting,
              AskAnew
<1>5. CASE Authorize(a)
  BY <1>5 DEF Authorize, AuthorizeGrants, AuthorizeRefuses, AuthorizeRaises
<1>6. CASE Boundary(a)
  BY <1>6 DEF Boundary, Begin, Invoke, LeaseLost, Return, Receipt, RecordSuccess,
              RecordFailure
<1> QED
  BY <1>1, <1>2, <1>3, <1>4, <1>5, <1>6 DEF Runner

(* What no step does to a request: an answered one is never answered again,*)
(* and what a request is bound to is settled when it is issued.            *)
RequestStep(q) ==
  /\ status[q] \notin {"NONE", "PENDING"} =>
        status'[q] = status[q] /\ answers'[q] = answers[q]
  /\ status[q] # "NONE" => status'[q] # "NONE" /\ bound'[q] = bound[q]
  /\ status'[q] \in {"NONE", "PENDING"} => answers'[q] = answers[q]
  /\ status[q] = "NONE" => status'[q] \in {"NONE", "PENDING"}
  /\ status[q] = "PENDING" =>
        \/ status'[q] \in {"PENDING", "EXPIRED"} /\ answers'[q] = answers[q]
        \/ answers'[q] = answers[q] \cup {status'[q]}

LEMMA IssueKeeps ==
  ASSUME Typed, NEW a \in Actions, NEW r \in Requests, Issue(r, a), NEW q \in Requests
  PROVE  RequestStep(q)
BY DEF Typed, TypeOK, Issue, AfterReading, RequestStep

LEMMA RunnerKeepsRequests ==
  ASSUME Typed, NEW a \in Actions, Runner(a), NEW q \in Requests
  PROVE  RequestStep(q)
<1> USE DEF Typed, TypeOK, requestVars
<1>1. CASE UNCHANGED requestVars
  BY <1>1 DEF RequestStep
<1>2. CASE AskAnew(a)
  BY <1>2, IssueKeeps DEF AskAnew
<1>3. CASE AuthorizeRefuses(a)
  <2>1. CASE \E r \in Requests : Issue(r, a)
    BY <2>1, IssueKeeps
  <2>2. CASE status' = AfterReading(named[a]) /\ UNCHANGED <<bound, left, answers>>
    BY <2>2 DEF AfterReading, RequestStep
  <2> QED
    BY <1>1, <1>3, <2>1, <2>2 DEF AuthorizeRefuses
<1>4. ASSUME ~AskAnew(a), ~AuthorizeRefuses(a) PROVE UNCHANGED requestVars
  BY <1>4
     DEF Runner, Submit, Execute, Retry, Evaluate, ReadRules, ReadVersion, Preflight,
         PreflightBlocks, PreflightAllows, PreflightRaises, KeepWaiting, Authorize,
         AuthorizeGrants, AuthorizeRaises, Boundary, Begin, Invoke, LeaseLost, Return,
         Receipt, RecordSuccess, RecordFailure
<1> QED
  BY <1>1, <1>2, <1>3, <1>4

LEMMA EnvironmentKeepsRequests ==
  ASSUME Typed, NEW q \in Requests,
         \/ ChangePolicy
         \/ \E a \in Actions : RuleLapses(a)
         \/ \E r \in Requests : TimePasses(r) \/ View(r)
         \/ \E d \in Deciders : Answer(d) \/ \E r \in Requests : Look(d, r)
  PROVE  RequestStep(q)
<1> USE DEF Typed, TypeOK, requestVars, RequestStep
<1>1. CASE ChangePolicy
  BY <1>1 DEF ChangePolicy
<1>2. CASE \E a \in Actions : RuleLapses(a)
  BY <1>2 DEF RuleLapses
<1>3. CASE \E r \in Requests : TimePasses(r) \/ View(r)
  BY <1>3 DEF TimePasses, View
<1>4. CASE \E d \in Deciders : Answer(d)
  BY <1>4 DEF Answer, Decided
<1>5. CASE \E d \in Deciders : \E r \in Requests : Look(d, r)
  BY <1>5 DEF Look
<1> QED
  BY <1>1, <1>2, <1>3, <1>4, <1>5

(* Steps of the environment leave the runs alone.                          *)
LEMMA EnvironmentKeepsActions ==
  ASSUME \/ ChangePolicy
         \/ \E a \in Actions : RuleLapses(a)
         \/ \E r \in Requests : TimePasses(r) \/ View(r)
         \/ \E d \in Deciders : Answer(d) \/ \E r \in Requests : Look(d, r)
  PROVE  UNCHANGED actionVars
BY DEF ChangePolicy, RuleLapses, TimePasses, View, Answer, Look

-----------------------------------------------------------------------------
(* The inductive invariant *)

AllBounded == \A a \in Actions : BoundaryInv(a)

(* A snapshot, the rules and the versions read are natural numbers.        *)
LEMMA Numbers ==
  ASSUME Typed
  PROVE  /\ version \in Nat
         /\ \A a \in Actions : /\ snap[a].version \in Nat
                               /\ seen[a].at \in Nat /\ seen[a].version \in Nat
                               /\ ran[a] \in SUBSET Nat
BY SomeVersion DEF Typed, TypeOK, Versions

LEMMA BoundedEvaluate ==
  ASSUME Typed, AllBounded, NEW a \in Actions, Evaluate(a)
  PROVE  BoundaryInv(a)'
<1>n. /\ version \in Nat /\ snap[a].version \in Nat
      /\ seen[a].at \in Nat /\ ran[a] \in SUBSET Nat
  BY Numbers
<1>i. BoundaryInv(a)
  BY DEF AllBounded
<1>1. CASE ReadRules(a)
  <2>1. /\ seen'[a].at = version /\ phase'[a] = "version"
        /\ pc' = pc /\ snap' = snap /\ ran' = ran /\ version' = version
    BY <1>1 DEF ReadRules, Typed, TypeOK, policyVars
  <2> QED
    BY <1>n, <1>i, <2>1 DEF BoundaryInv, Stages
<1>2. CASE ReadVersion(a)
  <2>1. /\ seen'[a].at = seen[a].at /\ seen'[a].version = version
        /\ phase[a] = "version" /\ phase'[a] = "decide"
        /\ pc[a] \in Stages
        /\ pc' = pc /\ snap' = snap /\ ran' = ran /\ version' = version
    BY <1>2 DEF ReadVersion, Typed, TypeOK, policyVars
  <2> QED
    BY <1>n, <1>i, <2>1 DEF BoundaryInv
<1> QED
  BY <1>1, <1>2 DEF Evaluate

(* Moving on with the evidence as it is.                                   *)
LEMMA BoundedMove ==
  ASSUME Typed, AllBounded, NEW a \in Actions, NEW p, Go(a, p),
         version' = version, snap' = snap, ran' = ran,
         p \in {"running", "receipt", "record"} => pc[a] \in {"running", "receipt", "record"},
         p = "authorize" => pc[a] \in {"ready", "failed"} /\ ran[a] = {}
  PROVE  BoundaryInv(a)'
<1>1. pc'[a] = p /\ phase'[a] = "rules"
  BY DEF Go, Typed, TypeOK
<1> QED
  BY <1>1 DEF AllBounded, BoundaryInv

(* No operation has run where the next thing to do is to authorize one.    *)
NotRunYet == \A a \in Actions : pc[a] \in {"idle", "waiting", "ready", "preflight",
                                        "failed", "begin", "checked"} => ran[a] = {}

LEMMA NotRunRunner ==
  ASSUME Typed, AllBounded, NotRunYet, NEW a \in Actions, Runner(a)
  PROVE  NotRunYet'
<1>1. pc'[a] \in {"idle", "waiting", "ready", "preflight", "failed", "begin", "checked"}
        => ran'[a] = {}
  <2> USE DEF NotRunYet, AllBounded, BoundaryInv, Typed, TypeOK, Go, Deciding
  <2>1. CASE Submit(a) \/ Execute(a) \/ Retry(a)
    BY <2>1 DEF Submit, Execute, Retry
  <2>2. CASE Evaluate(a)
    BY <2>2 DEF Evaluate, ReadRules, ReadVersion
  <2>3. CASE Preflight(a)
    BY <2>3 DEF Preflight, PreflightBlocks, PreflightAllows, PreflightRaises, KeepWaiting,
                AskAnew
  <2>4. CASE Authorize(a)
    BY <2>4 DEF Authorize, AuthorizeGrants, AuthorizeRefuses, AuthorizeRaises
  <2>5. CASE Boundary(a)
    BY <2>5 DEF Boundary, Begin, Invoke, LeaseLost, Return, Receipt, RecordSuccess,
                RecordFailure
  <2> QED
    BY <2>1, <2>2, <2>3, <2>4, <2>5 DEF Runner
<1> QED
  BY <1>1, OthersKept DEF NotRunYet

LEMMA BoundedRunner ==
  ASSUME Typed, AllBounded, NotRunYet, NEW a \in Actions, Runner(a)
  PROVE  AllBounded'
<1>k. version' = version
  BY OthersKept
<1>n. /\ version \in Nat /\ snap[a].version \in Nat /\ seen[a].version \in Nat
      /\ seen[a].at \in Nat /\ ran[a] \in SUBSET Nat
  BY Numbers
<1>i. BoundaryInv(a)
  BY DEF AllBounded
<1>1. BoundaryInv(a)'
  <2>1. CASE Submit(a) \/ Execute(a) \/ Retry(a)
    BY <1>k, <2>1, BoundedMove DEF Submit, Execute, Retry, NotRunYet
  <2>2. CASE Evaluate(a)
    BY <2>2, BoundedEvaluate
  <2>3. CASE Preflight(a)
    BY <1>k, <2>3, BoundedMove
       DEF Preflight, PreflightBlocks, PreflightAllows, PreflightRaises, KeepWaiting, AskAnew
  <2>4. CASE AuthorizeGrants(a)
    <3>1. /\ snap'[a].version = seen[a].version /\ ran' = ran
          /\ pc'[a] = "begin" /\ phase'[a] = "rules"
      BY <2>4 DEF AuthorizeGrants, Go, Typed, TypeOK
    <3>2. seen[a].version <= version /\ ran[a] = {}
      BY <1>i, <1>n, <2>4 DEF AuthorizeGrants, Deciding, BoundaryInv, Stages
    <3> QED
      BY <1>k, <1>n, <3>1, <3>2 DEF BoundaryInv
  <2>5. CASE AuthorizeRefuses(a) \/ AuthorizeRaises(a)
    BY <1>k, <2>5, BoundedMove DEF AuthorizeRefuses, AuthorizeRaises
  <2>6. CASE Begin(a)
    BY <1>k, <2>6, BoundedMove DEF Begin
  <2>7. CASE Invoke(a)
    <3>1. /\ ran'[a] = {version} /\ snap' = snap
          /\ pc'[a] = "running" /\ phase'[a] = "rules"
      BY <2>7 DEF Invoke, Go, Typed, TypeOK
    <3> QED
      BY <1>i, <1>k, <1>n, <3>1 DEF BoundaryInv
  <2>8. CASE LeaseLost(a) \/ RecordFailure(a)
    <3>1. /\ ran'[a] = {} /\ snap'[a].version = 0
          /\ pc'[a] \in {"refused", "failed"} /\ phase'[a] = "rules"
      BY <2>8 DEF LeaseLost, RecordFailure, Go, Typed, TypeOK, NotRunYet, NoSnap
    <3> QED
      BY <1>k, <1>n, <3>1 DEF BoundaryInv
  <2>9. CASE Return(a)
    <3>1. /\ ran'[a] = ran[a] \cup {version} /\ snap' = snap
          /\ pc'[a] = "receipt" /\ phase'[a] = "rules"
      BY <2>9 DEF Return, Go, Typed, TypeOK
    <3> QED
      BY <1>i, <1>k, <1>n, <3>1 DEF BoundaryInv
  <2>10. CASE Receipt(a)
    BY <1>k, <2>10, BoundedMove DEF Receipt, Deciding
  <2>11. CASE RecordSuccess(a)
    BY <1>k, <2>11, BoundedMove DEF RecordSuccess, Deciding
  <2> QED
    BY <2>1, <2>2, <2>3, <2>4, <2>5, <2>6, <2>7, <2>8, <2>9, <2>10, <2>11
       DEF Runner, Authorize, Boundary
<1>2. ASSUME NEW b \in Actions, b # a PROVE BoundaryInv(b)'
  <2>1. /\ pc'[b] = pc[b] /\ phase'[b] = phase[b] /\ seen'[b] = seen[b]
        /\ snap'[b] = snap[b] /\ ran'[b] = ran[b]
    BY <1>2, OthersKept
  <2> QED
    BY <1>k, <2>1 DEF AllBounded, BoundaryInv
<1> QED
  BY <1>1, <1>2 DEF AllBounded

(* A policy change only moves the version up, away from what was read.     *)
LEMMA BoundedEnvironment ==
  ASSUME Typed, AllBounded, UNCHANGED actionVars, version' \in {version, version + 1}
  PROVE  AllBounded'
<1> SUFFICES ASSUME NEW a \in Actions PROVE BoundaryInv(a)'
  BY DEF AllBounded
<1>1. /\ version \in Nat /\ snap[a].version \in Nat /\ seen[a].version \in Nat
      /\ seen[a].at \in Nat /\ ran[a] \in SUBSET Nat
  BY Numbers
<1>2. BoundaryInv(a)
  BY DEF AllBounded
<1> QED
  BY <1>1, <1>2 DEF BoundaryInv, actionVars

AllRequests == \A q \in Requests : RequestInv(q)

GateIInv == Typed /\ AllBounded /\ NotRunYet /\ AllRequests

LEMMA VersionSteps ==
  ASSUME \/ ChangePolicy
         \/ \E a \in Actions : RuleLapses(a)
         \/ \E r \in Requests : TimePasses(r) \/ View(r)
         \/ \E d \in Deciders : Answer(d) \/ \E r \in Requests : Look(d, r)
  PROVE  version' \in {version, version + 1}
BY DEF ChangePolicy, RuleLapses, TimePasses, View, Answer, Look, policyVars

LEMMA RequestsStep ==
  ASSUME Typed, AllRequests, [Next]_vars
  PROVE  AllRequests' /\ \A q \in Requests : RequestStep(q)
<1>1. \A q \in Requests : RequestStep(q)
  <2>1. CASE UNCHANGED vars
    BY <2>1 DEF vars, requestVars, RequestStep
  <2> QED
    BY <2>1, RunnerKeepsRequests, EnvironmentKeepsRequests DEF Next
<1>2. ASSUME NEW q \in Requests PROVE RequestInv(q)'
  BY <1>1, <1>2 DEF AllRequests, RequestInv, RequestStep
<1> QED
  BY <1>1, <1>2 DEF AllRequests

LEMMA GateStep == GateIInv /\ [Next]_vars => GateIInv'
<1> SUFFICES ASSUME GateIInv, [Next]_vars PROVE GateIInv'
  OBVIOUS
<1> USE DEF GateIInv
<1>1. Typed' /\ AllRequests'
  BY TypedStep, RequestsStep
<1>2. CASE UNCHANGED vars
  <2>1. version' = version /\ UNCHANGED actionVars
    BY <1>2 DEF vars, policyVars
  <2> QED
    BY <1>1, <2>1, BoundedEnvironment DEF NotRunYet, actionVars
<1>3. CASE \E a \in Actions : Runner(a)
  BY <1>1, <1>3, BoundedRunner, NotRunRunner
<1>4. CASE \/ ChangePolicy
           \/ \E a \in Actions : RuleLapses(a)
           \/ \E q \in Requests : TimePasses(q) \/ View(q)
           \/ \E d \in Deciders : Answer(d) \/ \E q \in Requests : Look(d, q)
  BY <1>1, <1>4, VersionSteps, EnvironmentKeepsActions, BoundedEnvironment
     DEF NotRunYet, actionVars
<1> QED
  BY <1>2, <1>3, <1>4 DEF Next

LEMMA AlwaysGateIInv == Spec => []GateIInv
<1>1. Init => GateIInv
  <2> SUFFICES ASSUME Init PROVE GateIInv
    OBVIOUS
  <2>1. Typed
    BY TypedInit DEF Typed, ReadInv, Init
  <2>2. AllBounded /\ NotRunYet /\ AllRequests
    BY DEF Init, AllBounded, BoundaryInv, NotRunYet, AllRequests, RequestInv, NoSnap, Stages
  <2> QED
    BY <2>1, <2>2 DEF GateIInv
<1> QED
  BY <1>1, GateStep, PTL DEF Spec

-----------------------------------------------------------------------------
(* The safety properties *)

(* An answer somebody was told of is never replaced.                       *)
THEOREM AnswersStand == Spec => []AnswersAreKept
<1>1. Init => AnswersAreKept
  BY DEF Init, AnswersAreKept
<1>2. GateIInv /\ AnswersAreKept /\ [Next]_vars => AnswersAreKept'
  <2> SUFFICES ASSUME GateIInv, AnswersAreKept, [Next]_vars, NEW q \in Requests
               PROVE  answers'[q] \subseteq {status'[q]}
    BY DEF AnswersAreKept
  <2>1. RequestStep(q) /\ RequestInv(q) /\ RequestInv(q)'
    BY RequestsStep DEF GateIInv, AllRequests
  <2>2. answers[q] \subseteq {status[q]}
    BY DEF AnswersAreKept
  <2> QED
    BY <2>1, <2>2 DEF RequestStep, RequestInv
<1> QED
  BY <1>1, <1>2, AlwaysGateIInv, PTL DEF Spec

(* Success is recorded for operations of one policy version only.          *)
THEOREM OnePolicyPerSuccess == Spec => []RecordedUnderOnePolicy
<1>1. Init => RecordedUnderOnePolicy
  BY DEF Init, RecordedUnderOnePolicy
<1>2. GateIInv /\ RecordedUnderOnePolicy /\ [Next]_vars => RecordedUnderOnePolicy'
  <2> SUFFICES ASSUME GateIInv, RecordedUnderOnePolicy, [Next]_vars,
                      NEW a \in Actions, pc'[a] = "done"
               PROVE  ran'[a] = {snap'[a].version}
    BY DEF RecordedUnderOnePolicy
  <2>k. ASSUME pc[a] = "done", ran'[a] = ran[a], snap'[a] = snap[a]
        PROVE  ran'[a] = {snap'[a].version}
    BY <2>k DEF RecordedUnderOnePolicy
  <2>1. CASE UNCHANGED actionVars
    BY <2>1, <2>k DEF actionVars
  <2>2. CASE Runner(a)
    <3>1. CASE RecordSuccess(a)
      <4>1. /\ ran' = ran /\ snap' = snap /\ Deciding(a, "record")
            /\ seen[a].version = snap[a].version
        BY <2>2, <3>1 DEF RecordSuccess, Go, PendingBoundary, GateIInv, Typed, TypeOK
      <4>2. /\ ran[a] # {}
            /\ \A v \in ran[a] : v \in snap[a].version..version /\ v <= seen[a].version
        BY <4>1 DEF Deciding, GateIInv, AllBounded, BoundaryInv
      <4>3. snap[a].version \in Nat /\ ran[a] \in SUBSET Nat
        BY Numbers DEF GateIInv
      <4>4. \A v \in ran[a] : v = snap[a].version
        BY <4>1, <4>2, <4>3
      <4> QED
        BY <4>1, <4>2, <4>4
    <3>2. CASE Evaluate(a)
      BY <3>2 DEF Evaluate, ReadRules, ReadVersion, Stages
    <3>3. CASE Submit(a) \/ Execute(a) \/ Retry(a)
      BY <3>3 DEF Submit, Execute, Retry, Go, GateIInv, Typed, TypeOK
    <3>4. CASE Preflight(a) \/ Authorize(a)
      BY <3>4 DEF Preflight, PreflightBlocks, PreflightAllows, PreflightRaises, KeepWaiting,
                  AskAnew, Authorize, AuthorizeGrants, AuthorizeRefuses, AuthorizeRaises,
                  Go, GateIInv, Typed, TypeOK
    <3>5. CASE Boundary(a) /\ ~RecordSuccess(a)
      BY <3>5 DEF Boundary, Begin, Invoke, LeaseLost, Return, Receipt, RecordFailure,
                  Go, GateIInv, Typed, TypeOK
    <3> QED
      BY <2>2, <3>1, <3>2, <3>3, <3>4, <3>5 DEF Runner
  <2>3. CASE \E b \in Actions \ {a} : Runner(b)
    BY <2>3, <2>k, OthersKept DEF GateIInv
  <2> QED
    BY <2>1, <2>2, <2>3, EnvironmentKeepsActions DEF Next, vars
<1> QED
  BY <1>1, <1>2, AlwaysGateIInv, PTL DEF Spec

(* How an action comes to a point where its operation may start.           *)
LEMMA IntoStarted ==
  ASSUME GateIInv, [Next]_vars, NEW a \in Actions, pc'[a] \in Started
  PROVE  \/ /\ pc[a] \in Started
            /\ seen'[a] = seen[a] /\ snap'[a] = snap[a] /\ revision'[a] = revision[a]
         \/ /\ Deciding(a, "begin") /\ PendingBoundary(a)
            /\ seen'[a] = seen[a] /\ snap'[a] = snap[a] /\ revision'[a] = revision[a]
            /\ UNCHANGED requestVars
<1>t. /\ pc \in [Actions -> Stages \cup Rests]
      /\ seen \in [Actions -> [effect : Effects, at : 0..MaxVersion, version : 0..MaxVersion]]
  BY DEF GateIInv, Typed, TypeOK
<1>1. CASE UNCHANGED actionVars
  BY <1>1 DEF actionVars
<1>2. CASE Runner(a)
  <2>1. CASE Begin(a)
    BY <1>t, <2>1 DEF Begin, Go, Started
  <2>2. CASE Invoke(a)
    BY <1>t, <2>2 DEF Invoke, Go, Started
  <2>3. CASE Evaluate(a)
    BY <2>3 DEF Evaluate, ReadRules, ReadVersion, Stages, Started
  <2>4. CASE Submit(a) \/ Execute(a) \/ Retry(a)
    BY <1>t, <2>4 DEF Submit, Execute, Retry, Go, Started
  <2>5. CASE Preflight(a) \/ Authorize(a)
    BY <1>t, <2>5
       DEF Preflight, PreflightBlocks, PreflightAllows, PreflightRaises, KeepWaiting, AskAnew,
           Authorize, AuthorizeGrants, AuthorizeRefuses, AuthorizeRaises, Go, Started
  <2>6. CASE Boundary(a) /\ ~Begin(a) /\ ~Invoke(a)
    BY <1>t, <2>6 DEF Boundary, LeaseLost, Return, Receipt, RecordSuccess, RecordFailure,
                      Go, Started
  <2> QED
    BY <1>2, <2>1, <2>2, <2>3, <2>4, <2>5, <2>6 DEF Runner
<1>3. CASE \E b \in Actions \ {a} : Runner(b)
  <2>1. /\ pc'[a] = pc[a] /\ seen'[a] = seen[a] /\ snap'[a] = snap[a]
        /\ revision'[a] = revision[a]
    BY <1>3, OthersKept DEF GateIInv
  <2> QED
    BY <2>1
<1> QED
  BY <1>1, <1>2, <1>3, EnvironmentKeepsActions DEF Next, vars

(* The rules of the boundary are those of the authorized version.          *)
LEMMA BoundaryRules ==
  ASSUME GateIInv, NEW a \in Actions, Deciding(a, "begin"), PendingBoundary(a)
  PROVE  seen[a].at = snap[a].version /\ seen[a].effect # "DENY"
<1>1. /\ seen[a].version = snap[a].version /\ seen[a].effect # "DENY"
      /\ snap[a].version <= seen[a].at /\ seen[a].version \in seen[a].at..version
  BY DEF GateIInv, AllBounded, BoundaryInv, Deciding, PendingBoundary, Stages
<1>2. seen[a].at \in Nat /\ seen[a].version \in Nat /\ snap[a].version \in Nat
      /\ version \in Nat
  BY Numbers DEF GateIInv
<1> QED
  BY <1>1, <1>2

(* An operation starts on the rules of the version it was authorized under,*)
(* however often and whenever the owner changes them.                      *)
THEOREM CurrentRules == Spec => []StartsOnCurrentRules
<1>1. Init => StartsOnCurrentRules
  BY DEF Init, StartsOnCurrentRules, Started
<1>2. GateIInv /\ StartsOnCurrentRules /\ [Next]_vars => StartsOnCurrentRules'
  <2> SUFFICES ASSUME GateIInv, StartsOnCurrentRules, [Next]_vars,
                      NEW a \in Actions, pc'[a] \in Started
               PROVE  seen'[a].at = snap'[a].version /\ seen'[a].effect # "DENY"
    BY DEF StartsOnCurrentRules, Started
  <2>1. CASE pc[a] \in Started /\ seen'[a] = seen[a] /\ snap'[a] = snap[a]
    BY <2>1 DEF StartsOnCurrentRules
  <2>2. CASE /\ Deciding(a, "begin") /\ PendingBoundary(a)
             /\ seen'[a] = seen[a] /\ snap'[a] = snap[a]
    BY <2>2, BoundaryRules
  <2> QED
    BY <2>1, <2>2, IntoStarted
<1> QED
  BY <1>1, <1>2, AlwaysGateIInv, PTL DEF Spec

(* When the rules ask for approval, the operation that starts is the one   *)
(* that was approved, and the approval was given under those rules.        *)
THEOREM OnlyAsApproved == Spec => []StartsAsApproved
<1>1. Init => StartsAsApproved
  BY DEF Init, StartsAsApproved, Started
<1>2. GateIInv /\ StartsAsApproved /\ [Next]_vars => StartsAsApproved'
  <2> SUFFICES ASSUME GateIInv, StartsAsApproved, [Next]_vars, NEW a \in Actions,
                      pc'[a] \in Started, seen'[a].effect = "REQUIRE_APPROVAL"
               PROVE  LET q == snap'[a].approval
                      IN  /\ q \in Requests
                          /\ status'[q] = "APPROVED" /\ "APPROVED" \in answers'[q]
                          /\ bound'[q] = [action |-> a, revision |-> revision'[a],
                                          version |-> seen'[a].at]
    BY DEF StartsAsApproved, Requires, Started
  <2> DEFINE q == snap[a].approval
  <2>1. CASE /\ pc[a] \in Started
             /\ seen'[a] = seen[a] /\ snap'[a] = snap[a] /\ revision'[a] = revision[a]
    <3>1. /\ q \in Requests
          /\ status[q] = "APPROVED" /\ "APPROVED" \in answers[q]
          /\ bound[q] = [action |-> a, revision |-> revision[a], version |-> seen[a].at]
      BY <2>1 DEF StartsAsApproved, Requires
    <3>2. RequestStep(q)
      BY <3>1, RequestsStep DEF GateIInv
    <3> QED
      BY <2>1, <3>1, <3>2 DEF RequestStep
  <2>2. CASE /\ Deciding(a, "begin") /\ PendingBoundary(a)
             /\ seen'[a] = seen[a] /\ snap'[a] = snap[a] /\ revision'[a] = revision[a]
             /\ UNCHANGED requestVars
    <3>1. seen[a].at = snap[a].version
      BY <2>2, BoundaryRules
    <3>2. /\ q # NoRequest /\ status[q] = "APPROVED"
          /\ bound[q] = [action |-> a, revision |-> revision[a], version |-> snap[a].version]
      BY <2>2 DEF PendingBoundary, Requires, ValidFor, BoundFor
    <3>3. q \in Requests
      BY <3>2 DEF GateIInv, Typed, TypeOK
    <3>4. "APPROVED" \in answers[q]
      BY <3>2, <3>3 DEF GateIInv, AllRequests, RequestInv
    <3> QED
      BY <2>2, <3>1, <3>2, <3>3, <3>4 DEF requestVars
  <2> QED
    BY <2>1, <2>2, IntoStarted
<1> QED
  BY <1>1, <1>2, AlwaysGateIInv, PTL DEF Spec

(* A waiting action has a request of its own to wait for.                  *)
THEOREM WaitsForItself == Spec => []WaitsForOwnRequest
<1>1. Init => WaitsForOwnRequest
  BY DEF Init, WaitsForOwnRequest
<1>2. GateIInv /\ WaitsForOwnRequest /\ [Next]_vars => WaitsForOwnRequest'
  <2> SUFFICES ASSUME GateIInv, WaitsForOwnRequest, [Next]_vars,
                      NEW a \in Actions, pc'[a] = "waiting"
               PROVE  /\ named'[a] \in Requests /\ status'[named'[a]] # "NONE"
                      /\ bound'[named'[a]].action = a
                      /\ bound'[named'[a]].revision = revision'[a]
    BY DEF WaitsForOwnRequest, Issued
  <2>t. Typed /\ TypeOK
    BY DEF GateIInv, Typed
  <2>k. ASSUME pc[a] = "waiting", named'[a] = named[a], revision'[a] = revision[a]
        PROVE  /\ named'[a] \in Requests /\ status'[named'[a]] # "NONE"
               /\ bound'[named'[a]].action = a
               /\ bound'[named'[a]].revision = revision'[a]
    <3>1. /\ named[a] \in Requests /\ status[named[a]] # "NONE"
          /\ bound[named[a]].action = a /\ bound[named[a]].revision = revision[a]
      BY <2>k DEF WaitsForOwnRequest, Issued
    <3>2. RequestStep(named[a])
      BY <3>1, RequestsStep DEF GateIInv
    <3> QED
      BY <2>k, <3>1, <3>2 DEF RequestStep
  <2>1. CASE UNCHANGED actionVars
    BY <2>1, <2>k DEF actionVars
  <2>2. CASE Runner(a)
    <3>1. CASE KeepWaiting(a)
      <4>1. /\ named[a] \in Requests /\ status[named[a]] = "PENDING"
            /\ bound[named[a]] = [action |-> a, revision |-> revision[a],
                                  version |-> seen[a].version]
        BY <2>t, <3>1 DEF KeepWaiting, StillPending, BoundFor, TypeOK
      <4> QED
        BY <3>1, <4>1 DEF KeepWaiting, requestVars
    <3>2. CASE AskAnew(a)
      <4>1. PICK q \in Requests : Issue(q, a) /\ named' = [named EXCEPT ![a] = q]
        BY <3>2 DEF AskAnew
      <4>2. /\ named'[a] = q /\ status'[q] = "PENDING" /\ revision'[a] = revision[a]
            /\ bound'[q] = [action |-> a, revision |-> revision[a],
                            version |-> seen[a].version]
        BY <2>t, <3>2, <4>1 DEF AskAnew, Issue, AfterReading, TypeOK
      <4> QED
        BY <4>2
    <3>3. CASE Evaluate(a)
      BY <3>3 DEF Evaluate, ReadRules, ReadVersion, Stages
    <3>4. CASE Submit(a) \/ Execute(a) \/ Retry(a)
      BY <2>t, <3>4 DEF Submit, Execute, Retry, Go, TypeOK
    <3>5. CASE PreflightBlocks(a) \/ PreflightAllows(a) \/ PreflightRaises(a) \/ Authorize(a)
      BY <2>t, <3>5 DEF PreflightBlocks, PreflightAllows, PreflightRaises, Authorize,
                        AuthorizeGrants, AuthorizeRefuses, AuthorizeRaises, Go, TypeOK
    <3>6. CASE Boundary(a)
      BY <2>t, <3>6 DEF Boundary, Begin, Invoke, LeaseLost, Return, Receipt, RecordSuccess,
                        RecordFailure, Go, TypeOK
    <3> QED
      BY <2>2, <3>1, <3>2, <3>3, <3>4, <3>5, <3>6 DEF Runner, Preflight
  <2>3. CASE \E b \in Actions \ {a} : Runner(b)
    <3>1. pc'[a] = pc[a] /\ named'[a] = named[a] /\ revision'[a] = revision[a]
      BY <2>3, OthersKept DEF GateIInv
    <3> QED
      BY <2>k, <3>1
  <2> QED
    BY <2>1, <2>2, <2>3, EnvironmentKeepsActions DEF Next, vars
<1> QED
  BY <1>1, <1>2, AlwaysGateIInv, PTL DEF Spec
=============================================================================
