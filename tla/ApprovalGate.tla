---------------------------- MODULE ApprovalGate ----------------------------
(***************************************************************************)
(* The security boundary of one action: the policy is evaluated when a run *)
(* preflights its plan, again when the executor authorizes the step, again *)
(* just before the operation starts, and twice more before its success is  *)
(* recorded.  An evaluation is two reads of the database, the owner's rules*)
(* and then the policy version, and the owner may change the rules at any  *)
(* moment.  Between evaluations people answer approval requests, which are *)
(* bound to the action, its input and the policy version, and which lapse. *)
(*                                                                         *)
(* Abstracted: the rules (the effect they have on each action), risk and   *)
(* capabilities (part of the revision of an action), one plan step per     *)
(* action, audit events (the point reached), clock values (ticks left).    *)
(***************************************************************************)
EXTENDS Naturals

CONSTANTS Actions,      \* plan steps under security control
          Revisions,    \* tool, capabilities and input a step may carry
          Requests,     \* approval ids
          Deciders,     \* processes that answer requests for their owner
          MaxVersion,   \* bound on policy changes
          Ttl,          \* approval_ttl_seconds, in ticks
          NoRequest, NoAction, NoRevision

ASSUME SomeVersion   == MaxVersion \in Nat \ {0}
ASSUME SomeTtl       == Ttl \in Nat \ {0}
ASSUME NullRequest   == NoRequest \notin Requests
ASSUME NullAction    == NoAction \notin Actions
ASSUME SomeRevision  == Revisions # {} /\ NoRevision \notin Revisions

VARIABLES
  version,   \* owner_policy_state.current_version
  effect,    \* what the rules now in force decide for each action
  status,    \* status of a stored approval request; NONE before it is issued
  bound,     \* what the request is bound to
  left,      \* ticks until its expires_at
  answers,   \* history: outcomes that deciders and viewers were told
  holding,   \* request a decider has read as PENDING and is about to answer
  revision,  \* what the action now consists of
  named,     \* approval id the run holds for the action
  pc,        \* stage of the security boundary, or where the action rests
  phase,     \* read or decision the current evaluation performs next
  seen,      \* result of the current evaluation
  snap,      \* AuthorizationEvidenceSnapshot: version and approval id
  ok,        \* the operation returned a success
  ran        \* history: policy versions at the start and end of the operation

policyVars == <<version, effect>>
requestVars == <<status, bound, left, answers>>
actionVars == <<revision, named, pc, phase, seen, snap, ok, ran>>
vars == <<policyVars, requestVars, holding, actionVars>>

Versions == 1..MaxVersion
Effects == {"ALLOW", "REQUIRE_APPROVAL", "DENY"}
Decided == {"APPROVED", "DENIED", "CANCELLED"}
Stages == {"preflight", "authorize", "begin", "receipt", "record"}
Rests == {"idle", "waiting", "ready", "checked", "running",
          "blocked", "refused", "failed", "raised", "done"}
Started == {"checked", "running"}

Issued == {q \in Requests : status[q] # "NONE"}

Unbound == [action |-> NoAction, revision |-> NoRevision, version |-> 0]
Unseen == [effect |-> "DENY", at |-> 0, version |-> 0]
NoSnap == [version |-> 0, approval |-> NoRequest]

Init ==
  /\ version = 1
  /\ effect \in [Actions -> Effects]
  /\ status = [q \in Requests |-> "NONE"]
  /\ bound = [q \in Requests |-> Unbound]
  /\ left = [q \in Requests |-> 0]
  /\ answers = [q \in Requests |-> {}]
  /\ holding = [d \in Deciders |-> NoRequest]
  /\ revision \in [Actions -> Revisions]
  /\ named = [a \in Actions |-> NoRequest]
  /\ pc = [a \in Actions |-> "idle"]
  /\ phase = [a \in Actions |-> "rules"]
  /\ seen = [a \in Actions |-> Unseen]
  /\ snap = [a \in Actions |-> NoSnap]
  /\ ok = [a \in Actions |-> FALSE]
  /\ ran = [a \in Actions |-> {}]

-----------------------------------------------------------------------------
(* The owner, the clock and the deciders *)

(* A rule is created or disabled: one transaction, with a new version.     *)
ChangePolicy ==
  /\ version < MaxVersion
  /\ version' = version + 1
  /\ effect' \in [Actions -> Effects]
  /\ UNCHANGED <<requestVars, holding, actionVars>>

(* A rule reaches its own expires_at: no transaction, no new version.      *)
RuleLapses(a) ==
  /\ \E e \in Effects \ {effect[a]} : effect' = [effect EXCEPT ![a] = e]
  /\ UNCHANGED <<version, requestVars, holding, actionVars>>

TimePasses(q) ==
  /\ status[q] \in {"PENDING", "APPROVED"} /\ left[q] > 0
  /\ left' = [left EXCEPT ![q] = left[q] - 1]
  /\ UNCHANGED <<policyVars, status, bound, answers, holding, actionVars>>

(* ApprovalGate.get from a listing: _expire_if_needed persists EXPIRED for *)
(* a lapsed PENDING request; for a lapsed APPROVED one the store refuses   *)
(* the transition, the caller gets the error and nothing changes.          *)
View(q) ==
  /\ status[q] = "PENDING" /\ left[q] = 0
  /\ status' = [status EXCEPT ![q] = "EXPIRED"]
  /\ answers' = [answers EXCEPT ![q] = @ \cup {"EXPIRED"}]
  /\ UNCHANGED <<policyVars, bound, left, holding, actionVars>>

(* First half of approve, deny and cancel: the request is read.            *)
Look(d, q) ==
  /\ holding[d] = NoRequest
  /\ status[q] = "PENDING" /\ left[q] > 0
  /\ holding' = [holding EXCEPT ![d] = q]
  /\ UNCHANGED <<policyVars, requestVars, actionVars>>

(* Mutant of Answer: the row is replaced whatever it holds by now.         *)
AnswerBlindly(d) ==
  /\ holding[d] # NoRequest
  /\ LET q == holding[d]
     IN  \E verdict \in Decided :
           /\ status' = [status EXCEPT ![q] = verdict]
           /\ answers' = [answers EXCEPT ![q] = @ \cup {verdict}]
  /\ holding' = [holding EXCEPT ![d] = NoRequest]
  /\ UNCHANGED <<policyVars, bound, left, actionVars>>

(* Second half: _save_approval_transition replaces the row if it is still  *)
(* PENDING, and raises otherwise.                                          *)
Answer(d) ==
  /\ holding[d] # NoRequest
  /\ LET q == holding[d]
     IN  IF status[q] = "PENDING"
         THEN \E verdict \in Decided :
                /\ status' = [status EXCEPT ![q] = verdict]
                /\ answers' = [answers EXCEPT ![q] = @ \cup {verdict}]
         ELSE UNCHANGED <<status, answers>>
  /\ holding' = [holding EXCEPT ![d] = NoRequest]
  /\ UNCHANGED <<policyVars, bound, left, actionVars>>

-----------------------------------------------------------------------------
(* PolicyEngine.evaluate and the binding of approvals *)

(* The next stage, or the rest the action comes to.  An evaluation is a    *)
(* local of its caller; the one of the boundary is kept while the operation*)
(* is started, for the properties.                                         *)
Go(a, p) == /\ pc' = [pc EXCEPT ![a] = p]
            /\ phase' = [phase EXCEPT ![a] = "rules"]
            /\ seen' = [seen EXCEPT ![a] = IF p \in Started THEN seen[a] ELSE Unseen]

(* owner_permission_rules: what the active rules decide.                   *)
ReadRules(a) ==
  /\ pc[a] \in Stages /\ phase[a] = "rules"
  /\ seen' = [seen EXCEPT ![a] = [effect |-> effect[a], at |-> version, version |-> 0]]
  /\ phase' = [phase EXCEPT ![a] = "version"]
  /\ UNCHANGED <<policyVars, requestVars, holding, revision, named, pc, snap, ok, ran>>

(* Mutant of ReadVersion: the boundary trusts the version it remembers.    *)
ReadVersionCached(a) ==
  /\ pc[a] \in Stages /\ phase[a] = "version"
  /\ seen' = [seen EXCEPT ![a].version = IF pc[a] = "begin" THEN snap[a].version ELSE version]
  /\ phase' = [phase EXCEPT ![a] = "decide"]
  /\ UNCHANGED <<policyVars, requestVars, holding, revision, named, pc, snap, ok, ran>>

(* _current_policy_version, after the rules were read.                     *)
ReadVersion(a) ==
  /\ pc[a] \in Stages /\ phase[a] = "version"
  /\ seen' = [seen EXCEPT ![a].version = version]
  /\ phase' = [phase EXCEPT ![a] = "decide"]
  /\ UNCHANGED <<policyVars, requestVars, holding, revision, named, pc, snap, ok, ran>>

Deciding(a, stage) == pc[a] = stage /\ phase[a] = "decide"

Requires(a) == seen[a].effect = "REQUIRE_APPROVAL"

(* Mutant of BoundFor: an approval covers whatever the action has become.  *)
BoundForAction(q, a) ==
  /\ seen[a].version = version
  /\ bound[q].action = a /\ bound[q].version = seen[a].version

(* _bound_request, with the version read once more from the provider.      *)
BoundFor(q, a) ==
  /\ seen[a].version = version
  /\ bound[q] = [action |-> a, revision |-> revision[a], version |-> seen[a].version]

ValidFor(q, a) ==
  /\ q # NoRequest
  /\ status[q] = "APPROVED" /\ left[q] > 0
  /\ BoundFor(q, a)

(* Reading a lapsed APPROVED request raises: the store takes EXPIRED from  *)
(* PENDING only.                                                           *)
Unreadable(q) == q # NoRequest /\ status[q] = "APPROVED" /\ left[q] = 0

(* What reading request q leaves in the store.                             *)
AfterReading(q) ==
  IF q # NoRequest /\ status[q] = "PENDING" /\ left[q] = 0
  THEN [status EXCEPT ![q] = "EXPIRED"] ELSE status

(* ApprovalGate.request, after the request the run named was read.         *)
Issue(q, a) ==
  /\ status[q] = "NONE"
  /\ bound' = [bound EXCEPT ![q] =
       [action |-> a, revision |-> revision[a], version |-> seen[a].version]]
  /\ status' = [AfterReading(named[a]) EXCEPT ![q] = "PENDING"]
  /\ left' = [left EXCEPT ![q] = Ttl]
  /\ UNCHANGED answers

-----------------------------------------------------------------------------
(* preflight *)

(* run, or resume_task of an action that waits or was not begun: the caller*)
(* may name any request that exists.                                       *)
Submit(a) ==
  /\ pc[a] \in {"idle", "waiting", "ready"}
  /\ \E q \in Issued \cup {named[a]} : named' = [named EXCEPT ![a] = q]
  /\ Go(a, "preflight")
  /\ UNCHANGED <<policyVars, requestVars, holding, revision, snap, ok, ran>>

PreflightBlocks(a) ==
  /\ Deciding(a, "preflight")
  /\ seen[a].effect = "DENY"
  /\ Go(a, "blocked")
  /\ UNCHANGED <<policyVars, requestVars, holding, revision, named, snap, ok, ran>>

PreflightAllows(a) ==
  /\ Deciding(a, "preflight")
  /\ seen[a].effect = "ALLOW" \/ (Requires(a) /\ ValidFor(named[a], a))
  /\ Go(a, "ready")
  /\ UNCHANGED <<policyVars, requestVars, holding, revision, named, snap, ok, ran>>

PreflightRaises(a) ==
  /\ Deciding(a, "preflight")
  /\ Requires(a) /\ Unreadable(named[a])
  /\ Go(a, "raised")
  /\ UNCHANGED <<policyVars, requestVars, holding, revision, named, snap, ok, ran>>

(* A pending request the run may go on waiting for.                        *)
StillPending(q, a) ==
  q # NoRequest /\ BoundFor(q, a) /\ status[q] = "PENDING" /\ left[q] > 0

KeepWaiting(a) ==
  /\ Deciding(a, "preflight")
  /\ Requires(a) /\ StillPending(named[a], a)
  /\ Go(a, "waiting")
  /\ UNCHANGED <<policyVars, requestVars, holding, revision, named, snap, ok, ran>>

(* Mutant of AskAnew: the run does not keep the id of the new request.     *)
AskAnewForgetting(a) ==
  /\ Deciding(a, "preflight")
  /\ Requires(a)
  /\ ~ValidFor(named[a], a) /\ ~StillPending(named[a], a) /\ ~Unreadable(named[a])
  /\ \E q \in Requests : Issue(q, a)
  /\ Go(a, "waiting")
  /\ UNCHANGED <<policyVars, holding, revision, named, snap, ok, ran>>

AskAnew(a) ==
  /\ Deciding(a, "preflight")
  /\ Requires(a)
  /\ ~ValidFor(named[a], a) /\ ~StillPending(named[a], a) /\ ~Unreadable(named[a])
  /\ \E q \in Requests : Issue(q, a) /\ named' = [named EXCEPT ![a] = q]
  /\ Go(a, "waiting")
  /\ UNCHANGED <<policyVars, holding, revision, snap, ok, ran>>

-----------------------------------------------------------------------------
(* GenericExecutor.execute_step: authorize *)

Execute(a) ==
  /\ pc[a] = "ready"
  /\ Go(a, "authorize")
  /\ UNCHANGED <<policyVars, requestVars, holding, revision, named, snap, ok, ran>>

(* The evidence of the decision is kept for the boundary.                  *)
AuthorizeGrants(a) ==
  /\ Deciding(a, "authorize")
  /\ seen[a].effect = "ALLOW" \/ (Requires(a) /\ ValidFor(named[a], a))
  /\ snap' = [snap EXCEPT ![a] =
       [version |-> seen[a].version, approval |-> IF Requires(a) THEN named[a] ELSE NoRequest]]
  /\ Go(a, "begin")
  /\ UNCHANGED <<policyVars, requestVars, holding, revision, named, ok, ran>>

(* With no approval named a request is issued that the run does not keep.  *)
(* A missing approval ends the step; a denial is diagnosed as an unknown   *)
(* failure, which recovery may retry.                                      *)
AuthorizeRefuses(a) ==
  /\ Deciding(a, "authorize")
  /\ \/ seen[a].effect = "DENY" /\ UNCHANGED requestVars
     \/ /\ Requires(a) /\ named[a] = NoRequest
        /\ \E q \in Requests : Issue(q, a)
     \/ /\ Requires(a) /\ named[a] # NoRequest
        /\ ~ValidFor(named[a], a) /\ ~Unreadable(named[a])
        /\ status' = AfterReading(named[a])
        /\ UNCHANGED <<bound, left, answers>>
  /\ Go(a, IF seen[a].effect = "DENY" THEN "failed" ELSE "refused")
  /\ UNCHANGED <<policyVars, holding, revision, named, snap, ok, ran>>

AuthorizeRaises(a) ==
  /\ Deciding(a, "authorize")
  /\ Requires(a) /\ Unreadable(named[a])
  /\ Go(a, "raised")
  /\ UNCHANGED <<policyVars, requestVars, holding, revision, named, snap, ok, ran>>

-----------------------------------------------------------------------------
(* execute_authorized *)

(* Mutant of PendingBoundary: the version is not compared.                 *)
PendingBoundaryAnyVersion(a) ==
  /\ seen[a].effect # "DENY"
  /\ Requires(a) => ValidFor(snap[a].approval, a)

(* _pending_boundary: the authorization still stands; it raises otherwise. *)
PendingBoundary(a) ==
  /\ seen[a].version = snap[a].version
  /\ seen[a].effect # "DENY"
  /\ Requires(a) => ValidFor(snap[a].approval, a)

(* _begin_execution.                                                       *)
Begin(a) ==
  /\ Deciding(a, "begin")
  /\ Go(a, IF PendingBoundary(a) THEN "checked" ELSE "raised")
  /\ UNCHANGED <<policyVars, requestVars, holding, revision, named, snap, ok, ran>>

(* pre_execution_check lets the operation start unless the lease is gone.  *)
Invoke(a) ==
  /\ pc[a] = "checked"
  /\ Go(a, "running")
  /\ ran' = [ran EXCEPT ![a] = {version}]
  /\ UNCHANGED <<policyVars, requestVars, holding, revision, named, snap, ok>>

LeaseLost(a) ==
  /\ pc[a] = "checked"
  /\ Go(a, "refused")
  /\ snap' = [snap EXCEPT ![a] = NoSnap]
  /\ UNCHANGED <<policyVars, requestVars, holding, revision, named, ok, ran>>

Return(a) ==
  /\ pc[a] = "running"
  /\ \E success \in BOOLEAN : ok' = [ok EXCEPT ![a] = success]
  /\ ran' = [ran EXCEPT ![a] = @ \cup {version}]
  /\ Go(a, "receipt")
  /\ UNCHANGED <<policyVars, requestVars, holding, revision, named, snap>>

(* _new_execution_receipt: raises after the operation has run, whatever it *)
(* returned, when the authorization no longer stands.                      *)
Receipt(a) ==
  /\ Deciding(a, "receipt")
  /\ Go(a, IF PendingBoundary(a) THEN "record" ELSE "raised")
  /\ UNCHANGED <<policyVars, requestVars, holding, revision, named, snap, ok, ran>>

(* record_execution: ACTION_EXECUTED for a success that is still           *)
(* authorized, ACTION_FAILED for a failure in any case.                    *)
RecordSuccess(a) ==
  /\ Deciding(a, "record")
  /\ ok[a]
  /\ Go(a, IF PendingBoundary(a) THEN "done" ELSE "raised")
  /\ UNCHANGED <<policyVars, requestVars, holding, revision, named, snap, ok, ran>>

RecordFailure(a) ==
  /\ Deciding(a, "record")
  /\ ~ok[a]
  /\ Go(a, "failed")
  /\ snap' = [snap EXCEPT ![a] = NoSnap]
  /\ ran' = [ran EXCEPT ![a] = {}]
  /\ UNCHANGED <<policyVars, requestVars, holding, revision, named, ok>>

(* Recovery and replanning: the failed step again, perhaps with another    *)
(* tool or input, under the approval ids it had; nothing is preflighted.   *)
Retry(a) ==
  /\ pc[a] = "failed"
  /\ revision' \in {[revision EXCEPT ![a] = r] : r \in Revisions}
  /\ Go(a, "authorize")
  /\ UNCHANGED <<policyVars, requestVars, holding, named, snap, ok, ran>>

-----------------------------------------------------------------------------
Evaluate(a) == ReadRules(a) \/ ReadVersion(a)

Preflight(a) == \/ PreflightBlocks(a) \/ PreflightAllows(a) \/ PreflightRaises(a)
                \/ KeepWaiting(a) \/ AskAnew(a)

Authorize(a) == AuthorizeGrants(a) \/ AuthorizeRefuses(a) \/ AuthorizeRaises(a)

Boundary(a) == \/ Begin(a) \/ Invoke(a) \/ LeaseLost(a) \/ Return(a)
               \/ Receipt(a) \/ RecordSuccess(a) \/ RecordFailure(a)

Runner(a) == \/ Submit(a) \/ Execute(a) \/ Retry(a)
             \/ Evaluate(a) \/ Preflight(a) \/ Authorize(a) \/ Boundary(a)

Next == \/ ChangePolicy
        \/ \E a \in Actions : RuleLapses(a) \/ Runner(a)
        \/ \E q \in Requests : TimePasses(q) \/ View(q)
        \/ \E d \in Deciders : Answer(d) \/ \E q \in Requests : Look(d, q)

Spec == Init /\ [][Next]_vars

(* Time goes on, and somebody lists the approvals now and then.            *)
ViewedSpec == Spec /\ \A q \in Requests : WF_vars(TimePasses(q)) /\ WF_vars(View(q))

-----------------------------------------------------------------------------
(* Type invariant *)

Bindings == [action : Actions, revision : Revisions, version : Versions] \cup {Unbound}

TypeOK ==
  /\ version \in Versions
  /\ effect \in [Actions -> Effects]
  /\ status \in [Requests -> Decided \cup {"NONE", "PENDING", "EXPIRED"}]
  /\ bound \in [Requests -> Bindings]
  /\ left \in [Requests -> 0..Ttl]
  /\ answers \in [Requests -> SUBSET (Decided \cup {"EXPIRED"})]
  /\ holding \in [Deciders -> Requests \cup {NoRequest}]
  /\ revision \in [Actions -> Revisions]
  /\ named \in [Actions -> Requests \cup {NoRequest}]
  /\ pc \in [Actions -> Stages \cup Rests]
  /\ phase \in [Actions -> {"rules", "version", "decide"}]
  /\ seen \in [Actions -> [effect : Effects, at : 0..MaxVersion, version : 0..MaxVersion]]
  /\ snap \in [Actions -> [version : 0..MaxVersion, approval : Requests \cup {NoRequest}]]
  /\ ok \in [Actions -> BOOLEAN]
  /\ ran \in [Actions -> SUBSET Versions]

-----------------------------------------------------------------------------
(* Safety *)

(* The rules that let an operation start are those of the very version it  *)
(* was authorized under, although rules and version are read apart and the *)
(* owner may change both in between: an authorization computed from old    *)
(* rules under a new version never passes the boundary.                    *)
StartsOnCurrentRules ==
  \A a \in Actions : pc[a] \in Started =>
     seen[a].at = snap[a].version /\ seen[a].effect # "DENY"

(* When those rules ask for approval, somebody approved exactly this       *)
(* action, as it now is, under exactly that version of the rules.          *)
StartsAsApproved ==
  \A a \in Actions : pc[a] \in Started /\ Requires(a) =>
     LET q == snap[a].approval
     IN  /\ q \in Requests
         /\ status[q] = "APPROVED" /\ "APPROVED" \in answers[q]
         /\ bound[q] = [action |-> a, revision |-> revision[a], version |-> seen[a].at]

(* Success is recorded only for an operation that ran from start to end    *)
(* under the policy version it is recorded with.                           *)
RecordedUnderOnePolicy ==
  \A a \in Actions : pc[a] = "done" => ran[a] = {snap[a].version}

(* Whoever was told that a request was decided, or that it lapsed, finds it*)
(* so ever after, however many others answer or list it at the same time.  *)
AnswersAreKept == \A q \in Requests : answers[q] \subseteq {status[q]}

(* An action waits for a request of its own, for what it now consists of:  *)
(* there is something a decider can answer that would let it go on.        *)
WaitsForOwnRequest ==
  \A a \in Actions : pc[a] = "waiting" =>
     /\ named[a] \in Issued
     /\ bound[named[a]].action = a /\ bound[named[a]].revision = revision[a]

-----------------------------------------------------------------------------
(* The inductive invariant behind the safety properties *)

(* The version only grows: the rules an evaluation read are no newer than  *)
(* the version it then read, and the boundary reads rules no older than the*)
(* version of the authorization.  So when the two versions are equal, the  *)
(* rules lie between them.  The same holds for the time of the operation.  *)
BoundaryInv(a) ==
  /\ snap[a].version <= version
  /\ pc[a] \in Stages /\ phase[a] # "rules" => seen[a].at <= version
  /\ pc[a] \in Stages /\ phase[a] = "decide" => seen[a].version \in seen[a].at..version
  /\ pc[a] = "begin" /\ phase[a] # "rules" => snap[a].version <= seen[a].at
  /\ pc[a] \in {"running", "receipt", "record"} => ran[a] # {}
  /\ \A v \in ran[a] : v \in snap[a].version..version
  /\ pc[a] \in {"receipt", "record"} /\ phase[a] = "decide" =>
        \A v \in ran[a] : v <= seen[a].version
  /\ pc[a] = "authorize" => ran[a] = {}

(* A request is told of only once it is decided or has lapsed.             *)
RequestInv(q) ==
  /\ status[q] \in {"NONE", "PENDING"} => answers[q] = {}
  /\ status[q] = "APPROVED" => answers[q] = {"APPROVED"}

GateInv == (\A a \in Actions : BoundaryInv(a)) /\ (\A q \in Requests : RequestInv(q))

-----------------------------------------------------------------------------
(* What the documentation says, and the code does not do *)

(* README.md, states of an approval: "PENDING / APPROVED -> EXPIRED".      *)
LapsedApprovalExpires ==
  \A q \in Requests :
     (status[q] = "APPROVED" /\ left[q] = 0) ~> status[q] = "EXPIRED"
=============================================================================
