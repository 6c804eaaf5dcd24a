------------------------------ MODULE Sessions ------------------------------
(***************************************************************************)
(* The HTTP API in front of the agent: accounts, logins, sessions and the  *)
(* requests that create and read tasks.                                    *)
(*                                                                         *)
(* A request is served by a thread in several transactions: the session is *)
(* looked up, the CSRF token is checked, the operation runs.  Requests     *)
(* interleave between any two of them; a client may repeat a request whose *)
(* answer it lost, and the process may die at any point.                   *)
(*                                                                         *)
(* Abstracted: passwords and tokens are right or wrong; how many failures  *)
(* lock an account and for how long is left open (any failure may lock it, *)
(* and any lock may end); attempts refused by a rate limit change nothing  *)
(* but the event log and are left out; an e-mail address is its user.      *)
(***************************************************************************)
EXTENDS Naturals, Sequences, FiniteSets

CONSTANTS Clients,          \* threads that serve requests
          Users,            \* accounts there may be
          Owner,            \* the account of the configured owner address
          SessionIds,       \* sessions there may be
          Tasks,            \* task ids
          Keys,             \* idempotency keys
          Goals,            \* goals a client may submit
          RequireOwnerAuth, \* AGENT_REQUIRE_OWNER_AUTH
          NoUser, NoSession, NoKey, NoTask

ASSUME OwnerAssumption == Owner \in Users
ASSUME NothingAssumption == /\ NoUser \notin Users /\ NoSession \notin SessionIds
                            /\ NoKey \notin Keys /\ NoTask \notin Tasks

VARIABLES
  users,    \* table auth_users
  sessions, \* table auth_sessions
  tasks,    \* tables task_states, task_queue and task_owners
  keys,     \* table api_idempotency_keys
  call      \* locals of each client's request

sessionVars == <<users, sessions, tasks, keys, call>>

Put(f, k, v) == [x \in DOMAIN f \cup {k} |-> IF x = k THEN v ELSE f[x]]

-----------------------------------------------------------------------------
(* Accounts                                                                *)

Roles == {"OWNER", "OPERATOR", "VIEWER"}
Account(role) == [role |-> role, active |-> TRUE, locked |-> FALSE]

Exists(u) == u \in DOMAIN users
Active(u) == Exists(u) /\ users[u].active

(* A populated owner database never retains the bearer fallback.           *)
OwnerAuthEnforced == RequireOwnerAuth \/ users # <<>>

Revoke(u) == [s \in DOMAIN sessions |->
                IF sessions[s].user = u THEN [sessions[s] EXCEPT !.revoked = TRUE]
                                        ELSE sessions[s]]

InitializeOwner ==
  /\ users = <<>>
  /\ users' = Put(users, Owner, Account("OWNER"))
  /\ UNCHANGED <<sessions, tasks, keys, call>>

-----------------------------------------------------------------------------
(* Requests                                                                *)

Idle == [pc |-> "idle", user |-> NoUser, session |-> NoSession, role |-> "none",
         answer |-> NoTask, key |-> NoKey, request |-> "none"]

At(c, pc) == call[c].pc = pc
IsLegacy(c) == call[c].user = NoUser
IsOwner(c) == call[c].role = "OWNER"

OwnerCalls == {"create_user", "set_role", "disable"}
OperatorCalls == {"create_task", "analyze", "create_stage", "cancel_stage"}
ViewerCalls == {"get_task", "list_tasks", "bug_bounty_task", "logout"}

(* _require_roles, on the role the session lookup has returned.            *)
Permitted(role, op) ==
  \/ op \in OwnerCalls /\ role = "OWNER"
  \/ op \in OperatorCalls /\ role \in {"OWNER", "OPERATOR"}
  \/ op \in ViewerCalls

(* Requests that change something carry a CSRF token; a bearer needs none. *)
Protected(op) == op \notin ViewerCalls \ {"logout"}

(* Which operation a request asks for is chosen where it runs.             *)
Ready(c, op) ==
  /\ \/ At(c, "protected")
     \/ At(c, "authenticated") /\ (Protected(op) => IsLegacy(c))
  /\ Permitted(call[c].role, op)

Answered(c) == call' = [call EXCEPT ![c] = Idle]

Authenticated(c, user, session, role) ==
  /\ call' = [call EXCEPT ![c] = [Idle EXCEPT !.pc = "authenticated", !.user = user,
                                             !.session = session, !.role = role]]
  /\ UNCHANGED <<users, sessions, tasks, keys>>

Usable(s) == /\ ~sessions[s].revoked /\ ~sessions[s].expired
             /\ Active(sessions[s].user)

AuthenticateSession(c) ==
  /\ At(c, "idle")
  /\ \E s \in DOMAIN sessions :
       Usable(s) /\ Authenticated(c, sessions[s].user, s, users[sessions[s].user].role)

(* The bearer token of a deployment without accounts acts for the owner.   *)
AuthenticateBearer(c) ==
  /\ At(c, "idle") /\ ~OwnerAuthEnforced
  /\ Authenticated(c, NoUser, NoSession, "OWNER")

(* A second lookup: the session may have been revoked since the first one. *)
VerifyCsrf(c) ==
  /\ At(c, "authenticated") /\ ~IsLegacy(c) /\ ~sessions[call[c].session].revoked
  /\ call' = [call EXCEPT ![c].pc = "protected"]
  /\ UNCHANGED <<users, sessions, tasks, keys>>

(* The call is refused, or its answer delivered, or lost with the process. *)
Ends(c) ==
  /\ ~At(c, "idle")
  /\ Answered(c)
  /\ UNCHANGED <<users, sessions, tasks, keys>>

-----------------------------------------------------------------------------
(* Logins                                                                  *)

(* The row is read, then the password is checked against what was read.  A *)
(* locked account is refused; that changes nothing.                        *)
BeginLogin(c) ==
  /\ At(c, "idle")
  /\ \E u \in Users, right \in BOOLEAN :
       /\ Exists(u) => ~users[u].locked
       /\ call' = [call EXCEPT ![c] = [Idle EXCEPT
                     !.pc = IF right /\ Active(u) THEN "open" ELSE "failed", !.user = u]]
  /\ UNCHANGED <<users, sessions, tasks, keys>>

(* A failure is counted against the account as it is by now.               *)
LoginFails(c) ==
  /\ At(c, "failed")
  /\ IF Active(call[c].user)
     THEN \E locks \in BOOLEAN : users' = [users EXCEPT ![call[c].user].locked = @ \/ locks]
     ELSE UNCHANGED users
  /\ Answered(c)
  /\ UNCHANGED <<sessions, tasks, keys>>

(* Mutant of StillActive: the row read before the password check is enough. *)
WasActive(u) == Exists(u)

StillActive(u) == Active(u)

(* Failures and lock are cleared, whatever they are by now.                *)
OpenSession(c) ==
  /\ At(c, "open") /\ StillActive(call[c].user)
  /\ \E s \in SessionIds \ DOMAIN sessions :
       sessions' = Put(sessions, s, [user |-> call[c].user, revoked |-> FALSE, expired |-> FALSE])
  /\ users' = [users EXCEPT ![call[c].user].locked = FALSE]
  /\ Answered(c)
  /\ UNCHANGED <<tasks, keys>>

LoginRefused(c) ==
  /\ At(c, "open") /\ ~StillActive(call[c].user)
  /\ Answered(c)
  /\ UNCHANGED <<users, sessions, tasks, keys>>

Logout(c) ==
  /\ Ready(c, "logout")
  /\ sessions' = IF IsLegacy(c) THEN sessions ELSE [sessions EXCEPT ![call[c].session].revoked = TRUE]
  /\ Answered(c)
  /\ UNCHANGED <<users, tasks, keys>>

SessionExpires ==
  /\ \E s \in DOMAIN sessions : /\ ~sessions[s].expired
                                /\ sessions' = [sessions EXCEPT ![s].expired = TRUE]
  /\ UNCHANGED <<users, tasks, keys, call>>

LockEnds ==
  /\ \E u \in DOMAIN users : users[u].locked /\ users' = [users EXCEPT ![u].locked = FALSE]
  /\ UNCHANGED <<sessions, tasks, keys, call>>

-----------------------------------------------------------------------------
(* Administration of accounts                                              *)

CreateUser(c) ==
  /\ Ready(c, "create_user")
  /\ \E u \in Users, role \in Roles \ {"OWNER"} :
       users' = IF Exists(u) THEN users ELSE Put(users, u, Account(role))
  /\ Answered(c)
  /\ UNCHANGED <<sessions, tasks, keys>>

Administrable(u) == Exists(u) /\ users[u].role # "OWNER"

SetRole(c) ==
  /\ Ready(c, "set_role")
  /\ \E u \in Users, role \in Roles \ {"OWNER"} :
       /\ Administrable(u)
       /\ users' = [users EXCEPT ![u].role = role]
  /\ Answered(c)
  /\ UNCHANGED <<sessions, tasks, keys>>

(* One transaction: the account and all its sessions.                      *)
DisableUser(c) ==
  /\ Ready(c, "disable")
  /\ \E u \in Users : /\ Administrable(u)
                      /\ users' = [users EXCEPT ![u].active = FALSE]
                      /\ sessions' = Revoke(u)
  /\ Answered(c)
  /\ UNCHANGED <<tasks, keys>>

-----------------------------------------------------------------------------
(* Tasks                                                                   *)

(* A plain task or an analysis; its fingerprint covers all it asks for.    *)
Requests == {"task", "bug_bounty"} \X Goals

Answer(c, t, key, request) ==
  call' = [call EXCEPT ![c] = [@ EXCEPT !.pc = "answered", !.session = NoSession,
                                        !.answer = t, !.key = key, !.request = request]]

(* Mutant of MayReplay: keys are shared by all accounts.                   *)
MayReplayAny(c, key, request) == keys[key].request = request

(* The key's task is the answer only to the same request of the same user. *)
MayReplay(c, key, request) ==
  /\ keys[key].request = request
  /\ IsLegacy(c) \/ tasks[keys[key].task].owner = call[c].user

(* One transaction: the key is looked up, or else task, queue row, owner   *)
(* and key are inserted.                                                   *)
CreateTask(c) ==
  /\ Ready(c, "create_task")
  /\ \E t \in Tasks \ DOMAIN tasks, key \in {NoKey} \cup Keys, request \in Requests :
       /\ key \notin DOMAIN keys
       /\ tasks' = Put(tasks, t, [owner |-> call[c].user, key |-> key, request |-> request])
       /\ keys' = IF key = NoKey THEN keys ELSE Put(keys, key, [task |-> t, request |-> request])
       /\ Answer(c, t, key, request)
  /\ UNCHANGED <<users, sessions>>

ReplayTask(c) ==
  /\ Ready(c, "create_task")
  /\ \E key \in DOMAIN keys, request \in Requests :
       /\ MayReplay(c, key, request)
       /\ Answer(c, keys[key].task, key, request)
  /\ UNCHANGED <<users, sessions, tasks, keys>>

(* An account that is not the owner sees its own tasks only.               *)
Accessible(c, t) == IsLegacy(c) \/ IsOwner(c) \/ tasks[t].owner = call[c].user

Read(c, t) ==
  /\ Answer(c, t, NoKey, tasks[t].request)
  /\ UNCHANGED <<users, sessions, tasks, keys>>

GetTask(c) ==
  /\ Ready(c, "get_task")
  /\ \E t \in DOMAIN tasks : Accessible(c, t) /\ Read(c, t)

(* The rows a listing selects; the answer is one of those on its page.     *)
Listed(c) ==
  LET whole == IsLegacy(c) \/ IsOwner(c)
  IN  {t \in DOMAIN tasks : whole \/ tasks[t].owner = call[c].user}

ListTasks(c) == Ready(c, "list_tasks") /\ \E t \in Listed(c) : Read(c, t)

(* The result of an analysis, or a section of it, if the task is one.      *)
BugBountyTask(c) ==
  /\ Ready(c, "bug_bounty_task")
  /\ \E t \in DOMAIN tasks :
       Accessible(c, t) /\ tasks[t].request[1] = "bug_bounty" /\ Read(c, t)

-----------------------------------------------------------------------------
SessionInit ==
  /\ users = <<>> /\ sessions = <<>> /\ tasks = <<>> /\ keys = <<>>
  /\ call = [c \in Clients |-> Idle]

Serve(c) ==
  \/ AuthenticateSession(c) \/ AuthenticateBearer(c) \/ VerifyCsrf(c) \/ Ends(c)
  \/ BeginLogin(c) \/ LoginFails(c) \/ OpenSession(c) \/ LoginRefused(c) \/ Logout(c)
  \/ CreateUser(c) \/ SetRole(c) \/ DisableUser(c)
  \/ CreateTask(c) \/ ReplayTask(c) \/ GetTask(c) \/ ListTasks(c) \/ BugBountyTask(c)

SessionNext == InitializeOwner \/ SessionExpires \/ LockEnds \/ \E c \in Clients : Serve(c)

SessionSpec == SessionInit /\ [][SessionNext]_sessionVars

-----------------------------------------------------------------------------
(* Properties                                                              *)

SessionTypeOK ==
  /\ DOMAIN users \subseteq Users
  /\ \A u \in DOMAIN users : users[u].role \in Roles /\ (users[u].role = "OWNER" => u = Owner)
  /\ DOMAIN sessions \subseteq SessionIds
  /\ \A s \in DOMAIN sessions : sessions[s].user \in DOMAIN users
  /\ DOMAIN tasks \subseteq Tasks
  /\ \A t \in DOMAIN tasks : tasks[t].owner \in DOMAIN users \cup {NoUser}
  /\ DOMAIN keys \subseteq Keys
  /\ \A c \in Clients : call[c].user \in Users \cup {NoUser}

(* No session of a disabled account is left open, however the login that   *)
(* opened it and the call that disabled the account interleaved.           *)
DisabledHoldsNothing ==
  \A s \in DOMAIN sessions : Active(sessions[s].user) \/ sessions[s].revoked

(* The task a client is answered with is the one its request names: the    *)
(* only task made with its key, for what it asks, and never another's      *)
(* unless the owner asks for it.                                           *)
AnswersAreOwn ==
  \A c \in Clients : At(c, "answered") =>
    LET t == call[c].answer
    IN  /\ tasks[t].request = call[c].request
        /\ call[c].key # NoKey => {x \in DOMAIN tasks : tasks[x].key = call[c].key} = {t}
        /\ \/ IsLegacy(c) \/ tasks[t].owner = call[c].user
           \/ IsOwner(c) /\ call[c].key = NoKey
=============================================================================
