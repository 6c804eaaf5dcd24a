---------------------------- MODULE StageProofs ----------------------------
(***************************************************************************)
(* Theorems of Sessions and of Stages, for every number of clients,        *)
(* accounts, tasks, keys, workers and stages.                              *)
(*                                                                         *)
(* Sessions: the tables refer to rows that are there, an account that is   *)
(* not active has no open session, a key and the task made with it name    *)
(* each other, and what a client is answered with was its own to ask for.  *)
(*                                                                         *)
(* Stages: a stage is handed out once, because nothing makes it QUEUED     *)
(* again; its one worker begins the work once; and whoever writes a status *)
(* first makes sure that there is none yet.  The rows of an account are    *)
(* counted in the transaction that adds one, so that the limit holds.      *)
(***************************************************************************)
EXTENDS Stages, SequenceTheorems, FiniteSetTheorems, TLAPS

Rows == [role : Roles, active : BOOLEAN, locked : BOOLEAN]
Opened == [user : Users, revoked : BOOLEAN, expired : BOOLEAN]
Made == [owner : Users \cup {NoUser}, key : Keys \cup {NoKey}, request : Requests]
Used == [task : Tasks, request : Requests]
Calls == [pc : {"idle", "authenticated", "protected", "failed", "open", "answered"},
          user : Users \cup {NoUser}, session : SessionIds \cup {NoSession},
          role : Roles \cup {"none"}, answer : Tasks \cup {NoTask},
          key : Keys \cup {NoKey}, request : Requests \cup {"none"}]

Typed ==
  /\ DOMAIN users \subseteq Users /\ users \in [DOMAIN users -> Rows]
  /\ DOMAIN sessions \subseteq SessionIds /\ sessions \in [DOMAIN sessions -> Opened]
  /\ DOMAIN tasks \subseteq Tasks /\ tasks \in [DOMAIN tasks -> Made]
  /\ DOMAIN keys \subseteq Keys /\ keys \in [DOMAIN keys -> Used]
  /\ call \in [Clients -> Calls]

(* A key leads to the one task that was made with it.                      *)
KeysLead ==
  /\ \A k \in DOMAIN keys : /\ keys[k].task \in DOMAIN tasks
                            /\ tasks[keys[k].task].key = k
                            /\ tasks[keys[k].task].request = keys[k].request
  /\ \A t \in DOMAIN tasks : tasks[t].key # NoKey =>
       tasks[t].key \in DOMAIN keys /\ keys[tasks[t].key].task = t

(* What a client holds is a task, made with the key it gave if it gave one.*)
Answering(c) ==
  At(c, "answered") =>
    /\ call[c].answer \in DOMAIN tasks
    /\ tasks[call[c].answer].request = call[c].request
    /\ call[c].key # NoKey => tasks[call[c].answer].key = call[c].key
    /\ \/ IsLegacy(c) \/ tasks[call[c].answer].owner = call[c].user
       \/ IsOwner(c) /\ call[c].key = NoKey

SessionInv ==
  /\ Typed
  /\ DisabledHoldsNothing
  /\ KeysLead
  /\ \A c \in Clients : Answering(c)

-----------------------------------------------------------------------------
(* Types *)

Calling == call \in [Clients -> Calls]

LEMMA IdleIsCall == Idle \in Calls
BY DEF Idle, Calls

(* A request that is over leaves a well-typed call.                        *)
LEMMA TypedAnswered ==
  ASSUME Calling, NEW c \in Clients, Answered(c)
  PROVE  Calling'
BY IdleIsCall DEF Calling, Answered

(* The lookup of a session, or of the bearer token.                        *)
LEMMA TypedAuthenticated ==
  ASSUME Calling, NEW c \in Clients, NEW u \in Users \cup {NoUser},
         NEW s \in SessionIds \cup {NoSession}, NEW r \in Roles, Authenticated(c, u, s, r)
  PROVE  Calling'
BY DEF Calling, Authenticated, Idle, Calls

(* A task found for the client.                                            *)
LEMMA TypedAnswer ==
  ASSUME Calling, NEW c \in Clients, NEW t \in Tasks, NEW k \in Keys \cup {NoKey},
         NEW q \in Requests, Answer(c, t, k, q)
  PROVE  Calling'
<1>1. call[c] \in Calls
  BY DEF Calling
<1>2. [call[c] EXCEPT !.pc = "answered", !.session = NoSession, !.answer = t, !.key = k,
                      !.request = q] \in Calls
  BY <1>1 DEF Calls
<1> QED
  BY <1>2 DEF Answer, Calling

LEMMA InitHolds == SessionInit => SessionInv
<1> SUFFICES ASSUME SessionInit PROVE SessionInv
  OBVIOUS
<1>1. DOMAIN users = {} /\ DOMAIN sessions = {} /\ DOMAIN tasks = {} /\ DOMAIN keys = {}
  BY DEF SessionInit
<1>2. Typed
  BY <1>1 DEF SessionInit, Typed, Idle, Calls
<1>3. DisabledHoldsNothing /\ KeysLead
  BY <1>1 DEF SessionInit, DisabledHoldsNothing, KeysLead, At, Idle
<1>4. \A c \in Clients : Answering(c)
  BY DEF SessionInit, Answering, At, Idle
<1> QED
  BY <1>2, <1>3, <1>4 DEF SessionInv

LEMMA TypedStep == Typed /\ SessionNext => Typed'
<1> SUFFICES ASSUME Typed, SessionNext PROVE Typed'
  OBVIOUS
<1> DEFINE U == DOMAIN users \subseteq Users /\ users \in [DOMAIN users -> Rows]
           S == DOMAIN sessions \subseteq SessionIds /\ sessions \in [DOMAIN sessions -> Opened]
           T == DOMAIN tasks \subseteq Tasks /\ tasks \in [DOMAIN tasks -> Made]
           K == DOMAIN keys \subseteq Keys /\ keys \in [DOMAIN keys -> Used]
<1>t. U /\ S /\ T /\ K /\ Calling
  BY DEF Typed, Calling
<1>q. U' /\ S' /\ T' /\ K' /\ Calling' => Typed'
  BY DEF Typed, Calling
<1> HIDE DEF U, S, T, K
<1>a. \A role \in Roles : Account(role) \in Rows
  BY DEF Account, Rows
<1>1. CASE InitializeOwner
  <2>1. Account("OWNER") \in Rows
    BY <1>a DEF Roles
  <2>2. U'
    BY <1>1, <1>t, <2>1, OwnerAssumption DEF InitializeOwner, U, Put
  <2> QED
    BY <1>1, <1>t, <1>q, <2>2 DEF InitializeOwner, S, T, K, Calling
<1>2. CASE SessionExpires
  <2>1. S'
    BY <1>2, <1>t DEF SessionExpires, S, Opened
  <2> QED
    BY <1>2, <1>t, <1>q, <2>1 DEF SessionExpires, U, T, K, Calling
<1>3. CASE LockEnds
  <2>1. U'
    <3>1. PICK u \in DOMAIN users : users' = [users EXCEPT ![u].locked = FALSE]
      BY <1>3 DEF LockEnds
    <3>2. [users[u] EXCEPT !.locked = FALSE] \in Rows
      BY <1>t, <3>1 DEF U, Rows
    <3> QED
      BY <1>t, <3>1, <3>2 DEF U
  <2> QED
    BY <1>3, <1>t, <1>q, <2>1 DEF LockEnds, S, T, K, Calling
<1>4. ASSUME NEW c \in Clients, Serve(c) PROVE Typed'
  <2>r. call[c] \in Calls
    BY <1>t DEF Calling
  <2>1. CASE AuthenticateSession(c)
    <3>1. PICK s \in DOMAIN sessions :
            Usable(s) /\ Authenticated(c, sessions[s].user, s, users[sessions[s].user].role)
      BY <2>1 DEF AuthenticateSession
    <3>2. s \in SessionIds /\ sessions[s].user \in Users /\ users[sessions[s].user].role \in Roles
      BY <1>t, <3>1 DEF S, U, Opened, Rows, Usable, Active, Exists
    <3>3. Calling'
      BY <1>t, <3>1, <3>2, TypedAuthenticated
    <3> QED
      BY <1>t, <1>q, <3>1, <3>3 DEF Authenticated, U, S, T, K
  <2>2. CASE AuthenticateBearer(c)
    <3>1. Calling'
      BY <1>t, <2>2, TypedAuthenticated DEF AuthenticateBearer, Roles
    <3> QED
      BY <1>t, <1>q, <2>2, <3>1 DEF AuthenticateBearer, Authenticated, U, S, T, K
  <2>3. CASE VerifyCsrf(c)
    <3>1. Calling'
      BY <1>t, <2>3, <2>r DEF VerifyCsrf, Calling, Calls
    <3> QED
      BY <1>t, <1>q, <2>3, <3>1 DEF VerifyCsrf, U, S, T, K
  <2>4. CASE Ends(c)
    BY <1>t, <1>q, <2>4, TypedAnswered DEF Ends, U, S, T, K
  <2>5. CASE BeginLogin(c)
    <3>1. Calling'
      <4>1. PICK u \in Users, pc \in {"open", "failed"} :
              call' = [call EXCEPT ![c] = [Idle EXCEPT !.pc = pc, !.user = u]]
        BY <2>5 DEF BeginLogin
      <4>2. [Idle EXCEPT !.pc = pc, !.user = u] \in Calls
        BY DEF Idle, Calls
      <4> QED
        BY <1>t, <4>1, <4>2 DEF Calling
    <3> QED
      BY <1>t, <1>q, <2>5, <3>1 DEF BeginLogin, U, S, T, K
  <2>6. CASE LoginFails(c)
    <3>1. U'
      <4>1. CASE Active(call[c].user)
        BY ZenonT(40), <1>t, <2>6, <4>1 DEF LoginFails, U, Rows, Active, Exists
      <4>2. CASE ~Active(call[c].user)
        BY <1>t, <2>6, <4>2 DEF LoginFails, U
      <4> QED
        BY <4>1, <4>2
    <3> QED
      BY <1>t, <1>q, <2>6, <3>1, TypedAnswered DEF LoginFails, S, T, K
  <2>7. CASE OpenSession(c)
    <3>1. Active(call[c].user)
      BY <2>7 DEF OpenSession, StillActive
    <3>2. call[c].user \in DOMAIN users
      BY <3>1 DEF Active, Exists
    <3>3. U'
      BY <1>t, <2>7, <3>2 DEF OpenSession, U, Rows
    <3>4. S'
      <4>1. PICK s \in SessionIds \ DOMAIN sessions :
              sessions' = Put(sessions, s, [user |-> call[c].user, revoked |-> FALSE,
                                            expired |-> FALSE])
        BY <2>7 DEF OpenSession
      <4>2. [user |-> call[c].user, revoked |-> FALSE, expired |-> FALSE] \in Opened
        BY <1>t, <3>2 DEF U, Opened
      <4> QED
        BY <1>t, <4>1, <4>2 DEF S, Put
    <3> QED
      BY <1>t, <1>q, <2>7, <3>3, <3>4, TypedAnswered DEF OpenSession, T, K
  <2>8. CASE LoginRefused(c)
    BY <1>t, <1>q, <2>8, TypedAnswered DEF LoginRefused, U, S, T, K
  <2>9. CASE Logout(c)
    <3>1. S'
      BY <1>t, <2>9 DEF Logout, S, Opened
    <3> QED
      BY <1>t, <1>q, <2>9, <3>1, TypedAnswered DEF Logout, U, T, K
  <2>10. CASE CreateUser(c)
    <3>1. PICK u \in Users, role \in Roles \ {"OWNER"} :
            users' = IF Exists(u) THEN users ELSE Put(users, u, Account(role))
      BY <2>10 DEF CreateUser
    <3>2. U'
      BY <1>t, <1>a, <3>1 DEF U, Put
    <3> QED
      BY <1>t, <1>q, <2>10, <3>2, TypedAnswered DEF CreateUser, S, T, K
  <2>11. CASE SetRole(c)
    <3>1. U'
      BY <1>t, <2>11 DEF SetRole, U, Rows, Administrable, Exists
    <3> QED
      BY <1>t, <1>q, <2>11, <3>1, TypedAnswered DEF SetRole, S, T, K
  <2>12. CASE DisableUser(c)
    <3>1. U'
      BY <1>t, <2>12 DEF DisableUser, U, Rows, Administrable, Exists
    <3>2. S'
      BY ZenonT(40), <1>t, <2>12 DEF DisableUser, Revoke, S, Opened
    <3> QED
      BY <1>t, <1>q, <2>12, <3>1, <3>2, TypedAnswered DEF DisableUser, T, K
  <2>13. CASE CreateTask(c)
    <3>1. PICK t \in Tasks \ DOMAIN tasks, key \in {NoKey} \cup Keys, request \in Requests :
            /\ tasks' = Put(tasks, t, [owner |-> call[c].user, key |-> key,
                                       request |-> request])
            /\ keys' = IF key = NoKey THEN keys
                       ELSE Put(keys, key, [task |-> t, request |-> request])
            /\ Answer(c, t, key, request)
      BY <2>13 DEF CreateTask
    <3>2. /\ [owner |-> call[c].user, key |-> key, request |-> request] \in Made
          /\ [task |-> t, request |-> request] \in Used
      BY <2>r DEF Calls, Made, Used
    <3>3. T'
      BY <1>t, <3>1, <3>2 DEF T, Put
    <3>4. K'
      BY <1>t, <3>1, <3>2 DEF K, Put
    <3>5. Calling'
      BY <1>t, <3>1, TypedAnswer
    <3> QED
      BY <1>t, <1>q, <2>13, <3>3, <3>4, <3>5 DEF CreateTask, U, S
  <2>14. CASE ReplayTask(c)
    <3>1. PICK key \in DOMAIN keys, request \in Requests : Answer(c, keys[key].task, key, request)
      BY <2>14 DEF ReplayTask
    <3>2. key \in Keys /\ keys[key].task \in Tasks
      BY <1>t, <3>1 DEF K, Used
    <3>3. Calling'
      BY <1>t, <3>1, <3>2, TypedAnswer
    <3> QED
      BY <1>t, <1>q, <2>14, <3>3 DEF ReplayTask, U, S, T, K
  <2>15. CASE GetTask(c) \/ ListTasks(c) \/ BugBountyTask(c)
    <3>1. PICK t \in DOMAIN tasks : Read(c, t)
      BY <2>15 DEF GetTask, ListTasks, BugBountyTask, Listed
    <3>2. t \in Tasks /\ tasks[t].request \in Requests
      BY <1>t, <3>1 DEF T, Made
    <3>3. Calling'
      BY <1>t, <3>1, <3>2, TypedAnswer DEF Read
    <3> QED
      BY <1>t, <1>q, <3>1, <3>3 DEF Read, U, S, T, K
  <2> QED
    BY <1>4, <2>1, <2>2, <2>3, <2>4, <2>5, <2>6, <2>7, <2>8, <2>9, <2>10, <2>11, <2>12,
       <2>13, <2>14, <2>15 DEF Serve
<1> QED
  BY <1>1, <1>2, <1>3, <1>4 DEF SessionNext

-----------------------------------------------------------------------------
(* Accounts and their sessions *)

(* An open session is only left behind by its account when the account is  *)
(* disabled; then it is revoked by the same transaction.                   *)
Kept == /\ \A u \in Users : Active(u) => Active(u)'
        /\ \A s \in DOMAIN sessions' :
             \/ s \in DOMAIN sessions /\ sessions'[s].user = sessions[s].user
                  /\ (sessions[s].revoked => sessions'[s].revoked)
             \/ Active(sessions[s].user)'

LEMMA KeptHolds ==
  ASSUME Typed, DisabledHoldsNothing, Kept
  PROVE  DisabledHoldsNothing'
<1> SUFFICES ASSUME NEW s \in DOMAIN sessions'
             PROVE  Active(sessions[s].user)' \/ sessions'[s].revoked
  BY DEF DisabledHoldsNothing
<1>1. CASE Active(sessions[s].user)'
  BY <1>1
<1>2. CASE s \in DOMAIN sessions /\ sessions'[s].user = sessions[s].user
             /\ (sessions[s].revoked => sessions'[s].revoked)
  <2>1. sessions[s].user \in Users
    BY <1>2 DEF Typed, Opened
  <2>2. Active(sessions[s].user) \/ sessions[s].revoked
    BY <1>2 DEF DisabledHoldsNothing
  <2> QED
    BY <1>2, <2>1, <2>2 DEF Kept
<1> QED
  BY <1>1, <1>2 DEF Kept

LEMMA DisabledStep == Typed /\ DisabledHoldsNothing /\ SessionNext => DisabledHoldsNothing'
<1> SUFFICES ASSUME Typed, DisabledHoldsNothing, SessionNext PROVE DisabledHoldsNothing'
  OBVIOUS
<1>t. /\ users \in [DOMAIN users -> Rows]
      /\ sessions \in [DOMAIN sessions -> Opened]
      /\ \A c \in Clients : call[c].user \in Users \cup {NoUser}
  BY DEF Typed, Calls
<1>s. ASSUME UNCHANGED <<users, sessions>> PROVE DisabledHoldsNothing'
  BY <1>s DEF DisabledHoldsNothing, Active, Exists
<1>1. CASE InitializeOwner
  <2>1. Kept
    BY <1>1 DEF InitializeOwner, Kept, Active, Exists
  <2> QED
    BY <2>1, KeptHolds
<1>2. CASE SessionExpires
  <2>1. Kept
    BY <1>2, <1>t DEF SessionExpires, Kept, Active, Exists, Opened
  <2> QED
    BY <2>1, KeptHolds
<1>3. CASE LockEnds
  <2>1. PICK u \in DOMAIN users : users' = [users EXCEPT ![u].locked = FALSE]
    BY <1>3 DEF LockEnds
  <2>2. Kept
    BY <1>3, <2>1, <1>t DEF LockEnds, Kept, Active, Exists, Rows
  <2> QED
    BY <2>2, KeptHolds
<1>4. ASSUME NEW c \in Clients, Serve(c) PROVE DisabledHoldsNothing'
  <2>1. CASE \/ AuthenticateSession(c) \/ AuthenticateBearer(c) \/ VerifyCsrf(c) \/ Ends(c)
             \/ BeginLogin(c) \/ LoginRefused(c) \/ CreateTask(c) \/ ReplayTask(c)
             \/ GetTask(c) \/ ListTasks(c) \/ BugBountyTask(c)
    BY <2>1, <1>s
       DEF AuthenticateSession, AuthenticateBearer, Authenticated, VerifyCsrf, Ends, BeginLogin,
           LoginRefused, CreateTask, ReplayTask, GetTask, ListTasks, BugBountyTask, Read
  <2>2. CASE LoginFails(c)
    <3>1. Kept
      BY ZenonT(40), <2>2, <1>t DEF LoginFails, Kept, Active, Exists, Rows
    <3> QED
      BY <3>1, KeptHolds
  <2>3. CASE OpenSession(c)
    <3>1. Active(call[c].user)
      BY <2>3 DEF OpenSession, StillActive
    <3>2. PICK s \in SessionIds \ DOMAIN sessions :
            sessions' = Put(sessions, s, [user |-> call[c].user, revoked |-> FALSE,
                                          expired |-> FALSE])
      BY <2>3 DEF OpenSession
    <3>3. users' = [users EXCEPT ![call[c].user].locked = FALSE]
      BY <2>3 DEF OpenSession
    <3>4. \A u \in Users : Active(u) => Active(u)'
      BY <1>t, <3>3 DEF Active, Exists, Rows
    <3>5. call[c].user \in Users
      BY <3>1 DEF Active, Exists, Typed
    <3>6. Kept
      BY <3>1, <3>2, <3>4, <3>5 DEF Kept, Put
    <3> QED
      BY <3>6, KeptHolds
  <2>4. CASE Logout(c)
    <3>1. Kept
      BY <2>4, <1>t DEF Logout, Kept, Active, Exists, Opened
    <3> QED
      BY <3>1, KeptHolds
  <2>5. CASE CreateUser(c)
    <3>1. PICK u \in Users, role \in Roles \ {"OWNER"} :
            users' = IF Exists(u) THEN users ELSE Put(users, u, Account(role))
      BY <2>5 DEF CreateUser
    <3>2. Kept
      BY <2>5, <3>1, <1>t DEF CreateUser, Kept, Active, Exists, Put
    <3> QED
      BY <3>2, KeptHolds
  <2>6. CASE SetRole(c)
    <3>1. PICK u \in Users, role \in Roles : users' = [users EXCEPT ![u].role = role]
      BY <2>6 DEF SetRole
    <3>2. Kept
      BY <2>6, <3>1, <1>t DEF SetRole, Kept, Active, Exists, Rows
    <3> QED
      BY <3>2, KeptHolds
  <2>7. CASE DisableUser(c)
    <3>1. PICK u \in Users : /\ users' = [users EXCEPT ![u].active = FALSE]
                             /\ sessions' = Revoke(u)
      BY <2>7 DEF DisableUser
    <3>2. SUFFICES ASSUME NEW s \in DOMAIN sessions'
                   PROVE  Active(sessions[s].user)' \/ sessions'[s].revoked
      BY DEF DisabledHoldsNothing
    <3>3. s \in DOMAIN sessions /\ sessions[s] \in Opened
      BY <3>1, <1>t DEF Revoke
    <3>4. CASE sessions[s].user = u
      BY <3>1, <3>3, <3>4 DEF Revoke, Opened
    <3>5. CASE sessions[s].user # u
      <4>1. sessions'[s] = sessions[s]
        BY <3>1, <3>3, <3>5 DEF Revoke
      <4>2. Active(sessions[s].user) => Active(sessions[s].user)'
        BY <3>1, <3>5, <4>1, <1>t DEF Active, Exists
      <4> QED
        BY <3>3, <4>1, <4>2 DEF DisabledHoldsNothing
    <3> QED
      BY <3>4, <3>5
  <2> QED
    BY <1>4, <2>1, <2>2, <2>3, <2>4, <2>5, <2>6, <2>7 DEF Serve
<1> QED
  BY <1>1, <1>2, <1>3, <1>4 DEF SessionNext

-----------------------------------------------------------------------------
(* Keys, tasks and answers *)

KeysInv == KeysLead /\ \A c \in Clients : Answering(c)

(* A step that leaves the tasks alone and answers nobody.                  *)
LEMMA KeysQuiet ==
  ASSUME KeysInv, UNCHANGED <<tasks, keys>>,
         \A d \in Clients : call'[d] = call[d] \/ call'[d].pc # "answered"
  PROVE  KeysInv'
<1>1. KeysLead'
  BY DEF KeysInv, KeysLead
<1>2. ASSUME NEW d \in Clients PROVE Answering(d)'
  <2>1. CASE call'[d] = call[d]
    BY <2>1 DEF KeysInv, Answering, At, IsLegacy, IsOwner
  <2>2. CASE call'[d].pc # "answered"
    BY <2>2 DEF Answering, At
  <2> QED
    BY <2>1, <2>2
<1> QED
  BY <1>1, <1>2 DEF KeysInv

(* A step that answers c with a task that is already there.                *)
LEMMA KeysAnswer ==
  ASSUME Typed, KeysInv, UNCHANGED <<tasks, keys>>, NEW c \in Clients,
         NEW t \in DOMAIN tasks, NEW k \in Keys \cup {NoKey}, Answer(c, t, k, tasks[t].request),
         k # NoKey => tasks[t].key = k,
         \/ IsLegacy(c) \/ tasks[t].owner = call[c].user
         \/ IsOwner(c) /\ k = NoKey
  PROVE  KeysInv'
<1>1. KeysLead'
  BY DEF KeysInv, KeysLead
<1>2. ASSUME NEW d \in Clients PROVE Answering(d)'
  <2>r. call \in [Clients -> Calls] /\ call[c] \in Calls
    BY DEF Typed
  <2>1. CASE d = c
    <3>1. /\ call'[c].pc = "answered" /\ call'[c].answer = t /\ call'[c].key = k
          /\ call'[c].request = tasks[t].request
          /\ call'[c].user = call[c].user /\ call'[c].role = call[c].role
      BY <2>r DEF Answer, Calls
    <3> QED
      BY <2>1, <3>1 DEF Answering, At, IsLegacy, IsOwner
  <2>2. CASE d # c
    <3>1. call'[d] = call[d]
      BY <2>2, <2>r DEF Answer
    <3> QED
      BY <3>1 DEF KeysInv, Answering, At, IsLegacy, IsOwner
  <2> QED
    BY <2>1, <2>2
<1> QED
  BY <1>1, <1>2 DEF KeysInv

LEMMA KeysCreate ==
  ASSUME Typed, KeysInv, NEW c \in Clients, CreateTask(c)
  PROVE  KeysInv'
<1>1. PICK t \in Tasks \ DOMAIN tasks, k \in {NoKey} \cup Keys, request \in Requests :
        /\ k \notin DOMAIN keys
        /\ tasks' = Put(tasks, t, [owner |-> call[c].user, key |-> k, request |-> request])
        /\ keys' = IF k = NoKey THEN keys ELSE Put(keys, k, [task |-> t, request |-> request])
        /\ Answer(c, t, k, request)
  BY DEF CreateTask
<1>2. /\ DOMAIN tasks' = DOMAIN tasks \cup {t}
      /\ tasks'[t] = [owner |-> call[c].user, key |-> k, request |-> request]
      /\ \A x \in DOMAIN tasks : tasks'[x] = tasks[x]
  BY <1>1 DEF Put
<1>3. NoKey \notin DOMAIN keys
  BY NothingAssumption DEF Typed
<1>4. /\ \A x \in DOMAIN keys : x \in DOMAIN keys' /\ keys'[x] = keys[x]
      /\ k # NoKey => k \in DOMAIN keys' /\ keys'[k] = [task |-> t, request |-> request]
      /\ \A x \in DOMAIN keys' : x \in DOMAIN keys \/ (x = k /\ k # NoKey)
  BY <1>1 DEF Put
<1>5. KeysLead'
  <2>1. ASSUME NEW x \in DOMAIN keys'
        PROVE  /\ keys'[x].task \in DOMAIN tasks'
               /\ tasks'[keys'[x].task].key = x
               /\ tasks'[keys'[x].task].request = keys'[x].request
    <3>1. CASE x \in DOMAIN keys
      <4>1. keys[x].task \in DOMAIN tasks /\ tasks[keys[x].task].key = x
              /\ tasks[keys[x].task].request = keys[x].request
        BY <3>1 DEF KeysInv, KeysLead
      <4> QED
        BY <3>1, <4>1, <1>2, <1>4
    <3>2. CASE x = k /\ k # NoKey
      BY <3>2, <1>2, <1>4
    <3> QED
      BY <2>1, <3>1, <3>2, <1>4
  <2>2. ASSUME NEW x \in DOMAIN tasks', tasks'[x].key # NoKey
        PROVE  tasks'[x].key \in DOMAIN keys' /\ keys'[tasks'[x].key].task = x
    <3>1. CASE x = t
      BY <2>2, <3>1, <1>2, <1>4
    <3>2. CASE x # t
      <4>1. x \in DOMAIN tasks /\ tasks'[x] = tasks[x]
        BY <2>2, <3>2, <1>2
      <4>2. tasks[x].key \in DOMAIN keys /\ keys[tasks[x].key].task = x
        BY <2>2, <4>1 DEF KeysInv, KeysLead
      <4> QED
        BY <4>1, <4>2, <1>4
    <3> QED
      BY <3>1, <3>2
  <2> QED
    BY <2>1, <2>2 DEF KeysLead
<1>6. ASSUME NEW d \in Clients PROVE Answering(d)'
  <2>r. call \in [Clients -> Calls] /\ call[c] \in Calls
    BY DEF Typed
  <2>1. CASE d = c
    <3>1. /\ call'[c].pc = "answered" /\ call'[c].answer = t /\ call'[c].key = k
          /\ call'[c].request = request /\ call'[c].user = call[c].user
      BY <2>r, <1>1 DEF Answer, Calls
    <3> QED
      BY <2>1, <3>1, <1>2 DEF Answering, At, IsLegacy, IsOwner
  <2>2. CASE d # c
    <3>1. call'[d] = call[d]
      BY <2>2, <2>r, <1>1 DEF Answer
    <3>2. At(d, "answered") => call[d].answer \in DOMAIN tasks
      BY DEF KeysInv, Answering
    <3> QED
      BY <3>1, <3>2, <1>2 DEF KeysInv, Answering, At, IsLegacy, IsOwner
  <2> QED
    BY <2>1, <2>2
<1> QED
  BY <1>5, <1>6 DEF KeysInv

LEMMA KeysStep == Typed /\ KeysInv /\ SessionNext => KeysInv'
<1> SUFFICES ASSUME Typed, KeysInv, SessionNext PROVE KeysInv'
  OBVIOUS
<1>t. call \in [Clients -> Calls]
  BY DEF Typed
<1>1. CASE InitializeOwner \/ SessionExpires \/ LockEnds
  BY <1>1, KeysQuiet DEF InitializeOwner, SessionExpires, LockEnds
<1>2. ASSUME NEW c \in Clients, Serve(c) PROVE KeysInv'
  <2>1. ASSUME NEW r, r.pc # "answered", call' = [call EXCEPT ![c] = r],
               UNCHANGED <<tasks, keys>>
        PROVE  KeysInv'
    <3>1. \A d \in Clients : call'[d] = call[d] \/ call'[d].pc # "answered"
      BY <1>t, <2>1
    <3> QED
      BY <2>1, <3>1, KeysQuiet
  <2>2. Idle.pc # "answered"
    BY DEF Idle
  <2>3. CASE \/ Ends(c) \/ LoginFails(c) \/ OpenSession(c) \/ LoginRefused(c) \/ Logout(c)
             \/ CreateUser(c) \/ SetRole(c) \/ DisableUser(c)
    BY <2>1, <2>2, <2>3
       DEF Ends, LoginFails, OpenSession, LoginRefused, Logout, CreateUser, SetRole,
           DisableUser, Answered
  <2>4. CASE AuthenticateSession(c) \/ AuthenticateBearer(c)
    <3>1. PICK u, s, r : Authenticated(c, u, s, r)
      BY <2>4 DEF AuthenticateSession, AuthenticateBearer
    <3>2. [Idle EXCEPT !.pc = "authenticated", !.user = u, !.session = s, !.role = r].pc
            # "answered"
      BY DEF Idle
    <3> QED
      BY <2>1, <3>1, <3>2 DEF Authenticated
  <2>5. CASE VerifyCsrf(c)
    <3>1. \A d \in Clients : call'[d] = call[d] \/ call'[d].pc # "answered"
      BY <1>t, <2>5 DEF VerifyCsrf, Calls
    <3> QED
      BY <2>5, <3>1, KeysQuiet DEF VerifyCsrf
  <2>6. CASE BeginLogin(c)
    <3>1. PICK u \in Users, pc \in {"open", "failed"} :
            call' = [call EXCEPT ![c] = [Idle EXCEPT !.pc = pc, !.user = u]]
      BY <2>6 DEF BeginLogin
    <3>2. [Idle EXCEPT !.pc = pc, !.user = u].pc # "answered"
      BY DEF Idle
    <3> QED
      BY <2>1, <2>6, <3>1, <3>2 DEF BeginLogin
  <2>7. CASE CreateTask(c)
    BY <2>7, KeysCreate
  <2>8. CASE ReplayTask(c)
    <3>1. PICK key \in DOMAIN keys, request \in Requests :
            MayReplay(c, key, request) /\ Answer(c, keys[key].task, key, request)
      BY <2>8 DEF ReplayTask
    <3>2. /\ keys[key].task \in DOMAIN tasks
          /\ tasks[keys[key].task].key = key
          /\ tasks[keys[key].task].request = keys[key].request
      BY <3>1 DEF KeysInv, KeysLead
    <3>3. key \in Keys /\ request = tasks[keys[key].task].request
      BY <3>1, <3>2 DEF MayReplay, Typed
    <3>4. IsLegacy(c) \/ tasks[keys[key].task].owner = call[c].user
      BY <3>1 DEF MayReplay
    <3> QED
      BY <2>8, <3>1, <3>2, <3>3, <3>4, KeysAnswer DEF ReplayTask
  <2>9. CASE GetTask(c) \/ ListTasks(c) \/ BugBountyTask(c)
    <3>1. PICK t \in DOMAIN tasks : Read(c, t) /\ Accessible(c, t)
      BY <2>9 DEF GetTask, ListTasks, BugBountyTask, Listed, Accessible
    <3> QED
      BY <3>1, KeysAnswer DEF Read, Accessible
  <2> QED
    BY <1>2, <2>3, <2>4, <2>5, <2>6, <2>7, <2>8, <2>9 DEF Serve
<1> QED
  BY <1>1, <1>2 DEF SessionNext

-----------------------------------------------------------------------------
(* Theorems *)

LEMMA InvHolds == SessionSpec => []SessionInv
<1>1. SessionInv /\ [SessionNext]_sessionVars => SessionInv'
  <2> SUFFICES ASSUME SessionInv, [SessionNext]_sessionVars PROVE SessionInv'
    OBVIOUS
  <2>1. CASE SessionNext
    BY <2>1, TypedStep, DisabledStep, KeysStep DEF SessionInv, KeysInv
  <2>2. CASE UNCHANGED sessionVars
    BY <2>2 DEF sessionVars, SessionInv, Typed, DisabledHoldsNothing, Active, Exists, KeysLead,
                Answering, At, IsLegacy, IsOwner
  <2> QED
    BY <2>1, <2>2
<1> QED
  BY <1>1, InitHolds, PTL DEF SessionSpec

(* No session of a disabled account is left open: a login that checked the *)
(* password before the account was disabled opens none.                    *)
THEOREM DisabledAccountsAreOut == SessionSpec => []DisabledHoldsNothing
<1>1. SessionInv => DisabledHoldsNothing
  BY DEF SessionInv
<1> QED
  BY <1>1, InvHolds, PTL

(* Every answer is the task its request names and the caller may see.      *)
THEOREM OwnAnswers == SessionSpec => []AnswersAreOwn
<1>1. SessionInv => AnswersAreOwn
  <2> SUFFICES ASSUME SessionInv, NEW c \in Clients, At(c, "answered")
               PROVE  LET t == call[c].answer
                      IN  /\ tasks[t].request = call[c].request
                          /\ call[c].key # NoKey =>
                               {x \in DOMAIN tasks : tasks[x].key = call[c].key} = {t}
                          /\ \/ IsLegacy(c) \/ tasks[t].owner = call[c].user
                             \/ IsOwner(c) /\ call[c].key = NoKey
    BY DEF AnswersAreOwn
  <2>1. Answering(c) /\ KeysLead
    BY DEF SessionInv
  <2> QED
    BY <2>1 DEF Answering, KeysLead
<1> QED
  BY <1>1, InvHolds, PTL

-----------------------------------------------------------------------------
(* Stages *)

Accounts == Users \cup {NoUser}
StageRows == [analysis : Accounts, owner : Accounts, status : STAGE_STATUSES,
              attempts : Nat, lease : Nat, expired : BOOLEAN]
Jobs == [pc : {"idle", "claimed", "executed", "lost"}, stage : Nat, lease : Nat]
Results == {"COMPLETED", "PARTIAL", "FAILED", "UNAVAILABLE"}

StagesTyped ==
  /\ Typed
  /\ analyses \subseteq Accounts
  /\ stages \in Seq(StageRows)
  /\ executions \in Seq(Nat) /\ Len(executions) = Len(stages)
  /\ job \in [Workers -> Jobs]

(* At most one worker is at a stage; none is while the stage is QUEUED; and *)
(* how often its work was begun follows from how far that worker is.       *)
WorkInv ==
  /\ \A w \in Workers : ~Doing(w, "idle") => job[w].stage \in DOMAIN stages
  /\ \A v, w \in Workers : ~Doing(v, "idle") /\ ~Doing(w, "idle")
                             /\ job[v].stage = job[w].stage => v = w
  /\ \A w \in Workers : Doing(w, "claimed") => executions[job[w].stage] = 0
  /\ \A w \in Workers : Doing(w, "executed") => executions[job[w].stage] = 1
  /\ \A i \in DOMAIN stages : stages[i].status = "QUEUED" =>
       executions[i] = 0 /\ \A w \in Workers : Doing(w, "idle") \/ job[w].stage # i
  /\ \A i \in DOMAIN stages : executions[i] <= 1
  /\ \A i \in DOMAIN stages : stages[i].status \in Results => executions[i] = 1

StageInv == StagesTyped /\ WorkInv

(* What a step makes of the stages that are settled, and of the others.    *)
Settles ==
  \A i \in DOMAIN stages :
    /\ i \in DOMAIN stages'
    /\ stages[i].status \in TERMINAL => stages'[i] = stages[i]

-----------------------------------------------------------------------------
(* Rows *)

LEMMA MapIsSeq ==
  ASSUME NEW S, NEW s \in Seq(S), NEW T, NEW f \in [DOMAIN s -> T]
  PROVE  f \in Seq(T) /\ Len(f) = Len(s) /\ DOMAIN f = DOMAIN s
<1>1. DOMAIN s = 1..Len(s) /\ Len(s) \in Nat
  OBVIOUS
<1> QED
  BY <1>1

LEMMA SettledRow ==
  ASSUME NEW r \in StageRows, NEW status \in STAGE_STATUSES
  PROVE  Settled(r, status) \in StageRows /\ Settled(r, status).status = status
BY DEF Settled, StageRows

LEMMA RecoveredRow ==
  ASSUME NEW r \in StageRows
  PROVE  /\ Recovered(r) \in StageRows
         /\ r.status # "RUNNING" => Recovered(r) = r
         /\ Recovered(r) # r => Recovered(r).status = "UNKNOWN"
BY SettledRow DEF Recovered, Abandoned, STAGE_STATUSES

LEMMA ClaimedFields ==
  ASSUME NEW r \in StageRows, NEW n \in Nat, NEW c,
         c = [r EXCEPT !.status = "RUNNING", !.attempts = n, !.lease = n]
  PROVE  c \in StageRows /\ c.status = "RUNNING"
BY DEF StageRows, STAGE_STATUSES

LEMMA ClaimedRow ==
  ASSUME NEW r \in StageRows
  PROVE  Claimed(r) \in StageRows /\ Claimed(r).status = "RUNNING"
<1>1. r.attempts \in Nat
  BY DEF StageRows
<1> DEFINE n == r.attempts + 1
<1>2. n \in Nat
  BY <1>1
<1>3. Claimed(r) = [r EXCEPT !.status = "RUNNING", !.attempts = n, !.lease = n]
  BY DEF Claimed
<1> HIDE DEF n
<1> QED
  BY <1>2, <1>3, ClaimedFields

(* Some rows settle or run, nobody else moves.                             *)
LEMMA RowsMove ==
  ASSUME StageInv, stages' \in Seq(StageRows), Len(stages') = Len(stages),
         UNCHANGED executions, Typed', UNCHANGED <<analyses, job>>,
         \A i \in DOMAIN stages :
           \/ stages'[i] = stages[i]
           \/ stages[i].status \notin TERMINAL /\ stages'[i].status \notin Results \cup {"QUEUED"}
           \/ stages[i].status \notin TERMINAL /\ stages'[i].status = stages[i].status
  PROVE  StageInv' /\ Settles
<1>1. DOMAIN stages' = DOMAIN stages
  BY DEF StageInv, StagesTyped
<1>2. StagesTyped'
  BY DEF StageInv, StagesTyped
<1>3. WorkInv'
  BY <1>1 DEF StageInv, WorkInv, Doing
<1>4. Settles
  BY <1>1 DEF Settles
<1> QED
  BY <1>2, <1>3, <1>4 DEF StageInv

-----------------------------------------------------------------------------
(* Steps *)

LEMMA StageInit == Init => StageInv
<1> SUFFICES ASSUME Init PROVE StageInv
  OBVIOUS
<1>1. Typed
  BY InitHolds DEF Init, SessionInv
<1>2. StagesTyped
  BY <1>1 DEF Init, StagesTyped, NoJob, Jobs
<1>3. WorkInv
  BY DEF Init, WorkInv, Doing, NoJob
<1> QED
  BY <1>2, <1>3 DEF StageInv

(* Requests.                                                               *)
LEMMA RequestSteps ==
  ASSUME StageInv, NEW c \in Clients, Analyze(c) \/ CreateStage(c) \/ CancelStage(c)
  PROVE  StageInv' /\ Settles
<1>t. /\ Typed /\ Calling /\ call[c] \in Calls
      /\ stages \in Seq(StageRows) /\ executions \in Seq(Nat) /\ Len(executions) = Len(stages)
      /\ DOMAIN stages = 1..Len(stages) /\ Len(stages) \in Nat
  BY DEF StageInv, StagesTyped, Typed, Calling
<1>a. Typed'
  <2>1. Answered(c) /\ UNCHANGED <<users, sessions, tasks, keys>>
    BY DEF Analyze, CreateStage, CancelStage
  <2>2. Calling'
    BY <1>t, <2>1, TypedAnswered
  <2> QED
    BY <1>t, <2>1, <2>2 DEF Typed, Calling
<1>1. CASE Analyze(c)
  <2>1. analyses' \subseteq Accounts
    BY <1>t, <1>1 DEF Analyze, Calls, Accounts, StageInv, StagesTyped
  <2> QED
    BY <1>1, <1>a, <2>1
       DEF Analyze, StageInv, StagesTyped, WorkInv, Doing, Settles
<1>2. CASE CreateStage(c)
  <2>1. PICK analysis \in analyses : stages' = Append(stages, Stage(analysis, call[c].user))
    BY <1>2 DEF CreateStage
  <2> DEFINE row == Stage(analysis, call[c].user)
  <2>2. row \in StageRows /\ row.status = "QUEUED"
    BY <1>t DEF Stage, StageRows, STAGE_STATUSES, Accounts, Calls, StageInv, StagesTyped
  <2> HIDE DEF row
  <2>3. /\ stages' \in Seq(StageRows) /\ Len(stages') = Len(stages) + 1
        /\ stages'[Len(stages) + 1] = row
        /\ \A i \in 1..Len(stages) : stages'[i] = stages[i]
    BY <1>t, <2>1, <2>2 DEF row
  <2>4. /\ executions' \in Seq(Nat) /\ Len(executions') = Len(stages) + 1
        /\ executions'[Len(stages) + 1] = 0
        /\ \A i \in 1..Len(stages) : executions'[i] = executions[i]
    BY <1>t, <1>2 DEF CreateStage
  <2>5. job' = job /\ analyses' = analyses
    BY <1>2 DEF CreateStage
  <2>6. StagesTyped'
    BY <1>a, <2>3, <2>4, <2>5 DEF StageInv, StagesTyped
  <2>7. DOMAIN stages' = 1..(Len(stages) + 1)
    BY <2>3
  <2>8. WorkInv'
    <3>1. \A w \in Workers : ~Doing(w, "idle") => job[w].stage \in 1..Len(stages)
      BY <1>t DEF StageInv, WorkInv
    <3>2. \A i \in DOMAIN stages' : i \in 1..Len(stages) \/ i = Len(stages) + 1
      BY <1>t, <2>7
    <3>3. \A w \in Workers : Doing(w, "claimed") => ~Doing(w, "idle")
      BY DEF Doing
    <3>4. \A w \in Workers : Doing(w, "executed") => ~Doing(w, "idle")
      BY DEF Doing
    <3>5. \A w \in Workers : Doing(w, "idle") \/ job[w].stage # Len(stages) + 1
      BY <1>t, <3>1
    <3>6. \A i \in 1..Len(stages) : i \in DOMAIN stages' /\ i \in DOMAIN stages
      BY <1>t, <2>7
    <3>7. \A w \in Workers, pc \in {"idle", "claimed", "executed"} : Doing(w, pc)' <=> Doing(w, pc)
      BY <2>5 DEF Doing
    <3>i. WorkInv
      BY DEF StageInv
    <3>8. \A w \in Workers : (~Doing(w, "idle") => job[w].stage \in DOMAIN stages')
      BY <3>1, <3>6
    <3>9. \A w \in Workers : Doing(w, "claimed") => executions'[job[w].stage] = 0
      BY <3>i, <3>1, <3>3, <2>4 DEF WorkInv
    <3>10. \A w \in Workers : Doing(w, "executed") => executions'[job[w].stage] = 1
      BY <3>i, <3>1, <3>4, <2>4 DEF WorkInv
    <3>11. ASSUME NEW i \in DOMAIN stages'
           PROVE  /\ stages'[i].status = "QUEUED" =>
                       executions'[i] = 0 /\ \A w \in Workers : Doing(w, "idle") \/ job[w].stage # i
                  /\ executions'[i] <= 1
                  /\ stages'[i].status \in Results => executions'[i] = 1
      <4>1. CASE i \in 1..Len(stages)
        BY <4>1, <3>i, <3>6, <2>3, <2>4 DEF WorkInv
      <4>2. CASE i = Len(stages) + 1
        BY <4>2, <3>5, <2>2, <2>3, <2>4 DEF Results
      <4> QED
        BY <3>2, <4>1, <4>2
    <3> QED
      BY <3>i, <3>7, <3>8, <3>9, <3>10, <3>11, <2>5 DEF WorkInv
  <2>9. Settles
    BY <1>t, <2>3, <2>7 DEF Settles
  <2> QED
    BY <2>6, <2>8, <2>9 DEF StageInv
<1>3. CASE CancelStage(c)
  <2>1. PICK i \in DOMAIN stages :
          Cancellable(stages[i]) /\ stages' = [stages EXCEPT ![i] = Settled(@, "CANCELLED")]
    BY <1>3 DEF CancelStage
  <2>2. /\ Settled(stages[i], "CANCELLED") \in StageRows
        /\ Settled(stages[i], "CANCELLED").status = "CANCELLED"
    BY <1>t, <2>1, SettledRow DEF STAGE_STATUSES
  <2>3. stages' \in Seq(StageRows) /\ Len(stages') = Len(stages)
    BY <1>t, <2>1, <2>2
  <2>4. UNCHANGED <<executions, analyses, job>>
    BY <1>3 DEF CancelStage
  <2> QED
    BY <1>t, <1>a, <2>1, <2>2, <2>3, <2>4, RowsMove DEF Cancellable, Results
<1> QED
  BY <1>1, <1>2, <1>3

(* A lease runs out, or abandoned stages are recovered.                    *)
LEMMA ExpirySteps ==
  ASSUME StageInv, LeaseExpires \/ \E w \in Workers : RecoverOnly(w)
  PROVE  StageInv' /\ Settles
<1>t. /\ Typed /\ stages \in Seq(StageRows)
      /\ DOMAIN stages = 1..Len(stages) /\ Len(stages) \in Nat
  BY DEF StageInv, StagesTyped
<1>a. UNCHANGED sessionVars => Typed'
  BY <1>t DEF Typed, sessionVars
<1>1. CASE LeaseExpires
  <2>1. PICK i \in DOMAIN stages :
          stages[i].status = "RUNNING" /\ stages' = [stages EXCEPT ![i].expired = TRUE]
    BY <1>1 DEF LeaseExpires
  <2>2. [stages[i] EXCEPT !.expired = TRUE] \in StageRows
    <3>1. stages[i] \in StageRows
      BY <1>t
    <3> QED
      BY <3>1 DEF StageRows
  <2>3. stages' = [stages EXCEPT ![i] = [stages[i] EXCEPT !.expired = TRUE]]
    BY <2>1
  <2>4. stages' \in Seq(StageRows) /\ Len(stages') = Len(stages)
    BY <1>t, <2>1, <2>2, <2>3
  <2>5. \A k \in DOMAIN stages : \/ stages'[k] = stages[k]
                                 \/ k = i /\ stages'[k].status = stages[k].status
    BY <1>t, <2>1, <2>3 DEF StageRows
  <2>6. UNCHANGED <<sessionVars, executions, analyses, job>>
    BY <1>1 DEF LeaseExpires, sessionVars
  <2> QED
    BY <1>a, <2>1, <2>4, <2>5, <2>6, RowsMove DEF TERMINAL
<1>2. ASSUME NEW w \in Workers, RecoverOnly(w) PROVE StageInv' /\ Settles
  <2>1. stages' = [i \in DOMAIN stages |-> Recovered(stages[i])]
    BY <1>2 DEF RecoverOnly
  <2>2. \A i \in DOMAIN stages : Recovered(stages[i]) \in StageRows
    BY <1>t, RecoveredRow
  <2>3. stages' \in Seq(StageRows) /\ Len(stages') = Len(stages)
    BY <1>t, <2>1, <2>2, MapIsSeq
  <2>4. \A i \in DOMAIN stages :
          \/ stages'[i] = stages[i]
          \/ stages[i].status = "RUNNING" /\ stages'[i].status = "UNKNOWN"
    BY <1>t, <2>1, RecoveredRow
  <2>5. UNCHANGED <<sessionVars, executions, analyses, job>>
    BY <1>2 DEF RecoverOnly
  <2> QED
    BY <1>a, <2>3, <2>4, <2>5, RowsMove DEF TERMINAL, Results
<1> QED
  BY <1>1, <1>2

LEMMA ClaimStep ==
  ASSUME StageInv, NEW w \in Workers, ClaimNext(w)
  PROVE  StageInv' /\ Settles
<1>t. /\ Typed /\ WorkInv
      /\ stages \in Seq(StageRows) /\ executions \in Seq(Nat) /\ Len(executions) = Len(stages)
      /\ DOMAIN stages = 1..Len(stages) /\ Len(stages) \in Nat
      /\ job \in [Workers -> Jobs]
  BY DEF StageInv, StagesTyped
<1>1. PICK next \in Claimable :
        /\ stages' = [i \in DOMAIN stages |-> IF i = next THEN Claimed(stages[i])
                                                          ELSE Recovered(stages[i])]
        /\ job' = [job EXCEPT ![w] = [pc |-> "claimed", stage |-> next,
                                      lease |-> stages[next].attempts + 1]]
  BY DEF ClaimNext
<1>2. /\ next \in DOMAIN stages /\ stages[next].status = "QUEUED"
      /\ stages[next].attempts + 1 \in Nat
  <2>1. next \in DOMAIN stages /\ stages[next].status = "QUEUED"
    BY DEF Claimable
  <2>2. stages[next] \in StageRows
    BY <1>t, <2>1
  <2>3. stages[next].attempts \in Nat
    BY <2>2 DEF StageRows
  <2> QED
    BY <2>1, <2>3
<1>3. Doing(w, "idle") /\ UNCHANGED <<sessionVars, analyses, executions>>
  BY DEF ClaimNext
<1>4. \A i \in DOMAIN stages : stages'[i] \in StageRows
  BY <1>t, <1>1, RecoveredRow, ClaimedRow
<1>5. stages' \in Seq(StageRows) /\ Len(stages') = Len(stages) /\ DOMAIN stages' = DOMAIN stages
  <2>1. stages' \in [DOMAIN stages -> StageRows]
    BY <1>1, <1>4
  <2> QED
    BY <1>t, <2>1, MapIsSeq
<1>6. /\ job' \in [Workers -> Jobs]
      /\ job'[w].pc = "claimed" /\ job'[w].stage = next
      /\ \A v \in Workers : v # w => job'[v] = job[v]
  BY <1>t, <1>1, <1>2 DEF Jobs
<1>7. /\ stages'[next].status = "RUNNING"
      /\ \A i \in DOMAIN stages : i # next =>
           \/ stages'[i] = stages[i]
           \/ stages[i].status = "RUNNING" /\ stages'[i].status = "UNKNOWN"
  BY <1>t, <1>1, <1>2, RecoveredRow, ClaimedRow
<1>8. Typed'
  BY <1>t, <1>3 DEF Typed, sessionVars
<1>9. StagesTyped'
  BY <1>3, <1>5, <1>6, <1>8 DEF StageInv, StagesTyped
<1>10. WorkInv'
  <2>1. \A v \in Workers : v # w => ~(~Doing(v, "idle") /\ job[v].stage = next)
    BY <1>t, <1>2 DEF WorkInv
  <2>2. executions[next] = 0
    BY <1>t, <1>2 DEF WorkInv
  <2>3. \A v \in Workers : ~Doing(v, "idle")' => job'[v].stage \in DOMAIN stages'
    BY <1>t, <1>2, <1>5, <1>6 DEF WorkInv, Doing
  <2>4. \A u, v \in Workers : ~Doing(u, "idle")' /\ ~Doing(v, "idle")'
                                /\ job'[u].stage = job'[v].stage => u = v
    BY SMTT(30), <1>t, <1>6, <2>1 DEF WorkInv, Doing
  <2>5. \A v \in Workers : /\ Doing(v, "claimed")' => executions'[job'[v].stage] = 0
                           /\ Doing(v, "executed")' => executions'[job'[v].stage] = 1
    BY <1>t, <1>3, <1>6, <2>2 DEF WorkInv, Doing
  <2>6. ASSUME NEW i \in DOMAIN stages'
        PROVE  /\ stages'[i].status = "QUEUED" =>
                    executions'[i] = 0 /\ \A v \in Workers : Doing(v, "idle")' \/ job'[v].stage # i
               /\ executions'[i] <= 1
               /\ stages'[i].status \in Results => executions'[i] = 1
    <3>1. CASE i = next
      BY <3>1, <1>3, <1>7, <2>2 DEF Results
    <3>2. CASE i # next
      <4>1. i \in DOMAIN stages /\ executions' = executions
        BY <1>3, <1>5
      <4>2. \A v \in Workers : Doing(v, "idle") \/ job[v].stage # i =>
              Doing(v, "idle")' \/ job'[v].stage # i
        BY <3>2, <1>6 DEF Doing
      <4> QED
        BY <1>t, <1>7, <3>2, <4>1, <4>2 DEF WorkInv, Results
    <3> QED
      BY <3>1, <3>2
  <2> QED
    BY <2>3, <2>4, <2>5, <2>6 DEF WorkInv
<1>11. Settles
  BY <1>2, <1>5, <1>7 DEF Settles, TERMINAL
<1> QED
  BY <1>9, <1>10, <1>11 DEF StageInv

(* A worker goes on with its stage, settles it or gives it up.             *)
LEMMA JobSteps ==
  ASSUME StageInv, NEW w \in Workers,
         Execute(w) \/ FinishClaim(w) \/ LeaseLost(w) \/ MarkUnknown(w) \/ WorkerDies(w)
  PROVE  StageInv' /\ Settles
<1>t. /\ Typed /\ WorkInv
      /\ stages \in Seq(StageRows) /\ executions \in Seq(Nat) /\ Len(executions) = Len(stages)
      /\ DOMAIN stages = 1..Len(stages) /\ Len(stages) \in Nat
      /\ DOMAIN executions = DOMAIN stages
      /\ job \in [Workers -> Jobs] /\ job[w] \in Jobs
      /\ NoJob \in Jobs /\ NoJob.pc = "idle"
  BY DEF StageInv, StagesTyped, NoJob, Jobs
<1>u. UNCHANGED <<sessionVars, analyses>>
  BY DEF Execute, FinishClaim, LeaseLost, MarkUnknown, WorkerDies
<1>v. Typed' /\ analyses' \subseteq Accounts
  BY <1>t, <1>u DEF Typed, sessionVars, StageInv, StagesTyped
<1> DEFINE k == job[w].stage
<1>k. ~Doing(w, "idle") /\ k \in DOMAIN stages
  BY <1>t DEF Execute, FinishClaim, LeaseLost, MarkUnknown, WorkerDies, Doing, WorkInv
<1>1. CASE Execute(w)
  <2>1. PICK pc \in {"executed", "lost"} : job' = [job EXCEPT ![w].pc = pc]
    BY <1>1 DEF Execute
  <2>2. /\ job' \in [Workers -> Jobs] /\ job'[w].pc = pc /\ job'[w].stage = k
        /\ \A v \in Workers : v # w => job'[v] = job[v]
    BY <1>t, <2>1 DEF Jobs
  <2>3. /\ executions' = [executions EXCEPT ![k] = @ + 1] /\ stages' = stages
        /\ executions[k] = 0
    BY <1>t, <1>1 DEF Execute, WorkInv
  <2>4. /\ executions' \in Seq(Nat) /\ Len(executions') = Len(stages) /\ executions'[k] = 1
        /\ \A i \in DOMAIN stages : i # k => executions'[i] = executions[i]
    BY <1>t, <1>k, <2>3
  <2>5. StagesTyped'
    BY <1>t, <1>v, <2>2, <2>3, <2>4 DEF StagesTyped
  <2>6. \A v \in Workers : ~Doing(v, "idle")' => ~Doing(v, "idle")
    BY <1>k, <2>2 DEF Doing
  <2>7. \A v \in Workers : v # w /\ ~Doing(v, "idle") => job[v].stage # k
    BY <1>t, <1>k DEF WorkInv
  <2>8. \A v \in Workers : job'[v].stage = job[v].stage
    BY <2>2
  <2>9. ASSUME NEW v \in Workers
        PROVE  /\ Doing(v, "claimed")' => executions'[job'[v].stage] = 0
               /\ Doing(v, "executed")' => executions'[job'[v].stage] = 1
    <3>1. CASE v = w
      BY <3>1, <2>2, <2>4 DEF Doing
    <3>2. CASE v # w
      <4>1. job'[v] = job[v]
        BY <3>2, <2>2
      <4>2. ~Doing(v, "idle") => executions'[job[v].stage] = executions[job[v].stage]
        BY <1>t, <3>2, <2>4, <2>7 DEF WorkInv
      <4>3. Doing(v, "claimed") \/ Doing(v, "executed") => ~Doing(v, "idle")
        BY DEF Doing
      <4> QED
        BY <1>t, <4>1, <4>2, <4>3 DEF WorkInv, Doing
    <3> QED
      BY <3>1, <3>2
  <2>10. ASSUME NEW i \in DOMAIN stages
         PROVE  /\ stages[i].status = "QUEUED" =>
                     executions'[i] = 0 /\ \A v \in Workers : Doing(v, "idle")' \/ job'[v].stage # i
                /\ executions'[i] <= 1
                /\ stages[i].status \in Results => executions'[i] = 1
    <3>1. CASE i = k
      <4>1. stages[i].status # "QUEUED"
        BY <3>1, <1>t, <1>k DEF WorkInv
      <4>2. executions'[i] = 1 /\ executions'[i] <= 1
        BY <3>1, <2>4
      <4> QED
        BY <4>1, <4>2
    <3>2. CASE i # k
      <4>1. executions'[i] = executions[i]
        BY <3>2, <2>4
      <4>2. \A v \in Workers : Doing(v, "idle") \/ job[v].stage # i =>
              Doing(v, "idle")' \/ job'[v].stage # i
        BY <2>6, <2>8
      <4>3. /\ stages[i].status = "QUEUED" =>
                 executions[i] = 0 /\ \A v \in Workers : Doing(v, "idle") \/ job[v].stage # i
            /\ executions[i] <= 1
            /\ stages[i].status \in Results => executions[i] = 1
        BY <1>t DEF WorkInv
      <4> QED
        BY <4>1, <4>2, <4>3
    <3> QED
      BY <3>1, <3>2
  <2>11. WorkInv'
    BY SMTT(30), <1>t, <2>3, <2>6, <2>8, <2>9, <2>10 DEF WorkInv
  <2> QED
    BY <2>3, <2>5, <2>11 DEF StageInv, Settles
<1>2. CASE FinishClaim(w)
  <2>1. PICK outcome \in Outcomes(stages[k]) \cup {"UNKNOWN"} :
          stages' = [stages EXCEPT ![k] = Settled(@, outcome)]
    BY <1>2 DEF FinishClaim
  <2>2. /\ stages[k].status = "RUNNING" /\ Doing(w, "executed")
        /\ job' = [job EXCEPT ![w] = NoJob] /\ UNCHANGED executions
    BY <1>2 DEF FinishClaim, Holds, OwnedBy
  <2>3. outcome \in STAGE_STATUSES \ {"QUEUED"}
    BY DEF Outcomes, AnalysisOutcome, LocalOutcomes, EvidenceOutcomes, PassiveOutcomes,
           STAGE_STATUSES
  <2>4. Settled(stages[k], outcome) \in StageRows /\ Settled(stages[k], outcome).status = outcome
    BY <1>t, <1>k, <2>3, SettledRow
  <2>5. /\ stages' \in Seq(StageRows) /\ Len(stages') = Len(stages)
        /\ DOMAIN stages' = DOMAIN stages /\ stages'[k].status = outcome
        /\ \A i \in DOMAIN stages : i # k => stages'[i] = stages[i]
    BY <1>t, <1>k, <2>1, <2>4
  <2>6. /\ job' \in [Workers -> Jobs] /\ job'[w].pc = "idle"
        /\ \A v \in Workers : v # w => job'[v] = job[v]
    BY <1>t, <2>2
  <2>7. StagesTyped'
    BY <1>t, <1>v, <2>2, <2>5, <2>6 DEF StagesTyped
  <2>8. executions[k] = 1
    BY <1>t, <2>2 DEF WorkInv
  <2>9. WorkInv'
    <3>1. /\ Doing(w, "idle")'
          /\ \A v \in Workers : v # w => \A pc \in {"idle", "claimed", "executed"} :
               Doing(v, pc)' <=> Doing(v, pc)
      BY <2>6 DEF Doing
    <3>2. \A v \in Workers : ~Doing(v, "idle")' => v # w /\ ~Doing(v, "idle")
                                                  /\ job'[v].stage = job[v].stage
      BY <2>6, <3>1
    <3>3. \A v \in Workers : /\ Doing(v, "claimed")' => v # w /\ Doing(v, "claimed")
                             /\ Doing(v, "executed")' => v # w /\ Doing(v, "executed")
      BY <2>6 DEF Doing
    <3>4. ASSUME NEW i \in DOMAIN stages
          PROVE  /\ stages'[i].status = "QUEUED" =>
                      executions[i] = 0 /\ \A v \in Workers : Doing(v, "idle")' \/ job'[v].stage # i
                 /\ executions[i] <= 1
                 /\ stages'[i].status \in Results => executions[i] = 1
      <4>1. CASE i = k
        BY <4>1, <2>3, <2>5, <2>8
      <4>2. CASE i # k
        BY <4>2, <1>t, <2>5, <3>2 DEF WorkInv
      <4> QED
        BY <4>1, <4>2
    <3>5. \A v \in Workers : ~Doing(v, "idle")' => job'[v].stage \in DOMAIN stages
      BY <1>t, <3>2 DEF WorkInv
    <3>6. \A u, v \in Workers : ~Doing(u, "idle")' /\ ~Doing(v, "idle")'
                                  /\ job'[u].stage = job'[v].stage => u = v
      BY <1>t, <3>2 DEF WorkInv
    <3>7. \A v \in Workers : /\ Doing(v, "claimed")' => executions[job'[v].stage] = 0
                             /\ Doing(v, "executed")' => executions[job'[v].stage] = 1
      BY <1>t, <2>6, <3>3 DEF WorkInv
    <3> QED
      BY <2>2, <2>5, <3>4, <3>5, <3>6, <3>7 DEF WorkInv
  <2>10. Settles
    BY <2>2, <2>5 DEF Settles, TERMINAL
  <2> QED
    BY <2>7, <2>9, <2>10 DEF StageInv
<1>3. CASE LeaseLost(w)
  <2>1. /\ job' = [job EXCEPT ![w].pc = "lost"] /\ UNCHANGED <<stages, executions>>
    BY <1>3 DEF LeaseLost
  <2>2. /\ job' \in [Workers -> Jobs] /\ job'[w].pc = "lost" /\ job'[w].stage = k
        /\ \A v \in Workers : v # w => job'[v] = job[v]
    BY <1>t, <2>1 DEF Jobs
  <2>3. StagesTyped'
    BY <1>t, <1>v, <2>1, <2>2 DEF StagesTyped
  <2>4. WorkInv'
    BY <1>t, <1>k, <2>1, <2>2 DEF WorkInv, Doing
  <2> QED
    BY <2>1, <2>3, <2>4 DEF StageInv, Settles
<1>4. CASE MarkUnknown(w)
  <2>1. /\ stages' = [stages EXCEPT ![k] = IF OwnedBy(w, @) THEN Settled(@, "UNKNOWN") ELSE @]
        /\ job' = [job EXCEPT ![w] = NoJob] /\ UNCHANGED executions
    BY <1>4 DEF MarkUnknown
  <2>2. /\ Settled(stages[k], "UNKNOWN") \in StageRows
        /\ Settled(stages[k], "UNKNOWN").status = "UNKNOWN"
    BY <1>t, <1>k, SettledRow DEF STAGE_STATUSES
  <2>3. /\ stages' \in Seq(StageRows) /\ Len(stages') = Len(stages)
        /\ DOMAIN stages' = DOMAIN stages
        /\ \/ stages'[k] = stages[k]
           \/ stages[k].status = "RUNNING" /\ stages'[k].status = "UNKNOWN"
        /\ \A i \in DOMAIN stages : i # k => stages'[i] = stages[i]
    BY <1>t, <1>k, <2>1, <2>2 DEF OwnedBy
  <2>4. /\ job' \in [Workers -> Jobs] /\ job'[w].pc = "idle"
        /\ \A v \in Workers : v # w => job'[v] = job[v]
    BY <1>t, <2>1
  <2>5. StagesTyped'
    BY <1>t, <1>v, <2>1, <2>3, <2>4 DEF StagesTyped
  <2>6. WorkInv'
    BY <1>t, <1>k, <2>1, <2>3, <2>4 DEF WorkInv, Doing, Results
  <2>7. Settles
    BY <2>3 DEF Settles, TERMINAL
  <2> QED
    BY <2>5, <2>6, <2>7 DEF StageInv
<1>5. CASE WorkerDies(w)
  <2>1. job' = [job EXCEPT ![w] = NoJob] /\ UNCHANGED <<stages, executions>>
    BY <1>5 DEF WorkerDies
  <2>2. /\ job' \in [Workers -> Jobs] /\ job'[w].pc = "idle"
        /\ \A v \in Workers : v # w => job'[v] = job[v]
    BY <1>t, <2>1
  <2>3. StagesTyped'
    BY <1>t, <1>v, <2>1, <2>2 DEF StagesTyped
  <2>4. WorkInv'
    BY <1>t, <2>1, <2>2 DEF WorkInv, Doing
  <2> QED
    BY <2>1, <2>3, <2>4 DEF StageInv, Settles
<1> QED
  BY <1>1, <1>2, <1>3, <1>4, <1>5

LEMMA StageStep == StageInv /\ [Next]_vars => StageInv' /\ Settles
<1> SUFFICES ASSUME StageInv, [Next]_vars PROVE StageInv' /\ Settles
  OBVIOUS
<1>1. CASE SessionNext /\ UNCHANGED stageVars
  <2>1. Typed'
    BY <1>1, TypedStep DEF StageInv, StagesTyped
  <2>2. UNCHANGED <<analyses, stages, job, executions>>
    BY <1>1 DEF stageVars
  <2> QED
    BY <2>1, <2>2 DEF StageInv, StagesTyped, WorkInv, Doing, Settles
<1>2. ASSUME NEW c \in Clients, Analyze(c) \/ CreateStage(c) \/ CancelStage(c)
      PROVE  StageInv' /\ Settles
  BY <1>2, RequestSteps
<1>3. CASE LeaseExpires
  BY <1>3, ExpirySteps
<1>4. ASSUME NEW w \in Workers, Work(w) PROVE StageInv' /\ Settles
  <2>1. CASE ClaimNext(w)
    BY <2>1, ClaimStep
  <2>2. CASE RecoverOnly(w)
    BY <2>2, ExpirySteps
  <2>3. CASE Execute(w) \/ FinishClaim(w) \/ LeaseLost(w) \/ MarkUnknown(w) \/ WorkerDies(w)
    BY <2>3, JobSteps
  <2> QED
    BY <1>4, <2>1, <2>2, <2>3 DEF Work
<1>5. CASE UNCHANGED vars
  <2>1. UNCHANGED <<users, sessions, tasks, keys, call, analyses, stages, job, executions>>
    BY <1>5 DEF vars, sessionVars, stageVars
  <2> QED
    BY <2>1 DEF StageInv, StagesTyped, Typed, WorkInv, Doing, Settles
<1> QED
  BY <1>1, <1>2, <1>3, <1>4, <1>5 DEF Next

-----------------------------------------------------------------------------
(* Theorem *)

(* The work of a stage is begun at most once, a result is recorded only of *)
(* work that was done, and a settled stage stays as it is.                 *)
THEOREM StageVerdictsStand == Spec => VerdictsStand
<1>1. Spec => []StageInv
  BY StageInit, StageStep, PTL DEF Spec
<1>2. StageInv /\ StageInv' /\ [Next]_vars =>
        [\A i \in DOMAIN stages :
           /\ executions'[i] <= 1
           /\ stages'[i].status \in {"COMPLETED", "PARTIAL", "FAILED", "UNAVAILABLE"}
                => executions'[i] = 1
           /\ stages[i].status \in TERMINAL => stages'[i] = stages[i]]_vars
  BY StageStep DEF StageInv, WorkInv, Settles, Results
<1> QED
  BY <1>1, <1>2, PTL DEF Spec, VerdictsStand

-----------------------------------------------------------------------------
(* References and limits *)

(* The owner's role is the owner's, and sessions, tasks and requests under *)
(* way name accounts there are: no account is ever deleted.                *)
Refer ==
  /\ \A u \in DOMAIN users : users[u].role = "OWNER" => u = Owner
  /\ \A s \in DOMAIN sessions : sessions[s].user \in DOMAIN users
  /\ \A t \in DOMAIN tasks : tasks[t].owner \in DOMAIN users \cup {NoUser}
  /\ \A c \in Clients : At(c, "authenticated") \/ At(c, "protected") =>
       call[c].user \in DOMAIN users \cup {NoUser}

LEMMA ReferStep == Typed /\ Refer /\ SessionNext => Refer'
<1> SUFFICES ASSUME Typed, Refer, SessionNext PROVE Refer'
  OBVIOUS
<1> DEFINE U == \A u \in DOMAIN users : users[u].role = "OWNER" => u = Owner
           S == \A s \in DOMAIN sessions : sessions[s].user \in DOMAIN users
           T == \A t \in DOMAIN tasks : tasks[t].owner \in DOMAIN users \cup {NoUser}
           C == \A c \in Clients : At(c, "authenticated") \/ At(c, "protected") =>
                  call[c].user \in DOMAIN users \cup {NoUser}
           Grows == DOMAIN users \subseteq DOMAIN users'
<1>t. /\ U /\ S /\ T /\ C
      /\ users \in [DOMAIN users -> Rows] /\ sessions \in [DOMAIN sessions -> Opened]
      /\ tasks \in [DOMAIN tasks -> Made] /\ call \in [Clients -> Calls]
  BY DEF Typed, Refer
<1>q. U' /\ S' /\ T' /\ C' => Refer'
  BY DEF Refer
<1>s. Grows /\ UNCHANGED sessions => S'
  BY <1>t
<1>w. Grows /\ UNCHANGED tasks => T'
  BY <1>t
<1>c. Grows /\ UNCHANGED call => C'
  BY <1>t DEF At
<1>d. ASSUME NEW c \in Clients, Answered(c), Grows PROVE C'
  BY <1>t, <1>d DEF At, Answered, Idle
<1>u. UNCHANGED users => U' /\ Grows
  BY <1>t
<1>l. ASSUME NEW u \in DOMAIN users, NEW b, users' = [users EXCEPT ![u].locked = b]
      PROVE  U' /\ Grows
  BY <1>t, <1>l DEF Rows
<1>1. CASE InitializeOwner
  <2>1. U' /\ Grows
    BY <1>1, <1>t DEF InitializeOwner, Put, Account
  <2> QED
    BY <1>1, <1>q, <1>s, <1>w, <1>c, <2>1 DEF InitializeOwner
<1>2. CASE SessionExpires
  <2>1. S' /\ UNCHANGED <<users, tasks, keys, call>>
    BY <1>2, <1>t DEF SessionExpires, Opened
  <2> QED
    BY <1>q, <1>w, <1>c, <1>u, <2>1
<1>3. CASE LockEnds
  <2>1. U' /\ Grows /\ UNCHANGED <<sessions, tasks, keys, call>>
    BY <1>3, <1>l DEF LockEnds
  <2> QED
    BY <1>q, <1>s, <1>w, <1>c, <2>1
<1>4. ASSUME NEW c \in Clients, Serve(c) PROVE Refer'
  <2>t. call[c] \in Calls
    BY <1>t
  <2>1. CASE AuthenticateSession(c)
    <3>1. PICK s \in DOMAIN sessions :
            Usable(s) /\ Authenticated(c, sessions[s].user, s, users[sessions[s].user].role)
      BY <2>1 DEF AuthenticateSession
    <3>2. C' /\ UNCHANGED <<users, sessions, tasks, keys>>
      BY <1>t, <2>t, <3>1 DEF Authenticated, At, Idle
    <3> QED
      BY <1>q, <1>s, <1>w, <1>u, <3>2
  <2>2. CASE AuthenticateBearer(c)
    <3>1. C' /\ UNCHANGED <<users, sessions, tasks, keys>>
      BY <1>t, <2>t, <2>2 DEF AuthenticateBearer, Authenticated, At, Idle
    <3> QED
      BY <1>q, <1>s, <1>w, <1>u, <3>1
  <2>3. CASE VerifyCsrf(c)
    <3>1. C' /\ UNCHANGED <<users, sessions, tasks, keys>>
      BY <1>t, <2>t, <2>3 DEF VerifyCsrf, At, Calls
    <3> QED
      BY <1>q, <1>s, <1>w, <1>u, <3>1
  <2>4. CASE Ends(c) \/ LoginRefused(c)
    BY <2>4, <1>q, <1>s, <1>w, <1>u, <1>d DEF Ends, LoginRefused
  <2>5. CASE BeginLogin(c)
    <3>1. C' /\ UNCHANGED <<users, sessions, tasks, keys>>
      BY <1>t, <2>t, <2>5 DEF BeginLogin, At, Idle
    <3> QED
      BY <1>q, <1>s, <1>w, <1>u, <3>1
  <2>6. CASE LoginFails(c)
    <3>1. Answered(c) /\ UNCHANGED <<sessions, tasks, keys>>
      BY <2>6 DEF LoginFails
    <3>2. U' /\ Grows
      <4>1. CASE Active(call[c].user)
        <5>1. PICK locks \in BOOLEAN :
                users' = [users EXCEPT ![call[c].user].locked = @ \/ locks]
          BY <2>6, <4>1 DEF LoginFails
        <5>2. DOMAIN users' = DOMAIN users
              /\ \A u \in DOMAIN users : users'[u].role = users[u].role
          BY <1>t, <5>1 DEF Rows
        <5> QED
          BY <1>t, <5>2
      <4>2. CASE ~Active(call[c].user)
        BY <2>6, <4>2, <1>u DEF LoginFails
      <4> QED
        BY <4>1, <4>2
    <3> QED
      BY <1>q, <1>s, <1>w, <1>d, <3>1, <3>2
  <2>7. CASE OpenSession(c)
    <3>1. Answered(c) /\ UNCHANGED <<tasks, keys>> /\ call[c].user \in DOMAIN users
      BY <2>7 DEF OpenSession, StillActive, Active, Exists
    <3>2. U' /\ Grows
      BY <2>7, <1>l, <3>1 DEF OpenSession
    <3>3. S'
      BY <2>7, <1>t, <3>1, <3>2 DEF OpenSession, Put
    <3> QED
      BY <1>q, <1>w, <1>d, <3>1, <3>2, <3>3
  <2>8. CASE Logout(c)
    <3>1. Answered(c) /\ UNCHANGED <<users, tasks, keys>>
      BY <2>8 DEF Logout
    <3>2. S'
      BY <2>8, <1>t, <3>1 DEF Logout, Opened
    <3> QED
      BY <1>q, <1>w, <1>d, <1>u, <3>1, <3>2
  <2>9. CASE CreateUser(c) \/ SetRole(c)
    <3>1. Answered(c) /\ UNCHANGED <<sessions, tasks, keys>>
      BY <2>9 DEF CreateUser, SetRole
    <3>2. U' /\ Grows
      <4>1. CASE CreateUser(c)
        BY <4>1, <1>t DEF CreateUser, Put, Account, Exists
      <4>2. CASE SetRole(c)
        BY <4>2, <1>t DEF SetRole, Rows
      <4> QED
        BY <2>9, <4>1, <4>2
    <3> QED
      BY <1>q, <1>s, <1>w, <1>d, <3>1, <3>2
  <2>10. CASE DisableUser(c)
    <3>1. Answered(c) /\ UNCHANGED <<tasks, keys>>
      BY <2>10 DEF DisableUser
    <3>2. PICK u \in Users : /\ users' = [users EXCEPT ![u].active = FALSE]
                             /\ sessions' = Revoke(u)
      BY <2>10 DEF DisableUser
    <3>3. U' /\ Grows
      BY <1>t, <3>2 DEF Rows
    <3>4. S'
      BY <1>t, <3>2, <3>3 DEF Revoke, Opened
    <3> QED
      BY <1>q, <1>w, <1>d, <3>1, <3>3, <3>4
  <2>11. CASE CreateTask(c)
    <3>1. UNCHANGED <<users, sessions>>
      BY <2>11 DEF CreateTask
    <3>2. PICK t \in Tasks, k \in {NoKey} \cup Keys, r \in Requests :
            /\ tasks' = Put(tasks, t, [owner |-> call[c].user, key |-> k, request |-> r])
            /\ Answer(c, t, k, r)
      BY <2>11 DEF CreateTask
    <3>3. call[c].user \in DOMAIN users \cup {NoUser}
      BY <2>11, <1>t DEF CreateTask, Ready
    <3>4. T'
      BY <1>t, <3>1, <3>2, <3>3 DEF Put
    <3>5. C'
      BY <1>t, <2>t, <3>1, <3>2 DEF Answer, At, Calls
    <3> QED
      BY <1>q, <1>s, <1>u, <3>1, <3>4, <3>5
  <2>12. CASE ReplayTask(c) \/ GetTask(c) \/ ListTasks(c) \/ BugBountyTask(c)
    <3>1. UNCHANGED <<users, sessions, tasks, keys>>
      BY <2>12 DEF ReplayTask, GetTask, ListTasks, BugBountyTask, Read
    <3>2. \E t, k, r : Answer(c, t, k, r)
      BY <2>12 DEF ReplayTask, GetTask, ListTasks, BugBountyTask, Read
    <3>3. C'
      BY <1>t, <2>t, <3>1, <3>2 DEF Answer, At, Calls
    <3> QED
      BY <1>q, <1>s, <1>w, <1>u, <3>1, <3>3
  <2> QED
    BY <1>4, <2>1, <2>2, <2>3, <2>4, <2>5, <2>6, <2>7, <2>8, <2>9, <2>10, <2>11, <2>12 DEF Serve
<1> QED
  BY <1>1, <1>2, <1>3, <1>4 DEF SessionNext

(* No stage has more attempts than it may have, no account more stages of  *)
(* one analysis.                                                           *)
Limited ==
  /\ \A i \in DOMAIN stages : stages[i].attempts \in 0..MaxAttempts
  /\ \A analysis, owner \in Accounts : Count(analysis, owner) <= StageLimit

(* Rows keep their analysis and their owner.                               *)
LEMMA SameRows ==
  ASSUME Limited, DOMAIN stages' = DOMAIN stages,
         \A i \in DOMAIN stages : /\ stages'[i].analysis = stages[i].analysis
                                  /\ stages'[i].owner = stages[i].owner
                                  /\ stages'[i].attempts \in 0..MaxAttempts
  PROVE  Limited'
<1>1. ASSUME NEW a \in Accounts, NEW o \in Accounts
      PROVE  {i \in DOMAIN stages' : stages'[i].analysis = a /\ stages'[i].owner = o}
               = {i \in DOMAIN stages : stages[i].analysis = a /\ stages[i].owner = o}
  OBVIOUS
<1>2. ASSUME NEW a \in Accounts, NEW o \in Accounts
      PROVE  Cardinality({i \in DOMAIN stages' : stages'[i].analysis = a /\ stages'[i].owner = o})
               <= StageLimit
  BY <1>1, Zenon DEF Limited, Count
<1> QED
  BY <1>2 DEF Limited, Count

LEMMA RowData ==
  ASSUME NEW r \in StageRows, NEW status
  PROVE  /\ Settled(r, status).analysis = r.analysis /\ Settled(r, status).owner = r.owner
         /\ Settled(r, status).attempts = r.attempts
         /\ Recovered(r).analysis = r.analysis /\ Recovered(r).owner = r.owner
         /\ Recovered(r).attempts = r.attempts
         /\ Claimed(r).analysis = r.analysis /\ Claimed(r).owner = r.owner
         /\ Claimed(r).attempts = r.attempts + 1
BY DEF Settled, Recovered, Claimed, StageRows

LEMMA LimitedStep == StageInv /\ Limited /\ [Next]_vars => Limited'
<1> SUFFICES ASSUME StageInv, Limited, [Next]_vars PROVE Limited'
  OBVIOUS
<1>t. /\ stages \in Seq(StageRows) /\ DOMAIN stages = 1..Len(stages) /\ Len(stages) \in Nat
      /\ \A i \in DOMAIN stages : stages[i] \in StageRows
      /\ call \in [Clients -> Calls] /\ analyses \subseteq Accounts
  BY DEF StageInv, StagesTyped, Typed
<1>n. MaxAttempts \in Nat /\ StageLimit \in Nat
  BY StageAssumption
<1>u. UNCHANGED stages => Limited'
  BY DEF Limited, Count
<1>d. \A i \in DOMAIN stages : stages[i].attempts \in 0..MaxAttempts
  BY DEF Limited
<1>s. ASSUME NEW i \in DOMAIN stages, NEW status, stages' = [stages EXCEPT ![i] = Settled(@, status)]
      PROVE  Limited'
  BY <1>s, <1>t, <1>d, RowData, SameRows
<1>1. ASSUME NEW c \in Clients, Analyze(c) \/ CreateStage(c) \/ CancelStage(c)
      PROVE  Limited'
  <2>1. CASE Analyze(c)
    BY <2>1, <1>u DEF Analyze
  <2>2. CASE CreateStage(c)
    <3>1. PICK a \in analyses :
            /\ Below(a, call[c].user) /\ stages' = Append(stages, Stage(a, call[c].user))
      BY <2>2 DEF CreateStage
    <3> DEFINE n == Len(stages) + 1
               row == Stage(a, call[c].user)
    <3>2. row.analysis = a /\ row.owner = call[c].user /\ row.attempts = 0
      BY DEF Stage
    <3> HIDE DEF row
    <3>3. /\ DOMAIN stages' = DOMAIN stages \cup {n} /\ n \notin DOMAIN stages
          /\ stages'[n] = row /\ \A i \in DOMAIN stages : stages'[i] = stages[i]
      BY <1>t, <3>1 DEF row
    <3> HIDE DEF n
    <3>4. \A i \in DOMAIN stages' : stages'[i].attempts \in 0..MaxAttempts
      BY <1>d, <1>n, <3>2, <3>3
    <3>5. ASSUME NEW x \in Accounts, NEW o \in Accounts
          PROVE  Cardinality({i \in DOMAIN stages' : stages'[i].analysis = x /\ stages'[i].owner = o})
                   <= StageLimit
      <4> DEFINE Before == {i \in DOMAIN stages : stages[i].analysis = x /\ stages[i].owner = o}
                 After == {i \in DOMAIN stages' : stages'[i].analysis = x /\ stages'[i].owner = o}
      <4>1. IsFiniteSet(Before)
        <5>1. IsFiniteSet(DOMAIN stages)
          BY <1>t, FS_Interval
        <5>2. Before \in SUBSET DOMAIN stages
          OBVIOUS
        <5> QED
          BY <5>1, <5>2, FS_Subset
      <4>2. Cardinality(Before) <= StageLimit
        BY Zenon DEF Limited, Count
      <4>3. CASE x = a /\ o = call[c].user
        <5>1. After = Before \cup {n}
          BY <4>3, <3>2, <3>3
        <5>2. Cardinality(Before) < StageLimit
          BY <4>3, <3>1 DEF Below, Count
        <5>3. n \notin Before
          BY <3>3
        <5> HIDE DEF Before, After
        <5>4. Cardinality(After) = Cardinality(Before) + 1 /\ Cardinality(Before) \in Nat
          BY <4>1, <5>1, <5>3, FS_AddElement, FS_CardinalityType
        <5>5. Cardinality(After) <= StageLimit
          BY <1>n, <5>2, <5>4
        <5> QED
          BY <5>5 DEF After
      <4>4. CASE ~(x = a /\ o = call[c].user)
        <5>1. After = Before
          BY <4>4, <3>2, <3>3
        <5> QED
          BY <4>2, <5>1
      <4> QED
        BY <4>3, <4>4
    <3> QED
      BY <3>4, <3>5 DEF Limited, Count
  <2>3. CASE CancelStage(c)
    BY <2>3, <1>s DEF CancelStage
  <2> QED
    BY <1>1, <2>1, <2>2, <2>3
<1>2. CASE LeaseExpires
  <2>1. PICK i \in DOMAIN stages : stages' = [stages EXCEPT ![i].expired = TRUE]
    BY <1>2 DEF LeaseExpires
  <2>2. /\ DOMAIN stages' = DOMAIN stages
        /\ \A k \in DOMAIN stages : /\ stages'[k].analysis = stages[k].analysis
                                    /\ stages'[k].owner = stages[k].owner
                                    /\ stages'[k].attempts = stages[k].attempts
    BY <1>t, <2>1 DEF StageRows
  <2> QED
    BY <1>d, <2>2, SameRows
<1>3. ASSUME NEW w \in Workers, Work(w) PROVE Limited'
  <2>1. CASE ClaimNext(w)
    <3>1. PICK next \in Claimable :
            stages' = [i \in DOMAIN stages |-> IF i = next THEN Claimed(stages[i])
                                                           ELSE Recovered(stages[i])]
      BY <2>1 DEF ClaimNext
    <3>2. next \in DOMAIN stages /\ stages[next].attempts < MaxAttempts
      BY <3>1 DEF Claimable
    <3>3. stages[next].attempts + 1 \in 0..MaxAttempts
      BY <1>d, <1>n, <3>2
    <3>4. DOMAIN stages' = DOMAIN stages
      BY <3>1
    <3>5. ASSUME NEW i \in DOMAIN stages
          PROVE  /\ stages'[i].analysis = stages[i].analysis /\ stages'[i].owner = stages[i].owner
                 /\ stages'[i].attempts \in 0..MaxAttempts
      <4>1. CASE i = next
        BY <4>1, <1>t, <3>1, <3>3, RowData
      <4>2. CASE i # next
        BY <4>2, <1>t, <1>d, <3>1, RowData
      <4> QED
        BY <4>1, <4>2
    <3> QED
      BY <3>4, <3>5, SameRows
  <2>2. CASE RecoverOnly(w)
    <3>1. stages' = [i \in DOMAIN stages |-> Recovered(stages[i])]
      BY <2>2 DEF RecoverOnly
    <3> QED
      BY <1>t, <1>d, <3>1, RowData, SameRows
  <2>3. CASE Execute(w) \/ LeaseLost(w) \/ WorkerDies(w)
    BY <2>3, <1>u DEF Execute, LeaseLost, WorkerDies
  <2>4. CASE FinishClaim(w) \/ MarkUnknown(w)
    <3> DEFINE k == job[w].stage
    <3>1. k \in DOMAIN stages
      BY <2>4 DEF FinishClaim, MarkUnknown, Doing, StageInv, WorkInv
    <3>2. UNCHANGED stages \/ \E status : stages' = [stages EXCEPT ![k] = Settled(@, status)]
      BY <2>4, <1>t, <3>1 DEF FinishClaim, MarkUnknown
    <3> QED
      BY <1>s, <1>u, <3>1, <3>2
  <2> QED
    BY <1>3, <2>1, <2>2, <2>3, <2>4 DEF Work
<1>4. CASE (SessionNext /\ UNCHANGED stageVars) \/ UNCHANGED vars
  BY <1>4, <1>u DEF stageVars, vars
<1> QED
  BY <1>1, <1>2, <1>3, <1>4 DEF Next

LEMMA ReferKept == Typed /\ Refer /\ [Next]_vars => Refer'
<1> SUFFICES ASSUME Typed, Refer, [Next]_vars PROVE Refer'
  OBVIOUS
<1>1. CASE SessionNext
  BY <1>1, ReferStep
<1>2. CASE UNCHANGED sessionVars
  BY <1>2 DEF sessionVars, Refer, At
<1>3. ASSUME NEW c \in Clients, Analyze(c) \/ CreateStage(c) \/ CancelStage(c) PROVE Refer'
  <2>1. Answered(c) /\ UNCHANGED <<users, sessions, tasks>>
    BY <1>3 DEF Analyze, CreateStage, CancelStage
  <2> QED
    BY <2>1 DEF Refer, Typed, Answered, At, Idle
<1>4. ASSUME NEW w \in Workers, Work(w) PROVE Refer'
  BY <1>2, <1>4 DEF Work, ClaimNext, RecoverOnly, Execute, FinishClaim, LeaseLost, MarkUnknown,
                    WorkerDies
<1> QED
  BY <1>1, <1>2, <1>3, <1>4 DEF Next, LeaseExpires, vars

(* Tables refer to accounts that exist, the owner is one account, and no   *)
(* requests racing each other make more stages of an analysis, nor workers *)
(* more attempts, than the limits say.                                     *)
THEOREM StageTypeCorrect == Spec => []TypeOK
<1>1. Init => Refer /\ Limited
  <2> SUFFICES ASSUME Init PROVE Refer /\ Limited
    OBVIOUS
  <2>1. Refer
    BY DEF Init, SessionInit, Refer, At, Idle
  <2>2. DOMAIN stages = {}
    BY DEF Init
  <2>3. ASSUME NEW a, NEW o PROVE Count(a, o) = 0
    <3>1. {i \in DOMAIN stages : stages[i].analysis = a /\ stages[i].owner = o} = {}
      BY <2>2
    <3> QED
      BY <3>1, FS_EmptySet DEF Count
  <2>4. Limited
    BY <2>2, <2>3, StageAssumption DEF Limited
  <2> QED
    BY <2>1, <2>4
<1>2. StageInv => Typed
  BY DEF StageInv, StagesTyped
<1>3. StageInv /\ Refer /\ Limited => TypeOK
  <2> SUFFICES ASSUME StageInv, Refer, Limited PROVE TypeOK
    OBVIOUS
  <2>1. SessionTypeOK
    BY DEF StageInv, StagesTyped, Typed, Refer, SessionTypeOK, Rows, Calls
  <2>2. /\ analyses \subseteq Accounts /\ DOMAIN executions = DOMAIN stages
        /\ \A i \in DOMAIN stages : stages[i] \in StageRows
        /\ \A w \in Workers : job[w] \in Jobs
    BY DEF StageInv, StagesTyped
  <2>3. ASSUME NEW i \in DOMAIN stages
        PROVE  /\ stages[i].status \in STAGE_STATUSES /\ stages[i].attempts \in 0..MaxAttempts
               /\ Count(stages[i].analysis, stages[i].owner) <= StageLimit
    BY <2>2 DEF Limited, StageRows
  <2> QED
    BY <2>1, <2>2, <2>3 DEF TypeOK, Accounts, Jobs
<1> QED
  BY <1>1, <1>2, <1>3, StageInit, StageStep, ReferKept, LimitedStep, PTL DEF Spec
=============================================================================
