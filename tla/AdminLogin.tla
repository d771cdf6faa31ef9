------------------------------ MODULE AdminLogin ------------------------------
(***************************************************************************)
(* Logging in to the administration server (internal/admin): the rate      *)
(* limiter's entry for one client address, the sessions, and requests that *)
(* take their steps while an administrator changes users and time passes.  *)
(* Times are ages in ticks, capped where they no longer make a difference. *)
(***************************************************************************)
EXTENDS Integers, FiniteSets, FiniteSetsExt

CONSTANTS
  AdminUsers,       \* users that exist or may be made administrators
  AdminReqs,        \* handlers, a request at a time each
  MaxLoginAttempts, \* maxAttempts
  WindowSize,       \* windowSize
  BlockDuration,    \* blockDuration
  SessionLife,      \* expiresAt - createdAt
  MaxEdits,         \* bound on changes of is_admin
  NoUser

(* DefaultRateLimiter: 5 attempts, 15 minutes, 30 minutes.  A block that did
   not outlast the window would end inside it. *)
ASSUME LoginAssumption ==
  /\ IsFiniteSet(AdminReqs) /\ NoUser \notin AdminUsers
  /\ {MaxLoginAttempts, WindowSize, BlockDuration, SessionLife} \subseteq Nat \ {0}
  /\ MaxLoginAttempts > 1 /\ BlockDuration > WindowSize /\ MaxEdits \in Nat

VARIABLES
  limit,      \* the attemptInfo: count (0: no entry), age of firstTime, of blockedAt or -1
  isAdmin,    \* users.is_admin; a user not in the domain is deleted
  sessionAge, \* user -> age of its session, -1 without one
  adminReq,   \* the requests
  edits
loginVars == <<limit, isAdmin, sessionAge, adminReq, edits>>

NoEntry == [count |-> 0, first |-> 0, blocked |-> -1]
NewRequest(pc, u, admin) == [pc |-> pc, user |-> u, wasAdmin |-> admin, served |-> FALSE]
NoRequest == NewRequest("idle", NoUser, FALSE)
MaxAge == WindowSize + BlockDuration + 1

LoginInit ==
  /\ limit = NoEntry
  /\ isAdmin = [u \in AdminUsers |-> TRUE]
  /\ sessionAge = [u \in AdminUsers |-> -1]
  /\ adminReq = [r \in AdminReqs |-> NoRequest] /\ edits = 0

ReqAt(r, pc) == adminReq[r].pc = pc
SetReq(r, f) == adminReq' = [adminReq EXCEPT ![r] = f]
EndReq(r, served) == SetReq(r, [adminReq[r] EXCEPT !.pc = "idle", !.served = served])
Admin(u) == u \in DOMAIN isAdmin /\ isAdmin[u]

-----------------------------------------------------------------------------
(* The rate limiter. *)

IsBlocked == limit.blocked >= 0 /\ limit.blocked < BlockDuration

(* The block left out of a window that goes on. *)
RecordFailureUnblocking(info) ==
  CASE info.count = 0 \/ info.first > WindowSize -> [NoEntry EXCEPT !.count = 1]
    [] OTHER -> [info EXCEPT !.count = @ + 1]

(* A first failure or one after the window starts a window; any other counts in
   it and, from maxAttempts on, blocks.                                       *)
RecordFailure(info) ==
  IF info.count = 0 \/ info.first > WindowSize
  THEN [NoEntry EXCEPT !.count = 1]
  ELSE [count |-> info.count + 1, first |-> info.first,
        blocked |-> IF info.count + 1 >= MaxLoginAttempts THEN 0 ELSE info.blocked]

(* cleanup drops an entry older than window and block together. *)
CleanupLimiter ==
  /\ limit.count > 0 /\ limit.first > WindowSize + BlockDuration
  /\ limit' = NoEntry
  /\ UNCHANGED <<isAdmin, sessionAge, adminReq, edits>>

-----------------------------------------------------------------------------
(* handleLogin: refused when blocked; a failed Authenticate is counted; a
   success reads is_admin and either counts as a failure or clears the entry
   and makes a session. *)

Login(r, u) ==
  /\ ReqAt(r, "idle") /\ ~IsBlocked
  /\ SetReq(r, NewRequest("login", u, FALSE))
  /\ UNCHANGED <<limit, isAdmin, sessionAge, edits>>

LoginFails(r) ==
  /\ ReqAt(r, "login") /\ (adminReq[r].user = NoUser \/ ~Admin(adminReq[r].user))
  /\ limit' = RecordFailure(limit)
  /\ EndReq(r, FALSE)
  /\ UNCHANGED <<isAdmin, sessionAge, edits>>

LoginSucceeds(r) ==
  /\ ReqAt(r, "login") /\ adminReq[r].user # NoUser /\ Admin(adminReq[r].user)
  /\ SetReq(r, [adminReq[r] EXCEPT !.pc = "session"])
  /\ UNCHANGED <<limit, isAdmin, sessionAge, edits>>

CreateSession(r) ==
  /\ ReqAt(r, "session")
  /\ limit' = NoEntry
  /\ sessionAge' = [sessionAge EXCEPT ![adminReq[r].user] = 0]
  /\ EndReq(r, FALSE)
  /\ UNCHANGED <<isAdmin, edits>>

-----------------------------------------------------------------------------
(* withAuth: validateSession, then is_admin as the row has it now, then the
   handler.  wasAdmin is history: the user was an administrator at some time
   since the request began. *)

ValidSession(u) == sessionAge[u] >= 0 /\ sessionAge[u] <= SessionLife

WithAuth(r, u) ==
  /\ ReqAt(r, "idle") /\ ValidSession(u)
  /\ SetReq(r, NewRequest("auth", u, Admin(u)))
  /\ UNCHANGED <<limit, isAdmin, sessionAge, edits>>

(* The session alone decides. *)
StillAdminBySession(u) == u \in AdminUsers
StillAdmin(u) == Admin(u)
CheckAdmin(r) ==
  /\ ReqAt(r, "auth")
  /\ IF StillAdmin(adminReq[r].user)
     THEN SetReq(r, [adminReq[r] EXCEPT !.pc = "handler"])
     ELSE EndReq(r, FALSE)
  /\ UNCHANGED <<limit, isAdmin, sessionAge, edits>>

Serve(r) ==
  /\ ReqAt(r, "handler")
  /\ EndReq(r, TRUE)
  /\ UNCHANGED <<limit, isAdmin, sessionAge, edits>>

(* handleUserEdit and handleUserDelete, by an administrator's request. *)
SeenAdmin(q, new) ==
  LET u == adminReq[q].user IN adminReq[q].wasAdmin \/ (u \in DOMAIN new /\ new[u])
ChangeUser(r, new) ==
  /\ ReqAt(r, "handler") /\ edits < MaxEdits
  /\ isAdmin' = new /\ edits' = edits + 1
  /\ adminReq' = [q \in AdminReqs |->
                    [pc |-> IF q = r THEN "idle" ELSE adminReq[q].pc, user |-> adminReq[q].user,
                     wasAdmin |-> SeenAdmin(q, new), served |-> q = r \/ adminReq[q].served]]
  /\ UNCHANGED <<limit, sessionAge>>

UserEdit(r, u, b) == u \in DOMAIN isAdmin /\ ChangeUser(r, [isAdmin EXCEPT ![u] = b])
UserDelete(r, u) ==
  u \in DOMAIN isAdmin /\ ChangeUser(r, [v \in DOMAIN isAdmin \ {u} |-> isAdmin[v]])

(* CleanupExpiredSessions, and validateSession finding its session expired. *)
ExpireSession(u) ==
  /\ sessionAge[u] > SessionLife
  /\ sessionAge' = [sessionAge EXCEPT ![u] = -1]
  /\ UNCHANGED <<limit, isAdmin, adminReq, edits>>

Aged(age, cap) == IF age < 0 THEN age ELSE Min({age + 1, cap})
LoginTick ==
  /\ limit' = [limit EXCEPT !.first = IF limit.count = 0 THEN 0 ELSE Aged(@, MaxAge),
                            !.blocked = Aged(@, BlockDuration)]
  /\ sessionAge' = [u \in AdminUsers |-> Aged(sessionAge[u], SessionLife + 1)]
  /\ UNCHANGED <<isAdmin, adminReq, edits>>

LoginNext ==
  \/ CleanupLimiter \/ LoginTick
  \/ \E u \in AdminUsers : ExpireSession(u)
  \/ \E r \in AdminReqs :
       \/ \E u \in AdminUsers \union {NoUser} : Login(r, u)
       \/ LoginFails(r) \/ LoginSucceeds(r) \/ CreateSession(r)
       \/ \E u \in AdminUsers :
            \/ WithAuth(r, u) \/ UserDelete(r, u)
            \/ \E b \in BOOLEAN : UserEdit(r, u, b)
       \/ CheckAdmin(r) \/ Serve(r)

LoginSpec == LoginInit /\ [][LoginNext]_loginVars

-----------------------------------------------------------------------------
LoginTypeOK ==
  /\ limit.count \in Nat /\ limit.first \in 0..MaxAge /\ limit.blocked \in -1..BlockDuration
  /\ DOMAIN isAdmin \subseteq AdminUsers
  /\ sessionAge \in [AdminUsers -> -1..(SessionLife + 1)]
  /\ \A r \in AdminReqs : adminReq[r].pc \in {"idle", "login", "session", "auth", "handler"}

(* IsBlocked and RecordFailure are two calls: requests that passed the first
   together may overrun the limit, by one each but the last, and no later
   request of the window may (ratelimit.go, handleLogin). *)
AttemptsBounded == limit.count <= MaxLoginAttempts + Cardinality(AdminReqs) - 1

(* A request withAuth serves is one whose user was an administrator at some
   time during it, whatever was edited, deleted or expired meanwhile: a
   session outlives the right to it, the service does not. *)
ServedToAdmins ==
  \A r \in AdminReqs : adminReq[r].pc = "handler" \/ adminReq[r].served => adminReq[r].wasAdmin
=============================================================================
