-------------------------------- MODULE Users --------------------------------
(***************************************************************************)
(* User management, login and sessions (internal/handlers/users.go,        *)
(* internal/handlers/auth.go, internal/auth/auth.go, main.go).             *)
(*                                                                         *)
(* A user-management form is a list of operations on one user, done one    *)
(* after the other without a transaction: a new role, enabling or          *)
(* disabling, a new password.  Each operation is up to four SQL            *)
(* statements, and each statement is one action: the two reads of the      *)
(* last-owner guard, the write, and the DELETE of the user's sessions.     *)
(* Who sends a request is looked up once, when it starts.  A password is   *)
(* the number of times it was changed; cookies are session ids.            *)
(***************************************************************************)
EXTENDS Integers, FiniteSets

CONSTANTS
  Req,          \* request goroutines
  Form,         \* forms of user management that owners send
  NewRole,      \* roles that users are created with
  MaxUser,      \* bound: users ever created
  MaxSession,   \* bound: sessions ever created
  MaxPassword   \* bound: password changes of one user

Role == {"owner", "accountant", "viewer"}

\* What is left out of a form is kept.  Any text may be sent as the role.
Typed == [role: Role \cup {"keep", "other"}, active: {"keep", "on", "off"}, password: BOOLEAN]

ASSUME ConstantsAssumption ==
  /\ Form \subseteq Typed /\ NewRole \subseteq Role
  /\ MaxUser \in Nat \ {0} /\ MaxSession \in Nat /\ MaxPassword \in Nat

VARIABLES
  users,      \* rows of users
  sessions,   \* rows of sessions; pw is the password that opened the session, late a
              \* history: it was opened after the user was disabled or that password
              \* changed, by a log-in that had read the user before
  seq,        \* last id of each table
  req,        \* local state of each request
  lost        \* history: users whose sessions a failed request did not delete

vars == <<users, sessions, seq, req, lost>>
tables == <<users, sessions, seq, lost>>

UserRow    == [id: Nat, role: Role, active: BOOLEAN, pw: Nat]
SessionRow == [id: Nat, user: Nat, pw: Nat, expired: BOOLEAN, late: BOOLEAN]

Op == {"role", "on", "off", "password", "delete"}

Request ==
  [pc: {"idle",
        "guard",    \* next: GetUser of guardLastOwner
        "count",    \* next: CountActiveOwners of guardLastOwner
        "write",    \* next: the UPDATE or DELETE
        "clear",    \* next: DeleteSessionsForUser
        "verify",   \* next: the current password is checked
        "login"},   \* next: CreateSession
   op: Op, actor: Nat, user: Nat,
   role: Role \cup {"keep", "other"}, active: {"keep", "on", "off"}, password: BOOLEAN,
   pw: Nat,             \* the password typed at a login or password change
   overtaken: BOOLEAN]  \* history: what the request read was written by another one

Idle == [pc |-> "idle", op |-> "role", actor |-> 0, user |-> 0, role |-> "keep",
         active |-> "keep", password |-> FALSE, pw |-> 0, overtaken |-> FALSE]

TypeOK ==
  /\ users \subseteq UserRow
  /\ sessions \subseteq SessionRow
  /\ seq \in [user: Nat, session: Nat]
  /\ req \in [Req -> Request]
  /\ lost \subseteq Nat

\* The first owner is created from the command line.
Init ==
  /\ users = {[id |-> 1, role |-> "owner", active |-> TRUE, pw |-> 0]}
  /\ sessions = {}
  /\ seq = [user |-> 1, session |-> 0]
  /\ req = [r \in Req |-> Idle]
  /\ lost = {}

ActiveOwners == {u \in users : u.role = "owner" /\ u.active}
UserLive(id) == \E u \in users : u.id = id

\* userBySession: whom a cookie stands for.
Authenticated(u) == u.active /\ \E s \in sessions : s.user = u.id /\ ~s.expired

Respond(r) == req' = [req EXCEPT ![r] = Idle]

-----------------------------------------------------------------------------
(* The order of a form's operations.                                       *)

\* The first statement of an operation: what could cost the last owner is
\* guarded.
Guarded == {"role", "off", "delete"}
FirstPc(op) == IF op \in Guarded THEN "guard" ELSE "write"

\* The operations that a form q still asks for after op, in the handler's order.
Remaining(q, op) ==
  (IF op = "none" /\ q.role # "keep" THEN {"role"} ELSE {})
    \cup (IF op \in {"none", "role"} /\ q.active # "keep" THEN {q.active} ELSE {})
    \cup (IF op # "password" /\ q.password THEN {"password"} ELSE {})

NextOp(q, op) ==
  LET left == Remaining(q, op) IN
    IF "role" \in left THEN "role"
    ELSE IF q.active \in left THEN q.active
    ELSE "password"

\* The request q after its operation op.
GoOn(q, op) ==
  IF op # "delete" /\ Remaining(q, op) # {}
    THEN [q EXCEPT !.op = NextOp(q, op), !.pc = FirstPc(NextOp(q, op)), !.overtaken = FALSE]
    ELSE Idle

-----------------------------------------------------------------------------
(* User management by an owner.                                            *)

StartUserUpdate(r) ==
  /\ req[r].pc = "idle"
  /\ \E u \in users, id \in 1..seq.user, typed \in Form :
       LET form == [Idle EXCEPT !.actor = u.id, !.user = id, !.role = typed.role,
                                !.active = typed.active, !.password = typed.password] IN
         /\ Authenticated(u) /\ u.role = "owner"
         /\ Remaining(form, "none") # {}
         /\ req' = [req EXCEPT ![r] = [form EXCEPT
              !.op = NextOp(form, "none"), !.pc = FirstPc(NextOp(form, "none"))]]
  /\ UNCHANGED tables

\* An owner cannot delete the account he uses.
StartUserDelete(r) ==
  /\ req[r].pc = "idle"
  /\ \E u \in users, id \in 1..seq.user :
       /\ Authenticated(u) /\ u.role = "owner" /\ u.id # id
       /\ req' = [req EXCEPT ![r] = [Idle EXCEPT !.pc = "guard", !.op = "delete",
            !.actor = u.id, !.user = id]]
  /\ UNCHANGED tables

\* GetUser: only an active owner needs counting; no such user is an error.
GuardReadUser(r) ==
  /\ req[r].pc = "guard"
  /\ \/ \E u \in users :
          /\ u.id = req[r].user
          /\ req' = [req EXCEPT ![r].pc =
               IF u.role = "owner" /\ u.active THEN "count" ELSE "write"]
     \/ ~UserLive(req[r].user) /\ Respond(r)
  /\ UNCHANGED tables

KeepsOwner(q) == q.op = "role" /\ q.role = "owner"

\* Slip: an off-by-one in the comparison with the number of owners.
SlipMayProceed(q) == Cardinality(ActiveOwners) >= 1 \/ KeepsOwner(q)

MayProceed(q) == Cardinality(ActiveOwners) > 1 \/ KeepsOwner(q)

GuardCount(r) ==
  /\ req[r].pc = "count"
  /\ \/ MayProceed(req[r]) /\ req' = [req EXCEPT ![r].pc = "write"]
     \/ ~MayProceed(req[r]) /\ Respond(r)
  /\ UNCHANGED tables

\* The role must be one of the known ones.
Accepted(q) == q.op = "role" => q.role \in Role

\* Slip: one UPDATE for all fields of a form, also for those it leaves out.
SlipWritten(u, q) ==
  [u EXCEPT !.role = q.role, !.active = IF q.op = "off" THEN FALSE ELSE @,
            !.pw = IF q.op = "password" THEN @ + 1 ELSE @]

\* What an UPDATE makes of the row of its user.
Written(u, q) ==
  CASE q.op = "role"     -> [u EXCEPT !.role = q.role]
    [] q.op = "on"       -> [u EXCEPT !.active = TRUE]
    [] q.op = "off"      -> [u EXCEPT !.active = FALSE]
    [] q.op = "password" -> [u EXCEPT !.pw = @ + 1]

\* The other requests that have read what q is about to write: the state of its user,
\* read by a log-in, and the owners, looked at by the guard.
Overtaken(q) ==
  [r \in Req |->
     IF \/ req[r].pc = "login" /\ req[r].user = q.user /\ q.op \in {"off", "password"}
        \/ req[r].pc = "write" /\ req[r].op \in Guarded /\ q.op # "password"
       THEN [req[r] EXCEPT !.overtaken = TRUE] ELSE req[r]]

\* Slip: a new password signs nobody out.
SlipEndsSessions(op) == op = "off"

\* The operations that are followed by DeleteSessionsForUser.
EndsSessions(op) == op \in {"off", "password"}

\* Slip: a sessions table without its foreign key's ON DELETE CASCADE.
SlipKeepSessions(id) == sessions

\* The sessions that ON DELETE CASCADE leaves.
SessionsWithout(id) == {s \in sessions : s.user # id}

\* An owner cannot disable the account he uses, a password may be too short:
\* the request ends, and what the form changed before stays.
UserWrite(r) ==
  /\ req[r].pc = "write"
  /\ \/ /\ req[r].op = "delete"
        /\ users' = {u \in users : u.id # req[r].user}
        /\ sessions' = SessionsWithout(req[r].user)
        /\ req' = [Overtaken(req[r]) EXCEPT ![r] = Idle]
     \/ /\ \/ ~Accepted(req[r])
           \/ req[r].op = "off" /\ req[r].actor = req[r].user
           \/ req[r].op = "password"
        /\ Respond(r)
        /\ UNCHANGED <<users, sessions>>
     \/ /\ req[r].op # "delete" /\ Accepted(req[r])
        /\ ~(req[r].op = "off" /\ req[r].actor = req[r].user)
        /\ req[r].op = "password" =>
             \A u \in users : u.id = req[r].user => u.pw < MaxPassword
        /\ users' = {IF u.id = req[r].user THEN Written(u, req[r]) ELSE u : u \in users}
        /\ req' = [Overtaken(req[r]) EXCEPT ![r] =
             IF EndsSessions(req[r].op) THEN [req[r] EXCEPT !.pc = "clear"]
                                        ELSE GoOn(req[r], req[r].op)]
        /\ UNCHANGED sessions
  /\ UNCHANGED <<seq, lost>>

\* Slip: signing out the devices of the acting user.
SlipSignedOut(q) == q.actor

\* Whose sessions are deleted.
SignedOut(q) == q.user

\* The error of the DELETE is ignored.
ClearSessions(r) ==
  /\ req[r].pc = "clear"
  /\ \/ /\ sessions' = {s \in sessions : s.user # SignedOut(req[r])}
        /\ lost' = lost \ {req[r].user}
     \/ /\ lost' = lost \cup {req[r].user}
        /\ UNCHANGED sessions
  /\ req' = [req EXCEPT ![r] = GoOn(req[r], req[r].op)]
  /\ UNCHANGED <<users, seq>>

\* A user created by an owner, or from the command line.
UserCreate ==
  /\ seq.user < MaxUser
  /\ \E role \in NewRole :
       users' = users \cup {[id |-> seq.user + 1, role |-> role, active |-> TRUE, pw |-> 0]}
  /\ seq' = [seq EXCEPT !.user = @ + 1]
  /\ UNCHANGED <<sessions, req, lost>>

-----------------------------------------------------------------------------
(* Login, logout and the change of one's own password.                     *)

\* The user row is read and the typed password verified against it.
StartLogin(r) ==
  /\ req[r].pc = "idle"
  /\ \E u \in users :
       /\ u.active
       /\ req' = [req EXCEPT ![r] = [Idle EXCEPT !.pc = "login", !.user = u.id, !.pw = u.pw]]
  /\ UNCHANGED tables

\* Slip: a sessions table without a foreign key to the user.
SlipSessionPossible(id) == TRUE

SessionPossible(id) == UserLive(id)

CreateSession(r) ==
  /\ req[r].pc = "login"
  /\ \/ /\ SessionPossible(req[r].user)
        /\ seq.session < MaxSession
        /\ sessions' = sessions \cup {[id |-> seq.session + 1, user |-> req[r].user,
                                       pw |-> req[r].pw, expired |-> FALSE,
                                       late |-> req[r].overtaken]}
        /\ seq' = [seq EXCEPT !.session = @ + 1]
     \/ ~SessionPossible(req[r].user) /\ UNCHANGED <<sessions, seq>>
  /\ Respond(r)
  /\ UNCHANGED <<users, lost>>

Logout ==
  /\ \E id \in 1..seq.session : sessions' = {s \in sessions : s.id # id}
  /\ UNCHANGED <<users, seq, req, lost>>

\* The user types what the password was when the request started.
StartPasswordUpdate(r) ==
  /\ req[r].pc = "idle"
  /\ \E u \in users :
       /\ Authenticated(u)
       /\ req' = [req EXCEPT ![r] = [Idle EXCEPT !.pc = "verify", !.op = "password",
            !.actor = u.id, !.user = u.id, !.pw = u.pw]]
  /\ UNCHANGED tables

VerifyPassword(r) ==
  /\ req[r].pc = "verify"
  /\ \/ /\ \E u \in users : u.id = req[r].user /\ u.pw = req[r].pw
        /\ req' = [req EXCEPT ![r].pc = "write"]
     \/ /\ ~ \E u \in users : u.id = req[r].user /\ u.pw = req[r].pw
        /\ Respond(r)
  /\ UNCHANGED tables

-----------------------------------------------------------------------------
(* Time, the purge, and failures.                                          *)

Expire ==
  /\ \E s \in sessions : sessions' = (sessions \ {s}) \cup {[s EXCEPT !.expired = TRUE]}
  /\ UNCHANGED <<users, seq, req, lost>>

\* userBySession deletes an expired session that is presented.
PresentExpired ==
  /\ \E s \in sessions : s.expired /\ sessions' = sessions \ {s}
  /\ UNCHANGED <<users, seq, req, lost>>

\* Slip: a purge of the sessions that are still valid.
SlipPurged(s) == ~s.expired

Purged(s) == s.expired

PurgeExpiredSessions ==
  /\ sessions' = {s \in sessions : ~Purged(s)}
  /\ UNCHANGED <<users, seq, req, lost>>

\* A crash, or an error of a statement, ends a request; what it wrote stays.
RequestFails(r) ==
  /\ req[r].pc # "idle"
  /\ lost' = IF req[r].pc = "clear" THEN lost \cup {req[r].user} ELSE lost
  /\ Respond(r)
  /\ UNCHANGED <<users, sessions, seq>>

Step(r) ==
  \/ StartUserUpdate(r) \/ StartUserDelete(r)
  \/ GuardReadUser(r) \/ GuardCount(r) \/ UserWrite(r) \/ ClearSessions(r)
  \/ StartLogin(r) \/ CreateSession(r)
  \/ StartPasswordUpdate(r) \/ VerifyPassword(r)
  \/ RequestFails(r)

Next ==
  \/ \E r \in Req : Step(r)
  \/ UserCreate
  \/ Logout
  \/ Expire
  \/ PresentExpired
  \/ PurgeExpiredSessions

Spec == Init /\ [][Next]_vars

\* The purge runs on a ticker of its own for as long as the process does.
FairSpec == Spec /\ WF_vars(PurgeExpiredSessions)

-----------------------------------------------------------------------------
(* Properties.                                                             *)

\* users.go:116: "guardLastOwner prevents demoting/disabling/deleting the only
\* remaining active owner."
OwnerRemains == ActiveOwners # {}

\* users.go:116 as far as the guard can keep it, whatever forms combine and wherever
\* they stop: the last active owner is lost only by the write of a request that
\* another one overtook, with a write of its own, since the guard looked at the owners.
LastOwnerGuarded ==
  [][OwnerRemains /\ ~OwnerRemains' =>
       \E r \in Req : req[r].pc = "write" /\ req[r].overtaken /\ req'[r] # req[r]]_vars

\* README.md:57: "停用使用者會自動把該人的 session 全清掉", disabling a user clears
\* all of his sessions: a disabled user has one only until the request that
\* disabled him has deleted them, or after that failed, or through a log-in that
\* had read him as active before and opened the session after (auth.go:54).
DisabledUsersSignedOut ==
  \A s \in sessions, u \in users :
    (s.user = u.id /\ ~u.active /\ ~s.late /\ u.id \notin lost) =>
      \E r \in Req : req[r].pc = "clear" /\ req[r].op = "off" /\ req[r].user = u.id

\* README.md:57: "改密碼也會踢出其他裝置", a new password signs out the other
\* devices: no session that the old password opened stays when the request
\* that changed it is done, unless that request failed.
PasswordChangeSignsOut ==
  \A s \in sessions, u \in users : (s.user = u.id /\ s.pw # u.pw /\ u.id \notin lost) =>
    \E r \in Req : req[r].pc = "clear" /\ req[r].op = "password" /\ req[r].user = u.id

\* README.md:57 as far as the code keeps it when requests overlap: what a new password
\* fails to sign out is at most a session that a log-in, which had verified the old
\* password before the change, opened after it.
OnlyLateLoginsStay ==
  \A s \in sessions, u \in users :
    (s.user = u.id /\ s.pw # u.pw /\ ~s.late /\ u.id \notin lost) =>
      \E r \in Req : req[r].pc = "clear" /\ req[r].op = "password" /\ req[r].user = u.id

\* A login that races the deletion of its user leaves no session behind
\* (auth.go:219: the user is read before the session is inserted).
SessionsHaveUsers == \A s \in sessions : UserLive(s.user)

\* Expired sessions disappear, also those nobody presents again (main.go:95).
ExpiredSessionsGo ==
  \A id \in 1..MaxSession :
    (\E s \in sessions : s.id = id /\ s.expired) ~> (\A s \in sessions : s.id # id)
=============================================================================
