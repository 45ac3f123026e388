---------------------------- MODULE UsersProofs -----------------------------
(***************************************************************************)
(* Theorems about Users, for any number of requests at a time.  What a     *)
(* request has read stays true until another one writes it; the history    *)
(* overtaken marks that moment, and the invariant says what may be relied  *)
(* on before it.                                                           *)
(***************************************************************************)
EXTENDS Users, FiniteSetTheorems, TLAPS

\* The ids of users come from the sequence and identify the rows; requests
\* know only ids that were given out.
UserIds ==
  /\ \A u \in users : u.id \in 1..seq.user
  /\ \A u, v \in users : u.id = v.id => u = v
  /\ \A r \in Req : req[r].user \in 0..seq.user

IInv == TypeOK /\ UserIds /\ SessionsHaveUsers

\* Whatever q writes about its user, an active owner is left.
SafeWrite(q) ==
  \/ KeepsOwner(q)
  \/ \A a \in ActiveOwners : a.id = q.user => \E b \in ActiveOwners : b.id # q.user

\* A log-in still knows the state of the user's row.
FreshLogin(q) == \A u \in users : u.id = q.user => u.active /\ u.pw = q.pw

\* What a request has found out and may rely on until it is overtaken.
Knows(q) ==
  /\ q.pc = "verify" => q.op = "password"
  /\ q.pc = "write" /\ q.op \in Guarded /\ ~q.overtaken => SafeWrite(q)
  /\ q.pc = "login" /\ ~q.overtaken => FreshLogin(q)

RequestsKnow == \A r \in Req : Knows(req[r])

SignOutInv == DisabledUsersSignedOut /\ OnlyLateLoginsStay

-----------------------------------------------------------------------------
\* The request of an idle goroutine.
LEMMA IdleRequest ==
  Idle \in Request /\ Idle.pc = "idle" /\ Idle.user = 0 /\ Idle.overtaken = FALSE
BY DEF Idle, Request, Op

\* What follows an operation of an update form is never a deletion.
LEMMA NextOpIsUpdate ==
  ASSUME NEW q \in Request, NEW op
  PROVE  NextOp(q, op) \in {"role", "on", "off", "password"}
BY DEF NextOp, Remaining, Request

\* A request that goes on with a form: it reads first, unless it writes what needs no
\* guard.
FormRequest ==
  {n \in Request : /\ n.pc \in {"guard", "write"}
                   /\ n.pc = "write" => n.op \in {"on", "password"}}

\* A form starts or goes on with an operation; the rest of it stays.
LEMMA OpSet ==
  ASSUME NEW q \in Request, NEW op \in {"role", "on", "off", "password"}
  PROVE  [q EXCEPT !.op = op, !.pc = FirstPc(op), !.overtaken = FALSE]
           \in {n \in FormRequest : n.user = q.user}
BY DEF FirstPc, Guarded, FormRequest, Request, Op

\* A request goes on with a form it already has, or becomes idle.
LEMMA GoOnRequest ==
  ASSUME NEW q \in Request, NEW op
  PROVE  GoOn(q, op) = Idle \/ GoOn(q, op) \in {n \in FormRequest : n.user = q.user}
<1> DEFINE next == NextOp(q, op)
<1>1. next \in {"role", "on", "off", "password"}
  BY NextOpIsUpdate
<1>2. GoOn(q, op) = Idle
      \/ GoOn(q, op) = [q EXCEPT !.op = next, !.pc = FirstPc(next), !.overtaken = FALSE]
  BY DEF GoOn
<1> HIDE DEF next
<1> QED BY <1>1, <1>2, OpSet

\* The first operation of a form is read or written, never unguarded.
LEMMA StartUpdateRequest ==
  ASSUME TypeOK, UserIds, NEW r \in Req, StartUserUpdate(r)
  PROVE  \E q \in FormRequest : req' = [req EXCEPT ![r] = q] /\ q.user \in 0..seq.user
<1>1. PICK u \in users, id \in 1..seq.user, typed \in Form :
        LET form == [Idle EXCEPT !.actor = u.id, !.user = id, !.role = typed.role,
                                 !.active = typed.active, !.password = typed.password] IN
          /\ Authenticated(u) /\ u.role = "owner"
          /\ Remaining(form, "none") # {}
          /\ req' = [req EXCEPT ![r] = [form EXCEPT
               !.op = NextOp(form, "none"), !.pc = FirstPc(NextOp(form, "none"))]]
  BY Zenon DEF StartUserUpdate
<1> DEFINE form == [Idle EXCEPT !.actor = u.id, !.user = id, !.role = typed.role,
                                !.active = typed.active, !.password = typed.password]
           next == NextOp(form, "none")
           q == [form EXCEPT !.op = next, !.pc = FirstPc(next)]
<1>2. u.id \in Nat /\ id \in Nat /\ id \in 0..seq.user
  BY DEF TypeOK, UserRow
<1>3. typed \in Typed
  BY ConstantsAssumption
<1>4. form \in Request /\ form.user = id /\ form.overtaken = FALSE
  BY <1>2, <1>3 DEF Idle, Request, Op, Typed
<1>5. req' = [req EXCEPT ![r] = q]
  BY <1>1
<1> HIDE DEF form
<1>6. next \in {"role", "on", "off", "password"}
  BY <1>4, NextOpIsUpdate
<1> HIDE DEF next
<1>7. q = [form EXCEPT !.op = next, !.pc = FirstPc(next), !.overtaken = FALSE]
  BY <1>4 DEF Request
<1>8. q \in {n \in FormRequest : n.user = form.user}
  BY <1>4, <1>6, <1>7, OpSet
<1> HIDE DEF q
<1>9. q \in FormRequest /\ q.user = id
  BY <1>4, <1>8
<1> QED BY <1>2, <1>5, <1>9

\* Of several active owners one is not the user at hand.
LEMMA AnotherOwner ==
  ASSUME IInv, Cardinality(ActiveOwners) > 1, NEW id
  PROVE  \E u \in ActiveOwners : u.id # id
<1> SUFFICES ASSUME \A u \in ActiveOwners : u.id = id PROVE FALSE
  OBVIOUS
<1>1. CASE ActiveOwners = {}
  BY <1>1, FS_EmptySet
<1>2. CASE ActiveOwners # {}
  <2>1. PICK x : x \in ActiveOwners
    BY <1>2
  <2>2. ActiveOwners \subseteq {x}
    BY <2>1 DEF ActiveOwners, IInv, UserIds
  <2>3. IsFiniteSet({x}) /\ Cardinality({x}) = 1
    BY FS_Singleton
  <2>4. IsFiniteSet(ActiveOwners) /\ Cardinality(ActiveOwners) <= 1
    BY <2>2, <2>3, FS_Subset
  <2>5. Cardinality(ActiveOwners) \in Nat
    BY <2>4, FS_CardinalityType
  <2> QED BY <2>4, <2>5
<1> QED BY <1>1, <1>2

\* A request that goes on with a form has nothing to rely on yet.
LEMMA FormKnows ==
  ASSUME NEW q
  PROVE  /\ q \in FormRequest => Knows(q) /\ q \in Request /\ q.pc # "clear"
         /\ q = Idle => Knows(q) /\ q \in Request /\ q.pc # "clear" /\ q.user = 0
BY IdleRequest DEF FormRequest, Knows, Guarded

\* A request that goes on from its guard to another statement, with what it has learnt.
LEMMA GuardRequest ==
  ASSUME NEW q \in Request, NEW pc \in {"count", "write"}, q.pc # "clear",
         pc = "write" => q.op = "password" \/ SafeWrite(q)
  PROVE  [q EXCEPT !.pc = pc] \in {n \in Request : /\ n.user = q.user /\ n.pc # "clear"
                                                   /\ Knows(n)}
<1> DEFINE n == [q EXCEPT !.pc = pc]
<1>1. /\ n \in Request /\ n.pc = pc
      /\ n.user = q.user /\ n.op = q.op /\ n.role = q.role
  BY pc \in {"count", "write"} DEF Request
<1> HIDE DEF n
<1>2. SafeWrite(q) => SafeWrite(n)
  BY <1>1 DEF SafeWrite, KeepsOwner
<1>3. Knows(n)
  BY <1>1, <1>2 DEF Knows, Guarded
<1> QED BY <1>1, <1>3 DEF n

\* A log-in has just read the row of its user.
LEMMA LoginRequest ==
  ASSUME IInv, NEW u \in users, u.active
  PROVE  [Idle EXCEPT !.pc = "login", !.user = u.id, !.pw = u.pw]
           \in {n \in Request : n.user \in 0..seq.user /\ n.pc # "clear" /\ Knows(n)}
<1> DEFINE n == [Idle EXCEPT !.pc = "login", !.user = u.id, !.pw = u.pw]
<1>1. u.id \in 0..seq.user /\ u.id \in Nat /\ u.pw \in Nat
  BY DEF IInv, TypeOK, UserIds, UserRow
<1>2. n \in Request /\ n.pc = "login" /\ n.user = u.id /\ n.pw = u.pw
  BY <1>1 DEF Idle, Request, Op
<1> HIDE DEF n
<1>3. Knows(n)
  BY <1>2 DEF Knows, FreshLogin, IInv, UserIds
<1> QED BY <1>1, <1>2, <1>3 DEF n

\* A change of one's own password has its own row to verify.
LEMMA VerifyRequest ==
  ASSUME IInv, NEW u \in users
  PROVE  [Idle EXCEPT !.pc = "verify", !.op = "password", !.actor = u.id, !.user = u.id,
                      !.pw = u.pw]
           \in {n \in Request : n.user \in 0..seq.user /\ n.pc # "clear" /\ Knows(n)}
<1> DEFINE n == [Idle EXCEPT !.pc = "verify", !.op = "password", !.actor = u.id,
                             !.user = u.id, !.pw = u.pw]
<1>1. u.id \in 0..seq.user /\ u.id \in Nat /\ u.pw \in Nat
  BY DEF IInv, TypeOK, UserIds, UserRow
<1>2. n \in Request /\ n.pc = "verify" /\ n.op = "password" /\ n.user = u.id
  BY <1>1 DEF Idle, Request, Op
<1> HIDE DEF n
<1>3. Knows(n)
  BY <1>2 DEF Knows
<1> QED BY <1>1, <1>2, <1>3 DEF n

\* A deletion starts with its guard.
LEMMA DeleteRequest ==
  ASSUME IInv, NEW u \in users, NEW id \in 1..seq.user
  PROVE  [Idle EXCEPT !.pc = "guard", !.op = "delete", !.actor = u.id, !.user = id]
           \in {n \in Request : n.user \in 0..seq.user /\ n.pc # "clear" /\ Knows(n)}
<1> DEFINE n == [Idle EXCEPT !.pc = "guard", !.op = "delete", !.actor = u.id, !.user = id]
<1>1. u.id \in Nat /\ id \in Nat /\ id \in 0..seq.user
  BY DEF IInv, TypeOK, UserRow
<1>2. n \in Request /\ n.pc = "guard" /\ n.user = id
  BY <1>1 DEF Idle, Request, Op
<1> HIDE DEF n
<1>3. Knows(n)
  BY <1>2 DEF Knows
<1> QED BY <1>1, <1>2, <1>3 DEF n

\* A step of a request that does not write a user: the others notice nothing, and what
\* it goes on with rests on what the tables say now.
LEMMA StepAlone ==
  ASSUME IInv, RequestsKnow, NEW r \in Req, Step(r), ~UserWrite(r)
  PROVE  \E q \in Request : /\ req' = [req EXCEPT ![r] = q]
                            /\ q.user \in 0..seq.user
                            /\ q.pc # "clear"
                            /\ Knows(q)
<1> USE DEF IInv, TypeOK
<1>0. /\ req[r] \in Request /\ req[r].user \in 0..seq.user /\ seq.user \in Nat
      /\ 0 \in 0..seq.user
  BY DEF UserIds
<1>1. CASE Respond(r)
  BY <1>0, <1>1, FormKnows DEF Respond
<1>2. CASE ClearSessions(r)
  <2>1. req' = [req EXCEPT ![r] = GoOn(req[r], req[r].op)]
    BY <1>2 DEF ClearSessions
  <2> DEFINE q == GoOn(req[r], req[r].op)
  <2>2. q = Idle \/ q \in {n \in FormRequest : n.user = req[r].user}
    BY <1>0, GoOnRequest
  <2>3. req' = [req EXCEPT ![r] = q]
    BY <2>1
  <2> HIDE DEF q
  <2> QED BY <1>0, <2>2, <2>3, FormKnows
<1>3. CASE StartUserUpdate(r)
  BY <1>3, StartUpdateRequest, FormKnows
<1>4. CASE StartUserDelete(r)
  BY <1>4, DeleteRequest DEF StartUserDelete
<1>5. CASE StartLogin(r)
  BY <1>5, LoginRequest DEF StartLogin
<1>6. CASE StartPasswordUpdate(r)
  BY <1>6, VerifyRequest DEF StartPasswordUpdate
<1>7. CASE GuardReadUser(r) /\ ~Respond(r)
  <2>1. PICK u \in users :
          /\ u.id = req[r].user
          /\ req' = [req EXCEPT ![r].pc =
               IF u.role = "owner" /\ u.active THEN "count" ELSE "write"]
    BY <1>7 DEF GuardReadUser
  <2>2. CASE u.role = "owner" /\ u.active
    <3>1. req' = [req EXCEPT ![r] = [req[r] EXCEPT !.pc = "count"]] /\ req[r].pc # "clear"
      BY <1>7, <2>1, <2>2 DEF GuardReadUser
    <3> QED BY <1>0, <3>1, GuardRequest
  <2>3. CASE ~(u.role = "owner" /\ u.active)
    <3>1. req' = [req EXCEPT ![r] = [req[r] EXCEPT !.pc = "write"]] /\ req[r].pc # "clear"
      BY <1>7, <2>1, <2>3 DEF GuardReadUser
    <3>2. SafeWrite(req[r])
      BY <2>1, <2>3 DEF SafeWrite, ActiveOwners, UserIds
    <3> QED BY <1>0, <3>1, <3>2, GuardRequest
  <2> QED BY <2>2, <2>3
<1>8. CASE GuardCount(r) /\ ~Respond(r)
  <2>1. /\ req' = [req EXCEPT ![r] = [req[r] EXCEPT !.pc = "write"]]
        /\ MayProceed(req[r]) /\ req[r].pc # "clear"
    BY <1>8 DEF GuardCount
  <2>2. SafeWrite(req[r])
    BY <2>1, AnotherOwner DEF MayProceed, SafeWrite
  <2> QED BY <1>0, <2>1, <2>2, GuardRequest
<1>9. CASE VerifyPassword(r) /\ ~Respond(r)
  <2>1. /\ req' = [req EXCEPT ![r] = [req[r] EXCEPT !.pc = "write"]]
        /\ req[r].pc = "verify"
    BY <1>9 DEF VerifyPassword
  <2>2. req[r].op = "password"
    BY <2>1 DEF RequestsKnow, Knows
  <2> QED BY <1>0, <2>1, <2>2, GuardRequest
<1> QED
  BY <1>1, <1>2, <1>3, <1>4, <1>5, <1>6, <1>7, <1>8, <1>9
     DEF Step, GuardReadUser, GuardCount, VerifyPassword, CreateSession, RequestFails

\* What may become of a request while others run: they overtake it, or not.
Later(q) == {q, [q EXCEPT !.overtaken = TRUE]}

\* To be overtaken changes nothing else.
LEMMA LaterRequest ==
  ASSUME NEW q \in Request, NEW n \in Later(q)
  PROVE  /\ n \in Request /\ n.pc = q.pc /\ n.op = q.op /\ n.user = q.user
         /\ n.role = q.role /\ n.pw = q.pw
         /\ ~n.overtaken => n = q
BY DEF Later, Request

\* A write overtakes others, and leaves their requests as they were.
LEMMA OvertakenRequests ==
  ASSUME TypeOK, NEW q
  PROVE  /\ Overtaken(q) \in [Req -> Request]
         /\ \A x \in Req : Overtaken(q)[x] \in Later(req[x])
<1>1. \A x \in Req : Overtaken(q)[x] \in Later(req[x])
  BY DEF Overtaken, Later
<1>2. \A x \in Req : Overtaken(q)[x] \in Request
  BY <1>1, LaterRequest DEF TypeOK
<1>3. Overtaken(q) = [x \in Req |-> Overtaken(q)[x]]
  BY DEF Overtaken
<1> QED BY <1>1, <1>2, <1>3

\* A request that may rely on nothing it has read, so nothing can spoil it.
NeedsNothing(q) ==
  q.pc \notin {"verify", "login"} /\ (q.pc = "write" => q.op \notin Guarded)

\* The request that wrote a user goes on with his sessions, or its form, or is done.
LEMMA WriteRequest ==
  ASSUME IInv, NEW r \in Req, UserWrite(r)
  PROVE  /\ req' \in [Req -> Request]
         /\ req'[r].user \in 0..seq.user
         /\ NeedsNothing(req'[r])
         /\ req'[r].pc = "clear" =>
              req'[r] = [req[r] EXCEPT !.pc = "clear"] /\ EndsSessions(req[r].op)
         /\ \A x \in Req \ {r} : req'[x] \in Later(req[x])
<1> USE DEF IInv, TypeOK
<1>0. /\ req[r] \in Request /\ req[r].user \in 0..seq.user /\ seq.user \in Nat
      /\ 0 \in 0..seq.user
  BY DEF UserIds
<1>1. CASE Respond(r)
  BY <1>0, <1>1, IdleRequest DEF Respond, Later, NeedsNothing
<1>2. ASSUME NEW q \in Request, req' = [Overtaken(req[r]) EXCEPT ![r] = q],
             q.user \in 0..seq.user, NeedsNothing(q),
             q.pc = "clear" => q = [req[r] EXCEPT !.pc = "clear"] /\ EndsSessions(req[r].op)
      PROVE  /\ req' \in [Req -> Request]
             /\ req'[r] = q
             /\ \A x \in Req \ {r} : req'[x] \in Later(req[x])
  BY <1>2, OvertakenRequests
<1>3. CASE req' = [Overtaken(req[r]) EXCEPT ![r] = Idle]
  BY <1>0, <1>2, <1>3, IdleRequest DEF NeedsNothing
<1>4. CASE /\ EndsSessions(req[r].op)
           /\ req' = [Overtaken(req[r]) EXCEPT ![r] = [req[r] EXCEPT !.pc = "clear"]]
  <2> DEFINE q == [req[r] EXCEPT !.pc = "clear"]
  <2>1. q \in Request /\ q.user = req[r].user /\ q.pc = "clear"
    BY <1>0 DEF Request
  <2> HIDE DEF q
  <2>2. NeedsNothing(q)
    BY <2>1 DEF NeedsNothing
  <2>3. req' = [Overtaken(req[r]) EXCEPT ![r] = q]
    BY <1>4 DEF q
  <2> QED BY <1>0, <1>2, <1>4, <2>1, <2>2, <2>3 DEF q
<1>5. CASE req' = [Overtaken(req[r]) EXCEPT ![r] = GoOn(req[r], req[r].op)]
  <2> DEFINE q == GoOn(req[r], req[r].op)
  <2>1. q = Idle \/ q \in {n \in FormRequest : n.user = req[r].user}
    BY <1>0, GoOnRequest
  <2>2. req' = [Overtaken(req[r]) EXCEPT ![r] = q]
    BY <1>5
  <2> HIDE DEF q
  <2>3. q \in Request /\ q.user \in 0..seq.user /\ NeedsNothing(q) /\ q.pc # "clear"
    BY <1>0, <2>1, IdleRequest DEF FormRequest, NeedsNothing, Guarded
  <2> QED BY <1>2, <2>2, <2>3
<1> QED BY <1>1, <1>3, <1>4, <1>5 DEF UserWrite

\* Every step of a request leaves it a request about a user whose id was given out; the
\* others are at most overtaken.
LEMMA StepRequest ==
  ASSUME IInv, RequestsKnow, NEW r \in Req, Step(r)
  PROVE  /\ req' \in [Req -> Request]
         /\ req'[r].user \in 0..seq.user
         /\ \A x \in Req \ {r} : req'[x] \in Later(req[x])
<1>1. CASE UserWrite(r)
  BY <1>1, WriteRequest
<1>2. CASE ~UserWrite(r)
  BY <1>2, StepAlone DEF IInv, TypeOK, Later
<1> QED BY <1>1, <1>2

\* An UPDATE of a user keeps the id.
LEMMA WrittenKeepsId ==
  ASSUME NEW u \in UserRow, NEW q \in Request, q.op # "delete", Accepted(q)
  PROVE  Written(u, q) \in UserRow /\ Written(u, q).id = u.id
<1>1. CASE q.op = "role"
  <2>1. q.role \in Role /\ Written(u, q) = [u EXCEPT !.role = q.role]
    BY <1>1 DEF Accepted, Written
  <2> QED BY <2>1 DEF UserRow
<1>2. CASE q.op = "on"
  BY <1>2 DEF Written, UserRow
<1>3. CASE q.op = "off"
  BY <1>3 DEF Written, UserRow
<1>4. CASE q.op = "password"
  BY <1>4 DEF Written, UserRow
<1> QED BY <1>1, <1>2, <1>3, <1>4 DEF Request, Op

\* The INSERT, UPDATE and DELETE of a request keep the tables in order.
LEMMA StepTables ==
  ASSUME IInv, NEW r \in Req, Step(r)
  PROVE  /\ users' \subseteq UserRow /\ sessions' \subseteq SessionRow
         /\ seq' \in [user: Nat, session: Nat] /\ seq'.user = seq.user
         /\ lost' \subseteq Nat
         /\ \A u \in users' : u.id \in 1..seq.user
         /\ \A u, v \in users' : u.id = v.id => u = v
         /\ SessionsHaveUsers'
<1> USE DEF IInv, TypeOK, UserIds, SessionsHaveUsers, UserLive
<1>0. req[r] \in Request
  OBVIOUS
<1>1. CASE UNCHANGED tables
  BY <1>1 DEF tables
<1>2. CASE UserWrite(r)
  <2>1. CASE /\ req[r].op = "delete"
             /\ users' = {u \in users : u.id # req[r].user}
             /\ sessions' = SessionsWithout(req[r].user)
             /\ UNCHANGED <<seq, lost>>
    BY <2>1 DEF SessionsWithout
  <2>2. CASE UNCHANGED <<users, sessions, seq, lost>>
    BY <2>2
  <2>3. CASE /\ req[r].op # "delete" /\ Accepted(req[r])
             /\ users' = {IF u.id = req[r].user THEN Written(u, req[r]) ELSE u : u \in users}
             /\ UNCHANGED <<sessions, seq, lost>>
    <3> DEFINE w(u) == IF u.id = req[r].user THEN Written(u, req[r]) ELSE u
    <3>1. \A u \in users : w(u) \in UserRow /\ w(u).id = u.id
      BY <1>0, <2>3, WrittenKeepsId
    <3>2. users' = {w(u) : u \in users}
      BY <2>3
    <3> HIDE DEF w
    <3>3. \A x \in users' : \E u \in users : x = w(u)
      BY <3>2
    <3>4. \A u \in users : w(u) \in users'
      BY <3>2
    <3>5. \A x, y \in users' : x.id = y.id => x = y
      <4> SUFFICES ASSUME NEW x \in users', NEW y \in users', x.id = y.id PROVE x = y
        OBVIOUS
      <4>1. PICK u \in users, v \in users : x = w(u) /\ y = w(v)
        BY <3>3
      <4>2. u = v
        BY <3>1, <4>1
      <4> QED BY <4>1, <4>2
    <3>6. users' \subseteq UserRow /\ \A u \in users' : u.id \in 1..seq.user
      BY <3>1, <3>3
    <3>7. SessionsHaveUsers'
      BY <2>3, <3>1, <3>4
    <3> QED BY <2>3, <3>5, <3>6, <3>7
  <2> QED BY <1>2, <2>1, <2>2, <2>3 DEF UserWrite
<1>3. CASE ClearSessions(r) \/ RequestFails(r)
  <2>1. req[r].user \in Nat
    BY <1>0 DEF Request
  <2>2. sessions' \subseteq sessions /\ UNCHANGED <<users, seq>>
    BY <1>3 DEF ClearSessions, RequestFails
  <2>3. lost' \subseteq Nat
    BY <1>3, <2>1 DEF ClearSessions, RequestFails
  <2> QED BY <2>2, <2>3
<1>4. CASE CreateSession(r)
  <2>1. CASE /\ UserLive(req[r].user)
             /\ sessions' = sessions \cup {[id |-> seq.session + 1, user |-> req[r].user,
                                            pw |-> req[r].pw, expired |-> FALSE,
                                            late |-> req[r].overtaken]}
             /\ seq' = [seq EXCEPT !.session = @ + 1]
             /\ UNCHANGED <<users, lost>>
    <3> DEFINE s == [id |-> seq.session + 1, user |-> req[r].user,
                     pw |-> req[r].pw, expired |-> FALSE,
                                            late |-> req[r].overtaken]
    <3>1. s \in SessionRow /\ s.user = req[r].user
      BY <1>0 DEF SessionRow, Request
    <3>2. sessions' = sessions \cup {s}
      BY <2>1
    <3> HIDE DEF s
    <3> QED BY <2>1, <3>1, <3>2
  <2>2. CASE UNCHANGED tables
    BY <2>2 DEF tables
  <2> QED BY <1>4, <2>1, <2>2 DEF CreateSession, SessionPossible, tables
<1> QED
  BY <1>1, <1>2, <1>3, <1>4
     DEF Step, StartUserUpdate, StartUserDelete, GuardReadUser, GuardCount, StartLogin,
         StartPasswordUpdate, VerifyPassword

\* What an UPDATE leaves as it was.
LEMMA WrittenKeeps ==
  ASSUME NEW u \in UserRow, NEW q \in Request, q.op # "delete", Accepted(q)
  PROVE  /\ u.active /\ q.op # "off" => Written(u, q).active
         /\ q.op # "password" => Written(u, q).pw = u.pw
         /\ q.op = "password" => Written(u, q).active = u.active /\ Written(u, q).role = u.role
         /\ u.role = "owner" /\ u.active /\ (q.op \notin Guarded \/ KeepsOwner(q)) =>
              Written(u, q).role = "owner" /\ Written(u, q).active
<1>1. CASE q.op = "role"
  BY <1>1 DEF Written, UserRow, Guarded, KeepsOwner
<1>2. CASE q.op = "on"
  BY <1>2 DEF Written, UserRow, Guarded, KeepsOwner
<1>3. CASE q.op = "off"
  BY <1>3 DEF Written, UserRow, Guarded, KeepsOwner
<1>4. CASE q.op = "password"
  BY <1>4 DEF Written, UserRow, Guarded, KeepsOwner
<1> QED BY <1>1, <1>2, <1>3, <1>4 DEF Request, Op

\* The row of a user before it was written, and the one it became.
Rewritten(u, q) == IF u.id = q.user THEN Written(u, q) ELSE u

\* A write leaves alone what the requests know that it does not overtake.
LEMMA WriteKnows ==
  ASSUME IInv, RequestsKnow, NEW r \in Req, UserWrite(r)
  PROVE  RequestsKnow'
<1> USE DEF IInv, TypeOK
<1> DEFINE q == req[r]
<1>0. q \in Request
  OBVIOUS
<1>1. Knows(req[r])'
  BY WriteRequest DEF NeedsNothing, Knows
<1>2. SUFFICES ASSUME NEW x \in Req \ {r} PROVE Knows(req[x])'
  BY <1>1 DEF RequestsKnow
<1>3. Knows(req[x]) /\ req[x] \in Request
  BY DEF RequestsKnow
<1>4. CASE Respond(r) /\ UNCHANGED users
  BY <1>3, <1>4 DEF Respond, Knows, SafeWrite, KeepsOwner, FreshLogin, ActiveOwners
<1>5. CASE req'[x] = Overtaken(q)[x] /\ ~Overtaken(q)[x].overtaken
  <2>1. /\ req'[x] = req[x] /\ ~req[x].overtaken
        /\ ~(req[x].pc = "login" /\ req[x].user = q.user /\ q.op \in {"off", "password"})
        /\ ~(req[x].pc = "write" /\ req[x].op \in Guarded /\ q.op # "password")
    BY <1>3, <1>5 DEF Overtaken, Request
  <2>2. CASE q.op = "delete" /\ users' = {u \in users : u.id # q.user}
    BY <1>3, <2>1, <2>2 DEF Knows, FreshLogin
  <2>3. CASE /\ q.op # "delete" /\ Accepted(q)
             /\ users' = {Rewritten(u, q) : u \in users}
    <3>1. \A u \in users : u \in UserRow /\ Rewritten(u, q).id = u.id
      BY <1>0, <2>3, WrittenKeepsId DEF Rewritten
    <3>2. \A v \in users' : \E u \in users : v = Rewritten(u, q)
      BY <2>3
    <3>3. \A u \in users : Rewritten(u, q) \in users'
      BY <2>3
    <3>4. req[x].pc = "login" => FreshLogin(req[x])'
      <4> SUFFICES ASSUME req[x].pc = "login", NEW v \in users', v.id = req[x].user
                   PROVE  v.active /\ v.pw = req[x].pw
        BY <2>1 DEF FreshLogin
      <4>1. PICK u \in users : v = Rewritten(u, q)
        BY <3>2
      <4>2. u.id = req[x].user /\ u \in UserRow
        BY <3>1, <4>1
      <4>3. u.active /\ u.pw = req[x].pw
        BY <1>3, <2>1, <4>2 DEF Knows, FreshLogin
      <4>4. CASE u.id # q.user
        BY <4>1, <4>3, <4>4 DEF Rewritten
      <4>5. CASE u.id = q.user
        <5>1. q.op \notin {"off", "password"}
          BY <2>1, <4>2, <4>5
        <5> QED BY <1>0, <2>3, <4>1, <4>2, <4>3, <4>5, <5>1, WrittenKeeps DEF Rewritten
      <4> QED BY <4>4, <4>5
    <3>5. req[x].pc = "write" /\ req[x].op \in Guarded => SafeWrite(req[x])'
      <4> SUFFICES ASSUME req[x].pc = "write", req[x].op \in Guarded
                   PROVE  SafeWrite(req[x])'
        OBVIOUS
      <4>1. q.op = "password" /\ SafeWrite(req[x])
        BY <1>3, <2>1 DEF Knows
      <4>2. \A u \in users : /\ Rewritten(u, q).role = u.role
                             /\ Rewritten(u, q).active = u.active
        BY <1>0, <2>3, <3>1, <4>1, WrittenKeeps DEF Rewritten
      <4>3. \A v \in ActiveOwners' : \E u \in ActiveOwners : v.id = u.id
        BY <3>1, <3>2, <4>2 DEF ActiveOwners
      <4>4. \A u \in ActiveOwners : \E v \in ActiveOwners' : v.id = u.id
        BY <3>1, <3>3, <4>2 DEF ActiveOwners
      <4>5. KeepsOwner(req[x]) => KeepsOwner(req[x])'
        BY <2>1 DEF KeepsOwner
      <4> QED BY <2>1, <4>1, <4>3, <4>4, <4>5 DEF SafeWrite
    <3> QED BY <1>3, <2>1, <3>4, <3>5 DEF Knows
  <2> QED BY <1>5, <2>1, <2>2, <2>3, <1>4, <1>3 DEF UserWrite, Rewritten
<1>6. CASE req'[x] = Overtaken(q)[x] /\ Overtaken(q)[x].overtaken
  BY <1>3, <1>6, OvertakenRequests, LaterRequest DEF Knows
<1>7. (Respond(r) /\ UNCHANGED users) \/ req'[x] = Overtaken(q)[x]
  BY OvertakenRequests DEF UserWrite
<1> QED BY <1>4, <1>5, <1>6, <1>7

\* A step of a request keeps the invariant.
LEMMA StepIInv == ASSUME IInv, RequestsKnow, NEW r \in Req, Step(r) PROVE IInv'
<1>1. req' \in [Req -> Request] /\ \A x \in Req : req'[x].user \in 0..seq.user
  BY StepRequest, LaterRequest DEF IInv, TypeOK, UserIds
<1>2. TypeOK'
  BY <1>1, StepTables DEF TypeOK
<1>3. UserIds'
  BY <1>1, StepTables DEF UserIds
<1>4. SessionsHaveUsers'
  BY StepTables
<1> QED BY <1>2, <1>3, <1>4 DEF IInv

\* A step of a request keeps what the requests know.
LEMMA StepKnows == ASSUME IInv, RequestsKnow, NEW r \in Req, Step(r) PROVE RequestsKnow'
<1>1. CASE UserWrite(r)
  BY <1>1, WriteKnows
<1>2. CASE ~UserWrite(r)
  <2>1. PICK q \in Request : req' = [req EXCEPT ![r] = q] /\ Knows(q)
    BY <1>2, StepAlone
  <2>2. UNCHANGED users
    BY <1>2 DEF Step, StartUserUpdate, StartUserDelete, GuardReadUser, GuardCount,
                ClearSessions, StartLogin, CreateSession, StartPasswordUpdate,
                VerifyPassword, RequestFails, tables
  <2>3. \A x \in Req : Knows(req'[x])
    BY <2>1 DEF RequestsKnow, IInv, TypeOK
  <2> QED
    BY <2>2, <2>3 DEF RequestsKnow, Knows, SafeWrite, KeepsOwner, FreshLogin, ActiveOwners
<1> QED BY <1>1, <1>2

\* What is not a step of a request leaves the users alone, or adds one, and
\* removes or expires sessions.
LEMMA OtherSteps ==
  ASSUME IInv, UserCreate \/ Logout \/ Expire \/ PresentExpired \/ PurgeExpiredSessions
  PROVE  /\ IInv' /\ UNCHANGED <<req, lost>>
         /\ \/ UNCHANGED users
            \/ \E n : users' = users \cup {n} /\ n.id = seq.user + 1
         /\ \A s \in sessions' : \E t \in sessions :
              <<s.user, s.pw, s.late>> = <<t.user, t.pw, t.late>>
<1> USE DEF IInv, TypeOK, UserIds, SessionsHaveUsers, UserLive
<1>1. CASE UserCreate
  <2>1. PICK role \in NewRole :
          users' = users \cup {[id |-> seq.user + 1, role |-> role, active |-> TRUE, pw |-> 0]}
    BY <1>1 DEF UserCreate
  <2> DEFINE n == [id |-> seq.user + 1, role |-> role, active |-> TRUE, pw |-> 0]
  <2>2. n \in UserRow /\ n.id = seq.user + 1 /\ users' = users \cup {n}
    BY <2>1, ConstantsAssumption DEF UserRow
  <2>3. seq' \in [user: Nat, session: Nat] /\ seq'.user = seq.user + 1
        /\ UNCHANGED <<sessions, req, lost>>
    BY <1>1 DEF UserCreate
  <2> HIDE DEF n
  <2>4. IInv'
    BY <2>2, <2>3
  <2> QED BY <2>2, <2>3, <2>4
<1>2. CASE Logout \/ PresentExpired \/ PurgeExpiredSessions
  <2>1. sessions' \subseteq sessions /\ UNCHANGED <<users, seq, req, lost>>
    BY <1>2 DEF Logout, PresentExpired, PurgeExpiredSessions
  <2> QED BY <2>1
<1>3. CASE Expire
  <2>1. PICK s \in sessions : sessions' = (sessions \ {s}) \cup {[s EXCEPT !.expired = TRUE]}
    BY <1>3 DEF Expire
  <2> DEFINE x == [s EXCEPT !.expired = TRUE]
  <2>2. x \in SessionRow /\ x.user = s.user /\ x.pw = s.pw /\ x.late = s.late
        /\ sessions' = (sessions \ {s}) \cup {x}
    BY <2>1 DEF SessionRow
  <2>3. UNCHANGED <<users, seq, req, lost>>
    BY <1>3 DEF Expire
  <2> HIDE DEF x
  <2> QED BY <2>2, <2>3
<1> QED BY <1>1, <1>2, <1>3

\* A new user has an id that no request knows.
LEMMA OtherKnows ==
  ASSUME IInv, RequestsKnow,
         UserCreate \/ Logout \/ Expire \/ PresentExpired \/ PurgeExpiredSessions
  PROVE  RequestsKnow'
<1>1. /\ UNCHANGED req
      /\ UNCHANGED users \/ \E n : users' = users \cup {n} /\ n.id = seq.user + 1
  BY OtherSteps
<1>2. CASE UNCHANGED users
  BY <1>1, <1>2 DEF RequestsKnow, Knows, SafeWrite, KeepsOwner, FreshLogin, ActiveOwners
<1>3. CASE \E n : users' = users \cup {n} /\ n.id = seq.user + 1
  <2>1. PICK n : users' = users \cup {n} /\ n.id = seq.user + 1
    BY <1>3
  <2>2. SUFFICES ASSUME NEW r \in Req PROVE Knows(req[r])'
    BY DEF RequestsKnow
  <2>3. Knows(req[r]) /\ req'[r] = req[r]
    BY <1>1 DEF RequestsKnow
  <2>4. n.id # req[r].user
    <3>1. req[r].user \in 0..seq.user /\ seq.user \in Nat
      BY DEF IInv, TypeOK, UserIds
    <3> QED BY <2>1, <3>1
  <2>5. FreshLogin(req[r]) => FreshLogin(req[r])'
    BY <2>1, <2>3, <2>4 DEF FreshLogin
  <2>6. SafeWrite(req[r]) => SafeWrite(req[r])'
    BY <2>1, <2>3, <2>4 DEF SafeWrite, KeepsOwner, ActiveOwners
  <2> QED BY <2>3, <2>5, <2>6 DEF Knows
<1> QED BY <1>1, <1>2, <1>3

\* The first owner alone satisfies the invariant.
LEMMA InitIInv == Init => IInv /\ RequestsKnow
BY DEF Init, IInv, TypeOK, UserIds, SessionsHaveUsers, UserLive, UserRow, Role, Idle,
       Request, Op, RequestsKnow, Knows

\* The inductive invariant holds in every reachable state.
LEMMA Invariance == Spec => [](IInv /\ RequestsKnow)
<1>1. IInv /\ RequestsKnow /\ [Next]_vars => (IInv /\ RequestsKnow)'
  <2> SUFFICES ASSUME IInv, RequestsKnow, [Next]_vars PROVE IInv' /\ RequestsKnow'
    OBVIOUS
  <2>1. CASE UNCHANGED vars
    BY <2>1 DEF vars, IInv, TypeOK, UserIds, SessionsHaveUsers, UserLive, RequestsKnow,
                Knows, SafeWrite, KeepsOwner, FreshLogin, ActiveOwners
  <2>2. CASE \E r \in Req : Step(r)
    BY <2>2, StepIInv, StepKnows
  <2> QED BY <2>1, <2>2, OtherSteps, OtherKnows DEF Next
<1> QED BY InitIInv, <1>1, PTL DEF Spec

\* Rows and requests keep their types, for any number of concurrent requests.
THEOREM TypeCorrect == Spec => []TypeOK
BY Invariance, PTL DEF IInv

\* However logins, sign-outs and deletions overlap, no session outlives its
\* user.
THEOREM NoOrphanSession == Spec => []SessionsHaveUsers
BY Invariance, PTL DEF IInv

-----------------------------------------------------------------------------
(* The last owner.                                                         *)

\* A write that nobody overtook leaves an active owner.
LEMMA SafeWrites ==
  ASSUME IInv, RequestsKnow, OwnerRemains, NEW r \in Req, UserWrite(r),
         ~(req[r].op \in Guarded /\ req[r].overtaken)
  PROVE  OwnerRemains'
<1> USE DEF IInv, TypeOK
<1> DEFINE q == req[r]
<1>1. q \in Request /\ q.pc = "write" /\ (q.op \in Guarded => SafeWrite(q))
  BY DEF UserWrite, RequestsKnow, Knows
<1>2. CASE UNCHANGED users
  BY <1>2 DEF OwnerRemains, ActiveOwners
<1>3. CASE q.op = "delete" /\ users' = {u \in users : u.id # q.user}
  <2>1. SafeWrite(q) /\ ~KeepsOwner(q)
    BY <1>1, <1>3 DEF Guarded, KeepsOwner
  <2>2. PICK u \in ActiveOwners : u.id # q.user
    BY <2>1 DEF SafeWrite, OwnerRemains
  <2> QED BY <1>3, <2>2 DEF OwnerRemains, ActiveOwners
<1>4. CASE /\ q.op # "delete" /\ Accepted(q)
           /\ users' = {Rewritten(u, q) : u \in users}
  <2>1. \A u \in users : Rewritten(u, q) \in users'
    BY <1>4
  <2>2. CASE q.op \in Guarded /\ ~KeepsOwner(q)
    <3>1. PICK u \in ActiveOwners : u.id # q.user
      BY <1>1, <2>2 DEF SafeWrite, OwnerRemains
    <3>2. u \in users /\ u.role = "owner" /\ u.active /\ u = Rewritten(u, q)
      BY <3>1 DEF ActiveOwners, Rewritten
    <3>3. u \in users'
      BY <2>1, <3>2
    <3> QED BY <3>2, <3>3 DEF OwnerRemains, ActiveOwners
  <2>3. CASE q.op \notin Guarded \/ KeepsOwner(q)
    <3>1. PICK u \in users : u.role = "owner" /\ u.active
      BY DEF OwnerRemains, ActiveOwners
    <3>2. Rewritten(u, q).role = "owner" /\ Rewritten(u, q).active
      BY <1>1, <1>4, <2>3, <3>1, WrittenKeeps DEF Rewritten
    <3> QED BY <2>1, <3>1, <3>2 DEF OwnerRemains, ActiveOwners
  <2> QED BY <2>2, <2>3
<1> QED BY <1>2, <1>3, <1>4 DEF UserWrite, Rewritten

\* For any number of requests and any forms: the last active owner goes only by the
\* write of a request that another one overtook after its guard.
THEOREM LastOwner == Spec => LastOwnerGuarded
<1> DEFINE Lost == OwnerRemains /\ ~OwnerRemains' =>
                     \E r \in Req : req[r].pc = "write" /\ req[r].overtaken /\ req'[r] # req[r]
<1>1. IInv /\ RequestsKnow /\ Next => Lost
  <2> SUFFICES ASSUME IInv, RequestsKnow, Next, OwnerRemains, ~OwnerRemains'
               PROVE  \E r \in Req : /\ req[r].pc = "write" /\ req[r].overtaken
                                     /\ req'[r] # req[r]
    OBVIOUS
  <2>1. ~(UNCHANGED users)
    BY DEF OwnerRemains, ActiveOwners
  <2>2. PICK r \in Req : UserWrite(r)
    <3>1. CASE \E r \in Req : Step(r)
      BY <2>1, <3>1 DEF Step, StartUserUpdate, StartUserDelete, GuardReadUser, GuardCount,
                        ClearSessions, StartLogin, CreateSession, StartPasswordUpdate,
                        VerifyPassword, RequestFails, tables
    <3>2. CASE UserCreate \/ Logout \/ Expire \/ PresentExpired \/ PurgeExpiredSessions
      <4>1. users \subseteq users'
        BY <3>2, OtherSteps
      <4> QED BY <4>1 DEF OwnerRemains, ActiveOwners
    <3> QED BY <3>1, <3>2 DEF Next
  <2>3. req[r].pc = "write" /\ req[r].op \in Guarded /\ req[r].overtaken
    BY <2>2, SafeWrites DEF UserWrite
  <2>4. req'[r] # req[r]
    BY <2>2, <2>3, WriteRequest DEF NeedsNothing
  <2> QED BY <2>3, <2>4
<1>2. IInv /\ RequestsKnow /\ [Next]_vars => [Lost]_vars
  BY <1>1
<1>3. LastOwnerGuarded <=> [][Lost]_vars
  BY PTL DEF LastOwnerGuarded
<1> HIDE DEF Lost
<1> QED BY <1>2, <1>3, Invariance, PTL DEF Spec

-----------------------------------------------------------------------------
(* The sign-outs.                                                          *)

\* A session that has no place any more, and that a request has to answer for.
Stale(s, u) ==
  s.user = u.id /\ ~s.late /\ u.id \notin lost /\ (~u.active \/ s.pw # u.pw)

\* Some request is about to delete the sessions of a user after the operation op.
Clears(op, id) ==
  \E r \in Req : req[r].pc = "clear" /\ req[r].op = op /\ req[r].user = id

\* The two sign-outs in other words.
LEMMA SignOutMeans ==
  SignOutInv <=>
    \A s \in sessions, u \in users : Stale(s, u) =>
      /\ ~u.active => Clears("off", u.id)
      /\ s.pw # u.pw => Clears("password", u.id)
BY DEF SignOutInv, DisabledUsersSignedOut, OnlyLateLoginsStay, Stale, Clears

\* The same of the next state, with nothing primed outside the variables.
LEMMA SignOutNext ==
  ASSUME \A s \in sessions', u \in users' :
           (s.user = u.id /\ ~s.late /\ u.id \notin lost') =>
             /\ ~u.active => Clears("off", u.id)'
             /\ s.pw # u.pw => Clears("password", u.id)'
  PROVE  SignOutInv'
BY DEF SignOutInv, DisabledUsersSignedOut, OnlyLateLoginsStay, Clears

\* Only the DELETE of the sessions, or a failure there, ends a clearing request.
LEMMA ClearsStay ==
  ASSUME IInv, RequestsKnow, NEW r \in Req, Step(r), req[r].pc # "clear",
         NEW op, NEW id, Clears(op, id)
  PROVE  Clears(op, id)'
<1>1. PICK x \in Req : req[x].pc = "clear" /\ req[x].op = op /\ req[x].user = id
  BY DEF Clears
<1>2. x # r /\ req'[x] \in Later(req[x])
  BY <1>1, StepRequest
<1>3. req'[x].pc = "clear" /\ req'[x].op = op /\ req'[x].user = id
  BY <1>1, <1>2, LaterRequest DEF IInv, TypeOK
<1> QED BY <1>3 DEF Clears

\* A request clears the sessions of one user, or fails to.
LEMMA ClearSignOut ==
  ASSUME IInv, RequestsKnow, SignOutInv, NEW r \in Req,
         ClearSessions(r) \/ (RequestFails(r) /\ req[r].pc = "clear")
  PROVE  SignOutInv'
<1>1. /\ UNCHANGED users /\ sessions' \subseteq sessions
      /\ \A id \in Nat : id \notin lost' /\ id # req[r].user => id \notin lost
      /\ req[r].user \in lost' \/ \A s \in sessions' : s.user # req[r].user
  BY DEF ClearSessions, RequestFails, SignedOut
<1>2. Step(r)
  BY DEF Step
<1>3. SUFFICES ASSUME NEW s \in sessions', NEW u \in users',
                      s.user = u.id, ~s.late, u.id \notin lost'
               PROVE  /\ ~u.active => Clears("off", u.id)'
                      /\ s.pw # u.pw => Clears("password", u.id)'
  BY SignOutNext
<1>4. s \in sessions /\ u \in users /\ u.id # req[r].user /\ u.id \notin lost
  BY <1>1, <1>3 DEF IInv, TypeOK, UserRow
<1>5. /\ ~u.active => Clears("off", u.id)
      /\ s.pw # u.pw => Clears("password", u.id)
  BY <1>3, <1>4, SignOutMeans DEF Stale
<1>6. ASSUME NEW op, Clears(op, u.id) PROVE Clears(op, u.id)'
  <2>1. PICK x \in Req : req[x].pc = "clear" /\ req[x].op = op /\ req[x].user = u.id
    BY <1>6 DEF Clears
  <2>2. x # r /\ req'[x] \in Later(req[x])
    BY <1>2, <1>4, <2>1, StepRequest
  <2>3. req'[x].pc = "clear" /\ req'[x].op = op /\ req'[x].user = u.id
    BY <2>1, <2>2, LaterRequest DEF IInv, TypeOK
  <2> QED BY <2>3 DEF Clears
<1> QED BY <1>5, <1>6

\* A write that makes sessions stale goes on to clear them.
LEMMA WriteSignOut ==
  ASSUME IInv, RequestsKnow, SignOutInv, NEW r \in Req, UserWrite(r)
  PROVE  SignOutInv'
<1> USE DEF IInv, TypeOK
<1> DEFINE q == req[r]
<1>0. q \in Request /\ q.pc = "write" /\ Step(r) /\ UNCHANGED lost
  BY DEF UserWrite, Step
<1>1. SUFFICES ASSUME NEW s \in sessions', NEW v \in users',
                      s.user = v.id, ~s.late, v.id \notin lost'
               PROVE  /\ ~v.active => Clears("off", v.id)'
                      /\ s.pw # v.pw => Clears("password", v.id)'
  BY SignOutNext
<1>2. ASSUME NEW u \in users, s \in sessions, u.id = v.id
      PROVE  /\ ~u.active => Clears("off", v.id)'
             /\ s.pw # u.pw => Clears("password", v.id)'
  <2>1. /\ ~u.active => Clears("off", v.id)
        /\ s.pw # u.pw => Clears("password", v.id)
    BY <1>0, <1>1, <1>2, SignOutMeans DEF Stale
  <2> QED BY <1>0, <2>1, ClearsStay
<1>3. CASE users' \subseteq users /\ sessions' \subseteq sessions
  BY <1>2, <1>3
<1>4. CASE /\ q.op # "delete" /\ Accepted(q)
           /\ users' = {Rewritten(u, q) : u \in users}
           /\ UNCHANGED sessions
           /\ EndsSessions(q.op) =>
                req' = [Overtaken(q) EXCEPT ![r] = [q EXCEPT !.pc = "clear"]]
  <2>1. PICK u \in users : v = Rewritten(u, q)
    BY <1>4
  <2>2. v.id = u.id /\ s \in sessions
    BY <1>0, <1>4, <2>1, WrittenKeepsId DEF Rewritten
  <2>3. CASE u.id # q.user
    BY <1>2, <2>1, <2>2, <2>3 DEF Rewritten
  <2>4. CASE u.id = q.user
    <3>1. ASSUME NEW op, q.op = op, EndsSessions(op) PROVE Clears(op, v.id)'
      <4>1. req'[r] = [q EXCEPT !.pc = "clear"]
        BY <1>4, <3>1, OvertakenRequests
      <4>2. req'[r].pc = "clear" /\ req'[r].op = op /\ req'[r].user = q.user
        BY <1>0, <3>1, <4>1 DEF Request
      <4> QED BY <2>2, <2>4, <4>2 DEF Clears
    <3>2. v = Written(u, q)
      BY <2>1, <2>4 DEF Rewritten
    <3>3. /\ ~u.active => Clears("off", v.id)'
          /\ s.pw # u.pw => Clears("password", v.id)'
      BY <1>2, <2>2
    <3>4. /\ q.op # "off" /\ u.active => v.active
          /\ q.op # "password" => v.pw = u.pw
      BY <1>0, <1>4, <3>2, WrittenKeeps
    <3>5. ~v.active => Clears("off", v.id)'
      <4>1. CASE q.op = "off"
        BY <3>1, <4>1 DEF EndsSessions
      <4>2. CASE q.op # "off"
        BY <3>3, <3>4, <4>2
      <4> QED BY <4>1, <4>2
    <3>6. s.pw # v.pw => Clears("password", v.id)'
      <4>1. CASE q.op = "password"
        BY <3>1, <4>1 DEF EndsSessions
      <4>2. CASE q.op # "password"
        BY <3>3, <3>4, <4>2
      <4> QED BY <4>1, <4>2
    <3> QED BY <3>5, <3>6
  <2> QED BY <2>3, <2>4
<1> QED BY <1>3, <1>4 DEF UserWrite, SessionsWithout, Rewritten

\* A log-in that was not overtaken opens a session that is not stale.
LEMMA LoginSignOut ==
  ASSUME IInv, RequestsKnow, SignOutInv, NEW r \in Req, CreateSession(r)
  PROVE  SignOutInv'
<1>0. UNCHANGED <<users, lost>> /\ Step(r) /\ req[r].pc = "login"
  BY DEF CreateSession, Step
<1>1. SUFFICES ASSUME NEW s \in sessions', NEW u \in users',
                      s.user = u.id, ~s.late, u.id \notin lost'
               PROVE  /\ ~u.active => Clears("off", u.id)'
                      /\ s.pw # u.pw => Clears("password", u.id)'
  BY SignOutNext
<1>2. CASE s \in sessions
  <2>1. /\ ~u.active => Clears("off", u.id)
        /\ s.pw # u.pw => Clears("password", u.id)
    BY <1>0, <1>1, <1>2, SignOutMeans DEF Stale
  <2> QED BY <1>0, <2>1, ClearsStay
<1>3. CASE s \notin sessions
  <2>1. /\ s.user = req[r].user /\ s.pw = req[r].pw
        /\ s.late = req[r].overtaken
    BY <1>3 DEF CreateSession
  <2>2. FreshLogin(req[r])
    BY <1>0, <1>1, <2>1 DEF RequestsKnow, Knows
  <2> QED BY <1>0, <1>1, <2>1, <2>2 DEF FreshLogin
<1> QED BY <1>2, <1>3

\* The sign-outs are kept by every step.
LEMMA SignOutInvariance == Spec => []SignOutInv
<1>1. Init => SignOutInv
  BY DEF Init, SignOutInv, DisabledUsersSignedOut, OnlyLateLoginsStay
<1>2. IInv /\ RequestsKnow /\ SignOutInv /\ [Next]_vars => SignOutInv'
  <2> SUFFICES ASSUME IInv, RequestsKnow, SignOutInv, [Next]_vars PROVE SignOutInv'
    OBVIOUS
  <2>1. CASE UNCHANGED vars
    BY <2>1 DEF vars, SignOutInv, DisabledUsersSignedOut, OnlyLateLoginsStay
  <2>2. CASE \E x \in Req : Step(x)
    <3>1. PICK r \in Req : Step(r)
      BY <2>2
    <3>2. CASE ClearSessions(r) \/ (RequestFails(r) /\ req[r].pc = "clear")
      BY <3>2, ClearSignOut
    <3>3. CASE UserWrite(r) \/ CreateSession(r)
      BY <3>3, WriteSignOut, LoginSignOut
    <3>4. CASE UNCHANGED <<users, sessions, lost>> /\ req[r].pc # "clear"
      <4>1. SUFFICES ASSUME NEW s \in sessions, NEW u \in users,
                            s.user = u.id, ~s.late, u.id \notin lost
                     PROVE  /\ ~u.active => Clears("off", u.id)'
                            /\ s.pw # u.pw => Clears("password", u.id)'
        BY <3>4, SignOutNext
      <4>2. /\ ~u.active => Clears("off", u.id)
            /\ s.pw # u.pw => Clears("password", u.id)
        BY <4>1, SignOutMeans DEF Stale
      <4> QED BY <3>1, <3>4, <4>2, ClearsStay
    <3> QED
      BY <3>1, <3>2, <3>3, <3>4
         DEF Step, StartUserUpdate, StartUserDelete, GuardReadUser, GuardCount, StartLogin,
             StartPasswordUpdate, VerifyPassword, RequestFails, tables
  <2>3. CASE UserCreate \/ Logout \/ Expire \/ PresentExpired \/ PurgeExpiredSessions
    <3>1. UNCHANGED <<req, lost>>
      BY <2>3, OtherSteps
    <3>2. \A s \in sessions' : \E t \in sessions :
            <<s.user, s.pw, s.late>> = <<t.user, t.pw, t.late>>
      BY <2>3, OtherSteps
    <3>3. \A u \in users' : u \in users \/ u.id = seq.user + 1
      BY <2>3, OtherSteps
    <3>4. \A t \in sessions : t.user \in 1..seq.user
      BY DEF IInv, SessionsHaveUsers, UserLive, UserIds
    <3>5. seq.user \in Nat
      BY DEF IInv, TypeOK
    <3>6. \A s \in sessions', u \in users' : s.user = u.id =>
            u \in users /\ \E t \in sessions : <<u.id, s.pw, s.late>> = <<t.user, t.pw, t.late>>
      BY <3>2, <3>3, <3>4, <3>5
    <3>7. DisabledUsersSignedOut' /\ OnlyLateLoginsStay'
      BY <3>1, <3>6 DEF SignOutInv, DisabledUsersSignedOut, OnlyLateLoginsStay
    <3> QED BY <3>7 DEF SignOutInv
  <2> QED BY <2>1, <2>2, <2>3 DEF Next
<1> QED BY <1>1, <1>2, Invariance, PTL DEF Spec

\* However many requests overlap: a disabled user has a session only while the request
\* that disabled him still has to delete it, or after a failure, or by a late log-in.
THEOREM DisabledSignedOut == Spec => []DisabledUsersSignedOut
<1>1. SignOutInv => DisabledUsersSignedOut
  BY DEF SignOutInv
<1> QED BY <1>1, SignOutInvariance, PTL

\* However many requests overlap: of the sessions that an old password opened, a new one
\* leaves at most those of late log-ins.
THEOREM PasswordSignsOut == Spec => []OnlyLateLoginsStay
<1>1. SignOutInv => OnlyLateLoginsStay
  BY DEF SignOutInv
<1> QED BY <1>1, SignOutInvariance, PTL
=============================================================================
