-------------------------------- MODULE Access --------------------------------
(***************************************************************************)
(* Who may write where: OAuth codes and tokens of MCP clients, grants of   *)
(* projects, the checks before a project or transaction is written, and    *)
(* the audit log (internal/mcp/oauth.go, internal/mcp/protocol.go,         *)
(* internal/handlers/project_access.go, journal.go, projects.go;           *)
(* internal/models/project_permissions.go).                                *)
(*                                                                         *)
(* The statements of a request are actions: the user is read first, each   *)
(* check is a SELECT, the write comes after them, the audit row last.      *)
(* What the request names is chosen by the first statement that reads it,  *)
(* and what it does with it by the write.                                  *)
(* Owners pass every check, so each of their requests is one action.       *)
(*                                                                         *)
(* A user or a request may be refused at any time for what is not          *)
(* modelled: an expired session, code or token, a wrong client, redirect   *)
(* URI or verifier, a form that lacks a field.  Such a request has written *)
(* nothing yet.                                                            *)
(***************************************************************************)
EXTENDS Integers, FiniteSets

CONSTANTS
  Req,          \* request goroutines
  User,         \* accountants, who write where they are granted to
  MaxProject,   \* bound: projects ever created
  MaxTx,        \* bound: transactions ever created
  MaxCode,      \* bound: authorization codes ever issued
  MaxToken,     \* bound: access tokens ever issued
  MaxCall,      \* bound: MCP calls that get past the token
  MaxRows       \* bound: projects, transactions, and codes or tokens, together

ASSUME ConstantsAssumption ==
  /\ "owner" \notin User
  /\ {MaxProject, MaxTx, MaxCode, MaxToken, MaxCall, MaxRows} \subseteq Nat

VARIABLES
  standing,     \* each user's role and active flag, as far as they matter here
  projects,     \* rows of projects
  grants,       \* rows of project_permissions
  txs,          \* rows of transactions
  codes,        \* rows of mcp_authorization_codes
  tokens,       \* rows of mcp_access_tokens
  audit,        \* calls in mcp_audit_log
  seq,          \* last id of each table
  req,          \* local state of each request
  unlogged,     \* history: calls that a failure kept out of the log
  taken         \* history: <<project, user>> of write grants taken away, or not given
                \* because a statement failed

tables == <<standing, projects, grants, txs, codes, tokens, audit, seq, unlogged, taken>>
vars == <<standing, projects, grants, txs, codes, tokens, audit, seq, req, unlogged, taken>>

Level == {"read", "write"}

ProjectRow == [id: Nat, maker: User \cup {"owner"}, call: Nat]
GrantRow   == [project: Nat, user: User, level: Level]
\* posted are the projects whose allocations the postings of the payment are charged
\* to; call is the last MCP call that wrote the row or a posting, 0 if that was somebody
\* at the web site.
TxRow      == [id: Nat, project: Nat, posted: SUBSET Nat, call: Nat]
\* excused is a history: two requests read the code before one marked it, or the mark
\* was lost.
CodeRow    == [id: Nat, user: User, used: BOOLEAN, excused: BOOLEAN]
TokenRow   == [id: Nat, code: Nat, user: User]

Request ==
  [pc: {"idle",
        "row",       \* next: the check of the transaction
        "project",   \* next: the check of the project
        "write",     \* next: INSERT, UPDATE or DELETE of a transaction or project
        "choose",    \* next: SELECT of the allocation that a form names
        "charge",    \* next: INSERT of a posting
        "uncharge",  \* next: DELETE of a posting
        "create",    \* next: INSERT of a project
        "grant",     \* next: INSERT of the creator's grant
        "audit",     \* next: INSERT into the audit log
        "mark",      \* next: UPDATE of the code's used_at
        "token"},    \* next: INSERT of the token
   user: User \cup {"none"},
   call: Nat,             \* 0 for a request at the web site
   tx: Nat, project: Nat, code: Nat,
   overtaken: BOOLEAN]    \* history: what was checked was taken away or moved since

Idle == [pc |-> "idle", user |-> "none", call |-> 0, tx |-> 0, project |-> 0, code |-> 0,
         overtaken |-> FALSE]

Id(rows) == {row.id : row \in rows}

Existing == {u \in User : standing[u] # "deleted"}

RowsOK ==
  /\ standing \in [User -> {"active", "barred", "deleted"}]
  /\ projects \subseteq ProjectRow
  /\ grants \subseteq GrantRow
  /\ txs \subseteq TxRow
  /\ codes \subseteq CodeRow
  /\ tokens \subseteq TokenRow
  /\ audit \subseteq Nat /\ unlogged \subseteq Nat
  /\ taken \subseteq Nat \X User
  /\ seq \in [project: Nat, tx: Nat, code: Nat, token: Nat, call: Nat]
  /\ req \in [Req -> Request]

\* The schema's types, keys and references, whichever rows are deleted between the
\* statements of a request (schema.sql:36-48, 199-210).
TypeOK ==
  /\ RowsOK
  /\ \A t \in txs : /\ t.project \in Id(projects) \cup {0}
                    /\ t.posted \subseteq Id(projects)
  /\ \A g \in grants : /\ g.project \in Id(projects) /\ g.user \in Existing
                       /\ \A h \in grants :
                            (g.project = h.project /\ g.user = h.user) => g = h
  /\ \A row \in codes \cup tokens : row.user \in Existing

Init ==
  /\ standing = [u \in User |-> "active"]
  /\ projects = {} /\ grants = {} /\ txs = {} /\ codes = {} /\ tokens = {}
  /\ audit = {} /\ unlogged = {} /\ taken = {}
  /\ seq = [project |-> 0, tx |-> 0, code |-> 0, token |-> 0, call |-> 0]
  /\ req = [r \in Req |-> Idle]

\* The bounds, on the sequences after an INSERT; a code keeps room for its token.
Within(s) ==
  /\ s.project <= MaxProject /\ s.tx <= MaxTx /\ s.code <= MaxCode /\ s.token <= MaxToken
  /\ \A n \in {s.code, s.token} : s.project + s.tx + n <= MaxRows

Become(r, state) == req' = [req EXCEPT ![r] = state]

\* The answer; every MCP call is logged, whether it succeeded or not.
Finish(q) ==
  IF q.call = 0 THEN Idle ELSE [Idle EXCEPT !.pc = "audit", !.user = q.user, !.call = q.call]

Busy(q) == q.pc # "idle"

\* Where a request may be overtaken by others before it has written.
Checking == {"row", "project", "write", "choose", "charge", "uncharge"}

\* The requests in R that are still to write are overtaken by this step.
Overtaken(R) ==
  [r \in Req |-> IF r \in R /\ req[r].pc \in Checking
                   THEN [req[r] EXCEPT !.overtaken = TRUE] ELSE req[r]]

RequestsOf(u)   == {r \in Req : req[r].user = u}
RequestsFor(tx) == {r \in Req : req[r].tx = tx}

\* The projects that give access to a transaction: its own, and those of its postings.
ProjectsOf(t) == {t.project} \cup t.posted

\* The requests that have checked something of project p.
Relying(p) ==
  {r \in Req : \/ req[r].project = p
               \/ \E t \in txs : t.id = req[r].tx /\ p \in ProjectsOf(t)}

-----------------------------------------------------------------------------
(* The checks.                                                             *)

\* Slip: the access level is not looked at.
SlipCanAccessProject(p, u) == \E g \in grants : g.project = p /\ g.user = u

\* CanAccessProject for writing.
CanAccessProject(p, u) ==
  \E g \in grants : g.project = p /\ g.user = u /\ g.level = "write"

CanAccessTransaction(t, u) == \E p \in ProjectsOf(t) : CanAccessProject(p, u)

\* A transaction that exists; a project, or a new transaction of it; a new project.
FirstPc == {"row", "project", "create"}

\* A session or an access token names the user, who is active and an accountant.
ArriveAtWeb(r) ==
  /\ ~Busy(req[r])
  /\ \E u \in User, pc \in FirstPc :
       /\ standing[u] = "active"
       /\ Become(r, [Idle EXCEPT !.pc = pc, !.user = u])
  /\ UNCHANGED tables

ArriveAtMcp(r) ==
  /\ ~Busy(req[r])
  /\ seq.call < MaxCall
  /\ \E t \in tokens, pc \in FirstPc :
       /\ standing[t.user] = "active"
       /\ Become(r, [Idle EXCEPT !.pc = pc, !.user = t.user, !.call = seq.call + 1])
  /\ seq' = [seq EXCEPT !.call = @ + 1]
  /\ UNCHANGED <<standing, projects, grants, txs, codes, tokens, audit, unlogged, taken>>

\* A form that deletes the transaction or one of its postings needs no project, and one
\* that adds a posting does not check it; there is no tool that deletes either.
CheckTransaction(r) ==
  /\ req[r].pc = "row"
  /\ \E t \in txs :
       /\ CanAccessTransaction(t, req[r].user)
       /\ \E pc \in IF req[r].call = 0 THEN {"project", "write", "choose", "uncharge"}
                     ELSE {"project"} :
            Become(r, [req[r] EXCEPT !.tx = t.id, !.pc = pc])
  /\ UNCHANGED tables

\* The project that is written, or that the transaction is to belong to, without which
\* an accountant's cannot be; or that a tool is to charge.
CheckProject(r) ==
  /\ req[r].pc = "project"
  /\ \E p \in projects :
       /\ CanAccessProject(p.id, req[r].user)
       /\ \E pc \in IF req[r].tx # 0 /\ req[r].call # 0 THEN {"write", "charge"} ELSE {"write"} :
            Become(r, [req[r] EXCEPT !.project = p.id, !.pc = pc])
  /\ UNCHANGED tables

\* A form names an allocation of any project, which is looked up and not checked
\* against the user, or none for a cost that the company shares.
ChooseAllocation(r) ==
  /\ req[r].pc = "choose"
  /\ \E p \in Id(projects) \cup {0} :
       Become(r, [req[r] EXCEPT !.project = p, !.pc = "charge"])
  /\ UNCHANGED tables

-----------------------------------------------------------------------------
(* The writes.                                                             *)

\* Slip: ON DELETE NO ACTION is left out of transactions.project_id.
SlipLeave(rows, p) == rows

\* ON DELETE SET NULL; the allocations that a posting belongs to go with the project.
Leave(rows, p) ==
  {[t EXCEPT !.project = IF @ = p THEN 0 ELSE @, !.posted = @ \ {p}] : t \in rows}

\* DELETE of a project, and what references it.
RemoveProject(p) ==
  /\ projects' = {row \in projects : row.id # p}
  /\ grants' = {g \in grants : g.project # p}
  /\ txs' = Leave(txs, p)
  /\ taken' = {pair \in taken : pair[1] # p}

CreateTransaction(r) ==
  /\ req[r].pc = "write" /\ req[r].tx = 0
  /\ txs' = IF req[r].project \in Id(projects)
              THEN txs \cup {[id |-> seq.tx + 1, project |-> req[r].project, posted |-> {},
                              call |-> req[r].call]}
              ELSE txs
  /\ seq' = [seq EXCEPT !.tx = @ + 1] /\ Within(seq')
  /\ Become(r, Finish(req[r]))
  /\ UNCHANGED <<standing, projects, grants, codes, tokens, audit, unlogged, taken>>

\* UPDATE or DELETE; a row that is gone is no error.  Other requests may have checked it before.
MoveTransaction(r) ==
  /\ req[r].pc = "write" /\ req[r].tx # 0
  /\ txs' = IF req[r].project = 0 THEN {t \in txs : t.id # req[r].tx}
            ELSE IF req[r].project \in Id(projects)
            THEN {IF t.id # req[r].tx THEN t
                  ELSE [t EXCEPT !.project = req[r].project, !.call = req[r].call] : t \in txs}
            ELSE txs
  /\ req' = [Overtaken(RequestsFor(req[r].tx)) EXCEPT ![r] = Finish(req[r])]
  /\ UNCHANGED <<standing, projects, grants, codes, tokens, audit, seq, unlogged, taken>>

Replace(t, row) == txs' = (txs \ {t}) \cup {row}

\* The foreign keys want the transaction and the allocation.
Charge(r) ==
  /\ req[r].pc = "charge" /\ req[r].project \in Id(projects) \cup {0}
  /\ \E t \in txs :
       /\ t.id = req[r].tx
       /\ Replace(t, [t EXCEPT !.posted = @ \cup ({req[r].project} \ {0}),
                              !.call = IF req[r].call = 0 THEN @ ELSE req[r].call])
  /\ Become(r, Finish(req[r]))
  /\ UNCHANGED <<standing, projects, grants, codes, tokens, audit, seq, unlogged, taken>>

\* The posting is any that the form names, of any transaction; without it the project is
\* still charged by another one, or never was.
Uncharge(r) ==
  /\ req[r].pc = "uncharge"
  /\ \/ UNCHANGED txs /\ Become(r, Finish(req[r]))
     \/ \E t \in txs : \E p \in t.posted :
          /\ Replace(t, [t EXCEPT !.posted = @ \ {p}])
          /\ req' = [Overtaken(RequestsFor(t.id)) EXCEPT ![r] = Finish(req[r])]
  /\ UNCHANGED <<standing, projects, grants, codes, tokens, audit, seq, unlogged, taken>>

UpdateProject(r) ==
  /\ req[r].pc = "write" /\ req[r].tx = 0
  /\ projects' = {IF p.id = req[r].project THEN [p EXCEPT !.call = req[r].call] ELSE p
                    : p \in projects}
  /\ Become(r, Finish(req[r]))
  /\ UNCHANGED <<standing, grants, txs, codes, tokens, audit, seq, unlogged, taken>>

DeleteProject(r) ==
  /\ req[r].pc = "write" /\ req[r].tx = 0 /\ req[r].call = 0
  /\ RemoveProject(req[r].project)
  /\ req' = [Overtaken(Relying(req[r].project)) EXCEPT ![r] = Idle]
  /\ UNCHANGED <<standing, codes, tokens, audit, seq, unlogged>>

CreateProject(r) ==
  /\ req[r].pc = "create"
  /\ projects' = projects \cup {[id |-> seq.project + 1, maker |-> req[r].user,
                                 call |-> req[r].call]}
  /\ seq' = [seq EXCEPT !.project = @ + 1] /\ Within(seq')
  /\ Become(r, [req[r] EXCEPT !.pc = "grant", !.project = seq.project + 1])
  /\ UNCHANGED <<standing, grants, txs, codes, tokens, audit, unlogged, taken>>

\* Slip: ON CONFLICT DO NOTHING.
SlipGranted(p, u, level) ==
  IF \E g \in grants : g.project = p /\ g.user = u THEN grants
  ELSE grants \cup {[project |-> p, user |-> u, level |-> level]}

\* GrantProjectAccess: a grant that is there gets the new level.
Granted(p, u, level) ==
  {g \in grants : g.project # p \/ g.user # u}
    \cup {[project |-> p, user |-> u, level |-> level]}

\* The project or the user may be gone by now.
GrantCreator(r) ==
  /\ req[r].pc = "grant"
  /\ grants' = IF req[r].project \in Id(projects) /\ req[r].user \in Existing
                 THEN Granted(req[r].project, req[r].user, "write") ELSE grants
  /\ Become(r, Finish(req[r]))
  /\ UNCHANGED <<standing, projects, txs, codes, tokens, audit, seq, unlogged, taken>>

\* The log refers to the user; an error of this INSERT is ignored.
Audit(r) ==
  /\ req[r].pc = "audit"
  /\ IF req[r].user \in Existing
       THEN audit' = audit \cup {req[r].call} /\ UNCHANGED unlogged
       ELSE unlogged' = unlogged \cup {req[r].call} /\ UNCHANGED audit
  /\ Become(r, Idle)
  /\ UNCHANGED <<standing, projects, grants, txs, codes, tokens, seq, taken>>

\* What a request that stops here leaves undone.
LeaveUndone(q) ==
  taken' = IF q.pc = "grant" THEN taken \cup {<<q.project, q.user>>} ELSE taken

\* Slip: a call that fails is not logged.
SlipAfterError(q) == Idle

AfterError(q) == Finish(q)

\* A check is negative, or a statement fails.
StatementFails(r) ==
  /\ req[r].pc \in Checking \cup {"create", "grant"}
  /\ LeaveUndone(req[r])
  /\ Become(r, AfterError(req[r]))
  /\ UNCHANGED <<standing, projects, grants, txs, codes, tokens, audit, seq, unlogged>>

\* A crash, or the INSERT of the audit row or of the token fails.  To a request at the
\* web site a crash is what a failed statement is.
RequestFails(r) ==
  /\ req[r].call # 0 \/ req[r].pc \in {"mark", "token"}
  /\ LeaveUndone(req[r])
  /\ unlogged' = IF req[r].call # 0 THEN unlogged \cup {req[r].call} ELSE unlogged
  /\ Become(r, Idle)
  /\ UNCHANGED <<standing, projects, grants, txs, codes, tokens, audit, seq>>

-----------------------------------------------------------------------------
(* OAuth.                                                                  *)

\* Approve: a user who is logged in, whatever the role, consents.
Approve ==
  /\ \E u \in Existing :
       codes' = codes \cup {[id |-> seq.code + 1, user |-> u, used |-> FALSE,
                             excused |-> FALSE]}
  /\ seq' = [seq EXCEPT !.code = @ + 1] /\ Within(seq')
  /\ UNCHANGED <<standing, projects, grants, txs, tokens, audit, req, unlogged, taken>>

\* Slip: used_at is not looked at.
SlipFresh(c) == TRUE

Fresh(c) == ~c.used

\* Token: the code is read, marked, and exchanged, by three statements.
ReadCode(r) ==
  /\ ~Busy(req[r])
  /\ \E c \in codes :
       LET raced == \E q \in Req : req[q].pc = "mark" /\ req[q].code = c.id IN
         /\ Fresh(c)
         /\ Become(r, [Idle EXCEPT !.pc = "mark", !.user = c.user,
                                   !.code = c.id])
         /\ codes' = (codes \ {c}) \cup {[c EXCEPT !.excused = @ \/ raced]}
  /\ UNCHANGED <<standing, projects, grants, txs, tokens, audit, seq, unlogged, taken>>

\* An error of the UPDATE is ignored.
MarkCode(r) ==
  /\ req[r].pc = "mark"
  /\ \E done \in BOOLEAN :
       codes' = {IF c.id # req[r].code THEN c
                 ELSE IF done THEN [c EXCEPT !.used = TRUE]
                 ELSE [c EXCEPT !.excused = TRUE] : c \in codes}
  /\ Become(r, [req[r] EXCEPT !.pc = "token"])
  /\ UNCHANGED <<standing, projects, grants, txs, tokens, audit, seq, unlogged, taken>>

\* The token is the user's, if there still is one.
IssueToken(r) ==
  /\ req[r].pc = "token"
  /\ req[r].user \in Existing
  /\ tokens' = tokens \cup {[id |-> seq.token + 1, code |-> req[r].code,
                             user |-> req[r].user]}
  /\ seq' = [seq EXCEPT !.token = @ + 1] /\ Within(seq')
  /\ Become(r, Idle)
  /\ UNCHANGED <<standing, projects, grants, txs, codes, audit, unlogged, taken>>

-----------------------------------------------------------------------------
(* Owners.                                                                 *)

OwnerCreatesProject ==
  /\ projects' = projects \cup {[id |-> seq.project + 1, maker |-> "owner", call |-> 0]}
  /\ seq' = [seq EXCEPT !.project = @ + 1] /\ Within(seq')
  /\ UNCHANGED <<standing, grants, txs, codes, tokens, audit, req, unlogged, taken>>

OwnerDeletesProject ==
  /\ \E p \in Id(projects) : RemoveProject(p) /\ req' = Overtaken(Relying(p))
  /\ UNCHANGED <<standing, codes, tokens, audit, seq, unlogged>>

OwnerCreatesTransaction ==
  /\ \E p \in Id(projects) \cup {0} :
       txs' = txs \cup {[id |-> seq.tx + 1, project |-> p, posted |-> {}, call |-> 0]}
  /\ seq' = [seq EXCEPT !.tx = @ + 1] /\ Within(seq')
  /\ UNCHANGED <<standing, projects, grants, codes, tokens, audit, req, unlogged, taken>>

\* An owner's form moves a transaction to any project or to none, or deletes it, or adds
\* or deletes a posting; a posting gives the members of its project access.
OwnerMovesTransaction ==
  /\ \E t \in txs :
       /\ \/ txs' = txs \ {t}
          \/ \E p \in Id(projects) \cup {0} : Replace(t, [t EXCEPT !.project = p, !.call = 0])
          \/ \E p \in t.posted : Replace(t, [t EXCEPT !.posted = @ \ {p}])
       /\ req' = Overtaken(RequestsFor(t.id))
  /\ UNCHANGED <<standing, projects, grants, codes, tokens, audit, seq, unlogged, taken>>

OwnerCharges ==
  /\ \E t \in txs, p \in Id(projects) : Replace(t, [t EXCEPT !.posted = @ \cup {p}])
  /\ UNCHANGED req
  /\ UNCHANGED <<standing, projects, grants, codes, tokens, audit, seq, unlogged, taken>>

\* projectPermissionSave; a grant for writing may be lowered.
SaveGrant ==
  /\ \E p \in Id(projects), u \in Existing, level \in Level :
       /\ grants' = Granted(p, u, level)
       /\ IF level = "read" /\ CanAccessProject(p, u)
            THEN /\ taken' = taken \cup {<<p, u>>}
                 /\ req' = Overtaken(RequestsOf(u) \cap Relying(p))
            ELSE UNCHANGED <<taken, req>>
  /\ UNCHANGED <<standing, projects, txs, codes, tokens, audit, seq, unlogged>>

\* projectPermissionDelete
DeleteGrant ==
  /\ \E g \in grants :
       /\ grants' = grants \ {g}
       /\ taken' = taken \cup {<<g.project, g.user>>}
       /\ req' = Overtaken(RequestsOf(g.user) \cap Relying(g.project))
  /\ UNCHANGED <<standing, projects, txs, codes, tokens, audit, seq, unlogged>>

\* A user becomes a viewer or is disabled, or an accountant again.  Sessions go, and a
\* token is refused for as long as this lasts.
SetStanding ==
  /\ \E u \in Existing, s \in {"active", "barred"} :
       /\ s # standing[u]
       /\ standing' = [standing EXCEPT ![u] = s]
       /\ req' = Overtaken(RequestsOf(u))
  /\ UNCHANGED <<projects, grants, txs, codes, tokens, audit, seq, unlogged, taken>>

\* Grants, codes and tokens go with the user.
DeleteUser ==
  /\ \E u \in Existing :
       /\ standing' = [standing EXCEPT ![u] = "deleted"]
       /\ grants' = {g \in grants : g.user # u}
       /\ codes' = {c \in codes : c.user # u}
       /\ tokens' = {t \in tokens : t.user # u}
       /\ req' = Overtaken(RequestsOf(u))
  /\ UNCHANGED <<projects, txs, audit, seq, unlogged, taken>>

Next ==
  \/ \E r \in Req :
       \/ ArriveAtWeb(r) \/ ArriveAtMcp(r)
       \/ CheckTransaction(r) \/ CheckProject(r) \/ ChooseAllocation(r)
       \/ CreateTransaction(r) \/ MoveTransaction(r) \/ Charge(r) \/ Uncharge(r)
       \/ UpdateProject(r) \/ DeleteProject(r) \/ CreateProject(r) \/ GrantCreator(r)
       \/ Audit(r) \/ StatementFails(r) \/ RequestFails(r)
       \/ ReadCode(r) \/ MarkCode(r) \/ IssueToken(r)
  \/ Approve
  \/ OwnerCreatesProject \/ OwnerDeletesProject
  \/ OwnerCreatesTransaction \/ OwnerMovesTransaction \/ OwnerCharges
  \/ SaveGrant \/ DeleteGrant \/ SetStanding \/ DeleteUser

Spec == Init /\ [][Next]_vars

-----------------------------------------------------------------------------
(* Properties.                                                             *)

MayWrite(p, u) == [project |-> p, user |-> u, level |-> "write"] \in grants

\* The form for a posting does not check the project that it charges.
ChecksProject(q) == ~(q.pc = "charge" /\ q.call = 0)

\* The transaction and the project that the request checks, its user may write now.
Authorized(q) ==
  /\ standing[q.user] = "active"
  /\ q.tx # 0 => \E t \in txs : t.id = q.tx /\ \E p \in ProjectsOf(t) : MayWrite(p, q.user)
  /\ q.project # 0 /\ ChecksProject(q) => MayWrite(q.project, q.user)

\* Projects have members with read or write access of their own: a write is due only to
\* a user with write access to the project that a transaction leaves and to the one that
\* it joins or that a tool charges (journal.go:391-432, protocol.go:208-251).  Only
\* the user, the transaction or a grant that the request had checked already may have
\* been changed since.  Two writes ask for less and are not claimed: a form charges the
\* budget of any project (journal.go:296-312) and deletes any posting (journal.go:361)
\* for whoever may write some transaction, beyond what README.md:61 leads one to expect.
WritesAreGranted ==
  \A r \in Req : req[r].pc \in {"write", "charge", "uncharge"} =>
                 Authorized(req[r]) \/ req[r].overtaken

\* README.md:61: an accountant who creates a project gets write access to it by
\* itself.  Project and grant are two statements (projects.go:307-319, protocol.go:512-523);
\* only a failure in between or an owner costs the creator the access.
CreatorsMayWrite ==
  \A p \in projects : p.maker \in Existing =>
    \/ MayWrite(p.id, p.maker)
    \/ <<p.id, p.maker>> \in taken
    \/ \E r \in Req : req[r].pc = "grant" /\ req[r].project = p.id

\* oauth.go:169: a code is refused once it was used.  A second token for it needs two
\* requests that read it before either marked it, or an UPDATE that failed.
OneTokenPerCode ==
  \A c \in codes : Cardinality({t \in tokens : t.code = c.id}) > 1 => c.excused

\* README.md:59, "all MCP calls are written to mcp_audit_log": whatever row an MCP call
\* wrote, the call is in the log, is about to be, or was kept out by a crash, a failed
\* INSERT, or the deletion of its user (protocol.go:53-58).
WritersAreLogged ==
  \A row \in projects \cup txs :
    \/ row.call \in audit \cup unlogged \cup {0}
    \/ \E r \in Req : Busy(req[r]) /\ req[r].call = row.call
=============================================================================
