----------------------------- MODULE Attachments -----------------------------
(***************************************************************************)
(* Files of quotes and payments: a row in PostgreSQL that names the key of *)
(* an object in the store (GCS, or a local directory), kept consistent by  *)
(* nothing but the order of the handlers' calls                            *)
(* (internal/handlers/attachments.go, quote_attachments.go, quotes.go,     *)
(* internal/mcp/protocol.go, management.go, internal/storage/storage.go).  *)
(*                                                                         *)
(* Each call to the store and each SQL statement that another request can  *)
(* tell apart is one action.  Every call may fail, a failed Put or Delete  *)
(* may have taken effect, and the process may stop at any time.  A failed  *)
(* SQL statement has no effect; a COMMIT or INSERT that takes effect and   *)
(* whose answer is lost is left out.  The keys are random and so never     *)
(* reused.  Of a quote it only matters whether it is a draft, see Quotes.  *)
(***************************************************************************)
EXTENDS Integers, FiniteSets, FiniteSetsExt

CONSTANTS
  Req,            \* request goroutines
  StrictDelete,   \* TRUE: Delete of a missing object fails (GCS); local: FALSE
  MaxFiles,       \* most files in one upload
  MaxQuote,       \* bound: versions ever created
  MaxPayment,     \* bound: payments ever created
  MaxKey          \* bound: keys ever generated

ASSUME ConstantsAssumption ==
  /\ StrictDelete \in BOOLEAN
  /\ MaxFiles \in Nat \ {0}
  /\ MaxQuote \in Nat /\ MaxPayment \in Nat /\ MaxKey \in Nat

VARIABLES
  quotes,      \* rows of quotes
  payments,    \* rows of transactions (ids)
  rows,        \* rows of quote_attachments and transaction_attachments
  objects,     \* keys that name an object in the store
  seq,         \* last quote, payment and key handed out
  req,         \* local state of each request
  condemned,   \* history: rows still there whose deletion a request has begun
  leaked       \* history: keys of objects left by a failure or a cascade

tables == <<quotes, payments, rows, seq>>
vars == <<quotes, payments, rows, objects, seq, req, condemned, leaked>>

QuoteRow == [id: Nat, draft: BOOLEAN]     \* not a draft: sent or accepted
Owner    == [table: {"quote", "payment"}, id: Nat]
FileRow  == [owner: Owner, key: Nat]

Request ==
  [pc: {"idle",
        "put", "insert", "undoObject", "undoRow",       \* upload
        "list", "deleteObject",                         \* deletion of a quote
        "deleteReceipt", "deleteReceiptRow",            \* deletion of a receipt
        "revise", "copy", "undoCopy"},                  \* revision
   owner: Owner,
   left: 0..MaxFiles,       \* files still to upload
   key: Nat,                \* key in hand
   made: SUBSET Nat,        \* keys the request has uploaded or copied
   todo: SUBSET Nat,        \* keys still to delete or copy
   listed: SUBSET Nat,      \* keys its query returned
   draft: BOOLEAN]          \* whether it read a draft

Idle == [pc |-> "idle", owner |-> [table |-> "quote", id |-> 0], left |-> 0, key |-> 0,
         made |-> {}, todo |-> {}, listed |-> {}, draft |-> FALSE]

TypeOK ==
  /\ quotes \subseteq QuoteRow
  /\ payments \subseteq Nat
  /\ rows \subseteq FileRow
  /\ objects \subseteq Nat
  /\ seq \in [quote: Nat, payment: Nat, key: Nat]
  /\ req \in [Req -> Request]
  /\ condemned \subseteq FileRow
  /\ leaked \subseteq Nat

Init ==
  /\ quotes = {} /\ payments = {} /\ rows = {} /\ objects = {}
  /\ seq = [quote |-> 0, payment |-> 0, key |-> 0]
  /\ req = [r \in Req |-> Idle]
  /\ condemned = {} /\ leaked = {}

OfQuote(id)   == [table |-> "quote", id |-> id]
OfPayment(id) == [table |-> "payment", id |-> id]

FilesOf(owner) == {f \in rows : f.owner = owner}
Keys(files)    == {f.key : f \in files}
OwnerLive(owner) ==
  \/ owner.table = "quote" /\ \E q \in quotes : q.id = owner.id
  \/ owner.table = "payment" /\ owner.id \in payments

Become(r, state) == req' = [req EXCEPT ![r] = state]
Respond(r) == Become(r, Idle)

-----------------------------------------------------------------------------
(* The store.                                                              *)

\* Put under a new key: the object is there.
PutSucceeds(key) == objects' = objects \cup {key} /\ UNCHANGED leaked

\* A failed Put leaves nothing, or part of a file.
PutFails(key) ==
  \/ UNCHANGED <<objects, leaked>>
  \/ objects' = objects \cup {key} /\ leaked' = leaked \cup {key}

DeleteSucceeds(key) ==
  /\ key \in objects \/ ~StrictDelete
  /\ objects' = objects \ {key}

\* Delete as a clean-up, whose error is ignored.
DeleteIgnored(key) ==
  \/ objects' = objects \ {key} /\ UNCHANGED leaked
  \/ UNCHANGED objects /\ leaked' = leaked \cup ({key} \cap objects)

-----------------------------------------------------------------------------
(* Upload of files to a draft quote, or of one receipt to a payment.       *)

StartQuoteUpload(r) ==
  /\ req[r].pc = "idle"
  /\ \E q \in quotes, n \in 1..MaxFiles :
       /\ q.draft
       /\ Become(r, [Idle EXCEPT !.pc = "put", !.owner = OfQuote(q.id), !.left = n])
  /\ UNCHANGED <<tables, objects, condemned, leaked>>

StartReceiptUpload(r) ==
  /\ req[r].pc = "idle"
  /\ \E p \in payments :
       Become(r, [Idle EXCEPT !.pc = "put", !.owner = OfPayment(p), !.left = 1])
  /\ UNCHANGED <<tables, objects, condemned, leaked>>

\* Cleaning up what was uploaded so far: for each file its row, its object.
CleanUp(r, made) ==
  Become(r, IF made = {} THEN Idle ELSE [Idle EXCEPT !.pc = "undoRow", !.made = made])

PutObject(r) ==
  /\ req[r].pc = "put"
  /\ seq.key < MaxKey
  /\ seq' = [seq EXCEPT !.key = @ + 1]
  /\ \/ PutSucceeds(seq.key + 1) /\ Become(r, [req[r] EXCEPT !.pc = "insert", !.key = seq.key + 1])
     \/ PutFails(seq.key + 1) /\ CleanUp(r, req[r].made)
  /\ UNCHANGED <<quotes, payments, rows, condemned>>

\* Slip: one file too many.
SlipUploaded(r) ==
  [req[r] EXCEPT !.pc = IF req[r].left = 0 THEN "idle" ELSE "put",
                 !.left = @ - 1, !.key = 0, !.made = @ \cup {req[r].key}]

\* The request after the row of its file was inserted.
Uploaded(r) ==
  IF req[r].left = 1 THEN Idle
  ELSE [req[r] EXCEPT !.pc = "put", !.left = @ - 1, !.key = 0, !.made = @ \cup {req[r].key}]

\* Slip: the file whose row could not be inserted is forgotten.
SlipNotInserted(r) ==
  IF req[r].made = {} THEN Idle ELSE [Idle EXCEPT !.pc = "undoRow", !.made = req[r].made]

\* The request after the INSERT failed.
NotInserted(r) ==
  [Idle EXCEPT !.pc = "undoObject", !.key = req[r].key, !.made = req[r].made]

\* The foreign key refuses the row of an owner who is gone.
InsertRow(r) ==
  /\ req[r].pc = "insert"
  /\ \/ /\ OwnerLive(req[r].owner)
        /\ rows' = rows \cup {[owner |-> req[r].owner, key |-> req[r].key]}
        /\ Become(r, Uploaded(r))
     \/ Become(r, NotInserted(r)) /\ UNCHANGED rows
  /\ UNCHANGED <<quotes, payments, objects, seq, condemned, leaked>>

UndoObject(r) ==
  /\ req[r].pc = "undoObject"
  /\ DeleteIgnored(req[r].key)
  /\ CleanUp(r, req[r].made \ {req[r].key})
  /\ UNCHANGED <<tables, condemned>>

\* The error of the DELETE is ignored too.
UndoRow(r) ==
  /\ req[r].pc = "undoRow"
  /\ LET files == {f \in rows : f.key = Min(req[r].made)} IN
       /\ rows' \in {rows, rows \ files}
       /\ condemned' = (condemned \cup files) \cap rows'
  /\ Become(r, [req[r] EXCEPT !.pc = "undoObject", !.key = Min(req[r].made)])
  /\ UNCHANGED <<quotes, payments, objects, seq, leaked>>

-----------------------------------------------------------------------------
(* Deletion of a draft quote: its objects one by one, then its row.        *)

StartQuoteDelete(r) ==
  /\ req[r].pc = "idle"
  /\ \E q \in quotes :
       /\ q.draft
       /\ Become(r, [Idle EXCEPT !.pc = "list", !.owner = OfQuote(q.id)])
  /\ UNCHANGED <<tables, objects, condemned, leaked>>

ListFiles(r) ==
  /\ req[r].pc = "list"
  /\ LET files == FilesOf(req[r].owner) IN
       /\ Become(r, [req[r] EXCEPT !.pc = "deleteObject", !.todo = Keys(files),
                                   !.listed = Keys(files)])
       /\ condemned' = condemned \cup files
  /\ UNCHANGED <<tables, objects, leaked>>

\* The first error ends the request; a failed Delete may have taken effect.
DeleteObject(r) ==
  /\ req[r].pc = "deleteObject"
  /\ req[r].todo # {}
  /\ LET key == Min(req[r].todo) IN
       \/ DeleteSucceeds(key) /\ Become(r, [req[r] EXCEPT !.todo = @ \ {key}])
       \/ objects' \in {objects, objects \ {key}} /\ Respond(r)
  /\ UNCHANGED <<tables, condemned, leaked>>

\* The transaction that copies a version holds a key lock on it, for which
\* the DELETE waits.
BeingCopied(id) ==
  \E r \in Req : req[r].pc = "copy" /\ req[r].owner = OfQuote(id)

\* DELETE ... AND status='draft'; the rows of its files go by cascade.
DeleteQuote(r) ==
  /\ req[r].pc = "deleteObject"
  /\ req[r].todo = {}
  /\ ~BeingCopied(req[r].owner.id)
  /\ LET gone  == {q \in quotes : q.id = req[r].owner.id /\ q.draft}
         files == IF gone = {} THEN {} ELSE FilesOf(req[r].owner)
     IN /\ quotes' = quotes \ gone
        /\ rows' = rows \ files
        /\ condemned' = condemned \ files
        /\ leaked' = leaked \cup ((Keys(files) \ req[r].listed) \cap objects)
  /\ Respond(r)
  /\ UNCHANGED <<payments, objects, seq>>

-----------------------------------------------------------------------------
(* Deletion of a receipt: its object, then its row.                        *)

StartReceiptDelete(r) ==
  /\ req[r].pc = "idle"
  /\ \E f \in rows :
       /\ f.owner.table = "payment"
       /\ Become(r, [Idle EXCEPT !.pc = "deleteReceipt", !.key = f.key])
       /\ condemned' = condemned \cup {f}
  /\ UNCHANGED <<tables, objects, leaked>>

DeleteReceiptObject(r) ==
  /\ req[r].pc = "deleteReceipt"
  /\ \/ DeleteSucceeds(req[r].key) /\ Become(r, [req[r] EXCEPT !.pc = "deleteReceiptRow"])
     \/ objects' \in {objects, objects \ {req[r].key}} /\ Respond(r)
  /\ UNCHANGED <<tables, condemned, leaked>>

DeleteReceiptRow(r) ==
  /\ req[r].pc = "deleteReceiptRow"
  /\ rows' = {f \in rows : f.key # req[r].key}
  /\ condemned' = condemned \cap rows'
  /\ Respond(r)
  /\ UNCHANGED <<quotes, payments, objects, seq, leaked>>

-----------------------------------------------------------------------------
(* Revision on the web: the transaction copies the row of the version, and *)
(* then every file to an object of its own.                                *)

StartRevise(r) ==
  /\ req[r].pc = "idle"
  /\ \E q \in quotes :
       Become(r, [Idle EXCEPT !.pc = "revise", !.owner = OfQuote(q.id),
                              !.draft = q.draft])
  /\ UNCHANGED <<tables, objects, condemned, leaked>>

\* INSERT ... SELECT of the version, then the query for its files (nothing
\* that happens in between depends on the new row).  Another revision of the
\* same version takes the same number and waits for the first to end.
ReviseInsert(r) ==
  /\ req[r].pc = "revise"
  /\ ~BeingCopied(req[r].owner.id)
  /\ Become(r, IF ~OwnerLive(req[r].owner) THEN Idle
               ELSE [req[r] EXCEPT !.pc = "copy", !.todo = Keys(FilesOf(req[r].owner))])
  /\ UNCHANGED <<tables, objects, condemned, leaked>>

\* A revision that fails deletes the copies it has made.
Abandon(r, made) ==
  Become(r, IF made = {} THEN Idle ELSE [Idle EXCEPT !.pc = "undoCopy", !.made = made])

\* Slip: the copy of a file shares the object of the original.
SlipSameObject(key) == key

\* The key of the copy of a file.
CopyKey(key) == seq.key + 1

\* Open the original, Put the copy, insert its (uncommitted) row.
CopyObject(r) ==
  /\ req[r].pc = "copy"
  /\ req[r].todo # {}
  /\ LET key == Min(req[r].todo) IN
       \/ /\ key \in objects
          /\ seq.key < MaxKey
          /\ seq' = [seq EXCEPT !.key = @ + 1]
          /\ \/ /\ PutSucceeds(CopyKey(key))
                /\ Become(r, [req[r] EXCEPT !.todo = @ \ {key}, !.made = @ \cup {CopyKey(key)}])
             \/ PutFails(CopyKey(key)) /\ Abandon(r, req[r].made)
       \/ Abandon(r, req[r].made) /\ UNCHANGED <<objects, seq, leaked>>
  /\ UNCHANGED <<quotes, payments, rows, condemned>>

\* UPDATE ... SET status='sent' ... AND status='draft' of a version that was
\* read as a draft, and COMMIT.
ReviseCommit(r) ==
  /\ req[r].pc = "copy"
  /\ req[r].todo = {}
  /\ seq.quote < MaxQuote
  /\ \E q \in quotes :
       /\ q.id = req[r].owner.id
       /\ req[r].draft => q.draft
       /\ quotes' = (quotes \ {q})
            \cup {[q EXCEPT !.draft = FALSE], [id |-> seq.quote + 1, draft |-> TRUE]}
  /\ rows' = rows \cup {[owner |-> OfQuote(seq.quote + 1), key |-> key] : key \in req[r].made}
  /\ seq' = [seq EXCEPT !.quote = @ + 1]
  /\ Respond(r)
  /\ UNCHANGED <<payments, objects, condemned, leaked>>

\* The version is no longer the draft that was read, or a statement fails.
ReviseRefused(r) ==
  /\ req[r].pc = "copy"
  /\ req[r].todo = {}
  /\ Abandon(r, req[r].made)
  /\ UNCHANGED <<tables, objects, condemned, leaked>>

UndoCopy(r) ==
  /\ req[r].pc = "undoCopy"
  /\ LET key == Min(req[r].made) IN
       /\ DeleteIgnored(key)
       /\ Abandon(r, req[r].made \ {key})
  /\ UNCHANGED <<tables, condemned>>

-----------------------------------------------------------------------------
(* The rest of what quotes and payments do, as far as files are concerned. *)

QuoteCreate ==
  /\ seq.quote < MaxQuote
  /\ seq' = [seq EXCEPT !.quote = @ + 1]
  /\ quotes' = quotes \cup {[id |-> seq.quote + 1, draft |-> TRUE]}
  /\ UNCHANGED <<payments, rows, objects, req, condemned, leaked>>

QuoteAccept ==
  /\ \E q \in quotes : /\ q.draft
                       /\ quotes' = (quotes \ {q}) \cup {[q EXCEPT !.draft = FALSE]}
  /\ UNCHANGED <<payments, rows, objects, seq, req, condemned, leaked>>

\* The MCP revision copies the version without its files.
McpRevise ==
  /\ seq.quote < MaxQuote
  /\ \E q \in quotes :
       /\ ~BeingCopied(q.id)
       /\ quotes' = (quotes \ {q})
            \cup {[q EXCEPT !.draft = FALSE], [id |-> seq.quote + 1, draft |-> TRUE]}
  /\ seq' = [seq EXCEPT !.quote = @ + 1]
  /\ UNCHANGED <<payments, rows, objects, req, condemned, leaked>>

JournalCreate ==
  /\ seq.payment < MaxPayment
  /\ seq' = [seq EXCEPT !.payment = @ + 1]
  /\ payments' = payments \cup {seq.payment + 1}
  /\ UNCHANGED <<quotes, rows, objects, req, condemned, leaked>>

\* ON DELETE CASCADE removes the rows of the receipts; the objects stay.
JournalDelete ==
  /\ \E p \in payments :
       /\ payments' = payments \ {p}
       /\ rows' = rows \ FilesOf(OfPayment(p))
       /\ condemned' = condemned \cap rows'
       /\ leaked' = leaked \cup (Keys(FilesOf(OfPayment(p))) \cap objects)
  /\ UNCHANGED <<quotes, objects, seq, req>>

\* A SQL statement fails and the handler has nothing to undo.
RequestFails(r) ==
  /\ \/ req[r].pc \in {"list", "deleteReceiptRow", "revise"}
     \/ req[r].pc = "deleteObject" /\ req[r].todo = {}
  /\ Respond(r)
  /\ UNCHANGED <<tables, objects, condemned, leaked>>

\* The process stops and starts again.
Crash ==
  /\ leaked' = leaked \cup (objects \ Keys(rows))
  /\ req' = [r \in Req |-> Idle]
  /\ UNCHANGED <<tables, objects, condemned>>

Step(r) ==
  \/ StartQuoteUpload(r) \/ StartReceiptUpload(r)
  \/ PutObject(r) \/ InsertRow(r) \/ UndoObject(r) \/ UndoRow(r)
  \/ StartQuoteDelete(r) \/ ListFiles(r) \/ DeleteObject(r) \/ DeleteQuote(r)
  \/ StartReceiptDelete(r) \/ DeleteReceiptObject(r) \/ DeleteReceiptRow(r)
  \/ StartRevise(r) \/ ReviseInsert(r) \/ CopyObject(r)
  \/ ReviseCommit(r) \/ ReviseRefused(r) \/ UndoCopy(r)
  \/ RequestFails(r)

Next ==
  \/ \E r \in Req : Step(r)
  \/ QuoteCreate \/ QuoteAccept \/ McpRevise
  \/ JournalCreate \/ JournalDelete
  \/ Crash

Spec == Init /\ [][Next]_vars

-----------------------------------------------------------------------------
(* Properties.                                                             *)

\* The file of every row can be opened, unless somebody began to delete that
\* very row.  Uploads put the object before they insert the row, revisions
\* give each copy an object of its own, and what fails half way deletes only
\* what it made itself (quote_attachments.go:103, quotes.go:508).
FilesOutliveRows ==
  \A f \in rows : f.key \in objects \/ f \in condemned

\* The keys a request still has to make good for.
Held(r) == req[r].made \cup {req[r].key}

\* An object that no row names is in the hands of a request, or was left
\* there by a failure of the store or of the process, by a payment deleted
\* with its receipts, or by a quote deleted after files had joined the ones
\* listed; the handlers themselves forget none (attachments.go:79,
\* quote_attachments.go:123, quotes.go:460).
OrphansHaveCause ==
  \A key \in objects :
    \/ key \in Keys(rows)
    \/ key \in leaked
    \/ \E r \in Req : key \in Held(r)

\* protocol.go:331: "已送出或已同意版本不可刪除", versions that were sent or
\* accepted cannot be deleted: the objects of their files are there.
LockedFilesStay ==
  \A f \in rows, q \in quotes :
    (f.owner = OfQuote(q.id) /\ ~q.draft) => f.key \in objects
=============================================================================
