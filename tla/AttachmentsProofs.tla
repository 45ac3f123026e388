-------------------------- MODULE AttachmentsProofs --------------------------
(***************************************************************************)
(* Theorems about Attachments, for any number of requests, files, quotes   *)
(* and payments, and for both kinds of store.                              *)
(***************************************************************************)
EXTENDS Attachments, SetLemmas

(* Of the state s of a request.                                            *)

\* The keys it may still insert rows for.
Pending(s) ==
  IF s.pc = "insert" THEN {s.key} ELSE IF s.pc = "copy" THEN s.made ELSE {}

\* The keys whose objects it may delete next.
Doomed(s) ==
  IF s.pc \in {"undoObject", "deleteReceipt"} THEN {s.key}
  ELSE IF s.pc = "deleteObject" THEN s.todo
  ELSE IF s.pc = "undoCopy" THEN s.made ELSE {}

InHand(s)    == s.made \cup {s.key}
Touched(s)   == InHand(s) \cup s.todo \cup s.listed
Uploading(s) == s.pc \in {"put", "insert"}

\* What it has in hand at each of its steps.
HandsOf(s) ==
  /\ s.key = 0 <=> s.pc \notin {"insert", "undoObject", "deleteReceipt", "deleteReceiptRow"}
  /\ s.pc \notin {"put", "insert", "undoObject", "undoRow", "copy", "undoCopy"} => s.made = {}
  /\ s.pc \in {"undoRow", "undoCopy"} => s.made # {}
  /\ Uploading(s) => s.left # 0 /\ (s.owner.table = "payment" => s.left = 1)

\* The object of a key is accounted for by a row or a failure.
Recorded(key) == key \in objects => key \in leaked \/ \E f \in rows : f.key = key

\* What it need not make good for if it ends as planned.
AccountedOf(s) ==
  /\ Uploading(s) => \A key \in s.made : Recorded(key)
  /\ s.pc = "deleteReceipt" /\ s.key \in objects =>
       s.key \in leaked \/ \E f \in rows : f.key = s.key /\ f.owner.table = "payment"
  /\ s.pc = "deleteReceiptRow" => s.key \notin objects
  /\ s.pc = "deleteObject" => \A key \in s.listed \ s.todo : key \notin objects

-----------------------------------------------------------------------------
(* The inductive invariant.                                                *)

\* The keys come from their sequence, and a key names one row.
KeysFromSequence ==
  /\ \A key \in objects : key \in 1..seq.key
  /\ \A f \in rows : f.key \in 1..seq.key
  /\ \A f, g \in rows : f.key = g.key => f = g
  /\ \A r \in Req : /\ req[r].key \in 0..seq.key
                    /\ \A key \in req[r].made \cup req[r].todo \cup req[r].listed :
                         key \in 1..seq.key

Hands == \A r \in Req : HandsOf(req[r])

\* A key that a request may still insert a row for has its object, no row, and
\* no other request knows it.
PendingApart ==
  \A r \in Req : \A key \in Pending(req[r]) :
    /\ key \in objects
    /\ \A f \in rows : f.key # key
    /\ \A o \in Req : key \in Touched(req[o]) => o = r

\* Two requests make different keys, and none of a receipt with its row.
MadeApart ==
  \A r \in Req : \A key \in req[r].made :
    /\ \A o \in Req : key \in req[o].made => o = r
    /\ \A f \in rows : f.key = key => f.owner.table = "quote"

\* A request deletes the objects of no rows but condemned ones.
DoomedCondemned ==
  \A r \in Req, f \in rows : f.key \in Doomed(req[r]) => f \in condemned

Accounted == \A r \in Req : AccountedOf(req[r])

FilesInv == KeysFromSequence /\ FilesOutliveRows /\ OrphansHaveCause

RequestsInv == Hands /\ PendingApart /\ MadeApart /\ DoomedCondemned /\ Accounted

IInv == TypeOK /\ FilesInv /\ RequestsInv

-----------------------------------------------------------------------------
\* A request changes its own state only.
LEMMA Becomes ==
  ASSUME req \in [Req -> Request], NEW r \in Req, NEW s \in Request, Become(r, s)
  PROVE  /\ req' \in [Req -> Request]
         /\ req'[r] = s
         /\ \A o \in Req : o # r => req'[o] = req[o]
BY DEF Become

LEMMA IdleRequest ==
  /\ Idle \in Request
  /\ Idle.pc = "idle" /\ Idle.key = 0 /\ Idle.made = {} /\ Idle.todo = {} /\ Idle.listed = {}
BY ConstantsAssumption DEF Idle, Request, Owner

LEMMA InitIInv == Init => IInv
BY IdleRequest
   DEF Init, IInv, TypeOK, FilesInv, RequestsInv, KeysFromSequence, FilesOutliveRows,
       OrphansHaveCause, Hands, HandsOf, PendingApart, Pending, MadeApart, DoomedCondemned,
       Accounted, AccountedOf, Recorded, Uploading, Doomed, Touched, InHand, Held, Keys

\* A step of a request that adds neither rows nor objects keeps the invariant
\* if it deletes only objects it may, records a cause for the objects whose
\* rows it deletes, and goes on with what it had in hand.
LEMMA NothingAdded ==
  ASSUME IInv, NEW r \in Req, NEW s \in Request, Become(r, s),
         quotes' \subseteq QuoteRow, payments' \subseteq Nat,
         seq' \in [quote: Nat, payment: Nat, key: Nat], seq'.key = seq.key,
         condemned' \subseteq FileRow, \A f \in rows' : f \in condemned => f \in condemned',
         leaked' \subseteq Nat, leaked \subseteq leaked',
         rows' \subseteq rows,
         \A f \in rows \ rows' : f.key \in objects' =>
           f.key \in leaked' \/ (f.key \in req[r].made /\ f.key \in InHand(s)),
         objects' \subseteq objects, objects \ objects' \subseteq Doomed(req[r]),
         HandsOf(s), AccountedOf(s)',
         Pending(s) \subseteq Pending(req[r]), s.made \subseteq req[r].made, 0 \notin s.todo \cup s.listed,
         \A key \in Touched(s) \ {0} :
           key \in Touched(req[r]) \/ \E f \in rows : f.key = key,
         \A f \in rows' : f.key \in Doomed(s) => f \in condemned',
         \A key \in InHand(req[r]) : key \in objects' =>
           key \in InHand(s) \/ key \in leaked' \/ \E f \in rows' : f.key = key
  PROVE  IInv'
<1> USE DEF IInv, TypeOK, FilesInv, RequestsInv
<1>1. /\ req' \in [Req -> Request]
      /\ req'[r] = s
      /\ \A o \in Req : o # r => req'[o] = req[o]
  BY Becomes
<1>2. TypeOK'
  BY <1>1
<1>3. KeysFromSequence'
  <2>1. /\ \A key \in objects' : key \in 1..seq'.key
        /\ \A f \in rows' : f.key \in 1..seq'.key
        /\ \A f, g \in rows' : f.key = g.key => f = g
    BY DEF KeysFromSequence
  <2>2. \A key \in Touched(req[r]) : key \in 0..seq.key
    BY DEF KeysFromSequence, Touched, InHand
  <2>3. \A key \in Touched(s) \ {0} : key \in 1..seq.key
    BY <2>2 DEF KeysFromSequence
  <2>4. s.key \in 0..seq.key /\ \A key \in s.todo \cup s.listed : key \in 1..seq.key
    BY <2>3 DEF Touched, InHand
  <2>5. \A key \in s.made : key \in 1..seq.key
    BY DEF KeysFromSequence
  <2>6. \A o \in Req : /\ req'[o].key \in 0..seq.key
                       /\ \A key \in req'[o].made \cup req'[o].todo \cup req'[o].listed :
                            key \in 1..seq.key
    BY <1>1, <2>4, <2>5 DEF KeysFromSequence
  <2> QED BY <2>1, <2>6 DEF KeysFromSequence
<1>4. FilesOutliveRows'
  BY DEF FilesOutliveRows, DoomedCondemned
<1>5. OrphansHaveCause'
  BY <1>1 DEF OrphansHaveCause, Keys, Held, InHand
<1>6. Hands'
  BY <1>1 DEF Hands
<1>7. PendingApart'
  BY <1>1 DEF PendingApart, Pending, KeysFromSequence, Hands, HandsOf, Touched, InHand, Doomed
<1>8. MadeApart'
  BY <1>1 DEF MadeApart
<1>9. DoomedCondemned'
  BY <1>1 DEF DoomedCondemned
<1>10. Accounted'
  <2>1. SUFFICES ASSUME NEW o \in Req, o # r PROVE AccountedOf(req[o])'
    BY <1>1 DEF Accounted
  <2>2. req'[o] = req[o] /\ AccountedOf(req[o])
    BY <1>1, <2>1 DEF Accounted
  <2>3. \A f \in rows \ rows' : f.key \in objects' => f.key \in leaked' \/ f.key \in req[r].made
    OBVIOUS
  <2>4. ASSUME NEW key \in req[o].made, Recorded(key) PROVE Recorded(key)'
    BY <2>1, <2>3, <2>4 DEF Recorded, MadeApart
  <2>5. \A f \in rows \ rows' : f.key \in objects' /\ f.owner.table = "payment" => f.key \in leaked'
    BY <2>3 DEF MadeApart, FileRow, Owner
  <2>6. (\E f \in rows : f.key = req[o].key /\ f.owner.table = "payment") /\ req[o].key \in objects' =>
          req[o].key \in leaked' \/ \E f \in rows' : f.key = req[o].key /\ f.owner.table = "payment"
    BY <2>5
  <2> QED BY <2>2, <2>4, <2>6 DEF AccountedOf
<1> QED BY <1>2, <1>3, <1>4, <1>5, <1>6, <1>7, <1>8, <1>9, <1>10

\* The same for a step that changes no table and no object.
LEMMA QuietStep ==
  ASSUME IInv, NEW r \in Req, NEW s \in Request, Become(r, s),
         UNCHANGED <<tables, objects, leaked>>,
         condemned' \subseteq FileRow, condemned \subseteq condemned',
         HandsOf(s), AccountedOf(s),
         Pending(s) \subseteq Pending(req[r]), s.made \subseteq req[r].made, 0 \notin s.todo \cup s.listed,
         \A key \in Touched(s) \ {0} :
           key \in Touched(req[r]) \/ \E f \in rows : f.key = key,
         \A f \in rows : f.key \in Doomed(s) => f \in condemned',
         \A key \in InHand(req[r]) : key \in InHand(s) \/ Recorded(key)
  PROVE  IInv'
<1>1. UNCHANGED <<quotes, payments, rows, seq>>
  BY DEF tables
<1>2. AccountedOf(s)'
  BY <1>1 DEF AccountedOf, Recorded
<1>3. \A key \in InHand(req[r]) : key \in objects' =>
        key \in InHand(s) \/ key \in leaked' \/ \E f \in rows' : f.key = key
  BY <1>1 DEF Recorded
<1>4. /\ quotes \subseteq QuoteRow /\ payments \subseteq Nat /\ leaked \subseteq Nat
      /\ seq \in [quote: Nat, payment: Nat, key: Nat]
  BY DEF IInv, TypeOK
<1> QED BY <1>1, <1>2, <1>3, <1>4, NothingAdded

\* Zero is no key.
LEMMA ZeroRecorded == IInv => Recorded(0)
BY DEF IInv, TypeOK, FilesInv, KeysFromSequence, Recorded

\* A request goes on with nothing in hand.
LEMMA EmptyHanded ==
  ASSUME IInv, NEW r \in Req, NEW s \in Request, Become(r, s),
         UNCHANGED <<tables, objects, condemned, leaked>>,
         s.key = 0, s.made = {}, s.todo = {}, s.listed = {},
         s.pc \in {"idle", "put", "list", "revise"},
         Uploading(s) => s.left # 0 /\ (s.owner.table = "payment" => s.left = 1),
         \A key \in InHand(req[r]) : Recorded(key)
  PROVE  IInv'
<1>1. HandsOf(s)
  BY DEF HandsOf, Uploading
<1>2. AccountedOf(s)
  BY DEF AccountedOf
<1>3. Pending(s) = {} /\ Doomed(s) = {} /\ Touched(s) = {0}
  BY DEF Pending, Doomed, Touched, InHand
<1>4. condemned' \subseteq FileRow /\ condemned \subseteq condemned'
  BY DEF IInv, TypeOK
<1> QED BY <1>1, <1>2, <1>3, <1>4, QuietStep

\* A request that is idle has nothing in hand.
LEMMA IdleHands ==
  ASSUME IInv, NEW r \in Req, req[r].pc \in {"idle", "list", "revise", "deleteObject"}
  PROVE  req[r].key = 0 /\ req[r].made = {} /\ \A key \in InHand(req[r]) : Recorded(key)
BY ZeroRecorded DEF IInv, RequestsInv, Hands, HandsOf, InHand

LEMMA StartQuoteUploadKeeps ==
  ASSUME IInv, NEW r \in Req, StartQuoteUpload(r)
  PROVE  IInv'
<1>1. PICK q \in quotes, n \in 1..MaxFiles :
        Become(r, [Idle EXCEPT !.pc = "put", !.owner = OfQuote(q.id), !.left = n])
  BY DEF StartQuoteUpload
<1> DEFINE s == [Idle EXCEPT !.pc = "put", !.owner = OfQuote(q.id), !.left = n]
<1>2. q.id \in Nat /\ OfQuote(q.id) \in Owner /\ OfQuote(q.id).table = "quote"
      /\ n \in 0..MaxFiles /\ n # 0
  BY ConstantsAssumption DEF IInv, TypeOK, QuoteRow, Owner, OfQuote
<1>3. /\ s \in Request /\ s.pc = "put" /\ s.left # 0 /\ s.owner.table = "quote"
      /\ s.key = 0 /\ s.made = {} /\ s.todo = {} /\ s.listed = {}
  BY <1>2, IdleRequest DEF Request
<1>4. req[r].pc = "idle" /\ UNCHANGED <<tables, objects, condemned, leaked>>
  BY DEF StartQuoteUpload
<1> HIDE DEF s
<1>5. Become(r, s)
  BY <1>1 DEF s
<1> QED BY <1>3, <1>4, <1>5, IdleHands, EmptyHanded

LEMMA StartReceiptUploadKeeps ==
  ASSUME IInv, NEW r \in Req, StartReceiptUpload(r)
  PROVE  IInv'
<1>1. PICK p \in payments :
        Become(r, [Idle EXCEPT !.pc = "put", !.owner = OfPayment(p), !.left = 1])
  BY DEF StartReceiptUpload
<1> DEFINE s == [Idle EXCEPT !.pc = "put", !.owner = OfPayment(p), !.left = 1]
<1>2. OfPayment(p) \in Owner /\ 1 \in 0..MaxFiles
  BY ConstantsAssumption DEF IInv, TypeOK, Owner, OfPayment
<1>3. /\ s \in Request /\ s.pc = "put" /\ s.left = 1
      /\ s.key = 0 /\ s.made = {} /\ s.todo = {} /\ s.listed = {}
  BY <1>2, IdleRequest DEF Request
<1>4. req[r].pc = "idle" /\ UNCHANGED <<tables, objects, condemned, leaked>>
  BY DEF StartReceiptUpload
<1> HIDE DEF s
<1>5. Become(r, s)
  BY <1>1 DEF s
<1> QED BY <1>3, <1>4, <1>5, IdleHands, EmptyHanded

LEMMA StartQuoteDeleteKeeps ==
  ASSUME IInv, NEW r \in Req, StartQuoteDelete(r)
  PROVE  IInv'
<1>1. PICK q \in quotes : Become(r, [Idle EXCEPT !.pc = "list", !.owner = OfQuote(q.id)])
  BY DEF StartQuoteDelete
<1> DEFINE s == [Idle EXCEPT !.pc = "list", !.owner = OfQuote(q.id)]
<1>2. q.id \in Nat
  BY DEF IInv, TypeOK, QuoteRow
<1>3. /\ s \in Request /\ s.pc = "list"
      /\ s.key = 0 /\ s.made = {} /\ s.todo = {} /\ s.listed = {}
  BY <1>2, IdleRequest, ConstantsAssumption DEF Request, Owner, OfQuote
<1>4. req[r].pc = "idle" /\ UNCHANGED <<tables, objects, condemned, leaked>>
  BY DEF StartQuoteDelete
<1> HIDE DEF s
<1>5. Become(r, s)
  BY <1>1 DEF s
<1> QED BY <1>3, <1>4, <1>5, IdleHands, EmptyHanded DEF Uploading

LEMMA StartReviseKeeps ==
  ASSUME IInv, NEW r \in Req, StartRevise(r)
  PROVE  IInv'
<1>1. PICK q \in quotes :
        Become(r, [Idle EXCEPT !.pc = "revise", !.owner = OfQuote(q.id), !.draft = q.draft])
  BY DEF StartRevise
<1> DEFINE s == [Idle EXCEPT !.pc = "revise", !.owner = OfQuote(q.id), !.draft = q.draft]
<1>2. q.id \in Nat /\ q.draft \in BOOLEAN
  BY DEF IInv, TypeOK, QuoteRow
<1>3. /\ s \in Request /\ s.pc = "revise"
      /\ s.key = 0 /\ s.made = {} /\ s.todo = {} /\ s.listed = {}
  BY <1>2, IdleRequest, ConstantsAssumption DEF Request, Owner, OfQuote
<1>4. req[r].pc = "idle" /\ UNCHANGED <<tables, objects, condemned, leaked>>
  BY DEF StartRevise
<1> HIDE DEF s
<1>5. Become(r, s)
  BY <1>1 DEF s
<1> QED BY <1>3, <1>4, <1>5, IdleHands, EmptyHanded DEF Uploading

\* A request that ends with nothing to make good for.
LEMMA QuietEnd ==
  ASSUME IInv, NEW r \in Req, Respond(r), UNCHANGED <<tables, objects, condemned, leaked>>,
         \A key \in InHand(req[r]) : Recorded(key)
  PROVE  IInv'
BY IdleRequest, EmptyHanded DEF Respond, Uploading

LEMMA RequestFailsKeeps ==
  ASSUME IInv, NEW r \in Req, RequestFails(r)
  PROVE  IInv'
<1>1. req[r].pc \in {"list", "revise", "deleteObject", "deleteReceiptRow"}
  BY DEF RequestFails
<1>2. \A key \in InHand(req[r]) : Recorded(key)
  <2>1. CASE req[r].pc = "deleteReceiptRow"
    BY <2>1 DEF IInv, RequestsInv, Hands, HandsOf, Accounted, AccountedOf, InHand, Recorded
  <2> QED BY <1>1, <2>1, IdleHands
<1> QED BY <1>2, QuietEnd DEF RequestFails

\* Cleaning up and abandoning give up everything but what was made.
LEMMA CleanUpState ==
  ASSUME NEW r \in Req, NEW made \in SUBSET Nat, CleanUp(r, made)
  PROVE  \E s \in Request :
           /\ Become(r, s)
           /\ s.key = 0 /\ s.made = made /\ s.todo = {} /\ s.listed = {}
           /\ s.pc = IF made = {} THEN "idle" ELSE "undoRow"
<1>1. CASE made = {}
  BY <1>1, IdleRequest DEF CleanUp
<1>2. CASE made # {}
  <2> DEFINE s == [Idle EXCEPT !.pc = "undoRow", !.made = made]
  <2>1. /\ s \in Request /\ s.pc = "undoRow" /\ s.made = made
        /\ s.key = 0 /\ s.todo = {} /\ s.listed = {}
    BY IdleRequest DEF Request
  <2>2. Become(r, s)
    BY <1>2 DEF CleanUp
  <2> HIDE DEF s
  <2> QED BY <1>2, <2>1, <2>2
<1> QED BY <1>1, <1>2

LEMMA AbandonState ==
  ASSUME NEW r \in Req, NEW made \in SUBSET Nat, Abandon(r, made)
  PROVE  \E s \in Request :
           /\ Become(r, s)
           /\ s.key = 0 /\ s.made = made /\ s.todo = {} /\ s.listed = {}
           /\ s.pc = IF made = {} THEN "idle" ELSE "undoCopy"
<1>1. CASE made = {}
  BY <1>1, IdleRequest DEF Abandon
<1>2. CASE made # {}
  <2> DEFINE s == [Idle EXCEPT !.pc = "undoCopy", !.made = made]
  <2>1. /\ s \in Request /\ s.pc = "undoCopy" /\ s.made = made
        /\ s.key = 0 /\ s.todo = {} /\ s.listed = {}
    BY IdleRequest DEF Request
  <2>2. Become(r, s)
    BY <1>2 DEF Abandon
  <2> HIDE DEF s
  <2> QED BY <1>2, <2>1, <2>2
<1> QED BY <1>1, <1>2

\* A request gives up a key after it has tried to delete its object, or goes
\* on to clean up.
LEMMA LetGo ==
  ASSUME IInv, NEW r \in Req, NEW s \in Request, Become(r, s),
         s.key = 0, s.made \subseteq req[r].made, s.todo = {}, s.listed = {},
         s.pc \in {"idle", "undoRow", "undoCopy"}, s.made = {} <=> s.pc = "idle",
         UNCHANGED <<quotes, payments, rows, seq, condemned>>,
         objects' \subseteq objects, objects \ objects' \subseteq Doomed(req[r]),
         leaked \subseteq leaked', leaked' \subseteq leaked \cup objects,
         \A key \in InHand(req[r]) : key \in objects' =>
           key \in s.made \/ key \in leaked' \/ \E f \in rows : f.key = key,
         \A f \in rows : f.key \in Doomed(s) => f \in condemned
  PROVE  IInv'
<1>1. HandsOf(s)
  BY DEF HandsOf, Uploading
<1>2. AccountedOf(s)'
  BY DEF AccountedOf, Uploading
<1>3. Pending(s) = {} /\ \A key \in Touched(s) \ {0} : key \in Touched(req[r])
  BY DEF Pending, Touched, InHand
<1>4. /\ quotes \subseteq QuoteRow /\ payments \subseteq Nat /\ condemned \subseteq FileRow
      /\ seq \in [quote: Nat, payment: Nat, key: Nat] /\ leaked' \subseteq Nat
  BY DEF IInv, TypeOK
<1>5. \A key \in InHand(req[r]) : key \in objects' =>
        key \in InHand(s) \/ key \in leaked' \/ \E f \in rows' : f.key = key
  BY DEF InHand
<1> QED BY <1>1, <1>2, <1>3, <1>4, <1>5, NothingAdded

LEMMA UndoObjectKeeps ==
  ASSUME IInv, NEW r \in Req, UndoObject(r)
  PROVE  IInv'
<1> DEFINE key  == req[r].key
           made == req[r].made \ {key}
<1>1. req[r] \in Request /\ req[r].pc = "undoObject" /\ UNCHANGED <<tables, condemned>>
  BY DEF UndoObject, IInv, TypeOK
<1>2. PICK s \in Request :
        /\ Become(r, s)
        /\ s.key = 0 /\ s.made = made /\ s.todo = {} /\ s.listed = {}
        /\ s.pc = IF made = {} THEN "idle" ELSE "undoRow"
  BY <1>1, CleanUpState DEF UndoObject, Request
<1>3. /\ objects' \subseteq objects /\ objects \ objects' \subseteq {key}
      /\ leaked \subseteq leaked' /\ leaked' \subseteq leaked \cup objects
      /\ key \in objects' => key \in leaked'
  BY DEF UndoObject, DeleteIgnored
<1>4. Doomed(req[r]) = {key} /\ Doomed(s) = {}
  BY <1>1, <1>2 DEF Doomed
<1>5. \A k \in InHand(req[r]) : k \in objects' => k \in s.made \/ k \in leaked'
  BY <1>2, <1>3 DEF InHand
<1> HIDE DEF key, made
<1>6. s.made \subseteq req[r].made /\ (s.made = {} <=> s.pc = "idle")
  BY <1>2 DEF made
<1> QED BY <1>1, <1>2, <1>3, <1>4, <1>5, <1>6, LetGo DEF tables

LEMMA UndoCopyKeeps ==
  ASSUME IInv, NEW r \in Req, UndoCopy(r)
  PROVE  IInv'
<1>1. req[r] \in Request /\ req[r].pc = "undoCopy" /\ UNCHANGED <<tables, condemned>>
  BY DEF UndoCopy, IInv, TypeOK
<1>2. req[r].made # {} /\ req[r].key = 0 /\ req[r].made \subseteq Nat
  BY <1>1 DEF IInv, RequestsInv, Hands, HandsOf, Request
<1>3. PICK key \in req[r].made : key = Min(req[r].made)
  BY <1>2, MinOf
<1> DEFINE made == req[r].made \ {key}
<1>4. PICK s \in Request :
        /\ Become(r, s)
        /\ s.key = 0 /\ s.made = made /\ s.todo = {} /\ s.listed = {}
        /\ s.pc = IF made = {} THEN "idle" ELSE "undoCopy"
  BY <1>2, <1>3, AbandonState DEF UndoCopy
<1>5. /\ objects' \subseteq objects /\ objects \ objects' \subseteq {key}
      /\ leaked \subseteq leaked' /\ leaked' \subseteq leaked \cup objects
      /\ key \in objects' => key \in leaked'
  BY <1>3 DEF UndoCopy, DeleteIgnored
<1>6. Doomed(req[r]) = req[r].made /\ Doomed(s) \subseteq req[r].made
  BY <1>1, <1>4 DEF Doomed
<1>7. \A k \in InHand(req[r]) : k \in objects' => k \in s.made \/ k \in leaked'
  BY <1>2, <1>4, <1>5, ZeroRecorded DEF InHand, IInv, FilesInv, KeysFromSequence
<1>8. \A f \in rows : f.key \in Doomed(s) => f \in condemned
  BY <1>6 DEF IInv, RequestsInv, DoomedCondemned
<1> HIDE DEF made
<1>9. s.made \subseteq req[r].made /\ (s.made = {} <=> s.pc = "idle")
  BY <1>4 DEF made
<1>10. objects \ objects' \subseteq Doomed(req[r])
  BY <1>3, <1>5, <1>6
<1> QED BY <1>1, <1>4, <1>5, <1>7, <1>8, <1>9, <1>10, LetGo DEF tables

LEMMA ReviseRefusedKeeps ==
  ASSUME IInv, NEW r \in Req, Abandon(r, req[r].made), req[r].pc = "copy",
         UNCHANGED <<tables, objects, condemned, leaked>>
  PROVE  IInv'
<1>1. req[r] \in Request /\ req[r].key = 0
  BY DEF IInv, TypeOK, RequestsInv, Hands, HandsOf
<1>2. PICK s \in Request :
        /\ Become(r, s)
        /\ s.key = 0 /\ s.made = req[r].made /\ s.todo = {} /\ s.listed = {}
        /\ s.pc = IF req[r].made = {} THEN "idle" ELSE "undoCopy"
  BY <1>1, AbandonState DEF Request
<1>3. \A key \in InHand(req[r]) : key \in objects => key \in s.made
  BY <1>1, <1>2 DEF InHand, IInv, FilesInv, KeysFromSequence
<1>4. \A f \in rows : f.key \notin Doomed(s)
  BY <1>2 DEF Doomed, IInv, RequestsInv, PendingApart, Pending
<1>5. s.made \subseteq req[r].made /\ (s.made = {} <=> s.pc = "idle")
  BY <1>2
<1> QED BY <1>2, <1>3, <1>4, <1>5, LetGo DEF tables

LEMMA ListFilesKeeps ==
  ASSUME IInv, NEW r \in Req, ListFiles(r)
  PROVE  IInv'
<1> DEFINE files == FilesOf(req[r].owner)
           s     == [req[r] EXCEPT !.pc = "deleteObject", !.todo = Keys(files),
                                   !.listed = Keys(files)]
<1>1. /\ req[r] \in Request /\ req[r].pc = "list"
      /\ files \subseteq rows /\ \A f \in rows : f \in FileRow
      /\ req[r].key = 0 /\ req[r].made = {}
  BY IdleHands DEF ListFiles, IInv, TypeOK, FilesOf
<1>2. Keys(files) \in SUBSET Nat
  BY <1>1 DEF Keys, FileRow
<1>3. /\ s \in Request /\ s.pc = "deleteObject" /\ s.key = 0 /\ s.made = {}
      /\ s.todo = Keys(files) /\ s.listed = Keys(files)
  BY <1>1, <1>2 DEF Request
<1>4. Become(r, s) /\ condemned' = condemned \cup files /\ UNCHANGED <<tables, objects, leaked>>
  BY DEF ListFiles
<1> HIDE DEF files, s
<1>5. \A key \in Keys(files) : key # 0 /\ \E f \in files : f.key = key
  BY <1>1 DEF Keys, IInv, FilesInv, KeysFromSequence
<1>6. HandsOf(s) /\ AccountedOf(s)
  BY <1>3 DEF HandsOf, AccountedOf, Uploading
<1>7. Pending(s) = {} /\ Doomed(s) = Keys(files) /\ Touched(s) \ {0} \subseteq Keys(files)
  BY <1>3 DEF Pending, Doomed, Touched, InHand
<1>8. \A f \in rows : f.key \in Keys(files) => f \in files
  BY <1>1, <1>5 DEF IInv, FilesInv, KeysFromSequence
<1>9. condemned' \subseteq FileRow /\ condemned \subseteq condemned'
  BY <1>1, <1>4 DEF IInv, TypeOK
<1>10. \A key \in InHand(req[r]) : Recorded(key)
  BY <1>1, IdleHands
<1>11. \A key \in Touched(s) \ {0} : \E f \in rows : f.key = key
  BY <1>1, <1>5, <1>7
<1>12. \A f \in rows : f.key \in Doomed(s) => f \in condemned'
  BY <1>4, <1>7, <1>8
<1> QED BY <1>3, <1>4, <1>5, <1>6, <1>7, <1>9, <1>10, <1>11, <1>12, QuietStep

LEMMA StartReceiptDeleteKeeps ==
  ASSUME IInv, NEW r \in Req, StartReceiptDelete(r)
  PROVE  IInv'
<1>1. PICK f \in rows :
        /\ f.owner.table = "payment"
        /\ Become(r, [Idle EXCEPT !.pc = "deleteReceipt", !.key = f.key])
        /\ condemned' = condemned \cup {f}
  BY DEF StartReceiptDelete
<1> DEFINE s == [Idle EXCEPT !.pc = "deleteReceipt", !.key = f.key]
<1>2. f.key \in Nat \ {0} /\ f \in FileRow
  BY DEF IInv, TypeOK, FileRow, FilesInv, KeysFromSequence
<1>3. /\ s \in Request /\ s.pc = "deleteReceipt" /\ s.key = f.key
      /\ s.made = {} /\ s.todo = {} /\ s.listed = {}
  BY <1>2, IdleRequest DEF Request
<1>4. Become(r, s) /\ req[r].pc = "idle" /\ UNCHANGED <<tables, objects, leaked>>
  BY <1>1 DEF StartReceiptDelete
<1> HIDE DEF s
<1>5. HandsOf(s) /\ AccountedOf(s)
  BY <1>1, <1>2, <1>3 DEF HandsOf, AccountedOf, Uploading
<1>6. Pending(s) = {} /\ Doomed(s) = {f.key} /\ Touched(s) = {f.key}
  BY <1>3 DEF Pending, Doomed, Touched, InHand
<1>7. \A g \in rows : g.key = f.key => g = f
  BY DEF IInv, FilesInv, KeysFromSequence
<1>8. condemned' \subseteq FileRow /\ condemned \subseteq condemned'
  BY <1>1, <1>2 DEF IInv, TypeOK
<1>9. \A key \in InHand(req[r]) : Recorded(key)
  BY <1>4, IdleHands
<1>10. s.made \subseteq req[r].made /\ 0 \notin s.todo \cup s.listed
  BY <1>3
<1>11. \A g \in rows : g.key \in Doomed(s) => g \in condemned'
  BY <1>1, <1>6, <1>7
<1>12. s \in Request /\ \A key \in Touched(s) \ {0} : \E g \in rows : g.key = key
  BY <1>3, <1>6
<1>13. Pending(s) \subseteq Pending(req[r])
  BY <1>6
<1> QED BY <1>4, <1>5, <1>8, <1>9, <1>10, <1>11, <1>12, <1>13, QuietStep

LEMMA ReviseInsertKeeps ==
  ASSUME IInv, NEW r \in Req, ReviseInsert(r)
  PROVE  IInv'
<1>1. /\ req[r] \in Request /\ req[r].pc = "revise"
      /\ UNCHANGED <<tables, objects, condemned, leaked>>
      /\ req[r].key = 0 /\ req[r].made = {} /\ \A key \in InHand(req[r]) : Recorded(key)
  BY IdleHands DEF ReviseInsert, IInv, TypeOK
<1>2. CASE Respond(r)
  BY <1>1, <1>2, QuietEnd
<1>3. CASE Become(r, [req[r] EXCEPT !.pc = "copy", !.todo = Keys(FilesOf(req[r].owner))])
  <2> DEFINE keys == Keys(FilesOf(req[r].owner))
             s    == [req[r] EXCEPT !.pc = "copy", !.todo = keys]
  <2>1. keys \in SUBSET Nat /\ \A key \in keys : key # 0 /\ \E f \in rows : f.key = key
    BY DEF Keys, FilesOf, IInv, TypeOK, FileRow, FilesInv, KeysFromSequence
  <2>2. Become(r, s)
    BY <1>3
  <2> HIDE DEF keys
  <2>3. s \in Request /\ s.pc = "copy" /\ s.key = 0 /\ s.made = {} /\ s.todo = keys
        /\ s.listed = req[r].listed
    BY <1>1, <2>1 DEF Request
  <2> HIDE DEF s
  <2>4. HandsOf(s) /\ AccountedOf(s)
    BY <2>3 DEF HandsOf, AccountedOf, Uploading
  <2>5. Pending(s) = {} /\ Doomed(s) = {} /\ Touched(s) \ {0} \subseteq keys \cup req[r].listed
    BY <2>3 DEF Pending, Doomed, Touched, InHand
  <2>6. condemned' \subseteq FileRow /\ condemned \subseteq condemned'
    BY <1>1 DEF IInv, TypeOK
  <2>7. \A key \in Touched(s) \ {0} : key \in Touched(req[r]) \/ \E f \in rows : f.key = key
    BY <2>1, <2>5 DEF Touched
  <2>8. 0 \notin s.todo \cup s.listed /\ s.made \subseteq req[r].made
    BY <1>1, <2>1, <2>3 DEF IInv, FilesInv, KeysFromSequence
  <2> QED BY <1>1, <2>2, <2>3, <2>4, <2>5, <2>6, <2>7, <2>8, QuietStep
<1> QED BY <1>2, <1>3 DEF ReviseInsert, Respond

LEMMA DeleteObjectKeeps ==
  ASSUME IInv, NEW r \in Req, DeleteObject(r)
  PROVE  IInv'
<1>1. /\ req[r] \in Request /\ req[r].pc = "deleteObject" /\ req[r].todo # {}
      /\ req[r].todo \subseteq Nat /\ UNCHANGED <<tables, condemned, leaked>>
      /\ req[r].key = 0 /\ req[r].made = {} /\ \A key \in InHand(req[r]) : Recorded(key)
  BY IdleHands DEF DeleteObject, IInv, TypeOK, Request
<1>2. PICK key \in req[r].todo : key = Min(req[r].todo)
  BY <1>1, MinOf
<1>3. Doomed(req[r]) = req[r].todo /\ 0 \notin req[r].todo \cup req[r].listed /\ 0 \notin objects
  BY <1>1 DEF Doomed, IInv, FilesInv, KeysFromSequence
<1>4. /\ quotes \subseteq QuoteRow /\ payments \subseteq Nat /\ condemned \subseteq FileRow
      /\ seq \in [quote: Nat, payment: Nat, key: Nat] /\ leaked \subseteq Nat
  BY DEF IInv, TypeOK
<1>5. CASE DeleteSucceeds(key) /\ Become(r, [req[r] EXCEPT !.todo = @ \ {key}])
  <2> DEFINE t == [req[r] EXCEPT !.todo = @ \ {key}]
  <2>t. /\ t \in Request /\ t.pc = "deleteObject" /\ t.key = 0 /\ t.made = {}
        /\ t.todo = req[r].todo \ {key} /\ t.listed = req[r].listed /\ Become(r, t)
    BY <1>1, <1>5 DEF Request
  <2> HIDE DEF t
  <2>1. PICK s \in Request :
          /\ s = t /\ s.pc = "deleteObject" /\ s.key = 0 /\ s.made = {}
          /\ s.todo = req[r].todo \ {key} /\ s.listed = req[r].listed
    BY <2>t
  <2>2. Become(r, s)
    BY <2>t, <2>1
  <2>3. objects' = objects \ {key}
    BY <1>5 DEF DeleteSucceeds
  <2>4. HandsOf(s)
    BY <2>1 DEF HandsOf, Uploading
  <2>5. AccountedOf(s)'
    <3>1. \A k \in req[r].listed \ req[r].todo : k \notin objects
      BY <1>1 DEF AccountedOf, IInv, RequestsInv, Accounted
    <3> QED BY <2>1, <2>3, <3>1 DEF AccountedOf, Uploading
  <2>6. Pending(s) = {} /\ Doomed(s) \subseteq req[r].todo /\ Touched(s) \subseteq Touched(req[r])
    BY <1>1, <2>1 DEF Pending, Doomed, Touched, InHand
  <2>7. \A f \in rows : f.key \in Doomed(s) => f \in condemned
    BY <1>3, <2>6 DEF IInv, RequestsInv, DoomedCondemned
  <2>8. objects' \subseteq objects /\ objects \ objects' \subseteq Doomed(req[r])
    BY <1>2, <1>3, <2>3
  <2>9. \A k \in InHand(req[r]) : k \in objects' => k \in InHand(s)
    BY <1>1, <2>1 DEF InHand
  <2>10. 0 \notin s.todo \cup s.listed /\ s.made \subseteq req[r].made
    BY <1>3, <2>1
  <2> QED BY <1>1, <1>4, <2>2, <2>4, <2>5, <2>6, <2>7, <2>8, <2>9, <2>10, NothingAdded DEF tables
<1>6. CASE objects' \in {objects, objects \ {key}} /\ Respond(r)
  <2>1. Become(r, Idle) /\ objects' \subseteq objects /\ objects \ objects' \subseteq Doomed(req[r])
    BY <1>2, <1>3, <1>6 DEF Respond
  <2>2. \A k \in InHand(req[r]) : k \notin objects
    BY <1>1, <1>3 DEF InHand
  <2>3. Doomed(Idle) = {}
    BY IdleRequest DEF Doomed
  <2> QED BY <1>1, <2>1, <2>2, <2>3, IdleRequest, LetGo DEF tables
<1> QED BY <1>2, <1>5, <1>6 DEF DeleteObject

LEMMA DeleteReceiptObjectKeeps ==
  ASSUME IInv, NEW r \in Req, DeleteReceiptObject(r)
  PROVE  IInv'
<1> DEFINE key == req[r].key
<1>1. /\ req[r] \in Request /\ req[r].pc = "deleteReceipt"
      /\ UNCHANGED <<tables, condemned, leaked>>
      /\ key # 0 /\ req[r].made = {}
      /\ key \in objects => key \in leaked \/ \E f \in rows : f.key = key
  BY DEF DeleteReceiptObject, IInv, TypeOK, RequestsInv, Hands, HandsOf, Accounted, AccountedOf
<1>2. Doomed(req[r]) = {key} /\ InHand(req[r]) = {key}
  BY <1>1 DEF Doomed, InHand
<1>3. /\ quotes \subseteq QuoteRow /\ payments \subseteq Nat /\ condemned \subseteq FileRow
      /\ seq \in [quote: Nat, payment: Nat, key: Nat] /\ leaked \subseteq Nat
  BY DEF IInv, TypeOK
<1>4. CASE DeleteSucceeds(key) /\ Become(r, [req[r] EXCEPT !.pc = "deleteReceiptRow"])
  <2> DEFINE t == [req[r] EXCEPT !.pc = "deleteReceiptRow"]
  <2>t. /\ t \in Request /\ t.pc = "deleteReceiptRow" /\ t.key = key /\ t.made = {}
        /\ t.todo = req[r].todo /\ t.listed = req[r].listed /\ Become(r, t)
    BY <1>1, <1>4 DEF Request
  <2> HIDE DEF t
  <2>1. PICK s \in Request :
          /\ s = t /\ s.pc = "deleteReceiptRow" /\ s.key = key /\ s.made = {}
          /\ s.todo = req[r].todo /\ s.listed = req[r].listed
    BY <2>t
  <2>2. Become(r, s)
    BY <2>t, <2>1
  <2>3. objects' = objects \ {key}
    BY <1>4 DEF DeleteSucceeds
  <2>4. HandsOf(s) /\ AccountedOf(s)'
    BY <1>1, <2>1, <2>3 DEF HandsOf, AccountedOf, Uploading
  <2>5. /\ Pending(s) = {} /\ Doomed(s) = {} /\ Touched(s) \subseteq Touched(req[r])
        /\ InHand(s) = {key}
    BY <1>1, <2>1 DEF Pending, Doomed, Touched, InHand
  <2>6. 0 \notin s.todo \cup s.listed /\ s.made \subseteq req[r].made
    BY <1>1, <2>1 DEF IInv, FilesInv, KeysFromSequence
  <2>7. objects' \subseteq objects /\ objects \ objects' \subseteq Doomed(req[r])
    BY <1>2, <2>3
  <2> HIDE DEF key
  <2> QED BY <1>1, <1>2, <1>3, <2>2, <2>4, <2>5, <2>6, <2>7, NothingAdded DEF tables
<1>5. CASE objects' \in {objects, objects \ {key}} /\ Respond(r)
  <2>1. Become(r, Idle) /\ objects' \subseteq objects /\ objects \ objects' \subseteq Doomed(req[r])
    BY <1>2, <1>5 DEF Respond
  <2>2. \A k \in InHand(req[r]) : k \in objects' => k \in leaked \/ \E f \in rows : f.key = k
    BY <1>1, <1>2, <2>1
  <2>3. Doomed(Idle) = {}
    BY IdleRequest DEF Doomed
  <2> QED BY <1>1, <2>1, <2>2, <2>3, IdleRequest, LetGo DEF tables
<1> QED BY <1>4, <1>5 DEF DeleteReceiptObject

\* A request ends with a step that deletes rows.
LEMMA RowsGone ==
  ASSUME IInv, NEW r \in Req, Respond(r),
         quotes' \subseteq quotes, UNCHANGED <<payments, objects, seq>>,
         rows' \subseteq rows, condemned' \subseteq condemned,
         \A f \in rows' : f \in condemned => f \in condemned',
         leaked \subseteq leaked', leaked' \subseteq leaked \cup objects,
         \A f \in rows \ rows' : f.key \in objects => f.key \in leaked',
         \A key \in InHand(req[r]) : key \notin objects
  PROVE  IInv'
<1>1. HandsOf(Idle) /\ AccountedOf(Idle)'
  BY IdleRequest DEF HandsOf, AccountedOf, Uploading
<1>2. Pending(Idle) = {} /\ Doomed(Idle) = {} /\ Touched(Idle) = {0}
  BY IdleRequest DEF Pending, Doomed, Touched, InHand
<1>3. /\ quotes' \subseteq QuoteRow /\ payments \subseteq Nat /\ condemned' \subseteq FileRow
      /\ seq \in [quote: Nat, payment: Nat, key: Nat] /\ leaked' \subseteq Nat
  BY DEF IInv, TypeOK
<1>4. Become(r, Idle)
  BY DEF Respond
<1> QED BY <1>1, <1>2, <1>3, <1>4, IdleRequest, NothingAdded

LEMMA DeleteQuoteKeeps ==
  ASSUME IInv, NEW r \in Req, DeleteQuote(r)
  PROVE  IInv'
<1>1. PICK gone, files :
        /\ files \subseteq FilesOf(req[r].owner)
        /\ quotes' = quotes \ gone
        /\ rows' = rows \ files
        /\ condemned' = condemned \ files
        /\ leaked' = leaked \cup ((Keys(files) \ req[r].listed) \cap objects)
  BY DEF DeleteQuote
<1>2. /\ req[r].pc = "deleteObject" /\ req[r].todo = {} /\ Respond(r)
      /\ UNCHANGED <<payments, objects, seq>>
  BY DEF DeleteQuote
<1>3. files \subseteq rows /\ \A f \in files : f.key \in Keys(files)
  BY <1>1 DEF FilesOf, Keys
<1>4. \A key \in req[r].listed : key \notin objects
  BY <1>2 DEF IInv, RequestsInv, Accounted, AccountedOf
<1>5. \A key \in InHand(req[r]) : key \notin objects
  BY <1>2, IdleHands DEF InHand, IInv, FilesInv, KeysFromSequence
<1>6. \A f \in rows \ rows' : f.key \in objects => f.key \in leaked'
  BY <1>1, <1>3, <1>4
<1> QED BY <1>1, <1>2, <1>5, <1>6, RowsGone

LEMMA DeleteReceiptRowKeeps ==
  ASSUME IInv, NEW r \in Req, DeleteReceiptRow(r)
  PROVE  IInv'
<1>1. /\ req[r].pc = "deleteReceiptRow" /\ Respond(r)
      /\ rows' = {f \in rows : f.key # req[r].key}
      /\ condemned' = condemned \cap rows'
      /\ UNCHANGED <<quotes, payments, objects, seq, leaked>>
  BY DEF DeleteReceiptRow
<1>2. InHand(req[r]) = {req[r].key} /\ req[r].key \notin objects
  BY <1>1 DEF InHand, IInv, RequestsInv, Hands, HandsOf, Accounted, AccountedOf
<1> QED BY <1>1, <1>2, RowsGone

LEMMA UndoRowKeeps ==
  ASSUME IInv, NEW r \in Req, UndoRow(r)
  PROVE  IInv'
<1>1. /\ req[r] \in Request /\ req[r].pc = "undoRow"
      /\ req[r].made # {} /\ req[r].made \subseteq Nat /\ req[r].key = 0
      /\ UNCHANGED <<quotes, payments, objects, seq, leaked>>
  BY DEF UndoRow, IInv, TypeOK, RequestsInv, Hands, HandsOf, Request
<1>2. PICK key \in req[r].made : key = Min(req[r].made)
  BY <1>1, MinOf
<1> DEFINE files == {f \in rows : f.key = key}
<1>3. /\ rows' \in {rows, rows \ files} /\ condemned' = (condemned \cup files) \cap rows'
      /\ Become(r, [req[r] EXCEPT !.pc = "undoObject", !.key = key])
  BY <1>2 DEF UndoRow
<1>4. key # 0 /\ 0 \notin req[r].todo \cup req[r].listed
  BY DEF IInv, FilesInv, KeysFromSequence
<1> DEFINE t == [req[r] EXCEPT !.pc = "undoObject", !.key = key]
<1>t. /\ t \in Request /\ t.pc = "undoObject" /\ t.key = key
      /\ t.made = req[r].made /\ t.todo = req[r].todo /\ t.listed = req[r].listed
  BY <1>1, <1>2 DEF Request
<1> HIDE DEF t
<1>5. PICK s \in Request :
        /\ s = t /\ s.pc = "undoObject" /\ s.key = key
        /\ s.made = req[r].made /\ s.todo = req[r].todo /\ s.listed = req[r].listed
  BY <1>t
<1>6. HandsOf(s) /\ AccountedOf(s)'
  BY <1>4, <1>5 DEF HandsOf, AccountedOf, Uploading
<1>7. /\ Pending(s) = {} /\ Doomed(s) = {key} /\ Touched(s) \ {0} \subseteq Touched(req[r])
      /\ key \in InHand(s)
      /\ \A k \in InHand(req[r]) : k \in InHand(s) \/ k = 0
  BY <1>1, <1>5 DEF Pending, Doomed, Touched, InHand
<1>8. /\ quotes \subseteq QuoteRow /\ payments \subseteq Nat /\ condemned' \subseteq FileRow
      /\ seq \in [quote: Nat, payment: Nat, key: Nat] /\ leaked \subseteq Nat
  BY <1>3 DEF IInv, TypeOK
<1>9. rows' \subseteq rows /\ \A f \in rows \ rows' : f.key = key
  BY <1>3
<1>10. /\ \A f \in rows' : f \in condemned => f \in condemned'
       /\ \A f \in rows' : f.key \in Doomed(s) => f \in condemned'
  BY <1>3, <1>7
<1>11. \A k \in InHand(req[r]) : k \in objects => k \in InHand(s)
  BY <1>7 DEF IInv, FilesInv, KeysFromSequence
<1> HIDE DEF files
<1>12. /\ \A f \in rows \ rows' : f.key \in req[r].made /\ f.key \in InHand(s)
       /\ s.made \subseteq req[r].made /\ 0 \notin s.todo \cup s.listed
  BY <1>4, <1>5, <1>7, <1>9
<1>13. Become(r, s)
  BY <1>3, <1>5 DEF t
<1> QED BY <1>1, <1>6, <1>7, <1>8, <1>9, <1>10, <1>11, <1>12, <1>13, NothingAdded

\* A request takes the next key, and may put an object there.
LEMMA KeyTaken ==
  ASSUME IInv, NEW r \in Req, NEW s \in Request, Become(r, s),
         NEW key \in Nat, key = seq.key + 1, seq' = [seq EXCEPT !.key = key],
         UNCHANGED <<quotes, payments, rows, condemned>>,
         objects' \in {objects, objects \cup {key}},
         leaked' \subseteq Nat, leaked \subseteq leaked',
         key \in objects' => key \in leaked' \/ key \in InHand(s),
         HandsOf(s), s.pc \notin {"deleteObject", "deleteReceipt", "deleteReceiptRow"},
         Uploading(s) => Uploading(req[r]) /\ s.made = req[r].made,
         Pending(s) \subseteq Pending(req[r]) \cup ({key} \cap objects'),
         s.key \in {0, key}, s.made \subseteq req[r].made \cup {key}, s.todo \subseteq req[r].todo,
         s.listed \subseteq req[r].listed,
         \A f \in rows : f.key \notin Doomed(s),
         \A k \in InHand(req[r]) : k \in objects => k \in InHand(s)
  PROVE  IInv'
<1> USE DEF IInv, TypeOK, FilesInv, RequestsInv
<1>1. /\ req' \in [Req -> Request]
      /\ req'[r] = s
      /\ \A o \in Req : o # r => req'[o] = req[o]
  BY Becomes
<1>2. seq' \in [quote: Nat, payment: Nat, key: Nat] /\ seq'.key = key
  OBVIOUS
<1>3. /\ key # 0 /\ key \notin objects /\ \A f \in rows : f.key # key
      /\ \A o \in Req : key \notin Touched(req[o])
  BY DEF KeysFromSequence, Touched, InHand
<1>4. TypeOK'
  BY <1>1, <1>2
<1>5. KeysFromSequence'
  BY <1>1, <1>2 DEF KeysFromSequence
<1>6. FilesOutliveRows'
  BY DEF FilesOutliveRows
<1>7. OrphansHaveCause'
  <2>1. SUFFICES ASSUME NEW k \in objects',
                        ~\E f \in rows : f.key = k, k \notin leaked'
                 PROVE  \E o \in Req : k \in InHand(req'[o])
    BY DEF OrphansHaveCause, Keys, Held, InHand
  <2>2. CASE k = key
    BY <1>1, <2>1, <2>2
  <2>3. CASE k # key
    <3>1. PICK o \in Req : k \in InHand(req[o])
      BY <2>1, <2>3 DEF OrphansHaveCause, Keys, Held, InHand
    <3> QED BY <1>1, <2>1, <2>3, <3>1
  <2> QED BY <2>2, <2>3
<1>8. Hands'
  BY <1>1 DEF Hands
<1>9. PendingApart'
  <2>1. \A k \in Touched(s) : k \in Touched(req[r]) \/ k \in {0, key}
    BY DEF Touched, InHand
  <2>2. \A o \in Req : 0 \notin Pending(req[o])
    BY DEF Pending, Hands, HandsOf, KeysFromSequence
  <2>3. \A o \in Req : Pending(req[o]) \subseteq Touched(req[o])
    BY DEF Pending, Touched, InHand
  <2> QED BY <1>1, <1>3, <2>1, <2>2, <2>3 DEF PendingApart
<1>10. MadeApart'
  <2>1. \A o \in Req : key \notin req[o].made
    BY <1>3 DEF Touched, InHand
  <2> QED BY <1>1, <1>3, <2>1 DEF MadeApart
<1>11. DoomedCondemned'
  BY <1>1 DEF DoomedCondemned
<1>12. Accounted'
  <2>1. SUFFICES ASSUME NEW o \in Req PROVE AccountedOf(req[o])'
    BY DEF Accounted
  <2>2. AccountedOf(req[o]) /\ AccountedOf(req[r])
    BY DEF Accounted
  <2>3. \A k : k # key /\ Recorded(k) => Recorded(k)'
    BY DEF Recorded
  <2>4. CASE o = r
    <3>1. \A k \in req[r].made : k # key
      BY <1>3 DEF Touched, InHand
    <3> QED BY <1>1, <2>2, <2>3, <2>4, <3>1 DEF AccountedOf
  <2>5. CASE o # r
    <3>1. req[o].key # key /\ \A k \in req[o].made : k # key
      BY <1>3 DEF Touched, InHand
    <3>2. key \notin req[o].listed
      BY <1>3 DEF Touched
    <3> QED BY <1>1, <2>2, <2>3, <2>5, <3>1, <3>2 DEF AccountedOf
  <2> QED BY <2>4, <2>5
<1> QED BY <1>4, <1>5, <1>6, <1>7, <1>8, <1>9, <1>10, <1>11, <1>12

LEMMA PutObjectKeeps ==
  ASSUME IInv, NEW r \in Req, PutObject(r)
  PROVE  IInv'
<1>1. PICK key \in Nat : key = seq.key + 1
  BY DEF IInv, TypeOK
<1>2. /\ req[r] \in Request /\ req[r].pc = "put" /\ req[r].key = 0
      /\ seq' = [seq EXCEPT !.key = key]
      /\ UNCHANGED <<quotes, payments, rows, condemned>>
      /\ leaked \subseteq Nat /\ objects \subseteq Nat
  BY <1>1 DEF PutObject, IInv, TypeOK, RequestsInv, Hands, HandsOf
<1>3. CASE PutSucceeds(key) /\ Become(r, [req[r] EXCEPT !.pc = "insert", !.key = key])
  <2> DEFINE s == [req[r] EXCEPT !.pc = "insert", !.key = key]
  <2>1. /\ s \in Request /\ s.pc = "insert" /\ s.key = key
        /\ s.owner = req[r].owner /\ s.left = req[r].left
        /\ s.made = req[r].made /\ s.todo = req[r].todo /\ s.listed = req[r].listed
    BY <1>2 DEF Request
  <2>2. Become(r, s)
    BY <1>3
  <2> HIDE DEF s
  <2>3. objects' = objects \cup {key} /\ leaked' = leaked
    BY <1>3 DEF PutSucceeds
  <2>4. HandsOf(s) /\ Uploading(req[r])
    BY <1>1, <1>2, <2>1 DEF HandsOf, Uploading, IInv, TypeOK, RequestsInv, Hands
  <2>5. Pending(s) \subseteq {key} \cap objects' /\ Doomed(s) = {} /\ key \in InHand(s)
    BY <2>1, <2>3 DEF Pending, Doomed, InHand
  <2>6. \A k \in InHand(req[r]) : k \in objects => k \in InHand(s)
    BY <1>2, <2>1 DEF InHand, IInv, FilesInv, KeysFromSequence
  <2>7. \A f \in rows : f.key \notin Doomed(s)
    BY <2>5
  <2> QED BY <1>1, <1>2, <2>1, <2>2, <2>3, <2>4, <2>5, <2>6, <2>7, KeyTaken
<1>4. CASE PutFails(key) /\ CleanUp(r, req[r].made)
  <2>1. PICK s \in Request :
          /\ Become(r, s)
          /\ s.key = 0 /\ s.made = req[r].made /\ s.todo = {} /\ s.listed = {}
          /\ s.pc = IF req[r].made = {} THEN "idle" ELSE "undoRow"
    BY <1>2, <1>4, CleanUpState DEF Request
  <2>2. /\ objects' \in {objects, objects \cup {key}}
        /\ leaked \subseteq leaked' /\ leaked' \subseteq Nat
        /\ key \in objects' => key \in leaked' \/ key \in objects
    BY <1>2, <1>4 DEF PutFails
  <2>3. key \notin objects
    BY <1>1 DEF IInv, TypeOK, FilesInv, KeysFromSequence
  <2>4. HandsOf(s) /\ s.pc \in {"idle", "undoRow"}
    BY <2>1 DEF HandsOf, Uploading
  <2>5. Pending(s) = {} /\ Doomed(s) = {} /\ ~Uploading(s)
    BY <2>4 DEF Pending, Doomed, Uploading
  <2>6. \A k \in InHand(req[r]) : k \in objects => k \in InHand(s)
    BY <1>2, <2>1 DEF InHand
  <2>7. \A f \in rows : f.key \notin Doomed(s)
    BY <2>5
  <2>8. s.todo \subseteq req[r].todo /\ s.listed \subseteq req[r].listed
    BY <2>1
  <2> QED BY <1>1, <1>2, <2>1, <2>2, <2>3, <2>4, <2>5, <2>6, <2>7, <2>8, KeyTaken
<1> QED BY <1>1, <1>3, <1>4 DEF PutObject

LEMMA CopyObjectKeeps ==
  ASSUME IInv, NEW r \in Req, CopyObject(r)
  PROVE  IInv'
<1>1. PICK new \in Nat : new = seq.key + 1
  BY DEF IInv, TypeOK
<1>2. /\ req[r] \in Request /\ req[r].pc = "copy" /\ req[r].key = 0
      /\ req[r].todo # {} /\ req[r].todo \subseteq Nat
      /\ UNCHANGED <<quotes, payments, rows, condemned>>
      /\ leaked \subseteq Nat /\ objects \subseteq Nat
  BY DEF CopyObject, IInv, TypeOK, RequestsInv, Hands, HandsOf, Request
<1>3. PICK key \in req[r].todo : key = Min(req[r].todo)
  BY <1>2, MinOf
<1>4. CASE /\ seq' = [seq EXCEPT !.key = new] /\ PutSucceeds(new)
           /\ Become(r, [req[r] EXCEPT !.todo = @ \ {key}, !.made = @ \cup {new}])
  <2> DEFINE s == [req[r] EXCEPT !.todo = @ \ {key}, !.made = @ \cup {new}]
  <2>1. /\ s \in Request /\ s.pc = "copy" /\ s.key = 0 /\ s.made = req[r].made \cup {new}
        /\ s.todo \subseteq req[r].todo /\ s.listed = req[r].listed
    BY <1>2 DEF Request
  <2>2. Become(r, s)
    BY <1>4
  <2> HIDE DEF s
  <2>3. objects' = objects \cup {new} /\ leaked' = leaked
    BY <1>4 DEF PutSucceeds
  <2>4. HandsOf(s) /\ ~Uploading(s)
    BY <2>1 DEF HandsOf, Uploading
  <2>5. /\ Pending(s) \subseteq Pending(req[r]) \cup ({new} \cap objects')
        /\ Doomed(s) = {} /\ new \in InHand(s)
        /\ \A k \in InHand(req[r]) : k \in InHand(s)
    BY <1>2, <2>1, <2>3 DEF Pending, Doomed, InHand
  <2>6. \A f \in rows : f.key \notin Doomed(s)
    BY <2>5
  <2>7. s.listed \subseteq req[r].listed /\ s.made \subseteq req[r].made \cup {new}
    BY <2>1
  <2> QED BY <1>1, <1>2, <1>4, <2>1, <2>2, <2>3, <2>4, <2>5, <2>6, <2>7, KeyTaken
<1>5. CASE seq' = [seq EXCEPT !.key = new] /\ PutFails(new) /\ Abandon(r, req[r].made)
  <2>1. PICK s \in Request :
          /\ Become(r, s)
          /\ s.key = 0 /\ s.made = req[r].made /\ s.todo = {} /\ s.listed = {}
          /\ s.pc = IF req[r].made = {} THEN "idle" ELSE "undoCopy"
    BY <1>2, <1>5, AbandonState DEF Request
  <2>2. /\ objects' \in {objects, objects \cup {new}}
        /\ leaked \subseteq leaked' /\ leaked' \subseteq Nat
        /\ new \in objects' => new \in leaked' \/ new \in objects
    BY <1>2, <1>5 DEF PutFails
  <2>3. new \notin objects
    BY <1>1 DEF IInv, TypeOK, FilesInv, KeysFromSequence
  <2>4. HandsOf(s) /\ s.pc \in {"idle", "undoCopy"} /\ ~Uploading(s)
    BY <2>1 DEF HandsOf, Uploading
  <2>5. Pending(s) = {} /\ Doomed(s) \subseteq req[r].made
    BY <2>1, <2>4 DEF Pending, Doomed
  <2>6. \A k \in InHand(req[r]) : k \in objects => k \in InHand(s)
    BY <1>2, <2>1 DEF InHand
  <2>7. \A f \in rows : f.key \notin Doomed(s)
    BY <1>2, <2>5 DEF IInv, RequestsInv, PendingApart, Pending
  <2>8. s.todo \subseteq req[r].todo /\ s.listed \subseteq req[r].listed
    BY <2>1
  <2> QED BY <1>1, <1>2, <1>5, <2>1, <2>2, <2>3, <2>4, <2>5, <2>6, <2>7, <2>8, KeyTaken
<1>6. CASE Abandon(r, req[r].made) /\ UNCHANGED <<objects, seq, leaked>>
  BY <1>2, <1>6, ReviseRefusedKeeps DEF tables
<1> QED BY <1>1, <1>3, <1>4, <1>5, <1>6 DEF CopyObject, CopyKey

\* Rows are inserted for keys that the request had in hand.
LEMMA RowsAdded ==
  ASSUME IInv, NEW r \in Req, NEW s \in Request, Become(r, s),
         quotes' \subseteq QuoteRow, UNCHANGED <<payments, objects, condemned, leaked>>,
         seq' \in [quote: Nat, payment: Nat, key: Nat], seq'.key = seq.key,
         NEW new \in SUBSET FileRow, rows' = rows \cup new,
         \A f \in new : f.key \in Pending(req[r]), \A f, g \in new : f.key = g.key => f = g,
         s.pc \in {"idle", "put"}, HandsOf(s),
         s.made \subseteq req[r].made \cup Pending(req[r]),
         s.todo \subseteq req[r].todo, s.listed \subseteq req[r].listed,
         \A f \in new : s.made = {} \/ f.owner.table = "quote",
         \A key \in InHand(req[r]) : key \in objects =>
           key \in leaked \/ \E f \in rows' : f.key = key
  PROVE  IInv'
<1> USE DEF IInv, TypeOK, FilesInv, RequestsInv
<1>1. /\ req' \in [Req -> Request]
      /\ req'[r] = s
      /\ \A o \in Req : o # r => req'[o] = req[o]
  BY Becomes
<1>2. /\ s.key = 0
      /\ \A key \in Pending(req[r]) : key \in Touched(req[r]) /\ key \in InHand(req[r])
      /\ Pending(s) = {} /\ Doomed(s) = {}
  BY DEF HandsOf, Pending, Doomed, Touched, InHand
<1>3. \A f \in new : /\ f.key \in objects /\ f.key \in 1..seq.key
                     /\ \A g \in rows : g.key # f.key
                     /\ \A o \in Req : f.key \in Touched(req[o]) => o = r
  BY DEF PendingApart, KeysFromSequence
<1>4. \A key \in s.made : /\ key \in 1..seq.key /\ key \in InHand(req[r])
                          /\ \A o \in Req : key \in req[o].made => o = r
  BY <1>2 DEF PendingApart, KeysFromSequence, MadeApart, Touched, InHand
<1>5. TypeOK'
  BY <1>1
<1>6. KeysFromSequence'
  BY <1>1, <1>2, <1>3, <1>4 DEF KeysFromSequence
<1>7. FilesOutliveRows'
  BY <1>3 DEF FilesOutliveRows
<1>8. OrphansHaveCause'
  BY <1>1 DEF OrphansHaveCause, Keys, Held, InHand
<1>9. Hands'
  BY <1>1 DEF Hands
<1>10. PendingApart'
  <2>1. SUFFICES ASSUME NEW o \in Req, NEW key \in Pending(req'[o])
                 PROVE  /\ key \in objects
                        /\ \A f \in rows' : f.key # key
                        /\ \A x \in Req : key \in Touched(req'[x]) => x = o
    BY DEF PendingApart
  <2>2. o # r /\ key \in Pending(req[o]) /\ key \in Touched(req[o]) /\ key # 0
    BY <1>1, <1>2, <2>1 DEF Pending, Touched, InHand, Hands, HandsOf, KeysFromSequence
  <2>3. /\ key \in objects /\ \A f \in rows : f.key # key
        /\ \A x \in Req : key \in Touched(req[x]) => x = o
    BY <2>2 DEF PendingApart
  <2>4. \A f \in new : f.key # key
    BY <1>3, <2>2
  <2>5. \A k \in Touched(s) : k \in Touched(req[r]) \/ k = 0
    BY <1>2, <1>4 DEF Touched, InHand
  <2> QED BY <1>1, <2>2, <2>3, <2>4, <2>5
<1>11. MadeApart'
  <2>1. \A o \in Req : o # r => \A f \in new : f.key \notin req[o].made
    BY <1>3 DEF Touched, InHand
  <2>2. \A key \in s.made, f \in rows : f.key = key => f.owner.table = "quote"
    BY DEF MadeApart, PendingApart
  <2> QED BY <1>1, <1>4, <2>1, <2>2 DEF MadeApart
<1>12. DoomedCondemned'
  <2>1. \A o \in Req : o # r => \A f \in new : f.key \notin Doomed(req[o])
    BY <1>3 DEF Doomed, Touched, InHand
  <2> QED BY <1>1, <1>2, <2>1 DEF DoomedCondemned
<1>13. Accounted'
  <2>1. SUFFICES ASSUME NEW o \in Req PROVE AccountedOf(req[o])'
    BY DEF Accounted
  <2>2. AccountedOf(req[o])
    BY DEF Accounted
  <2>3. \A k : Recorded(k) => Recorded(k)'
    BY DEF Recorded
  <2>4. \A key \in s.made : Recorded(key)'
    BY <1>4 DEF Recorded
  <2>5. CASE o = r
    BY <1>1, <2>4, <2>5 DEF AccountedOf, Uploading
  <2>6. CASE o # r
    BY <1>1, <2>2, <2>3, <2>6 DEF AccountedOf
  <2> QED BY <2>5, <2>6
<1> QED BY <1>5, <1>6, <1>7, <1>8, <1>9, <1>10, <1>11, <1>12, <1>13

LEMMA FileRows ==
  ASSUME NEW owner \in Owner, NEW keys \in SUBSET Nat
  PROVE  LET files == {[owner |-> owner, key |-> key] : key \in keys} IN
           /\ files \subseteq FileRow
           /\ \A f \in files : f.key \in keys
           /\ \A f, g \in files : f.key = g.key => f = g
           /\ \A key \in keys : \E f \in files : f.key = key
<1> DEFINE file(key) == [owner |-> owner, key |-> key]
           files     == {file(key) : key \in keys}
<1>1. \A key \in keys : file(key) \in FileRow /\ file(key).key = key
  BY DEF FileRow
<1>2. \A f \in files : \E key \in keys : f = file(key)
  OBVIOUS
<1>3. \A key \in keys : file(key) \in files
  OBVIOUS
<1> HIDE DEF file, files
<1>4. /\ files \subseteq FileRow
      /\ \A f \in files : f.key \in keys
      /\ \A f, g \in files : f.key = g.key => f = g
      /\ \A key \in keys : \E f \in files : f.key = key
  BY <1>1, <1>2, <1>3
<1> QED BY <1>4 DEF files, file

LEMMA SentRow == ASSUME NEW q \in QuoteRow PROVE [q EXCEPT !.draft = FALSE] \in QuoteRow
BY DEF QuoteRow

LEMMA DraftRow == ASSUME NEW id \in Nat PROVE [id |-> id, draft |-> TRUE] \in QuoteRow
BY DEF QuoteRow

LEMMA InsertRowKeeps ==
  ASSUME IInv, NEW r \in Req, InsertRow(r)
  PROVE  IInv'
<1> DEFINE key == req[r].key
<1>1. /\ req[r] \in Request /\ req[r].pc = "insert" /\ key \in Nat /\ key # 0
      /\ req[r].made \subseteq Nat /\ req[r].owner \in Owner
      /\ req[r].left \in 0..MaxFiles /\ req[r].left # 0
      /\ req[r].owner.table = "payment" => req[r].left = 1
      /\ UNCHANGED <<quotes, payments, objects, seq, condemned, leaked>>
  BY DEF InsertRow, IInv, TypeOK, RequestsInv, Hands, HandsOf, Uploading, Request
<1>2. Pending(req[r]) = {key} /\ \A k \in req[r].made : Recorded(k)
  BY <1>1 DEF Pending, IInv, RequestsInv, Accounted, AccountedOf, Uploading
<1>3. CASE Become(r, NotInserted(r)) /\ UNCHANGED rows
  <2> DEFINE s == [Idle EXCEPT !.pc = "undoObject", !.key = req[r].key, !.made = req[r].made]
  <2>1. /\ s \in Request /\ s.pc = "undoObject" /\ s.key = key /\ s.made = req[r].made
        /\ s.todo = {} /\ s.listed = {}
    BY <1>1, IdleRequest DEF Request
  <2>2. Become(r, s)
    BY <1>3 DEF NotInserted
  <2> HIDE DEF s
  <2>3. HandsOf(s) /\ AccountedOf(s)
    BY <1>1, <2>1 DEF HandsOf, AccountedOf, Uploading
  <2>4. /\ Pending(s) = {} /\ Doomed(s) = {key} /\ Touched(s) \subseteq Touched(req[r])
        /\ InHand(s) = InHand(req[r])
    BY <2>1 DEF Pending, Doomed, Touched, InHand
  <2>5. \A f \in rows : f.key \notin Doomed(s)
    BY <1>2, <2>4 DEF IInv, RequestsInv, PendingApart
  <2>6. condemned' \subseteq FileRow /\ condemned \subseteq condemned' /\ UNCHANGED tables
    BY <1>1, <1>3 DEF IInv, TypeOK, tables
  <2> HIDE DEF key
  <2> QED BY <1>1, <2>1, <2>2, <2>3, <2>4, <2>5, <2>6, QuietStep
<1>4. CASE /\ rows' = rows \cup {[owner |-> req[r].owner, key |-> key]}
           /\ Become(r, Uploaded(r))
  <2> DEFINE f == [owner |-> req[r].owner, key |-> key]
  <2>1. f \in FileRow /\ f.key = key /\ f.owner = req[r].owner
    BY <1>1 DEF FileRow
  <2>2. /\ quotes \subseteq QuoteRow /\ seq \in [quote: Nat, payment: Nat, key: Nat]
    BY DEF IInv, TypeOK
  <2>3. rows' = rows \cup {f}
    BY <1>4
  <2> HIDE DEF f
  <2>4. \A k \in InHand(req[r]) : k \in objects => k \in leaked \/ \E g \in rows' : g.key = k
    BY <1>2, <2>1, <2>3 DEF InHand, Recorded
  <2>5. CASE req[r].left = 1
    <3>1. Become(r, Idle) /\ HandsOf(Idle)
      BY <1>4, <2>5, IdleRequest DEF Uploaded, HandsOf, Uploading
    <3>2. PICK new \in SUBSET FileRow : new = {f}
      BY <2>1
    <3>3. /\ rows' = rows \cup new
          /\ \A g \in new : g.key \in Pending(req[r])
          /\ \A g, h \in new : g.key = h.key => g = h
      BY <1>2, <2>1, <2>3, <3>2
    <3> QED BY <1>1, <2>2, <2>4, <3>1, <3>3, IdleRequest, RowsAdded
  <2>6. CASE req[r].left # 1
    <3> DEFINE s == [req[r] EXCEPT !.pc = "put", !.left = @ - 1, !.key = 0, !.made = @ \cup {key}]
    <3>1. /\ s \in Request /\ s.pc = "put" /\ s.left = req[r].left - 1 /\ s.key = 0
          /\ s.owner = req[r].owner /\ s.made = req[r].made \cup {key}
          /\ s.todo = req[r].todo /\ s.listed = req[r].listed
      <4>1. req[r].left - 1 \in 0..MaxFiles /\ req[r].made \cup {key} \subseteq Nat
        BY <1>1, <2>6, ConstantsAssumption
      <4>2. PICK n \in 0..MaxFiles, made \in SUBSET Nat :
              n = req[r].left - 1 /\ made = req[r].made \cup {key}
        BY <4>1
      <4>3. s = [req[r] EXCEPT !.pc = "put", !.left = n, !.key = 0, !.made = made]
        BY <1>1, <4>2 DEF Request
      <4> QED BY <1>1, <4>2, <4>3 DEF Request
    <3>2. Become(r, s)
      BY <1>4, <2>6 DEF Uploaded
    <3> HIDE DEF s
    <3>3. req[r].owner.table = "quote" /\ req[r].left - 1 # 0
      BY <1>1, <2>6, ConstantsAssumption DEF Owner
    <3>4. HandsOf(s)
      BY <3>1, <3>3 DEF HandsOf, Uploading
    <3>5. PICK new \in SUBSET FileRow : new = {f}
      BY <2>1
    <3>6. /\ rows' = rows \cup new
          /\ \A g \in new : g.key \in Pending(req[r]) /\ g.owner.table = "quote"
          /\ \A g, h \in new : g.key = h.key => g = h
      BY <1>2, <2>1, <2>3, <3>3, <3>5
    <3>7. s.made \subseteq req[r].made \cup Pending(req[r])
      BY <1>2, <3>1
    <3>8. s.todo \subseteq req[r].todo /\ s.listed \subseteq req[r].listed
      BY <3>1
    <3> HIDE DEF key
    <3> QED BY <1>1, <2>2, <2>4, <3>1, <3>2, <3>4, <3>6, <3>7, <3>8, RowsAdded
  <2> QED BY <2>5, <2>6
<1> QED BY <1>3, <1>4 DEF InsertRow

LEMMA ReviseCommitKeeps ==
  ASSUME IInv, NEW r \in Req, ReviseCommit(r)
  PROVE  IInv'
<1>1. PICK id \in Nat : id = seq.quote + 1
  BY DEF IInv, TypeOK
<1>2. /\ req[r].pc = "copy" /\ req[r].key = 0 /\ req[r].made \subseteq Nat
      /\ rows' = rows \cup {[owner |-> OfQuote(id), key |-> key] : key \in req[r].made}
      /\ seq' = [seq EXCEPT !.quote = id]
      /\ Become(r, Idle)
      /\ UNCHANGED <<payments, objects, condemned, leaked>>
  BY <1>1 DEF ReviseCommit, Respond, IInv, TypeOK, RequestsInv, Hands, HandsOf, Request
<1>3. PICK q \in quotes :
        quotes' = (quotes \ {q}) \cup {[q EXCEPT !.draft = FALSE], [id |-> id, draft |-> TRUE]}
  BY <1>1 DEF ReviseCommit
<1>4. quotes' \subseteq QuoteRow
  BY <1>3, SentRow, DraftRow DEF IInv, TypeOK
<1>5. seq' \in [quote: Nat, payment: Nat, key: Nat] /\ seq'.key = seq.key
  BY <1>2 DEF IInv, TypeOK
<1> DEFINE files == {[owner |-> OfQuote(id), key |-> key] : key \in req[r].made}
<1>6. /\ files \in SUBSET FileRow
      /\ \A f \in files : f.key \in req[r].made
      /\ \A f, g \in files : f.key = g.key => f = g
      /\ \A key \in req[r].made : \E f \in files : f.key = key
  <2>1. PICK owner \in Owner : owner = OfQuote(id)
    BY DEF Owner, OfQuote
  <2>2. files = {[owner |-> owner, key |-> key] : key \in req[r].made}
    BY <2>1
  <2> HIDE DEF files
  <2> QED BY <1>2, <2>2, FileRows
<1>7. rows' = rows \cup files
  BY <1>2
<1> HIDE DEF files
<1>8. PICK new \in SUBSET FileRow : new = files
  BY <1>6
<1>9. /\ rows' = rows \cup new
      /\ \A f \in new : f.key \in Pending(req[r])
      /\ \A f, g \in new : f.key = g.key => f = g
  BY <1>2, <1>6, <1>7, <1>8 DEF Pending
<1>10. \A key \in InHand(req[r]) : key \in objects => key \in leaked \/ \E f \in rows' : f.key = key
  BY <1>2, <1>6, <1>7 DEF InHand, IInv, FilesInv, KeysFromSequence
<1>11. HandsOf(Idle)
  BY IdleRequest DEF HandsOf, Uploading
<1> QED BY <1>2, <1>4, <1>5, <1>9, <1>10, <1>11, IdleRequest, RowsAdded

\* The other operations on quotes and payments touch no file.
LEMMA TablesChange ==
  ASSUME IInv, quotes' \subseteq QuoteRow, payments' \subseteq Nat,
         seq' \in [quote: Nat, payment: Nat, key: Nat], seq'.key = seq.key,
         UNCHANGED <<rows, objects, req, condemned, leaked>>
  PROVE  IInv'
BY DEF IInv, TypeOK, FilesInv, RequestsInv, KeysFromSequence, FilesOutliveRows,
       OrphansHaveCause, Keys, Held, Hands, PendingApart, MadeApart, DoomedCondemned,
       Accounted, AccountedOf, Recorded

LEMMA QuoteCreateKeeps == ASSUME IInv, QuoteCreate PROVE IInv'
<1>1. PICK id \in Nat : id = seq.quote + 1
  BY DEF IInv, TypeOK
<1>2. /\ seq' = [seq EXCEPT !.quote = id] /\ quotes' = quotes \cup {[id |-> id, draft |-> TRUE]}
      /\ UNCHANGED <<payments, rows, objects, req, condemned, leaked>>
  BY <1>1 DEF QuoteCreate
<1>3. /\ quotes' \subseteq QuoteRow /\ payments \subseteq Nat
      /\ seq' \in [quote: Nat, payment: Nat, key: Nat] /\ seq'.key = seq.key
  BY <1>2, DraftRow DEF IInv, TypeOK
<1> QED BY <1>2, <1>3, TablesChange

LEMMA QuoteAcceptKeeps == ASSUME IInv, QuoteAccept PROVE IInv'
<1>1. PICK q \in quotes : quotes' = (quotes \ {q}) \cup {[q EXCEPT !.draft = FALSE]}
  BY DEF QuoteAccept
<1>2. quotes' \subseteq QuoteRow /\ payments \subseteq Nat
      /\ seq \in [quote: Nat, payment: Nat, key: Nat]
  BY <1>1 DEF IInv, TypeOK, QuoteRow
<1>3. UNCHANGED <<payments, rows, objects, seq, req, condemned, leaked>>
  BY DEF QuoteAccept
<1> QED BY <1>2, <1>3, TablesChange

LEMMA McpReviseKeeps == ASSUME IInv, McpRevise PROVE IInv'
<1>1. PICK id \in Nat : id = seq.quote + 1
  BY DEF IInv, TypeOK
<1>2. PICK q \in quotes :
        quotes' = (quotes \ {q}) \cup {[q EXCEPT !.draft = FALSE], [id |-> id, draft |-> TRUE]}
  BY <1>1 DEF McpRevise
<1>3. /\ seq' = [seq EXCEPT !.quote = id]
      /\ UNCHANGED <<payments, rows, objects, req, condemned, leaked>>
  BY <1>1 DEF McpRevise
<1>4. quotes' \subseteq QuoteRow /\ payments \subseteq Nat
  BY <1>2, SentRow, DraftRow DEF IInv, TypeOK
<1>5. seq' \in [quote: Nat, payment: Nat, key: Nat] /\ seq'.key = seq.key
  BY <1>3 DEF IInv, TypeOK
<1> QED BY <1>3, <1>4, <1>5, TablesChange

LEMMA JournalCreateKeeps == ASSUME IInv, JournalCreate PROVE IInv'
<1>1. PICK id \in Nat : id = seq.payment + 1
  BY DEF IInv, TypeOK
<1>2. /\ seq' = [seq EXCEPT !.payment = id] /\ payments' = payments \cup {id}
      /\ UNCHANGED <<quotes, rows, objects, req, condemned, leaked>>
  BY <1>1 DEF JournalCreate
<1>3. /\ quotes \subseteq QuoteRow /\ payments' \subseteq Nat
      /\ seq' \in [quote: Nat, payment: Nat, key: Nat] /\ seq'.key = seq.key
  BY <1>2 DEF IInv, TypeOK
<1> QED BY <1>2, <1>3, TablesChange

\* A payment goes with the rows of its receipts, whose objects are leaked.
LEMMA JournalDeleteKeeps == ASSUME IInv, JournalDelete PROVE IInv'
<1> USE DEF IInv, TypeOK, FilesInv, RequestsInv
<1>1. PICK p \in payments, files \in SUBSET rows :
        /\ payments' = payments \ {p}
        /\ rows' = rows \ files
        /\ leaked' = leaked \cup (Keys(files) \cap objects)
  BY DEF JournalDelete, FilesOf
<1>2. condemned' = condemned \cap rows' /\ UNCHANGED <<quotes, objects, seq, req>>
  BY DEF JournalDelete
<1>3. /\ rows' \subseteq rows
      /\ \A f \in rows \ rows' : f.key \in objects => f.key \in leaked'
      /\ leaked \subseteq leaked' /\ leaked' \subseteq Nat
  BY <1>1 DEF Keys
<1>4. TypeOK'
  BY <1>1, <1>2, <1>3
<1>5. KeysFromSequence'
  BY <1>2, <1>3 DEF KeysFromSequence
<1>6. FilesOutliveRows'
  BY <1>2, <1>3 DEF FilesOutliveRows
<1>7. OrphansHaveCause'
  BY <1>2, <1>3 DEF OrphansHaveCause, Keys, Held
<1>8. Hands' /\ PendingApart' /\ MadeApart' /\ DoomedCondemned'
  BY <1>2, <1>3 DEF Hands, PendingApart, MadeApart, DoomedCondemned
<1>9. Accounted'
  <2>1. SUFFICES ASSUME NEW o \in Req PROVE AccountedOf(req[o])'
    BY DEF Accounted
  <2>2. AccountedOf(req[o]) /\ req'[o] = req[o] /\ objects' = objects
    BY <1>2 DEF Accounted
  <2>3. \A k : Recorded(k) => Recorded(k)'
    BY <1>2, <1>3 DEF Recorded
  <2>4. ASSUME req[o].key \in objects, \E f \in rows : f.key = req[o].key /\ f.owner.table = "payment"
        PROVE  req[o].key \in leaked' \/ \E f \in rows' : f.key = req[o].key /\ f.owner.table = "payment"
    BY <1>3, <2>4
  <2> QED BY <1>3, <2>2, <2>3, <2>4 DEF AccountedOf
<1> QED BY <1>4, <1>5, <1>6, <1>7, <1>8, <1>9

LEMMA CrashKeeps == ASSUME IInv, Crash PROVE IInv'
<1> USE DEF IInv, TypeOK, FilesInv, RequestsInv
<1>1. /\ \A r \in Req : req'[r] = Idle
      /\ req' \in [Req -> Request]
      /\ leaked' = leaked \cup (objects \ Keys(rows))
      /\ UNCHANGED <<quotes, payments, rows, seq, objects, condemned>>
  BY IdleRequest DEF Crash, tables
<1>2. /\ HandsOf(Idle) /\ Pending(Idle) = {} /\ Doomed(Idle) = {} /\ ~Uploading(Idle)
  BY IdleRequest DEF HandsOf, Pending, Doomed, Uploading
<1>3. TypeOK'
  BY <1>1
<1>4. KeysFromSequence'
  BY <1>1, IdleRequest DEF KeysFromSequence
<1>5. FilesOutliveRows' /\ OrphansHaveCause'
  BY <1>1 DEF FilesOutliveRows, OrphansHaveCause, Keys
<1>6. Hands' /\ PendingApart' /\ MadeApart' /\ DoomedCondemned'
  BY <1>1, <1>2, IdleRequest DEF Hands, PendingApart, MadeApart, DoomedCondemned
<1>7. Accounted'
  BY <1>1, <1>2, IdleRequest DEF Accounted, AccountedOf
<1> QED BY <1>3, <1>4, <1>5, <1>6, <1>7

-----------------------------------------------------------------------------
LEMMA StepKeeps == ASSUME IInv, NEW r \in Req, Step(r) PROVE IInv'
<1>1. ReviseRefused(r) => IInv'
  BY ReviseRefusedKeeps DEF ReviseRefused
<1> QED
  BY <1>1, StartQuoteUploadKeeps, StartReceiptUploadKeeps, PutObjectKeeps, InsertRowKeeps,
     UndoObjectKeeps, UndoRowKeeps, StartQuoteDeleteKeeps, ListFilesKeeps, DeleteObjectKeeps,
     DeleteQuoteKeeps, StartReceiptDeleteKeeps, DeleteReceiptObjectKeeps,
     DeleteReceiptRowKeeps, StartReviseKeeps, ReviseInsertKeeps, CopyObjectKeeps,
     ReviseCommitKeeps, UndoCopyKeeps, RequestFailsKeeps
  DEF Step

LEMMA NextKeeps == IInv /\ [Next]_vars => IInv'
<1> SUFFICES ASSUME IInv, [Next]_vars PROVE IInv'
  OBVIOUS
<1>1. CASE UNCHANGED vars
  <2>1. UNCHANGED <<quotes, payments, rows, objects, seq, req, condemned, leaked>>
    BY <1>1 DEF vars
  <2> QED BY <2>1, TablesChange DEF IInv, TypeOK
<1>2. CASE Next
  BY <1>2, StepKeeps, QuoteCreateKeeps, QuoteAcceptKeeps, McpReviseKeeps, JournalCreateKeeps,
     JournalDeleteKeeps, CrashKeeps DEF Next
<1> QED BY <1>1, <1>2

LEMMA Invariance == Spec => []IInv
BY InitIInv, NextKeeps, PTL DEF Spec

\* Every variable stays in its type.
THEOREM TypeCorrect == Spec => []TypeOK
<1>1. IInv => TypeOK
  BY DEF IInv
<1> QED BY <1>1, Invariance, PTL

\* The file of every row can be opened, unless a request began to delete that
\* very row, whatever fails and whenever the process stops.
THEOREM NoDanglingRow == Spec => []FilesOutliveRows
<1>1. IInv => FilesOutliveRows
  BY DEF IInv, FilesInv
<1> QED BY <1>1, Invariance, PTL

\* The handlers forget no object themselves: one that no row names is in the
\* hands of a request, or a failure or a cascade left it behind.
THEOREM NoForgottenObject == Spec => []OrphansHaveCause
<1>1. IInv => OrphansHaveCause
  BY DEF IInv, FilesInv
<1> QED BY <1>1, Invariance, PTL
=============================================================================
