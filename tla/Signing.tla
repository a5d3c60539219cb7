------------------------------ MODULE Signing ------------------------------
(***************************************************************************)
(* Documents that are sent to employees and signed by them:                *)
(* /v1/documents/send, /v1/documents/sign, and what /v1/documents/list,    *)
(* list-all and get-signs answer.                                          *)
(*                                                                         *)
(* A signature is a copy of the document: the Python service stamps it,    *)
(* the signer's link moves from the document to the copy, and the copy     *)
(* names the document as its parent.  No statement shares a transaction    *)
(* with another.                                                           *)
(***************************************************************************)
EXTENDS Naturals, Sequences, FiniteSets

CONSTANTS
  Employees,     \* ids that rows of `employees` may have
  Uploads,       \* ids /v1/documents/upload gave to clients
  Audiences,     \* the lists of employees clients send documents to
  Handlers,      \* handler executions that may be in progress at once
  MaxSigns       \* bound: calls of /v1/documents/sign

ASSUME SigningAssumption ==
  /\ Audiences \subseteq (SUBSET Employees) \ {{}}
  /\ Uploads \cap Nat = {}
  /\ MaxSigns \in Nat

VARIABLES
  employees,          \* ids of the rows of `employees`
  documents,          \* id -> parent_id and sign_required
  employee_document,  \* rows: <<employee, document, signed>>
  bucket,             \* file keys in the bucket
  stamping,           \* posts the Python service works on: <<copy, attempt>>
  handlers,           \* what each handler execution holds in its locals
  signs,              \* signed_file_keys generated so far: 1 .. signs
  signer,             \* history: copy -> who asked for it, of what
  sent,               \* history: <<employee, document>> of answered sends
  dropped             \* history: <<employee, document>> whose link a call that
                      \* failed halfway took away

vars == <<employees, documents, employee_document, bucket, stamping, handlers,
          signs, signer, sent, dropped>>

Attempts == 2   \* .retry(2)
Keys == Uploads \cup 1 .. MaxSigns

Idle == [op |-> "idle"]
Become(h, state) == handlers' = [handlers EXCEPT ![h] = state]

\* The trigger set_parent_id: a row without a parent is its own.
Root(d) == documents[d].parent_id = d

InsertDocument(d, parent, sign_required) ==
  documents' = [x \in DOMAIN documents \cup {d} |->
                  IF x = d THEN [parent_id |-> parent,
                                 sign_required |-> sign_required]
                  ELSE documents[x]]

----------------------------------------------------------------------------
(* /v1/documents/send, to a list of employees that is not empty *)

\* The browser puts a file behind the link /v1/documents/upload gave it, before
\* or after the document is sent, or never.
Upload(d) ==
  /\ d \notin bucket
  /\ bucket' = bucket \cup {d}
  /\ UNCHANGED <<employees, documents, employee_document, stamping, handlers,
                 signs, signer, sent, dropped>>

\* The row, which may name a document as its parent; a second one with the
\* same id is refused.
BeginSend(h, d, parent, sign_required, recipients) ==
  /\ handlers[h] = Idle
  /\ d \notin DOMAIN documents
  /\ InsertDocument(d, parent, sign_required)
  /\ Become(h, [op |-> "send", document |-> d, recipients |-> recipients])
  /\ UNCHANGED <<employees, employee_document, bucket, stamping, signs, signer,
                 sent, dropped>>

\* The links, in one statement that the foreign keys may refuse.  The
\* notifications that follow have one id for all recipients, so only the first
\* is stored; nothing here reads them.
SendLinks(h) ==
  /\ handlers[h].op = "send"
  /\ LET s == handlers[h] IN
       IF s.recipients \subseteq employees
       THEN /\ employee_document' = employee_document \cup
                 {<<e, s.document, FALSE>> : e \in s.recipients}
            /\ sent' = sent \cup s.recipients \X {s.document}
       ELSE UNCHANGED <<employee_document, sent>>
  /\ Become(h, Idle)
  /\ UNCHANGED <<employees, documents, bucket, stamping, signs, signer, dropped>>

----------------------------------------------------------------------------
(* /v1/documents/sign *)

\* The SELECTs of the document and of the employee, and the first post.  Who
\* may sign what is not looked up.
BeginSign(h, e, d) ==
  /\ handlers[h] = Idle
  /\ signs < MaxSigns
  /\ d \in DOMAIN documents
  /\ documents[d].sign_required
  /\ e \in employees
  /\ signs' = signs + 1
  /\ signer' = [k \in DOMAIN signer \cup {signs + 1} |->
                  IF k = signs + 1 THEN [by |-> e, of |-> d] ELSE signer[k]]
  /\ stamping' = stamping \cup {<<signs + 1, 1>>}
  /\ Become(h, [op |-> "stamp", user |-> e, document |-> d,
                copy |-> signs + 1, attempt |-> 1])
  /\ UNCHANGED <<employees, documents, employee_document, bucket, sent, dropped>>

Awaits(h, k, n) ==
  handlers[h].op = "stamp" /\ handlers[h].copy = k /\ handlers[h].attempt = n

\* Mutant: raise_for_status is not called.
Unanswered_Ignored(h, posts) ==
  LET s == handlers[h] IN
    IF s.attempt < Attempts
    THEN /\ Become(h, [s EXCEPT !.attempt = @ + 1])
         /\ stamping' = posts \cup {<<s.copy, s.attempt + 1>>}
    ELSE /\ Become(h, [s EXCEPT !.op = "unlink"])
         /\ stamping' = posts

\* One retry with the same keys, then an exception.
Unanswered(h, posts) ==
  LET s == handlers[h] IN
    IF s.attempt < Attempts
    THEN /\ Become(h, [s EXCEPT !.attempt = @ + 1])
         /\ stamping' = posts \cup {<<s.copy, s.attempt + 1>>}
    ELSE Become(h, Idle) /\ stamping' = posts

TimeOut(h) ==
  /\ handlers[h].op = "stamp"
  /\ Unanswered(h, stamping)
  /\ UNCHANGED <<employees, documents, employee_document, bucket, signs, signer,
                 sent, dropped>>

\* sign_document: download, stamp, upload, answer.
Stamp(k, n) ==
  /\ <<k, n>> \in stamping
  /\ signer[k].of \in bucket
  /\ bucket' = bucket \cup {k}
  /\ stamping' = stamping \ {<<k, n>>}
  /\ IF \E h \in Handlers : Awaits(h, k, n)
     THEN \E h \in Handlers : /\ Awaits(h, k, n)
                              /\ Become(h, [handlers[h] EXCEPT !.op = "unlink"])
     ELSE UNCHANGED handlers
  /\ UNCHANGED <<employees, documents, employee_document, signs, signer, sent, dropped>>

\* sign_document: an exception, as when the file is not there, is a 500.
FailStamp(k, n) ==
  /\ <<k, n>> \in stamping
  /\ IF \E h \in Handlers : Awaits(h, k, n)
     THEN \E h \in Handlers : /\ Awaits(h, k, n)
                              /\ Unanswered(h, stamping \ {<<k, n>>})
     ELSE stamping' = stamping \ {<<k, n>>} /\ UNCHANGED handlers
  /\ UNCHANGED <<employees, documents, employee_document, bucket, signs, signer,
                 sent, dropped>>

\* Mutant: the WHERE names the employee only.
Unlink_AllDocuments(h) ==
  /\ handlers[h].op = "unlink"
  /\ employee_document' =
       {link \in employee_document : link[1] # handlers[h].user}
  /\ Become(h, [handlers[h] EXCEPT !.op = "copy"])
  /\ UNCHANGED <<employees, documents, bucket, stamping, signs, signer, sent, dropped>>

\* DELETE of the signer's link to the document, if there is one.
Unlink(h) ==
  /\ handlers[h].op = "unlink"
  /\ LET s == handlers[h] IN
       employee_document' =
         employee_document \ {<<s.user, s.document, b>> : b \in BOOLEAN}
  /\ Become(h, [handlers[h] EXCEPT !.op = "copy"])
  /\ UNCHANGED <<employees, documents, bucket, stamping, signs, signer, sent, dropped>>

\* Mutant: the copy is inserted as a document of its own.
InsertCopy_Root(h) ==
  /\ handlers[h].op = "copy"
  /\ InsertDocument(handlers[h].copy, handlers[h].copy, TRUE)
  /\ Become(h, [handlers[h] EXCEPT !.op = "link"])
  /\ UNCHANGED <<employees, employee_document, bucket, stamping, signs, signer,
                 sent, dropped>>

InsertCopy(h) ==
  /\ handlers[h].op = "copy"
  /\ InsertDocument(handlers[h].copy, handlers[h].document, TRUE)
  /\ Become(h, [handlers[h] EXCEPT !.op = "link"])
  /\ UNCHANGED <<employees, employee_document, bucket, stamping, signs, signer,
                 sent, dropped>>

\* INSERT of the link to the copy, which the foreign key may refuse.
LinkCopy(h) ==
  /\ handlers[h].op = "link"
  /\ LET s == handlers[h] IN
       employee_document' =
         IF s.user \in employees
         THEN employee_document \cup {<<s.user, s.copy, TRUE>>}
         ELSE employee_document
  /\ Become(h, Idle)
  /\ UNCHANGED <<employees, documents, bucket, stamping, signs, signer, sent, dropped>>

----------------------------------------------------------------------------
\* The link a call took away and has not put back on the copy.
Halfway(h) ==
  IF handlers[h].op \in {"copy", "link"}
  THEN {<<handlers[h].user, handlers[h].document>>} ELSE {}

\* A statement fails: nothing that was done before is undone.
Abort(h) ==
  /\ handlers[h].op \in {"send", "unlink", "copy", "link"}
  /\ dropped' = dropped \cup Halfway(h)
  /\ Become(h, Idle)
  /\ UNCHANGED <<employees, documents, employee_document, bucket, stamping,
                 signs, signer, sent>>

Restart ==
  /\ handlers' = [h \in Handlers |-> Idle]
  /\ dropped' = dropped \cup UNION {Halfway(h) : h \in Handlers}
  /\ UNCHANGED <<employees, documents, employee_document, bucket, stamping,
                 signs, signer, sent>>

\* Mutant: the links do not cascade.
RemoveEmployee_KeepsLinks(e) ==
  /\ e \in employees
  /\ employees' = employees \ {e}
  /\ UNCHANGED <<employee_document, documents, bucket, stamping, handlers, signs,
                 signer, sent, dropped>>

\* /v1/employee/remove: the links cascade, the documents stay.  Nobody is hired
\* here, so the login does not come back.
RemoveEmployee(e) ==
  /\ e \in employees
  /\ employees' = employees \ {e}
  /\ employee_document' = {link \in employee_document : link[1] # e}
  /\ UNCHANGED <<documents, bucket, stamping, handlers, signs, signer, sent, dropped>>

Init ==
  /\ employees = Employees
  /\ documents = [d \in {} |-> {}]
  /\ employee_document = {}
  /\ bucket = {}
  /\ stamping = {}
  /\ handlers = [h \in Handlers |-> Idle]
  /\ signs = 0
  /\ signer = <<>>
  /\ sent = {}
  /\ dropped = {}

Next ==
  \/ \E d \in Uploads : Upload(d)
  \/ \E h \in Handlers, d \in Uploads, required \in BOOLEAN,
        recipients \in Audiences :
       \E parent \in {d} \cup DOMAIN documents :
         BeginSend(h, d, parent, required, recipients)
  \/ \E h \in Handlers, e \in Employees, d \in DOMAIN documents : BeginSign(h, e, d)
  \/ \E h \in Handlers :
       \/ SendLinks(h)
       \/ TimeOut(h) \/ Unlink(h) \/ InsertCopy(h) \/ LinkCopy(h)
       \/ Abort(h)
  \/ \E k \in 1 .. signs, n \in 1 .. Attempts : Stamp(k, n) \/ FailStamp(k, n)
  \/ \E e \in Employees : RemoveEmployee(e)
  \/ Restart

Spec == Init /\ [][Next]_vars

----------------------------------------------------------------------------
(* What the documents' readers answer, each from one statement *)

\* /v1/documents/list: the documents an employee has links to.
DocumentsList(e) == {<<link[2], link[3]>> : link \in {l \in employee_document : l[1] = e}}

\* /v1/documents/list-all: the documents that are their own parent.
DocumentsListAll == {d \in DOMAIN documents : Root(d)}

\* /v1/documents/get-signs: employee and whether the link is signed, for every
\* link to the document or a copy of it.
GetSigns(d) ==
  {<<link[1], link[3]>> :
     link \in {l \in employee_document : documents[l[2]].parent_id = d}}

----------------------------------------------------------------------------
(* Properties *)

\* Rows and locals are well-formed, and the foreign keys hold.
TypeOK ==
  /\ employees \subseteq Employees
  /\ DOMAIN documents \subseteq Keys
  /\ \A d \in DOMAIN documents : documents[d].parent_id \in DOMAIN documents
  /\ employee_document \subseteq employees \X (DOMAIN documents) \X BOOLEAN
  /\ bucket \subseteq Keys
  /\ stamping \subseteq (1 .. signs) \X (1 .. Attempts)
  /\ signs \in 0 .. MaxSigns /\ DOMAIN signer = 1 .. signs

\* Whoever is listed as a signer asked for that very copy, and the stamped
\* file is in the bucket: a post that failed or timed out leaves no signature.
SignaturesAreReal ==
  \A e \in employees, d \in DOMAIN documents :
    <<e, d, TRUE>> \in employee_document =>
      /\ d \in 1 .. signs
      /\ signer[d].by = e
      /\ documents[d].parent_id = signer[d].of
      /\ d \in bucket

\* The calls of e for a document that stand between its two links.
Signs(e, d) ==
  \E h \in Handlers : <<e, d>> \in Halfway(h)

\* e asked at some time to sign a copy of d, one they made or one they were sent,
\* as if it were a document of its own.
SignsCopy(e, d) ==
  \E k \in DOMAIN signer :
    /\ signer[k].by = e
    /\ ~Root(signer[k].of)
    /\ documents[signer[k].of].parent_id = d

\* Everyone a document of its own was sent to stays among its signs, signed or
\* not, except while they sign it.  Left out are employees of whom a call for
\* this document failed halfway, and all who ever asked to sign a copy of it,
\* whether or not that call came to move their link.
RecipientsAreTracked ==
  \A e \in employees, d \in DocumentsListAll :
    <<e, d>> \in sent \ dropped /\ ~Signs(e, d) /\ ~SignsCopy(e, d) =>
      \E signed \in BOOLEAN : <<e, signed>> \in GetSigns(d)

\* The upload a document is, or is a signed copy of, or a copy of a copy.
Original[d \in Uploads \cup 1 .. signs] ==
  IF d \in Uploads THEN d ELSE Original[signer[d].of]

\* What was sent to an employee stays in their list, as it is or as a copy they
\* signed, whatever they and others sign, unless a call of theirs stands, or
\* failed, between the two links.
ReceivedStays ==
  \A e \in employees, d \in DOMAIN documents :
    LET torn == {pair \in dropped \cup UNION {Halfway(h) : h \in Handlers} :
                   pair[1] = e /\ Original[pair[2]] = d}
    IN  <<e, d>> \in sent /\ torn = {} =>
          \E row \in DocumentsList(e) : Original[row[1]] = d

\* Who signed a document stays a signer of it, whatever fails and whoever else
\* signs, unless they sign the copy itself.
SignaturesStay ==
  [][\A d \in DOMAIN documents, e \in employees' :
       <<e, TRUE>> \in GetSigns(d) /\ ~SignsCopy(e, d) =>
         <<e, TRUE>> \in GetSigns(d)']_vars

=============================================================================
