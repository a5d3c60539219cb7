--------------------------- MODULE SigningProofs ---------------------------
(***************************************************************************)
(* For every set of employees, uploads and handlers and every number of    *)
(* signatures: the properties of Signing.                                  *)
(*                                                                         *)
(* Signatures are real: a row of employee_document says little by itself;  *)
(* IInv follows the copy through the call that makes it: in the bucket     *)
(* once the stamp was answered, a row once it was inserted, and always of  *)
(* the document and the employee that call was about.                      *)
(*                                                                         *)
(* Nothing is lost: the next three theorems rest on what one step may do   *)
(* to the past, Traces.  A link goes only with its employee or when its    *)
(* call is about to link the copy, and what stands between the two links   *)
(* ends as the link to the copy or in `dropped`.  TracksInv carries the    *)
(* properties along those facts.  What a copy is originally a copy of is a *)
(* recursion over the calls of sign, each about an older document; a least *)
(* number where it would fail shows it defined, and kept by every step.    *)
(*                                                                         *)
(* Signing implements SignatureLifecycle: CallsWork says that a copy has   *)
(* one call, and no row or link before that call is so far.                *)
(***************************************************************************)
EXTENDS SignatureRefinement, FiniteSetTheorems, WellFoundedInduction, TLAPS

SignOps == {"stamp", "unlink", "copy", "link"}

\* What a call of send holds between its two statements.
SendLocals(s) ==
  /\ s.op = "send"
  /\ s.document \in Uploads \cap DOMAIN documents
  /\ s.recipients \subseteq Employees

\* What a call of sign holds, from its first post to its last statement.
SignLocals(s) ==
  /\ s.op \in SignOps
  /\ s.user \in Employees
  /\ s.document \in DOMAIN documents
  /\ s.copy \in 1 .. signs
  /\ signer[s.copy] = [by |-> s.user, of |-> s.document]
  /\ s.op = "stamp" => s.attempt \in 1 .. Attempts
  /\ s.op # "stamp" => s.copy \in bucket
  /\ s.op = "link" => s.copy \in DOMAIN documents

Locals(s) == s = Idle \/ SendLocals(s) \/ SignLocals(s)

HandlersHold ==
  /\ handlers = [h \in Handlers |-> handlers[h]]
  /\ \A h \in Handlers : Locals(handlers[h])

\* A document that is not an upload is the copy a call of sign made.
CopiesAreAskedFor ==
  \A d \in DOMAIN documents :
    d \in Uploads \/ (d \in 1 .. signs /\ documents[d].parent_id = signer[d].of)

IInv ==
  /\ TypeOK
  /\ HandlersHold
  /\ CopiesAreAskedFor
  /\ SignaturesAreReal

----------------------------------------------------------------------------
(* Handler executions *)

\* What a handler execution holds is told by its op.
LEMMA LocalsCases ==
  ASSUME IInv, NEW h \in Handlers
  PROVE  /\ handlers[h].op = "send" => SendLocals(handlers[h])
         /\ handlers[h].op \in SignOps => SignLocals(handlers[h])
<1>1. Locals(handlers[h])
  BY DEF IInv, HandlersHold
<1> QED
  BY <1>1 DEF Locals, SendLocals, SignLocals, SignOps, Idle

\* Init => IInv
LEMMA InitIInv == Init => IInv
<1> SUFFICES ASSUME Init PROVE IInv
  OBVIOUS
<1>1. TypeOK
  BY SigningAssumption DEF Init, TypeOK, Keys
<1>2. HandlersHold
  BY DEF Init, HandlersHold, Locals
<1>3. CopiesAreAskedFor /\ SignaturesAreReal
  BY DEF Init, CopiesAreAskedFor, SignaturesAreReal
<1> QED
  BY <1>1, <1>2, <1>3 DEF IInv

----------------------------------------------------------------------------
(* Steps that leave the tables of documents as they are *)

\* The tables, and the copies asked for.
Rest == <<employees, documents, employee_document, signs, signer, sent>>

\* Files come into the bucket, posts come and go, and a call waits on, gives
\* up, or goes on when its copy is there.
LEMMA FilesStep ==
  ASSUME IInv, UNCHANGED Rest,
         bucket \subseteq bucket', bucket' \subseteq Keys,
         stamping' \subseteq (1 .. signs) \X (1 .. Attempts),
         handlers' = [h \in Handlers |-> handlers'[h]],
         \A h \in Handlers :
           \/ handlers'[h] \in {handlers[h], Idle}
           \/ /\ handlers[h].op \in SignOps
              /\ SignLocals(handlers[h])'
  PROVE  IInv'
<1>1. TypeOK'
  BY DEF IInv, TypeOK, Rest
<1>2. HandlersHold'
  <2> SUFFICES ASSUME NEW h \in Handlers PROVE Locals(handlers[h])'
    BY DEF HandlersHold
  <2>1. CASE handlers'[h] = handlers[h]
    <3>1. Locals(handlers[h])
      BY DEF IInv, HandlersHold
    <3> QED
      BY <2>1, <3>1 DEF Locals, SendLocals, SignLocals, Rest
  <2>2. CASE handlers'[h] = Idle
    BY <2>2 DEF Locals
  <2>3. CASE SignLocals(handlers[h])'
    BY <2>3 DEF Locals
  <2> QED
    BY <2>1, <2>2, <2>3
<1>3. CopiesAreAskedFor' /\ SignaturesAreReal'
  BY DEF IInv, CopiesAreAskedFor, SignaturesAreReal, Rest
<1> QED
  BY <1>1, <1>2, <1>3 DEF IInv

\* A file of a client.
LEMMA UploadStep ==
  ASSUME IInv, NEW d \in Uploads, Upload(d)
  PROVE  IInv'
BY FilesStep DEF Upload, Rest, IInv, TypeOK, HandlersHold, Keys

\* A post without an answer: the next attempt, or the end of the call.
LEMMA UnansweredStep ==
  ASSUME IInv, NEW h \in Handlers, handlers[h].op = "stamp",
         NEW posts \in SUBSET stamping, Unanswered(h, posts),
         UNCHANGED Rest, UNCHANGED bucket
  PROVE  IInv'
<1> DEFINE s == handlers[h]
           next == [s EXCEPT !.attempt = @ + 1]
<1>1. SignLocals(s)
  BY LocalsCases DEF SignOps
<1>2. posts \subseteq (1 .. signs) \X (1 .. Attempts)
  BY DEF IInv, TypeOK
<1>3. bucket' \subseteq Keys
  BY DEF IInv, TypeOK
<1>4. CASE s.attempt < Attempts
  <2>1. Become(h, next) /\ stamping' = posts \cup {<<s.copy, s.attempt + 1>>}
    BY <1>4 DEF Unanswered
  <2>2. s.copy \in 1 .. signs /\ s.attempt + 1 \in 1 .. Attempts
    BY <1>1, <1>4 DEF SignLocals, Attempts
  <2>3. /\ next.op = s.op /\ next.user = s.user /\ next.document = s.document
        /\ next.copy = s.copy
        /\ s.attempt \in 1 .. Attempts => next.attempt \in {s.attempt, s.attempt + 1}
    OBVIOUS
  <2>4. next.attempt \in 1 .. Attempts
    BY <1>1, <2>2, <2>3 DEF SignLocals, Attempts
  <2>5. SignLocals(next)
    BY <1>1, <2>3, <2>4 DEF SignLocals
  <2>6. /\ handlers' = [g \in Handlers |-> handlers'[g]]
        /\ handlers'[h] = next
        /\ \A g \in Handlers : g # h => handlers'[g] = handlers[g]
    BY <2>1 DEF IInv, HandlersHold, Become
  <2>7. SignLocals(handlers[h])'
    BY <2>5, <2>6 DEF SignLocals, Rest
  <2> QED
    BY <1>2, <1>3, <2>1, <2>2, <2>6, <2>7, FilesStep DEF SignOps
<1>5. CASE ~(s.attempt < Attempts)
  <2>1. Become(h, Idle) /\ stamping' = posts
    BY <1>5 DEF Unanswered
  <2>2. /\ handlers' = [g \in Handlers |-> handlers'[g]]
        /\ handlers'[h] = Idle
        /\ \A g \in Handlers : g # h => handlers'[g] = handlers[g]
    BY <2>1 DEF IInv, HandlersHold, Become
  <2> QED
    BY <1>2, <1>3, <2>1, <2>2, FilesStep
<1> QED
  BY <1>4, <1>5

\* A stamp, of which a waiting call learns.
LEMMA StampStep ==
  ASSUME IInv, NEW k, NEW n, Stamp(k, n)
  PROVE  IInv'
<1>1. /\ <<k, n>> \in stamping
      /\ bucket' = bucket \cup {k}
      /\ stamping' = stamping \ {<<k, n>>}
      /\ UNCHANGED Rest
  BY DEF Stamp, Rest
<1>2. k \in 1 .. signs /\ signs \in Nat
  BY <1>1 DEF IInv, TypeOK
<1>3. bucket' \subseteq Keys /\ stamping' \subseteq (1 .. signs) \X (1 .. Attempts)
  BY <1>1, <1>2, SigningAssumption DEF IInv, TypeOK, Keys
<1>4. CASE UNCHANGED handlers
  BY <1>1, <1>3, <1>4, FilesStep DEF IInv, HandlersHold
<1>5. ASSUME NEW h \in Handlers, Awaits(h, k, n),
             Become(h, [handlers[h] EXCEPT !.op = "unlink"])
      PROVE  IInv'
  <2> DEFINE s == handlers[h]
             next == [s EXCEPT !.op = "unlink"]
  <2>1. SignLocals(s) /\ s.copy = k /\ s.op = "stamp"
    BY <1>5, LocalsCases DEF Awaits, SignOps
  <2>2. /\ next.user = s.user /\ next.document = s.document
        /\ next.copy = s.copy
    OBVIOUS
  <2>3. next.op = "unlink"
    BY <1>5, <2>1 DEF SignLocals, IInv, HandlersHold, Locals, SendLocals, Idle
  <2>4. /\ handlers' = [g \in Handlers |-> handlers'[g]]
        /\ handlers'[h] = next
        /\ \A g \in Handlers : g # h => handlers'[g] = handlers[g]
    BY <1>5 DEF IInv, HandlersHold, Become
  <2>5. SignLocals(handlers[h])'
    BY <1>1, <2>1, <2>2, <2>3, <2>4 DEF SignLocals, SignOps, Rest
  <2> QED
    BY <1>1, <1>3, <2>1, <2>4, <2>5, FilesStep DEF SignOps
<1> QED
  BY <1>4, <1>5 DEF Stamp

\* A failure of the service, of which a waiting call learns.
LEMMA FailStampStep ==
  ASSUME IInv, NEW k, NEW n, FailStamp(k, n)
  PROVE  IInv'
<1>1. UNCHANGED Rest /\ UNCHANGED bucket
  BY DEF FailStamp, Rest
<1>2. ASSUME NEW h \in Handlers, Awaits(h, k, n),
             Unanswered(h, stamping \ {<<k, n>>})
      PROVE  IInv'
  BY <1>1, <1>2, UnansweredStep DEF Awaits
<1>3. CASE stamping' = stamping \ {<<k, n>>} /\ UNCHANGED handlers
  <2>1. stamping' \subseteq (1 .. signs) \X (1 .. Attempts)
    BY <1>3 DEF IInv, TypeOK
  <2>2. bucket' \subseteq Keys
    BY <1>1 DEF IInv, TypeOK
  <2> QED
    BY <1>1, <1>3, <2>1, <2>2, FilesStep DEF IInv, HandlersHold
<1> QED
  BY <1>2, <1>3 DEF FailStamp

\* Handler executions that end leave everything as it is.
LEMMA LeavingStep ==
  ASSUME IInv, UNCHANGED Rest, UNCHANGED <<bucket, stamping>>,
         handlers' = [h \in Handlers |-> handlers'[h]],
         \A h \in Handlers : handlers'[h] \in {handlers[h], Idle}
  PROVE  IInv'
<1>1. bucket' \subseteq Keys /\ stamping' \subseteq (1 .. signs) \X (1 .. Attempts)
  BY DEF IInv, TypeOK
<1> QED
  BY <1>1, FilesStep

----------------------------------------------------------------------------
(* Steps that write rows *)

\* A new document, of a client.
LEMMA BeginSendStep ==
  ASSUME IInv, NEW h \in Handlers, NEW d \in Uploads, NEW required \in BOOLEAN,
         NEW recipients \in Audiences, NEW parent \in {d} \cup DOMAIN documents,
         BeginSend(h, d, parent, required, recipients)
  PROVE  IInv'
<1> DEFINE s == [op |-> "send", document |-> d, recipients |-> recipients]
<1>1. /\ d \notin DOMAIN documents
      /\ Become(h, s)
      /\ DOMAIN documents' = DOMAIN documents \cup {d}
      /\ documents'[d].parent_id = parent
      /\ \A x \in DOMAIN documents : documents'[x] = documents[x]
      /\ UNCHANGED <<employees, employee_document, bucket, stamping, signs, signer>>
  BY DEF BeginSend, InsertDocument
<1>2. /\ handlers' = [g \in Handlers |-> handlers'[g]]
      /\ handlers'[h] = s
      /\ \A g \in Handlers : g # h => handlers'[g] = handlers[g]
  BY <1>1 DEF IInv, HandlersHold, Become
<1>3. TypeOK'
  BY <1>1 DEF IInv, TypeOK, Keys
<1>4. HandlersHold'
  <2>1. Locals(handlers[h])'
    BY <1>1, <1>2, SigningAssumption DEF Locals, SendLocals
  <2>2. ASSUME NEW g \in Handlers, g # h PROVE Locals(handlers[g])'
    BY <1>1, <1>2, <2>2 DEF IInv, HandlersHold, Locals, SendLocals, SignLocals
  <2> QED
    BY <1>2, <2>1, <2>2 DEF HandlersHold
<1>5. CopiesAreAskedFor'
  BY <1>1 DEF IInv, CopiesAreAskedFor
<1>6. SignaturesAreReal'
  BY <1>1 DEF IInv, SignaturesAreReal, TypeOK
<1> QED
  BY <1>3, <1>4, <1>5, <1>6 DEF IInv

\* The links of a document that is sent are not signed.
LEMMA SendLinksStep ==
  ASSUME IInv, NEW h \in Handlers, SendLinks(h)
  PROVE  IInv'
<1> DEFINE s == handlers[h]
<1>1. /\ SendLocals(s)
      /\ Become(h, Idle)
      /\ UNCHANGED <<employees, documents, bucket, stamping, signs, signer>>
      /\ \/ UNCHANGED employee_document
         \/ /\ s.recipients \subseteq employees
            /\ employee_document' = employee_document \cup
                 {<<e, s.document, FALSE>> : e \in s.recipients}
  BY LocalsCases DEF SendLinks
<1>2. /\ handlers' = [g \in Handlers |-> handlers'[g]]
      /\ handlers'[h] = Idle
      /\ \A g \in Handlers : g # h => handlers'[g] = handlers[g]
  BY <1>1 DEF IInv, HandlersHold, Become
<1>3. TypeOK'
  <2>1. employee_document' \subseteq employees \X (DOMAIN documents) \X BOOLEAN
    <3> SUFFICES ASSUME NEW link \in employee_document'
                 PROVE  link \in employees \X (DOMAIN documents) \X BOOLEAN
      OBVIOUS
    <3>1. CASE link \in employee_document
      BY <3>1 DEF IInv, TypeOK
    <3>2. CASE link \notin employee_document
      <4>1. PICK e \in s.recipients : link = <<e, s.document, FALSE>>
        BY <1>1, <3>2
      <4>2. e \in employees /\ s.document \in DOMAIN documents
        BY <1>1, <3>2 DEF SendLocals
      <4> QED
        BY <4>1, <4>2
    <3> QED
      BY <3>1, <3>2
  <2> QED
    BY <1>1, <2>1 DEF IInv, TypeOK
<1>4. HandlersHold'
  BY <1>1, <1>2 DEF IInv, HandlersHold, Locals, SendLocals, SignLocals
<1>5. CopiesAreAskedFor' /\ SignaturesAreReal'
  BY <1>1 DEF IInv, CopiesAreAskedFor, SignaturesAreReal
<1> QED
  BY <1>3, <1>4, <1>5 DEF IInv

\* A call of sign gets a key of its own for the copy.
LEMMA BeginSignStep ==
  ASSUME IInv, NEW h \in Handlers, NEW e \in Employees, NEW d \in DOMAIN documents,
         BeginSign(h, e, d)
  PROVE  IInv'
<1> DEFINE s == [op |-> "stamp", user |-> e, document |-> d,
                 copy |-> signs + 1, attempt |-> 1]
<1>1. /\ signs < MaxSigns /\ signs' = signs + 1 /\ signs \in Nat
      /\ DOMAIN signer = 1 .. signs
      /\ signer' = [k \in DOMAIN signer \cup {signs + 1} |->
                      IF k = signs + 1 THEN [by |-> e, of |-> d] ELSE signer[k]]
      /\ stamping' = stamping \cup {<<signs + 1, 1>>}
      /\ Become(h, s)
      /\ UNCHANGED <<employees, documents, employee_document, bucket>>
  BY SigningAssumption DEF BeginSign, IInv, TypeOK
<1>2. /\ DOMAIN signer' = 1 .. signs'
      /\ signer'[signs'] = [by |-> e, of |-> d]
      /\ \A k \in 1 .. signs : k \in 1 .. signs' /\ signer'[k] = signer[k]
  BY <1>1
<1>3. /\ handlers' = [g \in Handlers |-> handlers'[g]]
      /\ handlers'[h] = s
      /\ \A g \in Handlers : g # h => handlers'[g] = handlers[g]
  BY <1>1 DEF IInv, HandlersHold, Become
<1>4. TypeOK'
  <2>1. stamping' \subseteq (1 .. signs') \X (1 .. Attempts)
    <3> SUFFICES ASSUME NEW post \in stamping'
                 PROVE  post \in (1 .. signs') \X (1 .. Attempts)
      OBVIOUS
    <3>1. CASE post \in stamping
      <4>1. PICK k \in 1 .. signs, n \in 1 .. Attempts : post = <<k, n>>
        BY <3>1 DEF IInv, TypeOK
      <4>2. k \in 1 .. signs'
        BY <1>1
      <4> QED
        BY <4>1, <4>2
    <3>2. CASE post = <<signs + 1, 1>>
      BY <1>1, <3>2 DEF Attempts
    <3> QED
      BY <1>1, <3>1, <3>2
  <2>2. signs' \in 0 .. MaxSigns
    BY <1>1, SigningAssumption
  <2> QED
    BY <1>1, <1>2, <2>1, <2>2 DEF IInv, TypeOK
<1>5. HandlersHold'
  <2>1. Locals(handlers[h])'
    BY <1>1, <1>2, <1>3 DEF Locals, SignLocals, SignOps, Attempts
  <2>2. ASSUME NEW g \in Handlers, g # h PROVE Locals(handlers[g])'
    BY <1>1, <1>2, <1>3, <2>2 DEF IInv, HandlersHold, Locals, SendLocals, SignLocals
  <2> QED
    BY <1>3, <2>1, <2>2 DEF HandlersHold
<1>6. CopiesAreAskedFor'
  BY <1>1, <1>2 DEF IInv, CopiesAreAskedFor
<1>7. SignaturesAreReal'
  <2> SUFFICES ASSUME NEW x \in employees, NEW y \in DOMAIN documents,
                      <<x, y, TRUE>> \in employee_document
               PROVE  /\ y \in 1 .. signs'
                      /\ signer'[y].by = x
                      /\ documents[y].parent_id = signer'[y].of
                      /\ y \in bucket
    BY <1>1 DEF SignaturesAreReal
  <2>1. /\ y \in 1 .. signs
        /\ signer[y].by = x
        /\ documents[y].parent_id = signer[y].of
        /\ y \in bucket
    BY DEF IInv, SignaturesAreReal
  <2> QED
    BY <1>2, <2>1
<1> QED
  BY <1>4, <1>5, <1>6, <1>7 DEF IInv

\* Fewer links and employees, and calls that go on or end.
LEMMA FewerLinksStep ==
  ASSUME IInv, employees' \subseteq employees,
         employee_document' \subseteq employee_document,
         employee_document' \subseteq employees' \X (DOMAIN documents) \X BOOLEAN,
         UNCHANGED <<documents, bucket, stamping, signs, signer>>,
         HandlersHold'
  PROVE  IInv'
<1>1. TypeOK'
  BY DEF IInv, TypeOK
<1>2. CopiesAreAskedFor' /\ SignaturesAreReal'
  BY DEF IInv, CopiesAreAskedFor, SignaturesAreReal
<1> QED
  BY <1>1, <1>2 DEF IInv

\* The link to the document goes.
LEMMA UnlinkStep ==
  ASSUME IInv, NEW h \in Handlers, Unlink(h)
  PROVE  IInv'
<1> DEFINE s == handlers[h]
           next == [s EXCEPT !.op = "copy"]
<1>1. /\ SignLocals(s) /\ s.op = "unlink"
      /\ Become(h, next)
      /\ employee_document' \subseteq employee_document
      /\ UNCHANGED <<employees, documents, bucket, stamping, signs, signer>>
  BY LocalsCases DEF Unlink, SignOps
<1>2. next.user = s.user /\ next.document = s.document /\ next.copy = s.copy
  OBVIOUS
<1>3. /\ handlers' = [g \in Handlers |-> handlers'[g]]
      /\ handlers'[h] = next
      /\ \A g \in Handlers : g # h => handlers'[g] = handlers[g]
  BY <1>1 DEF IInv, HandlersHold, Become
<1>4. HandlersHold'
  <2>1. Locals(handlers[h])'
    BY <1>1, <1>2, <1>3 DEF Locals, SignLocals, SignOps
  <2>2. ASSUME NEW g \in Handlers, g # h PROVE Locals(handlers[g])'
    BY <1>1, <1>3, <2>2 DEF IInv, HandlersHold, Locals, SendLocals, SignLocals
  <2> QED
    BY <1>3, <2>1, <2>2 DEF HandlersHold
<1>5. employee_document' \subseteq employees' \X (DOMAIN documents) \X BOOLEAN
  BY <1>1 DEF IInv, TypeOK
<1> QED
  BY <1>1, <1>4, <1>5, FewerLinksStep

\* The copy is a document, with the parent its key was made for.
LEMMA InsertCopyStep ==
  ASSUME IInv, NEW h \in Handlers, InsertCopy(h)
  PROVE  IInv'
<1> DEFINE s == handlers[h]
           next == [s EXCEPT !.op = "link"]
<1>1. /\ SignLocals(s) /\ s.op = "copy"
      /\ Become(h, next)
      /\ DOMAIN documents' = DOMAIN documents \cup {s.copy}
      /\ documents'[s.copy].parent_id = s.document
      /\ \A x \in DOMAIN documents : x # s.copy => documents'[x] = documents[x]
      /\ UNCHANGED <<employees, employee_document, bucket, stamping, signs, signer>>
  BY LocalsCases DEF InsertCopy, InsertDocument, SignOps
<1>2. /\ s.copy \in 1 .. signs /\ s.document \in DOMAIN documents
      /\ signer[s.copy].of = s.document
      /\ s.copy \in bucket
  BY <1>1 DEF SignLocals
<1>3. next.user = s.user /\ next.document = s.document /\ next.copy = s.copy
  OBVIOUS
<1>4. /\ handlers' = [g \in Handlers |-> handlers'[g]]
      /\ handlers'[h] = next
      /\ \A g \in Handlers : g # h => handlers'[g] = handlers[g]
  BY <1>1 DEF IInv, HandlersHold, Become
<1>5. s.copy \in Keys
  BY <1>2, SigningAssumption DEF IInv, TypeOK, Keys
<1>6. TypeOK'
  <2>1. \A x \in DOMAIN documents' : documents'[x].parent_id \in DOMAIN documents'
    BY <1>1, <1>2 DEF IInv, TypeOK
  <2>2. DOMAIN documents' \subseteq Keys
    BY <1>1, <1>5 DEF IInv, TypeOK
  <2> QED
    BY <1>1, <2>1, <2>2 DEF IInv, TypeOK
<1>7. HandlersHold'
  <2>1. Locals(handlers[h])'
    BY <1>1, <1>2, <1>3, <1>4 DEF Locals, SignLocals, SignOps
  <2>2. ASSUME NEW g \in Handlers, g # h PROVE Locals(handlers[g])'
    BY <1>1, <1>4, <2>2 DEF IInv, HandlersHold, Locals, SendLocals, SignLocals
  <2> QED
    BY <1>4, <2>1, <2>2 DEF HandlersHold
<1>8. CopiesAreAskedFor'
  BY <1>1, <1>2 DEF IInv, CopiesAreAskedFor
<1>9. SignaturesAreReal'
  BY <1>1, <1>2 DEF IInv, SignaturesAreReal, TypeOK
<1> QED
  BY <1>6, <1>7, <1>8, <1>9 DEF IInv

\* The signed link is to the copy the call asked for, which is in the bucket.
LEMMA LinkCopyStep ==
  ASSUME IInv, NEW h \in Handlers, LinkCopy(h)
  PROVE  IInv'
<1> DEFINE s == handlers[h]
<1>1. /\ SignLocals(s) /\ s.op = "link"
      /\ Become(h, Idle)
      /\ \/ UNCHANGED employee_document
         \/ /\ s.user \in employees
            /\ employee_document' = employee_document \cup {<<s.user, s.copy, TRUE>>}
      /\ UNCHANGED <<employees, documents, bucket, stamping, signs, signer>>
  BY LocalsCases DEF LinkCopy, SignOps
<1>2. /\ s.copy \in 1 .. signs /\ s.copy \in DOMAIN documents /\ s.copy \in bucket
      /\ signer[s.copy].by = s.user
  BY <1>1 DEF SignLocals
<1>3. /\ handlers' = [g \in Handlers |-> handlers'[g]]
      /\ handlers'[h] = Idle
      /\ \A g \in Handlers : g # h => handlers'[g] = handlers[g]
  BY <1>1 DEF IInv, HandlersHold, Become
<1>4. documents[s.copy].parent_id = signer[s.copy].of
  BY <1>2, SigningAssumption DEF IInv, TypeOK, CopiesAreAskedFor
<1>5. TypeOK'
  <2>1. s.user \in employees =>
          <<s.user, s.copy, TRUE>> \in employees \X (DOMAIN documents) \X BOOLEAN
    BY <1>2
  <2>2. employee_document' \subseteq employees \X (DOMAIN documents) \X BOOLEAN
    BY <1>1, <2>1 DEF IInv, TypeOK
  <2> QED
    BY <1>1, <2>2 DEF IInv, TypeOK
<1>6. HandlersHold'
  BY <1>1, <1>3 DEF IInv, HandlersHold, Locals, SendLocals, SignLocals
<1>7. CopiesAreAskedFor'
  BY <1>1 DEF IInv, CopiesAreAskedFor
<1>8. SignaturesAreReal'
  <2>1. ASSUME NEW e \in employees, NEW d \in DOMAIN documents,
               <<e, d, TRUE>> \in employee_document'
        PROVE  /\ d \in 1 .. signs
               /\ signer[d].by = e
               /\ documents[d].parent_id = signer[d].of
               /\ d \in bucket
    <3>1. CASE <<e, d, TRUE>> \in employee_document
      BY <3>1 DEF IInv, SignaturesAreReal
    <3>2. CASE <<e, d, TRUE>> \notin employee_document
      <4>1. \/ employee_document' = employee_document
            \/ employee_document' = employee_document \cup {<<s.user, s.copy, TRUE>>}
        BY <1>1
      <4>2. <<e, d, TRUE>> = <<s.user, s.copy, TRUE>>
        BY <2>1, <3>2, <4>1
      <4> QED
        BY <1>2, <1>4, <4>2
    <3> QED
      BY <3>1, <3>2
  <2> QED
    BY <1>1, <2>1 DEF SignaturesAreReal
<1> QED
  BY <1>5, <1>6, <1>7, <1>8 DEF IInv

\* The links of an employee who is removed go with the row.
LEMMA RemoveEmployeeStep ==
  ASSUME IInv, NEW e \in Employees, RemoveEmployee(e)
  PROVE  IInv'
<1>1. /\ employees' = employees \ {e}
      /\ employee_document' = {link \in employee_document : link[1] # e}
      /\ UNCHANGED <<documents, bucket, stamping, handlers, signs, signer>>
  BY DEF RemoveEmployee
<1>2. HandlersHold'
  BY <1>1 DEF IInv, HandlersHold, Locals, SendLocals, SignLocals
<1>3. employee_document' \subseteq employees' \X (DOMAIN documents) \X BOOLEAN
  <2> SUFFICES ASSUME NEW link \in employee_document, link[1] # e
               PROVE  link \in employees' \X (DOMAIN documents) \X BOOLEAN
    BY <1>1
  <2>1. link \in employees \X (DOMAIN documents) \X BOOLEAN
    BY DEF IInv, TypeOK
  <2>2. PICK x \in employees, d \in DOMAIN documents, signed \in BOOLEAN :
          link = <<x, d, signed>>
    BY <2>1
  <2>3. x \in employees'
    BY <1>1, <2>2
  <2> QED
    BY <2>2, <2>3
<1> QED
  BY <1>1, <1>2, <1>3, FewerLinksStep

----------------------------------------------------------------------------
(* Every step *)

\* IInv /\ [Next]_vars => IInv'
LEMMA NextIInv == IInv /\ [Next]_vars => IInv'
<1> SUFFICES ASSUME IInv, [Next]_vars PROVE IInv'
  OBVIOUS
<1>1. CASE \E d \in Uploads : Upload(d)
  BY <1>1, UploadStep
<1>2. CASE \E h \in Handlers, d \in Uploads, required \in BOOLEAN,
              recipients \in Audiences : \E parent \in {d} \cup DOMAIN documents :
             BeginSend(h, d, parent, required, recipients)
  BY <1>2, BeginSendStep
<1>3. CASE \E h \in Handlers, e \in Employees, d \in DOMAIN documents : BeginSign(h, e, d)
  BY <1>3, BeginSignStep
<1>4. ASSUME NEW h \in Handlers, SendLinks(h) \/ Unlink(h) \/ InsertCopy(h) \/ LinkCopy(h)
      PROVE  IInv'
  BY <1>4, SendLinksStep, UnlinkStep, InsertCopyStep, LinkCopyStep
<1>5. ASSUME NEW h \in Handlers, TimeOut(h)
      PROVE  IInv'
  BY <1>5, UnansweredStep DEF TimeOut, Rest
<1>6. ASSUME NEW h \in Handlers, Abort(h)
      PROVE  IInv'
  <2>1. Become(h, Idle) /\ UNCHANGED Rest /\ UNCHANGED <<bucket, stamping>>
    BY <1>6 DEF Abort, Rest
  <2>2. /\ handlers' = [g \in Handlers |-> handlers'[g]]
        /\ \A g \in Handlers : handlers'[g] \in {handlers[g], Idle}
    BY <2>1 DEF IInv, HandlersHold, Become
  <2> QED
    BY <2>1, <2>2, LeavingStep
<1>7. CASE \E k \in 1 .. signs, n \in 1 .. Attempts : Stamp(k, n) \/ FailStamp(k, n)
  BY <1>7, StampStep, FailStampStep
<1>8. CASE \E e \in Employees : RemoveEmployee(e)
  BY <1>8, RemoveEmployeeStep
<1>9. CASE Restart
  <2>1. /\ handlers' = [g \in Handlers |-> handlers'[g]]
        /\ \A g \in Handlers : handlers'[g] \in {handlers[g], Idle}
        /\ UNCHANGED Rest /\ UNCHANGED <<bucket, stamping>>
    BY <1>9 DEF Restart, Rest
  <2> QED
    BY <2>1, LeavingStep
<1>10. CASE UNCHANGED vars
  BY <1>10, LeavingStep DEF vars, Rest, IInv, HandlersHold
<1> QED
  BY <1>1, <1>2, <1>3, <1>4, <1>5, <1>6, <1>7, <1>8, <1>9, <1>10 DEF Next

\* The invariant holds of every behaviour.
LEMMA SpecIInv == Spec => []IInv
BY InitIInv, NextIInv, PTL DEF Spec

\* Rows, locals and foreign keys are in order, for any employees, uploads,
\* audiences, handlers and number of signatures.
THEOREM SigningTypes == Spec => []TypeOK
<1>1. IInv => TypeOK
  BY DEF IInv
<1> QED
  BY <1>1, SpecIInv, PTL

\* Every signature was asked for by its signer, of that document, and its file
\* is in the bucket, whatever failed, timed out or came late.
THEOREM SignaturesReal == Spec => []SignaturesAreReal
<1>1. IInv => SignaturesAreReal
  BY DEF IInv
<1> QED
  BY <1>1, SpecIInv, PTL

----------------------------------------------------------------------------
(* Recipients and signers.  What a link says may be taken over by the link *)
(* to a copy, so these properties need to know how links come and go, and  *)
(* that a copy is made of what was there before it.                        *)

\* What calls of sign took away: some are about to put it on a copy, others
\* failed before they could.
Torn == dropped \cup UNION {Halfway(h) : h \in Handlers}

\* A copy is made of a document, an upload or an earlier copy.
SourcesAreEarlier ==
  \A k \in 1 .. signs :
    signer[k].of \in DOMAIN documents \cap (Uploads \cup 1 .. (k - 1))

\* What was sent is an upload, and both it and what was dropped are documents.
SentAreThere ==
  /\ sent \subseteq Employees \X (Uploads \cap DOMAIN documents)
  /\ dropped \subseteq Employees \X DOMAIN documents

\* Documents keep their parents and copies their signers, and nobody returns.
PastIsKept ==
  /\ employees' \subseteq employees
  /\ \A d \in DOMAIN documents :
       d \in DOMAIN documents' /\ documents'[d].parent_id = documents[d].parent_id
  /\ signs' >= signs
  /\ \A k \in 1 .. signs : signer'[k] = signer[k]
  /\ \A k \in 1 .. signs' :
       \/ k \in 1 .. signs
       \/ signer'[k].of \in DOMAIN documents \cap (Uploads \cup 1 .. (k - 1))

\* What was taken away stays so, or its employee is gone or now has the copy.
TornEvolve ==
  /\ dropped' \subseteq Torn
  /\ \A e \in employees', d \in DOMAIN documents :
       <<e, d>> \in Torn =>
         \/ <<e, d>> \in Torn'
         \/ \E k \in 1 .. signs : /\ <<e, k, TRUE>> \in employee_document'
                                  /\ signer[k].of = d

\* A link goes with its employee, or for a copy its employee asked for.
LinksEvolve ==
  \A e \in employees', d \in DOMAIN documents, signed \in BOOLEAN :
    <<e, d, signed>> \in employee_document =>
      \/ <<e, d, signed>> \in employee_document'
      \/ /\ <<e, d>> \in Torn'
         /\ \E k \in 1 .. signs : signer[k] = [by |-> e, of |-> d]

\* What is newly sent is an upload its recipients have a link to.
SentEvolve ==
  \A pair \in sent' \ sent :
    /\ pair \in Employees \X (Uploads \cap DOMAIN documents)
    /\ <<pair[1], pair[2], FALSE>> \in employee_document'

Traces == PastIsKept /\ TornEvolve /\ LinksEvolve /\ SentEvolve

LEMMA HalfwayMembers ==
  ASSUME NEW h, NEW pair
  PROVE  pair \in Halfway(h) <=> /\ handlers[h].op \in {"copy", "link"}
                                 /\ pair = <<handlers[h].user, handlers[h].document>>
  BY DEF Halfway

LEMMA HalfwayMembersAfter ==
  ASSUME NEW h, NEW pair
  PROVE  pair \in Halfway(h)' <=> /\ handlers'[h].op \in {"copy", "link"}
                                  /\ pair = <<handlers'[h].user, handlers'[h].document>>
  BY DEF Halfway

\* Steps that leave the tables alone and drop no more than is torn.
LEMMA CallsTrace ==
  ASSUME IInv, UNCHANGED Rest, dropped' \subseteq Torn, Torn \subseteq Torn'
  PROVE  Traces
<1>1. PastIsKept
  BY SigningAssumption DEF PastIsKept, Rest, IInv, TypeOK
<1>2. TornEvolve
  BY DEF TornEvolve
<1>3. LinksEvolve /\ SentEvolve
  BY DEF LinksEvolve, SentEvolve, Rest
<1> QED
  BY <1>1, <1>2, <1>3 DEF Traces

\* Calls that are nowhere between two links stay so.
LEMMA WaitingTraces ==
  ASSUME IInv, UNCHANGED Rest, UNCHANGED dropped,
         \A h \in Handlers : Halfway(h)' = Halfway(h)
  PROVE  Traces
<1>1. Torn' = Torn
  BY DEF Torn
<1> QED
  BY <1>1, CallsTrace DEF Torn

LEMMA UnansweredTraces ==
  ASSUME IInv, NEW h \in Handlers, handlers[h].op = "stamp",
         NEW posts, Unanswered(h, posts), UNCHANGED Rest, UNCHANGED dropped
  PROVE  Traces
<1> DEFINE s == handlers[h]
           next == [s EXCEPT !.attempt = @ + 1]
<1>1. \/ handlers' = [handlers EXCEPT ![h] = next]
      \/ handlers' = [handlers EXCEPT ![h] = Idle]
  BY DEF Unanswered, Become
<1>2. next.op = "stamp" /\ Idle.op = "idle"
  BY DEF Idle
<1>3. \A g \in Handlers : g # h => handlers'[g] = handlers[g]
  BY <1>1 DEF IInv, HandlersHold
<1>4. handlers'[h].op \in {"stamp", "idle"}
  BY <1>1, <1>2 DEF IInv, HandlersHold
<1>5. \A g \in Handlers : Halfway(g)' = Halfway(g)
  BY <1>3, <1>4 DEF Halfway
<1> QED
  BY <1>5, WaitingTraces

LEMMA StampTraces ==
  ASSUME IInv, NEW k, NEW n, Stamp(k, n)
  PROVE  Traces
<1>1. UNCHANGED Rest /\ UNCHANGED dropped
  BY DEF Stamp, Rest
<1>2. CASE UNCHANGED handlers
  BY <1>1, <1>2, WaitingTraces DEF Halfway
<1>3. ASSUME NEW h \in Handlers, Awaits(h, k, n),
             Become(h, [handlers[h] EXCEPT !.op = "unlink"])
      PROVE  Traces
  <2> DEFINE s == handlers[h]
             next == [s EXCEPT !.op = "unlink"]
  <2>1. SignLocals(s) /\ s.op = "stamp"
    BY <1>3, LocalsCases DEF Awaits, SignOps
  <2>2. next.op = "unlink"
    BY <1>3, <2>1 DEF SignLocals, IInv, HandlersHold, Locals, SendLocals, Idle
  <2>3. /\ handlers'[h] = next
        /\ \A g \in Handlers : g # h => handlers'[g] = handlers[g]
    BY <1>3 DEF IInv, HandlersHold, Become
  <2>4. \A g \in Handlers : Halfway(g)' = Halfway(g)
    BY <2>1, <2>2, <2>3 DEF Halfway
  <2> QED
    BY <1>1, <2>4, WaitingTraces
<1> QED
  BY <1>2, <1>3 DEF Stamp

LEMMA FailStampTraces ==
  ASSUME IInv, NEW k, NEW n, FailStamp(k, n)
  PROVE  Traces
<1>1. UNCHANGED Rest /\ UNCHANGED dropped
  BY DEF FailStamp, Rest
<1>2. ASSUME NEW h \in Handlers, Awaits(h, k, n),
             Unanswered(h, stamping \ {<<k, n>>})
      PROVE  Traces
  BY <1>1, <1>2, UnansweredTraces DEF Awaits
<1>3. CASE UNCHANGED handlers
  BY <1>1, <1>3, WaitingTraces DEF Halfway
<1> QED
  BY <1>2, <1>3 DEF FailStamp

LEMMA AbortTraces ==
  ASSUME IInv, NEW h \in Handlers, Abort(h)
  PROVE  Traces
<1>1. /\ UNCHANGED Rest
      /\ dropped' = dropped \cup Halfway(h)
      /\ \A g \in Handlers : g # h => handlers'[g] = handlers[g]
  BY DEF Abort, Rest, Become, IInv, HandlersHold
<1>2. \A g \in Handlers : g # h => Halfway(g)' = Halfway(g)
  BY <1>1 DEF Halfway
<1>3. Torn \subseteq Torn'
  BY <1>1, <1>2 DEF Torn
<1> QED
  BY <1>1, <1>3, CallsTrace DEF Torn

LEMMA RestartTraces ==
  ASSUME IInv, Restart
  PROVE  Traces
<1>1. UNCHANGED Rest /\ dropped' = Torn
  BY DEF Restart, Rest, Torn
<1> QED
  BY <1>1, CallsTrace DEF Torn

LEMMA BeginSendTraces ==
  ASSUME IInv, NEW h \in Handlers, NEW d \in Uploads, NEW required \in BOOLEAN,
         NEW recipients \in Audiences, NEW parent \in {d} \cup DOMAIN documents,
         BeginSend(h, d, parent, required, recipients)
  PROVE  Traces
<1>1. /\ d \notin DOMAIN documents
      /\ handlers[h] = Idle
      /\ handlers' = [handlers EXCEPT ![h] = [op |-> "send", document |-> d,
                                              recipients |-> recipients]]
      /\ DOMAIN documents' = DOMAIN documents \cup {d}
      /\ \A x \in DOMAIN documents : documents'[x] = documents[x]
      /\ UNCHANGED <<employees, employee_document, signs, signer, sent, dropped>>
  BY DEF BeginSend, InsertDocument, Become
<1>2. handlers'[h].op = "send" /\ handlers[h].op = "idle"
  BY <1>1 DEF IInv, HandlersHold, Idle
<1>3. \A g \in Handlers : g # h => handlers'[g] = handlers[g]
  BY <1>1 DEF IInv, HandlersHold
<1>4. \A g \in Handlers : Halfway(g)' = Halfway(g)
  BY <1>2, <1>3 DEF Halfway
<1>5. Torn' = Torn
  BY <1>1, <1>4 DEF Torn
<1>6. PastIsKept
  BY <1>1, SigningAssumption DEF PastIsKept, IInv, TypeOK
<1>7. TornEvolve
  BY <1>1, <1>5 DEF TornEvolve, Torn
<1>8. LinksEvolve /\ SentEvolve
  BY <1>1 DEF LinksEvolve, SentEvolve
<1> QED
  BY <1>6, <1>7, <1>8 DEF Traces

LEMMA SendLinksTraces ==
  ASSUME IInv, NEW h \in Handlers, SendLinks(h)
  PROVE  Traces
<1> DEFINE s == handlers[h]
<1>1. /\ s.op = "send" /\ SendLocals(s)
      /\ handlers' = [handlers EXCEPT ![h] = Idle]
      /\ UNCHANGED <<employees, documents, signs, signer, dropped>>
      /\ \/ UNCHANGED <<employee_document, sent>>
         \/ /\ employee_document' = employee_document \cup
                 {<<e, s.document, FALSE>> : e \in s.recipients}
            /\ sent' = sent \cup s.recipients \X {s.document}
  BY LocalsCases DEF SendLinks, Become
<1>2. handlers'[h].op = "idle"
  BY <1>1 DEF IInv, HandlersHold, Idle
<1>3. \A g \in Handlers : g # h => handlers'[g] = handlers[g]
  BY <1>1 DEF IInv, HandlersHold
<1>4. \A g \in Handlers : Halfway(g)' = Halfway(g)
  BY <1>1, <1>2, <1>3 DEF Halfway
<1>5. Torn' = Torn
  BY <1>1, <1>4 DEF Torn
<1>6. PastIsKept
  BY <1>1, SigningAssumption DEF PastIsKept, IInv, TypeOK
<1>7. TornEvolve
  BY <1>1, <1>5 DEF TornEvolve, Torn
<1>8. LinksEvolve
  BY <1>1 DEF LinksEvolve
<1>9. SentEvolve
  <2> SUFFICES ASSUME NEW pair \in sent' \ sent
               PROVE  /\ pair \in Employees \X (Uploads \cap DOMAIN documents)
                      /\ <<pair[1], pair[2], FALSE>> \in employee_document'
    BY DEF SentEvolve
  <2>0. /\ employee_document' = employee_document \cup
              {<<e, s.document, FALSE>> : e \in s.recipients}
        /\ sent' = sent \cup s.recipients \X {s.document}
    BY <1>1
  <2>1. PICK e \in s.recipients : pair = <<e, s.document>>
    BY <2>0
  <2>2. <<e, s.document, FALSE>> \in employee_document'
    BY <2>0
  <2>3. e \in Employees /\ s.document \in Uploads \cap DOMAIN documents
    BY <1>1 DEF SendLocals
  <2> QED
    BY <2>1, <2>2, <2>3
<1> QED
  BY <1>6, <1>7, <1>8, <1>9 DEF Traces

LEMMA BeginSignTraces ==
  ASSUME IInv, NEW h \in Handlers, NEW e \in Employees, NEW d \in DOMAIN documents,
         BeginSign(h, e, d)
  PROVE  Traces
<1>1. /\ signs' = signs + 1 /\ signs \in Nat
      /\ DOMAIN signer = 1 .. signs
      /\ signer' = [k \in DOMAIN signer \cup {signs + 1} |->
                      IF k = signs + 1 THEN [by |-> e, of |-> d] ELSE signer[k]]
      /\ handlers[h] = Idle
      /\ handlers' = [handlers EXCEPT ![h] = [op |-> "stamp", user |-> e,
                        document |-> d, copy |-> signs + 1, attempt |-> 1]]
      /\ UNCHANGED <<employees, documents, employee_document, sent, dropped>>
  BY SigningAssumption DEF BeginSign, Become, IInv, TypeOK
<1>2. handlers'[h].op = "stamp" /\ handlers[h].op = "idle"
  BY <1>1 DEF IInv, HandlersHold, Idle
<1>3. \A g \in Handlers : g # h => handlers'[g] = handlers[g]
  BY <1>1 DEF IInv, HandlersHold
<1>4. \A g \in Handlers : Halfway(g)' = Halfway(g)
  BY <1>2, <1>3 DEF Halfway
<1>5. Torn' = Torn
  BY <1>1, <1>4 DEF Torn
<1>6. PastIsKept
  <2>1. /\ \A k \in 1 .. signs : signer'[k] = signer[k]
        /\ signer'[signs + 1].of = d
    BY <1>1
  <2>2. d \in Uploads \cup 1 .. signs
    BY DEF IInv, CopiesAreAskedFor
  <2>3. \A k \in 1 .. signs' : k \in 1 .. signs \/ k = signs + 1
    BY <1>1
  <2>4. (signs + 1) - 1 = signs /\ signs' >= signs
    BY <1>1
  <2> QED
    BY <1>1, <2>1, <2>2, <2>3, <2>4 DEF PastIsKept
<1>7. TornEvolve
  BY <1>1, <1>5 DEF TornEvolve, Torn
<1>8. LinksEvolve /\ SentEvolve
  BY <1>1 DEF LinksEvolve, SentEvolve
<1> QED
  BY <1>6, <1>7, <1>8 DEF Traces

\* The link that goes is torn until the copy has it.
LEMMA UnlinkTraces ==
  ASSUME IInv, NEW h \in Handlers, Unlink(h)
  PROVE  Traces
<1> DEFINE s == handlers[h]
           next == [s EXCEPT !.op = "copy"]
<1>1. /\ SignLocals(s) /\ s.op = "unlink"
      /\ handlers' = [handlers EXCEPT ![h] = next]
      /\ employee_document' =
           employee_document \ {<<s.user, s.document, b>> : b \in BOOLEAN}
      /\ UNCHANGED <<employees, documents, signs, signer, sent, dropped>>
  BY LocalsCases DEF Unlink, SignOps, Become
<1>2. next.user = s.user /\ next.document = s.document
  OBVIOUS
<1>3. next.op = "copy"
  BY <1>1 DEF SignLocals
<1>4. /\ handlers'[h] = next
      /\ \A g \in Handlers : g # h => handlers'[g] = handlers[g]
  BY <1>1 DEF IInv, HandlersHold
<1>5. <<s.user, s.document>> \in Halfway(h)' /\ Halfway(h) = {}
  BY <1>1, <1>2, <1>3, <1>4 DEF Halfway
<1>6. \A g \in Handlers : g # h => Halfway(g)' = Halfway(g)
  BY <1>4 DEF Halfway
<1>7. Torn \subseteq Torn' /\ <<s.user, s.document>> \in Torn'
  BY <1>1, <1>5, <1>6 DEF Torn
<1>8. PastIsKept
  BY <1>1, SigningAssumption DEF PastIsKept, IInv, TypeOK
<1>9. TornEvolve
  BY <1>1, <1>7 DEF TornEvolve, Torn
<1>10. LinksEvolve
  <2>1. s.copy \in 1 .. signs /\ signer[s.copy] = [by |-> s.user, of |-> s.document]
    BY <1>1 DEF SignLocals
  <2> SUFFICES ASSUME NEW e \in employees', NEW d \in DOMAIN documents,
                      NEW signed \in BOOLEAN,
                      <<e, d, signed>> \in employee_document,
                      <<e, d, signed>> \notin employee_document'
               PROVE  e = s.user /\ d = s.document
    BY <1>7, <2>1 DEF LinksEvolve
  <2>2. PICK b \in BOOLEAN : <<e, d, signed>> = <<s.user, s.document, b>>
    BY <1>1
  <2> QED
    BY <2>2
<1>11. SentEvolve
  BY <1>1 DEF SentEvolve
<1> QED
  BY <1>8, <1>9, <1>10, <1>11 DEF Traces

LEMMA InsertCopyTraces ==
  ASSUME IInv, NEW h \in Handlers, InsertCopy(h)
  PROVE  Traces
<1> DEFINE s == handlers[h]
           next == [s EXCEPT !.op = "link"]
<1>1. /\ SignLocals(s) /\ s.op = "copy"
      /\ handlers' = [handlers EXCEPT ![h] = next]
      /\ DOMAIN documents' = DOMAIN documents \cup {s.copy}
      /\ documents'[s.copy].parent_id = s.document
      /\ \A x \in DOMAIN documents : x # s.copy => documents'[x] = documents[x]
      /\ UNCHANGED <<employees, employee_document, signs, signer, sent, dropped>>
  BY LocalsCases DEF InsertCopy, InsertDocument, SignOps, Become
<1>2. next.user = s.user /\ next.document = s.document
  OBVIOUS
<1>3. next.op = "link"
  BY <1>1 DEF SignLocals
<1>4. /\ handlers'[h] = next
      /\ \A g \in Handlers : g # h => handlers'[g] = handlers[g]
  BY <1>1 DEF IInv, HandlersHold
<1>5. \A g \in Handlers : Halfway(g)' = Halfway(g)
  BY <1>1, <1>2, <1>3, <1>4 DEF Halfway
<1>6. Torn' = Torn
  BY <1>1, <1>5 DEF Torn
<1>7. PastIsKept
  <2>1. s.copy \in 1 .. signs /\ signer[s.copy].of = s.document
    BY <1>1 DEF SignLocals
  <2>2. s.copy \notin Uploads
    BY <2>1, SigningAssumption
  <2>3. s.copy \in DOMAIN documents => documents[s.copy].parent_id = s.document
    BY <2>1, <2>2 DEF IInv, CopiesAreAskedFor
  <2>4. \A d \in DOMAIN documents :
          d \in DOMAIN documents' /\ documents'[d].parent_id = documents[d].parent_id
    BY <1>1, <2>3
  <2>5. signs' >= signs
    BY <1>1, SigningAssumption DEF IInv, TypeOK
  <2> QED
    BY <1>1, <2>4, <2>5 DEF PastIsKept
<1>8. TornEvolve
  BY <1>1, <1>6 DEF TornEvolve, Torn
<1>9. LinksEvolve /\ SentEvolve
  BY <1>1 DEF LinksEvolve, SentEvolve
<1> QED
  BY <1>7, <1>8, <1>9 DEF Traces

\* The copy has the link, if its signer is there.
LEMMA LinkCopyTraces ==
  ASSUME IInv, NEW h \in Handlers, LinkCopy(h)
  PROVE  Traces
<1> DEFINE s == handlers[h]
<1>1. /\ SignLocals(s) /\ s.op = "link"
      /\ handlers' = [handlers EXCEPT ![h] = Idle]
      /\ employee_document \subseteq employee_document'
      /\ s.user \in employees => <<s.user, s.copy, TRUE>> \in employee_document'
      /\ UNCHANGED <<employees, documents, signs, signer, sent, dropped>>
  BY LocalsCases DEF LinkCopy, SignOps, Become
<1>2. \A g \in Handlers : g # h => handlers'[g] = handlers[g]
  BY <1>1 DEF IInv, HandlersHold
<1>3. \A g \in Handlers : g # h => Halfway(g)' = Halfway(g)
  BY <1>2 DEF Halfway
<1>4. PastIsKept
  BY <1>1, SigningAssumption DEF PastIsKept, IInv, TypeOK
<1>5. TornEvolve
  <2>1. dropped' \subseteq Torn
    BY <1>1 DEF Torn
  <2>2. s.copy \in 1 .. signs /\ signer[s.copy].of = s.document
    BY <1>1 DEF SignLocals
  <2> SUFFICES ASSUME NEW e \in employees', NEW d \in DOMAIN documents,
                      <<e, d>> \in Torn, <<e, d>> \notin Torn'
               PROVE  e = s.user /\ d = s.document
    BY <1>1, <2>1, <2>2 DEF TornEvolve
  <2>3. <<e, d>> \in Halfway(h)
    BY <1>1, <1>3 DEF Torn
  <2>4. <<e, d>> = <<s.user, s.document>>
    BY <2>3, HalfwayMembers
  <2> QED
    BY <2>4
<1>6. LinksEvolve /\ SentEvolve
  BY <1>1 DEF LinksEvolve, SentEvolve
<1> QED
  BY <1>4, <1>5, <1>6 DEF Traces

LEMMA RemoveEmployeeTraces ==
  ASSUME IInv, NEW e \in Employees, RemoveEmployee(e)
  PROVE  Traces
<1>1. /\ employees' = employees \ {e}
      /\ employee_document' = {link \in employee_document : link[1] # e}
      /\ UNCHANGED <<documents, handlers, signs, signer, sent, dropped>>
  BY DEF RemoveEmployee
<1>2. Torn' = Torn
  BY <1>1 DEF Torn, Halfway
<1>3. PastIsKept
  BY <1>1, SigningAssumption DEF PastIsKept, IInv, TypeOK
<1>4. TornEvolve
  BY <1>1, <1>2 DEF TornEvolve, Torn
<1>5. LinksEvolve /\ SentEvolve
  BY <1>1 DEF LinksEvolve, SentEvolve
<1> QED
  BY <1>3, <1>4, <1>5 DEF Traces

LEMMA NextTraces ==
  ASSUME IInv, [Next]_vars
  PROVE  Traces
<1>1. ASSUME NEW d \in Uploads, Upload(d)
      PROVE  Traces
  BY <1>1, WaitingTraces DEF Upload, Rest, Halfway
<1>2. CASE \E h \in Handlers, d \in Uploads, required \in BOOLEAN,
              recipients \in Audiences : \E parent \in {d} \cup DOMAIN documents :
             BeginSend(h, d, parent, required, recipients)
  BY <1>2, BeginSendTraces
<1>3. CASE \E h \in Handlers, e \in Employees, d \in DOMAIN documents : BeginSign(h, e, d)
  BY <1>3, BeginSignTraces
<1>4. ASSUME NEW h \in Handlers, SendLinks(h) \/ Unlink(h) \/ InsertCopy(h) \/ LinkCopy(h)
      PROVE  Traces
  BY <1>4, SendLinksTraces, UnlinkTraces, InsertCopyTraces, LinkCopyTraces
<1>5. ASSUME NEW h \in Handlers, TimeOut(h)
      PROVE  Traces
  BY <1>5, UnansweredTraces DEF TimeOut, Rest
<1>6. ASSUME NEW h \in Handlers, Abort(h)
      PROVE  Traces
  BY <1>6, AbortTraces
<1>7. CASE \E k \in 1 .. signs, n \in 1 .. Attempts : Stamp(k, n) \/ FailStamp(k, n)
  BY <1>7, StampTraces, FailStampTraces
<1>8. CASE \E e \in Employees : RemoveEmployee(e)
  BY <1>8, RemoveEmployeeTraces
<1>9. CASE Restart
  BY <1>9, RestartTraces
<1>10. CASE UNCHANGED vars
  BY <1>10, WaitingTraces DEF vars, Rest, Halfway
<1> QED
  BY <1>1, <1>2, <1>3, <1>4, <1>5, <1>6, <1>7, <1>8, <1>9, <1>10 DEF Next

----------------------------------------------------------------------------
(* What a document is a copy of.  Original is defined by recursion over the *)
(* copies; that there is such a function, and that later copies do not     *)
(* change it, is shown by looking at the least copy for which it fails.    *)

\* A set of natural numbers has a least element: among the finite sets of its
\* elements up to some element, one has no other below it.
LEMMA LeastNumber ==
  ASSUME NEW S, S \subseteq Nat, S # {}
  PROVE  \E x \in S : \A y \in S : x <= y
<1> DEFINE UpTo(x) == {y \in S : y <= x}
           Segments == {UpTo(x) : x \in S}
<1>1. Segments \subseteq FiniteSubsetsOf(S)
  <2> SUFFICES ASSUME NEW x \in S PROVE IsFiniteSet(UpTo(x))
    BY DEF FiniteSubsetsOf
  <2> QED
    BY FS_BoundedSetOfNaturals
<1>2. PICK m \in Segments :
        \A segment \in Segments : <<segment, m>> \notin StrictSubsetOrdering(S)
  <2>1. Segments # {}
    OBVIOUS
  <2> QED
    BY <1>1, <2>1, FS_StrictSubsetOrderingWellFounded, WFMin
<1>3. PICK x \in S : m = UpTo(x)
  BY <1>2
<1>4. ASSUME NEW y \in S PROVE x <= y
  <2> SUFFICES ASSUME y < x PROVE FALSE
    BY <1>3
  <2>1. /\ \A z \in S : z <= y => z <= x
        /\ x <= x /\ ~(x <= y)
    BY <1>3
  <2>2. UpTo(y) \subseteq m /\ UpTo(y) # m /\ m \subseteq S
    BY <1>3, <2>1
  <2>3. <<UpTo(y), m>> \in StrictSubsetOrdering(S)
    <3> HIDE DEF UpTo
    <3> QED
      BY <2>2 DEF StrictSubsetOrdering
  <2> QED
    BY <1>2, <2>3
<1> QED
  BY <1>4

\* The recursion of Original, for the copies up to n and what they are made of.
Earlier(by, n) == \A k \in 1 .. n : by[k].of \in Uploads \cup 1 .. (k - 1)

Follows(f, by, n) ==
  f = [d \in Uploads \cup 1 .. n |-> IF d \in Uploads THEN d ELSE f[by[d].of]]

\* A function that goes one copy further.
LEMMA OneMoreCopy ==
  ASSUME NEW n \in Nat \ {0}, NEW by, Earlier(by, n),
         NEW f, Follows(f, by, n - 1)
  PROVE  \E g : Follows(g, by, n)
<1> DEFINE g == [d \in Uploads \cup 1 .. n |->
                   IF d = n THEN f[by[n].of] ELSE f[d]]
<1>1. n \notin Uploads /\ n \notin 1 .. (n - 1) /\ n \in 1 .. n
  BY SigningAssumption
<1>2. \A d \in Uploads \cup 1 .. (n - 1) :
        /\ d # n
        /\ f[d] = IF d \in Uploads THEN d ELSE f[by[d].of]
  BY <1>1 DEF Follows
<1>3. ASSUME NEW k \in 1 .. n
      PROVE  by[k].of \in Uploads \cup 1 .. (n - 1)
  <2>1. by[k].of \in Uploads \cup 1 .. (k - 1)
    BY DEF Earlier
  <2>2. 1 .. (k - 1) \subseteq 1 .. (n - 1)
    OBVIOUS
  <2> QED
    BY <2>1, <2>2
<1>4. \A x \in Uploads \cup 1 .. (n - 1) : g[x] = f[x]
  <2>1. \A x \in Uploads \cup 1 .. (n - 1) : x \in Uploads \cup 1 .. n
    OBVIOUS
  <2> QED
    BY <1>2, <2>1
<1>5. ASSUME NEW d \in Uploads \cup 1 .. n
      PROVE  g[d] = IF d \in Uploads THEN d ELSE g[by[d].of]
  <2>1. CASE d = n
    <3>1. g[d] = f[by[n].of] /\ g[by[n].of] = f[by[n].of]
      BY <1>1, <1>3, <1>4, <2>1
    <3> QED
      BY <1>1, <2>1, <3>1
  <2>2. CASE d \in Uploads
    <3>1. g[d] = f[d] /\ f[d] = d
      BY <1>2, <1>4, <2>2
    <3> QED
      BY <2>2, <3>1
  <2>3. CASE d \in 1 .. (n - 1) /\ d \notin Uploads
    <3>1. g[d] = f[d] /\ f[d] = f[by[d].of]
      BY <1>2, <1>4, <2>3
    <3>2. by[d].of \in Uploads \cup 1 .. (n - 1)
      BY <1>3, <2>3
    <3>3. g[by[d].of] = f[by[d].of]
      BY <1>4, <3>2
    <3> QED
      BY <2>3, <3>1, <3>3
  <2>4. d \in Uploads \/ d = n \/ (d \in 1 .. (n - 1) /\ d \notin Uploads)
    OBVIOUS
  <2> QED
    BY <2>1, <2>2, <2>3, <2>4
<1>6. g = [d \in Uploads \cup 1 .. n |-> g[d]]
  OBVIOUS
<1> HIDE DEF g
<1>7. g = [d \in Uploads \cup 1 .. n |-> IF d \in Uploads THEN d ELSE g[by[d].of]]
  BY <1>5, <1>6
<1> QED
  BY <1>7 DEF Follows

LEMMA OriginsExist ==
  ASSUME NEW n \in Nat, NEW by, Earlier(by, n)
  PROVE  \E f : Follows(f, by, n)
<1> DEFINE Fails == {m \in 0 .. n : ~ \E f : Follows(f, by, m)}
<1> SUFFICES ASSUME Fails # {} PROVE FALSE
  OBVIOUS
<1>1. PICK m \in Fails : \A y \in Fails : m <= y
  <2>1. Fails \subseteq Nat
    OBVIOUS
  <2> QED
    BY <2>1, LeastNumber
<1>2. m \in 0 .. n /\ ~ \E f : Follows(f, by, m)
  BY <1>1
<1>3. CASE m = 0
  <2> DEFINE f == [d \in Uploads |-> d]
  <2>1. Uploads \cup 1 .. 0 = Uploads
    OBVIOUS
  <2>2. f = [d \in Uploads |-> IF d \in Uploads THEN d ELSE f[by[d].of]]
    OBVIOUS
  <2>3. Follows(f, by, 0)
    BY <2>1, <2>2 DEF Follows
  <2> QED
    BY <1>2, <1>3, <2>3
<1>4. CASE m # 0
  <2>1. m - 1 \in 0 .. n /\ ~(m <= m - 1) /\ m \in Nat \ {0}
    BY <1>2, <1>4
  <2>2. m - 1 \notin Fails
    BY <1>1, <2>1
  <2>3. PICK f : Follows(f, by, m - 1)
    BY <2>1, <2>2
  <2>4. Earlier(by, m)
    BY <1>2 DEF Earlier
  <2> QED
    BY <1>2, <2>1, <2>3, <2>4, OneMoreCopy
<1> QED
  BY <1>3, <1>4

\* What a copy is a copy of does not depend on later copies.
LEMMA OriginsStay ==
  ASSUME NEW n \in Nat, NEW m \in Nat, n <= m, NEW by, NEW later,
         Earlier(by, n), \A k \in 1 .. n : later[k] = by[k],
         NEW f, NEW g, Follows(f, by, n), Follows(g, later, m)
  PROVE  \A x \in Uploads \cup 1 .. n : g[x] = f[x]
<1>1. /\ \A x \in Uploads \cup 1 .. n :
           f[x] = IF x \in Uploads THEN x ELSE f[by[x].of]
      /\ \A x \in Uploads \cup 1 .. m :
           g[x] = IF x \in Uploads THEN x ELSE g[later[x].of]
  BY DEF Follows
<1>2. 1 .. n \subseteq 1 .. m
  OBVIOUS
<1>3. \A x \in Uploads : g[x] = f[x]
  BY <1>1
<1> DEFINE Differ == {k \in 1 .. n : g[k] # f[k]}
<1>4. CASE Differ = {}
  BY <1>3, <1>4
<1>5. CASE Differ # {}
  <2>1. PICK k \in Differ : \A y \in Differ : k <= y
    <3>1. Differ \subseteq Nat
      OBVIOUS
    <3> QED
      BY <1>5, <3>1, LeastNumber
  <2>2. k \in 1 .. n /\ k \in 1 .. m /\ k \notin Uploads
    BY <1>2, <2>1, SigningAssumption
  <2>3. f[k] = f[by[k].of] /\ g[k] = g[by[k].of]
    BY <1>1, <2>2
  <2>4. by[k].of \in Uploads \cup 1 .. (k - 1)
    BY <2>2 DEF Earlier
  <2>5. \A y \in 1 .. (k - 1) : y \in 1 .. n /\ ~(k <= y)
    BY <2>2
  <2>6. \A y \in 1 .. (k - 1) : g[y] = f[y]
    BY <2>1, <2>5
  <2>7. g[by[k].of] = f[by[k].of]
    BY <1>3, <2>4, <2>6
  <2> QED
    BY <2>1, <2>3, <2>7
<1> QED
  BY <1>4, <1>5

LEMMA OriginalFollows ==
  ASSUME TypeOK, Earlier(signer, signs)
  PROVE  Follows(Original, signer, signs)
<1>1. \E f : Follows(f, signer, signs)
  BY OriginsExist, SigningAssumption DEF TypeOK
<1>2. Original = CHOOSE f : Follows(f, signer, signs)
  BY DEF Original, Follows
<1> QED
  BY <1>1, <1>2

LEMMA OriginalFollowsAfter ==
  ASSUME TypeOK', Earlier(signer', signs')
  PROVE  Follows(Original', signer', signs')
<1>1. \E f : Follows(f, signer', signs')
  BY OriginsExist, SigningAssumption DEF TypeOK
<1>2. Original' = CHOOSE f : Follows(f, signer', signs')
  BY DEF Original, Follows
<1> QED
  BY <1>1, <1>2

----------------------------------------------------------------------------
(* The invariant of recipients *)

TracksInv ==
  /\ SourcesAreEarlier
  /\ SentAreThere
  /\ RecipientsAreTracked
  /\ ReceivedStays

LEMMA InitTracksInv == Init => TracksInv
  BY SigningAssumption
  DEF Init, TracksInv, SourcesAreEarlier, SentAreThere, RecipientsAreTracked,
      ReceivedStays

\* A document's signs are the links to it and to the copies made of it.
LEMMA GetSignsMembers ==
  ASSUME TypeOK, NEW e, NEW signed, NEW d
  PROVE  <<e, signed>> \in GetSigns(d) <=>
           \E x \in DOMAIN documents :
             <<e, x, signed>> \in employee_document /\ documents[x].parent_id = d
<1>1. \A link \in employee_document :
        /\ link = <<link[1], link[2], link[3]>>
        /\ link[2] \in DOMAIN documents
  BY DEF TypeOK
<1>2. ASSUME NEW x \in DOMAIN documents, <<e, x, signed>> \in employee_document,
             documents[x].parent_id = d
      PROVE  <<e, signed>> \in GetSigns(d)
  BY <1>2 DEF GetSigns
<1>3. ASSUME <<e, signed>> \in GetSigns(d)
      PROVE  \E x \in DOMAIN documents :
               <<e, x, signed>> \in employee_document /\ documents[x].parent_id = d
  <2>1. PICK link \in employee_document :
          documents[link[2]].parent_id = d /\ <<e, signed>> = <<link[1], link[3]>>
    BY <1>3 DEF GetSigns
  <2>2. link = <<e, link[2], signed>> /\ link[2] \in DOMAIN documents
    BY <1>1, <2>1
  <2> QED
    BY <2>1, <2>2
<1> QED
  BY <1>2, <1>3

LEMMA SourcesStayEarlier ==
  ASSUME TypeOK, TypeOK', SourcesAreEarlier, PastIsKept
  PROVE  SourcesAreEarlier'
<1> SUFFICES ASSUME NEW k \in 1 .. signs'
             PROVE  signer'[k].of \in DOMAIN documents' \cap (Uploads \cup 1 .. (k - 1))
  BY DEF SourcesAreEarlier
<1>1. DOMAIN documents \subseteq DOMAIN documents'
  BY DEF PastIsKept
<1> QED
  BY <1>1 DEF PastIsKept, SourcesAreEarlier

LEMMA SentStayThere ==
  ASSUME IInv, SentAreThere, Traces
  PROVE  SentAreThere'
<1>1. DOMAIN documents \subseteq DOMAIN documents'
  BY DEF Traces, PastIsKept
<1>2. Torn \subseteq Employees \X DOMAIN documents
  <2>1. ASSUME NEW h \in Handlers
        PROVE  Halfway(h) \subseteq Employees \X DOMAIN documents
    <3>1. handlers[h].op \in {"copy", "link"} => SignLocals(handlers[h])
      BY LocalsCases DEF SignOps
    <3> QED
      BY <3>1 DEF Halfway, SignLocals
  <2> QED
    BY <2>1 DEF Torn, SentAreThere
<1>3. dropped' \subseteq Employees \X DOMAIN documents
  BY <1>2 DEF Traces, TornEvolve
<1>4. sent' \subseteq Employees \X (Uploads \cap DOMAIN documents)
  BY DEF Traces, SentEvolve, SentAreThere
<1> QED
  BY <1>1, <1>3, <1>4 DEF SentAreThere

\* Asking for a copy of a copy cannot be undone.
LEMMA SignsCopyStays ==
  ASSUME TypeOK, TypeOK', SourcesAreEarlier, PastIsKept,
         NEW e, NEW d, SignsCopy(e, d)
  PROVE  SignsCopy(e, d)'
<1>1. PICK k \in DOMAIN signer : /\ signer[k].by = e
                                 /\ ~Root(signer[k].of)
                                 /\ documents[signer[k].of].parent_id = d
  BY DEF SignsCopy
<1>2. k \in 1 .. signs /\ k \in DOMAIN signer' /\ signer'[k] = signer[k]
  <2>1. k \in 1 .. signs /\ signs \in Nat /\ signs' \in Nat /\ signs' >= signs
    BY <1>1, SigningAssumption DEF TypeOK, PastIsKept
  <2> QED
    BY <2>1 DEF TypeOK, PastIsKept
<1>3. documents'[signer[k].of].parent_id = documents[signer[k].of].parent_id
  BY <1>2 DEF SourcesAreEarlier, PastIsKept
<1> QED
  BY <1>1, <1>2, <1>3 DEF SignsCopy, Root

\* A link of a document's signs that goes is to the document itself, or its
\* employee has asked for a copy of a copy.
LEMMA LostLink ==
  ASSUME TypeOK, NEW e, NEW d, NEW x, x # d, documents[x].parent_id = d,
         NEW k \in 1 .. signs, signer[k] = [by |-> e, of |-> x]
  PROVE  SignsCopy(e, d)
  BY DEF SignsCopy, Root, TypeOK

LEMMA TrackedStays ==
  ASSUME IInv, IInv', TracksInv, Traces
  PROVE  RecipientsAreTracked'
<1>1. TypeOK /\ TypeOK' /\ PastIsKept
  BY DEF IInv, Traces
<1> SUFFICES ASSUME NEW e \in employees', NEW d \in DOMAIN documents',
                    documents'[d].parent_id = d,
                    <<e, d>> \in sent', <<e, d>> \notin Torn',
                    ~SignsCopy(e, d)'
             PROVE  \E signed \in BOOLEAN : (<<e, signed>> \in GetSigns(d))'
  <2>1. ASSUME NEW e \in employees', NEW d \in DOMAIN documents',
               <<e, d>> \notin dropped', ~Signs(e, d)'
        PROVE  <<e, d>> \notin Torn'
    BY <2>1 DEF Torn, Signs
  <2> QED
    BY <2>1 DEF RecipientsAreTracked, DocumentsListAll, Root
<1>2. ASSUME NEW x \in DOMAIN documents', NEW signed \in BOOLEAN,
             <<e, x, signed>> \in employee_document', documents'[x].parent_id = d
      PROVE  (<<e, signed>> \in GetSigns(d))'
  BY <1>2 DEF GetSigns
<1>3. CASE <<e, d>> \notin sent
  <2>1. <<e, d>> \in sent' \ sent
    BY <1>3
  <2>2. <<e, d, FALSE>> \in employee_document'
    BY <2>1 DEF Traces, SentEvolve
  <2>3. documents'[d].parent_id = d
    OBVIOUS
  <2> QED
    BY <1>2, <2>2, <2>3
<1>4. CASE <<e, d>> \in sent /\ <<e, d>> \in Torn
  <2>1. d \in DOMAIN documents
    BY <1>4 DEF TracksInv, SentAreThere
  <2>2. PICK k \in 1 .. signs : /\ <<e, k, TRUE>> \in employee_document'
                                /\ signer[k].of = d
    BY <1>4, <2>1 DEF Traces, TornEvolve
  <2>3. k \in DOMAIN documents' /\ signer'[k].of = d
    BY <1>1, <2>2 DEF TypeOK, PastIsKept
  <2>4. documents'[k].parent_id = d
    BY <2>2, <2>3 DEF IInv, SignaturesAreReal
  <2> QED
    BY <1>2, <2>2, <2>3, <2>4
<1>5. CASE <<e, d>> \in sent /\ <<e, d>> \notin Torn
  <2>1. d \in DOMAIN documents /\ documents[d].parent_id = d /\ e \in employees
    BY <1>1, <1>5 DEF TracksInv, SentAreThere, PastIsKept
  <2>2. ~SignsCopy(e, d)
    BY <1>1, SignsCopyStays DEF TracksInv
  <2>3. <<e, d>> \in sent \ dropped /\ ~Signs(e, d)
    BY <1>5 DEF Torn, Signs
  <2>4. PICK signed \in BOOLEAN : <<e, signed>> \in GetSigns(d)
    BY <2>1, <2>2, <2>3 DEF TracksInv, RecipientsAreTracked, DocumentsListAll, Root
  <2>5. PICK x \in DOMAIN documents :
          <<e, x, signed>> \in employee_document /\ documents[x].parent_id = d
    BY <1>1, <2>4, GetSignsMembers
  <2>6. x \in DOMAIN documents' /\ documents'[x].parent_id = d
    BY <1>1, <2>5 DEF PastIsKept
  <2>7. CASE <<e, x, signed>> \in employee_document'
    BY <1>2, <2>6, <2>7
  <2>8. CASE <<e, x, signed>> \notin employee_document'
    <3>1. <<e, x>> \in Torn' /\ \E k \in 1 .. signs : signer[k] = [by |-> e, of |-> x]
      BY <2>5, <2>8 DEF Traces, LinksEvolve
    <3>2. x # d
      BY <3>1
    <3> QED
      BY <1>1, <2>2, <2>5, <3>1, <3>2, LostLink
  <2> QED
    BY <2>7, <2>8
<1> QED
  BY <1>3, <1>4, <1>5

\* What a document is a copy of, before and after a step.
LEMMA OriginalsKept ==
  ASSUME IInv, IInv', SourcesAreEarlier, SourcesAreEarlier', PastIsKept
  PROVE  /\ \A x \in DOMAIN documents : Original'[x] = Original[x]
         /\ \A d \in Uploads : Original'[d] = d
         /\ \A k \in 1 .. signs : Original'[k] = Original'[signer[k].of]
<1>1. TypeOK /\ TypeOK' /\ signs \in Nat /\ signs' \in Nat /\ signs <= signs'
  BY SigningAssumption DEF IInv, TypeOK, PastIsKept
<1>2. Earlier(signer, signs) /\ Earlier(signer', signs')
  BY DEF SourcesAreEarlier, Earlier
<1>3. Follows(Original, signer, signs)
  BY <1>1, <1>2, OriginalFollows
<1>4. Follows(Original', signer', signs')
  BY <1>1, <1>2, OriginalFollowsAfter
<1>5. \A k \in 1 .. signs : signer'[k] = signer[k]
  BY DEF PastIsKept
<1>6. \A x \in Uploads \cup 1 .. signs : Original'[x] = Original[x]
  <2> DEFINE f == Original
             g == Original'
             by == signer
             later == signer'
  <2>1. Follows(f, by, signs) /\ Follows(g, later, signs') /\ Earlier(by, signs)
    BY <1>2, <1>3, <1>4
  <2> HIDE DEF f, g, by, later
  <2>2. \A k \in 1 .. signs : later[k] = by[k]
    BY <1>5 DEF by, later
  <2>3. \A x \in Uploads \cup 1 .. signs : g[x] = f[x]
    BY <1>1, <2>1, <2>2, OriginsStay
  <2> QED
    BY <2>3 DEF f, g
<1>7. DOMAIN documents \subseteq Uploads \cup 1 .. signs
  BY DEF IInv, CopiesAreAskedFor
<1>8. \A x \in Uploads \cup 1 .. signs' :
        Original'[x] = IF x \in Uploads THEN x ELSE Original'[signer'[x].of]
  <2> DEFINE g == Original'
             later == signer'
  <2>1. Follows(g, later, signs')
    BY <1>4
  <2> HIDE DEF g, later
  <2>2. \A x \in Uploads \cup 1 .. signs' :
          g[x] = IF x \in Uploads THEN x ELSE g[later[x].of]
    BY <2>1 DEF Follows
  <2> QED
    BY <2>2 DEF g, later
<1>9. \A d \in Uploads : Original'[d] = d
  BY <1>8
<1>10. ASSUME NEW k \in 1 .. signs
       PROVE  Original'[k] = Original'[signer[k].of]
  <2>1. k \in 1 .. signs' /\ k \notin Uploads /\ signer'[k] = signer[k]
    BY <1>1, <1>5, SigningAssumption
  <2> QED
    BY <1>8, <2>1
<1> QED
  BY <1>6, <1>7, <1>9, <1>10

LEMMA ReceivedStaysReceived ==
  ASSUME IInv, IInv', TracksInv, Traces, SourcesAreEarlier'
  PROVE  ReceivedStays'
<1>1. TypeOK /\ TypeOK' /\ PastIsKept
  BY DEF IInv, Traces
<1>2. /\ \A x \in DOMAIN documents : Original'[x] = Original[x]
      /\ \A d \in Uploads : Original'[d] = d
      /\ \A k \in 1 .. signs : Original'[k] = Original'[signer[k].of]
  BY <1>1, OriginalsKept DEF TracksInv
<1> SUFFICES ASSUME NEW e \in employees', NEW d \in DOMAIN documents',
                    <<e, d>> \in sent',
                    \A pair \in Torn' : ~(pair[1] = e /\ Original'[pair[2]] = d)
             PROVE  \E row \in DocumentsList(e)' : Original'[row[1]] = d
  BY DEF ReceivedStays, Torn
<1>3. ASSUME NEW x, NEW signed, <<e, x, signed>> \in employee_document',
             Original'[x] = d
      PROVE  \E row \in DocumentsList(e)' : Original'[row[1]] = d
  <2>1. <<x, signed>> \in DocumentsList(e)'
    BY <1>3 DEF DocumentsList
  <2> QED
    BY <1>3, <2>1
<1>4. \A x : <<e, x>> \in Torn' => Original'[x] # d
  OBVIOUS
<1>5. CASE <<e, d>> \notin sent
  <2>1. <<e, d>> \in sent' \ sent
    BY <1>5
  <2>2. <<e, d, FALSE>> \in employee_document' /\ d \in Uploads
    BY <2>1 DEF Traces, SentEvolve
  <2> QED
    BY <1>2, <1>3, <2>2
<1>6. CASE <<e, d>> \in sent
  <2>1. d \in DOMAIN documents /\ e \in employees
    BY <1>1, <1>6 DEF TracksInv, SentAreThere, PastIsKept
  <2>2. CASE \E pair \in Torn : pair[1] = e /\ Original[pair[2]] = d
    <3>1. PICK pair \in Torn : pair[1] = e /\ Original[pair[2]] = d
      BY <2>2
    <3>2. pair \in Employees \X DOMAIN documents
      <4>1. CASE pair \in dropped
        BY <4>1 DEF TracksInv, SentAreThere
      <4>2. ASSUME NEW h \in Handlers, pair \in Halfway(h)
            PROVE  pair \in Employees \X DOMAIN documents
        <5>1. /\ handlers[h].op \in {"copy", "link"}
              /\ pair = <<handlers[h].user, handlers[h].document>>
          BY <4>2, HalfwayMembers
        <5>2. SignLocals(handlers[h])
          BY <5>1, LocalsCases DEF SignOps
        <5> QED
          BY <5>1, <5>2 DEF SignLocals
      <4> QED
        BY <3>1, <4>1, <4>2 DEF Torn
    <3> DEFINE x == pair[2]
    <3>3. x \in DOMAIN documents /\ <<e, x>> \in Torn /\ Original'[x] = d
      BY <1>2, <3>1, <3>2
    <3>4. <<e, x>> \notin Torn'
      BY <1>4, <3>3
    <3>5. PICK k \in 1 .. signs : <<e, k, TRUE>> \in employee_document' /\ signer[k].of = x
      BY <3>3, <3>4 DEF Traces, TornEvolve
    <3>6. Original'[k] = d
      BY <1>2, <3>3, <3>5
    <3> QED
      BY <1>3, <3>5, <3>6
  <2>3. CASE ~ \E pair \in Torn : pair[1] = e /\ Original[pair[2]] = d
    <3>1. PICK row \in DocumentsList(e) : Original[row[1]] = d
      BY <1>6, <2>1, <2>3 DEF TracksInv, ReceivedStays, Torn
    <3>2. PICK link \in employee_document : link[1] = e /\ row = <<link[2], link[3]>>
      BY <3>1 DEF DocumentsList
    <3> DEFINE x == link[2]
               signed == link[3]
    <3>3. /\ x \in DOMAIN documents /\ signed \in BOOLEAN
          /\ <<e, x, signed>> \in employee_document
      BY <1>1, <3>2 DEF TypeOK
    <3>4. Original'[x] = d
      BY <1>2, <3>1, <3>2, <3>3
    <3> HIDE DEF x, signed
    <3>5. <<e, x>> \notin Torn'
      BY <1>4, <3>4
    <3>6. <<e, x, signed>> \in employee_document'
      BY <3>3, <3>5 DEF Traces, LinksEvolve
    <3> QED
      BY <1>3, <3>4, <3>6
  <2> QED
    BY <2>2, <2>3
<1> QED
  BY <1>5, <1>6

LEMMA NextTracksInv ==
  ASSUME IInv, IInv', TracksInv, [Next]_vars
  PROVE  TracksInv'
<1>1. Traces
  BY NextTraces
<1>2. TypeOK /\ TypeOK' /\ PastIsKept
  BY <1>1 DEF IInv, Traces
<1>3. SourcesAreEarlier'
  BY <1>2, SourcesStayEarlier DEF TracksInv
<1>4. SentAreThere'
  BY <1>1, SentStayThere DEF TracksInv
<1>5. RecipientsAreTracked'
  BY <1>1, TrackedStays
<1>6. ReceivedStays'
  BY <1>1, <1>3, ReceivedStaysReceived
<1> QED
  BY <1>3, <1>4, <1>5, <1>6 DEF TracksInv

LEMMA SpecTracksInv == Spec => [](IInv /\ TracksInv)
<1>1. IInv /\ IInv' /\ TracksInv /\ [Next]_vars => TracksInv'
  BY NextTracksInv
<1> QED
  BY <1>1, InitTracksInv, SpecIInv, PTL DEF Spec

\* Nobody a document was sent to disappears from its signs, unless a call of
\* theirs failed halfway or was about a copy.
THEOREM RecipientsTracked == Spec => []RecipientsAreTracked
<1>1. TracksInv => RecipientsAreTracked
  BY DEF TracksInv
<1> QED
  BY <1>1, SpecTracksInv, PTL

\* What an employee was sent stays in their list, as it was or as a copy, or a
\* copy of a copy.
THEOREM ReceivedDocumentsStay == Spec => []ReceivedStays
<1>1. TracksInv => ReceivedStays
  BY DEF TracksInv
<1> QED
  BY <1>1, SpecTracksInv, PTL

\* Signatures are not lost: a signer of a document stays one, whoever else
\* signs it and whatever fails.
THEOREM SignaturesAreKept == Spec => SignaturesStay
<1>1. IInv /\ IInv' /\ TracksInv /\ [Next]_vars =>
        [\A d \in DOMAIN documents, e \in employees' :
           <<e, TRUE>> \in GetSigns(d) /\ ~SignsCopy(e, d) =>
             <<e, TRUE>> \in GetSigns(d)']_vars
  <2> SUFFICES ASSUME IInv, IInv', TracksInv, [Next]_vars,
                      NEW d \in DOMAIN documents, NEW e \in employees',
                      <<e, TRUE>> \in GetSigns(d), ~SignsCopy(e, d)
               PROVE  <<e, TRUE>> \in GetSigns(d)'
    OBVIOUS
  <2>1. Traces /\ TypeOK /\ PastIsKept
    BY NextTraces DEF IInv, Traces
  <2>2. PICK x \in DOMAIN documents :
          <<e, x, TRUE>> \in employee_document /\ documents[x].parent_id = d
    BY <2>1, GetSignsMembers
  <2>3. x \in DOMAIN documents' /\ documents'[x].parent_id = d
    BY <2>1, <2>2 DEF PastIsKept
  <2>4. x \in 1 .. signs /\ signer[x].of = d
    BY <2>1, <2>2 DEF IInv, SignaturesAreReal, PastIsKept
  <2>5. x # d
    BY <2>4, SigningAssumption DEF TracksInv, SourcesAreEarlier
  <2>6. ASSUME <<e, x, TRUE>> \notin employee_document'
        PROVE  FALSE
    <3>1. \E k \in 1 .. signs : signer[k] = [by |-> e, of |-> x]
      BY <2>1, <2>2, <2>6 DEF Traces, LinksEvolve
    <3> QED
      BY <2>1, <2>2, <2>5, <3>1, LostLink
  <2> DEFINE links == {l \in employee_document' : documents'[l[2]].parent_id = d}
             signers == {<<link[1], link[3]>> : link \in links}
  <2>7. <<e, x, TRUE>> \in links
    BY <2>3, <2>6
  <2>8. GetSigns(d)' = signers
    BY DEF GetSigns
  <2>9. \A link \in links : <<link[1], link[3]>> \in signers
    OBVIOUS
  <2> HIDE DEF links, signers
  <2>10. <<e, TRUE>> \in signers
    BY <2>7, <2>9
  <2> QED
    BY <2>8, <2>10
<1> QED
  BY <1>1, SpecTracksInv, PTL DEF Spec, SignaturesStay

----------------------------------------------------------------------------
(* The lifecycle of a signature.  To tell what is over from what a call     *)
(* still works on, the invariant says that a copy has one call, which has   *)
(* not got further than its op says.                                       *)

CallsWork ==
  /\ \A h \in Handlers :
       LET s == handlers[h] IN
       /\ s.op \in SignOps /\ s.op # "link" => s.copy \notin DOMAIN documents
       /\ s.op = "link" => <<s.user, s.copy, TRUE>> \notin employee_document
  /\ \A g, h \in Handlers :
       /\ handlers[g].op \in SignOps /\ handlers[h].op \in SignOps
       /\ handlers[g].copy = handlers[h].copy
       => g = h
  /\ bucket \subseteq Uploads \cup 1 .. signs

\* A call goes on about the same copy, and not backwards, or ends.
CallsGoOn ==
  \A h \in Handlers :
    LET s == handlers[h]
        t == handlers'[h] IN
    t.op \in SignOps => /\ s.op \in SignOps /\ t.copy = s.copy /\ t.user = s.user
                        /\ t.op # "link" => s.op # "link"

LEMMA InitCallsWork == Init => CallsWork
  BY DEF Init, CallsWork, SignOps, Idle

LEMMA WorkGoesOn ==
  ASSUME CallsWork, CallsGoOn, UNCHANGED signs,
         \A h \in Handlers : handlers'[h].op \in SignOps =>
           /\ handlers'[h].op # "link" => handlers[h].copy \notin DOMAIN documents'
           /\ handlers'[h].op = "link" =>
                <<handlers[h].user, handlers[h].copy, TRUE>> \notin employee_document',
         bucket' \subseteq bucket \cup Uploads \cup 1 .. signs
  PROVE  CallsWork'
<1>1. \A h \in Handlers :
        LET s == handlers'[h] IN
        /\ s.op \in SignOps /\ s.op # "link" => s.copy \notin DOMAIN documents'
        /\ s.op = "link" => <<s.user, s.copy, TRUE>> \notin employee_document'
  BY DEF CallsGoOn, SignOps
<1>2. \A g, h \in Handlers :
        /\ handlers'[g].op \in SignOps /\ handlers'[h].op \in SignOps
        /\ handlers'[g].copy = handlers'[h].copy
        => g = h
  BY DEF CallsGoOn, CallsWork
<1>3. bucket' \subseteq Uploads \cup 1 .. signs'
  BY DEF CallsWork
<1> QED
  BY <1>1, <1>2, <1>3 DEF CallsWork

\* When a copy's call is at work, there is no link to the copy.
LEMMA WorkedIsUnlisted ==
  ASSUME IInv, CallsWork, NEW h \in Handlers, handlers[h].op \in SignOps
  PROVE  LET c == handlers[h].copy IN
         /\ c \in 1 .. signs /\ c \in DOMAIN signer
         /\ Worked(c)
         /\ <<signer[c].by, c, TRUE>> \notin employee_document
<1>1. SignLocals(handlers[h])
  BY LocalsCases
<1>2. employee_document \subseteq employees \X (DOMAIN documents) \X BOOLEAN
  BY DEF IInv, TypeOK
<1> DEFINE c == handlers[h].copy
<1>3. c \in 1 .. signs /\ c \in DOMAIN signer /\ signer[c].by = handlers[h].user
  BY <1>1 DEF SignLocals, IInv, TypeOK
<1>4. Worked(c)
  BY DEF Worked, SignOps
<1>5. <<handlers[h].user, c, TRUE>> \notin employee_document
  <2>1. CASE handlers[h].op = "link"
    BY <2>1 DEF CallsWork
  <2>2. CASE handlers[h].op # "link"
    <3>1. c \notin DOMAIN documents
      BY <2>2 DEF CallsWork
    <3> QED
      BY <1>2, <3>1
  <2> QED
    BY <2>1, <2>2
<1> QED
  BY <1>3, <1>4, <1>5

LEMMA ListedIsDone ==
  ASSUME IInv, CallsWork, NEW k \in 1 .. signs,
         <<signer[k].by, k, TRUE>> \in employee_document
  PROVE  ~Worked(k)
  BY WorkedIsUnlisted DEF Worked, SignOps

----------------------------------------------------------------------------
(* How a step may change the phases *)

LEMMA PhaseStays ==
  ASSUME NEW k, signer'[k] = signer[k],
         <<signer[k].by, k, TRUE>> \in employee_document'
           <=> <<signer[k].by, k, TRUE>> \in employee_document,
         Worked(k)' <=> Worked(k),
         k \in DOMAIN documents' <=> k \in DOMAIN documents,
         k \in bucket' <=> k \in bucket
  PROVE  PhaseOf(k)' = PhaseOf(k)
  BY Zenon DEF PhaseOf

LEMMA StuttersLifecycle ==
  ASSUME employees' = employees, signer' = signer,
         \A k \in DOMAIN signer : PhaseOf(k)' = PhaseOf(k)
  PROVE  UNCHANGED L!vars
  BY DEF L!vars

LEMMA TurnsPhases ==
  ASSUME signer' = signer, NEW copies, NEW p,
         \A k \in DOMAIN signer :
           PhaseOf(k)' = IF k \in copies THEN p ELSE PhaseOf(k)
  PROVE  L!Turn(copies, p)
  BY DEF L!Turn

LEMMA InPhases ==
  ASSUME NEW k \in DOMAIN signer, NEW phases
  PROVE  k \in L!In(phases) <=> PhaseOf(k) \in phases
  BY DEF L!In

LEMMA HandlersAfter ==
  ASSUME IInv, NEW h \in Handlers, NEW x, Become(h, x)
  PROVE  /\ handlers'[h] = x
         /\ \A g \in Handlers : g # h => handlers'[g] = handlers[g]
  BY DEF IInv, HandlersHold, Become

\* A call that changes nothing but where it is, and not its copy.
LEMMA SameWork ==
  ASSUME NEW h \in Handlers,
         \A g \in Handlers : g # h => handlers'[g] = handlers[g],
         handlers'[h].op \in SignOps <=> handlers[h].op \in SignOps,
         handlers[h].op \in SignOps => handlers'[h].copy = handlers[h].copy,
         NEW k
  PROVE  Worked(k)' <=> Worked(k)
  BY DEF Worked, SignOps

\* A call that ends.
LEMMA WorkEnds ==
  ASSUME CallsWork, NEW h \in Handlers,
         handlers[h].op \in SignOps, handlers'[h].op \notin SignOps,
         \A g \in Handlers : g # h => handlers'[g] = handlers[g],
         NEW k
  PROVE  Worked(k)' <=> Worked(k) /\ k # handlers[h].copy
  BY DEF Worked, SignOps, CallsWork

LEMMA SignerIsKnown ==
  ASSUME IInv
  PROVE  /\ DOMAIN signer = 1 .. signs
         /\ \A k \in DOMAIN signer : k \notin Uploads /\ k \in Nat
         /\ signs \in Nat
  BY SigningAssumption DEF IInv, TypeOK

----------------------------------------------------------------------------
(* The actions *)

LEMMA UploadMaps ==
  ASSUME IInv, CallsWork, NEW d \in Uploads, Upload(d)
  PROVE  UNCHANGED L!vars /\ CallsWork'
<1>1. UNCHANGED <<employees, documents, employee_document, handlers, signs, signer>>
      /\ bucket' = bucket \cup {d}
  BY DEF Upload
<1>2. ASSUME NEW k \in DOMAIN signer PROVE PhaseOf(k)' = PhaseOf(k)
  <2>1. k # d
    BY SignerIsKnown
  <2> QED
    BY <1>1, <2>1 DEF PhaseOf, Worked
<1>3. CallsWork'
  BY <1>1 DEF CallsWork
<1> QED
  BY <1>1, <1>2, <1>3, StuttersLifecycle

LEMMA BeginSendMaps ==
  ASSUME IInv, CallsWork, NEW h \in Handlers, NEW d \in Uploads, NEW parent,
         NEW required, NEW recipients, BeginSend(h, d, parent, required, recipients)
  PROVE  UNCHANGED L!vars /\ CallsWork'
<1> DEFINE next == [op |-> "send", document |-> d, recipients |-> recipients]
<1>1. /\ UNCHANGED <<employees, employee_document, bucket, signs, signer>>
      /\ DOMAIN documents' = DOMAIN documents \cup {d}
      /\ handlers[h].op \notin SignOps
      /\ Become(h, next)
  BY DEF BeginSend, InsertDocument, SignOps, Idle
<1>2. /\ handlers'[h] = next
      /\ \A g \in Handlers : g # h => handlers'[g] = handlers[g]
  BY <1>1, HandlersAfter
<1>3. handlers'[h].op \notin SignOps
  BY <1>2 DEF SignOps
<1>4. ASSUME NEW k \in DOMAIN signer PROVE PhaseOf(k)' = PhaseOf(k)
  <2>1. k # d
    BY SignerIsKnown
  <2>2. Worked(k)' <=> Worked(k)
    BY <1>1, <1>2, <1>3, SameWork
  <2> QED
    BY <1>1, <2>1, <2>2, PhaseStays
<1>5. CallsGoOn
  BY <1>2, <1>3 DEF CallsGoOn
<1>6. ASSUME NEW g \in Handlers, handlers'[g].op \in SignOps
      PROVE  /\ handlers'[g].op # "link" => handlers[g].copy \notin DOMAIN documents'
             /\ handlers'[g].op = "link" =>
                  <<handlers[g].user, handlers[g].copy, TRUE>> \notin employee_document'
  <2>1. handlers'[g] = handlers[g]
    BY <1>2, <1>3, <1>6
  <2>2. handlers[g].copy \in DOMAIN signer
    BY <1>6, <2>1, WorkedIsUnlisted
  <2>3. handlers[g].copy # d
    BY <2>2, SignerIsKnown
  <2> QED
    BY <1>1, <1>6, <2>1, <2>3 DEF CallsWork
<1>7. CallsWork'
  BY <1>1, <1>5, <1>6, WorkGoesOn
<1> QED
  BY <1>1, <1>4, <1>7, StuttersLifecycle

LEMMA SendLinksMaps ==
  ASSUME IInv, CallsWork, NEW h \in Handlers, SendLinks(h)
  PROVE  UNCHANGED L!vars /\ CallsWork'
<1>1. /\ UNCHANGED <<employees, documents, bucket, signs, signer>>
      /\ handlers[h].op \notin SignOps
      /\ Become(h, Idle)
  BY DEF SendLinks, SignOps
<1>2. \A e, k : <<e, k, TRUE>> \in employee_document'
                  <=> <<e, k, TRUE>> \in employee_document
  <2> DEFINE new == {<<e, handlers[h].document, FALSE>> : e \in handlers[h].recipients}
  <2>1. employee_document' \in {employee_document, employee_document \cup new}
    BY DEF SendLinks
  <2>2. \A e, k : <<e, k, TRUE>> \notin new
    OBVIOUS
  <2> QED
    BY <2>1, <2>2
<1>3. /\ handlers'[h] = Idle
      /\ \A g \in Handlers : g # h => handlers'[g] = handlers[g]
  BY <1>1, HandlersAfter
<1>4. handlers'[h].op \notin SignOps
  BY <1>3 DEF SignOps, Idle
<1>5. ASSUME NEW k \in DOMAIN signer PROVE PhaseOf(k)' = PhaseOf(k)
  <2>1. Worked(k)' <=> Worked(k)
    BY <1>1, <1>3, <1>4, SameWork
  <2> QED
    BY <1>1, <1>2, <2>1, PhaseStays
<1>6. CallsGoOn
  BY <1>3, <1>4 DEF CallsGoOn
<1>7. ASSUME NEW g \in Handlers, handlers'[g].op \in SignOps
      PROVE  /\ handlers'[g].op # "link" => handlers[g].copy \notin DOMAIN documents'
             /\ handlers'[g].op = "link" =>
                  <<handlers[g].user, handlers[g].copy, TRUE>> \notin employee_document'
  <2>1. handlers'[g] = handlers[g]
    BY <1>3, <1>4, <1>7
  <2> QED
    BY <1>1, <1>2, <1>7, <2>1 DEF CallsWork
<1>8. CallsWork'
  BY <1>1, <1>6, <1>7, WorkGoesOn
<1> QED
  BY <1>1, <1>5, <1>8, StuttersLifecycle

\* What no step but a signature's first says of the requests.
Files == <<employees, documents, employee_document, signs, signer>>

LEMMA GiveUpIsNext ==
  ASSUME NEW copies, L!GiveUp(copies)
  PROVE  L!Next
  BY DEF L!Next, L!GiveUp

\* A call waits on, or goes on, without touching anything.
LEMMA WaitMaps ==
  ASSUME IInv, CallsWork, NEW h \in Handlers, NEW next, Become(h, next),
         handlers[h].op \in SignOps \ {"link"}, next.op \in SignOps \ {"link"},
         next.copy = handlers[h].copy, next.user = handlers[h].user,
         UNCHANGED Files, UNCHANGED bucket
  PROVE  UNCHANGED L!vars /\ CallsWork'
<1>1. /\ handlers'[h] = next
      /\ \A g \in Handlers : g # h => handlers'[g] = handlers[g]
  BY HandlersAfter
<1>2. ASSUME NEW k \in DOMAIN signer PROVE PhaseOf(k)' = PhaseOf(k)
  <2>1. Worked(k)' <=> Worked(k)
    BY <1>1, SameWork
  <2> QED
    BY <2>1, PhaseStays DEF Files
<1>3. CallsGoOn
  BY <1>1 DEF CallsGoOn
<1>4. ASSUME NEW g \in Handlers, handlers'[g].op \in SignOps
      PROVE  /\ handlers'[g].op # "link" => handlers[g].copy \notin DOMAIN documents'
             /\ handlers'[g].op = "link" =>
                  <<handlers[g].user, handlers[g].copy, TRUE>> \notin employee_document'
  BY <1>1, <1>4 DEF CallsWork, Files
<1>5. CallsWork'
  BY <1>3, <1>4, WorkGoesOn DEF Files
<1> QED
  BY <1>2, <1>5, StuttersLifecycle DEF Files

\* A call ends and leaves its copy as it is.
LEMMA EndsMap ==
  ASSUME IInv, CallsWork, NEW h \in Handlers, Become(h, Idle),
         handlers[h].op \in SignOps, UNCHANGED Files, UNCHANGED bucket
  PROVE  L!Next /\ CallsWork'
<1> DEFINE c == handlers[h].copy
<1>1. /\ handlers'[h] = Idle
      /\ \A g \in Handlers : g # h => handlers'[g] = handlers[g]
  BY HandlersAfter
<1>2. handlers'[h].op \notin SignOps
  BY <1>1 DEF SignOps, Idle
<1>3. /\ c \in DOMAIN signer /\ Worked(c)
      /\ <<signer[c].by, c, TRUE>> \notin employee_document
  BY WorkedIsUnlisted
<1>4. \A k : Worked(k)' <=> Worked(k) /\ k # c
  BY <1>1, <1>2, WorkEnds
<1>5. ASSUME NEW k \in DOMAIN signer
      PROVE  PhaseOf(k)' = IF k \in {c} THEN "over" ELSE PhaseOf(k)
  <2>1. CASE k = c
    <3>1. ~Worked(k)' /\ <<signer'[k].by, k, TRUE>> \notin employee_document'
      BY <1>3, <1>4, <2>1 DEF Files
    <3> QED
      BY <2>1, <3>1 DEF PhaseOf
  <2>2. CASE k # c
    <3>1. Worked(k)' <=> Worked(k)
      BY <1>4, <2>2
    <3>2. PhaseOf(k)' = PhaseOf(k)
      BY <3>1, PhaseStays DEF Files
    <3> QED
      BY <2>2, <3>2
  <2> QED
    BY <2>1, <2>2
<1>6. PhaseOf(c) \in {"asked", "stamped", "kept"}
  BY <1>3 DEF PhaseOf
<1>7. L!GiveUp({c})
  <2>1. {c} \subseteq L!In({"asked", "stamped", "kept"})
    BY <1>3, <1>6, InPhases
  <2>2. L!Turn({c}, "over")
    BY <1>5, TurnsPhases DEF Files
  <2> QED
    BY <2>1, <2>2 DEF L!GiveUp, Files
<1>8. CallsGoOn
  BY <1>1, <1>2 DEF CallsGoOn
<1>9. ASSUME NEW g \in Handlers, handlers'[g].op \in SignOps
      PROVE  /\ handlers'[g].op # "link" => handlers[g].copy \notin DOMAIN documents'
             /\ handlers'[g].op = "link" =>
                  <<handlers[g].user, handlers[g].copy, TRUE>> \notin employee_document'
  <2>1. handlers'[g] = handlers[g]
    BY <1>1, <1>2, <1>9
  <2> QED
    BY <1>9, <2>1 DEF CallsWork, Files
<1>10. CallsWork'
  BY <1>8, <1>9, WorkGoesOn DEF Files
<1> QED
  BY <1>7, <1>10, GiveUpIsNext

LEMMA UnansweredMaps ==
  ASSUME IInv, CallsWork, NEW h \in Handlers, NEW posts,
         handlers[h].op = "stamp", Unanswered(h, posts),
         UNCHANGED Files, UNCHANGED bucket
  PROVE  [L!Next]_L!vars /\ CallsWork'
<1> DEFINE s == handlers[h]
           next == [s EXCEPT !.attempt = @ + 1]
<1>1. \/ Become(h, next)
      \/ Become(h, Idle)
  BY DEF Unanswered
<1>2. next.op = s.op /\ next.copy = s.copy /\ next.user = s.user
  <2>1. Locals(s) /\ s # Idle
    BY DEF IInv, HandlersHold, Idle
  <2> QED
    BY <2>1
<1>3. s.op \in SignOps \ {"link"}
  BY DEF SignOps
<1> HIDE DEF next
<1> QED
  BY <1>1, <1>2, <1>3, WaitMaps, EndsMap

LEMMA BeginSignMaps ==
  ASSUME IInv, CallsWork, NEW h \in Handlers, NEW e \in Employees,
         NEW d \in DOMAIN documents, BeginSign(h, e, d)
  PROVE  L!Next /\ CallsWork'
<1>0. PICK c : c = signs + 1
  OBVIOUS
<1> DEFINE next == [op |-> "stamp", user |-> e, document |-> d, copy |-> c,
                    attempt |-> 1]
<1>1. /\ UNCHANGED <<employees, documents, employee_document, bucket>>
      /\ handlers[h] = Idle /\ e \in employees
      /\ signs' = c /\ signs < MaxSigns
      /\ signer' = [k \in DOMAIN signer \cup {c} |->
                      IF k = c THEN [by |-> e, of |-> d] ELSE signer[k]]
      /\ Become(h, next)
  BY <1>0 DEF BeginSign
<1>2. /\ handlers'[h] = next
      /\ \A g \in Handlers : g # h => handlers'[g] = handlers[g]
  BY <1>1, HandlersAfter
<1>3. /\ signs \in Nat /\ DOMAIN signer = 1 .. signs /\ c \notin DOMAIN signer
      /\ c \notin Uploads /\ c \in 1 .. MaxSigns
  BY <1>0, <1>1, SignerIsKnown, SigningAssumption
<1>4. c \notin DOMAIN documents /\ c \notin bucket
  BY <1>0, <1>3 DEF IInv, CopiesAreAskedFor, CallsWork
<1>5. handlers[h].op \notin SignOps /\ handlers'[h].op \in SignOps /\ handlers'[h].copy = c
  BY <1>1, <1>2 DEF SignOps, Idle
<1>6. PhaseOf(c)' = "asked"
  <2>1. <<signer'[c].by, c, TRUE>> \notin employee_document'
    BY <1>1, <1>4 DEF IInv, TypeOK
  <2>2. Worked(c)'
    BY <1>5 DEF Worked, SignOps
  <2> QED
    BY <1>1, <1>4, <2>1, <2>2 DEF PhaseOf
<1>7. ASSUME NEW k \in DOMAIN signer PROVE PhaseOf(k)' = PhaseOf(k)
  <2>1. k # c /\ signer'[k] = signer[k]
    BY <1>1, <1>3
  <2>2. Worked(k)' <=> Worked(k)
    BY <1>2, <1>5, <2>1 DEF Worked, SignOps
  <2> QED
    BY <1>1, <2>1, <2>2, PhaseStays
<1>8. d \in Uploads \cup L!In({"kept", "listed", "over"})
  <2>1. CASE d \notin Uploads
    <3>1. d \in DOMAIN signer
      BY <1>3, <2>1 DEF IInv, CopiesAreAskedFor
    <3>2. PhaseOf(d) \in {"kept", "listed", "over"}
      BY DEF PhaseOf
    <3> QED
      BY <3>1, <3>2, InPhases
  <2> QED
    BY <2>1
<1>9. L!Ask(c, e, d)
  <2>1. [k \in DOMAIN signer' |-> PhaseOf(k)'] =
          [k \in DOMAIN signer \cup {c} |-> IF k = c THEN "asked" ELSE PhaseOf(k)]
    BY <1>1, <1>6, <1>7
  <2>2. \A k \in DOMAIN signer : [j \in DOMAIN signer |-> PhaseOf(j)][k] = PhaseOf(k)
    OBVIOUS
  <2> QED
    BY <1>1, <1>3, <1>8, <2>1, <2>2 DEF L!Ask
<1>10. L!Next
  <2>1. d \in Uploads \cup DOMAIN signer
    BY <1>3 DEF IInv, CopiesAreAskedFor
  <2> QED
    BY <1>1, <1>3, <1>9, <2>1 DEF L!Next
<1>11. CallsWork'
  <2>1. \A g \in Handlers : handlers[g].op \in SignOps => handlers[g].copy # c
    BY <1>0, <1>3, WorkedIsUnlisted
  <2>2. \A g \in Handlers :
          LET s == handlers'[g] IN
          /\ s.op \in SignOps /\ s.op # "link" => s.copy \notin DOMAIN documents'
          /\ s.op = "link" => <<s.user, s.copy, TRUE>> \notin employee_document'
    <3>1. /\ next.op \in SignOps /\ next.op # "link" => next.copy \notin DOMAIN documents
          /\ next.op # "link"
      BY <1>4
    <3>2. \A g \in Handlers : g # h =>
            /\ handlers'[g].op \in SignOps /\ handlers'[g].op # "link" =>
                 handlers'[g].copy \notin DOMAIN documents
            /\ handlers'[g].op = "link" =>
                 <<handlers'[g].user, handlers'[g].copy, TRUE>> \notin employee_document
      BY <1>2 DEF CallsWork
    <3> HIDE DEF next
    <3> QED
      BY <1>1, <1>2, <3>1, <3>2
  <2>3. \A f, g \in Handlers :
          /\ handlers'[f].op \in SignOps /\ handlers'[g].op \in SignOps
          /\ handlers'[f].copy = handlers'[g].copy
          => f = g
    BY <1>2, <1>5, <2>1 DEF CallsWork
  <2>4. bucket' \subseteq Uploads \cup 1 .. signs'
    BY <1>0, <1>1, <1>3 DEF CallsWork
  <2> QED
    BY <2>2, <2>3, <2>4 DEF CallsWork
<1> QED
  BY <1>10, <1>11

\* A file of a copy comes into the bucket: its stamp, unless it is over or was
\* stamped before.
LEMMA StampedMaps ==
  ASSUME IInv, CallsWork, NEW k \in DOMAIN signer,
         UNCHANGED Files, bucket' = bucket \cup {k},
         \A h \in Handlers :
           LET s == handlers[h]
               t == handlers'[h] IN
           \/ t = s
           \/ /\ s.op \in SignOps \ {"link"} /\ t.op \in SignOps \ {"link"}
              /\ t.copy = s.copy /\ t.user = s.user
  PROVE  [L!Next]_L!vars /\ CallsWork'
<1>1. ASSUME NEW j PROVE Worked(j)' <=> Worked(j)
  <2>1. \A h \in Handlers :
          (handlers'[h].op \in SignOps /\ handlers'[h].copy = j)
            <=> (handlers[h].op \in SignOps /\ handlers[h].copy = j)
    OBVIOUS
  <2> QED
    BY <2>1 DEF Worked, SignOps
<1>2. ASSUME NEW j \in DOMAIN signer, j # k PROVE PhaseOf(j)' = PhaseOf(j)
  BY <1>1, <1>2, PhaseStays DEF Files
<1>3. PhaseOf(k)' = IF PhaseOf(k) = "asked" THEN "stamped" ELSE PhaseOf(k)
  <2>1. Worked(k)' <=> Worked(k)
    BY <1>1
  <2>2. k \in bucket'
    OBVIOUS
  <2> QED
    BY <2>1, <2>2 DEF PhaseOf, Files
<1>4. [L!Next]_L!vars
  <2>1. CASE PhaseOf(k) = "asked"
    <3>1. k \in L!In({"asked"}) /\ k \in L!In({"asked", "stamped", "kept"})
      BY <2>1, InPhases
    <3>2. L!Turn({k}, "stamped")
      BY <1>2, <1>3, <2>1, TurnsPhases DEF Files
    <3>3. L!Stamp(k)
      BY <3>1, <3>2 DEF L!Stamp, Files
    <3> QED
      BY <3>1, <3>3 DEF L!Next
  <2>2. CASE PhaseOf(k) # "asked"
    BY <1>2, <1>3, <2>2, StuttersLifecycle DEF Files
  <2> QED
    BY <2>1, <2>2
<1>5. CallsGoOn
  BY DEF CallsGoOn
<1>6. ASSUME NEW g \in Handlers, handlers'[g].op \in SignOps
      PROVE  /\ handlers'[g].op # "link" => handlers[g].copy \notin DOMAIN documents'
             /\ handlers'[g].op = "link" =>
                  <<handlers[g].user, handlers[g].copy, TRUE>> \notin employee_document'
  BY <1>6 DEF CallsWork, Files
<1>7. CallsWork'
  BY <1>5, <1>6, SignerIsKnown, WorkGoesOn DEF Files
<1> QED
  BY <1>4, <1>7

LEMMA StampMaps ==
  ASSUME IInv, CallsWork, NEW k \in 1 .. signs, NEW n, Stamp(k, n)
  PROVE  [L!Next]_L!vars /\ CallsWork'
<1>1. UNCHANGED Files /\ bucket' = bucket \cup {k} /\ k \in DOMAIN signer
  BY SignerIsKnown DEF Stamp, Files
<1>2. CASE UNCHANGED handlers
  BY <1>1, <1>2, StampedMaps
<1>3. ASSUME NEW h \in Handlers, Awaits(h, k, n),
             Become(h, [handlers[h] EXCEPT !.op = "unlink"])
      PROVE  [L!Next]_L!vars /\ CallsWork'
  <2> DEFINE s == handlers[h]
             next == [s EXCEPT !.op = "unlink"]
  <2>1. SignLocals(s) /\ s.op = "stamp"
    BY <1>3, LocalsCases DEF Awaits, SignOps
  <2>2. next.copy = s.copy /\ next.user = s.user
    OBVIOUS
  <2>3. next.op = "unlink"
    BY <1>3, <2>1 DEF SignLocals, IInv, HandlersHold, Locals, SendLocals, Idle
  <2>4. /\ handlers'[h] = next
        /\ \A g \in Handlers : g # h => handlers'[g] = handlers[g]
    BY <1>3, HandlersAfter
  <2> HIDE DEF next
  <2> QED
    BY <1>1, <2>1, <2>2, <2>3, <2>4, StampedMaps DEF SignOps
<1> QED
  BY <1>2, <1>3 DEF Stamp

LEMMA FailStampMaps ==
  ASSUME IInv, CallsWork, NEW k, NEW n, FailStamp(k, n)
  PROVE  [L!Next]_L!vars /\ CallsWork'
<1>1. UNCHANGED Files /\ UNCHANGED bucket
  BY DEF FailStamp, Files
<1>2. CASE UNCHANGED handlers
  <2>1. CallsWork'
    BY <1>1, <1>2 DEF CallsWork, Files
  <2>2. ASSUME NEW j \in DOMAIN signer PROVE PhaseOf(j)' = PhaseOf(j)
    BY <1>1, <1>2 DEF PhaseOf, Worked, Files
  <2> QED
    BY <1>1, <2>1, <2>2, StuttersLifecycle DEF Files
<1>3. ASSUME NEW h \in Handlers, Awaits(h, k, n),
             Unanswered(h, stamping \ {<<k, n>>})
      PROVE  [L!Next]_L!vars /\ CallsWork'
  BY <1>1, <1>3, UnansweredMaps DEF Awaits
<1> QED
  BY <1>2, <1>3 DEF FailStamp

LEMMA TimeOutMaps ==
  ASSUME IInv, CallsWork, NEW h \in Handlers, TimeOut(h)
  PROVE  [L!Next]_L!vars /\ CallsWork'
  BY UnansweredMaps DEF TimeOut, Files

LEMMA AbortMaps ==
  ASSUME IInv, CallsWork, NEW h \in Handlers, Abort(h)
  PROVE  [L!Next]_L!vars /\ CallsWork'
<1>1. UNCHANGED Files /\ UNCHANGED bucket /\ Become(h, Idle)
  BY DEF Abort, Files
<1>2. CASE handlers[h].op \in SignOps
  BY <1>1, <1>2, EndsMap
<1>3. CASE handlers[h].op \notin SignOps
  <2>1. /\ handlers'[h] = Idle
        /\ \A g \in Handlers : g # h => handlers'[g] = handlers[g]
    BY <1>1, HandlersAfter
  <2>2. handlers'[h].op \notin SignOps
    BY <2>1 DEF SignOps, Idle
  <2>3. ASSUME NEW k \in DOMAIN signer PROVE PhaseOf(k)' = PhaseOf(k)
    <3>1. Worked(k)' <=> Worked(k)
      BY <1>3, <2>1, <2>2, SameWork
    <3> QED
      BY <1>1, <3>1, PhaseStays DEF Files
  <2>4. CallsWork'
    <3>1. \A g \in Handlers : handlers'[g].op \in SignOps => handlers'[g] = handlers[g]
      BY <2>1, <2>2
    <3>2. CallsGoOn
      BY <3>1 DEF CallsGoOn
    <3> QED
      BY <1>1, <3>1, <3>2, WorkGoesOn DEF CallsWork, Files, SignOps
  <2> QED
    BY <1>1, <2>3, <2>4, StuttersLifecycle DEF Files
<1> QED
  BY <1>2, <1>3

LEMMA RestartMaps ==
  ASSUME IInv, CallsWork, Restart
  PROVE  L!Next /\ CallsWork'
<1>1. /\ UNCHANGED Files /\ UNCHANGED bucket
      /\ \A h \in Handlers : handlers'[h] = Idle
  BY DEF Restart, Files
<1>2. \A h \in Handlers : handlers'[h].op \notin SignOps
  BY <1>1 DEF SignOps, Idle
<1>3. PICK copies : copies = {k \in DOMAIN signer : Worked(k)}
  OBVIOUS
<1>4. ASSUME NEW k \in DOMAIN signer
      PROVE  PhaseOf(k)' = IF k \in copies THEN "over" ELSE PhaseOf(k)
  <2>1. ~Worked(k)'
    BY <1>2 DEF Worked, SignOps
  <2>2. Worked(k) => <<signer[k].by, k, TRUE>> \notin employee_document
    BY SignerIsKnown, ListedIsDone
  <2> QED
    BY <1>1, <1>3, <2>1, <2>2 DEF PhaseOf, Files
<1>5. copies \subseteq L!In({"asked", "stamped", "kept"})
  <2>1. ASSUME NEW k \in copies PROVE k \in L!In({"asked", "stamped", "kept"})
    <3>1. k \in DOMAIN signer /\ Worked(k)
      BY <1>3
    <3>2. <<signer[k].by, k, TRUE>> \notin employee_document
      BY <3>1, SignerIsKnown, ListedIsDone
    <3>3. PhaseOf(k) \in {"asked", "stamped", "kept"}
      BY <3>1, <3>2 DEF PhaseOf
    <3> QED
      BY <3>1, <3>3, InPhases
  <2> QED
    BY <2>1
<1>6. L!GiveUp(copies)
  <2>1. L!Turn(copies, "over")
    BY <1>1, <1>4, TurnsPhases DEF Files
  <2> QED
    BY <1>1, <1>5, <2>1 DEF L!GiveUp, Files
<1>7. CallsWork'
  <2>1. CallsGoOn
    BY <1>2 DEF CallsGoOn
  <2> QED
    BY <1>1, <1>2, <2>1, WorkGoesOn DEF Files
<1> QED
  BY <1>6, <1>7, GiveUpIsNext

\* The call of a copy of k takes the link to k away.
LEMMA UnlinkMaps ==
  ASSUME IInv, CallsWork, NEW h \in Handlers, Unlink(h)
  PROVE  [L!Next]_L!vars /\ CallsWork'
<1> DEFINE s == handlers[h]
           next == [s EXCEPT !.op = "copy"]
<1>1. /\ UNCHANGED <<employees, documents, bucket, signs, signer>>
      /\ s.op = "unlink" /\ Become(h, next)
      /\ employee_document' =
           employee_document \ {<<s.user, s.document, b>> : b \in BOOLEAN}
  BY DEF Unlink
<1>2. SignLocals(s) /\ s.op \in SignOps \ {"link"}
  BY <1>1, LocalsCases DEF SignOps
<1>3. next.copy = s.copy /\ next.user = s.user
  OBVIOUS
<1>4. next.op = "copy"
  BY <1>1, <1>2 DEF SignLocals, IInv, HandlersHold, Locals, SendLocals, Idle
<1>5. /\ handlers'[h] = next
      /\ \A g \in Handlers : g # h => handlers'[g] = handlers[g]
  BY <1>1, HandlersAfter
<1> HIDE DEF next
<1>6. handlers'[h].op \in SignOps /\ handlers'[h].op # "link" /\ handlers'[h].copy = s.copy
      /\ handlers'[h].user = s.user
  BY <1>3, <1>4, <1>5 DEF SignOps
<1>7. \A k : Worked(k)' <=> Worked(k)
  BY <1>2, <1>5, <1>6, SameWork
<1>8. \A e, k : <<e, k, TRUE>> \in employee_document'
                  <=> /\ <<e, k, TRUE>> \in employee_document
                      /\ ~(e = s.user /\ k = s.document)
  BY <1>1
<1>9. CallsWork'
  <2>1. CallsGoOn
    BY <1>2, <1>5, <1>6 DEF CallsGoOn
  <2>2. ASSUME NEW g \in Handlers, handlers'[g].op \in SignOps
        PROVE  /\ handlers'[g].op # "link" => handlers[g].copy \notin DOMAIN documents'
               /\ handlers'[g].op = "link" =>
                    <<handlers[g].user, handlers[g].copy, TRUE>> \notin employee_document'
    BY <1>1, <1>2, <1>5, <1>6, <1>8, <2>2 DEF CallsWork
  <2> QED
    BY <1>1, <2>1, <2>2, WorkGoesOn
<1>10. PICK d : d = s.document
  OBVIOUS
<1>11. ASSUME NEW k \in DOMAIN signer,
              ~(k = d /\ signer[k].by = s.user)
       PROVE  PhaseOf(k)' = PhaseOf(k)
  <2>1. <<signer[k].by, k, TRUE>> \in employee_document'
          <=> <<signer[k].by, k, TRUE>> \in employee_document
    BY <1>8, <1>10, <1>11
  <2> QED
    BY <1>1, <1>7, <2>1, PhaseStays
<1>12. CASE d \in DOMAIN signer /\ <<s.user, d, TRUE>> \in employee_document
            /\ signer[d].by = s.user
  <2>1. PhaseOf(d) = "listed"
    BY <1>12 DEF PhaseOf
  <2>2. ~Worked(d)
    BY <1>12, SignerIsKnown, ListedIsDone
  <2>3. PhaseOf(d)' = "over"
    <3>1. <<signer'[d].by, d, TRUE>> \notin employee_document' /\ ~Worked(d)'
      BY <1>1, <1>7, <1>8, <1>10, <1>12, <2>2
    <3> QED
      BY <3>1 DEF PhaseOf
  <2>4. L!Turn({d}, "over")
    BY <1>1, <1>11, <2>3, TurnsPhases
  <2>5. PhaseOf(s.copy) = "stamped" /\ s.copy \in DOMAIN signer
    <3>1. /\ Worked(s.copy) /\ s.copy \in DOMAIN signer
          /\ <<signer[s.copy].by, s.copy, TRUE>> \notin employee_document
      BY <1>2, WorkedIsUnlisted
    <3>2. s.copy \notin DOMAIN documents /\ s.copy \in bucket
      BY <1>1, <1>2 DEF CallsWork, SignLocals
    <3> QED
      BY <3>1, <3>2 DEF PhaseOf
  <2>6. signer[s.copy] = [by |-> signer[d].by, of |-> d]
    BY <1>2, <1>10, <1>12 DEF SignLocals
  <2>7. d \in L!In({"listed"}) /\ s.copy \in L!In({"stamped"})
    BY <1>12, <2>1, <2>5, InPhases
  <2>8. L!Supersede(d, s.copy)
    BY <1>1, <2>4, <2>6, <2>7 DEF L!Supersede
  <2>9. L!Next
    BY <2>7, <2>8 DEF L!Next
  <2> QED
    BY <1>9, <2>9
<1>13. CASE ~(d \in DOMAIN signer /\ <<s.user, d, TRUE>> \in employee_document
              /\ signer[d].by = s.user)
  <2>1. ASSUME NEW k \in DOMAIN signer PROVE PhaseOf(k)' = PhaseOf(k)
    <3>1. CASE k = d /\ signer[k].by = s.user
      <4>1. <<signer[k].by, k, TRUE>> \in employee_document'
              <=> <<signer[k].by, k, TRUE>> \in employee_document
        BY <1>8, <1>13, <3>1
      <4> QED
        BY <1>1, <1>7, <4>1, PhaseStays
    <3> QED
      BY <1>11, <3>1
  <2> QED
    BY <1>1, <1>9, <2>1, StuttersLifecycle
<1> QED
  BY <1>12, <1>13

LEMMA InsertCopyMaps ==
  ASSUME IInv, CallsWork, NEW h \in Handlers, InsertCopy(h)
  PROVE  L!Next /\ CallsWork'
<1> DEFINE s == handlers[h]
           next == [s EXCEPT !.op = "link"]
<1>1. /\ UNCHANGED <<employees, employee_document, bucket, signs, signer>>
      /\ s.op = "copy" /\ Become(h, next)
      /\ DOMAIN documents' = DOMAIN documents \cup {s.copy}
  BY DEF InsertCopy, InsertDocument
<1>2. SignLocals(s) /\ s.op \in SignOps \ {"link"}
  BY <1>1, LocalsCases DEF SignOps
<1>3. next.copy = s.copy /\ next.user = s.user
  OBVIOUS
<1>4. next.op = "link"
  BY <1>1, <1>2 DEF SignLocals, IInv, HandlersHold, Locals, SendLocals, Idle
<1>5. /\ handlers'[h] = next
      /\ \A g \in Handlers : g # h => handlers'[g] = handlers[g]
  BY <1>1, HandlersAfter
<1> HIDE DEF next
<1>6. handlers'[h].op = "link" /\ handlers'[h].op \in SignOps
      /\ handlers'[h].copy = s.copy /\ handlers'[h].user = s.user
  BY <1>3, <1>4, <1>5 DEF SignOps
<1>7. \A k : Worked(k)' <=> Worked(k)
  BY <1>2, <1>5, <1>6, SameWork
<1>8. PICK c : c = s.copy
  OBVIOUS
<1>9. /\ c \in DOMAIN signer /\ Worked(c) /\ c \notin DOMAIN documents /\ c \in bucket
      /\ <<signer[c].by, c, TRUE>> \notin employee_document /\ signer[c].by = s.user
  <2>1. /\ s.copy \in DOMAIN signer /\ Worked(s.copy)
        /\ <<signer[s.copy].by, s.copy, TRUE>> \notin employee_document
    BY <1>2, WorkedIsUnlisted
  <2>2. s.copy \notin DOMAIN documents
    BY <1>2 DEF CallsWork
  <2>3. s.copy \in bucket /\ signer[s.copy].by = s.user
    BY <1>1, <1>2 DEF SignLocals
  <2> QED
    BY <1>8, <2>1, <2>2, <2>3
<1>10. ASSUME NEW k \in DOMAIN signer
       PROVE  PhaseOf(k)' = IF k \in {c} THEN "kept" ELSE PhaseOf(k)
  <2>1. CASE k = c
    <3>1. /\ Worked(k)' /\ k \in DOMAIN documents'
          /\ <<signer'[k].by, k, TRUE>> \notin employee_document'
      BY <1>1, <1>7, <1>8, <1>9, <2>1
    <3> QED
      BY <2>1, <3>1 DEF PhaseOf
  <2>2. CASE k # c
    <3>1. PhaseOf(k)' = PhaseOf(k)
      BY <1>1, <1>7, <1>8, <2>2, PhaseStays
    <3> QED
      BY <2>2, <3>1
  <2> QED
    BY <2>1, <2>2
<1>11. PhaseOf(c) = "stamped"
  BY <1>9 DEF PhaseOf
<1>12. L!Next
  <2>1. c \in L!In({"stamped"}) /\ c \in L!In({"asked", "stamped", "kept"})
    BY <1>9, <1>11, InPhases
  <2>2. L!Turn({c}, "kept")
    BY <1>1, <1>10, TurnsPhases
  <2>3. L!Keep(c)
    BY <1>1, <2>1, <2>2 DEF L!Keep
  <2> QED
    BY <2>1, <2>3 DEF L!Next
<1>13. CallsWork'
  <2>1. CallsGoOn
    BY <1>2, <1>5, <1>6 DEF CallsGoOn
  <2>2. ASSUME NEW g \in Handlers, handlers'[g].op \in SignOps
        PROVE  /\ handlers'[g].op # "link" => handlers[g].copy \notin DOMAIN documents'
               /\ handlers'[g].op = "link" =>
                    <<handlers[g].user, handlers[g].copy, TRUE>> \notin employee_document'
    <3>1. CASE g = h
      BY <1>1, <1>6, <1>8, <1>9, <3>1
    <3>2. CASE g # h
      <4>1. handlers'[g] = handlers[g]
        BY <1>5, <3>2
      <4>2. handlers[g].copy # s.copy
        BY <1>2, <2>2, <3>2, <4>1 DEF CallsWork
      <4> QED
        BY <1>1, <2>2, <4>1, <4>2 DEF CallsWork
    <3> QED
      BY <3>1, <3>2
  <2> QED
    BY <1>1, <2>1, <2>2, WorkGoesOn
<1> QED
  BY <1>12, <1>13

LEMMA LinkCopyMaps ==
  ASSUME IInv, CallsWork, NEW h \in Handlers, LinkCopy(h)
  PROVE  [L!Next]_L!vars /\ CallsWork'
<1> DEFINE s == handlers[h]
<1>1. /\ UNCHANGED <<employees, documents, bucket, signs, signer>>
      /\ s.op = "link" /\ Become(h, Idle)
      /\ employee_document' =
           IF s.user \in employees
           THEN employee_document \cup {<<s.user, s.copy, TRUE>>}
           ELSE employee_document
  BY DEF LinkCopy
<1>2. SignLocals(s) /\ s.op \in SignOps
  BY <1>1, LocalsCases DEF SignOps
<1>3. CASE s.user \notin employees
  BY <1>1, <1>2, <1>3, EndsMap DEF Files
<1>4. CASE s.user \in employees
  <2>1. /\ handlers'[h] = Idle
        /\ \A g \in Handlers : g # h => handlers'[g] = handlers[g]
    BY <1>1, HandlersAfter
  <2>2. handlers'[h].op \notin SignOps
    BY <2>1 DEF SignOps, Idle
  <2>3. PICK c : c = s.copy
    OBVIOUS
  <2>4. /\ c \in DOMAIN signer /\ Worked(c) /\ c \in DOMAIN documents
        /\ <<signer[c].by, c, TRUE>> \notin employee_document /\ signer[c].by = s.user
    <3>1. /\ s.copy \in DOMAIN signer /\ Worked(s.copy)
          /\ <<signer[s.copy].by, s.copy, TRUE>> \notin employee_document
      BY <1>2, WorkedIsUnlisted
    <3>2. s.copy \in DOMAIN documents /\ signer[s.copy].by = s.user
      BY <1>1, <1>2 DEF SignLocals
    <3> QED
      BY <2>3, <3>1, <3>2
  <2>5. \A k : Worked(k)' <=> Worked(k) /\ k # c
    BY <1>2, <2>1, <2>2, <2>3, WorkEnds
  <2>6. \A e, k : <<e, k, TRUE>> \in employee_document'
                    <=> \/ <<e, k, TRUE>> \in employee_document
                        \/ e = s.user /\ k = c
    BY <1>1, <1>4, <2>3
  <2>7. ASSUME NEW k \in DOMAIN signer
        PROVE  PhaseOf(k)' = IF k \in {c} THEN "listed" ELSE PhaseOf(k)
    <3>1. CASE k = c
      <4>1. <<signer'[k].by, k, TRUE>> \in employee_document'
        BY <1>1, <2>4, <2>6, <3>1
      <4> QED
        BY <3>1, <4>1 DEF PhaseOf
    <3>2. CASE k # c
      <4>1. PhaseOf(k)' = PhaseOf(k)
        BY <1>1, <2>5, <2>6, <3>2, PhaseStays
      <4> QED
        BY <3>2, <4>1
    <3> QED
      BY <3>1, <3>2
  <2>8. PhaseOf(c) = "kept"
    BY <2>4 DEF PhaseOf
  <2>9. L!Next
    <3>1. c \in L!In({"kept"}) /\ c \in L!In({"asked", "stamped", "kept"})
      BY <2>4, <2>8, InPhases
    <3>2. L!Turn({c}, "listed")
      BY <1>1, <2>7, TurnsPhases
    <3>3. L!List(c)
      BY <1>1, <1>4, <2>4, <3>1, <3>2 DEF L!List
    <3> QED
      BY <3>1, <3>3 DEF L!Next
  <2>10. CallsWork'
    <3>1. CallsGoOn
      BY <2>1, <2>2 DEF CallsGoOn
    <3>2. ASSUME NEW g \in Handlers, handlers'[g].op \in SignOps
          PROVE  /\ handlers'[g].op # "link" => handlers[g].copy \notin DOMAIN documents'
                 /\ handlers'[g].op = "link" =>
                      <<handlers[g].user, handlers[g].copy, TRUE>> \notin employee_document'
      <4>1. g # h /\ handlers'[g] = handlers[g]
        BY <2>1, <2>2, <3>2
      <4>2. handlers[g].copy # c
        BY <1>2, <2>3, <3>2, <4>1 DEF CallsWork
      <4> QED
        BY <1>1, <2>6, <3>2, <4>1, <4>2 DEF CallsWork
    <3> QED
      BY <1>1, <3>1, <3>2, WorkGoesOn
  <2> QED
    BY <2>9, <2>10
<1> QED
  BY <1>3, <1>4

LEMMA RemoveEmployeeMaps ==
  ASSUME IInv, CallsWork, NEW e \in Employees, RemoveEmployee(e)
  PROVE  L!Next /\ CallsWork'
<1>1. /\ UNCHANGED <<documents, handlers, bucket, signs, signer>>
      /\ e \in employees /\ employees' = employees \ {e}
      /\ employee_document' = {link \in employee_document : link[1] # e}
  BY DEF RemoveEmployee
<1>2. \A u, k : <<u, k, TRUE>> \in employee_document'
                  <=> <<u, k, TRUE>> \in employee_document /\ u # e
  BY <1>1
<1>3. PICK gone : gone = {k \in L!In({"listed"}) : signer[k].by = e}
  OBVIOUS
<1>4. ASSUME NEW k \in DOMAIN signer
      PROVE  PhaseOf(k)' = IF k \in gone THEN "over" ELSE PhaseOf(k)
  <2>1. Worked(k)' <=> Worked(k)
    BY <1>1 DEF Worked
  <2>2. CASE k \in gone
    <3>1. PhaseOf(k) = "listed" /\ signer[k].by = e
      BY <1>3, <2>2, InPhases
    <3>2. <<signer[k].by, k, TRUE>> \in employee_document
      BY <3>1 DEF PhaseOf
    <3>3. ~Worked(k)' /\ <<signer'[k].by, k, TRUE>> \notin employee_document'
      BY <1>1, <1>2, <2>1, <3>1, <3>2, SignerIsKnown, ListedIsDone
    <3> QED
      BY <2>2, <3>3 DEF PhaseOf
  <2>3. CASE k \notin gone
    <3>1. ~(PhaseOf(k) = "listed" /\ signer[k].by = e)
      BY <1>3, <2>3, InPhases
    <3>2. <<signer[k].by, k, TRUE>> \in employee_document => signer[k].by # e
      BY <3>1 DEF PhaseOf
    <3>3. PhaseOf(k)' = PhaseOf(k)
      BY <1>1, <1>2, <2>1, <3>2, PhaseStays
    <3> QED
      BY <2>3, <3>3
  <2> QED
    BY <2>2, <2>3
<1>5. L!Next
  <2>1. L!Turn(gone, "over")
    BY <1>1, <1>4, TurnsPhases
  <2>2. L!Leave(e)
    BY <1>1, <1>3, <2>1 DEF L!Leave
  <2> QED
    BY <1>1, <2>2 DEF L!Next
<1>6. CallsWork'
  BY <1>1 DEF CallsWork
<1> QED
  BY <1>5, <1>6

LEMMA NextMaps == IInv /\ CallsWork /\ [Next]_vars => [L!Next]_L!vars /\ CallsWork'
<1> SUFFICES ASSUME IInv, CallsWork, [Next]_vars
             PROVE  [L!Next]_L!vars /\ CallsWork'
  OBVIOUS
<1>1. ASSUME NEW d \in Uploads, Upload(d)
      PROVE  [L!Next]_L!vars /\ CallsWork'
  BY <1>1, UploadMaps
<1>2. ASSUME NEW h \in Handlers, NEW d \in Uploads, NEW required \in BOOLEAN,
             NEW recipients \in Audiences, NEW parent \in {d} \cup DOMAIN documents,
             BeginSend(h, d, parent, required, recipients)
      PROVE  [L!Next]_L!vars /\ CallsWork'
  BY <1>2, BeginSendMaps
<1>3. ASSUME NEW h \in Handlers, NEW e \in Employees, NEW d \in DOMAIN documents,
             BeginSign(h, e, d)
      PROVE  [L!Next]_L!vars /\ CallsWork'
  BY <1>3, BeginSignMaps
<1>4. ASSUME NEW h \in Handlers, SendLinks(h) \/ TimeOut(h) \/ Unlink(h)
      PROVE  [L!Next]_L!vars /\ CallsWork'
  BY <1>4, SendLinksMaps, TimeOutMaps, UnlinkMaps
<1>5. ASSUME NEW h \in Handlers, InsertCopy(h) \/ LinkCopy(h) \/ Abort(h)
      PROVE  [L!Next]_L!vars /\ CallsWork'
  BY <1>5, InsertCopyMaps, LinkCopyMaps, AbortMaps
<1>6. ASSUME NEW k \in 1 .. signs, NEW n \in 1 .. Attempts, Stamp(k, n) \/ FailStamp(k, n)
      PROVE  [L!Next]_L!vars /\ CallsWork'
  BY <1>6, StampMaps, FailStampMaps
<1>7. ASSUME NEW e \in Employees, RemoveEmployee(e)
      PROVE  [L!Next]_L!vars /\ CallsWork'
  BY <1>7, RemoveEmployeeMaps
<1>8. CASE Restart
  BY <1>8, RestartMaps
<1>9. CASE UNCHANGED vars
  <2>1. CallsWork'
    BY <1>9 DEF vars, CallsWork
  <2>2. ASSUME NEW k \in DOMAIN signer PROVE PhaseOf(k)' = PhaseOf(k)
    BY <1>9 DEF vars, PhaseOf, Worked
  <2> QED
    BY <1>9, <2>1, <2>2, StuttersLifecycle DEF vars
<1> QED
  BY <1>1, <1>2, <1>3, <1>4, <1>5, <1>6, <1>7, <1>8, <1>9 DEF Next

LEMMA InitMaps == Init => L!Init
<1> SUFFICES ASSUME Init PROVE L!Init
  OBVIOUS
<1>1. employees = Employees /\ signer = <<>> /\ DOMAIN signer = {}
  BY DEF Init
<1>2. [k \in DOMAIN signer |-> PhaseOf(k)] = [k \in DOMAIN signer |-> "asked"]
  BY <1>1
<1> QED
  BY <1>1, <1>2 DEF L!Init

\* Every behaviour of the calls of sign, their posts and late answers, failures,
\* restarts and removals is one of the lifecycle: a signature is listed after it
\* was stamped and kept, and what was given up or taken away never comes back.
THEOREM SignaturesImplemented == Spec => ImplementsSignatures
<1>1. Init => CallsWork /\ L!Init
  BY InitCallsWork, InitMaps
<1>2. IInv /\ CallsWork /\ [Next]_vars => CallsWork' /\ [L!Next]_L!vars
  BY NextMaps
<1> QED
  BY <1>1, <1>2, SpecIInv, PTL DEF Spec, ImplementsSignatures, L!Spec
=============================================================================
