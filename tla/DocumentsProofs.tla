-------------------------- MODULE DocumentsProofs --------------------------
(***************************************************************************)
(* Proofs about VacationDocuments, for any number of employees, handlers,  *)
(* actions, notifications and exports: what its safety properties say of   *)
(* tasks, exports, the bucket and the rows they write.                     *)
(*                                                                         *)
(* They rest on the invariant of AbsenceProofs, which every step of        *)
(* NextAll keeps, being a step of Absence or none: an action that is gone  *)
(* never returns, so a task that finds its action finds one whose approval *)
(* was recorded.                                                           *)
(***************************************************************************)
EXTENDS VacationDocuments, AbsenceProofs, SequenceTheorems, FiniteSetTheorems,
        WellFoundedInduction

\* A handler that will spawn a task recorded the approval, unless the action
\* was gone by then.
SpawnsAreGranted ==
  \A h \in Handlers :
    handlers[h].op = "spawn" =>
      (handlers[h].action \in DOMAIN actions => handlers[h].action \in granted)

\* The steps at which a job has read its action, has its file, has its row.
HasRead   == {"posting", "inserting", "attaching", "done"}
HasFile   == {"inserting", "attaching", "done"}
HasRow    == {"attaching", "done"}

\* A task is about an action whose approval was recorded or that is gone.
TaskIsGranted(job) ==
  job.source = "task" =>
    /\ job.action \in DOMAIN lineage
    /\ job.action \in DOMAIN actions => job.action \in granted
    /\ job.step \in HasRead => job.action \in granted

\* What a job has read and written by the step it is at.
JobHolds(j) ==
  /\ TaskIsGranted(jobs[j])
  /\ jobs[j].step \in HasRead => Readers(j) \subseteq Employees
  /\ jobs[j].step \in HasFile => j \in bucket
  /\ jobs[j].step \in HasRow => j \in documents

DocumentsInv ==
  /\ JobsTypeOK
  /\ SpawnsAreGranted
  /\ \A j \in Jobs : JobHolds(j)
  /\ VerdictDocumentsAreGranted
  /\ DocumentsHaveFiles
  /\ DoneMeansDelivered
  /\ RunningTasksAreQueued

----------------------------------------------------------------------------
(* Every step of NextAll is one of Absence, or leaves its variables alone *)

\* A step of NextAll, seen from Absence.
LEMMA AbsenceStep == [NextAll]_allVars => [Next]_vars
<1> SUFFICES ASSUME [NextAll]_allVars PROVE [Next]_vars
  OBVIOUS
<1>1. CASE AbsenceSteps
  BY <1>1 DEF AbsenceSteps, Next
<1>2. ASSUME NEW h \in Handlers, SpawnTask(h) PROVE Next
  BY <1>2 DEF SpawnTask, Next
<1>3. ASSUME NEW a \in DOMAIN actions, NEW type \in {"create", "split"},
             BeginExport(a, type)
      PROVE  UNCHANGED vars
  BY <1>3 DEF BeginExport
<1>4. ASSUME NEW j \in Jobs, JobStep(j) PROVE UNCHANGED vars
  BY <1>4 DEF JobStep, ReadForDocument, TimeOut, InsertDocument, Attach, BreakJob
<1>5. ASSUME Pyservice PROVE UNCHANGED vars
  BY <1>5 DEF Pyservice, PyserviceUploads, PyserviceFails
<1>6. ASSUME NEW u \in Leavers, RemoveEmployeeAndLinks(u) PROVE Next
  BY <1>6, ExportsAssumption DEF RemoveEmployeeAndLinks, Next
<1>7. CASE RestartAll
  BY <1>7 DEF RestartAll, Next
<1>8. CASE UNCHANGED allVars
  BY <1>8 DEF allVars
<1> QED
  BY <1>1, <1>2, <1>3, <1>4, <1>5, <1>6, <1>7, <1>8 DEF NextAll

\* What every step of Absence keeps of the past: the approvals recorded, the
\* ids used, and that what is gone is gone.
Keeps ==
  /\ granted \subseteq granted'
  /\ DOMAIN lineage \subseteq DOMAIN lineage'
  /\ DOMAIN lineage \cap DOMAIN actions' \subseteq DOMAIN actions

LEMMA EvolvesKeeps == Evolves => Keeps
BY DEF Evolves, HistoryGrows, RowsEvolve, OldRow, Keeps

\* A handler comes to spawn a task only by an approval.
LEMMA SpawnsKept ==
  ASSUME IInv, SpawnsAreGranted, Keeps,
         \A h \in Handlers : handlers'[h].op = "spawn" => handlers'[h] = handlers[h]
  PROVE  SpawnsAreGranted'
BY DEF IInv, IdsAreKnown, SpawnsAreGranted, Keeps

LEMMA AbsenceKeeps ==
  ASSUME IInv, SpawnsAreGranted, [Next]_vars
  PROVE  Keeps /\ SpawnsAreGranted'
<1> DEFINE Quiet == \A h \in Handlers :
                      handlers'[h].op = "spawn" => handlers'[h] = handlers[h]
<1>0. handlers \in [Handlers -> HandlerState]
  BY DEF IInv, TypeOK
<1>1. ASSUME NEW u \in Employees, NEW type \in RequestTypes,
             NEW from \in Instants, NEW to \in Instants,
             Request(u, type, from, to)
      PROVE  Keeps /\ Quiet
  BY <1>1, RequestStep, EvolvesKeeps DEF Request
<1>2. ASSUME NEW h \in Handlers, LocalStep(h)
      PROVE  Keeps /\ Quiet
  <2>1. /\ UNCHANGED <<tables, fresh, history>>
        /\ handlers' = [handlers EXCEPT ![h] = handlers'[h]]
        /\ handlers'[h].op # "spawn"
    BY <1>2, LocalStepFacts DEF IInv, Fetched
  <2> QED
    BY <1>0, <2>1 DEF Keeps, tables, fresh, history
<1>3. ASSUME NEW h \in Handlers, CommitApproval(h)
      PROVE  Keeps /\ SpawnsAreGranted'
  <2>1. Keeps
    BY <1>3, CommitApprovalStep, EvolvesKeeps
  <2>2. /\ handlers' = [handlers EXCEPT ![h] = [op |-> "spawn",
                                                action |-> handlers[h].action]]
        /\ granted' = granted \cup ({handlers[h].action} \cap DOMAIN actions)
        /\ DOMAIN actions' = DOMAIN actions
    BY <1>3 DEF CommitApproval, Become, SetStatus
  <2> QED
    BY <1>0, <2>1, <2>2 DEF SpawnsAreGranted
<1>4. ASSUME NEW h \in Handlers,
             \/ CommitDenial(h) \/ CommitSplit(h)
             \/ CommitReschedule(h) \/ CommitAttendance(h)
      PROVE  Keeps /\ Quiet
  <2>1. Keeps
    BY <1>4, CommitDenialStep, CommitSplitStep, CommitRescheduleStep,
       CommitAttendanceStep, EvolvesKeeps
  <2>2. handlers' = [handlers EXCEPT ![h] = Idle]
    BY <1>4 DEF CommitDenial, CommitSplit, CommitReschedule, CommitAttendance, Become
  <2> QED
    BY <1>0, <2>1, <2>2 DEF Idle
<1>5. ASSUME NEW u \in Employees, NEW head \in HeadChoices, AddHead(u, head)
       PROVE  Keeps /\ Quiet
  BY <1>5, AddHeadStep, EvolvesKeeps DEF AddHead
<1>6. ASSUME NEW u \in Employees, RemoveEmployee(u)
      PROVE  Keeps /\ Quiet
  BY <1>6, RemoveEmployeeStep, EvolvesKeeps DEF RemoveEmployee
<1>7. CASE Restart
  <2>1. Keeps
    BY <1>7, RestartStep, EvolvesKeeps
  <2>2. Quiet
    BY <1>7 DEF Restart, Idle
  <2> QED
    BY <2>1, <2>2, SpawnsKept
<1>8. CASE UNCHANGED vars
  <2>1. Keeps /\ Quiet
    BY <1>8 DEF vars, tables, fresh, history, Keeps
  <2> QED
    BY <2>1, SpawnsKept
<1> HIDE DEF Quiet
<1>9. Quiet /\ Keeps => SpawnsAreGranted'
  BY SpawnsKept DEF Quiet
<1> QED
  BY <1>1, <1>2, <1>3, <1>4, <1>5, <1>6, <1>7, <1>8, <1>9
  DEF Next, Requests, Calls, Commits, LocalStep

----------------------------------------------------------------------------
(* The queue *)

\* A set of positions has a least one.
LEMMA LeastPosition ==
  ASSUME NEW S, S \subseteq Nat, S # {}
  PROVE  /\ Min(S) \in S
         /\ \A n \in S : Min(S) <= n
<1> DEFINE Less == {p \in Nat \X Nat : p[1] < p[2]}
<1>1. OpToRel(<, Nat) = Less
  BY Zenon DEF OpToRel
<1>2. IsWellFoundedOn(Less, Nat)
  BY <1>1, NatLessThanWellFounded
<1> HIDE DEF Less
<1>3. PICK x \in S : \A y \in S : ~ (<<y, x>> \in Less)
  BY <1>2, WFMin
<1>4. ASSUME NEW y \in S PROVE x <= y
  <2>1. <<y, x>> \notin Less
    BY <1>3
  <2>2. <<y, x>> \in Nat \X Nat /\ <<y, x>>[1] = y /\ <<y, x>>[2] = x
    OBVIOUS
  <2>3. ~(y < x)
    BY <2>1, <2>2 DEF Less
  <2> QED
    BY <2>2, <2>3
<1> QED
  BY <1>4 DEF Min

\* What is popped has finished: every task that runs stays in the queue.
LEMMA DropFinishedKeeps ==
  ASSUME NEW queue \in Seq(Jobs)
  PROVE  /\ DropFinished(queue) \in Seq(Jobs)
         /\ \A j \in Range(queue) : IsRunning(j) => j \in Range(DropFinished(queue))
<1> DEFINE live == {i \in DOMAIN queue : IsRunning(queue[i])}
           first == Min(live)
<1>1. CASE live = {}
  <2>1. DropFinished(queue) = <<>>
    BY <1>1 DEF DropFinished
  <2>2. \A j \in Range(queue) : ~IsRunning(j)
    BY <1>1 DEF Range
  <2> QED
    BY <2>1, <2>2
<1>2. CASE live # {}
  <2>1. live \subseteq 1 .. Len(queue) /\ live \subseteq Nat /\ Len(queue) \in Nat
    OBVIOUS
  <2>2. first \in live /\ \A i \in live : first <= i
    <3> HIDE DEF live
    <3> QED
      BY <1>2, <2>1, LeastPosition
  <2>3. DropFinished(queue) = SubSeq(queue, first, Len(queue))
    BY <1>2 DEF DropFinished
  <2> HIDE DEF live, first
  <2>4. first \in 1 .. Len(queue)
    BY <2>1, <2>2
  <2>5. \A i \in first .. Len(queue) : queue[i] \in Jobs
    BY <2>4
  <2>6. /\ SubSeq(queue, first, Len(queue)) \in Seq(Jobs)
        /\ Len(SubSeq(queue, first, Len(queue))) = Len(queue) - first + 1
        /\ \A i \in 1 .. Len(queue) - first + 1 :
             SubSeq(queue, first, Len(queue))[i] = queue[first + i - 1]
    BY <2>4, <2>5, SubSeqProperties
  <2>7. ASSUME NEW j \in Range(queue), IsRunning(j)
        PROVE  j \in Range(SubSeq(queue, first, Len(queue)))
    <3>1. PICK i \in 1 .. Len(queue) : queue[i] = j
      BY DEF Range
    <3>2. i \in live
      BY <3>1, <2>7 DEF live
    <3>3. i - first + 1 \in 1 .. Len(queue) - first + 1
      BY <2>2, <2>4, <3>1, <3>2
    <3>4. SubSeq(queue, first, Len(queue))[i - first + 1] = j
      <4>1. first + (i - first + 1) - 1 = i
        BY <2>4, <3>1
      <4> QED
        BY <2>6, <3>1, <3>3, <4>1
    <3> QED
      BY <2>6, <3>3, <3>4 DEF Range
  <2> QED
    BY <2>3, <2>6, <2>7
<1> QED
  BY <1>1, <1>2

----------------------------------------------------------------------------
(* A step of one job *)

LEMMA JobsTyped ==
  ASSUME JobsTypeOK
  PROVE  /\ Len(jobs) \in Nat
         /\ Jobs = 1 .. Len(jobs)
         /\ \A j \in Jobs : jobs[j] \in JobState
BY DEF JobsTypeOK, Jobs

LEMMA OneJob ==
  ASSUME JobsTypeOK, NEW j \in Jobs, NEW r \in JobState,
         jobs' = [jobs EXCEPT ![j] = r]
  PROVE  /\ jobs' \in Seq(JobState)
         /\ Jobs' = Jobs
         /\ jobs'[j] = r
         /\ \A k \in Jobs : k # j => jobs'[k] = jobs[k]
<1>1. jobs \in Seq(JobState) /\ j \in 1 .. Len(jobs)
  BY JobsTyped DEF JobsTypeOK
<1>2. jobs' \in Seq(JobState)
  BY <1>1, ExceptSeq
<1> QED
  BY <1>2 DEF Jobs

LEMMA UnchangedVars ==
  ASSUME UNCHANGED vars
  PROVE  /\ employees' = employees /\ actions' = actions
         /\ handlers' = handlers /\ granted' = granted /\ lineage' = lineage
         /\ notifications' = notifications
BY DEF vars, tables, fresh, history

\* A job goes on, with what it has read and written so far; or the Python
\* service works on its post after it has ended.
LEMMA JobMoves ==
  ASSUME DocumentsInv, NEW j \in Jobs, NEW r \in JobState,
         jobs' = [jobs EXCEPT ![j] = r],
         UNCHANGED <<vars, tasks, due>>,
         r.source = jobs[j].source, r.action = jobs[j].action,
         r.step \in Running => IsRunning(j),
         TaskIsGranted(r),
         r.step \in HasRead => {r.employee, r.head} \subseteq Employees,
         r.step \in HasFile => j \in bucket',
         r.step \in HasRow => j \in documents',
         r.step = "done" =>
           ({r.employee, r.head} \cap DOMAIN employees) \X {j} \subseteq employee_document',
         serving' \subseteq Jobs \X (1 .. Attempts),
         bucket \subseteq bucket', bucket' \subseteq Jobs,
         documents \subseteq documents', documents' \subseteq documents \cup {j},
         j \in documents' \ documents => jobs[j].step = "inserting",
         employee_document \subseteq employee_document',
         employee_document' \subseteq (DOMAIN employees) \X documents'
  PROVE  DocumentsInv'
<1>1. /\ jobs' \in Seq(JobState)
      /\ Jobs' = Jobs
      /\ jobs'[j] = r
      /\ \A k \in Jobs : k # j => jobs'[k] = jobs[k]
  BY OneJob DEF DocumentsInv
<1>2. /\ employees' = employees /\ actions' = actions
      /\ handlers' = handlers /\ granted' = granted /\ lineage' = lineage
  BY UnchangedVars
<1>3. tasks' = tasks /\ due' = due
  OBVIOUS
<1>4. documents' \subseteq Jobs
  BY DEF DocumentsInv, JobsTypeOK
<1>5. JobsTypeOK'
  BY <1>1, <1>2, <1>3, <1>4 DEF DocumentsInv, JobsTypeOK
<1>6. SpawnsAreGranted'
  BY <1>2 DEF DocumentsInv, SpawnsAreGranted
<1>7. \A k \in Jobs' : JobHolds(k)'
  <2>1. JobHolds(j)'
    BY <1>1, <1>2 DEF JobHolds, TaskIsGranted, Readers
  <2>2. ASSUME NEW k \in Jobs, k # j PROVE JobHolds(k)'
    BY <1>1, <1>2, <2>2 DEF DocumentsInv, JobHolds, TaskIsGranted, Readers
  <2> QED
    BY <1>1, <2>1, <2>2
<1>8. VerdictDocumentsAreGranted'
  <2>1. ASSUME NEW k \in documents', jobs'[k].source = "task"
        PROVE  jobs'[k].action \in granted
    <3>1. CASE k \in documents
      BY <1>1, <2>1, <3>1 DEF DocumentsInv, VerdictDocumentsAreGranted, JobsTypeOK
    <3>2. CASE k \notin documents
      <4>1. k = j /\ jobs[j].step = "inserting" /\ jobs[j].source = "task"
        BY <1>1, <2>1, <3>2
      <4> QED
        BY <1>1, <4>1 DEF DocumentsInv, JobHolds, TaskIsGranted, HasRead
    <3> QED
      BY <3>1, <3>2
  <2> QED
    BY <1>2, <2>1 DEF VerdictDocumentsAreGranted
<1>9. DocumentsHaveFiles'
  BY DEF DocumentsInv, DocumentsHaveFiles, JobHolds, HasFile
<1>10. DoneMeansDelivered'
  <2>1. ASSUME NEW k \in Jobs, jobs'[k].step = "done"
        PROVE  /\ k \in documents'
               /\ (Readers(k)' \cap DOMAIN employees) \X {k} \subseteq employee_document'
    <3>1. CASE k = j
      BY <1>1, <2>1, <3>1 DEF Readers, HasRow
    <3>2. CASE k # j
      BY <1>1, <2>1, <3>2 DEF Readers, DocumentsInv, DoneMeansDelivered
    <3> QED
      BY <3>1, <3>2
  <2> QED
    BY <1>1, <1>2, <2>1 DEF DoneMeansDelivered
<1>11. RunningTasksAreQueued'
  BY <1>1, <1>3 DEF DocumentsInv, RunningTasksAreQueued, IsRunning
<1> QED
  BY <1>5, <1>6, <1>7, <1>8, <1>9, <1>10, <1>11 DEF DocumentsInv

\* What a job's action may assume of the job it is about.
LEMMA JobFacts ==
  ASSUME DocumentsInv, NEW j \in Jobs
  PROVE  /\ jobs[j] \in JobState
         /\ JobHolds(j)
         /\ serving \subseteq Jobs \X (1 .. Attempts)
         /\ bucket \subseteq Jobs
         /\ documents \subseteq Jobs
         /\ employee_document \subseteq (DOMAIN employees) \X documents
         /\ jobs[j].step = "done" =>
              (Readers(j) \cap DOMAIN employees) \X {j} \subseteq employee_document
BY JobsTyped DEF DocumentsInv, JobsTypeOK, DoneMeansDelivered

LEMMA Steps ==
  /\ Running = {"reading", "posting", "inserting", "attaching"}
  /\ "failed" \notin Running \cup HasRead \cup HasFile \cup HasRow
  /\ "failed" # "done" /\ "failed" \in Ended
BY DEF Running, HasRead, HasFile, HasRow, Ended

\* A job ends without having done what it was for.
LEMMA FailedStep ==
  ASSUME DocumentsInv, NEW j \in Jobs, IsRunning(j), Goto(j, "failed"),
         UNCHANGED <<vars, tasks, bucket, documents, employee_document, due>>,
         serving' \subseteq Jobs \X (1 .. Attempts)
  PROVE  DocumentsInv'
<1> DEFINE r == [jobs[j] EXCEPT !.step = "failed"]
<1>1. /\ r \in JobState
      /\ r.source = jobs[j].source /\ r.action = jobs[j].action
      /\ r.step = "failed"
  BY JobFacts, Steps DEF JobState
<1>2. jobs' = [jobs EXCEPT ![j] = r]
  BY DEF Goto
<1>3. TaskIsGranted(r)
  BY <1>1, JobFacts, Steps DEF JobHolds, TaskIsGranted
<1> HIDE DEF r
<1> QED
  BY <1>1, <1>2, <1>3, JobFacts, JobMoves, Steps

\* A post without an answer.
LEMMA UnansweredPost ==
  ASSUME DocumentsInv, NEW j \in Jobs, jobs[j].step = "posting",
         NEW posts \in SUBSET serving, Unanswered(j, posts),
         UNCHANGED <<vars, tasks, bucket, documents, employee_document, due>>
  PROVE  DocumentsInv'
<1>1. posts \subseteq Jobs \X (1 .. Attempts)
  BY JobFacts
<1>2. CASE jobs[j].attempt < Attempts
  <2> DEFINE r == [jobs[j] EXCEPT !.attempt = @ + 1]
  <2>1. jobs[j].attempt + 1 \in 1 .. Attempts
    BY <1>2, JobFacts DEF JobState, Attempts
  <2>2. /\ r \in JobState
        /\ r.source = jobs[j].source /\ r.action = jobs[j].action
        /\ r.step = jobs[j].step
        /\ r.employee = jobs[j].employee /\ r.head = jobs[j].head
    BY <2>1, JobFacts DEF JobState
  <2>3. /\ jobs' = [jobs EXCEPT ![j] = r]
        /\ serving' = posts \cup {<<j, jobs[j].attempt + 1>>}
    BY <1>2 DEF Unanswered
  <2>4. serving' \subseteq Jobs \X (1 .. Attempts)
    BY <1>1, <2>1, <2>3
  <2>5. TaskIsGranted(r) /\ {r.employee, r.head} \subseteq Employees
    BY <2>2, JobFacts DEF JobHolds, TaskIsGranted, Readers, HasRead
  <2> HIDE DEF r
  <2> QED
    BY <2>2, <2>3, <2>4, <2>5, JobFacts, JobMoves DEF IsRunning, HasFile, HasRow
<1>3. CASE ~(jobs[j].attempt < Attempts)
  <2>1. Goto(j, "failed") /\ serving' = posts
    BY <1>3 DEF Unanswered
  <2> QED
    BY <1>1, <2>1, FailedStep DEF IsRunning, Running
<1> QED
  BY <1>2, <1>3

\* The task reads an action that is still there.
LEMMA ReadStep ==
  ASSUME IInv, DocumentsInv, NEW j \in Jobs, ReadForDocument(j)
  PROVE  DocumentsInv'
<1>1. /\ jobs[j].step = "reading"
      /\ UNCHANGED <<vars, tasks, bucket, documents, employee_document, due>>
  BY DEF ReadForDocument
<1>2. CASE Readable(jobs[j].action, {})
  <2> DEFINE a == jobs[j].action
             r == [jobs[j] EXCEPT !.step = "posting",
                                  !.employee = actions[a].user_id,
                                  !.head = Superior(actions[a].user_id)]
  <2>1. /\ a \in DOMAIN actions
        /\ actions[a].user_id \in Employees
        /\ Superior(actions[a].user_id) \in Employees
    BY <1>2 DEF Readable, IInv, TypeOK
  <2>2. /\ jobs' = [jobs EXCEPT ![j] = r]
        /\ serving' = serving \cup {<<j, 1>>}
    BY <1>2 DEF ReadForDocument
  <2>3. /\ r \in JobState
        /\ r.source = jobs[j].source /\ r.action = a
        /\ r.step = "posting"
        /\ {r.employee, r.head} \subseteq Employees
    BY <2>1, JobFacts DEF JobState, Running
  <2>4. TaskIsGranted(r)
    BY <2>1, <2>3, JobFacts DEF JobHolds, TaskIsGranted
  <2>5. serving' \subseteq Jobs \X (1 .. Attempts)
    BY <2>2, JobFacts DEF Attempts
  <2> HIDE DEF r
  <2> QED
    BY <1>1, <2>2, <2>3, <2>4, <2>5, JobFacts, JobMoves
    DEF IsRunning, Running, HasFile, HasRow
<1>3. CASE ~Readable(jobs[j].action, {})
  <2>1. Goto(j, "failed") /\ UNCHANGED serving
    BY <1>3 DEF ReadForDocument
  <2> QED
    BY <1>1, <2>1, JobFacts, FailedStep DEF IsRunning, Running
<1> QED
  BY <1>2, <1>3

\* The row, of a file that is in the bucket.
LEMMA InsertStep ==
  ASSUME DocumentsInv, NEW j \in Jobs, InsertDocument(j)
  PROVE  DocumentsInv'
<1> DEFINE r == [jobs[j] EXCEPT !.step = "attaching"]
<1>1. /\ jobs[j].step = "inserting"
      /\ documents' = documents \cup {j}
      /\ jobs' = [jobs EXCEPT ![j] = r]
      /\ UNCHANGED <<vars, tasks, serving, bucket, employee_document, due>>
  BY DEF InsertDocument, Goto
<1>2. /\ r \in JobState
      /\ r.source = jobs[j].source /\ r.action = jobs[j].action
      /\ r.step = "attaching"
      /\ r.employee = jobs[j].employee /\ r.head = jobs[j].head
  BY JobFacts DEF JobState, Running
<1>3. TaskIsGranted(r) /\ {r.employee, r.head} \subseteq Employees /\ j \in bucket
  BY <1>1, <1>2, JobFacts DEF JobHolds, TaskIsGranted, Readers, HasRead, HasFile
<1>4. employee_document' \subseteq (DOMAIN employees) \X documents'
  BY <1>1, JobFacts
<1> HIDE DEF r
<1> QED
  BY <1>1, <1>2, <1>3, <1>4, JobFacts, JobMoves DEF IsRunning, Running

\* The links, to everyone the job is about.
LEMMA AttachStep ==
  ASSUME DocumentsInv, NEW j \in Jobs, Attach(j)
  PROVE  DocumentsInv'
<1> DEFINE r == [jobs[j] EXCEPT !.step = "done"]
<1>1. /\ jobs[j].step = "attaching"
      /\ Readers(j) \subseteq DOMAIN employees
      /\ employee_document' = employee_document \cup (Readers(j) \X {j})
      /\ jobs' = [jobs EXCEPT ![j] = r]
      /\ UNCHANGED <<vars, tasks, serving, bucket, documents, due>>
  BY DEF Attach, Goto
<1>2. /\ r \in JobState
      /\ r.source = jobs[j].source /\ r.action = jobs[j].action
      /\ r.step = "done"
      /\ {r.employee, r.head} = Readers(j)
  BY JobFacts DEF JobState, Ended, Readers
<1>3. /\ TaskIsGranted(r) /\ {r.employee, r.head} \subseteq Employees
      /\ j \in bucket /\ j \in documents
  BY <1>1, <1>2, JobFacts DEF JobHolds, TaskIsGranted, HasRead, HasFile, HasRow
<1>4. employee_document' \subseteq (DOMAIN employees) \X documents'
  BY <1>1, <1>3, JobFacts
<1> HIDE DEF r
<1>5. ({r.employee, r.head} \cap DOMAIN employees) \X {j} \subseteq employee_document'
  BY <1>1, <1>2
<1> QED
  BY <1>1, <1>2, <1>3, <1>4, <1>5, JobFacts, JobMoves DEF IsRunning, Running

\* Any step of one job.
LEMMA JobStepInv ==
  ASSUME IInv, DocumentsInv, NEW j \in Jobs, JobStep(j)
  PROVE  DocumentsInv'
<1>1. CASE TimeOut(j)
  BY <1>1, UnansweredPost DEF TimeOut
<1>2. CASE BreakJob(j)
  BY <1>2, FailedStep, JobFacts DEF BreakJob, IsRunning, Running
<1> QED
  BY <1>1, <1>2, ReadStep, InsertStep, AttachStep DEF JobStep

\* The Python service ends its work on a post, which its job may await.
LEMMA PyserviceStep ==
  ASSUME DocumentsInv, NEW j \in Jobs, NEW k \in 1 .. Attempts,
         PyserviceUploads(j, k) \/ PyserviceFails(j, k)
  PROVE  DocumentsInv'
<1>1. CASE PyserviceUploads(j, k) /\ Awaits(j, k)
  <2> DEFINE r == [jobs[j] EXCEPT !.step = "inserting"]
  <2>1. /\ jobs[j].step = "posting"
        /\ bucket' = bucket \cup {j}
        /\ serving' = serving \ {<<j, k>>}
        /\ jobs' = [jobs EXCEPT ![j] = r]
        /\ UNCHANGED <<vars, tasks, documents, employee_document, due>>
    BY <1>1 DEF PyserviceUploads, Awaits, Goto
  <2>2. /\ r \in JobState
        /\ r.source = jobs[j].source /\ r.action = jobs[j].action
        /\ r.step = "inserting"
        /\ r.employee = jobs[j].employee /\ r.head = jobs[j].head
    BY JobFacts DEF JobState, Running
  <2>3. TaskIsGranted(r) /\ {r.employee, r.head} \subseteq Employees
    BY <2>1, <2>2, JobFacts DEF JobHolds, TaskIsGranted, Readers, HasRead
  <2> HIDE DEF r
  <2> QED
    BY <2>1, <2>2, <2>3, JobFacts, JobMoves DEF IsRunning, Running, HasRow
<1>2. CASE PyserviceFails(j, k) /\ Awaits(j, k)
  <2>1. /\ jobs[j].step = "posting"
        /\ Unanswered(j, serving \ {<<j, k>>})
        /\ UNCHANGED <<vars, tasks, bucket, documents, employee_document, due>>
    BY <1>2 DEF PyserviceFails, Awaits
  <2> QED
    BY <2>1, UnansweredPost
<1>3. CASE ~Awaits(j, k)
  <2>1. /\ jobs' = [jobs EXCEPT ![j] = jobs[j]]
        /\ bucket' = bucket \/ bucket' = bucket \cup {j}
        /\ serving' = serving \ {<<j, k>>}
        /\ UNCHANGED <<vars, tasks, documents, employee_document, due>>
    BY <1>3, JobsTyped DEF PyserviceUploads, PyserviceFails, DocumentsInv, JobsTypeOK
  <2>2. TaskIsGranted(jobs[j])
    BY JobFacts DEF JobHolds
  <2> QED
    BY <2>1, <2>2, JobFacts, JobMoves DEF JobHolds, Readers, IsRunning
<1> QED
  BY <1>1, <1>2, <1>3

----------------------------------------------------------------------------
(* A new job *)

LEMMA NewJob ==
  ASSUME DocumentsInv, SpawnsAreGranted', NEW r \in JobState,
         jobs' = Append(jobs, r),
         UNCHANGED <<employees, actions, granted, lineage>>,
         UNCHANGED <<bucket, documents, employee_document, due>>,
         TaskIsGranted(r),
         r.step \in {"reading", "posting"},
         r.step = "posting" => {r.employee, r.head} \subseteq Employees,
         serving' \subseteq serving \cup {<<Len(jobs) + 1, 1>>},
         tasks' \in Seq(1 .. Len(jobs) + 1),
         \A j \in Range(tasks) : IsRunning(j) => j \in Range(tasks'),
         r.source = "task" => Len(jobs) + 1 \in Range(tasks')
  PROVE  DocumentsInv'
<1> DEFINE new == Len(jobs) + 1
<1>1. /\ jobs' \in Seq(JobState)
      /\ Len(jobs) \in Nat
      /\ Jobs = 1 .. Len(jobs)
      /\ Jobs' = 1 .. new
      /\ jobs'[new] = r
      /\ \A j \in Jobs : jobs'[j] = jobs[j]
  <2>1. jobs \in Seq(JobState) /\ Len(jobs) \in Nat /\ Jobs = 1 .. Len(jobs)
    BY JobsTyped DEF DocumentsInv, JobsTypeOK
  <2> QED
    BY <2>1, AppendProperties DEF Jobs
<1>2. Jobs' = Jobs \cup {new} /\ new \notin Jobs
  BY <1>1
<1>3. JobsTypeOK'
  BY <1>1, <1>2 DEF DocumentsInv, JobsTypeOK, Attempts
<1> HIDE DEF new
<1>4. \A j \in Jobs' : JobHolds(j)'
  <2>1. ASSUME NEW j, j = new PROVE JobHolds(j)'
    BY <1>1, <2>1 DEF JobHolds, TaskIsGranted, Readers, HasRead, HasFile, HasRow
  <2>2. ASSUME NEW j \in Jobs PROVE JobHolds(j)'
    BY <1>1 DEF DocumentsInv, JobHolds, TaskIsGranted, Readers
  <2> QED
    BY <1>2, <2>1, <2>2
<1>5. VerdictDocumentsAreGranted'
  BY <1>1 DEF DocumentsInv, VerdictDocumentsAreGranted, JobsTypeOK
<1>6. DocumentsHaveFiles'
  BY DEF DocumentsInv, DocumentsHaveFiles
<1>7. DoneMeansDelivered'
  BY <1>1, <1>2 DEF DocumentsInv, DoneMeansDelivered, Readers
<1>8. RunningTasksAreQueued'
  BY <1>1, <1>2 DEF new, DocumentsInv, RunningTasksAreQueued, IsRunning
<1> QED
  BY <1>3, <1>4, <1>5, <1>6, <1>7, <1>8 DEF DocumentsInv

\* A verdict's handler pushes its task after it dropped the finished ones.
LEMMA SpawnTaskStep ==
  ASSUME IInv, DocumentsInv, SpawnsAreGranted', NEW h \in Handlers, SpawnTask(h)
  PROVE  DocumentsInv'
<1> DEFINE r     == NewTask(handlers[h].action)
           queue == DropFinished(tasks)
           new   == Len(jobs) + 1
<1>1. /\ handlers[h].op = "spawn"
      /\ jobs' = Append(jobs, r)
      /\ tasks' = Append(queue, new)
      /\ UNCHANGED <<employees, actions, granted, lineage>>
      /\ UNCHANGED <<serving, bucket, documents, employee_document, due>>
  BY DEF SpawnTask, Spawn, tables, history
<1>2. /\ handlers[h].action \in DOMAIN lineage
      /\ handlers[h].action \in DOMAIN actions => handlers[h].action \in granted
      /\ handlers[h].action \in Nat
  <2>1. DOMAIN lineage \subseteq Nat
    BY DEF IInv, TypeOK
  <2> QED
    BY <1>1, <2>1 DEF IInv, IdsAreKnown, DocumentsInv, SpawnsAreGranted
<1>3. /\ r \in JobState
      /\ r.source = "task" /\ r.step = "reading" /\ r.action = handlers[h].action
  BY <1>2 DEF NewTask, JobState, Running, Attempts
<1>4. TaskIsGranted(r)
  BY <1>2, <1>3 DEF TaskIsGranted, HasRead
<1>5. /\ queue \in Seq(Jobs)
      /\ \A j \in Range(tasks) : IsRunning(j) => j \in Range(queue)
  BY DropFinishedKeeps DEF DocumentsInv, JobsTypeOK
<1>6. Len(jobs) \in Nat /\ Jobs = 1 .. Len(jobs)
  BY JobsTyped DEF DocumentsInv
<1> HIDE DEF r, queue
<1>7. queue \in Seq(1 .. new) /\ new \in 1 .. new
  BY <1>5, <1>6
<1>8. /\ tasks' \in Seq(1 .. new)
      /\ Len(queue) \in Nat /\ Len(tasks') = Len(queue) + 1
      /\ \A i \in 1 .. Len(queue) : tasks'[i] = queue[i]
      /\ tasks'[Len(queue) + 1] = new
  BY <1>1, <1>7, AppendProperties
<1>9. Range(queue) \subseteq Range(tasks') /\ new \in Range(tasks')
  <2>1. DOMAIN queue = 1 .. Len(queue) /\ DOMAIN tasks' = 1 .. Len(queue) + 1
    BY <1>7, <1>8
  <2> QED
    BY <1>8, <2>1 DEF Range
<1> QED
  BY <1>1, <1>3, <1>4, <1>5, <1>8, <1>9, NewJob

\* An export has read its rows before its first post.
LEMMA BeginExportStep ==
  ASSUME IInv, DocumentsInv, SpawnsAreGranted', NEW a \in DOMAIN actions,
         NEW type \in {"create", "split"}, BeginExport(a, type)
  PROVE  DocumentsInv'
<1> DEFINE r == [source |-> "export", request_type |-> type, action |-> a,
                 employee |-> actions[a].user_id,
                 head |-> Superior(actions[a].user_id),
                 attempt |-> 1, step |-> "posting"]
<1>1. /\ jobs' = Append(jobs, r)
      /\ serving' = serving \cup {<<Len(jobs) + 1, 1>>}
      /\ UNCHANGED <<vars, tasks, bucket, documents, employee_document, due>>
  BY DEF BeginExport
<1>2. /\ a \in Nat
      /\ {actions[a].user_id, Superior(actions[a].user_id)} \subseteq Employees
  BY DEF BeginExport, Readable, IInv, TypeOK
<1>3. /\ r \in JobState
      /\ r.source = "export" /\ r.step = "posting"
      /\ {r.employee, r.head} \subseteq Employees
  BY <1>2 DEF JobState, Running, Attempts
<1>4. TaskIsGranted(r)
  BY <1>3 DEF TaskIsGranted
<1>5. tasks' \in Seq(1 .. Len(jobs) + 1)
  <2>1. Len(jobs) \in Nat /\ Jobs = 1 .. Len(jobs) /\ tasks \in Seq(Jobs)
    BY JobsTyped DEF DocumentsInv, JobsTypeOK
  <2> QED
    BY <1>1, <2>1
<1> HIDE DEF r
<1> QED
  BY <1>1, <1>3, <1>4, <1>5, NewJob, UnchangedVars

----------------------------------------------------------------------------
(* A step that is no job's *)

LEMMA JobsKept ==
  ASSUME DocumentsInv, Keeps, SpawnsAreGranted',
         jobs' \in Seq(JobState), Jobs' = Jobs,
         \A j \in Jobs : \/ jobs'[j] = jobs[j] /\ tasks' = tasks
                         \/ jobs'[j] = jobs[j] /\ ~IsRunning(j)
                         \/ jobs'[j] = [jobs[j] EXCEPT !.step = "lost"],
         tasks' \in Seq(Jobs),
         UNCHANGED <<serving, bucket, documents>>,
         DOMAIN employees' \subseteq DOMAIN employees,
         employee_document' =
           {link \in employee_document : link[1] \in DOMAIN employees'},
         due' \in [1 .. MaxActions -> Int]
  PROVE  DocumentsInv'
<1>1. \A j \in Jobs :
        /\ jobs[j] \in JobState
        /\ JobHolds(j)
        /\ jobs'[j].source = jobs[j].source
        /\ jobs'[j].action = jobs[j].action
        /\ jobs'[j].employee = jobs[j].employee
        /\ jobs'[j].head = jobs[j].head
        /\ \/ jobs'[j].step = jobs[j].step /\ (tasks' = tasks \/ ~IsRunning(j))
           \/ jobs'[j].step = "lost"
  <2> SUFFICES ASSUME NEW j \in Jobs
               PROVE  /\ jobs[j] \in JobState
                      /\ JobHolds(j)
                      /\ jobs'[j].source = jobs[j].source
                      /\ jobs'[j].action = jobs[j].action
                      /\ jobs'[j].employee = jobs[j].employee
                      /\ jobs'[j].head = jobs[j].head
                      /\ \/ /\ jobs'[j].step = jobs[j].step
                            /\ tasks' = tasks \/ ~IsRunning(j)
                         \/ jobs'[j].step = "lost"
    OBVIOUS
  <2>1. jobs[j] \in JobState /\ JobHolds(j)
    BY JobsTyped DEF DocumentsInv
  <2>2. CASE jobs'[j] = jobs[j]
    <3>1. tasks' = tasks \/ ~IsRunning(j) \/ jobs'[j] = [jobs[j] EXCEPT !.step = "lost"]
      OBVIOUS
    <3>2. [jobs[j] EXCEPT !.step = "lost"].step = "lost"
      BY <2>1 DEF JobState
    <3> QED
      BY <2>1, <2>2, <3>1, <3>2
  <2>3. CASE jobs'[j] = [jobs[j] EXCEPT !.step = "lost"]
    BY <2>1, <2>3 DEF JobState
  <2> QED
    BY <2>2, <2>3
<1>2. "lost" \notin Running \cup HasRead \cup HasFile \cup HasRow /\ "lost" # "done"
  BY DEF Running, HasRead, HasFile, HasRow
<1>3. JobsTypeOK'
  BY DEF DocumentsInv, JobsTypeOK
<1>4. \A j \in Jobs' : JobHolds(j)'
  <2>1. ASSUME NEW j \in Jobs PROVE TaskIsGranted(jobs[j])'
    BY <1>1, <1>2 DEF JobHolds, TaskIsGranted, Keeps
  <2> QED
    BY <1>1, <1>2, <2>1 DEF JobHolds, Readers
<1>5. VerdictDocumentsAreGranted'
  BY <1>1 DEF DocumentsInv, VerdictDocumentsAreGranted, JobsTypeOK, Keeps
<1>6. DocumentsHaveFiles'
  BY DEF DocumentsInv, DocumentsHaveFiles
<1>7. DoneMeansDelivered'
  <2>1. ASSUME NEW j \in Jobs, jobs'[j].step = "done"
        PROVE  /\ j \in documents'
               /\ (Readers(j)' \cap DOMAIN employees') \X {j} \subseteq employee_document'
    BY <1>1, <1>2, <2>1 DEF DocumentsInv, DoneMeansDelivered, Readers
  <2> QED
    BY <2>1 DEF DoneMeansDelivered
<1>8. RunningTasksAreQueued'
  <2>1. ASSUME NEW j \in Jobs, jobs'[j].source = "task", jobs'[j].step \in Running
        PROVE  j \in Range(tasks')
    <3>1. jobs[j].step \in Running /\ jobs[j].source = "task"
      BY <1>1, <1>2, <2>1
    <3>2. tasks' = tasks
      BY <1>1, <1>2, <2>1, <3>1 DEF IsRunning
    <3> QED
      BY <3>1, <3>2 DEF DocumentsInv, RunningTasksAreQueued, IsRunning
  <2> QED
    BY <2>1 DEF RunningTasksAreQueued, IsRunning
<1> QED
  BY <1>3, <1>4, <1>5, <1>6, <1>7, <1>8 DEF DocumentsInv

\* Handlers that do nothing about documents.
LEMMA AbsenceStepsStep ==
  ASSUME DocumentsInv, Keeps, SpawnsAreGranted',
         UNCHANGED <<jobs, tasks, serving, bucket, documents, employee_document>>,
         employees' = employees, due' \in [1 .. MaxActions -> Int]
  PROVE  DocumentsInv'
<1>1. /\ jobs' = jobs /\ tasks' = tasks
      /\ UNCHANGED <<serving, bucket, documents>>
      /\ employee_document' = employee_document
  OBVIOUS
<1>2. employee_document = {link \in employee_document : link[1] \in DOMAIN employees}
  BY DEF DocumentsInv, JobsTypeOK
<1>3. jobs' \in Seq(JobState) /\ Jobs' = Jobs /\ tasks' \in Seq(Jobs)
  BY <1>1 DEF DocumentsInv, JobsTypeOK, Jobs
<1>4. \A j \in Jobs : \/ jobs'[j] = jobs[j] /\ tasks' = tasks
                      \/ jobs'[j] = jobs[j] /\ ~IsRunning(j)
                      \/ jobs'[j] = [jobs[j] EXCEPT !.step = "lost"]
  BY <1>1
<1>5. /\ DOMAIN employees' \subseteq DOMAIN employees
      /\ UNCHANGED <<serving, bucket, documents>>
  BY <1>1
<1>6. employee_document' =
        {link \in employee_document : link[1] \in DOMAIN employees'}
  BY <1>1, <1>2
<1> QED
  BY <1>3, <1>4, <1>5, <1>6, JobsKept

\* An employee goes, with the links to documents.
LEMMA RemoveEmployeeAndLinksStep ==
  ASSUME DocumentsInv, Keeps, SpawnsAreGranted', NEW u \in Leavers,
         RemoveEmployeeAndLinks(u)
  PROVE  DocumentsInv'
<1>1. /\ DOMAIN employees' = DOMAIN employees \ {u}
      /\ employee_document' = {link \in employee_document : link[1] # u}
      /\ UNCHANGED <<jobs, tasks, serving, bucket, documents, due>>
  BY DEF RemoveEmployeeAndLinks, RemoveEmployee, Delete, Restrict
<1>2. employee_document' =
        {link \in employee_document : link[1] \in DOMAIN employees'}
  BY <1>1 DEF DocumentsInv, JobsTypeOK
<1>3. /\ jobs' \in Seq(JobState) /\ Jobs' = Jobs /\ tasks' \in Seq(Jobs)
      /\ due' \in [1 .. MaxActions -> Int]
  BY <1>1 DEF DocumentsInv, JobsTypeOK, Jobs
<1>4. \A j \in Jobs : \/ jobs'[j] = jobs[j] /\ tasks' = tasks
                      \/ jobs'[j] = jobs[j] /\ ~IsRunning(j)
                      \/ jobs'[j] = [jobs[j] EXCEPT !.step = "lost"]
  BY <1>1
<1>5. /\ DOMAIN employees' \subseteq DOMAIN employees
      /\ UNCHANGED <<serving, bucket, documents>>
  BY <1>1
<1> QED
  BY <1>2, <1>3, <1>4, <1>5, JobsKept

\* The backend stops and starts: no job runs, and the queue is empty.
LEMMA RestartAllStep ==
  ASSUME IInv, DocumentsInv, Keeps, SpawnsAreGranted', RestartAll
  PROVE  DocumentsInv'
<1>1. /\ jobs' = [j \in Jobs |-> IF IsRunning(j)
                                 THEN [jobs[j] EXCEPT !.step = "lost"]
                                 ELSE jobs[j]]
      /\ tasks' = <<>>
      /\ due' = [a \in 1 .. MaxActions |-> due[a] - Cardinality(Leaving(a))]
      /\ UNCHANGED <<serving, bucket, documents, employee_document>>
      /\ employees' = employees
  BY DEF RestartAll, Restart, tables
<1>2. /\ Len(jobs) \in Nat
      /\ Jobs = 1 .. Len(jobs)
      /\ \A j \in Jobs : jobs[j] \in JobState
  BY JobsTyped DEF DocumentsInv
<1>3. \A j \in Jobs : jobs'[j] \in JobState
  <2>1. ASSUME NEW row \in JobState PROVE [row EXCEPT !.step = "lost"] \in JobState
    BY DEF JobState, Ended
  <2>2. ASSUME NEW j \in Jobs
        PROVE  jobs'[j] \in {jobs[j], [jobs[j] EXCEPT !.step = "lost"]}
    BY <1>1
  <2> QED
    BY <1>2, <2>1, <2>2
<1>4. jobs' \in [1 .. Len(jobs) -> JobState]
  BY <1>1, <1>2, <1>3
<1>5. jobs' \in Seq(JobState) /\ Jobs' = Jobs
  BY <1>2, <1>4 DEF Jobs
<1>6. due' \in [1 .. MaxActions -> Int]
  <2>1. ASSUME NEW a \in 1 .. MaxActions PROVE Cardinality(Leaving(a)) \in Int
    <3>1. Leaving(a) \subseteq Handlers
      BY DEF Leaving
    <3>2. IsFiniteSet(Leaving(a))
      BY <3>1, HandlersAssumption, FS_Subset
    <3> QED
      BY <3>2, FS_CardinalityType
  <2>2. due \in [1 .. MaxActions -> Int]
    BY DEF DocumentsInv, JobsTypeOK
  <2> QED
    BY <1>1, <2>1, <2>2
<1>7. employee_document' =
        {link \in employee_document : link[1] \in DOMAIN employees'}
  BY <1>1 DEF DocumentsInv, JobsTypeOK
<1> QED
  BY <1>1, <1>5, <1>6, <1>7, JobsKept DEF DocumentsInv

----------------------------------------------------------------------------
(* The theorems *)

LEMMA InitDocuments == InitAll => IInv /\ DocumentsInv
<1> SUFFICES ASSUME InitAll PROVE IInv /\ DocumentsInv
  OBVIOUS
<1>1. IInv
  BY InitIInv DEF InitAll
<1>2. SpawnsAreGranted
  BY DEF InitAll, Init, Idle, SpawnsAreGranted
<1>3. /\ Jobs = {}
      /\ jobs = <<>> /\ tasks = <<>>
      /\ serving = {} /\ bucket = {} /\ documents = {}
      /\ employee_document = {} /\ due = [a \in 1 .. MaxActions |-> 0]
  BY DEF InitAll, Jobs
<1>4. JobsTypeOK
  BY <1>3 DEF JobsTypeOK
<1> QED
  BY <1>1, <1>2, <1>3, <1>4
  DEF DocumentsInv, VerdictDocumentsAreGranted, DocumentsHaveFiles,
      DoneMeansDelivered, RunningTasksAreQueued

LEMMA NextDocuments ==
  ASSUME IInv, DocumentsInv, [NextAll]_allVars
  PROVE  IInv' /\ DocumentsInv'
<1>1. [Next]_vars
  BY AbsenceStep
<1>2. IInv'
  BY <1>1, NextIInv
<1>3. Keeps /\ SpawnsAreGranted'
  BY <1>1, AbsenceKeeps DEF DocumentsInv
<1>4. CASE AbsenceSteps
  <2>1. UNCHANGED <<jobs, tasks, serving, bucket, documents, employee_document>>
    BY <1>4 DEF AbsenceSteps
  <2>2. employees' = employees
    <3>1. CASE Requests
      BY <3>1 DEF Requests, Request
    <3>2. ASSUME NEW h \in Handlers, Calls(h) PROVE employees' = employees
      BY <3>2 DEF Calls, BeginVerdict, BeginSplit, BeginReschedule, BeginAttendance,
         tables
    <3>3. ASSUME NEW h \in Handlers, Commits(h) PROVE employees' = employees
      BY <3>3 DEF Commits, CommitApproval, CommitDenial, CommitSplit,
         CommitReschedule, CommitAttendance, Abort, tables
    <3> QED
      BY <1>4, <3>1, <3>2, <3>3 DEF AbsenceSteps
  <2>3. due' \in [1 .. MaxActions -> Int]
    <3>1. due \in [1 .. MaxActions -> Int]
      BY DEF DocumentsInv, JobsTypeOK
    <3>2. due' = [a \in 1 .. MaxActions |-> IF Approves(a) THEN due[a] + 1 ELSE due[a]]
      BY <1>4 DEF AbsenceSteps
    <3> QED
      BY <3>1, <3>2
  <2> QED
    BY <1>2, <1>3, <2>1, <2>2, <2>3, AbsenceStepsStep
<1>5. CASE UNCHANGED allVars
  <2>1. /\ UNCHANGED <<jobs, tasks, serving, bucket, documents, employee_document>>
        /\ employees' = employees /\ due' = due
    BY <1>5, UnchangedVars DEF allVars, jobVars
  <2>2. due' \in [1 .. MaxActions -> Int]
    BY <2>1 DEF DocumentsInv, JobsTypeOK
  <2> QED
    BY <1>2, <1>3, <2>1, <2>2, AbsenceStepsStep
<1>6. CASE Pyservice
  BY <1>2, <1>6, PyserviceStep DEF Pyservice
<1>7. CASE RestartAll
  BY <1>2, <1>3, <1>7, RestartAllStep
<1>8. CASE NextAll
  BY <1>2, <1>3, <1>4, <1>6, <1>7, <1>8, SpawnTaskStep, BeginExportStep, JobStepInv,
     RemoveEmployeeAndLinksStep
  DEF NextAll
<1> QED
  BY <1>5, <1>8

\* The invariants of Absence and of its documents, with tasks, exports, the
\* Python service and restarts taking their steps in any order.
THEOREM DocumentsInvariance == SpecAll => [](IInv /\ DocumentsInv)
<1>1. InitAll => IInv /\ DocumentsInv
  BY InitDocuments
<1>2. (IInv /\ DocumentsInv) /\ [NextAll]_allVars => (IInv /\ DocumentsInv)'
  BY NextDocuments
<1> QED
  BY <1>1, <1>2, PTL DEF SpecAll

\* Jobs and what they left behind are well-formed.
THEOREM JobTypes == SpecAll => []JobsTypeOK
<1>1. DocumentsInv => JobsTypeOK
  BY DEF DocumentsInv
<1> QED
  BY <1>1, DocumentsInvariance, PTL

\* No task writes the document of an absence whose approval was not recorded,
\* whatever happened to the absence between the commit and the task.
THEOREM TasksWriteWhatWasGranted == SpecAll => []VerdictDocumentsAreGranted
<1>1. DocumentsInv => VerdictDocumentsAreGranted
  BY DEF DocumentsInv
<1> QED
  BY <1>1, DocumentsInvariance, PTL

\* No row of `documents` without its PDF, however many attempts timed out, were
\* answered late or failed.
THEOREM RowsHaveFiles == SpecAll => []DocumentsHaveFiles
<1>1. DocumentsInv => DocumentsHaveFiles
  BY DEF DocumentsInv
<1> QED
  BY <1>1, DocumentsInvariance, PTL

\* What ended well was delivered to everyone who is still there.
THEOREM DoneIsDelivered == SpecAll => []DoneMeansDelivered
<1>1. DocumentsInv => DoneMeansDelivered
  BY DEF DocumentsInv
<1> QED
  BY <1>1, DocumentsInvariance, PTL

\* The verdict handler never pops, and so never cancels, a task that runs.
THEOREM TasksStayQueued == SpecAll => []RunningTasksAreQueued
<1>1. DocumentsInv => RunningTasksAreQueued
  BY DEF DocumentsInv
<1> QED
  BY <1>1, DocumentsInvariance, PTL

=============================================================================
