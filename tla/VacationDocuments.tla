------------------------- MODULE VacationDocuments -------------------------
(***************************************************************************)
(* The documents the backend writes about absences.  An approved verdict   *)
(* leaves a background task behind (GenerateVacationDocument) that the     *)
(* handler keeps in its queue `tasks_`; GET /v1/documents/vacation does    *)
(* the same work while its client waits.  Both read the absence, post it   *)
(* to the Python service, which writes a PDF into the bucket, and then     *)
(* insert the row and the links in two statements of their own.            *)
(*                                                                         *)
(* Composes Absence with the jobs, the Python service and the bucket.      *)
(***************************************************************************)
EXTENDS Absence, FiniteSets, FiniteSetsExt

CONSTANTS
  Company,     \* company_id of the requests' tokens
  NoCompany,   \* the company_id the Python service finds in no request
  Templates,   \* <<company_id, request_type>> of generate_document/templates
  Leavers,     \* the employees that may be removed
  MaxExports   \* bound: calls of /v1/documents/vacation

ASSUME ExportsAssumption == MaxExports \in Nat /\ Leavers \subseteq Employees
ASSUME HandlersAssumption == IsFiniteSet(Handlers)

VARIABLES
  jobs,              \* every task and export so far, by file_key
  tasks,             \* `tasks_`: the queue of the verdict handler
  serving,           \* posts the Python service works on: <<file_key, attempt>>
  bucket,            \* file_keys of the PDFs in the bucket
  documents,         \* file_keys of the rows of `documents`
  employee_document, \* rows of `employee_document`: <<employee, file_key>>
  due                \* history: an action's approvals that committed, less those
                     \* that a restart kept from their task

jobVars == <<jobs, tasks, serving, bucket, documents, employee_document, due>>
allVars == <<vars, jobVars>>

Attempts == 2   \* .retry(2)

\* Bound: a request is announced first, and every task follows another
\* notification.  Exports and notifications are bounded together.
MaxJobs == MaxNotices - 1

Running  == {"reading", "posting", "inserting", "attaching"}
Ended    == {"done", "failed", "lost"}
JobState ==
  [source : {"task", "export"}, request_type : {"create", "split"},
   action : Nat, employee : Employees \cup {NoHead},
   head : Employees \cup {NoHead}, attempt : 1 .. Attempts,
   step : Running \cup Ended]

Jobs == DOMAIN jobs
IsRunning(j) == jobs[j].step \in Running

\* Job j continues with another step, or with its next attempt.
Goto(j, step) == jobs' = [jobs EXCEPT ![j].step = step]

----------------------------------------------------------------------------
(* Where jobs come from *)

\* Mutant: the front is popped without asking whether it IsFinished.
DropFinished_Unchecked(queue) == <<>>

\* while (!tasks->empty() && tasks->front().IsFinished()) tasks->pop()
DropFinished(queue) ==
  LET live == {i \in DOMAIN queue : IsRunning(queue[i])} IN
    IF live = {} THEN <<>> ELSE SubSeq(queue, Min(live), Len(queue))

NewTask(a) ==
  [source |-> "task", request_type |-> "create", action |-> a,
   employee |-> NoHead, head |-> NoHead, attempt |-> 1, step |-> "reading"]

\* Mutant: an action that has a task already gets no other.
SpawnTask_Once(h) ==
  /\ Spawn(h)
  /\ IF \E j \in Jobs : jobs[j].source = "task" /\ jobs[j].action = handlers[h].action
     THEN UNCHANGED <<jobs, tasks>>
     ELSE /\ jobs' = Append(jobs, NewTask(handlers[h].action))
          /\ tasks' = Append(DropFinished(tasks), Len(jobs) + 1)
  /\ UNCHANGED <<serving, bucket, documents, employee_document, due>>

\* The verdict handler after its commit: tasks_.Lock(), drop, push.
SpawnTask(h) ==
  /\ Spawn(h)
  /\ jobs' = Append(jobs, NewTask(handlers[h].action))
  /\ tasks' = Append(DropFinished(tasks), Len(jobs) + 1)
  /\ UNCHANGED <<serving, bucket, documents, employee_document, due>>

\* The rows a document is about, all of which AsSingleRow must find: the
\* absence, its employee, the head, and for a split both parts.
Readable(a, parts) ==
  /\ {a} \cup parts \subseteq DOMAIN actions
  /\ actions[a].user_id \in DOMAIN employees
  /\ Superior(actions[a].user_id) \in DOMAIN employees

Exports == Cardinality({j \in Jobs : jobs[j].source = "export"})

\* GET /v1/documents/vacation up to its first post.  The other outcomes are
\* answers that change nothing: 400 for a wrong type or an action that was not
\* split in two, 500 for a row that is gone.
BeginExport(a, request_type) ==
  /\ Exports < MaxExports /\ nextNotice + Exports <= MaxNotices
  /\ a \in DOMAIN actions
  /\ actions[a].type = "vacation"
  /\ request_type = "split" => Len(actions[a].blocking) = 2
  /\ Readable(a, IF request_type = "split" THEN Range(actions[a].blocking)
                                           ELSE {})
  /\ jobs' = Append(jobs,
       [source |-> "export", request_type |-> request_type, action |-> a,
        employee |-> actions[a].user_id, head |-> Superior(actions[a].user_id),
        attempt |-> 1, step |-> "posting"])
  /\ serving' = serving \cup {<<Len(jobs) + 1, 1>>}
  /\ UNCHANGED <<vars, tasks, bucket, documents, employee_document, due>>

\* The transaction GenerateVacationDocument reads with, and its first post.
ReadForDocument(j) ==
  /\ jobs[j].step = "reading"
  /\ IF Readable(jobs[j].action, {})
     THEN /\ jobs' = [jobs EXCEPT ![j].step = "posting",
                        ![j].employee = actions[jobs[j].action].user_id,
                        ![j].head = Superior(actions[jobs[j].action].user_id)]
          /\ serving' = serving \cup {<<j, 1>>}
     ELSE Goto(j, "failed") /\ UNCHANGED serving
  /\ UNCHANGED <<vars, tasks, bucket, documents, employee_document, due>>

----------------------------------------------------------------------------
(* The post: an attempt ends with the service's answer or without one *)

\* Mutant: raise_for_status is not called.
Unanswered_Ignored(j, posts) ==
  IF jobs[j].attempt < Attempts
  THEN /\ jobs' = [jobs EXCEPT ![j].attempt = @ + 1]
       /\ serving' = posts \cup {<<j, jobs[j].attempt + 1>>}
  ELSE Goto(j, "inserting") /\ serving' = posts

\* Mutant: the last attempt is repeated until it succeeds.
Unanswered_Forever(j, posts) ==
  IF jobs[j].attempt < Attempts
  THEN /\ jobs' = [jobs EXCEPT ![j].attempt = @ + 1]
       /\ serving' = posts \cup {<<j, jobs[j].attempt + 1>>}
  ELSE UNCHANGED jobs /\ serving' = posts \cup {<<j, Attempts>>}

\* An attempt that timed out or was answered 500 is repeated once with the
\* same file_key; then perform() or raise_for_status() throws.  `posts` is
\* what the service still works on.
Unanswered(j, posts) ==
  IF jobs[j].attempt < Attempts
  THEN /\ jobs' = [jobs EXCEPT ![j].attempt = @ + 1]
       /\ serving' = posts \cup {<<j, jobs[j].attempt + 1>>}
  ELSE Goto(j, "failed") /\ serving' = posts

Awaits(j, k) == jobs[j].step = "posting" /\ jobs[j].attempt = k

TimeOut(j) ==
  /\ jobs[j].step = "posting"
  /\ Unanswered(j, serving)
  /\ UNCHANGED <<vars, tasks, bucket, documents, employee_document, due>>

\* The template is named by the request's company_id, absent in an export's.
Template(j) ==
  <<IF jobs[j].source = "task" THEN Company ELSE NoCompany,
    jobs[j].request_type>>

\* generate_document: the upload, and the answer if anyone still waits for it.
PyserviceUploads(j, k) ==
  /\ <<j, k>> \in serving
  /\ Template(j) \in Templates
  /\ bucket' = bucket \cup {j}
  /\ serving' = serving \ {<<j, k>>}
  /\ IF Awaits(j, k) THEN Goto(j, "inserting") ELSE UNCHANGED jobs
  /\ UNCHANGED <<vars, tasks, documents, employee_document, due>>

\* generate_document: any exception, a missing template above all, is a 500.
PyserviceFails(j, k) ==
  /\ <<j, k>> \in serving
  /\ IF Awaits(j, k) THEN Unanswered(j, serving \ {<<j, k>>})
                     ELSE serving' = serving \ {<<j, k>>} /\ UNCHANGED jobs
  /\ UNCHANGED <<vars, tasks, bucket, documents, employee_document, due>>

----------------------------------------------------------------------------
(* The two inserts *)

InsertDocument(j) ==
  /\ jobs[j].step = "inserting"
  /\ documents' = documents \cup {j}
  /\ Goto(j, "attaching")
  /\ UNCHANGED <<vars, tasks, serving, bucket, employee_document, due>>

\* The employee and the head, as the job read them.
Readers(j) == {jobs[j].employee, jobs[j].head}

\* Mutant: only the employee gets the document.
Attach_EmployeeOnly(j) ==
  /\ jobs[j].step = "attaching"
  /\ Readers(j) \subseteq DOMAIN employees
  /\ employee_document' = employee_document \cup {<<jobs[j].employee, j>>}
  /\ Goto(j, "done")
  /\ UNCHANGED <<vars, tasks, serving, bucket, documents, due>>

\* The employee and the head get the document, if the foreign keys allow.
Attach(j) ==
  /\ jobs[j].step = "attaching"
  /\ Readers(j) \subseteq DOMAIN employees
  /\ employee_document' = employee_document \cup (Readers(j) \X {j})
  /\ Goto(j, "done")
  /\ UNCHANGED <<vars, tasks, serving, bucket, documents, due>>

\* A statement of the job fails: the exception ends it, what it wrote stays.
BreakJob(j) ==
  /\ jobs[j].step \in {"reading", "inserting", "attaching"}
  /\ Goto(j, "failed")
  /\ UNCHANGED <<vars, tasks, serving, bucket, documents, employee_document, due>>

----------------------------------------------------------------------------
(* Around the jobs *)

\* Mutant: the links do not cascade.
RemoveEmployeeAndLinks_KeepsLinks(u) ==
  /\ RemoveEmployee(u)
  /\ UNCHANGED jobVars

\* /v1/employee/remove: employee_document cascades, documents do not.
RemoveEmployeeAndLinks(u) ==
  /\ RemoveEmployee(u)
  /\ employee_document' = {link \in employee_document : link[1] # u}
  /\ UNCHANGED <<jobs, tasks, serving, bucket, documents, due>>

\* The approvals of action a that committed and have no task yet.
Leaving(a) ==
  {h \in Handlers : handlers[h].op = "spawn" /\ handlers[h].action = a}

\* The backend stops and starts: its handlers, tasks and queue are gone, the
\* Python service goes on.
RestartAll ==
  /\ Restart
  /\ jobs' = [j \in Jobs |-> IF IsRunning(j) THEN [jobs[j] EXCEPT !.step = "lost"]
                                             ELSE jobs[j]]
  /\ tasks' = <<>>
  /\ due' = [a \in 1 .. MaxActions |-> due[a] - Cardinality(Leaving(a))]
  /\ UNCHANGED <<serving, bucket, documents, employee_document>>

InitAll ==
  /\ Init
  /\ jobs = <<>>
  /\ tasks = <<>>
  /\ serving = {}
  /\ bucket = {}
  /\ documents = {}
  /\ employee_document = {}
  /\ due = [a \in 1 .. MaxActions |-> 0]

JobStep(j) ==
  \/ ReadForDocument(j)
  \/ TimeOut(j)
  \/ InsertDocument(j)
  \/ Attach(j)
  \/ BreakJob(j)

Pyservice ==
  \E j \in Jobs, k \in 1 .. Attempts : PyserviceUploads(j, k) \/ PyserviceFails(j, k)

\* This step commits an approval of action a: its employee is told of it.
Approves(a) ==
  \E n \in DOMAIN notifications' \ DOMAIN notifications :
    notifications'[n].kind = "approved" /\ notifications'[n].action_id = a

AbsenceSteps ==
  /\ Requests \/ \E h \in Handlers : Calls(h) \/ Commits(h)
  /\ nextNotice' + Exports <= MaxNotices + 1
  /\ due' = [a \in 1 .. MaxActions |-> IF Approves(a) THEN due[a] + 1 ELSE due[a]]
  /\ UNCHANGED <<jobs, tasks, serving, bucket, documents, employee_document>>

NextAll ==
  \/ AbsenceSteps
  \/ \E h \in Handlers : SpawnTask(h)
  \/ \E a \in DOMAIN actions, type \in {"create", "split"} : BeginExport(a, type)
  \/ \E j \in Jobs : JobStep(j)
  \/ Pyservice
  \/ \E u \in Leavers : RemoveEmployeeAndLinks(u)
  \/ RestartAll

\* The task processor runs every handler and task that can run.  What clients
\* and the Python service do is not fair: a timeout ends every wait for them.
Fairness ==
  /\ \A h \in Handlers : WF_allVars(SpawnTask(h))
  /\ \A j \in 1 .. MaxJobs : WF_allVars(j \in Jobs /\ JobStep(j))

SpecAll == InitAll /\ [][NextAll]_allVars /\ Fairness

----------------------------------------------------------------------------
(* Properties *)

\* The tasks of action a that have ended.
EndedTasks(a) ==
  {j \in Jobs : /\ jobs[j].source = "task"
                /\ jobs[j].action = a
                /\ ~IsRunning(j)}

\* Jobs and what they left behind are well-formed.
JobsTypeOK ==
  /\ jobs \in Seq(JobState)
  /\ tasks \in Seq(Jobs)
  /\ serving \subseteq Jobs \X (1 .. Attempts)
  /\ bucket \subseteq Jobs
  /\ documents \subseteq Jobs
  /\ employee_document \subseteq (DOMAIN employees) \X documents
  /\ due \in [1 .. MaxActions -> Int]

\* A document a verdict's task wrote is about an absence whose approval was
\* recorded, although the task is spawned whether or not the UPDATE found the
\* row, and reads the absence after other handlers may have changed it.
VerdictDocumentsAreGranted ==
  \A j \in documents : jobs[j].source = "task" => jobs[j].action \in granted

\* Every row of `documents` names a PDF that is in the bucket: a post that
\* timed out or failed twice leaves no row, although it may leave a PDF.
DocumentsHaveFiles == documents \subseteq bucket

\* A job that ended well delivered: its row is there, and of the employee and
\* the head everyone who was not removed in between is linked to it.
DoneMeansDelivered ==
  \A j \in Jobs : jobs[j].step = "done" =>
    /\ j \in documents
    /\ (Readers(j) \cap DOMAIN employees) \X {j} \subseteq employee_document

\* No unfinished task is dropped from the queue: dropping a TaskWithResult
\* cancels it.
RunningTasksAreQueued ==
  \A j \in Jobs : jobs[j].source = "task" /\ IsRunning(j) => j \in Range(tasks)

\* Every task and export ends, whatever the Python service does.
JobsEnd ==
  \A j \in 1 .. MaxJobs :
    (j \in Jobs /\ IsRunning(j)) ~> (j \in Jobs /\ ~IsRunning(j))

\* Every approval that commits, of an action approved before as of any other, is
\* followed by a task of its own that ends, however its post fares; excepted are
\* just as many approvals as a restart caught between their commit and their task.
ApprovalIsFollowedUp ==
  \A a \in 1 .. MaxActions, n \in 1 .. MaxJobs :
    (due[a] >= n) ~> (due[a] < n \/ Cardinality(EndedTasks(a)) >= n)

\* The file an export asks the Python service for can be generated.
ExportsHaveTemplates ==
  \A j \in Jobs : jobs[j].source = "export" => Template(j) \in Templates

=============================================================================
