# Working Day: specifications, model checking and proofs

Working Day is a personnel system. A C++ backend (userver) answers HTTP calls
and keeps its state in PostgreSQL, one schema `working_day_<company>` per
company; a Python service generates and stamps PDFs and puts them into a bucket.
This directory holds TLA+ models of the parts of it that change state, TLC
configurations that check them, and proofs about each of them.

All paths below are relative to `src/`; `views/` stands for `src/views/v1/`
there.

## The system

| Part | State it keeps | Operations | What makes it hard |
| --- | --- | --- | --- |
| Absences (`views/abscence/*`, `views/attendance/add`, `views/notifications`, `views/employee/add_head`) | `actions`, `notifications`, `employees.head_id` | request, verdict, split, reschedule, attendance/add, add-head, the list of notifications | each handler reads an action and writes what it computed from it, under READ COMMITTED and without locks |
| Attendance list (`views/attendance/list_all`) | none | one list out of three SELECTs | no transaction around the three; days counted from times of day |
| Vacation documents (`views/abscence/verdict`, `views/documents/vacation`, `python_service/generate_document`) | the queue `tasks_`, `documents`, `employee_document`, the bucket | a background task per approval, exports on demand | retries, timeouts, late answers, rows written in several transactions, tasks lost at a restart |
| Signing (`views/documents/{upload,send,sign,get_signs,list,list_all}`, `python_service/sign_document`) | `documents`, `employee_document`, the bucket | upload, send, sign, three readers | a signature is three transactions after a remote call, about a file that may never come |
| Employees and search index (`views/employee/*`, `views/profile/edit`, `views/clear-tasks`, `src/core/reverse_index`) | `employees`, `employee_team`, `reverse_index`, a queue with a lock | add, remove, edit, clear-tasks | the index is written by background tasks in any order |
| Searches (`views/search/*`) | none | basic, suggest, full | they answer from the index, then join with the rows |
| Company setup (`views/superuser/company/add`, `scripts`, `postgresql/migrations`) | all tables, `wd_general.companies` | create a company, or repeat it | statements that fail one by one and do not stop the script |
| Photos, inventory, payments, links for downloads | columns of `employees`, `payments` | one statement each | little |
| Authorization (`views/authorize`, `src/auth`) | `wd_general.auth_tokens`, a cache | log in, check a token, update the cache | roles as of login, a cache that may miss rows for an hour, with the table behind it |

The parts meet in the tables: the verdict of an absence leaves a document task,
which reads `actions` and `employees` again; `/v1/employee/remove` deletes rows
everywhere through foreign keys; documents of either origin are listed and
signed through `employee_document`; the setup of a company drops and creates the
tables all others use. Every call but `/v1/authorize` passes `CheckAuth` first,
which decides whose call it is, for which company and in which role. Within the
backend the queues of tasks are shared by handlers on many threads. The Python
service is called over HTTP and may work on a post that its caller has given up.

What makes each part correct:

- Absences: an approval comes from a verdict, a denial is final, the columns
  that link an absence and its parts agree, attendance is not judged and there is
  one record per day, owners are told what happened, and whoever is asked for a
  verdict can find the request.
- Attendance list: everyone is in it, and a day of an absence that was split is in
  it once.
- Vacation documents: a document is about an approved absence, has its file and
  reaches employee and head; every task ends and every approval has one.
- Signing: a signature was asked for and has its file; it is not lost, and nobody
  a document was sent to disappears.
- Employees and searches: a login has one owner; what is found is what the rows
  hold; every call returns.
- Authorization: a token that was answered works at once and for good, and every
  call is served as the login it comes from.
- Company setup: a company that was added has its tables, and repeating the call
  loses no records.

## The modules

Proof modules and `MC` modules aside, there is one module per part. A handler is
split into steps where another actor can come between two of its statements; a
step holds everything the handler does up to the next such point.

| Module | Models | State and actions |
| --- | --- | --- |
| `Absence` | the handlers of absences, attendance, heads and notifications, and removals | `employees` (id to head), `actions`, `notifications` are the tables, `handlers` the locals of each execution. `Begin...` is the SELECT and the guards, `Commit...` the writes of the transaction, `Spawn` the step after a verdict's commit, `Abort` a transaction that fails or is rolled back. `granted`, `lineage` and `asked` are history. |
| `AbsenceLifecycle` | what absences promise, without tables | one phase per action: unborn, pending, logged, approved, gone |
| `AbsenceRefinement` | the mapping of `Absence` to `AbsenceLifecycle` | the phase is read off the row |
| `AbsenceProofs`, `AnnouncementProofs`, `RefinementProofs` | theorems about `Absence` and `AttendanceList` | see below |
| `AttendanceList` | `/v1/attendance/list-all`, extends `Absence` | operators for the SELECTs and the loops; `ListAll` takes the table the first SELECT read and the one the later SELECTs read |
| `VacationDocuments` | tasks and exports, extends `Absence` | `jobs` is every task or export so far with its step and attempt, `tasks` the queue, `serving` the posts the Python service still works on, `due` (history) the number of approvals of each action that committed, less those a restart kept from their task |
| `DocumentsProofs` | theorems about `VacationDocuments` | see below |
| `Signing` | sending and signing | the same division: `handlers`, `stamping`, the tables, the bucket; `signer`, `sent`, `dropped` are history |
| `SignatureLifecycle` | what signing promises, without tables, files, posts or retries | one phase per signature: asked, stamped, kept, listed, over |
| `SignatureRefinement` | the mapping of `Signing` to `SignatureLifecycle` | the phase is read off the link, the row, the file and the call that still works on the copy |
| `SigningProofs` | theorems about `Signing` | see below |
| `Directory` | employees, index tasks, the queue and its lock | `tasks` holds each index task with the step it is at; `LockTasks` and `UnlockTasks` are the scope of the lock in `ClearTasks` |
| `DirectoryProofs` | theorems about `Directory` and `Search` | see below |
| `Search` | suggest and full search, extends `Directory` | operators over the index and the rows |
| `Access` | `/v1/authorize`, `CheckAuth` and its cache | a login is four steps (the SELECT, the time the INSERT begins, its commit, the answer), a check one or two (the cache, the table); `stamped` are the tokens whose `updated` is not before the latest update of the cache, `told` (history) what logins were answered |
| `AccessProofs` | theorems about `Access` | see below |
| `CompanySetup` | the setup of one company | `tables` exist, `filled` ones hold rows, `setups` is the next statement of each execution; `Migrate` executes one statement of the script, which may be refused |
| `CompanySetupProofs` | theorems about `CompanySetup` | see below |

`PROJECT.json` maps each definition to the lines it translates.

### Abstractions

- Two steps per READ COMMITTED transaction in `Absence`: what a handler read
  first, and everything it wrote. Between two writes of one transaction others
  see nothing. `Request` is one step, as nobody can tell when it read the head.
  Ids (UUIDs) are counters. Texts and formats are left out; a notification has a
  kind, an addressee, a sender and an action. Time is minutes; dates are in one
  time zone, in which request, split and reschedule cut what clients send to its
  midnight (`DayStart`; a request of overtime excepted).
- `Absence` and `Signing` hire nobody: a removed login does not come back,
  although `/v1/employee/add` would hand it out again. `Directory` models that.
- Clients choose: `HeadChoices` is whom add-head may name, `Judges` who calls
  verdict and attendance/add, and `Careful` says that a verdict names a
  notification of its own action, as the client does; the code deletes whatever
  id it is sent. `Leavers` are the employees `VacationDocuments` removes.
- `notifications.action_id` has no foreign key in the model, as in the tests'
  schema (`postgresql/schemas/db_1.sql:45-55`). The migrations have one: there
  the denial, which deletes the action and then inserts a notification that
  names it (`verdict/view.cpp:235` and `:250`), is refused by the database and
  rolled back, and every denial answers 500. So `DenialIsFinal`, and whatever
  else is said of denials, is about the schema of the tests; the other
  properties do not lose by it, as with the key a denial changes nothing. Both
  this key and the one on `sender_id` that the migrations have
  (`postgresql/migrations/2__notifications_db.sql:13-14`) are ON DELETE SET
  NULL. A notification whose sender was removed then has no sender instead of
  one that is gone; the LEFT JOIN of the list gives a row of NULLs for either,
  so `NotificationsAnswer` fails under both schemas.
- Reads from a replica (`kSlave`) see the current table.
- The attendance list is for the default team and one time zone. Several commits
  may separate its SELECTs; the property looks at one.
- In `Directory` the push of a task and the SELECT before it are steps of their
  own where a lock is waited for. A field is a set of values; what an edit
  leaves out (NULL) is told from a list of phones that is given and empty. A
  missing row of the index and one without ids are the same; the searches answer
  the same for both. Passwords are numbers.
- Similarity and "begins with" are constants of `Search`. `GetIds` answers the
  set of the best employees, any of them where the sort leaves ties open, not
  their order. The limit of the suggestions is not reached.
- In `Signing` a file comes into the bucket at any time after its link, or
  never; documents are sent to lists of employees out of `Audiences`; the
  notifications of sends are not stored.
- In `Access` a wrong password is a 404, like a missing employee, and is left
  out. Tokens are counters. Instead of times the model keeps which tokens an
  incremental update has yet to see. `userver`'s cache itself is external: it
  reads rows whose `updated` is not before its previous update (or all rows),
  and a check sees one snapshot of it.
- In `CompanySetup` a table is there or not, with rows or without. Indexes and
  the trigger are left out; the column `inventory` counts as a table.

## The runs

`CHECK_DEADLOCK FALSE` everywhere: clients may stop calling, and every bound
stops them sooner or later.

| Run | Question | Bounds |
| --- | --- | --- |
| `absence_race` | Do approvals come from verdicts, are denials final, do the carving columns agree, do requests stay announced and does every commit follow the lifecycle, when two handlers interleave? | worker and boss, who may be made head, 2 handlers, 3 actions, 3 notifications, one day; handlers are symmetric |
| `attendance_serial` | One attendance per day, true notices, a complete list, and no day of a split absence lost or doubled? | 1 handler (removals interleave), 4 actions (an absence, moved, and the two parts of the moved one), noon of one day and midnight two days on, windows of one and two days |
| `absence_notices` | Does `/v1/notifications` always answer? Violated. | 1 handler, 3 notifications |
| `documents_all` | Are documents granted, complete and delivered, does every task and export end, and has every approval a task of its own? | 1 action, up to 3 notifications and so 2 approvals and their tasks, 1 export, the head may leave, restarts |
| `documents_template` | Can an export find its template? Violated. | 3 actions, 2 notifications, 1 export |
| `directory_all` | Does a login have one owner, who holds the lock, and does every call return? | 1 person, who may be added again, with one phone to edit, 2 handlers, 3 calls, faults and restarts |
| `directory_overlap` | Do searches follow edits that overlap? Violated. | 1 person, 1 handler, 3 calls |
| `search_tested` | Do the three searches answer what the rows hold? | 2 people, 5 calls, each followed by the end of all tasks, as the tests do with `/v1/clear-tasks`; queries of up to two words |
| `signing_all` | Are signatures real, tracked and kept, and does every step follow the lifecycle? | 2 employees, 2 files, 2 handlers, 2 calls of sign, faults always on |
| `company_serial` | Does a repeated setup complete the tables and keep the records? | 4 calls, one at a time, psql and backend may stop |
| `company_tables` | Does a company that was added have its tables? Violated. | 1 call |
| `access_all` | Do answered tokens work, as whom are calls served, and does the cache catch up? | 2 companies with the same employee id, 2 roles (one that `CheckAuth` knows, one it does not), 2 routes, 2 handlers, 2 tokens |

Why these bounds suffice for what is asked: the races of `Absence` are between
the read of one handler and the commit of another, so two handlers and one
action with two parts (three ids) contain every pair of operations on one
absence, and a third operation in sequence fits into the notifications. The
tasks of one action share nothing but its row and the queue, so two of them show
an order other than that of the queue. A post has two attempts, each of which
may be answered late or not at all. Login collisions need two calls of add at
once; that the next call may hit the login of a removed employee needs a third.
Two signatures are needed for two signers of one document, two documents of one
signer, or a copy of a copy. The third setup of a company is the first that
finds rows in `actions`, and the fourth follows one that was cut short. A token
is missed by the cache when its INSERT overlaps an update, which takes one
login; the second token tells a repeated one, and another company's, from it.

What the violated runs show is listed under `findings` in `PROJECT.json`: the
list of notifications fails for good after one of their senders was removed, an
export is refused for want of a company id, an index task that runs late brings a
replaced value back, and a new company lacks `notifications` although the call
answers 200.

### Fairness

`documents_all` assumes weak fairness of each task, each export and of the step
that spawns a task: userver's task processor runs every coroutine that can run,
and a post ends by its timeout. Nothing is assumed of clients or of the Python
service. A restart loses tasks, which counts as their end.
`ApprovalIsFollowedUp` counts: once n approvals of an action have committed
(`due`), n tasks of it end, so that a second approval of one action is owed a
task beside the first one's. A restart takes from `due` as many approvals as had
committed and had no task yet (`Leaving`), and nothing else does.
`directory_all` assumes weak fairness of tasks and of steps without the lock,
and strong fairness of the steps that wait for it: `userver`'s mutex keeps a
queue of waiters, so a call that waits gets the lock if it is free again and
again. `access_all` assumes weak fairness of the full update of the cache, which
configs/static_config.yaml:412 orders every hour, and of nothing else: the
incremental updates may never come, and help no token they have missed.

## What is proved

Every theorem is about every value of the constants that the named assumptions of
its module allow: any employees, handlers, ids and bounds. Eight of them ask for
more in their ASSUME, because the code breaks the property otherwise:

| Theorems | Ask for | Without it |
| --- | --- | --- |
| `AttendanceIsReplaced`, `ApprovalsAreTrue` | one handler execution at a time (`Handlers = {h}`); removals still come between its two steps, and failures and restarts anywhere | two calls of attendance/add replace nothing of each other (`views/attendance/add/view.cpp:81`); an approval is told of an action that a denial deleted (`views/abscence/verdict/view.cpp:229`) |
| `SearchFollows`, `SuggestFollows`, `FullSearchFinds` | clients that wait for all tasks before the next call (`SpecTested`, as the tests do), and `TidyValues`: nobody is removed, a value is not that of two fields, and what is edited comes in lower case | `directory_overlap` shows it for calls that overlap; values with capitals, equal values and removals leave the index wrong (`hazards`) |
| `SecondRunsComplete`, `NewcomersJoin`, `RecordsAreKept` | one setup of the company at a time (`Setups = {s}`), which may stop anywhere; others write meanwhile | the DROP of one setup lets another drop actions (`scripts/setup_company_db.sh:18`) |

`attendance_serial`, `search_tested` (`MCSearch` checks `TidyValues` as an ASSUME)
and `company_serial` are instances of these hypotheses. All other theorems hold
under any interleaving.

`AbsenceProofs` proves (from `HeadsAssumption`, `InstantsAssumption` and
`BoundsAssumption` of `Absence`):

- `TypeCorrectness`: `Spec => []TypeOK`
- `ApprovalsComeFromVerdicts`: `Spec => []ApprovalProvenance`
- `DenialsAreFinal`: `Spec => []DenialIsFinal`
- `CarvingLinksAgree`: `Spec => []CarvingLinks`
- `AttendanceIsNeverJudged`: `Spec => []OnlyAbsencesAreJudged`

All follow from `Invariance`: `Spec => []IInv`, where

    IInv == TypeOK /\ Agreement /\ IdsAreKnown /\ DenialIsFinal /\ CarvingLinks

None of the properties is inductive by itself. A split that commits inserts rows
with the status its handler read, so `ApprovalProvenance` needs `LocalsAgree`
(in `Agreement`): what a handler holds in its locals was approved only if its
action, or one it was carved from, is in `granted`, which only grows. It also
needs to know that attendance records are not judged, as the same statement
copies the type. `DenialIsFinal` needs that the id in a notification was handed
out before (`IdsAreKnown`), or a later INSERT could reuse it, and `CarvingLinks`
needs the same of the two columns.

The steps fall into two kinds. `LocalStep` changes the locals of one handler and
nothing else, and `LocalStepIInv` shows that it keeps `IInv`. Every other step
is shown to be an `Evolves`: a row keeps its type and its origin, its status
changes only to approved and only by a verdict, no deleted row comes back, and a
new row is approved only if that is sanctioned, is blocked by nothing, and comes
with an origin that is blocked; notifications are only added or removed.
`EvolvesIInv` shows once that such a step keeps `IInv`, and one lemma per action
shows that it is one.

`AnnouncementProofs` adds `PendingStaysAnnounced`: `Spec => []PendingIsAnnounced`.
The invariant is `PendingIsAnnounced /\ VerdictsNameTheirs`, proved on top of the
`IInv` above. A verdict deletes, when it commits, the notification its client
named when it began, so `VerdictsNameTheirs` says that no later INSERT can get
that id and that, for careful clients, it is about the action that is judged,
which is then no longer pending. That other rows do not become pending again is
`Evolves`. It proves more:

- `ColleaguesAreListed`: `Spec => EveryColleagueListed`. An attendance is left out
  only for an absence with a date on that day; `DayInWindowHasDate` finds the date
  of that absence that lies in the window too, so its owner has that row instead.
- `SplitsKeepDays`: `Spec => []SplitKeepsDays`, for any number of handlers. The
  dates of a row are the midnights between its ends only if it starts at one
  (`DatesAreMidnights`), so the invariant `DaysInv` says that whole-day absences
  begin at a midnight and end a minute before one, whoever inserted them. A split
  commits parts of a row it read earlier: `CarversKnow` says that what it read
  still has the days of the row, and that its date, cut to midnight, lies in them.
  `PartsMeet` then finds the midnight at which one part ends and the other begins,
  and `PartsHaveDays` turns that into the two sets of dates.
- `AttendanceIsReplaced`: `Spec => []OneAttendancePerDay` and `ApprovalsAreTrue`:
  `Spec => ApprovalToldIsTrue`, for one handler. The invariant is `SoloInv ==
  OneAttendancePerDay /\ JudgedIsThere /\ ReplacedIsAll`: what the SELECT or the
  DELETE of the one handler saw is still so when it writes, unless the employee
  was removed, and then the foreign key refuses what it writes, or nobody is told.

`RefinementProofs` proves that `Absence` implements `AbsenceLifecycle`,
`LifecycleImplemented`: `Spec => ImplementsLifecycle`. The mapping reads the phase
of an action off its row. Each commit is mapped to one step: a request to `Ask`, a
verdict to `Approve` or `Discard`, a split or reschedule to `Carve`, attendance to
`Log`, a removal to `Discard`; everything else, and an approval that found no row,
stutters. `Carve` of an approved part needs `ApprovalProvenance` of what the
handler read (in `IInv`), `Approve` needs that attendance is not judged, and `Log`,
which may replace nothing but logged actions, needs `ReplacedAreLogged`: what the
DELETE of `/v1/attendance/add` saw were attendance records and, if still there,
are, as no action changes its type.

`DocumentsProofs` proves (from the assumptions of `Absence`, `ExportsAssumption`
and `HandlersAssumption`, finitely many executions at once; `SpecAll` states
fairness, which these proofs do not use):

- `JobTypes`: `SpecAll => []JobsTypeOK`
- `TasksWriteWhatWasGranted`: `SpecAll => []VerdictDocumentsAreGranted`
- `RowsHaveFiles`: `SpecAll => []DocumentsHaveFiles`
- `DoneIsDelivered`: `SpecAll => []DoneMeansDelivered`
- `TasksStayQueued`: `SpecAll => []RunningTasksAreQueued`

Every step of `NextAll` is a step of `Absence` or leaves its variables alone
(`AbsenceStep`), so `IInv` holds here too, and with it what no step of `Absence`
undoes (`Keeps`): approvals stay recorded, and an action that is gone never
returns. The five properties are conjuncts of `DocumentsInv`, which adds two. A
task is spawned whether or not the UPDATE of its verdict found the row, so
`SpawnsAreGranted` and `JobHolds` say that its action is in `granted` or is gone:
if the task then finds the action, it was granted. `JobHolds` also follows a job:
from the answered post on its file is in the bucket, from the INSERT on its row is
there. `JobMoves` shows once what a step of one job has to keep, `NewJob` what a
job begins with, and `JobsKept` what every other step leaves of all of them;
`DropFinishedKeeps` is the fact about the queue: what is popped in front of the
first task that runs has finished.

`AccessProofs` proves (from `RoutesAssumption`, `LoginsAssumption`):

- `AccessTypes`: `Spec => []TypeOK`
- `AnswersWork`: `Spec => []AnsweredLoginsWork`
- `ServedAsAnswered`: `Spec => []ServedAsLoggedIn`

The invariant is `TypeOK /\ TokensAreFresh /\ RowsOfLogins /\ RowsOfAnswers /\
CallsAreJudged`. That a login in progress holds a token nobody else holds
(`TokensAreFresh`) makes its row the only one of that token, so a row, once
inserted, is the one its login was about, while it is being answered
(`RowsOfLogins`) and after (`RowsOfAnswers`). `CallsAreJudged` carries that over
to calls: as the cache is part of the table (`TypeOK`), a judgement from either is
the same, and as answered tokens are rows, a miss in the cache is made good by the
SELECT.

`SigningProofs` proves (from `SigningAssumption`):

- `SigningTypes`: `Spec => []TypeOK`
- `SignaturesReal`: `Spec => []SignaturesAreReal`
- `RecipientsTracked`: `Spec => []RecipientsAreTracked`
- `ReceivedDocumentsStay`: `Spec => []ReceivedStays`
- `SignaturesAreKept`: `Spec => SignaturesStay`
- `SignaturesImplemented`: `Spec => ImplementsSignatures`

The invariant of the first two is `TypeOK /\ HandlersHold /\ CopiesAreAskedFor /\
SignaturesAreReal`. A signed link is written three transactions after its copy was
asked for. `HandlersHold` follows the call: its key was made for its employee and
document, its file is in the bucket from the answered post on, and its row is
there before the link. A row that another call writes under the same id would
break this, which `CopiesAreAskedFor` excludes, as uploads and copies have
different ids.

The next three rest on `Traces`, which one lemma per action shows of every step:
parents and requests are never changed and requests are about older documents
(`PastIsKept`); a link goes only with its employee, or while its call stands
between the two links of a copy that employee asked for (`LinksEvolve`); what
stands there ends as the link to the copy or in `dropped` (`TornEvolve`); and what
is newly sent has its link (`SentEvolve`). `TracksInv` adds to the two properties
that sources are older documents and that what was sent is there. `Original`, the
upload a copy of a copy goes back to, is a recursive function over the numbers of
copies. The induction theorems of the library are out of the provers' reach, so a
least number at which it would be undefined, or differ after a step, is led to a
contradiction (`LeastNumber`, `OriginsExist`, `OriginsStay`).

The last one shows that `Signing` implements `SignatureLifecycle`. A first post
is mapped to `Ask`, the first answer while the call waits to `Stamp`, the
INSERTs to `Keep` and `List`; a timeout of the last attempt, a failure, a
restart or a refused link to `GiveUp`; a removal to `Leave`, and the DELETE of
the link to a signed copy to `Supersede`. All else stutters, a late answer for a
call that gave up among it. That a phase can be read off the tables needs
`CallsWork`: a copy has one call, and neither its row nor its link is there
before the call is that far, so what is listed has no call left and what lost
its call is over.

`DirectoryProofs` proves (from the assumptions of `Directory` and `Search`):

- `DirectoryTypes`: `Spec => []TypeOK`
- `LoginsHaveOneOwner`: `Spec => []OneOwnerPerLogin`
- under `TidyValues`: `SearchFollows`: `SpecTested => []SearchFollowsEdits`,
  `SuggestFollows`: `SpecTested => []SuggestFollowsEdits`, `FullSearchFinds`:
  `SpecTested => []FullSearchFindsBest`

The invariant `DInv` of the first two knows what each handler and task holds, and
that everybody who was answered has a row in `employee_team`, whose primary key
refuses the second owner of a login. `Numbers` counts: the numbers appended to a
login so far are fewer than the calls of add that have had their turn, so the
number an add tries next is within `MaxCalls`. For the three searches, `IInv`
follows one employee at a time. The index task of an edit runs beside the UPDATE
of its own call, so the row may be ahead of the index or behind it; `Follows(l)`
says that what the live task will leave of the index (`Left`) is what the pending
UPDATE will leave of the row (`Target`), and that with no live task the index is
already there. When all is quiet both are what is written (`WhenQuiet`), and the
searches are sets over the index: `RowsOfWords` turns the number of rows that
suggest counts into "every word is a key of somebody", and `LeastElement` gives the
minimum in the ranks of the full search.

`CompanySetupProofs` proves (from `MaxCallsAssumption`):

- `SetupTypes`: `Spec => []TypeOK`, for any number of setups at once
- for one at a time: `SecondRunsComplete`: `Spec => []SecondRunCompletes`,
  `NewcomersJoin`: `Spec => []NewcomersGetATeam`, `RecordsAreKept`:
  `Spec => SetupKeepsRecords`

`SInv` says what is there when the script is at its n-th statement: what the
statements before it created (`Created`), the table that refers to one with rows
and so shields it from its DROP (`Shielded`), what a script that got to its end has
left for the next (`Completed`) and the default team (`Joined`). `StatementStep`
takes the 17 statements one by one.

Only model-checked: the liveness properties `JobsEnd`, `ApprovalIsFollowedUp`,
`CallsReturn` and `CacheCatchesUp`, as fairness and ENABLED are beyond the proof
system. The four violated runs state what the code does not do. Every other
property of a run is a theorem.

## What is not modelled

`/v1/employees`, `/v1/employee/info`, the upload of photos, inventory and the
list of payments are one statement each, of columns no modelled handler reads.
`/v1/actions` is one SELECT of the caller's own actions. `/v1/payments/add_bulk`
throws "Not implemented" before it writes. Links for downloads, stamps,
payslips, JSON and start-up hold no state that outlives a call.
`views/search/full_old` is not built. The notifications of sends are left out:
nothing reads them but their addressee. Behaviours of the modelled code that no
property claims, such as two attendance records from two calls at once, are
listed with the reason under `hazards`.

## Plan

1. Done: all the modules above, the refinements of both lifecycles, restarts
   under the liveness properties, and proofs of every safety property.
2. A constant that says whether `notifications.action_id` is a foreign key, and a
   run of denials with it, all of which the key refuses.
3. An abstract index for `Directory`, which it implements only when calls do not
   overlap.
4. Two commits between the SELECTs of the attendance list, and callers without a
   team.
5. Proofs: every safety property of a run is proved; those of items 2 to 4 are
   next.
