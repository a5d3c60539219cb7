------------------------------ MODULE Absence ------------------------------
(***************************************************************************)
(* The absence subsystem of one company: the tables `employees`, `actions` *)
(* and `notifications` of its PostgreSQL schema and the HTTP handlers that *)
(* write them: /v1/abscence/{request,verdict,split,reschedule},            *)
(* /v1/attendance/add, /v1/employee/add-head and /v1/employee/remove.      *)
(*                                                                         *)
(* A handler that reads an action and later writes what it computed from   *)
(* it is two steps: Begin... is its SELECT (or, for attendance, the rows   *)
(* its DELETE found), Commit... is everything it writes.  The transactions *)
(* run under READ COMMITTED and read without FOR UPDATE, so any commit of  *)
(* another handler may fall between the two; writes become visible         *)
(* together, at the commit.                                                *)
(***************************************************************************)
EXTENDS Integers, Sequences, Functions

CONSTANTS
  Employees,     \* ids that rows of `employees` may have
  NoHead,        \* the NULL of employees.head_id
  HeadOf,        \* employees.head_id at first
  HeadChoices,   \* whom clients name in /v1/employee/add-head, if they call it
  Judges,        \* callers of /v1/abscence/verdict and /v1/attendance/add
  Careful,       \* whether verdicts name only notifications of their action
  RequestTypes,  \* the types clients ask for
  Instants,      \* the timestamps clients send, in minutes
  Handlers,      \* handler executions that may be in progress at once
  MaxActions,    \* bound: rows ever inserted into `actions`
  MaxNotices     \* bound: rows ever inserted into `notifications`

ASSUME HeadsAssumption ==
  /\ HeadOf \in [Employees -> Employees \cup {NoHead}]
  /\ NoHead \notin Employees
  /\ HeadChoices \subseteq Employees
  /\ Judges \subseteq Employees
ASSUME CarefulAssumption == Careful \in BOOLEAN
ASSUME InstantsAssumption == Instants \subseteq Int
ASSUME BoundsAssumption == MaxActions \in Nat /\ MaxNotices \in Nat

VARIABLES
  employees,      \* id -> head_id of the rows of `employees`
  actions,        \* id -> row of `actions`
  notifications,  \* id -> row of `notifications`
  handlers,       \* what each handler execution holds in its locals
  nextAction,     \* the next fresh id (GenerateUuid) of an action
  nextNotice,     \* the next fresh id of a notification
  granted,        \* history: actions whose approval an UPDATE recorded
  lineage,        \* history: id -> the action and all it was carved from
  asked           \* history: requested action -> who was told of the request

tables  == <<employees, actions, notifications>>
fresh   == <<nextAction, nextNotice>>
history == <<granted, lineage, asked>>
vars    == <<tables, handlers, fresh, history>>

Null == 0   \* the NULL of an id column: fresh ids start at 1

----------------------------------------------------------------------------
(* Types and dates *)

DayTypes     == {"vacation", "sick_leave", "unpaid_vacation", "business_trip"}
AbsenceTypes == DayTypes \cup {"overtime"}   \* what ActionTypeToName knows
ActionTypes  == AbsenceTypes \cup {"attendance"}

Day == 1440
DayOf(t)    == t \div Day
DayStart(t) == DayOf(t) * Day

\* head_id.value_or(user_id)
Superior(u) == IF employees[u] = NoHead THEN u ELSE employees[u]

\* request_body.start_date and end_date as the request handler stores them:
\* whole days, except for overtime.
StartOf(type, from) == IF type = "overtime" THEN from ELSE DayStart(from)
EndOf(type, to)     == IF type = "overtime" THEN to ELSE DayStart(to) + Day - 1

----------------------------------------------------------------------------
(* Rows and the statements that change tables *)

ActionRow ==
  [type       : ActionTypes,
   user_id    : Employees,
   start_date : Int,
   end_date   : Int,
   status     : {"NULL", "pending", "approved"},
   underlying : Nat,         \* underlying_action_id
   blocking   : Seq(Nat)]    \* blocking_actions_ids

NoticeKinds == {"request", "approved", "denied", "split", "moved", "offered",
                "attendance_added"}
NoticeRow == [kind : NoticeKinds, user_id : Employees, sender_id : Employees,
              action_id : Nat]

NewAction(type, u, from, to, status, underlying) ==
  [type |-> type, user_id |-> u, start_date |-> from, end_date |-> to,
   status |-> status, underlying |-> underlying, blocking |-> <<>>]

\* INSERT of rows with fresh ids.
Insert(table, rows) ==
  [id \in DOMAIN table \cup DOMAIN rows |->
     IF id \in DOMAIN rows THEN rows[id] ELSE table[id]]

\* DELETE ... WHERE id IN ids
Delete(table, ids) == Restrict(table, DOMAIN table \ ids)

\* Mutant: the WHERE names the wrong column.
SetStatus_WrongColumn(table, a, s) ==
  [id \in DOMAIN table |->
     IF table[id].underlying = a THEN [table[id] EXCEPT !.status = s]
                                 ELSE table[id]]

\* UPDATE actions SET <column> = v WHERE id = a: no row matches when it is gone.
SetStatus(table, a, s) ==
  [id \in DOMAIN table |->
     IF id = a THEN [table[id] EXCEPT !.status = s] ELSE table[id]]
SetBlocking(table, a, ids) ==
  [id \in DOMAIN table |->
     IF id = a THEN [table[id] EXCEPT !.blocking = ids] ELSE table[id]]

\* The notification every handler inserts last, into the table less the
\* notification ids it deleted.  The foreign key on user_id makes the
\* transaction fail when the addressee is gone; nothing asks for the sender.
Notify(kind, u, sender, a, deleted) ==
  /\ u \in DOMAIN employees
  /\ nextNotice <= MaxNotices
  /\ notifications' =
       Insert(Delete(notifications, deleted),
              [n \in {nextNotice} |->
                 [kind |-> kind, user_id |-> u, sender_id |-> sender,
                  action_id |-> a]])
  /\ nextNotice' = nextNotice + 1

----------------------------------------------------------------------------
(* Handler executions *)

Idle == [op |-> "idle"]

VerdictState    == [op : {"verdict"}, action : Nat, row : ActionRow,
                    approve : BOOLEAN, notification : Nat, user : Employees]
SplitState      == [op : {"split"}, user : Employees, action : Nat,
                    row : ActionRow, date : Int]
RescheduleState == [op : {"reschedule"}, user : Employees, action : Nat,
                    row : ActionRow, date : Int]
AttendanceState == [op : {"attendance"}, employee : Employees, from : Int,
                    to : Int, replaced : SUBSET Nat, user : Employees]
SpawnState      == [op : {"spawn"}, action : Nat]
HandlerState    == {Idle} \cup VerdictState \cup SplitState \cup RescheduleState
                     \cup AttendanceState \cup SpawnState

Become(h, state) == handlers' = [handlers EXCEPT ![h] = state]

----------------------------------------------------------------------------
(* /v1/abscence/request.  The transaction is one step: what it inserts is  *)
(* seen by nobody before the commit, a head assigned after its SELECT of   *)
(* head_id might as well be assigned after the commit, and a head removed  *)
(* before it makes it fail.  Any other type is answered 400.               *)

Request(u, type, from, to) ==
  /\ type \in AbsenceTypes
  /\ u \in DOMAIN employees
  /\ nextAction <= MaxActions
  /\ actions' =
       Insert(actions,
              [a \in {nextAction} |->
                 NewAction(type, u, StartOf(type, from), EndOf(type, to),
                           "pending", Null)])
  /\ Notify("request", Superior(u), u, nextAction, {})
  /\ nextAction' = nextAction + 1
  /\ lineage' = Insert(lineage, [a \in {nextAction} |-> {a}])
  /\ asked' = Insert(asked, [a \in {nextAction} |-> Superior(u)])
  /\ UNCHANGED <<employees, handlers, granted>>

----------------------------------------------------------------------------
(* /v1/abscence/verdict *)

\* Mutant: the notification is deleted outside of the transaction.
BeginVerdict_DeletesFirst(h, u, a, approve, notification) ==
  /\ handlers[h] = Idle
  /\ a \in DOMAIN actions
  /\ actions[a].type \in AbsenceTypes
  /\ Become(h, [op |-> "verdict", action |-> a, row |-> actions[a],
                approve |-> approve, notification |-> notification,
                user |-> u])
  /\ notifications' = Delete(notifications, {notification})
  /\ UNCHANGED <<employees, actions, fresh, history>>

\* Mutant: a type without a name does not throw.
BeginVerdict_AnyType(h, u, a, approve, notification) ==
  /\ handlers[h] = Idle
  /\ a \in DOMAIN actions
  /\ Become(h, [op |-> "verdict", action |-> a, row |-> actions[a],
                approve |-> approve, notification |-> notification,
                user |-> u])
  /\ UNCHANGED <<tables, fresh, history>>

\* The SELECT of the action.  ActionTypeToName(...).value() throws on an
\* attendance record.  `notification` is the optional notification_id of the
\* body, Null when it is absent.
BeginVerdict(h, u, a, approve, notification) ==
  /\ handlers[h] = Idle
  /\ a \in DOMAIN actions
  /\ actions[a].type \in AbsenceTypes
  /\ Become(h, [op |-> "verdict", action |-> a, row |-> actions[a],
                approve |-> approve, notification |-> notification,
                user |-> u])
  /\ UNCHANGED <<tables, fresh, history>>

\* Mutant: the approval writes back the row it read.
CommitApproval_SavesRow(h) ==
  /\ handlers[h].op = "verdict"
  /\ LET v == handlers[h] IN
       /\ v.approve
       /\ actions' = Insert(actions, [a \in {v.action} |->
                                       [v.row EXCEPT !.status = "approved"]])
       /\ Notify("approved", v.row.user_id, v.user, v.action, {v.notification})
       /\ Become(h, [op |-> "spawn", action |-> v.action])
       /\ granted' = granted \cup {v.action}
  /\ UNCHANGED <<employees, nextAction, lineage, asked>>

\* Approve: UPDATE the status, and after the commit go on to spawn the task
\* that writes the document, whether or not the UPDATE found the row.
CommitApproval(h) ==
  /\ handlers[h].op = "verdict"
  /\ LET v == handlers[h] IN
       /\ v.approve
       /\ actions' = SetStatus(actions, v.action, "approved")
       /\ Notify("approved", v.row.user_id, v.user, v.action, {v.notification})
       /\ Become(h, [op |-> "spawn", action |-> v.action])
       /\ granted' = granted \cup ({v.action} \cap DOMAIN actions)
  /\ UNCHANGED <<employees, nextAction, lineage, asked>>

\* Deny: DELETE the action.
CommitDenial(h) ==
  /\ handlers[h].op = "verdict"
  /\ LET v == handlers[h] IN
       /\ ~v.approve
       /\ actions' = Delete(actions, {v.action})
       /\ Notify("denied", v.row.user_id, v.user, v.action, {v.notification})
  /\ Become(h, Idle)
  /\ UNCHANGED <<employees, nextAction, history>>

\* Leaving the handler after an approval; the task it pushes is modelled in
\* VacationDocuments.
Spawn(h) ==
  /\ handlers[h].op = "spawn"
  /\ Become(h, Idle)
  /\ UNCHANGED <<tables, fresh, history>>

----------------------------------------------------------------------------
(* /v1/abscence/split *)

\* Mutant: the time of day of split_date is kept.
BeginSplit_KeepsTime(h, u, a, date) ==
  /\ handlers[h] = Idle
  /\ a \in DOMAIN actions
  /\ date \in actions[a].start_date .. actions[a].end_date
  /\ Become(h, [op |-> "split", user |-> u, action |-> a,
                row |-> actions[a], date |-> date])
  /\ UNCHANGED <<tables, fresh, history>>

\* split_date is cut to its midnight; a day outside the action is answered 400.
BeginSplit(h, u, a, date) ==
  /\ handlers[h] = Idle
  /\ a \in DOMAIN actions
  /\ DayStart(date) \in actions[a].start_date .. actions[a].end_date
  /\ Become(h, [op |-> "split", user |-> u, action |-> a,
                row |-> actions[a], date |-> DayStart(date)])
  /\ UNCHANGED <<tables, fresh, history>>

\* The two rows: the caller owns them, the status is the one that was read.
FirstPart(s) ==
  NewAction(s.row.type, s.user, s.row.start_date, s.date + Day - 1,
            s.row.status, s.action)
SecondPart(s) ==
  NewAction(s.row.type, s.user, s.date + Day, s.row.end_date,
            s.row.status, s.action)

\* Mutant: one fresh id is used up whatever was inserted.
Carve_OneFreshId(a, rows, ids) ==
  /\ actions' = SetBlocking(Insert(actions, rows), a, ids)
  /\ nextAction' = nextAction + 1
  /\ lineage' = Insert(lineage, [id \in DOMAIN rows |-> {id} \cup lineage[a]])

\* INSERT the rows carved from action a and UPDATE a's blocking_actions_ids.
Carve(a, rows, ids) ==
  /\ actions' = SetBlocking(Insert(actions, rows), a, ids)
  /\ nextAction' = nextAction + Len(ids)
  /\ lineage' = Insert(lineage, [id \in DOMAIN rows |-> {id} \cup lineage[a]])

CommitSplit(h) ==
  /\ handlers[h].op = "split"
  /\ LET s == handlers[h]
         first == nextAction
         second == nextAction + 1 IN
       /\ second <= MaxActions
       /\ Carve(s.action,
                [id \in {first, second} |->
                   IF id = first THEN FirstPart(s) ELSE SecondPart(s)],
                <<first, second>>)
       /\ Notify("split", s.user, s.user, s.action, {})
  /\ Become(h, Idle)
  /\ UNCHANGED <<employees, granted, asked>>

----------------------------------------------------------------------------
(* /v1/abscence/reschedule *)

\* reschedule_date is cut to its midnight.
BeginReschedule(h, u, a, date) ==
  /\ handlers[h] = Idle
  /\ a \in DOMAIN actions
  /\ Become(h, [op |-> "reschedule", user |-> u, action |-> a,
                row |-> actions[a], date |-> DayStart(date)])
  /\ UNCHANGED <<tables, fresh, history>>

\* Mutant: the moved absence is approved at once.
Moved_Approved(s) ==
  NewAction(s.row.type, s.user, s.date,
            s.date + (s.row.end_date - s.row.start_date),
            "approved", s.action)

Moved(s) ==
  NewAction(s.row.type, s.user, s.date,
            s.date + (s.row.end_date - s.row.start_date),
            s.row.status, s.action)

\* The text tells an owner that the absence was moved, and anyone else that a
\* move was proposed, on behalf of the caller's head if there is one; the
\* notification goes to the caller in both cases.
CommitReschedule(h) ==
  /\ handlers[h].op = "reschedule"
  /\ LET s == handlers[h] IN
       /\ nextAction <= MaxActions
       /\ Carve(s.action, [id \in {nextAction} |-> Moved(s)], <<nextAction>>)
       /\ IF s.user = s.row.user_id
          THEN Notify("moved", s.user, s.user, s.action, {})
          ELSE Notify("offered", s.user, Superior(s.user), s.action, {})
  /\ Become(h, Idle)
  /\ UNCHANGED <<employees, granted, asked>>

----------------------------------------------------------------------------
(* /v1/attendance/add *)

\* Mutant: only the record that starts at midnight is found.
AttendanceOn_SameStart(u, day) ==
  {a \in DOMAIN actions : /\ actions[a].user_id = u
                          /\ actions[a].type = "attendance"
                          /\ actions[a].start_date = day * Day}

AttendanceOn(u, day) ==
  {a \in DOMAIN actions : /\ actions[a].user_id = u
                          /\ actions[a].type = "attendance"
                          /\ DayOf(actions[a].start_date) = day}

\* The rows the DELETE sees: those committed when the statement starts.
BeginAttendance(h, caller, u, from, to) ==
  /\ handlers[h] = Idle
  /\ Become(h, [op |-> "attendance", employee |-> u, from |-> from, to |-> to,
                replaced |-> AttendanceOn(u, DayOf(from)), user |-> caller])
  /\ UNCHANGED <<tables, fresh, history>>

CommitAttendance(h) ==
  /\ handlers[h].op = "attendance"
  /\ LET t == handlers[h] IN
       /\ nextAction <= MaxActions
       /\ actions' =
            Insert(Delete(actions, t.replaced),
                   [a \in {nextAction} |->
                      NewAction("attendance", t.employee, t.from, t.to,
                                "NULL", Null)])
       /\ Notify("attendance_added", t.employee, t.user, Null, {})
  /\ Become(h, Idle)
  /\ nextAction' = nextAction + 1
  /\ lineage' = Insert(lineage, [a \in {nextAction} |-> {a}])
  /\ UNCHANGED <<employees, granted, asked>>

----------------------------------------------------------------------------
\* Mutant: the failure of an approval is swallowed and the handler goes on.
Abort_GoesOn(h) ==
  /\ handlers[h].op = "verdict"
  /\ handlers[h].approve
  /\ Become(h, [op |-> "spawn", action |-> handlers[h].action])
  /\ UNCHANGED <<tables, fresh, history>>

(* A statement fails (a foreign key, a deadlock the database breaks, a lost *)
(* connection): the exception leaves the handler and rolls everything back. *)
Abort(h) ==
  /\ handlers[h].op \in {"verdict", "split", "reschedule", "attendance"}
  /\ Become(h, Idle)
  /\ UNCHANGED <<tables, fresh, history>>

(* The server stops and starts again: all that handlers held is lost, and   *)
(* the database rolls back what they had not committed.                    *)
Restart ==
  /\ handlers' = [h \in Handlers |-> Idle]
  /\ UNCHANGED <<tables, fresh, history>>

(* /v1/employee/add-head: one UPDATE.  head_id is no foreign key, so it     *)
(* may name an employee who was removed.                                   *)
AddHead(u, head) ==
  /\ u \in DOMAIN employees
  /\ employees' = [employees EXCEPT ![u] = head]
  /\ UNCHANGED <<actions, notifications, handlers, fresh, history>>

(* /v1/employee/remove: the foreign keys cascade to the employee's rows;    *)
(* head_id of others and sender_id keep naming the employee.  Nobody is     *)
(* hired here, so the login does not come back.                            *)
RowsOf(table, u) == {id \in DOMAIN table : table[id].user_id = u}

RemoveEmployee(u) ==
  /\ u \in DOMAIN employees
  /\ employees' = Delete(employees, {u})
  /\ actions' = Delete(actions, RowsOf(actions, u))
  /\ notifications' = Delete(notifications, RowsOf(notifications, u))
  /\ UNCHANGED <<handlers, fresh, history>>

----------------------------------------------------------------------------
\* What /v1/notifications answers an employee (at most 100 rows; no run has as
\* many).
Notifications(u) ==
  {n \in DOMAIN notifications : notifications[n].user_id = u}

EmptyTable == [id \in {} |-> {}]

Init ==
  /\ employees = HeadOf
  /\ actions = EmptyTable
  /\ notifications = EmptyTable
  /\ handlers = [h \in Handlers |-> Idle]
  /\ nextAction = 1
  /\ nextNotice = 1
  /\ granted = {}
  /\ lineage = EmptyTable
  /\ asked = EmptyTable

\* The notification_ids a client may send with a verdict on action a.
Nameable(a) ==
  {Null} \cup {n \in DOMAIN notifications :
                 Careful => notifications[n].action_id = a}

Calls(h) ==
  \/ \E u \in Judges, a \in DOMAIN actions, approve \in BOOLEAN :
        \E n \in Nameable(a) : BeginVerdict(h, u, a, approve, n)
  \/ \E u \in Employees, a \in DOMAIN actions, date \in Instants :
        BeginSplit(h, u, a, date) \/ BeginReschedule(h, u, a, date)
  \/ \E caller \in Judges, u \in Employees, from, to \in Instants :
        BeginAttendance(h, caller, u, from, to)

Commits(h) ==
  \/ CommitApproval(h)
  \/ CommitDenial(h)
  \/ CommitSplit(h)
  \/ CommitReschedule(h)
  \/ CommitAttendance(h)
  \/ Abort(h)

Requests ==
  \E u \in Employees, type \in RequestTypes, from, to \in Instants :
    Request(u, type, from, to)

Next ==
  \/ Requests
  \/ \E h \in Handlers : Calls(h) \/ Commits(h) \/ Spawn(h)
  \/ \E u \in Employees, head \in HeadChoices : AddHead(u, head)
  \/ \E u \in Employees : RemoveEmployee(u)
  \/ Restart

Spec == Init /\ [][Next]_vars

----------------------------------------------------------------------------
(* Properties *)

\* Every table and local holds rows of its type, ids in use are below the next
\* fresh one, and every action ever inserted has a lineage.
TypeOK ==
  /\ DOMAIN employees \subseteq Employees
  /\ \A u \in DOMAIN employees : employees[u] \in Employees \cup {NoHead}
  /\ nextAction \in 1 .. MaxActions + 1
  /\ nextNotice \in 1 .. MaxNotices + 1
  /\ DOMAIN lineage = 1 .. nextAction - 1
  /\ \A a \in DOMAIN lineage : a \in lineage[a] /\ lineage[a] \subseteq 1 .. a
  /\ DOMAIN actions \subseteq DOMAIN lineage
  /\ \A a \in DOMAIN actions : actions[a] \in ActionRow
  /\ DOMAIN notifications \subseteq 1 .. nextNotice - 1
  /\ \A n \in DOMAIN notifications : notifications[n] \in NoticeRow
  /\ handlers \in [Handlers -> HandlerState]
  /\ granted \subseteq DOMAIN lineage
  /\ DOMAIN asked \subseteq DOMAIN lineage
  /\ \A a \in DOMAIN asked : asked[a] \in Employees

\* An action is approved only if a verdict approved it or an action it was
\* carved from.  A split or reschedule copies the status it read, which a
\* verdict, a second split or a removal may overtake before its commit.
Sanctioned(a) == lineage[a] \cap granted # {}

ApprovalProvenance ==
  \A a \in DOMAIN actions : actions[a].status = "approved" => Sanctioned(a)

\* Once an owner has been told that a request was denied the action is gone,
\* and no approval, split or reschedule that read it earlier brings it back.
DenialIsFinal ==
  \A n \in DOMAIN notifications :
    notifications[n].kind = "denied" =>
      notifications[n].action_id \notin DOMAIN actions

\* The two columns that link an action and what it was carved into agree: what
\* an action names as blocking it was carved from it, and an action something
\* was carved from names what blocks it.  Written by one transaction, read and
\* overwritten by those of other handlers.
CarvingLinks ==
  /\ \A p \in DOMAIN actions :
       \A c \in Range(actions[p].blocking) \cap DOMAIN actions :
         actions[c].underlying = p
  /\ \A c \in DOMAIN actions :
       actions[c].underlying \in DOMAIN actions =>
         actions[actions[c].underlying].blocking # <<>>

\* Attendance records carry no verdict and absences always carry one or wait
\* for it, although split, reschedule and verdict take an action of any type.
OnlyAbsencesAreJudged ==
  \A a \in DOMAIN actions :
    actions[a].type = "attendance" <=> actions[a].status = "NULL"

\* /v1/attendance/add overwrites the attendance of the same employee and day.
OneAttendancePerDay ==
  \A a, b \in DOMAIN actions :
    /\ {actions[a].type, actions[b].type} = {"attendance"}
    /\ {actions[a].underlying, actions[b].underlying} = {Null}
    /\ actions[a].user_id = actions[b].user_id
    /\ DayOf(actions[a].start_date) = DayOf(actions[b].start_date)
    => a = b

\* A request that waits for its verdict is announced to the one who was asked,
\* who can find it nowhere else: no failed verdict, and no verdict on another
\* request, takes the announcement away.
PendingIsAnnounced ==
  Careful =>
    \A a \in DOMAIN actions \cap DOMAIN asked :
      actions[a].status = "pending" /\ asked[a] \in DOMAIN employees =>
        \E n \in Notifications(asked[a]) :
          /\ notifications[n].kind = "request"
          /\ notifications[n].action_id = a

\* /v1/notifications answers everyone with their list.  It joins each row with
\* its sender and reads the columns of one who was removed, all NULL, into a
\* std::string, which throws.
NotificationsAnswer ==
  \A u \in DOMAIN employees : \A n \in Notifications(u) :
    notifications[n].sender_id \in DOMAIN employees

\* An owner is told that a request was approved only when it is.
ApprovalToldIsTrue ==
  [][\A u \in Employees : \A n \in Notifications(u)' \ Notifications(u) :
       notifications'[n].kind = "approved" =>
         /\ notifications'[n].action_id \in DOMAIN actions'
         /\ actions'[notifications'[n].action_id].status = "approved"]_vars

=============================================================================
