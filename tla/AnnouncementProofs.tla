------------------------ MODULE AnnouncementProofs ------------------------
(***************************************************************************)
(* Proofs of what employees are told, for any number of employees, actions *)
(* and notifications, over the invariant of AbsenceProofs:                 *)
(*  - a pending request stays announced (PendingIsAnnounced), under any    *)
(*    interleaving of handlers.  A verdict deletes a notification whose id *)
(*    its handler was given when it began, so the invariant also says what *)
(*    that id names when the verdict commits;                              *)
(*  - the list of attendances names every colleague (EveryColleagueListed), *)
(*    whatever commits between its SELECTs;                                *)
(*  - the parts of a split absence have its days (SplitKeepsDays);         *)
(*  - one handler at a time, an approval that is told is true and a day    *)
(*    has one attendance (ApprovalToldIsTrue, OneAttendancePerDay).  With  *)
(*    two, both rest on a SELECT that another handler may make old.        *)
(***************************************************************************)
EXTENDS AttendanceList, AbsenceProofs

\* The notification a verdict in progress will delete is one that was there
\* when it began, and if clients are careful it is about the judged action.
VerdictsNameTheirs ==
  \A h \in Handlers :
    handlers[h].op = "verdict" =>
      /\ handlers[h].notification < nextNotice
      /\ Careful /\ handlers[h].notification \in DOMAIN notifications =>
           notifications[handlers[h].notification].action_id = handlers[h].action

AInv == PendingIsAnnounced /\ VerdictsNameTheirs

LEMMA InitAInv == Init => AInv
  BY DEF Init, AInv, PendingIsAnnounced, VerdictsNameTheirs, EmptyTable, Idle

----------------------------------------------------------------------------
(* How a step may change the notifications *)

\* Notifications are never changed, and a new one has the next fresh id.
NoticesFresh ==
  /\ nextNotice' >= nextNotice
  /\ \A n \in DOMAIN notifications' :
       \/ n \in DOMAIN notifications /\ notifications'[n] = notifications[n]
       \/ n >= nextNotice

\* What is about an action that still waits for its verdict, and whose
\* addressee is still there, is kept.
NoticesKept ==
  \A n \in DOMAIN notifications :
    \/ n \in DOMAIN notifications' /\ notifications'[n] = notifications[n]
    \/ notifications[n].user_id \notin DOMAIN employees'
    \/ Careful => \/ notifications[n].action_id \notin DOMAIN actions'
                  \/ actions'[notifications[n].action_id].status # "pending"

\* A pending request was pending before, or is announced now.
RequestsEvolve ==
  \A a \in DOMAIN actions' \cap DOMAIN asked' :
    actions'[a].status = "pending" =>
      \/ /\ a \in DOMAIN actions \cap DOMAIN asked
         /\ actions[a].status = "pending"
         /\ asked'[a] = asked[a]
      \/ \E n \in DOMAIN notifications' : /\ notifications'[n].user_id = asked'[a]
                                          /\ notifications'[n].kind = "request"
                                          /\ notifications'[n].action_id = a

\* Nothing but what was to be deleted is missing.
AllKeptBut(deleted) ==
  \A n \in DOMAIN notifications :
    \/ n \in deleted
    \/ n \in DOMAIN notifications' /\ notifications'[n] = notifications[n]

LEMMA AnnouncementKept ==
  ASSUME TypeOK, AInv, NoticesFresh, NoticesKept, RequestsEvolve, HandlersEvolve,
         DOMAIN employees' \subseteq DOMAIN employees, TypeOK'
  PROVE  AInv'
<1>1. PendingIsAnnounced'
  <2> SUFFICES ASSUME Careful,
                      NEW a \in DOMAIN actions' \cap DOMAIN asked',
                      actions'[a].status = "pending",
                      asked'[a] \in DOMAIN employees'
               PROVE  \E n \in DOMAIN notifications' :
                        /\ notifications'[n].user_id = asked'[a]
                        /\ notifications'[n].kind = "request"
                        /\ notifications'[n].action_id = a
    BY DEF PendingIsAnnounced, Notifications
  <2>1. CASE /\ a \in DOMAIN actions \cap DOMAIN asked
             /\ actions[a].status = "pending"
             /\ asked'[a] = asked[a]
    <3>1. PICK n \in DOMAIN notifications : /\ notifications[n].user_id = asked[a]
                                            /\ notifications[n].kind = "request"
                                            /\ notifications[n].action_id = a
      BY <2>1 DEF AInv, PendingIsAnnounced, Notifications
    <3>2. n \in DOMAIN notifications' /\ notifications'[n] = notifications[n]
      BY <2>1, <3>1 DEF NoticesKept
    <3> QED
      BY <2>1, <3>1, <3>2
  <2> QED
    BY <2>1 DEF RequestsEvolve
<1>2. VerdictsNameTheirs'
  <2> SUFFICES ASSUME NEW h \in Handlers, handlers'[h].op = "verdict"
               PROVE  /\ handlers'[h].notification < nextNotice'
                      /\ Careful /\ handlers'[h].notification \in DOMAIN notifications' =>
                           notifications'[handlers'[h].notification].action_id =
                             handlers'[h].action
    BY DEF VerdictsNameTheirs
  <2>1. handlers'[h] = handlers[h]
    BY DEF HandlersEvolve, Idle
  <2> DEFINE m == handlers[h].notification
  <2>2. /\ m < nextNotice
        /\ Careful /\ m \in DOMAIN notifications =>
             notifications[m].action_id = handlers[h].action
    BY <2>1 DEF AInv, VerdictsNameTheirs
  <2>3. m \in Int /\ nextNotice \in Int
    BY <2>1, LocalsOfOperation, BoundsAssumption DEF TypeOK, VerdictState
  <2>4. CASE m \in DOMAIN notifications'
    <3>1. m \in DOMAIN notifications /\ notifications'[m] = notifications[m]
      BY <2>2, <2>3, <2>4 DEF NoticesFresh
    <3>2. nextNotice' >= nextNotice /\ nextNotice' \in Int
      BY BoundsAssumption DEF NoticesFresh, TypeOK
    <3> QED
      BY <2>1, <2>2, <2>3, <3>1, <3>2
  <2>5. nextNotice' >= nextNotice /\ nextNotice' \in Int
    BY BoundsAssumption DEF NoticesFresh, TypeOK
  <2> QED
    BY <2>1, <2>2, <2>3, <2>4, <2>5
<1> QED
  BY <1>1, <1>2 DEF AInv

----------------------------------------------------------------------------
(* Each step is such a change *)

\* Notify deletes what it is told to and adds one notification.
LEMMA NotifyKeeps ==
  ASSUME TypeOK, NEW kind, NEW u, NEW sender, NEW a, NEW deleted,
         Notify(kind, u, sender, a, deleted)
  PROVE  /\ NoticesFresh
         /\ AllKeptBut(deleted)
         /\ nextNotice \in DOMAIN notifications'
         /\ notifications'[nextNotice] =
              [kind |-> kind, user_id |-> u, sender_id |-> sender, action_id |-> a]
<1> DEFINE kept == Delete(notifications, deleted)
           new  == [n \in {nextNotice} |->
                      [kind |-> kind, user_id |-> u, sender_id |-> sender,
                       action_id |-> a]]
<1>1. notifications' = Insert(kept, new) /\ nextNotice' = nextNotice + 1
  BY DEF Notify
<1>2. /\ DOMAIN kept = DOMAIN notifications \ deleted
      /\ \A n \in DOMAIN kept : kept[n] = notifications[n]
  BY DEF Delete, Restrict
<1>3. /\ DOMAIN new = {nextNotice}
      /\ new[nextNotice] =
           [kind |-> kind, user_id |-> u, sender_id |-> sender, action_id |-> a]
  OBVIOUS
<1> HIDE DEF kept, new
<1>4. /\ DOMAIN notifications' = DOMAIN kept \cup {nextNotice}
      /\ notifications'[nextNotice] = new[nextNotice]
      /\ \A n \in DOMAIN kept \ {nextNotice} : notifications'[n] = kept[n]
  BY <1>1, <1>3 DEF Insert
<1>5. nextNotice \in Int /\ nextNotice \notin DOMAIN notifications
  BY BoundsAssumption DEF TypeOK
<1>6. NoticesFresh
  BY <1>1, <1>2, <1>4, <1>5 DEF NoticesFresh
<1>7. AllKeptBut(deleted)
  BY <1>2, <1>4, <1>5 DEF AllKeptBut
<1> QED
  BY <1>3, <1>4, <1>6, <1>7

\* Whatever commits, a requested action that is pending was pending before:
\* only a request adds to those that were asked for.
LEMMA PendingWasPending ==
  ASSUME TypeOK, RowsEvolve, UNCHANGED asked
  PROVE  RequestsEvolve
  BY DEF TypeOK, RowsEvolve, OldRow, RequestsEvolve

\* A commit that deletes no notification.
LEMMA CommitWithoutDeletion ==
  ASSUME IInv, IInv', AInv, Evolves, UNCHANGED <<employees, asked>>,
         NEW k, NEW to, NEW from, NEW x, Notify(k, to, from, x, {})
  PROVE  AInv'
<1>1. TypeOK /\ TypeOK'
  BY DEF IInv
<1>2. NoticesFresh /\ AllKeptBut({})
  BY <1>1, NotifyKeeps
<1>3. NoticesKept
  BY <1>2 DEF AllKeptBut, NoticesKept
<1>4. RequestsEvolve /\ HandlersEvolve
  BY <1>1, PendingWasPending DEF Evolves
<1> QED
  BY <1>1, <1>2, <1>4, <1>3, AnnouncementKept

\* A verdict deletes only a notification about the action it takes from those
\* that are pending.
LEMMA CommitVerdict ==
  ASSUME IInv, IInv', AInv, Evolves, UNCHANGED <<employees, asked>>,
         NEW h \in Handlers, handlers[h].op = "verdict",
         NEW k, NEW to, NEW from,
         Notify(k, to, from, handlers[h].action, {handlers[h].notification}),
         handlers[h].action \in DOMAIN actions' =>
           actions'[handlers[h].action].status # "pending"
  PROVE  AInv'
<1>1. TypeOK /\ TypeOK'
  BY DEF IInv
<1>2. NoticesFresh /\ AllKeptBut({handlers[h].notification})
  BY <1>1, NotifyKeeps
<1>3. NoticesKept
  BY <1>2 DEF AllKeptBut, NoticesKept, AInv, VerdictsNameTheirs
<1>4. RequestsEvolve /\ HandlersEvolve
  BY <1>1, PendingWasPending DEF Evolves
<1> QED
  BY <1>1, <1>2, <1>3, <1>4, AnnouncementKept

LEMMA RequestAInv ==
  ASSUME IInv, IInv', AInv, NEW u \in Employees, NEW type \in RequestTypes,
         NEW from \in Instants, NEW to \in Instants, Request(u, type, from, to)
  PROVE  AInv'
<1>1. TypeOK /\ TypeOK'
  BY DEF IInv
<1>2. /\ Notify("request", Superior(u), u, nextAction, {})
      /\ asked' = Insert(asked, [a \in {nextAction} |-> Superior(u)])
      /\ UNCHANGED employees
  BY DEF Request
<1>3. /\ NoticesFresh /\ NoticesKept
      /\ nextNotice \in DOMAIN notifications'
      /\ notifications'[nextNotice] =
           [kind |-> "request", user_id |-> Superior(u), sender_id |-> u,
            action_id |-> nextAction]
  BY <1>1, <1>2, NotifyKeeps DEF AllKeptBut, NoticesKept
<1>4. Evolves
  BY RequestStep
<1>5. RequestsEvolve
  <2> SUFFICES ASSUME NEW a \in DOMAIN actions' \cap DOMAIN asked',
                      actions'[a].status = "pending", a # nextAction
               PROVE  /\ a \in DOMAIN actions \cap DOMAIN asked
                      /\ actions[a].status = "pending"
                      /\ asked'[a] = asked[a]
    <3>1. asked'[nextAction] = Superior(u)
      BY <1>2 DEF Insert
    <3> QED
      BY <1>3, <3>1 DEF RequestsEvolve
  <2>1. a \in DOMAIN asked /\ asked'[a] = asked[a]
    BY <1>2 DEF Insert
  <2>2. OldRow(a)
    BY <1>1, <1>4, <2>1 DEF TypeOK, Evolves, RowsEvolve
  <2> QED
    BY <2>1, <2>2 DEF OldRow
<1> QED
  BY <1>1, <1>2, <1>3, <1>4, <1>5, AnnouncementKept DEF Evolves

\* The notifications that go with an employee are the employee's own.
LEMMA RemoveEmployeeAInv ==
  ASSUME IInv, IInv', AInv, NEW u \in Employees, RemoveEmployee(u)
  PROVE  AInv'
<1>1. TypeOK /\ TypeOK'
  BY DEF IInv
<1>2. /\ employees' = Delete(employees, {u})
      /\ notifications' = Delete(notifications, RowsOf(notifications, u))
      /\ UNCHANGED <<nextNotice, asked>>
  BY DEF RemoveEmployee, fresh, history
<1>3. DOMAIN employees' = DOMAIN employees \ {u}
  BY <1>2 DEF Delete, Restrict
<1>4. /\ DOMAIN notifications' = DOMAIN notifications \ RowsOf(notifications, u)
      /\ \A n \in DOMAIN notifications' : notifications'[n] = notifications[n]
  BY <1>2 DEF Delete, Restrict
<1>5. NoticesFresh /\ NoticesKept
  <2>1. nextNotice' >= nextNotice
    BY <1>1, <1>2, BoundsAssumption DEF TypeOK
  <2>2. NoticesFresh
    BY <1>4, <2>1 DEF NoticesFresh
  <2>3. NoticesKept
    BY <1>3, <1>4 DEF NoticesKept, RowsOf
  <2> QED
    BY <2>2, <2>3
<1>6. RequestsEvolve /\ HandlersEvolve
  BY <1>1, <1>2, RemoveEmployeeStep, PendingWasPending DEF Evolves
<1> QED
  BY <1>1, <1>3, <1>5, <1>6, AnnouncementKept

\* Steps that leave the notifications alone.
LEMMA SilentStep ==
  ASSUME IInv, IInv', AInv, Evolves, UNCHANGED <<notifications, nextNotice, asked>>,
         DOMAIN employees' \subseteq DOMAIN employees
  PROVE  AInv'
<1>1. TypeOK /\ TypeOK'
  BY DEF IInv
<1>2. NoticesFresh /\ NoticesKept
  BY <1>1, BoundsAssumption DEF NoticesFresh, NoticesKept, TypeOK
<1>3. RequestsEvolve /\ HandlersEvolve
  BY <1>1, PendingWasPending DEF Evolves
<1> QED
  BY <1>1, <1>2, <1>3, AnnouncementKept

\* What a verdict is told to delete when it begins is about its action.
LEMMA LocalStepAInv ==
  ASSUME IInv, AInv, NEW h \in Handlers, LocalStep(h)
  PROVE  AInv'
<1>1. TypeOK
  BY DEF IInv
<1>2. /\ UNCHANGED <<employees, actions, notifications, nextNotice, asked>>
      /\ handlers' = [handlers EXCEPT ![h] = handlers'[h]]
      /\ Fetched(h)
  BY <1>1, LocalStepFacts DEF tables, fresh, history
<1>3. \A g \in Handlers \ {h} : handlers'[g] = handlers[g]
  BY <1>1, <1>2 DEF TypeOK
<1>4. handlers'[h].op = "verdict" =>
        /\ handlers'[h].notification < nextNotice
        /\ Careful /\ handlers'[h].notification \in DOMAIN notifications =>
             notifications[handlers'[h].notification].action_id = handlers'[h].action
  <2>1. ASSUME NEW u \in Judges, NEW a \in DOMAIN actions,
               NEW approve \in BOOLEAN, NEW n \in Nameable(a),
               BeginVerdict(h, u, a, approve, n)
        PROVE  /\ handlers'[h].notification < nextNotice
               /\ Careful /\ handlers'[h].notification \in DOMAIN notifications =>
                    notifications[handlers'[h].notification].action_id =
                      handlers'[h].action
    <3>1. handlers'[h].notification = n /\ handlers'[h].action = a
      BY <1>1, <2>1 DEF BeginVerdict, Become, TypeOK
    <3>2. n < nextNotice
      BY <1>1, BoundsAssumption DEF Nameable, Null, TypeOK
    <3>3. Careful /\ n \in DOMAIN notifications => notifications[n].action_id = a
      BY <1>1 DEF Nameable, Null, TypeOK
    <3> QED
      BY <3>1, <3>2, <3>3
  <2>2. ASSUME NEW u \in Employees, NEW a \in DOMAIN actions, NEW date \in Instants,
               BeginSplit(h, u, a, date) \/ BeginReschedule(h, u, a, date)
        PROVE  handlers'[h].op # "verdict"
    BY <1>1, <2>2 DEF BeginSplit, BeginReschedule, Become, TypeOK
  <2>3. ASSUME NEW caller \in Judges, NEW u \in Employees,
               NEW from \in Instants, NEW to \in Instants,
               BeginAttendance(h, caller, u, from, to)
        PROVE  handlers'[h].op # "verdict"
    BY <1>1, <2>3 DEF BeginAttendance, Become, TypeOK
  <2>4. ASSUME Spawn(h) \/ Abort(h)
        PROVE  handlers'[h].op # "verdict"
    BY <1>1, <2>4 DEF Spawn, Abort, Become, TypeOK, Idle
  <2> QED
    BY <2>1, <2>2, <2>3, <2>4 DEF LocalStep
<1>5. VerdictsNameTheirs'
  BY <1>2, <1>3, <1>4 DEF AInv, VerdictsNameTheirs
<1>6. PendingIsAnnounced'
  BY <1>2 DEF AInv, PendingIsAnnounced, Notifications
<1> QED
  BY <1>5, <1>6 DEF AInv

----------------------------------------------------------------------------
(* The theorem *)

LEMMA NextAInv ==
  ASSUME IInv, IInv', AInv, [Next]_vars
  PROVE  AInv'
<1>1. ASSUME NEW u \in Employees, NEW type \in RequestTypes,
             NEW from \in Instants, NEW to \in Instants,
             Request(u, type, from, to)
      PROVE  AInv'
  BY <1>1, RequestAInv
<1>2. ASSUME NEW h \in Handlers, LocalStep(h)
      PROVE  AInv'
  BY <1>2, LocalStepAInv
<1>3. ASSUME NEW h \in Handlers, CommitApproval(h)
      PROVE  AInv'
  <2>1. Evolves
    BY <1>3, CommitApprovalStep
  <2>2. /\ handlers[h].op = "verdict"
        /\ Notify("approved", handlers[h].row.user_id, handlers[h].user,
                  handlers[h].action, {handlers[h].notification})
        /\ actions' = SetStatus(actions, handlers[h].action, "approved")
        /\ UNCHANGED <<employees, asked>>
    BY <1>3 DEF CommitApproval
  <2>3. handlers[h].action \in DOMAIN actions' =>
          actions'[handlers[h].action].status # "pending"
    BY <2>2 DEF SetStatus, IInv, TypeOK, ActionRow
  <2> QED
    BY <2>1, <2>2, <2>3, CommitVerdict
<1>4. ASSUME NEW h \in Handlers, CommitDenial(h)
      PROVE  AInv'
  <2>1. Evolves
    BY <1>4, CommitDenialStep
  <2>2. /\ handlers[h].op = "verdict"
        /\ Notify("denied", handlers[h].row.user_id, handlers[h].user,
                  handlers[h].action, {handlers[h].notification})
        /\ actions' = Delete(actions, {handlers[h].action})
        /\ UNCHANGED <<employees, asked>>
    BY <1>4 DEF CommitDenial, history
  <2>3. handlers[h].action \notin DOMAIN actions'
    BY <2>2 DEF Delete, Restrict
  <2> QED
    BY <2>1, <2>2, <2>3, CommitVerdict
<1>5. ASSUME NEW h \in Handlers, CommitSplit(h)
      PROVE  AInv'
  <2>1. Evolves
    BY <1>5, CommitSplitStep
  <2>2. /\ Notify("split", handlers[h].user, handlers[h].user, handlers[h].action, {})
        /\ UNCHANGED <<employees, asked>>
    BY <1>5 DEF CommitSplit
  <2> QED
    BY <2>1, <2>2, CommitWithoutDeletion
<1>6. ASSUME NEW h \in Handlers, CommitReschedule(h)
      PROVE  AInv'
  <2>1. Evolves
    BY <1>6, CommitRescheduleStep
  <2>2. UNCHANGED <<employees, asked>>
    BY <1>6 DEF CommitReschedule
  <2>3. \/ Notify("moved", handlers[h].user, handlers[h].user, handlers[h].action, {})
        \/ Notify("offered", handlers[h].user, Superior(handlers[h].user),
                  handlers[h].action, {})
    BY <1>6 DEF CommitReschedule
  <2> QED
    BY <2>1, <2>2, <2>3, CommitWithoutDeletion
<1>7. ASSUME NEW h \in Handlers, CommitAttendance(h)
      PROVE  AInv'
  <2>1. Evolves
    BY <1>7, CommitAttendanceStep
  <2>2. /\ Notify("attendance_added", handlers[h].employee, handlers[h].user, Null, {})
        /\ UNCHANGED <<employees, asked>>
    BY <1>7 DEF CommitAttendance
  <2> QED
    BY <2>1, <2>2, CommitWithoutDeletion
<1>8. ASSUME NEW u \in Employees, RemoveEmployee(u)
      PROVE  AInv'
  BY <1>8, RemoveEmployeeAInv
<1>9. ASSUME NEW u \in Employees, NEW head \in HeadChoices, AddHead(u, head)
      PROVE  AInv'
  <2>1. /\ DOMAIN employees' = DOMAIN employees
        /\ UNCHANGED <<notifications, nextNotice, asked>>
    BY <1>9 DEF AddHead, fresh, history
  <2> QED
    BY <1>9, <2>1, AddHeadStep, SilentStep
<1>10. CASE Restart
  <2>1. UNCHANGED <<employees, notifications, nextNotice, asked>>
    BY <1>10 DEF Restart, tables, fresh, history
  <2> QED
    BY <1>10, <2>1, RestartStep, SilentStep
<1>11. CASE UNCHANGED vars
  BY <1>11 DEF vars, tables, fresh, history, AInv, PendingIsAnnounced,
              Notifications, VerdictsNameTheirs
<1> QED
  BY <1>1, <1>2, <1>3, <1>4, <1>5, <1>6, <1>7, <1>8, <1>9, <1>10, <1>11
  DEF Next, Requests, Calls, Commits, LocalStep

\* As long as clients are careful, no verdict that fails, and no verdict on
\* another request, leaves a pending request without its announcement.
THEOREM PendingStaysAnnounced == Spec => []PendingIsAnnounced
<1>1. Init => AInv
  BY InitAInv
<1>2. IInv /\ IInv' /\ AInv /\ [Next]_vars => AInv'
  BY NextAInv
<1>3. AInv => PendingIsAnnounced
  BY DEF AInv
<1> QED
  BY <1>1, <1>2, <1>3, Invariance, PTL DEF Spec
----------------------------------------------------------------------------
(* The lists of attendances and absences *)

\* \div and % by the length of a day.
LEMMA DaysDivideTime ==
  ASSUME NEW t \in Int
  PROVE  /\ DayOf(t) \in Int
         /\ DayOf(t) * Day <= t
         /\ t < DayOf(t) * Day + Day
         /\ t % Day = 0 => t = DayOf(t) * Day
  BY DEF DayOf, Day

\* The windows clients ask for are whole days, and at least one.
LEMMA WindowsAreDays ==
  ASSUME NEW w \in Windows
  PROVE  /\ w[1] \in Int /\ w[2] \in Int
         /\ w[1] + Day <= w[2]
         /\ w[1] = DayOf(w[1]) * Day
         /\ w[2] = DayOf(w[2]) * Day
<1>1. /\ w[1] \in Int /\ w[2] \in Int /\ w[1] < w[2]
      /\ w[1] % Day = 0 /\ w[2] % Day = 0
  BY WindowsAssumption
<1>2. /\ w[1] = DayOf(w[1]) * Day /\ DayOf(w[1]) \in Int
      /\ w[2] = DayOf(w[2]) * Day /\ DayOf(w[2]) \in Int
  BY <1>1, DaysDivideTime
<1>3. DayOf(w[1]) < DayOf(w[2])
  BY <1>1, <1>2 DEF Day
<1> QED
  BY <1>1, <1>2, <1>3 DEF Day

\* An absence that has a date on the day of a moment of the window has one in
\* the window itself.  The date and the moment are at different times of that
\* day, and the window ends with the first moment of a day: of an absence that
\* has its date later on that day, either an earlier date is in the window or,
\* if that was its first, the query for the window does not find the absence.
LEMMA DayInWindowHasDate ==
  ASSUME NEW w \in Windows, NEW table, NEW away \in OtherActions(table, w),
         away.start_date \in Int, away.end_date \in Int,
         NEW t \in Int, Within(t, w),
         NEW d \in Dates(away), DayOf(d) = DayOf(t)
  PROVE  \E e \in Dates(away) : Within(e, w)
<1> DEFINE from == away.start_date
           to   == away.end_date
           last == (to - from) \div Day
<1>1. /\ w[1] \in Int /\ w[2] \in Int
      /\ w[1] + Day <= w[2]
      /\ w[1] = DayOf(w[1]) * Day /\ w[2] = DayOf(w[2]) * Day
      /\ DayOf(w[1]) \in Int /\ DayOf(w[2]) \in Int
  BY WindowsAreDays, DaysDivideTime
<1>2. PICK k \in 0 .. last : d = from + k * Day /\ from + k * Day < to
  BY DEF Dates
<1>3. last \in Int /\ k \in Int /\ d \in Int /\ from \in Int /\ to \in Int
  BY <1>2 DEF Day
<1>4. w[1] <= t /\ t <= w[2]
  BY DEF Within
<1>5. /\ DayOf(t) \in Int
      /\ DayOf(t) * Day <= t /\ t < DayOf(t) * Day + Day
      /\ DayOf(t) * Day <= d /\ d < DayOf(t) * Day + Day
  BY <1>3, DaysDivideTime
<1>6. w[1] <= d
  <2>1. DayOf(w[1]) <= DayOf(t)
    BY <1>1, <1>4, <1>5 DEF Day
  <2> QED
    BY <1>1, <1>3, <1>5, <2>1 DEF Day
<1>7. CASE d <= w[2]
  BY <1>6, <1>7 DEF Within
<1>8. CASE d > w[2]
  <2>1. d < w[2] + Day
    <3>1. DayOf(t) <= DayOf(w[2])
      BY <1>1, <1>4, <1>5 DEF Day
    <3> QED
      BY <1>1, <1>3, <1>5, <3>1 DEF Day
  <2>2. k # 0
    <3> SUFFICES ASSUME k = 0 PROVE FALSE
      OBVIOUS
    <3>1. from = d /\ d < to
      BY <1>2, <1>3 DEF Day
    <3>2. \/ Within(from, w) \/ Within(to, w)
          \/ from < w[1] /\ to > w[2]
      BY DEF OtherActions
    <3> QED
      BY <1>1, <1>3, <1>6, <1>8, <3>1, <3>2 DEF Within
  <2>3. k - 1 \in 0 .. last
    BY <1>2, <1>3, <2>2
  <2>4. from + (k - 1) * Day = d - Day
    BY <1>2, <1>3 DEF Day
  <2>5. d - Day < to
    BY <1>2, <1>3 DEF Day
  <2>6. d - Day \in Dates(away)
    BY <2>3, <2>4, <2>5 DEF Dates
  <2>7. Within(d - Day, w)
    BY <1>1, <1>3, <1>8, <2>1 DEF Within, Day
  <2> QED
    BY <2>6, <2>7
<1> QED
  BY <1>1, <1>3, <1>7, <1>8

\* An employee of the first SELECT has a row in the list, whatever table the
\* later ones find.
LEMMA ColleagueHasRow ==
  ASSUME NEW w \in Windows, NEW seen, NEW now, NEW present, NEW u \in present,
         \A a \in DOMAIN seen : seen[a] \in ActionRow,
         \A a \in DOMAIN now : now[a] \in ActionRow
  PROVE  \E item \in ListAll(seen, present, now, w) : item[1] = u
<1> DEFINE others == OtherActions(now, w)
           listed == {item \in Attendances(seen, present, w) :
                        \A t \in Range(item[2]) :
                          <<DayOf(t), item[1]>> \notin DaysAway(others)}
<1>1. /\ listed \subseteq ListAll(seen, present, now, w)
      /\ \A away \in others : \A e \in Dates(away) :
           Within(e, w) =>
             Row(away.user_id, e) \in ListAll(seen, present, now, w)
  <2>1. listed \subseteq ListAll(seen, present, now, w)
    BY DEF ListAll
  <2>2. ASSUME NEW away \in others, NEW e \in Dates(away), Within(e, w)
        PROVE  Row(away.user_id, e) \in ListAll(seen, present, now, w)
    <3>1. Row(away.user_id, e) \in
            {Row(away.user_id, t) : t \in {d \in Dates(away) : Within(d, w)}}
      BY <2>2
    <3>2. Row(away.user_id, e) \in
            UNION {{Row(r.user_id, t) : t \in {d \in Dates(r) : Within(d, w)}} :
                     r \in others}
      BY <3>1
    <3> QED
      BY <3>2 DEF ListAll
  <2> QED
    BY <2>1, <2>2
<1>2. CASE \A a \in DOMAIN seen : ~ /\ seen[a].user_id = u
                                    /\ seen[a].type = "attendance"
                                    /\ Within(seen[a].start_date, w)
  <2>1. NoDate(u) \in Attendances(seen, present, w)
    BY <1>2 DEF Attendances
  <2>2. NoDate(u)[1] = u /\ Range(NoDate(u)[2]) = {}
    BY DEF NoDate, Range
  <2> QED
    BY <1>1, <2>1, <2>2
<1>3. ASSUME NEW a \in DOMAIN seen, seen[a].user_id = u,
             seen[a].type = "attendance", Within(seen[a].start_date, w)
      PROVE  \E item \in ListAll(seen, present, now, w) : item[1] = u
  <2> DEFINE t == seen[a].start_date
  <2>1. Row(u, t) \in Attendances(seen, present, w)
    BY <1>3 DEF Attendances
  <2>2. Row(u, t)[1] = u /\ Range(Row(u, t)[2]) = {t}
    <3>1. DOMAIN <<t>> = {1} /\ <<t>>[1] = t
      OBVIOUS
    <3> QED
      BY <3>1 DEF Row, Range
  <2>3. CASE <<DayOf(t), u>> \notin DaysAway(others)
    BY <1>1, <2>1, <2>2, <2>3
  <2>4. CASE <<DayOf(t), u>> \in DaysAway(others)
    <3>1. PICK away \in others : \E d \in Dates(away) :
            DayOf(d) = DayOf(t) /\ away.user_id = u
      BY <2>4 DEF DaysAway
    <3>2. away.start_date \in Int /\ away.end_date \in Int /\ t \in Int
      BY <3>1 DEF OtherActions, ActionRow
    <3>3. PICK e \in Dates(away) : Within(e, w)
      BY <1>3, <3>1, <3>2, DayInWindowHasDate
    <3>4. Row(u, e) \in ListAll(seen, present, now, w)
      BY <1>1, <3>1, <3>3
    <3> QED
      BY <3>4 DEF Row
  <2> QED
    BY <2>3, <2>4
<1> QED
  BY <1>2, <1>3

\* Nobody who is employed throughout is missing from the list of attendances,
\* whatever other handlers commit between its SELECTs.
THEOREM ColleaguesAreListed == Spec => EveryColleagueListed
<1>1. TypeOK /\ TypeOK' =>
        \A w \in Windows :
          DOMAIN employees \cap DOMAIN employees' \subseteq
            {item[1] : item \in ListAll(actions, DOMAIN employees, actions', w)}
  <2> SUFFICES ASSUME TypeOK, TypeOK', NEW w \in Windows,
                      NEW u \in DOMAIN employees
               PROVE  \E item \in ListAll(actions, DOMAIN employees, actions', w) :
                        item[1] = u
    OBVIOUS
  <2>1. /\ \A a \in DOMAIN actions : actions[a] \in ActionRow
        /\ \A a \in DOMAIN actions' : actions'[a] \in ActionRow
    BY DEF TypeOK
  <2> QED
    BY <2>1, ColleagueHasRow
<1> QED
  BY <1>1, TypeCorrectness, PTL DEF EveryColleagueListed

----------------------------------------------------------------------------
(* The days of an absence and of the two parts it is split into *)

Midnight(t) == \E k \in Int : t = k * Day

\* From a midnight to the minute before one.
WholeDays(row) ==
  row.type \in DayTypes => Midnight(row.start_date) /\ Midnight(row.end_date + 1)

SameDays(r, s) ==
  r.type = s.type /\ r.start_date = s.start_date /\ r.end_date = s.end_date

\* What a handler will carve was read with the days it has, if it is there.
CarverKnows(s) ==
  /\ WholeDays(s.row)
  /\ Midnight(s.date)
  /\ s.action \in DOMAIN actions => SameDays(s.row, actions[s.action])
  /\ s.op = "split" => s.row.start_date <= s.date /\ s.date <= s.row.end_date

CarversKnow ==
  \A h \in Handlers :
    handlers[h].op \in {"split", "reschedule"} => CarverKnows(handlers[h])

\* One part ends where the other begins.
MeetAt(whole, first, second, m) ==
  /\ Midnight(m)
  /\ whole.start_date < m /\ m <= whole.end_date + 1
  /\ first.start_date = whole.start_date /\ first.end_date = m - 1
  /\ second.start_date = m /\ second.end_date = whole.end_date

PartsMeet(a) ==
  /\ actions[a].type \in DayTypes
  /\ Len(actions[a].blocking) = 2
  /\ Range(actions[a].blocking) \subseteq DOMAIN actions
  => \E m \in Int : MeetAt(actions[a], actions[actions[a].blocking[1]],
                           actions[actions[a].blocking[2]], m)

DaysInv ==
  /\ \A a \in DOMAIN actions : WholeDays(actions[a])
  /\ CarversKnow
  /\ \A a \in DOMAIN actions : PartsMeet(a)

LEMMA InitDaysInv == Init => DaysInv
  BY DEF Init, DaysInv, CarversKnow, EmptyTable, Idle

\* Sums of midnights are midnights, and the next one is a day away.
LEMMA Midnights ==
  ASSUME NEW s \in Int, NEW t \in Int, Midnight(s), Midnight(t)
  PROVE  /\ Midnight(s + t) /\ Midnight(s - t) /\ Midnight(s + Day)
         /\ s < t => s + Day <= t
<1>1. PICK j \in Int : s = j * Day
  BY DEF Midnight
<1>2. PICK k \in Int : t = k * Day
  BY DEF Midnight
<1>3. /\ s + t = (j + k) * Day /\ s - t = (j - k) * Day
      /\ s + Day = (j + 1) * Day
      /\ s < t => s + Day <= t
  BY <1>1, <1>2 DEF Day
<1>4. j + k \in Int /\ j - k \in Int /\ j + 1 \in Int
  BY <1>1, <1>2
<1> QED
  BY <1>3, <1>4 DEF Midnight

\* The dates of whole days are the midnights between their ends.
LEMMA DatesAreMidnights ==
  ASSUME NEW row, row.start_date \in Int, row.end_date \in Int,
         Midnight(row.start_date)
  PROVE  \A t \in Int :
           t \in Dates(row) <=>
             Midnight(t) /\ row.start_date <= t /\ t < row.end_date
<1> DEFINE from == row.start_date
           to   == row.end_date
<1>1. PICK j \in Int : from = j * Day
  BY DEF Midnight
<1>2. ASSUME NEW t \in Dates(row)
      PROVE  t \in Int /\ Midnight(t) /\ from <= t /\ t < to
  <2>1. PICK i \in 0 .. (to - from) \div Day : t = from + i * Day /\ t < to
    BY <1>2 DEF Dates
  <2>2. i \in Int /\ 0 <= i
    BY <2>1 DEF Day
  <2>3. t = (j + i) * Day /\ j + i \in Int /\ t \in Int /\ from <= t
    BY <1>1, <2>1, <2>2 DEF Day
  <2> QED
    BY <2>1, <2>3 DEF Midnight
<1>3. ASSUME NEW t \in Int, Midnight(t), from <= t, t < to
      PROVE  t \in Dates(row)
  <2>1. PICK k \in Int : t = k * Day
    BY <1>3 DEF Midnight
  <2>2. /\ k - j \in Int /\ 0 <= k - j
        /\ t = from + (k - j) * Day
        /\ (k - j) * Day < to - from
    BY <1>1, <1>3, <2>1 DEF Day
  <2>3. k - j <= (to - from) \div Day
    BY <2>2 DEF Day
  <2>4. k - j \in 0 .. (to - from) \div Day /\ from + (k - j) * Day < to
    BY <1>3, <2>2, <2>3 DEF Day
  <2> QED
    BY <2>2, <2>4 DEF Dates
<1>4. Dates(row) \subseteq Int
  BY <1>2
<1> QED
  BY <1>2, <1>3

LEMMA DatesAreTimes ==
  ASSUME NEW row, row.start_date \in Int, row.end_date \in Int
  PROVE  Dates(row) \subseteq Int
<1> SUFFICES ASSUME NEW t \in Dates(row) PROVE t \in Int
  OBVIOUS
<1>1. PICK i \in 0 .. (row.end_date - row.start_date) \div Day :
        t = row.start_date + i * Day
  BY DEF Dates
<1> QED
  BY <1>1 DEF Day

\* Parts that meet at a midnight have the days of the whole, each once.
LEMMA PartsHaveDays ==
  ASSUME NEW whole \in ActionRow, NEW first \in ActionRow, NEW second \in ActionRow,
         NEW m \in Int, MeetAt(whole, first, second, m),
         Midnight(whole.start_date)
  PROVE  /\ Dates(first) \cup Dates(second) = Dates(whole)
         /\ Dates(first) \cap Dates(second) = {}
<1>1. /\ whole.start_date \in Int /\ whole.end_date \in Int
      /\ first.start_date \in Int /\ first.end_date \in Int
      /\ second.start_date \in Int /\ second.end_date \in Int
  BY DEF ActionRow
<1>2. /\ first.start_date = whole.start_date /\ first.end_date = m - 1
      /\ second.start_date = m /\ second.end_date = whole.end_date
      /\ Midnight(m) /\ whole.start_date < m /\ m <= whole.end_date + 1
  BY DEF MeetAt
<1>3. Dates(first) \cup Dates(second) \cup Dates(whole) \subseteq Int
  BY <1>1, DatesAreTimes
<1>4. ASSUME NEW t \in Int
      PROVE  /\ t \in Dates(whole) <=>
                  Midnight(t) /\ whole.start_date <= t /\ t < whole.end_date
             /\ t \in Dates(first) <=>
                  Midnight(t) /\ whole.start_date <= t /\ t < m - 1
             /\ t \in Dates(second) <=>
                  Midnight(t) /\ m <= t /\ t < whole.end_date
  <2>1. Midnight(first.start_date) /\ Midnight(second.start_date)
    BY <1>2
  <2>2. t \in Dates(whole) <=>
          Midnight(t) /\ whole.start_date <= t /\ t < whole.end_date
    BY <1>1, DatesAreMidnights
  <2>3. t \in Dates(first) <=>
          Midnight(t) /\ first.start_date <= t /\ t < first.end_date
    BY <1>1, <2>1, DatesAreMidnights
  <2>4. t \in Dates(second) <=>
          Midnight(t) /\ second.start_date <= t /\ t < second.end_date
    BY <1>1, <2>1, DatesAreMidnights
  <2> QED
    BY <1>2, <2>2, <2>3, <2>4
<1>5. ASSUME NEW t \in Int
      PROVE  /\ t \in Dates(whole) <=> t \in Dates(first) \/ t \in Dates(second)
             /\ ~ (t \in Dates(first) /\ t \in Dates(second))
  <2>1. Midnight(t) /\ t < m => t < m - 1
    <3> SUFFICES ASSUME Midnight(t), t < m PROVE t < m - 1
      OBVIOUS
    <3>1. t + Day <= m
      BY <1>2, Midnights
    <3> QED
      BY <3>1 DEF Day
  <2> QED
    BY <1>1, <1>2, <1>4, <2>1
<1> QED
  BY <1>3, <1>5

LEMMA DaysInvKeepsDays ==
  ASSUME TypeOK, DaysInv
  PROVE  SplitKeepsDays
<1> SUFFICES ASSUME NEW a \in DOMAIN actions,
                    actions[a].type \in DayTypes,
                    Len(actions[a].blocking) = 2,
                    Range(actions[a].blocking) \subseteq DOMAIN actions
             PROVE  /\ Dates(actions[actions[a].blocking[1]])
                         \cup Dates(actions[actions[a].blocking[2]])
                         = Dates(actions[a])
                    /\ Dates(actions[actions[a].blocking[1]])
                         \cap Dates(actions[actions[a].blocking[2]]) = {}
  BY DEF SplitKeepsDays
<1>1. actions[a] \in ActionRow /\ actions[a].blocking \in Seq(Nat)
  BY DEF TypeOK, ActionRow
<1>2. /\ actions[a].blocking[1] \in DOMAIN actions
      /\ actions[a].blocking[2] \in DOMAIN actions
  BY <1>1 DEF Range
<1>3. /\ actions[actions[a].blocking[1]] \in ActionRow
      /\ actions[actions[a].blocking[2]] \in ActionRow
  BY <1>2 DEF TypeOK
<1>4. PICK m \in Int : MeetAt(actions[a], actions[actions[a].blocking[1]],
                              actions[actions[a].blocking[2]], m)
  BY DEF DaysInv, PartsMeet
<1>5. Midnight(actions[a].start_date)
  BY DEF DaysInv, WholeDays
<1> QED
  BY <1>1, <1>3, <1>4, <1>5, PartsHaveDays

\* A step that changes rows as every commit does, and in the column of one
\* action at most that names its parts.
LEMMA CommitKeepsDays ==
  ASSUME IInv, IInv', DaysInv, Evolves, NEW p,
         \A a \in DOMAIN actions' \ DOMAIN lineage : WholeDays(actions'[a]),
         \A a \in DOMAIN actions' \cap DOMAIN lineage :
           a # p => actions'[a].blocking = actions[a].blocking,
         p \in DOMAIN actions' \cap DOMAIN lineage => PartsMeet(p)'
  PROVE  DaysInv'
<1>1. ASSUME NEW a \in DOMAIN actions', a \in DOMAIN lineage
      PROVE  a \in DOMAIN actions /\ SameDays(actions'[a], actions[a])
  BY <1>1 DEF Evolves, RowsEvolve, OldRow, SameDays
<1>2. \A a \in DOMAIN actions' : WholeDays(actions'[a])
  BY <1>1 DEF DaysInv, WholeDays, SameDays
<1>3. CarversKnow'
  <2>1. ASSUME NEW h \in Handlers, handlers'[h].op \in {"split", "reschedule"}
        PROVE  CarverKnows(handlers[h])'
    <3>1. handlers'[h] = handlers[h]
      BY <2>1 DEF Evolves, HandlersEvolve, Idle
    <3>2. CarverKnows(handlers[h]) /\ handlers[h].action \in DOMAIN lineage
      BY <2>1, <3>1 DEF DaysInv, CarversKnow, IInv, Agreement, LocalsAgree, Holds, Agrees
    <3> QED
      BY <1>1, <3>1, <3>2 DEF CarverKnows, SameDays
  <2> QED
    BY <2>1 DEF CarversKnow
<1>4. ASSUME NEW a \in DOMAIN actions' PROVE PartsMeet(a)'
  <2>1. CASE a \notin DOMAIN lineage
    <3>1. actions'[a].blocking = <<>>
      BY <2>1 DEF Evolves, RowsEvolve, NewRow
    <3> QED
      BY <3>1 DEF PartsMeet
  <2>2. CASE a \in DOMAIN lineage /\ a # p
    <3> SUFFICES ASSUME actions'[a].type \in DayTypes,
                        Len(actions'[a].blocking) = 2,
                        Range(actions'[a].blocking) \subseteq DOMAIN actions'
                 PROVE  \E m \in Int :
                          MeetAt(actions'[a], actions'[actions'[a].blocking[1]],
                                 actions'[actions'[a].blocking[2]], m)
      BY DEF PartsMeet
    <3>1. /\ a \in DOMAIN actions /\ SameDays(actions'[a], actions[a])
          /\ actions'[a].blocking = actions[a].blocking
      BY <1>1, <2>2
    <3>2. Range(actions[a].blocking) \subseteq DOMAIN lineage
      BY <3>1 DEF IInv, IdsAreKnown
    <3>3. actions[a].blocking \in Seq(Nat)
      BY <3>1 DEF IInv, TypeOK, ActionRow
    <3>4. /\ actions[a].blocking[1] \in Range(actions[a].blocking)
          /\ actions[a].blocking[2] \in Range(actions[a].blocking)
      BY <3>1, <3>3 DEF Range
    <3>5. ASSUME NEW c \in Range(actions[a].blocking)
          PROVE  c \in DOMAIN actions /\ SameDays(actions'[c], actions[c])
      BY <1>1, <3>1, <3>2, <3>5
    <3>6. PICK m \in Int : MeetAt(actions[a], actions[actions[a].blocking[1]],
                                  actions[actions[a].blocking[2]], m)
      BY <3>1, <3>5 DEF DaysInv, PartsMeet, SameDays
    <3> QED
      BY <3>1, <3>4, <3>5, <3>6 DEF MeetAt, SameDays
  <2>3. CASE a = p /\ a \in DOMAIN lineage
    BY <2>3
  <2> QED
    BY <2>1, <2>2, <2>3
<1> QED
  BY <1>2, <1>3, <1>4 DEF DaysInv

LEMMA DayStartIsMidnight ==
  ASSUME NEW t \in Int
  PROVE  DayStart(t) \in Int /\ Midnight(DayStart(t))
BY DEF DayStart, DayOf, Day, Midnight

\* What a handler that begins to carve has read, and the date it was sent.
LEMMA LocalStepKeepsDays ==
  ASSUME IInv, DaysInv, NEW h \in Handlers, LocalStep(h)
  PROVE  DaysInv'
<1>1. /\ actions' = actions
      /\ handlers' = [handlers EXCEPT ![h] = handlers'[h]]
      /\ handlers \in [Handlers -> HandlerState]
  BY LocalStepFacts DEF IInv, TypeOK, tables
<1>2. ASSUME NEW u \in Employees, NEW a \in DOMAIN actions, NEW date \in Instants,
             BeginSplit(h, u, a, date) \/ BeginReschedule(h, u, a, date)
      PROVE  CarverKnows(handlers[h])'
  <2> DEFINE s == handlers'[h]
  <2>1. /\ s.action = a /\ s.row = actions[a] /\ s.date = DayStart(date)
        /\ s.op = "split" =>
             DayStart(date) \in actions[a].start_date .. actions[a].end_date
    BY <1>1, <1>2 DEF BeginSplit, BeginReschedule, Become
  <2>2. Midnight(DayStart(date)) /\ DayStart(date) \in Int
    BY InstantsAssumption, DayStartIsMidnight
  <2>3. actions[a] \in ActionRow /\ WholeDays(actions[a])
    BY DEF IInv, TypeOK, DaysInv
  <2>4. s.op = "split" => s.row.start_date <= s.date /\ s.date <= s.row.end_date
    BY <2>1, <2>2, <2>3 DEF ActionRow
  <2> QED
    BY <1>1, <2>1, <2>2, <2>3, <2>4 DEF CarverKnows, SameDays
<1>3. handlers'[h].op \in {"split", "reschedule"} => CarverKnows(handlers[h])'
  <2>1. ASSUME \/ \E u \in Judges, a \in DOMAIN actions, approve \in BOOLEAN :
                    \E n \in Nameable(a) : BeginVerdict(h, u, a, approve, n)
               \/ \E caller \in Judges, u \in Employees, from, to \in Instants :
                    BeginAttendance(h, caller, u, from, to)
               \/ Spawn(h) \/ Abort(h)
        PROVE  handlers'[h].op \notin {"split", "reschedule"}
    BY <1>1, <2>1 DEF BeginVerdict, BeginAttendance, Spawn, Abort, Become, Idle
  <2> QED
    BY <1>2, <2>1 DEF LocalStep
<1>4. CarversKnow'
  <2>1. ASSUME NEW g \in Handlers, g # h, handlers'[g].op \in {"split", "reschedule"}
        PROVE  CarverKnows(handlers[g])'
    BY <1>1, <2>1 DEF DaysInv, CarversKnow, CarverKnows, SameDays
  <2> QED
    BY <1>3, <2>1 DEF CarversKnow
<1> QED
  BY <1>1, <1>4 DEF DaysInv, PartsMeet

\* What Carve makes of the rows it inserts and of the one it carves.
LEMMA CarvedRows ==
  ASSUME IInv, NEW a \in DOMAIN lineage, NEW rows, NEW ids,
         DOMAIN rows = nextAction .. nextAction + Len(ids) - 1,
         Len(ids) \in Nat, Carve(a, rows, ids)
  PROVE  /\ \A c \in DOMAIN rows : c \in DOMAIN actions' /\ actions'[c] = rows[c]
         /\ \A c \in DOMAIN actions' : c \in DOMAIN actions \/ c \in DOMAIN rows
         /\ \A c \in DOMAIN actions : c # a => actions'[c] = actions[c]
         /\ a \in DOMAIN actions =>
              /\ SameDays(actions'[a], actions[a])
              /\ actions'[a].blocking = ids
<1>1. /\ DOMAIN lineage = 1 .. nextAction - 1 /\ nextAction \in Nat
      /\ DOMAIN actions \subseteq DOMAIN lineage
      /\ \A c \in DOMAIN actions : actions[c] \in ActionRow
  BY BoundsAssumption DEF IInv, TypeOK
<1>2. \A c \in DOMAIN rows : c \notin DOMAIN lineage
  BY <1>1
<1>3. /\ actions' = SetBlocking(Insert(actions, rows), a, ids)
      /\ DOMAIN actions' = DOMAIN actions \cup DOMAIN rows
  BY DEF Carve, SetBlocking, Insert
<1>4. \A c \in DOMAIN rows : actions'[c] = rows[c]
  BY <1>2, <1>3 DEF SetBlocking, Insert
<1>5. \A c \in DOMAIN actions : c # a => actions'[c] = actions[c]
  BY <1>1, <1>2, <1>3 DEF SetBlocking, Insert
<1>6. a \in DOMAIN actions => actions'[a] = [actions[a] EXCEPT !.blocking = ids]
  BY <1>2, <1>3 DEF SetBlocking, Insert
<1>7. a \in DOMAIN actions =>
        /\ SameDays(actions'[a], actions[a])
        /\ actions'[a].blocking = ids
  BY <1>1, <1>6 DEF SameDays, ActionRow
<1> QED
  BY <1>3, <1>4, <1>5, <1>7

LEMMA CommitSplitKeepsDays ==
  ASSUME IInv, IInv', DaysInv, NEW h \in Handlers, CommitSplit(h)
  PROVE  DaysInv'
<1>1. PICK s, p, n : s = handlers[h] /\ p = handlers[h].action /\ n = nextAction
  OBVIOUS
<1> DEFINE m    == s.date + Day
           ids  == <<n, n + 1>>
           rows == [id \in {n, n + 1} |->
                      IF id = n THEN FirstPart(s) ELSE SecondPart(s)]
<1>2. s.op = "split" /\ s \in SplitState
  BY <1>1, LocalsOfOperation DEF CommitSplit, IInv, TypeOK
<1>3. p \in DOMAIN lineage
  BY <1>1, <1>2 DEF IInv, Agreement, LocalsAgree, Agrees, Holds
<1>4. Carve(p, rows, ids)
  BY <1>1 DEF CommitSplit
<1>5. Evolves
  BY CommitSplitStep
<1>6. n \in Nat /\ DOMAIN actions \subseteq DOMAIN lineage /\ DOMAIN lineage = 1 .. n - 1
  BY <1>1, BoundsAssumption DEF IInv, TypeOK
<1>7. s.row.start_date \in Int /\ s.row.end_date \in Int /\ s.date \in Int
  BY <1>2 DEF SplitState, ActionRow
<1>8. /\ WholeDays(s.row) /\ Midnight(s.date)
      /\ p \in DOMAIN actions => SameDays(s.row, actions[p])
      /\ s.row.start_date <= s.date /\ s.date <= s.row.end_date
  BY <1>1, <1>2 DEF DaysInv, CarversKnow, CarverKnows
<1>9. m \in Int /\ Midnight(m) /\ s.row.start_date < m
  BY <1>7, <1>8, Midnights DEF Day
<1>10. s.row.type \in DayTypes => m <= s.row.end_date + 1
  <2> SUFFICES ASSUME Midnight(s.row.end_date + 1) PROVE m <= s.row.end_date + 1
    BY <1>8 DEF WholeDays
  <2>1. s.row.end_date + 1 \in Int /\ s.date < s.row.end_date + 1
    BY <1>7, <1>8
  <2> QED
    BY <1>7, <1>8, <2>1, Midnights
<1>11. /\ FirstPart(s).type = s.row.type /\ SecondPart(s).type = s.row.type
       /\ FirstPart(s).start_date = s.row.start_date
       /\ FirstPart(s).end_date = m - 1
       /\ SecondPart(s).start_date = m
       /\ SecondPart(s).end_date = s.row.end_date
  BY <1>7 DEF FirstPart, SecondPart, NewAction, Day
<1>12. m - 1 + 1 = m
  BY <1>9
<1>13. WholeDays(FirstPart(s)) /\ WholeDays(SecondPart(s))
  BY <1>8, <1>9, <1>11, <1>12 DEF WholeDays
<1>14. /\ DOMAIN rows = n .. n + 1 /\ DOMAIN rows = {n, n + 1}
       /\ rows[n] = FirstPart(s) /\ rows[n + 1] = SecondPart(s)
       /\ Len(ids) = 2 /\ ids[1] = n /\ ids[2] = n + 1
  BY <1>6
<1>15. DOMAIN rows = nextAction .. nextAction + Len(ids) - 1 /\ Len(ids) \in Nat
  BY <1>1, <1>6, <1>14
<1> HIDE DEF m, ids, rows
<1>16. /\ \A c \in DOMAIN rows : c \in DOMAIN actions' /\ actions'[c] = rows[c]
       /\ \A c \in DOMAIN actions' : c \in DOMAIN actions \/ c \in DOMAIN rows
       /\ \A c \in DOMAIN actions : c # p => actions'[c] = actions[c]
       /\ p \in DOMAIN actions =>
            /\ SameDays(actions'[p], actions[p])
            /\ actions'[p].blocking = ids
  BY <1>3, <1>4, <1>15, CarvedRows
<1>17. n \notin DOMAIN lineage /\ n + 1 \notin DOMAIN lineage
  BY <1>6
<1>18. \A a \in DOMAIN actions' \ DOMAIN lineage : WholeDays(actions'[a])
  BY <1>6, <1>13, <1>14, <1>16
<1>19. \A a \in DOMAIN actions' \cap DOMAIN lineage :
         a # p => actions'[a].blocking = actions[a].blocking
  BY <1>14, <1>16, <1>17
<1>20. ASSUME p \in DOMAIN actions'
       PROVE  PartsMeet(p)'
  <2>1. /\ p \in DOMAIN actions
        /\ SameDays(actions'[p], actions[p]) /\ SameDays(s.row, actions[p])
        /\ actions'[p].blocking = ids
    BY <1>3, <1>8, <1>14, <1>16, <1>17, <1>20
  <2>2. actions'[n] = FirstPart(s) /\ actions'[n + 1] = SecondPart(s)
    BY <1>14, <1>16
  <2>3. s.row.type \in DayTypes => MeetAt(actions'[p], actions'[n], actions'[n + 1], m)
    BY <1>9, <1>10, <1>11, <2>1, <2>2 DEF MeetAt, SameDays
  <2>4. /\ actions'[p].blocking[1] = n /\ actions'[p].blocking[2] = n + 1
        /\ actions'[p].type = s.row.type
    BY <1>14, <2>1 DEF SameDays
  <2> QED
    BY <1>9, <2>3, <2>4 DEF PartsMeet
<1> QED
  BY <1>5, <1>18, <1>19, <1>20, CommitKeepsDays

LEMMA CommitRescheduleKeepsDays ==
  ASSUME IInv, IInv', DaysInv, NEW h \in Handlers, CommitReschedule(h)
  PROVE  DaysInv'
<1>1. PICK s, p, n : s = handlers[h] /\ p = handlers[h].action /\ n = nextAction
  OBVIOUS
<1> DEFINE ids  == <<n>>
           rows == [id \in {n} |-> Moved(s)]
           more == s.row.end_date + 1
<1>2. s.op = "reschedule" /\ s \in RescheduleState
  BY <1>1, LocalsOfOperation DEF CommitReschedule, IInv, TypeOK
<1>3. p \in DOMAIN lineage
  BY <1>1, <1>2 DEF IInv, Agreement, LocalsAgree, Agrees, Holds
<1>4. Carve(p, rows, ids)
  BY <1>1 DEF CommitReschedule
<1>5. Evolves
  BY CommitRescheduleStep
<1>6. n \in Nat /\ DOMAIN actions \subseteq DOMAIN lineage /\ DOMAIN lineage = 1 .. n - 1
  BY <1>1, BoundsAssumption DEF IInv, TypeOK
<1>7. s.row.start_date \in Int /\ s.row.end_date \in Int /\ s.date \in Int /\ more \in Int
  BY <1>2 DEF RescheduleState, ActionRow
<1>8. WholeDays(s.row) /\ Midnight(s.date)
  BY <1>1, <1>2 DEF DaysInv, CarversKnow, CarverKnows
<1>9. /\ Moved(s).type = s.row.type
      /\ Moved(s).start_date = s.date
      /\ Moved(s).end_date + 1 = s.date + (more - s.row.start_date)
  BY <1>7 DEF Moved, NewAction
<1>10. WholeDays(Moved(s))
  <2> SUFFICES ASSUME s.row.type \in DayTypes
               PROVE  Midnight(s.date + (more - s.row.start_date))
    BY <1>8, <1>9 DEF WholeDays
  <2>1. Midnight(s.row.start_date) /\ Midnight(more)
    BY <1>8 DEF WholeDays
  <2>2. PICK from, to, length : /\ from = s.row.start_date /\ to = more
                                /\ length = to - from
    OBVIOUS
  <2>3. from \in Int /\ to \in Int /\ length \in Int
    BY <1>7, <2>2
  <2>4. Midnight(length)
    BY <2>1, <2>2, <2>3, Midnights
  <2>5. Midnight(s.date + length)
    BY <1>7, <1>8, <2>3, <2>4, Midnights
  <2> QED
    BY <2>2, <2>5
<1>11. /\ DOMAIN rows = n .. n /\ DOMAIN rows = {n} /\ rows[n] = Moved(s)
       /\ Len(ids) = 1
  BY <1>6
<1>12. DOMAIN rows = nextAction .. nextAction + Len(ids) - 1 /\ Len(ids) \in Nat
  BY <1>1, <1>6, <1>11
<1> HIDE DEF ids, rows
<1>13. /\ \A c \in DOMAIN rows : c \in DOMAIN actions' /\ actions'[c] = rows[c]
       /\ \A c \in DOMAIN actions' : c \in DOMAIN actions \/ c \in DOMAIN rows
       /\ \A c \in DOMAIN actions : c # p => actions'[c] = actions[c]
       /\ p \in DOMAIN actions => actions'[p].blocking = ids
  BY <1>3, <1>4, <1>12, CarvedRows
<1>14. n \notin DOMAIN lineage
  BY <1>6
<1>15. \A a \in DOMAIN actions' \ DOMAIN lineage : WholeDays(actions'[a])
  BY <1>6, <1>10, <1>11, <1>13
<1>16. \A a \in DOMAIN actions' \cap DOMAIN lineage :
         a # p => actions'[a].blocking = actions[a].blocking
  BY <1>11, <1>13, <1>14
<1>17. ASSUME p \in DOMAIN actions'
       PROVE  PartsMeet(p)'
  <2>1. actions'[p].blocking = ids
    BY <1>3, <1>11, <1>13, <1>14, <1>17
  <2>2. Len(actions'[p].blocking) # 2
    BY <1>11, <2>1
  <2> QED
    BY <2>2 DEF PartsMeet
<1> QED
  BY <1>5, <1>15, <1>16, <1>17, CommitKeepsDays

\* A step that leaves the columns of the parts alone, and whose new rows are
\* whole days.
LEMMA StepKeepsDays ==
  ASSUME IInv, IInv', DaysInv, Evolves,
         \A a \in DOMAIN actions' \ DOMAIN lineage : WholeDays(actions'[a]),
         \A a \in DOMAIN actions' \cap DOMAIN lineage :
           actions'[a].blocking = actions[a].blocking
  PROVE  DaysInv'
<1>1. Null \notin DOMAIN lineage
  BY DEF IInv, TypeOK, Null
<1> QED
  BY <1>1, CommitKeepsDays

LEMMA RequestKeepsDays ==
  ASSUME IInv, IInv', DaysInv, NEW u \in Employees, NEW type \in RequestTypes,
         NEW from \in Instants, NEW to \in Instants, Request(u, type, from, to)
  PROVE  DaysInv'
<1> DEFINE row == NewAction(type, u, StartOf(type, from), EndOf(type, to),
                            "pending", Null)
<1>1. /\ actions' = Insert(actions, [a \in {nextAction} |-> row])
      /\ DOMAIN actions \subseteq DOMAIN lineage
      /\ nextAction \notin DOMAIN lineage
      /\ from \in Int /\ to \in Int
  BY InstantsAssumption DEF Request, IInv, TypeOK
<1>2. WholeDays(row)
  <2> SUFFICES ASSUME type \in DayTypes
               PROVE  Midnight(row.start_date) /\ Midnight(row.end_date + 1)
    BY DEF WholeDays, NewAction
  <2>1. /\ row.start_date = DayStart(from)
        /\ row.end_date = DayStart(to) + Day - 1
    BY DEF NewAction, StartOf, EndOf, DayTypes
  <2>2. /\ DayStart(from) \in Int /\ Midnight(DayStart(from))
        /\ DayStart(to) \in Int /\ Midnight(DayStart(to))
    BY <1>1, DayStartIsMidnight
  <2>3. row.end_date + 1 = DayStart(to) + Day
    BY <2>1, <2>2 DEF Day
  <2> QED
    BY <2>1, <2>2, <2>3, Midnights
<1> HIDE DEF row
<1>3. /\ DOMAIN actions' = DOMAIN actions \cup {nextAction}
      /\ actions'[nextAction] = row
      /\ \A a \in DOMAIN actions : actions'[a] = actions[a]
  BY <1>1 DEF Insert
<1>4. Evolves
  BY RequestStep
<1> QED
  BY <1>1, <1>2, <1>3, <1>4, StepKeepsDays

LEMMA CommitAttendanceKeepsDays ==
  ASSUME IInv, IInv', DaysInv, NEW h \in Handlers, CommitAttendance(h)
  PROVE  DaysInv'
<1> DEFINE t   == handlers[h]
           row == NewAction("attendance", t.employee, t.from, t.to, "NULL", Null)
<1>1. /\ actions' = Insert(Delete(actions, t.replaced), [a \in {nextAction} |-> row])
      /\ DOMAIN actions \subseteq DOMAIN lineage
      /\ nextAction \notin DOMAIN lineage
  BY DEF CommitAttendance, IInv, TypeOK
<1>2. WholeDays(row)
  BY DEF WholeDays, NewAction, DayTypes
<1> HIDE DEF row, t
<1>3. /\ DOMAIN actions' \subseteq DOMAIN actions \cup {nextAction}
      /\ actions'[nextAction] = row
      /\ \A a \in DOMAIN actions' \cap DOMAIN actions : actions'[a] = actions[a]
  BY <1>1 DEF Insert, Delete, Restrict
<1>4. Evolves
  BY CommitAttendanceStep
<1> QED
  BY <1>1, <1>2, <1>3, <1>4, StepKeepsDays

LEMMA NextDaysInv ==
  ASSUME IInv, IInv', DaysInv, [Next]_vars
  PROVE  DaysInv'
<1>0. /\ DOMAIN actions \subseteq DOMAIN lineage
      /\ \A a \in DOMAIN actions : actions[a] \in ActionRow
  BY DEF IInv, TypeOK
<1> DEFINE Kept == /\ DOMAIN actions' \subseteq DOMAIN actions
                   /\ \A a \in DOMAIN actions' :
                        actions'[a].blocking = actions[a].blocking
<1>1. ASSUME Kept, Evolves PROVE DaysInv'
  BY <1>0, <1>1, StepKeepsDays
<1>2. ASSUME NEW h \in Handlers, CommitApproval(h)
      PROVE  Kept /\ Evolves
  <2>1. actions' = SetStatus(actions, handlers[h].action, "approved")
    BY <1>2 DEF CommitApproval
  <2> QED
    BY <1>0, <1>2, <2>1, CommitApprovalStep DEF SetStatus, ActionRow
<1>3. ASSUME NEW h \in Handlers, CommitDenial(h)
      PROVE  Kept /\ Evolves
  BY <1>3, CommitDenialStep DEF CommitDenial, Delete, Restrict
<1>4. ASSUME NEW u \in Employees, RemoveEmployee(u)
      PROVE  Kept /\ Evolves
  BY <1>4, RemoveEmployeeStep DEF RemoveEmployee, Delete, Restrict
<1>5. ASSUME NEW u \in Employees, NEW head \in HeadChoices, AddHead(u, head)
      PROVE  Kept /\ Evolves
  BY <1>5, AddHeadStep DEF AddHead
<1>6. CASE Restart
  <2>1. Kept
    BY <1>6 DEF Restart, tables
  <2> QED
    BY <1>1, <1>6, <2>1, RestartStep
<1>7. CASE UNCHANGED vars
  BY <1>7 DEF vars, tables, DaysInv, CarversKnow, CarverKnows, SameDays, PartsMeet
<1> HIDE DEF Kept
<1>8. ASSUME NEW h \in Handlers, LocalStep(h) PROVE DaysInv'
  BY <1>8, LocalStepKeepsDays
<1> QED
  BY <1>1, <1>2, <1>3, <1>4, <1>5, <1>6, <1>7, <1>8, RequestKeepsDays,
     CommitSplitKeepsDays, CommitRescheduleKeepsDays, CommitAttendanceKeepsDays
  DEF Next, Requests, Calls, Commits, LocalStep

\* The parts of a whole-day absence have its days, each once, whatever commits
\* between the SELECT and the writes of a split.
THEOREM SplitsKeepDays == Spec => []SplitKeepsDays
<1>1. Init => DaysInv
  BY InitDaysInv
<1>2. IInv /\ IInv' /\ DaysInv /\ [Next]_vars => DaysInv'
  BY NextDaysInv
<1>3. IInv /\ DaysInv => SplitKeepsDays
  BY DaysInvKeepsDays DEF IInv
<1> QED
  BY <1>1, <1>2, <1>3, Invariance, PTL DEF Spec

----------------------------------------------------------------------------
(* One handler at a time.  With two, an approval may be told of an action   *)
(* that another verdict has deleted meanwhile, and two attendances of one  *)
(* day may both find nothing to replace.  With one, what it read is still  *)
(* so when it writes, unless the employee was removed with the rows.       *)

\* An attendance record as /v1/attendance/add wrote it, not one that was carved.
IsRecord(a) == actions[a].type = "attendance" /\ actions[a].underlying = Null

\* A judged action is there, unless its owner was removed with it.
JudgedIsThere ==
  \A h \in Handlers :
    /\ handlers[h].op = "verdict"
    /\ handlers[h].row.user_id \in DOMAIN employees
    => /\ handlers[h].action \in DOMAIN actions
       /\ actions[handlers[h].action].user_id = handlers[h].row.user_id

\* What an attendance will replace is all there is of its employee and day.
ReplacedIsAll ==
  \A h \in Handlers :
    handlers[h].op = "attendance" =>
      \A a \in AttendanceOn(handlers[h].employee, DayOf(handlers[h].from)) :
        IsRecord(a) => a \in handlers[h].replaced

SoloInv == OneAttendancePerDay /\ JudgedIsThere /\ ReplacedIsAll

LEMMA InitSoloInv == Init => SoloInv
  BY DEF Init, SoloInv, OneAttendancePerDay, JudgedIsThere, ReplacedIsAll,
         EmptyTable, Idle

\* Every attendance record was one before, of the same employee and start.
RecordsEvolve ==
  \A a \in DOMAIN actions' :
    /\ actions'[a].type = "attendance"
    /\ actions'[a].underlying = Null
    => /\ a \in DOMAIN actions
       /\ IsRecord(a)
       /\ actions'[a].user_id = actions[a].user_id
       /\ actions'[a].start_date = actions[a].start_date

LEMMA NoNewRecords ==
  ASSUME RowsEvolve,
         \A a \in DOMAIN actions' :
           /\ actions'[a].type = "attendance"
           /\ actions'[a].underlying = Null
           => a \in DOMAIN lineage
  PROVE  RecordsEvolve
  BY DEF RowsEvolve, OldRow, RecordsEvolve, IsRecord

LEMMA OneAttendanceKept ==
  ASSUME OneAttendancePerDay, RecordsEvolve
  PROVE  OneAttendancePerDay'
<1> SUFFICES ASSUME NEW a \in DOMAIN actions', NEW b \in DOMAIN actions',
                    {actions'[a].type, actions'[b].type} = {"attendance"},
                    {actions'[a].underlying, actions'[b].underlying} = {Null},
                    actions'[a].user_id = actions'[b].user_id,
                    DayOf(actions'[a].start_date) = DayOf(actions'[b].start_date)
             PROVE  a = b
  BY DEF OneAttendancePerDay
<1>1. ASSUME NEW c \in {a, b}
      PROVE  /\ c \in DOMAIN actions
             /\ actions[c].type = "attendance" /\ actions[c].underlying = Null
             /\ actions'[c].user_id = actions[c].user_id
             /\ actions'[c].start_date = actions[c].start_date
  BY DEF RecordsEvolve, IsRecord
<1>2. /\ a \in DOMAIN actions /\ b \in DOMAIN actions
      /\ {actions[a].type, actions[b].type} = {"attendance"}
      /\ {actions[a].underlying, actions[b].underlying} = {Null}
      /\ actions[a].user_id = actions[b].user_id
      /\ DayOf(actions[a].start_date) = DayOf(actions[b].start_date)
  BY <1>1
<1> QED
  BY <1>2 DEF OneAttendancePerDay

\* A commit leaves the only handler with nothing to judge or replace.
LEMMA SoloCommit ==
  ASSUME NEW h, Handlers = {h}, OneAttendancePerDay',
         handlers'[h].op \notin {"verdict", "attendance"}
  PROVE  SoloInv'
  BY DEF SoloInv, JudgedIsThere, ReplacedIsAll

\* A step beside the handler: a request, a removal or a new head.
LEMMA SoloBeside ==
  ASSUME SoloInv, RecordsEvolve, UNCHANGED handlers,
         DOMAIN employees' \subseteq DOMAIN employees,
         \A a \in DOMAIN actions :
           actions[a].user_id \in DOMAIN employees' =>
             /\ a \in DOMAIN actions'
             /\ actions'[a].user_id = actions[a].user_id
  PROVE  SoloInv'
<1>1. OneAttendancePerDay'
  BY OneAttendanceKept DEF SoloInv
<1>2. JudgedIsThere'
  BY DEF SoloInv, JudgedIsThere
<1>3. ReplacedIsAll'
  <2> SUFFICES ASSUME NEW g \in Handlers, handlers[g].op = "attendance",
                      NEW a \in DOMAIN actions',
                      actions'[a].user_id = handlers[g].employee,
                      DayOf(actions'[a].start_date) = DayOf(handlers[g].from),
                      actions'[a].type = "attendance",
                      actions'[a].underlying = Null
               PROVE  a \in handlers[g].replaced
    BY DEF ReplacedIsAll, AttendanceOn, IsRecord
  <2>1. /\ a \in DOMAIN actions /\ IsRecord(a)
        /\ actions'[a].user_id = actions[a].user_id
        /\ actions'[a].start_date = actions[a].start_date
    BY DEF RecordsEvolve
  <2>2. a \in AttendanceOn(handlers[g].employee, DayOf(handlers[g].from))
    BY <2>1 DEF AttendanceOn, IsRecord
  <2> QED
    BY <2>1, <2>2 DEF SoloInv, ReplacedIsAll
<1> QED
  BY <1>1, <1>2, <1>3 DEF SoloInv

\* The record that an attendance inserts is alone: all others of the day are
\* among those it replaces.
LEMMA CommitAttendanceSolo ==
  ASSUME IInv, SoloInv, NEW h \in Handlers, CommitAttendance(h)
  PROVE  OneAttendancePerDay'
<1> DEFINE t   == handlers[h]
           n   == nextAction
           row == NewAction("attendance", t.employee, t.from, t.to, "NULL", Null)
<1>1. /\ actions' = Insert(Delete(actions, t.replaced), [a \in {n} |-> row])
      /\ t.op = "attendance"
  BY DEF CommitAttendance
<1>2. /\ row.type = "attendance" /\ row.underlying = Null
      /\ row.user_id = t.employee /\ row.start_date = t.from
  BY DEF NewAction
<1> HIDE DEF row
<1>3. /\ DOMAIN actions' = (DOMAIN actions \ t.replaced) \cup {n}
      /\ actions'[n] = row
      /\ \A a \in DOMAIN actions' \ {n} : actions'[a] = actions[a]
  BY <1>1 DEF Insert, Delete, Restrict
<1>4. \A a \in DOMAIN actions \ t.replaced :
        ~ /\ actions[a].type = "attendance" /\ actions[a].underlying = Null
          /\ actions[a].user_id = t.employee
          /\ DayOf(actions[a].start_date) = DayOf(t.from)
  BY <1>1 DEF SoloInv, ReplacedIsAll, AttendanceOn, IsRecord
<1> HIDE DEF t
<1> SUFFICES ASSUME NEW a \in DOMAIN actions', NEW b \in DOMAIN actions',
                    actions'[a].type = "attendance", actions'[b].type = "attendance",
                    actions'[a].underlying = Null, actions'[b].underlying = Null,
                    actions'[a].user_id = actions'[b].user_id,
                    DayOf(actions'[a].start_date) = DayOf(actions'[b].start_date)
             PROVE  a = b
  BY DEF OneAttendancePerDay
<1>5. CASE a = n \/ b = n
  BY <1>2, <1>3, <1>4, <1>5
<1>6. CASE a # n /\ b # n
  <2>1. /\ a \in DOMAIN actions /\ b \in DOMAIN actions
        /\ {actions[a].type, actions[b].type} = {"attendance"}
        /\ {actions[a].underlying, actions[b].underlying} = {Null}
        /\ actions[a].user_id = actions[b].user_id
        /\ DayOf(actions[a].start_date) = DayOf(actions[b].start_date)
    BY <1>3, <1>6
  <2> QED
    BY <2>1 DEF SoloInv, OneAttendancePerDay
<1> QED
  BY <1>5, <1>6

\* What the handler has just read is there, and all there is.
LEMMA LocalStepSolo ==
  ASSUME IInv, SoloInv, NEW h, Handlers = {h}, LocalStep(h)
  PROVE  SoloInv'
<1>1. /\ UNCHANGED <<employees, actions>>
      /\ Fetched(h)
      /\ handlers \in [Handlers -> HandlerState]
  BY LocalStepFacts DEF IInv, TypeOK, tables
<1>2. OneAttendancePerDay'
  BY <1>1 DEF SoloInv, OneAttendancePerDay
<1>3. JudgedIsThere'
  BY <1>1 DEF JudgedIsThere, Fetched
<1>4. handlers'[h].op = "attendance" =>
        handlers'[h].replaced =
          AttendanceOn(handlers'[h].employee, DayOf(handlers'[h].from))
  <2>1. ASSUME NEW u \in Judges, NEW a \in DOMAIN actions,
               NEW approve \in BOOLEAN, NEW n \in Nameable(a),
               BeginVerdict(h, u, a, approve, n)
        PROVE  handlers'[h].op # "attendance"
    BY <1>1, <2>1 DEF BeginVerdict, Become
  <2>2. ASSUME NEW u \in Employees, NEW a \in DOMAIN actions, NEW date \in Instants,
               BeginSplit(h, u, a, date) \/ BeginReschedule(h, u, a, date)
        PROVE  handlers'[h].op # "attendance"
    BY <1>1, <2>2 DEF BeginSplit, BeginReschedule, Become
  <2>3. ASSUME NEW caller \in Judges, NEW u \in Employees,
               NEW from \in Instants, NEW to \in Instants,
               BeginAttendance(h, caller, u, from, to)
        PROVE  handlers'[h].replaced =
                 AttendanceOn(handlers'[h].employee, DayOf(handlers'[h].from))
    <3>1. handlers'[h] = [op |-> "attendance", employee |-> u, from |-> from,
                          to |-> to, replaced |-> AttendanceOn(u, DayOf(from)),
                          user |-> caller]
      BY <1>1, <2>3 DEF BeginAttendance, Become
    <3> QED
      BY <3>1
  <2>4. ASSUME Spawn(h) \/ Abort(h)
        PROVE  handlers'[h].op # "attendance"
    BY <1>1, <2>4 DEF Spawn, Abort, Become, Idle
  <2> QED
    BY <2>1, <2>2, <2>3, <2>4 DEF LocalStep
<1>5. ReplacedIsAll'
  BY <1>1, <1>4 DEF ReplacedIsAll, AttendanceOn
<1> QED
  BY <1>2, <1>3, <1>5 DEF SoloInv

LEMMA NextSoloInv ==
  ASSUME IInv, IInv', SoloInv, [Next]_vars, NEW h, Handlers = {h}
  PROVE  SoloInv'
<1>0. /\ handlers \in [Handlers -> HandlerState]
      /\ DOMAIN actions \subseteq DOMAIN lineage
      /\ Null \notin DOMAIN lineage
  BY DEF IInv, TypeOK, Null
<1>1. ASSUME NEW u \in Employees, NEW type \in RequestTypes,
             NEW from \in Instants, NEW to \in Instants,
             Request(u, type, from, to)
      PROVE  SoloInv'
  <2> DEFINE row == NewAction(type, u, StartOf(type, from), EndOf(type, to),
                              "pending", Null)
  <2>1. /\ actions' = Insert(actions, [a \in {nextAction} |-> row])
        /\ type \in AbsenceTypes /\ UNCHANGED <<employees, handlers>>
    BY <1>1 DEF Request
  <2>2. row.type = type
    BY DEF NewAction
  <2> HIDE DEF row
  <2>3. /\ DOMAIN actions' = DOMAIN actions \cup {nextAction}
        /\ actions'[nextAction] = row
        /\ \A a \in DOMAIN actions : a # nextAction => actions'[a] = actions[a]
    BY <2>1 DEF Insert
  <2>4. nextAction \notin DOMAIN actions
    BY BoundsAssumption DEF IInv, TypeOK
  <2>5. RecordsEvolve
    BY <2>1, <2>2, <2>3, <2>4 DEF RecordsEvolve, IsRecord, AbsenceTypes, DayTypes
  <2> QED
    BY <2>1, <2>3, <2>4, <2>5, SoloBeside
<1>2. CASE LocalStep(h)
  BY <1>2, LocalStepSolo
<1>3. CASE CommitApproval(h)
  <2>1. /\ DOMAIN actions' = DOMAIN actions /\ RowsEvolve
        /\ handlers' = [handlers EXCEPT
                          ![h] = [op |-> "spawn", action |-> handlers[h].action]]
    BY <1>3, CommitApprovalStep DEF CommitApproval, SetStatus, Become, Evolves
  <2>2. OneAttendancePerDay'
    BY <1>0, <2>1, NoNewRecords, OneAttendanceKept DEF SoloInv
  <2>3. handlers'[h].op = "spawn"
    BY <1>0, <2>1
  <2> QED
    BY <2>2, <2>3, SoloCommit
<1>4. CASE CommitDenial(h)
  <2>1. /\ DOMAIN actions' \subseteq DOMAIN actions /\ RowsEvolve
        /\ handlers' = [handlers EXCEPT ![h] = Idle]
    BY <1>4, CommitDenialStep DEF CommitDenial, Delete, Restrict, Become, Evolves
  <2>2. OneAttendancePerDay'
    BY <1>0, <2>1, NoNewRecords, OneAttendanceKept DEF SoloInv
  <2>3. handlers'[h].op = "idle"
    BY <1>0, <2>1 DEF Idle
  <2> QED
    BY <2>2, <2>3, SoloCommit
<1>5. CASE CommitSplit(h)
  <2> DEFINE s == handlers[h]
             rows == [id \in {nextAction, nextAction + 1} |->
                        IF id = nextAction THEN FirstPart(s) ELSE SecondPart(s)]
  <2>1. /\ actions' = SetBlocking(Insert(actions, rows), s.action,
                                  <<nextAction, nextAction + 1>>)
        /\ handlers' = [handlers EXCEPT ![h] = Idle]
        /\ s.op = "split"
    BY <1>5 DEF CommitSplit, Carve, Become
  <2>2. /\ RowsEvolve
        /\ s.action \in DOMAIN lineage
    BY <1>5, <2>1, CommitSplitStep
    DEF Evolves, IInv, Agreement, LocalsAgree, Agrees, Holds
  <2>3. \A c \in DOMAIN rows : rows[c].underlying = s.action
    BY DEF FirstPart, SecondPart, NewAction
  <2> HIDE DEF rows
  <2>4. \A c \in DOMAIN actions' :
          c \in DOMAIN rows \/ c \in DOMAIN actions
    BY <2>1 DEF SetBlocking, Insert
  <2>5. \A c \in DOMAIN actions' :
          c \notin DOMAIN lineage => actions'[c].underlying = s.action
    BY <1>0, <2>1, <2>2, <2>3, <2>4 DEF SetBlocking, Insert
  <2>6. OneAttendancePerDay'
    BY <1>0, <2>2, <2>5, NoNewRecords, OneAttendanceKept DEF SoloInv
  <2>7. handlers'[h].op = "idle"
    BY <1>0, <2>1 DEF Idle
  <2> QED
    BY <2>6, <2>7, SoloCommit
<1>6. CASE CommitReschedule(h)
  <2> DEFINE s == handlers[h]
             rows == [id \in {nextAction} |-> Moved(s)]
  <2>1. /\ actions' = SetBlocking(Insert(actions, rows), s.action, <<nextAction>>)
        /\ handlers' = [handlers EXCEPT ![h] = Idle]
        /\ s.op = "reschedule"
    BY <1>6 DEF CommitReschedule, Carve, Become
  <2>2. /\ RowsEvolve
        /\ s.action \in DOMAIN lineage
    BY <1>6, <2>1, CommitRescheduleStep
    DEF Evolves, IInv, Agreement, LocalsAgree, Agrees, Holds
  <2>3. \A c \in DOMAIN rows : rows[c].underlying = s.action
    BY DEF Moved, NewAction
  <2> HIDE DEF rows
  <2>4. \A c \in DOMAIN actions' :
          c \in DOMAIN rows \/ c \in DOMAIN actions
    BY <2>1 DEF SetBlocking, Insert
  <2>5. \A c \in DOMAIN actions' :
          c \notin DOMAIN lineage => actions'[c].underlying = s.action
    BY <1>0, <2>1, <2>2, <2>3, <2>4 DEF SetBlocking, Insert
  <2>6. OneAttendancePerDay'
    BY <1>0, <2>2, <2>5, NoNewRecords, OneAttendanceKept DEF SoloInv
  <2>7. handlers'[h].op = "idle"
    BY <1>0, <2>1 DEF Idle
  <2> QED
    BY <2>6, <2>7, SoloCommit
<1>7. CASE CommitAttendance(h)
  <2>1. OneAttendancePerDay'
    BY <1>7, CommitAttendanceSolo
  <2>2. handlers'[h].op = "idle"
    BY <1>0, <1>7 DEF CommitAttendance, Become, Idle
  <2> QED
    BY <2>1, <2>2, SoloCommit
<1>8. ASSUME NEW u \in Employees, RemoveEmployee(u)
      PROVE  SoloInv'
  <2>1. /\ DOMAIN employees' = DOMAIN employees \ {u}
        /\ DOMAIN actions' = DOMAIN actions \ RowsOf(actions, u)
        /\ \A a \in DOMAIN actions' : actions'[a] = actions[a]
        /\ UNCHANGED handlers
    BY <1>8 DEF RemoveEmployee, Delete, Restrict
  <2>2. RecordsEvolve
    BY <2>1 DEF RecordsEvolve, IsRecord
  <2> QED
    BY <2>1, <2>2, SoloBeside DEF RowsOf
<1>9. ASSUME NEW u \in Employees, NEW head \in HeadChoices, AddHead(u, head)
      PROVE  SoloInv'
  <2>1. /\ DOMAIN employees' = DOMAIN employees
        /\ UNCHANGED <<actions, handlers>>
    BY <1>9 DEF AddHead
  <2>2. RecordsEvolve
    BY <2>1 DEF RecordsEvolve, IsRecord
  <2> QED
    BY <2>1, <2>2, SoloBeside
<1>10. CASE Restart
  <2>1. UNCHANGED actions /\ handlers'[h] = Idle
    BY <1>10 DEF Restart, tables
  <2>2. OneAttendancePerDay'
    BY <2>1 DEF SoloInv, OneAttendancePerDay
  <2> QED
    BY <2>1, <2>2, SoloCommit DEF Idle
<1>11. CASE UNCHANGED vars
  BY <1>11 DEF vars, tables, SoloInv, OneAttendancePerDay, JudgedIsThere,
              ReplacedIsAll, AttendanceOn, IsRecord
<1> QED
  BY <1>1, <1>2, <1>3, <1>4, <1>5, <1>6, <1>7, <1>8, <1>9, <1>10, <1>11
  DEF Next, Requests, Calls, Commits, LocalStep

\* Only an approval tells an owner of one, of the action it judged.
LEMMA OnlyApprovalsTell ==
  ASSUME IInv, NEW h \in Handlers, [Next]_vars, Handlers = {h},
         NEW n \in DOMAIN notifications', notifications'[n].kind = "approved"
  PROVE  \/ n \in DOMAIN notifications /\ notifications'[n] = notifications[n]
         \/ CommitApproval(h) /\ notifications'[n].action_id = handlers[h].action
<1>0. TypeOK
  BY DEF IInv
<1> DEFINE Old == n \in DOMAIN notifications /\ notifications'[n] = notifications[n]
<1>1. ASSUME NEW kind, NEW u, NEW sender, NEW a, NEW deleted,
             Notify(kind, u, sender, a, deleted)
      PROVE  Old \/ (kind = "approved" /\ notifications'[n].action_id = a)
  <2> DEFINE kept == Delete(notifications, deleted)
             new  == [m \in {nextNotice} |->
                        [kind |-> kind, user_id |-> u, sender_id |-> sender,
                         action_id |-> a]]
  <2>1. notifications' = Insert(kept, new)
    BY <1>1 DEF Notify
  <2>2. /\ DOMAIN kept \subseteq DOMAIN notifications
        /\ \A m \in DOMAIN kept : kept[m] = notifications[m]
    BY DEF Delete, Restrict
  <2>3. /\ DOMAIN new = {nextNotice}
        /\ new[nextNotice].kind = kind /\ new[nextNotice].action_id = a
    OBVIOUS
  <2> HIDE DEF kept, new
  <2>4. CASE n = nextNotice
    <3>1. notifications'[n] = new[nextNotice]
      BY <2>1, <2>3, <2>4 DEF Insert
    <3> QED
      BY <2>3, <3>1
  <2>5. CASE n # nextNotice
    <3>1. n \in DOMAIN kept /\ notifications'[n] = kept[n]
      BY <2>1, <2>3, <2>5 DEF Insert
    <3> QED
      BY <2>2, <3>1
  <2> QED
    BY <2>4, <2>5
<1>2. ASSUME NEW u \in Employees, NEW type \in RequestTypes,
             NEW from \in Instants, NEW to \in Instants,
             Request(u, type, from, to)
      PROVE  Old
  <2>1. Notify("request", Superior(u), u, nextAction, {})
    BY <1>2 DEF Request
  <2> QED
    BY <1>1, <2>1
<1>3. CASE LocalStep(h)
  BY <1>0, <1>3, LocalStepFacts DEF tables
<1>4. CASE CommitApproval(h)
  <2>1. Notify("approved", handlers[h].row.user_id, handlers[h].user,
               handlers[h].action, {handlers[h].notification})
    BY <1>4 DEF CommitApproval
  <2> QED
    BY <1>1, <1>4, <2>1
<1>5. CASE CommitDenial(h)
  <2>1. Notify("denied", handlers[h].row.user_id, handlers[h].user,
               handlers[h].action, {handlers[h].notification})
    BY <1>5 DEF CommitDenial
  <2> QED
    BY <1>1, <2>1
<1>6. CASE CommitSplit(h)
  <2>1. Notify("split", handlers[h].user, handlers[h].user, handlers[h].action, {})
    BY <1>6 DEF CommitSplit
  <2> QED
    BY <1>1, <2>1
<1>7. CASE CommitReschedule(h)
  <2>1. \/ Notify("moved", handlers[h].user, handlers[h].user, handlers[h].action, {})
        \/ Notify("offered", handlers[h].user, Superior(handlers[h].user),
                  handlers[h].action, {})
    BY <1>7 DEF CommitReschedule
  <2> QED
    BY <1>1, <2>1
<1>8. CASE CommitAttendance(h)
  <2>1. Notify("attendance_added", handlers[h].employee, handlers[h].user, Null, {})
    BY <1>8 DEF CommitAttendance
  <2> QED
    BY <1>1, <2>1
<1>9. ASSUME NEW u \in Employees, RemoveEmployee(u)
      PROVE  Old
  BY <1>9 DEF RemoveEmployee, Delete, Restrict
<1>10. ASSUME NEW u \in Employees, NEW head \in HeadChoices, AddHead(u, head)
       PROVE  Old
  BY <1>10 DEF AddHead
<1>11. CASE Restart \/ UNCHANGED vars
  BY <1>11 DEF Restart, vars, tables
<1> QED
  BY <1>2, <1>3, <1>4, <1>5, <1>6, <1>7, <1>8, <1>9, <1>10, <1>11
  DEF Next, Requests, Calls, Commits, LocalStep

\* The owner of an approved action is there, so the action is.
LEMMA ApprovalFindsAction ==
  ASSUME IInv, SoloInv, NEW h \in Handlers, CommitApproval(h)
  PROVE  /\ handlers[h].action \in DOMAIN actions'
         /\ actions'[handlers[h].action].status = "approved"
<1>1. /\ handlers[h].op = "verdict"
      /\ handlers[h].row.user_id \in DOMAIN employees
      /\ actions' = SetStatus(actions, handlers[h].action, "approved")
  BY DEF CommitApproval, Notify
<1>2. handlers[h].action \in DOMAIN actions
  BY <1>1 DEF SoloInv, JudgedIsThere
<1> QED
  BY <1>1, <1>2 DEF SetStatus, IInv, TypeOK, ActionRow

LEMMA SoloInvariance ==
  ASSUME NEW h, Handlers = {h}
  PROVE  Spec => [](IInv /\ SoloInv)
<1>1. Init => SoloInv
  BY InitSoloInv
<1>2. IInv /\ IInv' /\ SoloInv /\ [Next]_vars => SoloInv'
  BY NextSoloInv
<1> QED
  BY <1>1, <1>2, Invariance, PTL DEF Spec

\* An attendance replaces all that an employee had on the day, one handler at a
\* time.
THEOREM AttendanceIsReplaced ==
  ASSUME NEW h, Handlers = {h}
  PROVE  Spec => []OneAttendancePerDay
<1>1. SoloInv => OneAttendancePerDay
  BY DEF SoloInv
<1> QED
  BY <1>1, SoloInvariance, PTL

\* One handler at a time, an owner who is told of an approval has an approved
\* absence, even if employees are removed between the verdict's two steps.
THEOREM ApprovalsAreTrue ==
  ASSUME NEW h, Handlers = {h}
  PROVE  Spec => ApprovalToldIsTrue
<1>1. IInv /\ SoloInv /\ [Next]_vars =>
        [\A u \in Employees : \A n \in Notifications(u)' \ Notifications(u) :
           notifications'[n].kind = "approved" =>
             /\ notifications'[n].action_id \in DOMAIN actions'
             /\ actions'[notifications'[n].action_id].status = "approved"]_vars
  <2> SUFFICES ASSUME IInv, SoloInv, [Next]_vars, NEW u \in Employees,
                      NEW n \in Notifications(u)' \ Notifications(u),
                      notifications'[n].kind = "approved"
               PROVE  /\ notifications'[n].action_id \in DOMAIN actions'
                      /\ actions'[notifications'[n].action_id].status = "approved"
    OBVIOUS
  <2>1. /\ n \in DOMAIN notifications' /\ notifications'[n].user_id = u
        /\ ~ (n \in DOMAIN notifications /\ notifications[n].user_id = u)
    BY DEF Notifications
  <2>2. h \in Handlers
    OBVIOUS
  <2>3. CommitApproval(h) /\ notifications'[n].action_id = handlers[h].action
    BY <2>1, <2>2, OnlyApprovalsTell
  <2> QED
    BY <2>2, <2>3, ApprovalFindsAction
<1> QED
  BY <1>1, SoloInvariance, PTL DEF Spec, ApprovalToldIsTrue
=============================================================================
