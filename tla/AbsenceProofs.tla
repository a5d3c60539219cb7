--------------------------- MODULE AbsenceProofs ---------------------------
(***************************************************************************)
(* Proofs about Absence for any number of employees, handlers, actions and *)
(* notifications: the type invariant and the safety invariants that its    *)
(* runs check on small instances.                                          *)
(*                                                                         *)
(* None of them is inductive alone.  A row that a handler read may be      *)
(* stale when it writes, so the inductive invariant also says what remains *)
(* true of a row in a handler's locals (LocalsAgree), and that every id    *)
(* written in a column was once the id of an action (IdsAreKnown).         *)
(***************************************************************************)
EXTENDS Absence, TLAPS

\* The handler holds the row of an action that it read.
Holds(h) == handlers[h].op \in {"verdict", "split", "reschedule"}

\* What stays true of locals [op, action, row] whatever others commit.
Agrees(l) ==
  /\ l.action \in DOMAIN lineage
  /\ l.row.status = "approved" => Sanctioned(l.action)
  /\ l.row.type = "attendance" <=> l.row.status = "NULL"
  /\ l.action \in DOMAIN actions => actions[l.action].type = l.row.type
  /\ l.op = "verdict" => l.row.type \in AbsenceTypes

LocalsAgree == \A h \in Handlers : Holds(h) => Agrees(handlers[h])

IdsAreKnown ==
  /\ \A h \in Handlers :
       handlers[h].op = "spawn" => handlers[h].action \in DOMAIN lineage
  /\ \A a \in DOMAIN actions :
       /\ actions[a].underlying \in {Null} \cup DOMAIN lineage
       /\ Range(actions[a].blocking) \subseteq DOMAIN lineage
  /\ \A n \in DOMAIN notifications :
       notifications[n].action_id \in {Null} \cup DOMAIN lineage

Agreement ==
  /\ LocalsAgree
  /\ ApprovalProvenance
  /\ OnlyAbsencesAreJudged

IInv == TypeOK /\ Agreement /\ IdsAreKnown /\ DenialIsFinal /\ CarvingLinks

----------------------------------------------------------------------------
(* The type invariant *)

\* The locals of a handler are those of its operation.
LEMMA LocalsOfOperation ==
  ASSUME NEW h \in Handlers, handlers \in [Handlers -> HandlerState]
  PROVE  /\ handlers[h].op = "verdict" => handlers[h] \in VerdictState
         /\ handlers[h].op = "split" => handlers[h] \in SplitState
         /\ handlers[h].op = "reschedule" => handlers[h] \in RescheduleState
         /\ handlers[h].op = "attendance" => handlers[h] \in AttendanceState
         /\ handlers[h].op = "spawn" => handlers[h] \in SpawnState
  BY DEF HandlerState, Idle, VerdictState, SplitState, RescheduleState,
         AttendanceState, SpawnState

LEMMA InitIInv == Init => IInv
  BY BoundsAssumption, HeadsAssumption
  DEF Init, IInv, TypeOK, Agreement, LocalsAgree, ApprovalProvenance,
      OnlyAbsencesAreJudged, IdsAreKnown, DenialIsFinal, CarvingLinks, Holds,
      EmptyTable, HandlerState, Idle

\* The notification a handler inserts is typed, and the only new one.
LEMMA NotifyTyped ==
  ASSUME TypeOK, NEW kind \in NoticeKinds, NEW u \in Employees,
         NEW sender \in Employees, NEW a \in Nat, NEW deleted,
         Notify(kind, u, sender, a, deleted)
  PROVE  /\ nextNotice' \in 1 .. MaxNotices + 1
         /\ DOMAIN notifications' \subseteq 1 .. nextNotice' - 1
         /\ \A n \in DOMAIN notifications' : notifications'[n] \in NoticeRow
         /\ \A n \in DOMAIN notifications' :
              \/ n \in DOMAIN notifications /\ notifications'[n] = notifications[n]
              \/ /\ notifications'[n].kind = kind
                 /\ notifications'[n].action_id = a
<1> DEFINE kept == Delete(notifications, deleted)
           new  == [n \in {nextNotice} |->
                      [kind |-> kind, user_id |-> u, sender_id |-> sender,
                       action_id |-> a]]
<1>1. /\ notifications' = Insert(kept, new)
      /\ nextNotice' = nextNotice + 1
      /\ nextNotice <= MaxNotices
  BY DEF Notify
<1>2. /\ DOMAIN kept \subseteq DOMAIN notifications
      /\ \A n \in DOMAIN kept : kept[n] = notifications[n]
  BY DEF Delete, Restrict
<1>3. /\ DOMAIN new = {nextNotice}
      /\ new[nextNotice] = [kind |-> kind, user_id |-> u, sender_id |-> sender,
                            action_id |-> a]
  OBVIOUS
<1> HIDE DEF kept, new
<1>4. /\ DOMAIN notifications' = DOMAIN kept \cup {nextNotice}
      /\ notifications'[nextNotice] = new[nextNotice]
      /\ \A n \in DOMAIN kept \ {nextNotice} : notifications'[n] = kept[n]
  BY <1>1, <1>3 DEF Insert
<1>5. nextNotice \in 1 .. MaxNotices
  BY <1>1, BoundsAssumption DEF TypeOK
<1>6. DOMAIN notifications \subseteq 1 .. nextNotice - 1
  BY DEF TypeOK
<1>7. new[nextNotice] \in NoticeRow
  BY <1>3 DEF NoticeRow
<1>8. \A n \in DOMAIN kept : notifications[n] \in NoticeRow
  BY <1>2 DEF TypeOK
<1> QED
  BY <1>1, <1>2, <1>3, <1>4, <1>5, <1>6, <1>7, <1>8, BoundsAssumption

\* The steps that change only the locals of one handler: the reads at the start
\* of a handler, the end of an approval and a transaction that fails.
LocalStep(h) ==
  /\ \/ \E u \in Judges, a \in DOMAIN actions, approve \in BOOLEAN :
          \E n \in Nameable(a) : BeginVerdict(h, u, a, approve, n)
     \/ \E u \in Employees, a \in DOMAIN actions, date \in Instants :
          BeginSplit(h, u, a, date) \/ BeginReschedule(h, u, a, date)
     \/ \E caller \in Judges, u \in Employees, from, to \in Instants :
          BeginAttendance(h, caller, u, from, to)
     \/ Spawn(h)
     \/ Abort(h)

\* What a handler may hold after such a step: nothing, or what it just read.
Fetched(h) ==
  /\ handlers'[h] \in HandlerState
  /\ handlers'[h].op # "spawn"
  /\ handlers'[h].op \in {"verdict", "split", "reschedule"} =>
       /\ handlers'[h].action \in DOMAIN actions
       /\ handlers'[h].row = actions[handlers'[h].action]
  /\ handlers'[h].op = "verdict" => handlers'[h].row.type \in AbsenceTypes

\* A day begins at a timestamp.
LEMMA MidnightTyped ==
  ASSUME NEW t \in Int
  PROVE  DayStart(t) \in Int
BY DEF DayStart, DayOf, Day

LEMMA LocalStepFacts ==
  ASSUME TypeOK, NEW h \in Handlers, LocalStep(h)
  PROVE  /\ UNCHANGED <<tables, fresh, history>>
         /\ handlers' = [handlers EXCEPT ![h] = handlers'[h]]
         /\ Fetched(h)
<1>0. /\ handlers \in [Handlers -> HandlerState]
      /\ \A a \in DOMAIN actions : a \in Nat /\ actions[a] \in ActionRow
      /\ \A n \in DOMAIN notifications : n \in Nat
  BY DEF TypeOK
<1>1. ASSUME NEW u \in Judges, NEW a \in DOMAIN actions,
             NEW approve \in BOOLEAN, NEW n \in Nameable(a),
             BeginVerdict(h, u, a, approve, n)
      PROVE  /\ UNCHANGED <<tables, fresh, history>>
             /\ handlers' = [handlers EXCEPT ![h] = handlers'[h]]
             /\ Fetched(h)
  <2> DEFINE v == [op |-> "verdict", action |-> a, row |-> actions[a],
                   approve |-> approve, notification |-> n, user |-> u]
  <2>1. v \in VerdictState
    BY <1>0, HeadsAssumption DEF VerdictState, Null, Nameable
  <2>2. handlers'[h] = v /\ handlers' = [handlers EXCEPT ![h] = v]
    BY <1>0, <1>1 DEF BeginVerdict, Become
  <2> QED
    BY <2>1, <2>2, <1>1 DEF Fetched, HandlerState, BeginVerdict
<1>2. ASSUME NEW u \in Employees, NEW a \in DOMAIN actions, NEW date \in Instants,
             BeginSplit(h, u, a, date)
      PROVE  /\ UNCHANGED <<tables, fresh, history>>
             /\ handlers' = [handlers EXCEPT ![h] = handlers'[h]]
             /\ Fetched(h)
  <2> DEFINE s == [op |-> "split", user |-> u, action |-> a,
                   row |-> actions[a], date |-> DayStart(date)]
  <2>1. s \in SplitState
    BY <1>0, InstantsAssumption, MidnightTyped DEF SplitState
  <2>2. handlers'[h] = s /\ handlers' = [handlers EXCEPT ![h] = s]
    BY <1>0, <1>2 DEF BeginSplit, Become
  <2> QED
    BY <2>1, <2>2, <1>2 DEF Fetched, HandlerState, BeginSplit
<1>3. ASSUME NEW u \in Employees, NEW a \in DOMAIN actions, NEW date \in Instants,
             BeginReschedule(h, u, a, date)
      PROVE  /\ UNCHANGED <<tables, fresh, history>>
             /\ handlers' = [handlers EXCEPT ![h] = handlers'[h]]
             /\ Fetched(h)
  <2> DEFINE s == [op |-> "reschedule", user |-> u, action |-> a,
                   row |-> actions[a], date |-> DayStart(date)]
  <2>1. s \in RescheduleState
    BY <1>0, InstantsAssumption, MidnightTyped DEF RescheduleState
  <2>2. handlers'[h] = s /\ handlers' = [handlers EXCEPT ![h] = s]
    BY <1>0, <1>3 DEF BeginReschedule, Become
  <2> QED
    BY <2>1, <2>2, <1>3 DEF Fetched, HandlerState, BeginReschedule
<1>4. ASSUME NEW caller \in Judges, NEW u \in Employees,
             NEW from \in Instants, NEW to \in Instants,
             BeginAttendance(h, caller, u, from, to)
      PROVE  /\ UNCHANGED <<tables, fresh, history>>
             /\ handlers' = [handlers EXCEPT ![h] = handlers'[h]]
             /\ Fetched(h)
  <2> DEFINE t == [op |-> "attendance", employee |-> u, from |-> from, to |-> to,
                   replaced |-> AttendanceOn(u, DayOf(from)), user |-> caller]
  <2>1. t \in AttendanceState
    BY <1>0, InstantsAssumption, HeadsAssumption DEF AttendanceState, AttendanceOn
  <2>2. handlers'[h] = t /\ handlers' = [handlers EXCEPT ![h] = t]
    BY <1>0, <1>4 DEF BeginAttendance, Become
  <2> QED
    BY <2>1, <2>2, <1>4 DEF Fetched, HandlerState, BeginAttendance
<1>5. ASSUME Spawn(h) \/ Abort(h)
      PROVE  /\ UNCHANGED <<tables, fresh, history>>
             /\ handlers' = [handlers EXCEPT ![h] = handlers'[h]]
             /\ Fetched(h)
  <2>1. handlers'[h] = Idle /\ handlers' = [handlers EXCEPT ![h] = Idle]
    BY <1>0, <1>5 DEF Spawn, Abort, Become
  <2> QED
    BY <2>1, <1>5 DEF Fetched, HandlerState, Idle, Spawn, Abort
<1> QED
  BY <1>1, <1>2, <1>3, <1>4, <1>5 DEF LocalStep

\* A handler that begins, fails or leaves keeps the invariant: what it has just
\* read is a row of the table, so all that holds of rows holds of it.
LEMMA LocalStepIInv ==
  ASSUME IInv, NEW h \in Handlers, LocalStep(h)
  PROVE  IInv'
<1>1. /\ UNCHANGED <<tables, fresh, history>>
      /\ handlers' = [handlers EXCEPT ![h] = handlers'[h]]
      /\ Fetched(h)
  BY LocalStepFacts DEF IInv
<1>2. UNCHANGED <<employees, actions, notifications, nextAction, nextNotice,
                  granted, lineage, asked>>
  BY <1>1 DEF tables, fresh, history
<1>3. \A g \in Handlers \ {h} : handlers'[g] = handlers[g]
  BY <1>1 DEF IInv, TypeOK
<1>4. TypeOK'
  BY <1>1, <1>2 DEF IInv, TypeOK, Fetched
<1>5. Agreement'
  <2>1. ASSUME NEW g \in Handlers, Holds(g)'
        PROVE  Agrees(handlers'[g])
    <3>1. CASE g = h
      <4>1. /\ handlers'[h].action \in DOMAIN actions
            /\ handlers'[h].row = actions[handlers'[h].action]
            /\ handlers'[h].op = "verdict" => handlers'[h].row.type \in AbsenceTypes
        BY <1>1, <2>1, <3>1 DEF Fetched, Holds
      <4> QED
        BY <3>1, <4>1 DEF IInv, TypeOK, Agreement, ApprovalProvenance,
                          OnlyAbsencesAreJudged, Agrees
    <3>2. CASE g # h
      BY <1>3, <2>1, <3>2 DEF IInv, Agreement, LocalsAgree, Holds
    <3> QED
      BY <3>1, <3>2
  <2>2. LocalsAgree'
    BY <1>2, <2>1 DEF LocalsAgree, Agrees, Sanctioned
  <2> QED
    BY <1>2, <2>2 DEF IInv, Agreement, ApprovalProvenance, Sanctioned,
                      OnlyAbsencesAreJudged
<1>6. IdsAreKnown'
  BY <1>1, <1>2, <1>3 DEF IInv, IdsAreKnown, Fetched
<1>7. DenialIsFinal' /\ CarvingLinks'
  BY <1>2 DEF IInv, DenialIsFinal, CarvingLinks
<1> QED
  BY <1>4, <1>5, <1>6, <1>7 DEF IInv

----------------------------------------------------------------------------
(* How a commit may change the tables.  Every commit and removal satisfies *)
(* the four conjuncts of Evolves, and a step that does keeps the           *)
(* invariant.                                                              *)

\* Nothing is forgotten of the past.
HistoryGrows ==
  /\ DOMAIN lineage \subseteq DOMAIN lineage'
  /\ \A a \in DOMAIN lineage : lineage'[a] = lineage[a]
  /\ granted \subseteq granted'

\* No action returns, none changes its type, owner, dates or origin, and a
\* status changes to "approved" only, by a verdict.
OldRow(a) ==
  /\ a \in DOMAIN actions
  /\ actions'[a].type = actions[a].type
  /\ actions'[a].user_id = actions[a].user_id
  /\ actions'[a].start_date = actions[a].start_date
  /\ actions'[a].end_date = actions[a].end_date
  /\ actions'[a].underlying = actions[a].underlying
  /\ \/ actions'[a].status = actions[a].status
     \/ /\ actions'[a].status = "approved"
        /\ a \in granted'
        /\ actions[a].type \in AbsenceTypes
  /\ \/ actions'[a].blocking = actions[a].blocking
     \/ /\ actions'[a].blocking # <<>>
        /\ \A c \in Range(actions'[a].blocking) :
             /\ c \in DOMAIN lineage' \ DOMAIN lineage
             /\ c \in DOMAIN actions' => actions'[c].underlying = a

\* A new action blocks nothing, and what it was carved from, if anything, lists
\* what blocks it.
NewRow(a) ==
  /\ actions'[a].status = "approved" => Sanctioned(a)'
  /\ actions'[a].type = "attendance" <=> actions'[a].status = "NULL"
  /\ actions'[a].blocking = <<>>
  /\ actions'[a].underlying \in {Null} \cup DOMAIN lineage
  /\ actions'[a].underlying \in DOMAIN actions' =>
       actions'[actions'[a].underlying].blocking # <<>>

RowsEvolve ==
  \A a \in DOMAIN actions' :
    /\ a \in DOMAIN lineage => OldRow(a)
    /\ a \notin DOMAIN lineage => NewRow(a)

\* Notifications are added and removed, never changed; a denial is written of
\* an action that is gone.
NoticesEvolve ==
  \A n \in DOMAIN notifications' :
    \/ n \in DOMAIN notifications /\ notifications'[n] = notifications[n]
    \/ /\ notifications'[n].action_id \in {Null} \cup DOMAIN lineage'
       /\ notifications'[n].kind = "denied" =>
            notifications'[n].action_id \notin DOMAIN actions'

\* A handler is untouched, done, or about to spawn a task for an action.
HandlersEvolve ==
  \A h \in Handlers :
    \/ handlers'[h] = handlers[h]
    \/ handlers'[h] = Idle
    \/ handlers'[h].op = "spawn" /\ handlers'[h].action \in DOMAIN lineage

Evolves == HistoryGrows /\ RowsEvolve /\ NoticesEvolve /\ HandlersEvolve

LEMMA EvolvesIInv ==
  ASSUME IInv, TypeOK', Evolves
  PROVE  IInv'
<1>1. /\ DOMAIN actions \subseteq DOMAIN lineage
      /\ DOMAIN actions' \subseteq DOMAIN lineage'
      /\ Null \notin DOMAIN lineage /\ Null \notin DOMAIN lineage'
      /\ \A a \in DOMAIN actions : actions[a] \in ActionRow
      /\ \A a \in DOMAIN actions' : actions'[a] \in ActionRow
      /\ \A a \in DOMAIN lineage : a \in lineage[a]
  BY DEF IInv, TypeOK, Null
<1>2. \A a \in DOMAIN lineage : Sanctioned(a) => Sanctioned(a)'
  BY DEF Evolves, HistoryGrows, Sanctioned
<1>3. Agreement'
  <2>1. ASSUME NEW h \in Handlers, Holds(h)'
        PROVE  /\ handlers'[h] = handlers[h]
               /\ Holds(h)
    BY <2>1 DEF Evolves, HandlersEvolve, Holds, Idle
  <2>2. LocalsAgree'
    <3> SUFFICES ASSUME NEW h \in Handlers, Holds(h)'
                 PROVE  Agrees(handlers[h])'
      BY DEF LocalsAgree
    <3>1. Agrees(handlers[h])
      BY <2>1 DEF IInv, Agreement, LocalsAgree
    <3>2. /\ handlers'[h] = handlers[h]
          /\ handlers[h].action \in DOMAIN lineage
          /\ handlers[h].action \in DOMAIN lineage'
          /\ Sanctioned(handlers[h].action) =>
               lineage'[handlers[h].action] \cap granted' # {}
      BY <1>2, <2>1, <3>1 DEF Agrees, Evolves, HistoryGrows, Sanctioned
    <3>3. handlers[h].action \in DOMAIN actions' =>
            /\ handlers[h].action \in DOMAIN actions
            /\ actions'[handlers[h].action].type = actions[handlers[h].action].type
      BY <3>2 DEF Evolves, RowsEvolve, OldRow
    <3> QED
      BY <3>1, <3>2, <3>3 DEF Agrees, Sanctioned
  <2>3. ApprovalProvenance'
    <3> SUFFICES ASSUME NEW a \in DOMAIN actions',
                        actions'[a].status = "approved"
                 PROVE  Sanctioned(a)'
      BY DEF ApprovalProvenance, Sanctioned
    <3>1. CASE a \notin DOMAIN lineage
      BY <3>1 DEF Evolves, RowsEvolve, NewRow
    <3>2. CASE a \in DOMAIN lineage /\ actions[a].status = "approved"
      BY <1>2, <3>2 DEF Evolves, RowsEvolve, OldRow, IInv, Agreement,
                        ApprovalProvenance
    <3>3. CASE a \in DOMAIN lineage /\ actions[a].status # "approved"
      <4>1. a \in granted'
        BY <3>3 DEF Evolves, RowsEvolve, OldRow
      <4>2. a \in lineage'[a]
        BY <1>1, <3>3 DEF Evolves, HistoryGrows
      <4> QED
        BY <4>1, <4>2 DEF Sanctioned
    <3> QED
      BY <3>1, <3>2, <3>3
  <2>4. OnlyAbsencesAreJudged'
    BY <1>1 DEF Evolves, RowsEvolve, OldRow, NewRow, IInv, Agreement,
                OnlyAbsencesAreJudged, AbsenceTypes, DayTypes
  <2> QED
    BY <2>2, <2>3, <2>4 DEF Agreement
<1>4. IdsAreKnown'
  <2>1. \A h \in Handlers : handlers'[h].op = "spawn" =>
          handlers'[h].action \in DOMAIN lineage'
    BY DEF IInv, IdsAreKnown, Evolves, HandlersEvolve, HistoryGrows, Idle
  <2>2. \A a \in DOMAIN actions' :
          actions'[a].underlying \in {Null} \cup DOMAIN lineage'
    BY DEF IInv, IdsAreKnown, Evolves, RowsEvolve, OldRow, NewRow, HistoryGrows
  <2>3. \A a \in DOMAIN actions' :
          Range(actions'[a].blocking) \subseteq DOMAIN lineage'
    <3> SUFFICES ASSUME NEW a \in DOMAIN actions'
                 PROVE  Range(actions'[a].blocking) \subseteq DOMAIN lineage'
      OBVIOUS
    <3>1. CASE actions'[a].blocking = <<>>
      BY <3>1 DEF Range
    <3>2. CASE a \in DOMAIN lineage /\ actions'[a].blocking = actions[a].blocking
      BY <3>2 DEF IInv, IdsAreKnown, Evolves, RowsEvolve, OldRow, HistoryGrows
    <3> QED
      BY <3>1, <3>2 DEF Evolves, RowsEvolve, OldRow, NewRow
  <2>4. \A n \in DOMAIN notifications' :
          notifications'[n].action_id \in {Null} \cup DOMAIN lineage'
    BY DEF IInv, IdsAreKnown, Evolves, NoticesEvolve, HistoryGrows
  <2> QED
    BY <2>1, <2>2, <2>3, <2>4 DEF IdsAreKnown, Null
<1>5. DenialIsFinal'
  <2> SUFFICES ASSUME NEW n \in DOMAIN notifications',
                      notifications'[n].kind = "denied",
                      notifications'[n].action_id \in DOMAIN actions'
               PROVE  FALSE
    BY DEF DenialIsFinal
  <2>1. /\ n \in DOMAIN notifications
        /\ notifications'[n] = notifications[n]
    BY DEF Evolves, NoticesEvolve
  <2>2. /\ notifications[n].action_id \in DOMAIN lineage
        /\ notifications[n].action_id \notin DOMAIN actions
    BY <1>1, <2>1 DEF IInv, IdsAreKnown, DenialIsFinal
  <2> QED
    BY <2>1, <2>2 DEF Evolves, RowsEvolve, OldRow
<1>6. CarvingLinks'
  <2>1. ASSUME NEW p \in DOMAIN actions',
               NEW c \in Range(actions'[p].blocking) \cap DOMAIN actions'
        PROVE  actions'[c].underlying = p
    <3>1. p \in DOMAIN lineage
      <4>1. Range(<<>>) = {}
        BY DEF Range
      <4> QED
        BY <2>1, <4>1 DEF Evolves, RowsEvolve, NewRow
    <3>2. CASE actions'[p].blocking = actions[p].blocking
      <4>1. p \in DOMAIN actions /\ c \in DOMAIN lineage
        BY <2>1, <3>1, <3>2 DEF Evolves, RowsEvolve, OldRow, IInv, IdsAreKnown
      <4>2. /\ c \in DOMAIN actions
            /\ actions'[c].underlying = actions[c].underlying
        BY <2>1, <4>1 DEF Evolves, RowsEvolve, OldRow
      <4> QED
        BY <2>1, <3>2, <4>1, <4>2 DEF IInv, CarvingLinks
    <3>3. CASE actions'[p].blocking # actions[p].blocking
      BY <2>1, <3>1, <3>3 DEF Evolves, RowsEvolve, OldRow
    <3> QED
      BY <3>2, <3>3
  <2>2. ASSUME NEW c \in DOMAIN actions',
               actions'[c].underlying \in DOMAIN actions'
        PROVE  actions'[actions'[c].underlying].blocking # <<>>
    <3>1. CASE c \notin DOMAIN lineage
      BY <2>2, <3>1 DEF Evolves, RowsEvolve, NewRow
    <3>2. CASE c \in DOMAIN lineage
      <4> DEFINE p == actions'[c].underlying
      <4>1. c \in DOMAIN actions /\ p = actions[c].underlying
        BY <3>2 DEF Evolves, RowsEvolve, OldRow
      <4>2. p \in DOMAIN lineage
        BY <1>1, <2>2, <4>1 DEF IInv, IdsAreKnown
      <4>3. OldRow(p)
        BY <2>2, <4>2 DEF Evolves, RowsEvolve
      <4> QED
        BY <4>1, <4>3 DEF OldRow, IInv, CarvingLinks
    <3> QED
      BY <3>1, <3>2
  <2> QED
    BY <2>1, <2>2 DEF CarvingLinks
<1> QED
  BY <1>3, <1>4, <1>5, <1>6 DEF IInv

----------------------------------------------------------------------------
(* Each commit is such a step *)

\* Giving the next fresh ids a lineage keeps the lineages typed and the past.
LEMMA FreshLineage ==
  ASSUME TypeOK, NEW rows,
         nextAction' \in nextAction .. MaxActions + 1,
         DOMAIN rows = nextAction .. nextAction' - 1,
         \A a \in DOMAIN rows : a \in rows[a] /\ rows[a] \subseteq 1 .. a,
         lineage' = Insert(lineage, rows)
  PROVE  /\ nextAction' \in 1 .. MaxActions + 1
         /\ DOMAIN lineage' = 1 .. nextAction' - 1
         /\ \A a \in DOMAIN lineage' : a \in lineage'[a] /\ lineage'[a] \subseteq 1 .. a
         /\ DOMAIN lineage' = DOMAIN lineage \cup DOMAIN rows
         /\ DOMAIN lineage \cap DOMAIN rows = {}
         /\ \A a \in DOMAIN lineage : lineage'[a] = lineage[a]
         /\ \A a \in DOMAIN rows : lineage'[a] = rows[a]
<1>1. /\ nextAction \in 1 .. MaxActions + 1
      /\ DOMAIN lineage = 1 .. nextAction - 1
      /\ \A a \in DOMAIN lineage : a \in lineage[a] /\ lineage[a] \subseteq 1 .. a
  BY DEF TypeOK
<1>2. /\ nextAction' \in Int /\ nextAction <= nextAction'
      /\ nextAction' <= MaxActions + 1
  BY <1>1, BoundsAssumption
<1>3. \A a \in DOMAIN rows : a \in Int /\ nextAction <= a /\ a < nextAction'
  BY <1>1, <1>2
<1>4. DOMAIN lineage \cap DOMAIN rows = {}
  <2>1. nextAction \in Int
    BY <1>1, BoundsAssumption
  <2>2. \A a \in DOMAIN lineage : a \in Int /\ a < nextAction
    BY <1>1, <2>1
  <2>3. \A a \in DOMAIN rows : a \notin DOMAIN lineage
    BY <1>3, <2>1, <2>2
  <2> QED
    BY <2>3
<1>5. /\ DOMAIN lineage' = DOMAIN lineage \cup DOMAIN rows
      /\ \A a \in DOMAIN lineage : lineage'[a] = lineage[a]
      /\ \A a \in DOMAIN rows : lineage'[a] = rows[a]
  BY <1>4 DEF Insert
<1>6. DOMAIN lineage' = 1 .. nextAction' - 1
  BY <1>1, <1>2, <1>5
<1>7. \A a \in DOMAIN lineage' : a \in lineage'[a] /\ lineage'[a] \subseteq 1 .. a
  BY <1>1, <1>5
<1>8. nextAction' \in 1 .. MaxActions + 1
  BY <1>1, <1>2, BoundsAssumption
<1> QED
  BY <1>4, <1>5, <1>6, <1>7, <1>8

\* The dates the request handler stores are timestamps.
LEMMA DatesTyped ==
  ASSUME NEW type, NEW t \in Int
  PROVE  StartOf(type, t) \in Int /\ EndOf(type, t) \in Int
  BY DEF StartOf, EndOf, DayStart, DayOf, Day

LEMMA RequestStep ==
  ASSUME IInv, NEW u \in Employees, NEW type \in RequestTypes,
         NEW from \in Instants, NEW to \in Instants, Request(u, type, from, to)
  PROVE  TypeOK' /\ Evolves
<1> DEFINE n   == nextAction
           row == NewAction(type, u, StartOf(type, from), EndOf(type, to),
                            "pending", Null)
<1>1. TypeOK
  BY DEF IInv
<1>2. /\ n \in 1 .. MaxActions
      /\ type \in AbsenceTypes
      /\ actions' = Insert(actions, [a \in {n} |-> row])
      /\ u \in DOMAIN employees
      /\ Notify("request", Superior(u), u, n, {})
      /\ nextAction' = n + 1
      /\ lineage' = Insert(lineage, [a \in {n} |-> {a}])
      /\ asked' = Insert(asked, [a \in {n} |-> Superior(u)])
      /\ UNCHANGED <<employees, handlers, granted>>
  BY <1>1, BoundsAssumption DEF Request, TypeOK
<1>3. /\ row \in ActionRow
      /\ row.type = type /\ row.status = "pending" /\ row.underlying = Null
      /\ row.blocking = <<>>
  <2>1. StartOf(type, from) \in Int /\ EndOf(type, to) \in Int
    BY DatesTyped, InstantsAssumption
  <2> QED
    BY <1>2, <2>1 DEF NewAction, ActionRow, ActionTypes, Null
<1> HIDE DEF row
<1>4. /\ nextAction' \in 1 .. MaxActions + 1
      /\ DOMAIN lineage' = 1 .. nextAction' - 1
      /\ \A a \in DOMAIN lineage' : a \in lineage'[a] /\ lineage'[a] \subseteq 1 .. a
      /\ DOMAIN lineage' = DOMAIN lineage \cup {n}
      /\ n \notin DOMAIN lineage
      /\ \A a \in DOMAIN lineage : lineage'[a] = lineage[a]
  <2> DEFINE rows == [a \in {n} |-> {a}]
  <2>1. DOMAIN rows = {n} /\ rows[n] = {n} /\ lineage' = Insert(lineage, rows)
    BY <1>2
  <2> HIDE DEF rows
  <2>2. /\ nextAction' \in nextAction .. MaxActions + 1
        /\ DOMAIN rows = nextAction .. nextAction' - 1
        /\ \A a \in DOMAIN rows : a \in rows[a] /\ rows[a] \subseteq 1 .. a
    BY <1>2, <2>1, BoundsAssumption
  <2> QED
    BY <1>1, <2>1, <2>2, FreshLineage
<1>5. /\ DOMAIN actions' = DOMAIN actions \cup {n}
      /\ actions'[n] = row
      /\ \A a \in DOMAIN actions \ {n} : actions'[a] = actions[a]
  BY <1>2 DEF Insert
<1>6. /\ DOMAIN actions \subseteq DOMAIN lineage
      /\ \A a \in DOMAIN actions : actions[a] \in ActionRow
  BY <1>1 DEF TypeOK
<1>7. Superior(u) \in Employees
  BY <1>1, <1>2, HeadsAssumption DEF Superior, TypeOK
<1>8. /\ nextNotice' \in 1 .. MaxNotices + 1
      /\ DOMAIN notifications' \subseteq 1 .. nextNotice' - 1
      /\ \A m \in DOMAIN notifications' : notifications'[m] \in NoticeRow
      /\ \A m \in DOMAIN notifications' :
           \/ m \in DOMAIN notifications /\ notifications'[m] = notifications[m]
           \/ /\ notifications'[m].kind = "request"
              /\ notifications'[m].action_id = n
  <2>1. n \in Nat /\ "request" \in NoticeKinds
    BY <1>2, BoundsAssumption DEF NoticeKinds
  <2> QED
    BY <1>1, <1>2, <1>7, <2>1, NotifyTyped
<1>9. DOMAIN asked' \subseteq DOMAIN lineage' /\ \A a \in DOMAIN asked' : asked'[a] \in Employees
  BY <1>1, <1>2, <1>4, <1>7 DEF Insert, TypeOK
<1>10. TypeOK'
  BY <1>1, <1>2, <1>3, <1>4, <1>5, <1>6, <1>8, <1>9 DEF TypeOK
<1>11. Evolves
  <2>1. HistoryGrows
    BY <1>2, <1>4 DEF HistoryGrows
  <2>2. NewRow(n)
    <3>1. type # "attendance" /\ Null \notin DOMAIN actions'
      BY <1>2, <1>4, <1>5, <1>6, <1>10 DEF AbsenceTypes, DayTypes, Null, TypeOK
    <3> QED
      BY <1>3, <1>5, <3>1 DEF NewRow
  <2>5. \A a \in DOMAIN actions : OldRow(a)
    BY <1>4, <1>5, <1>6 DEF OldRow
  <2>6. RowsEvolve
    BY <1>4, <1>5, <1>6, <2>2, <2>5 DEF RowsEvolve
  <2>3. NoticesEvolve
    BY <1>4, <1>8 DEF NoticesEvolve
  <2>4. HandlersEvolve
    BY <1>2 DEF HandlersEvolve
  <2> QED
    BY <2>1, <2>3, <2>4, <2>6 DEF Evolves
<1> QED
  BY <1>10, <1>11

LEMMA RemoveEmployeeStep ==
  ASSUME IInv, NEW u \in Employees, RemoveEmployee(u)
  PROVE  TypeOK' /\ Evolves
<1>1. /\ employees' = Delete(employees, {u})
      /\ actions' = Delete(actions, RowsOf(actions, u))
      /\ notifications' = Delete(notifications, RowsOf(notifications, u))
      /\ UNCHANGED <<handlers, nextAction, nextNotice, granted, lineage, asked>>
  BY DEF RemoveEmployee, fresh, history
<1>2. /\ DOMAIN actions' \subseteq DOMAIN actions
      /\ \A a \in DOMAIN actions' : actions'[a] = actions[a]
  BY <1>1 DEF Delete, Restrict
<1>3. /\ DOMAIN notifications' \subseteq DOMAIN notifications
      /\ \A n \in DOMAIN notifications' : notifications'[n] = notifications[n]
  BY <1>1 DEF Delete, Restrict
<1>4. /\ DOMAIN employees' \subseteq DOMAIN employees
      /\ \A e \in DOMAIN employees' : employees'[e] = employees[e]
  BY <1>1 DEF Delete, Restrict
<1>5. TypeOK'
  BY <1>1, <1>2, <1>3, <1>4 DEF IInv, TypeOK
<1>6. Evolves
  BY <1>1, <1>2, <1>3 DEF IInv, TypeOK, Evolves, HistoryGrows, RowsEvolve,
                          OldRow, NoticesEvolve, HandlersEvolve
<1> QED
  BY <1>5, <1>6

LEMMA AddHeadStep ==
  ASSUME IInv, NEW u \in Employees, NEW head \in HeadChoices, AddHead(u, head)
  PROVE  TypeOK' /\ Evolves
<1>1. /\ u \in DOMAIN employees
      /\ employees' = [employees EXCEPT ![u] = head]
      /\ UNCHANGED <<actions, notifications, handlers, nextAction, nextNotice,
                     granted, lineage, asked>>
  BY DEF AddHead, fresh, history
<1>2. TypeOK'
  BY <1>1, HeadsAssumption DEF IInv, TypeOK
<1>3. Evolves
  BY <1>1 DEF IInv, TypeOK, Evolves, HistoryGrows, RowsEvolve, OldRow,
              NoticesEvolve, HandlersEvolve
<1> QED
  BY <1>2, <1>3

LEMMA RestartStep ==
  ASSUME IInv, Restart
  PROVE  TypeOK' /\ Evolves
<1>1. /\ UNCHANGED <<employees, actions, notifications, nextAction, nextNotice,
                     granted, lineage, asked>>
      /\ handlers' = [h \in Handlers |-> Idle]
  BY DEF Restart, tables, fresh, history
<1>2. TypeOK'
  BY <1>1 DEF IInv, TypeOK, HandlerState
<1>3. Evolves
  BY <1>1 DEF IInv, TypeOK, Evolves, HistoryGrows, RowsEvolve, OldRow,
              NoticesEvolve, HandlersEvolve
<1> QED
  BY <1>2, <1>3

LEMMA CommitDenialStep ==
  ASSUME IInv, NEW h \in Handlers, CommitDenial(h)
  PROVE  TypeOK' /\ Evolves
<1> DEFINE v == handlers[h]
<1>1. /\ TypeOK
      /\ v \in VerdictState
      /\ v.action \in DOMAIN lineage
  BY LocalsOfOperation
  DEF IInv, TypeOK, CommitDenial, Agreement, LocalsAgree, Agrees, Holds
<1>2. /\ actions' = Delete(actions, {v.action})
      /\ Notify("denied", v.row.user_id, v.user, v.action, {v.notification})
      /\ handlers' = [handlers EXCEPT ![h] = Idle]
      /\ UNCHANGED <<employees, nextAction, granted, lineage, asked>>
  BY DEF CommitDenial, Become, history
<1>3. /\ DOMAIN actions' = DOMAIN actions \ {v.action}
      /\ \A a \in DOMAIN actions' : actions'[a] = actions[a]
  BY <1>2 DEF Delete, Restrict
<1>4. v.row.user_id \in Employees /\ v.user \in Employees /\ v.action \in Nat
  BY <1>1 DEF VerdictState, ActionRow
<1> HIDE DEF v
<1>5. /\ nextNotice' \in 1 .. MaxNotices + 1
      /\ DOMAIN notifications' \subseteq 1 .. nextNotice' - 1
      /\ \A n \in DOMAIN notifications' : notifications'[n] \in NoticeRow
      /\ \A n \in DOMAIN notifications' :
           \/ n \in DOMAIN notifications /\ notifications'[n] = notifications[n]
           \/ /\ notifications'[n].kind = "denied"
              /\ notifications'[n].action_id = v.action
  <2>1. "denied" \in NoticeKinds
    BY DEF NoticeKinds
  <2> QED
    BY <1>1, <1>2, <1>4, <2>1, NotifyTyped
<1>6. /\ handlers' \in [Handlers -> HandlerState]
      /\ \A g \in Handlers : handlers'[g] \in {handlers[g], Idle}
  BY <1>1, <1>2 DEF TypeOK, HandlerState
<1>7. TypeOK'
  BY <1>1, <1>2, <1>3, <1>5, <1>6 DEF TypeOK
<1>8. HistoryGrows /\ HandlersEvolve
  BY <1>2, <1>6 DEF HistoryGrows, HandlersEvolve
<1>9. RowsEvolve
  BY <1>1, <1>3 DEF TypeOK, RowsEvolve, OldRow
<1>10. NoticesEvolve
  BY <1>1, <1>2, <1>3, <1>5 DEF NoticesEvolve
<1> QED
  BY <1>7, <1>8, <1>9, <1>10 DEF Evolves

LEMMA CommitApprovalStep ==
  ASSUME IInv, NEW h \in Handlers, CommitApproval(h)
  PROVE  TypeOK' /\ Evolves
<1> DEFINE v == handlers[h]
<1>1. /\ TypeOK
      /\ v \in VerdictState
      /\ v.action \in DOMAIN lineage
      /\ v.row.type \in AbsenceTypes
      /\ v.action \in DOMAIN actions => actions[v.action].type = v.row.type
  BY LocalsOfOperation
  DEF IInv, TypeOK, CommitApproval, Agreement, LocalsAgree, Agrees, Holds
<1>2. /\ actions' = SetStatus(actions, v.action, "approved")
      /\ Notify("approved", v.row.user_id, v.user, v.action, {v.notification})
      /\ handlers' = [handlers EXCEPT ![h] = [op |-> "spawn", action |-> v.action]]
      /\ granted' = granted \cup ({v.action} \cap DOMAIN actions)
      /\ UNCHANGED <<employees, nextAction, lineage, asked>>
  BY DEF CommitApproval, Become
<1>3. v.row.user_id \in Employees /\ v.user \in Employees /\ v.action \in Nat
  BY <1>1 DEF VerdictState, ActionRow
<1> HIDE DEF v
<1>4. /\ DOMAIN actions' = DOMAIN actions
      /\ \A a \in DOMAIN actions :
           /\ actions'[a] \in ActionRow
           /\ actions'[a].type = actions[a].type
           /\ actions'[a].user_id = actions[a].user_id
           /\ actions'[a].start_date = actions[a].start_date
           /\ actions'[a].end_date = actions[a].end_date
           /\ actions'[a].underlying = actions[a].underlying
           /\ actions'[a].blocking = actions[a].blocking
           /\ actions'[a].status =
                IF a = v.action THEN "approved" ELSE actions[a].status
  BY <1>1, <1>2 DEF SetStatus, ActionRow, TypeOK
<1>5. /\ nextNotice' \in 1 .. MaxNotices + 1
      /\ DOMAIN notifications' \subseteq 1 .. nextNotice' - 1
      /\ \A n \in DOMAIN notifications' : notifications'[n] \in NoticeRow
      /\ \A n \in DOMAIN notifications' :
           \/ n \in DOMAIN notifications /\ notifications'[n] = notifications[n]
           \/ /\ notifications'[n].kind = "approved"
              /\ notifications'[n].action_id = v.action
  <2>1. "approved" \in NoticeKinds
    BY DEF NoticeKinds
  <2> QED
    BY <1>1, <1>2, <1>3, <2>1, NotifyTyped
<1>6. /\ handlers' \in [Handlers -> HandlerState]
      /\ \A g \in Handlers :
           handlers'[g] \in {handlers[g], [op |-> "spawn", action |-> v.action]}
  <2>1. [op |-> "spawn", action |-> v.action] \in HandlerState
    BY <1>3 DEF HandlerState, SpawnState
  <2> QED
    BY <1>1, <1>2, <2>1 DEF TypeOK
<1>7. TypeOK'
  BY <1>1, <1>2, <1>4, <1>5, <1>6 DEF TypeOK
<1>8. HistoryGrows /\ HandlersEvolve
  BY <1>1, <1>2, <1>6 DEF HistoryGrows, HandlersEvolve
<1>9. RowsEvolve
  BY <1>1, <1>2, <1>4 DEF TypeOK, RowsEvolve, OldRow
<1>10. NoticesEvolve
  BY <1>1, <1>2, <1>5 DEF NoticesEvolve
<1> QED
  BY <1>7, <1>8, <1>9, <1>10 DEF Evolves

LEMMA CommitAttendanceStep ==
  ASSUME IInv, NEW h \in Handlers, CommitAttendance(h)
  PROVE  TypeOK' /\ Evolves
<1> DEFINE t   == handlers[h]
           n   == nextAction
           row == NewAction("attendance", t.employee, t.from, t.to, "NULL", Null)
<1>1. /\ TypeOK
      /\ t \in AttendanceState
  BY LocalsOfOperation DEF IInv, TypeOK, CommitAttendance
<1>2. /\ n \in 1 .. MaxActions
      /\ actions' = Insert(Delete(actions, t.replaced), [a \in {n} |-> row])
      /\ Notify("attendance_added", t.employee, t.user, Null, {})
      /\ handlers' = [handlers EXCEPT ![h] = Idle]
      /\ nextAction' = n + 1
      /\ lineage' = Insert(lineage, [a \in {n} |-> {a}])
      /\ UNCHANGED <<employees, granted, asked>>
  BY <1>1, BoundsAssumption DEF CommitAttendance, Become, TypeOK
<1>3. /\ row \in ActionRow
      /\ row.type = "attendance" /\ row.status = "NULL" /\ row.underlying = Null
      /\ row.blocking = <<>>
  BY <1>1 DEF NewAction, ActionRow, ActionTypes, AttendanceState, Null
<1>4. t.employee \in Employees /\ t.user \in Employees /\ Null \in Nat
  BY <1>1 DEF AttendanceState, Null
<1> HIDE DEF row, t
<1>5. /\ nextAction' \in 1 .. MaxActions + 1
      /\ DOMAIN lineage' = 1 .. nextAction' - 1
      /\ \A a \in DOMAIN lineage' : a \in lineage'[a] /\ lineage'[a] \subseteq 1 .. a
      /\ DOMAIN lineage' = DOMAIN lineage \cup {n}
      /\ n \notin DOMAIN lineage
      /\ \A a \in DOMAIN lineage : lineage'[a] = lineage[a]
  <2> DEFINE rows == [a \in {n} |-> {a}]
  <2>1. DOMAIN rows = {n} /\ rows[n] = {n} /\ lineage' = Insert(lineage, rows)
    BY <1>2
  <2> HIDE DEF rows
  <2>2. /\ nextAction' \in nextAction .. MaxActions + 1
        /\ DOMAIN rows = nextAction .. nextAction' - 1
        /\ \A a \in DOMAIN rows : a \in rows[a] /\ rows[a] \subseteq 1 .. a
    BY <1>2, <2>1, BoundsAssumption
  <2> QED
    BY <1>1, <2>1, <2>2, FreshLineage
<1>6. /\ DOMAIN actions' \subseteq DOMAIN actions \cup {n}
      /\ actions'[n] = row
      /\ \A a \in DOMAIN actions' \ {n} : actions'[a] = actions[a]
  BY <1>2 DEF Insert, Delete, Restrict
<1>7. /\ DOMAIN actions \subseteq DOMAIN lineage
      /\ \A a \in DOMAIN actions : actions[a] \in ActionRow
  BY <1>1 DEF TypeOK
<1>8. /\ nextNotice' \in 1 .. MaxNotices + 1
      /\ DOMAIN notifications' \subseteq 1 .. nextNotice' - 1
      /\ \A m \in DOMAIN notifications' : notifications'[m] \in NoticeRow
      /\ \A m \in DOMAIN notifications' :
           \/ m \in DOMAIN notifications /\ notifications'[m] = notifications[m]
           \/ /\ notifications'[m].kind = "attendance_added"
              /\ notifications'[m].action_id = Null
  <2>1. "attendance_added" \in NoticeKinds
    BY DEF NoticeKinds
  <2> QED
    BY <1>1, <1>2, <1>4, <2>1, NotifyTyped
<1>9. /\ handlers' \in [Handlers -> HandlerState]
      /\ \A g \in Handlers : handlers'[g] \in {handlers[g], Idle}
  BY <1>1, <1>2 DEF TypeOK, HandlerState
<1>10. TypeOK'
  BY <1>1, <1>2, <1>3, <1>5, <1>6, <1>7, <1>8, <1>9 DEF TypeOK
<1>11. HistoryGrows /\ HandlersEvolve
  BY <1>2, <1>5, <1>9 DEF HistoryGrows, HandlersEvolve
<1>12. RowsEvolve
  <2>1. NewRow(n)
    <3>1. Null \notin DOMAIN actions'
      BY <1>5, <1>10 DEF Null, TypeOK
    <3> QED
      BY <1>3, <1>6, <3>1 DEF NewRow
  <2>2. \A a \in DOMAIN actions' \ {n} : a \in DOMAIN lineage /\ OldRow(a)
    BY <1>6, <1>7 DEF OldRow
  <2> QED
    BY <1>5, <2>1, <2>2 DEF RowsEvolve
<1>13. NoticesEvolve
  BY <1>8 DEF NoticesEvolve
<1> QED
  BY <1>10, <1>11, <1>12, <1>13 DEF Evolves

\* Rows carved from an action that was read: they take its type and status,
\* which the invariant vouches for even when the action has changed since.
LEMMA CarveFacts ==
  ASSUME IInv, NEW a \in DOMAIN lineage, NEW rows, NEW ids \in Seq(Nat),
         Carve(a, rows, ids), UNCHANGED granted,
         nextAction' \in nextAction .. MaxActions + 1,
         DOMAIN rows = nextAction .. nextAction' - 1,
         Range(ids) = DOMAIN rows, ids # <<>>,
         \A c \in DOMAIN rows :
           /\ rows[c] \in ActionRow
           /\ rows[c].status = "approved" => Sanctioned(a)
           /\ rows[c].type = "attendance" <=> rows[c].status = "NULL"
           /\ rows[c].underlying = a
           /\ rows[c].blocking = <<>>
  PROVE  /\ nextAction' \in 1 .. MaxActions + 1
         /\ DOMAIN lineage' = 1 .. nextAction' - 1
         /\ \A b \in DOMAIN lineage' : b \in lineage'[b] /\ lineage'[b] \subseteq 1 .. b
         /\ DOMAIN actions' \subseteq DOMAIN lineage'
         /\ \A b \in DOMAIN actions' : actions'[b] \in ActionRow
         /\ HistoryGrows
         /\ RowsEvolve
<1> DEFINE new    == [c \in DOMAIN rows |-> {c} \cup lineage[a]]
           before == Insert(actions, rows)
<1>1. /\ actions' = SetBlocking(before, a, ids)
      /\ lineage' = Insert(lineage, new)
      /\ granted' = granted
  BY DEF Carve
<1>2. /\ TypeOK
      /\ DOMAIN actions \subseteq DOMAIN lineage
      /\ nextAction \in Nat
      /\ DOMAIN lineage = 1 .. nextAction - 1
      /\ lineage[a] \subseteq 1 .. a
  <2>1. TypeOK
    BY DEF IInv
  <2>2. nextAction \in Nat /\ DOMAIN lineage = 1 .. nextAction - 1
    BY <2>1, BoundsAssumption DEF TypeOK
  <2>3. DOMAIN actions \subseteq DOMAIN lineage /\ lineage[a] \subseteq 1 .. a
    BY <2>1 DEF TypeOK
  <2> QED
    BY <2>1, <2>2, <2>3
<1>3. /\ DOMAIN new = DOMAIN rows
      /\ \A c \in DOMAIN rows : new[c] = {c} \cup lineage[a]
  OBVIOUS
<1> HIDE DEF new
<1>4. \A c \in DOMAIN rows : /\ c \in Nat /\ nextAction <= c
                            /\ c \in new[c] /\ new[c] \subseteq 1 .. c
  <2> TAKE c \in DOMAIN rows
  <2>1. new[c] = {c} \cup lineage[a]
    BY <1>3
  <2>2. c \in nextAction .. nextAction' - 1
    OBVIOUS
  <2>3. c \in Nat /\ c >= 1 /\ nextAction <= c /\ a \in Nat /\ a < c
    BY <1>2, <2>2
  <2>4. lineage[a] \subseteq 1 .. a
    BY <1>2
  <2>5. 1 .. a \subseteq 1 .. c /\ c \in 1 .. c
    BY <2>3
  <2> QED
    BY <2>1, <2>3, <2>4, <2>5
<1>5. /\ nextAction' \in 1 .. MaxActions + 1
      /\ DOMAIN lineage' = 1 .. nextAction' - 1
      /\ \A b \in DOMAIN lineage' : b \in lineage'[b] /\ lineage'[b] \subseteq 1 .. b
      /\ DOMAIN lineage' = DOMAIN lineage \cup DOMAIN rows
      /\ DOMAIN lineage \cap DOMAIN rows = {}
      /\ \A b \in DOMAIN lineage : lineage'[b] = lineage[b]
      /\ \A c \in DOMAIN rows : lineage'[c] = {c} \cup lineage[a]
  <2>1. /\ DOMAIN new = nextAction .. nextAction' - 1
        /\ \A c \in DOMAIN new : c \in new[c] /\ new[c] \subseteq 1 .. c
        /\ lineage' = Insert(lineage, new)
    BY <1>1, <1>3, <1>4
  <2>2. /\ nextAction' \in 1 .. MaxActions + 1
        /\ DOMAIN lineage' = 1 .. nextAction' - 1
        /\ \A b \in DOMAIN lineage' : b \in lineage'[b] /\ lineage'[b] \subseteq 1 .. b
        /\ DOMAIN lineage' = DOMAIN lineage \cup DOMAIN new
        /\ DOMAIN lineage \cap DOMAIN new = {}
        /\ \A b \in DOMAIN lineage : lineage'[b] = lineage[b]
        /\ \A c \in DOMAIN new : lineage'[c] = new[c]
    BY <1>2, <2>1, FreshLineage
  <2> QED
    BY <1>3, <2>2
<1>6. /\ DOMAIN before = DOMAIN actions \cup DOMAIN rows
      /\ \A c \in DOMAIN rows : before[c] = rows[c]
      /\ \A b \in DOMAIN actions : before[b] = actions[b]
  BY <1>2, <1>5 DEF Insert
<1>7. \A b \in DOMAIN before : before[b] \in ActionRow
  BY <1>2, <1>6 DEF TypeOK
<1> HIDE DEF before
<1>8. /\ DOMAIN actions' = DOMAIN before
      /\ \A b \in DOMAIN before :
           /\ actions'[b] \in ActionRow
           /\ actions'[b].type = before[b].type
           /\ actions'[b].user_id = before[b].user_id
           /\ actions'[b].start_date = before[b].start_date
           /\ actions'[b].end_date = before[b].end_date
           /\ actions'[b].underlying = before[b].underlying
           /\ actions'[b].status = before[b].status
           /\ actions'[b].blocking = IF b = a THEN ids ELSE before[b].blocking
  <2>1. DOMAIN actions' = DOMAIN before
    BY <1>1 DEF SetBlocking
  <2>2. ASSUME NEW b \in DOMAIN before
        PROVE  actions'[b] = IF b = a THEN [before[b] EXCEPT !.blocking = ids]
                                      ELSE before[b]
    BY <1>1 DEF SetBlocking
  <2>3. ASSUME NEW row \in ActionRow
        PROVE  /\ [row EXCEPT !.blocking = ids] \in ActionRow
               /\ [row EXCEPT !.blocking = ids].type = row.type
               /\ [row EXCEPT !.blocking = ids].user_id = row.user_id
               /\ [row EXCEPT !.blocking = ids].start_date = row.start_date
               /\ [row EXCEPT !.blocking = ids].end_date = row.end_date
               /\ [row EXCEPT !.blocking = ids].underlying = row.underlying
               /\ [row EXCEPT !.blocking = ids].status = row.status
               /\ [row EXCEPT !.blocking = ids].blocking = ids
    BY DEF ActionRow
  <2>4. ASSUME NEW b \in DOMAIN before
        PROVE  /\ actions'[b] \in ActionRow
               /\ actions'[b].type = before[b].type
               /\ actions'[b].user_id = before[b].user_id
               /\ actions'[b].start_date = before[b].start_date
               /\ actions'[b].end_date = before[b].end_date
               /\ actions'[b].underlying = before[b].underlying
               /\ actions'[b].status = before[b].status
               /\ actions'[b].blocking = IF b = a THEN ids ELSE before[b].blocking
    <3>1. before[b] \in ActionRow
      BY <1>7
    <3>2. CASE b = a
      <4> DEFINE row == before[b]
      <4>1. row \in ActionRow /\ actions'[b] = [row EXCEPT !.blocking = ids]
        BY <2>2, <3>1, <3>2
      <4> HIDE DEF row
      <4>2. /\ actions'[b] \in ActionRow
            /\ actions'[b].type = row.type
            /\ actions'[b].user_id = row.user_id
            /\ actions'[b].start_date = row.start_date
            /\ actions'[b].end_date = row.end_date
            /\ actions'[b].underlying = row.underlying
            /\ actions'[b].status = row.status
            /\ actions'[b].blocking = ids
        BY <2>3, <4>1
      <4> QED
        BY <3>2, <4>2 DEF row
    <3>3. CASE b # a
      BY <2>2, <3>1, <3>3
    <3> QED
      BY <3>2, <3>3
  <2> QED
    BY <2>1, <2>4
<1>9. HistoryGrows
  BY <1>1, <1>5 DEF HistoryGrows
<1>10. ASSUME NEW b \in DOMAIN actions
       PROVE  OldRow(b)
  <2>1. /\ b \in DOMAIN before /\ before[b] = actions[b]
        /\ actions'[b].type = actions[b].type
        /\ actions'[b].user_id = actions[b].user_id
        /\ actions'[b].start_date = actions[b].start_date
        /\ actions'[b].end_date = actions[b].end_date
        /\ actions'[b].underlying = actions[b].underlying
        /\ actions'[b].status = actions[b].status
    BY <1>6, <1>8
  <2>2. CASE b = a
    <3>1. actions'[b].blocking = ids
      BY <1>8, <2>1, <2>2
    <3>2. \A c \in DOMAIN rows : /\ c \in DOMAIN lineage' \ DOMAIN lineage
                                /\ actions'[c].underlying = a
      <4>1. \A c \in DOMAIN rows : c \in DOMAIN before /\ before[c].underlying = a
        BY <1>6
      <4> QED
        BY <1>5, <1>8, <4>1
    <3> QED
      BY <2>1, <2>2, <3>1, <3>2 DEF OldRow
  <2>3. CASE b # a
    BY <1>8, <2>1, <2>3 DEF OldRow
  <2> QED
    BY <2>2, <2>3
<1>11. ASSUME NEW c \in DOMAIN rows
       PROVE  NewRow(c)
  <2>1. c # a /\ c \in DOMAIN before
    BY <1>5, <1>6
  <2>2. actions'[c].status = "approved" => Sanctioned(c)'
    BY <1>1, <1>5, <1>6, <1>8, <2>1 DEF Sanctioned
  <2>3. /\ actions'[c].type = "attendance" <=> actions'[c].status = "NULL"
        /\ actions'[c].blocking = <<>>
        /\ actions'[c].underlying = a
    BY <1>6, <1>8, <2>1
  <2>4. a \in DOMAIN actions' => actions'[a].blocking # <<>>
    BY <1>8
  <2> QED
    BY <2>2, <2>3, <2>4 DEF NewRow
<1>12. RowsEvolve
  BY <1>2, <1>5, <1>6, <1>8, <1>10, <1>11 DEF RowsEvolve
<1> QED
  BY <1>2, <1>5, <1>6, <1>8, <1>9, <1>12

LEMMA CommitRescheduleStep ==
  ASSUME IInv, NEW h \in Handlers, CommitReschedule(h)
  PROVE  TypeOK' /\ Evolves
<1> DEFINE s    == handlers[h]
           n    == nextAction
           own  == s.user = s.row.user_id
           kind == IF own THEN "moved" ELSE "offered"
           sender == IF own THEN s.user ELSE Superior(s.user)
           rows == [id \in {n} |-> Moved(s)]
<1>1. /\ TypeOK
      /\ s \in RescheduleState
      /\ s.action \in DOMAIN lineage
      /\ s.row.status = "approved" => Sanctioned(s.action)
      /\ s.row.type = "attendance" <=> s.row.status = "NULL"
  BY LocalsOfOperation
  DEF IInv, TypeOK, CommitReschedule, Agreement, LocalsAgree, Agrees, Holds
<1>2. /\ n \in 1 .. MaxActions
      /\ Carve(s.action, rows, <<n>>)
      /\ Notify(kind, s.user, sender, s.action, {})
      /\ handlers' = [handlers EXCEPT ![h] = Idle]
      /\ UNCHANGED <<employees, granted, asked>>
  BY <1>1, BoundsAssumption DEF CommitReschedule, Become, TypeOK
<1>3. /\ Moved(s) \in ActionRow
      /\ Moved(s).type = s.row.type /\ Moved(s).status = s.row.status
      /\ Moved(s).underlying = s.action /\ Moved(s).blocking = <<>>
      /\ s.user \in Employees /\ s.action \in Nat
  <2>1. /\ s.row \in ActionRow /\ s.user \in Employees /\ s.action \in Nat
        /\ s.date \in Int
    BY <1>1 DEF RescheduleState
  <2> QED
    BY <2>1 DEF Moved, NewAction, ActionRow
<1>4. /\ kind \in NoticeKinds /\ kind # "denied"
      /\ sender \in Employees
  <2>1. s.user \in DOMAIN employees
    BY <1>2 DEF Notify
  <2>2. Superior(s.user) \in Employees
    BY <1>1, <1>3, <2>1 DEF Superior, TypeOK
  <2> QED
    BY <1>3, <2>2 DEF NoticeKinds
<1>5. /\ DOMAIN rows = {n} /\ rows[n] = Moved(s)
      /\ Range(<<n>>) = {n} /\ <<n>> # <<>> /\ <<n>> \in Seq(Nat) /\ Len(<<n>>) = 1
  BY <1>2 DEF Range
<1> HIDE DEF s, own, kind, sender, rows
<1>6. nextAction' = n + 1
  BY <1>2, <1>5 DEF Carve
<1>7. /\ nextAction' \in nextAction .. MaxActions + 1
      /\ DOMAIN rows = nextAction .. nextAction' - 1
  BY <1>2, <1>5, <1>6, BoundsAssumption
<1>8. \A c \in DOMAIN rows :
        /\ rows[c] \in ActionRow
        /\ rows[c].status = "approved" => Sanctioned(s.action)
        /\ rows[c].type = "attendance" <=> rows[c].status = "NULL"
        /\ rows[c].underlying = s.action
        /\ rows[c].blocking = <<>>
  BY <1>1, <1>3, <1>5
<1>9. /\ nextAction' \in 1 .. MaxActions + 1
      /\ DOMAIN lineage' = 1 .. nextAction' - 1
      /\ \A b \in DOMAIN lineage' : b \in lineage'[b] /\ lineage'[b] \subseteq 1 .. b
      /\ DOMAIN actions' \subseteq DOMAIN lineage'
      /\ \A b \in DOMAIN actions' : actions'[b] \in ActionRow
      /\ HistoryGrows
      /\ RowsEvolve
  BY <1>1, <1>2, <1>5, <1>7, <1>8, CarveFacts
<1>10. /\ nextNotice' \in 1 .. MaxNotices + 1
       /\ DOMAIN notifications' \subseteq 1 .. nextNotice' - 1
       /\ \A m \in DOMAIN notifications' : notifications'[m] \in NoticeRow
       /\ \A m \in DOMAIN notifications' :
            \/ m \in DOMAIN notifications /\ notifications'[m] = notifications[m]
            \/ /\ notifications'[m].kind = kind
               /\ notifications'[m].action_id = s.action
  BY <1>1, <1>2, <1>3, <1>4, NotifyTyped
<1>11. /\ handlers' \in [Handlers -> HandlerState]
       /\ \A g \in Handlers : handlers'[g] \in {handlers[g], Idle}
  BY <1>1, <1>2 DEF TypeOK, HandlerState
<1>12. TypeOK'
  BY <1>1, <1>2, <1>9, <1>10, <1>11 DEF TypeOK, HistoryGrows
<1>13. NoticesEvolve /\ HandlersEvolve
  BY <1>1, <1>4, <1>9, <1>10, <1>11 DEF NoticesEvolve, HandlersEvolve, HistoryGrows
<1> QED
  BY <1>9, <1>12, <1>13 DEF Evolves

LEMMA CommitSplitStep ==
  ASSUME IInv, NEW h \in Handlers, CommitSplit(h)
  PROVE  TypeOK' /\ Evolves
<1> DEFINE s    == handlers[h]
           n    == nextAction
           ids  == <<n, n + 1>>
           rows == [id \in {n, n + 1} |->
                      IF id = n THEN FirstPart(s) ELSE SecondPart(s)]
<1>1. /\ TypeOK
      /\ s \in SplitState
      /\ s.action \in DOMAIN lineage
      /\ s.row.status = "approved" => Sanctioned(s.action)
      /\ s.row.type = "attendance" <=> s.row.status = "NULL"
  BY LocalsOfOperation
  DEF IInv, TypeOK, CommitSplit, Agreement, LocalsAgree, Agrees, Holds
<1>2. /\ n \in Nat \ {0} /\ n + 1 <= MaxActions
      /\ Carve(s.action, rows, ids)
      /\ Notify("split", s.user, s.user, s.action, {})
      /\ handlers' = [handlers EXCEPT ![h] = Idle]
      /\ UNCHANGED <<employees, granted, asked>>
  BY <1>1, BoundsAssumption DEF CommitSplit, Become, TypeOK
<1>3. ASSUME NEW part \in {FirstPart(s), SecondPart(s)}
      PROVE  /\ part \in ActionRow
             /\ part.type = s.row.type /\ part.status = s.row.status
             /\ part.underlying = s.action /\ part.blocking = <<>>
  <2>1. /\ s.row \in ActionRow /\ s.user \in Employees /\ s.action \in Nat
        /\ s.date \in Int
    BY <1>1 DEF SplitState
  <2>2. s.date + Day - 1 \in Int /\ s.date + Day \in Int
    BY <2>1 DEF Day
  <2>3. CASE part = FirstPart(s)
    BY <2>1, <2>2, <2>3 DEF FirstPart, NewAction, ActionRow
  <2>4. CASE part = SecondPart(s)
    BY <2>1, <2>2, <2>4 DEF SecondPart, NewAction, ActionRow
  <2> QED
    BY <2>3, <2>4
<1>4. s.user \in Employees /\ s.action \in Nat /\ "split" \in NoticeKinds
  BY <1>1 DEF SplitState, NoticeKinds
<1>5. /\ DOMAIN rows = {n, n + 1}
      /\ \A c \in DOMAIN rows : rows[c] \in {FirstPart(s), SecondPart(s)}
      /\ ids # <<>> /\ ids \in Seq(Nat) /\ Len(ids) = 2
  BY <1>2
<1>6. Range(ids) = {n, n + 1}
  <2>1. DOMAIN ids = {1, 2} /\ ids[1] = n /\ ids[2] = n + 1
    OBVIOUS
  <2> QED
    BY <2>1 DEF Range
<1> HIDE DEF s, rows, ids
<1>7. nextAction' = n + 2
  BY <1>2, <1>5 DEF Carve
<1>8. /\ nextAction' \in nextAction .. MaxActions + 1
      /\ DOMAIN rows = nextAction .. nextAction' - 1
  BY <1>2, <1>5, <1>7, BoundsAssumption
<1>9. \A c \in DOMAIN rows :
        /\ rows[c] \in ActionRow
        /\ rows[c].status = "approved" => Sanctioned(s.action)
        /\ rows[c].type = "attendance" <=> rows[c].status = "NULL"
        /\ rows[c].underlying = s.action
        /\ rows[c].blocking = <<>>
  BY <1>1, <1>3, <1>5
<1>10. /\ nextAction' \in 1 .. MaxActions + 1
       /\ DOMAIN lineage' = 1 .. nextAction' - 1
       /\ \A b \in DOMAIN lineage' : b \in lineage'[b] /\ lineage'[b] \subseteq 1 .. b
       /\ DOMAIN actions' \subseteq DOMAIN lineage'
       /\ \A b \in DOMAIN actions' : actions'[b] \in ActionRow
       /\ HistoryGrows
       /\ RowsEvolve
  <2>1. /\ s.action \in DOMAIN lineage
        /\ Carve(s.action, rows, ids) /\ granted' = granted
    BY <1>1, <1>2
  <2>2. Range(ids) = DOMAIN rows /\ ids # <<>> /\ ids \in Seq(Nat)
    BY <1>5, <1>6
  <2> QED
    BY <1>8, <1>9, <2>1, <2>2, CarveFacts
<1>11. /\ nextNotice' \in 1 .. MaxNotices + 1
       /\ DOMAIN notifications' \subseteq 1 .. nextNotice' - 1
       /\ \A m \in DOMAIN notifications' : notifications'[m] \in NoticeRow
       /\ \A m \in DOMAIN notifications' :
            \/ m \in DOMAIN notifications /\ notifications'[m] = notifications[m]
            \/ /\ notifications'[m].kind = "split"
               /\ notifications'[m].action_id = s.action
  BY <1>1, <1>2, <1>4, NotifyTyped
<1>12. /\ handlers' \in [Handlers -> HandlerState]
       /\ \A g \in Handlers : handlers'[g] \in {handlers[g], Idle}
  BY <1>1, <1>2 DEF TypeOK, HandlerState
<1>13. TypeOK'
  BY <1>1, <1>2, <1>10, <1>11, <1>12 DEF TypeOK, HistoryGrows
<1>14. NoticesEvolve /\ HandlersEvolve
  BY <1>1, <1>10, <1>11, <1>12 DEF NoticesEvolve, HandlersEvolve, HistoryGrows
<1> QED
  BY <1>10, <1>13, <1>14 DEF Evolves

----------------------------------------------------------------------------
(* The theorems *)

LEMMA NextIInv ==
  ASSUME IInv, [Next]_vars
  PROVE  IInv'
<1>1. ASSUME NEW u \in Employees, NEW type \in RequestTypes,
             NEW from \in Instants, NEW to \in Instants,
             Request(u, type, from, to)
      PROVE  IInv'
  BY <1>1, RequestStep, EvolvesIInv
<1>2. ASSUME NEW h \in Handlers, LocalStep(h)
      PROVE  IInv'
  BY <1>2, LocalStepIInv
<1>3. ASSUME NEW h \in Handlers, CommitApproval(h)
      PROVE  IInv'
  BY <1>3, CommitApprovalStep, EvolvesIInv
<1>4. ASSUME NEW h \in Handlers, CommitDenial(h)
      PROVE  IInv'
  BY <1>4, CommitDenialStep, EvolvesIInv
<1>5. ASSUME NEW h \in Handlers, CommitSplit(h)
      PROVE  IInv'
  BY <1>5, CommitSplitStep, EvolvesIInv
<1>6. ASSUME NEW h \in Handlers, CommitReschedule(h)
      PROVE  IInv'
  BY <1>6, CommitRescheduleStep, EvolvesIInv
<1>7. ASSUME NEW h \in Handlers, CommitAttendance(h)
      PROVE  IInv'
  BY <1>7, CommitAttendanceStep, EvolvesIInv
<1>8. ASSUME NEW u \in Employees, NEW head \in HeadChoices, AddHead(u, head)
       PROVE  IInv'
  BY <1>8, AddHeadStep, EvolvesIInv
<1>9. ASSUME NEW u \in Employees, RemoveEmployee(u)
      PROVE  IInv'
  BY <1>9, RemoveEmployeeStep, EvolvesIInv
<1>10. CASE Restart
  BY <1>10, RestartStep, EvolvesIInv
<1>11. CASE UNCHANGED vars
  BY <1>11 DEF vars, tables, fresh, history, IInv, TypeOK, Agreement, LocalsAgree,
              Agrees, Sanctioned, ApprovalProvenance, OnlyAbsencesAreJudged,
              IdsAreKnown, DenialIsFinal, CarvingLinks, Holds
<1> QED
  BY <1>1, <1>2, <1>3, <1>4, <1>5, <1>6, <1>7, <1>9, <1>10,
     <1>11, <1>8
  DEF Next, Requests, Calls, Commits, LocalStep

\* The inductive invariant holds of every reachable state.
THEOREM Invariance == Spec => []IInv
<1>1. Init => IInv
  BY InitIInv
<1>2. IInv /\ [Next]_vars => IInv'
  BY NextIInv
<1> QED
  BY <1>1, <1>2, PTL DEF Spec

\* Tables, ids and handler locals are well-formed, however many handlers run
\* and whichever statements fail.
THEOREM TypeCorrectness == Spec => []TypeOK
<1>1. IInv => TypeOK
  BY DEF IInv
<1> QED
  BY <1>1, Invariance, PTL

\* No approved absence without a verdict that approved it or an absence it was
\* carved from.
THEOREM ApprovalsComeFromVerdicts == Spec => []ApprovalProvenance
<1>1. IInv => ApprovalProvenance
  BY DEF IInv, Agreement
<1> QED
  BY <1>1, Invariance, PTL

\* A denied request never comes back, whatever had read it before the denial.
THEOREM DenialsAreFinal == Spec => []DenialIsFinal
<1>1. IInv => DenialIsFinal
  BY DEF IInv
<1> QED
  BY <1>1, Invariance, PTL

\* underlying_action_id and blocking_actions_ids agree under any interleaving.
THEOREM CarvingLinksAgree == Spec => []CarvingLinks
<1>1. IInv => CarvingLinks
  BY DEF IInv
<1> QED
  BY <1>1, Invariance, PTL

\* Verdicts reach absences only.
THEOREM AttendanceIsNeverJudged == Spec => []OnlyAbsencesAreJudged
<1>1. IInv => OnlyAbsencesAreJudged
  BY DEF IInv, Agreement
<1> QED
  BY <1>1, Invariance, PTL
=============================================================================
