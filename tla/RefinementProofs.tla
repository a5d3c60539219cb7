-------------------------- MODULE RefinementProofs --------------------------
(***************************************************************************)
(* Absence implements AbsenceLifecycle for any number of employees,        *)
(* handlers, actions and notifications: its initial state maps to the      *)
(* lifecycle's, and each step to a step of the lifecycle or to none.       *)
(***************************************************************************)
EXTENDS AbsenceRefinement, AbsenceProofs

\* What a call of /v1/attendance/add will delete is attendance records, or gone
\* by then.  The lifecycle lets a new record replace nothing else.
ReplacedAreLogged ==
  \A h \in Handlers : handlers[h].op = "attendance" =>
    \A a \in handlers[h].replaced :
      /\ a \in DOMAIN lineage
      /\ a \in DOMAIN actions => actions[a].type = "attendance"

----------------------------------------------------------------------------
(* The invariant the mapping needs *)

\* Handlers that commit hold nothing to delete, and no row changes its type.
LEMMA EvolvesReplaced ==
  ASSUME ReplacedAreLogged, Evolves
  PROVE  ReplacedAreLogged'
<1>1. ASSUME NEW h \in Handlers, handlers'[h].op = "attendance"
      PROVE  handlers'[h] = handlers[h]
  BY <1>1 DEF Evolves, HandlersEvolve, Idle
<1> QED
  BY <1>1 DEF ReplacedAreLogged, Evolves, HistoryGrows, RowsEvolve, OldRow

\* What a call reads at its start is attendance records.
LEMMA LocalStepReplaced ==
  ASSUME TypeOK, ReplacedAreLogged, NEW h \in Handlers, LocalStep(h)
  PROVE  ReplacedAreLogged'
<1>1. /\ UNCHANGED <<tables, fresh, history>>
      /\ handlers' = [handlers EXCEPT ![h] = handlers'[h]]
  BY LocalStepFacts
<1>2. actions' = actions /\ lineage' = lineage
  BY <1>1 DEF tables, history
<1>3. ASSUME NEW a \in handlers'[h].replaced, handlers'[h].op = "attendance"
      PROVE  a \in DOMAIN actions /\ actions[a].type = "attendance"
  <2>1. PICK caller \in Judges, u \in Employees, from \in Instants, to \in Instants :
          BeginAttendance(h, caller, u, from, to)
    BY <1>3 DEF LocalStep, BeginVerdict, BeginSplit, BeginReschedule, Spawn, Abort,
       Become, TypeOK, Idle
  <2>2. handlers'[h].replaced = AttendanceOn(u, DayOf(from))
    BY <2>1 DEF BeginAttendance, Become, TypeOK
  <2> QED
    BY <1>3, <2>2 DEF AttendanceOn
<1>4. handlers' = [g \in Handlers |-> IF g = h THEN handlers'[h] ELSE handlers[g]]
  BY <1>1 DEF TypeOK
<1>5. DOMAIN actions \subseteq DOMAIN lineage
  BY DEF TypeOK
<1> QED
  BY <1>2, <1>3, <1>4, <1>5 DEF ReplacedAreLogged

----------------------------------------------------------------------------
(* Steps of the lifecycle, action by action *)

\* What is known of ids and phases in every state.
LEMMA Ids ==
  ASSUME TypeOK
  PROVE  /\ DOMAIN lineage \subseteq ActionIds
         /\ DOMAIN actions \subseteq DOMAIN lineage
         /\ \A a \in DOMAIN actions :
              actions[a].status \in {"NULL", "pending", "approved"}
         /\ \A a \in ActionIds : PhaseOf(a) # "unborn" <=> a \in DOMAIN lineage
<1>1. DOMAIN lineage \subseteq ActionIds
  <2>1. /\ nextAction \in Int /\ MaxActions \in Int
        /\ nextAction <= MaxActions + 1
        /\ DOMAIN lineage = 1 .. nextAction - 1
    BY BoundsAssumption DEF TypeOK
  <2> QED
    BY <2>1 DEF ActionIds
<1>2. /\ DOMAIN actions \subseteq DOMAIN lineage
      /\ \A a \in DOMAIN actions :
           actions[a].status \in {"NULL", "pending", "approved"}
  BY DEF TypeOK, ActionRow
<1>3. \A a \in ActionIds : PhaseOf(a) # "unborn" <=> a \in DOMAIN lineage
  BY <1>2 DEF PhaseOf
<1> QED
  BY <1>1, <1>2, <1>3

LEMMA Stutters ==
  ASSUME actions' = actions, lineage' = lineage, granted' = granted
  PROVE  UNCHANGED L!vars
BY DEF L!vars, PhaseOf, FamilyOf

LEMMA Asks ==
  ASSUME NEW n \in ActionIds, PhaseOf(n) = "unborn", granted' = granted,
         \A a \in ActionIds :
           /\ PhaseOf(a)' = IF a = n THEN "pending" ELSE PhaseOf(a)
           /\ FamilyOf(a)' = IF a = n THEN {n} ELSE FamilyOf(a)
  PROVE  L!Next
<1>1. L!Ask(n)
  BY DEF L!Ask, L!Born, L!Enter
<1> QED
  BY <1>1 DEF L!Next

LEMMA Approves ==
  ASSUME NEW n \in ActionIds, PhaseOf(n) \in {"pending", "approved"},
         granted' = granted \cup {n},
         \A a \in ActionIds :
           /\ PhaseOf(a)' = IF a = n THEN "approved" ELSE PhaseOf(a)
           /\ FamilyOf(a)' = FamilyOf(a)
  PROVE  L!Next
<1>1. L!Approve(n)
  BY DEF L!Approve, L!Enter
<1> QED
  BY <1>1 DEF L!Next

LEMMA Discards ==
  ASSUME NEW gone \in SUBSET ActionIds,
         \A a \in gone : PhaseOf(a) # "unborn",
         granted' = granted,
         \A a \in ActionIds :
           /\ PhaseOf(a)' = IF a \in gone THEN "gone" ELSE PhaseOf(a)
           /\ FamilyOf(a)' = FamilyOf(a)
  PROVE  L!Next
<1>1. L!Discard(gone)
  BY DEF L!Discard, L!Enter
<1>2. gone \in SUBSET {a \in ActionIds : L!Born(a)}
  BY DEF L!Born
<1> QED
  BY <1>1, <1>2 DEF L!Next

LEMMA Logs ==
  ASSUME NEW n \in ActionIds, PhaseOf(n) = "unborn",
         NEW replaced \in SUBSET ActionIds,
         \A a \in replaced : PhaseOf(a) \in {"logged", "gone"},
         granted' = granted,
         \A a \in ActionIds :
           /\ PhaseOf(a)' = IF a = n THEN "logged"
                            ELSE IF a \in replaced THEN "gone"
                            ELSE PhaseOf(a)
           /\ FamilyOf(a)' = IF a = n THEN {n} ELSE FamilyOf(a)
  PROVE  L!Next
<1>1. L!Log(n, replaced)
  BY DEF L!Log, L!Born
<1>2. replaced \in SUBSET {a \in {b \in ActionIds : L!Born(b)} :
                             [b \in ActionIds |-> PhaseOf(b)][a] \in {"logged", "gone"}}
  BY DEF L!Born
<1> QED
  BY <1>1, <1>2 DEF L!Next

LEMMA Carves ==
  ASSUME NEW p \in ActionIds, PhaseOf(p) # "unborn",
         NEW parts \in SUBSET ActionIds, \A a \in parts : PhaseOf(a) = "unborn",
         NEW q \in {"pending", "logged", "approved"},
         q = "approved" => FamilyOf(p) \cap granted # {},
         granted' = granted,
         \A a \in ActionIds :
           /\ PhaseOf(a)' = IF a \in parts THEN q ELSE PhaseOf(a)
           /\ FamilyOf(a)' = IF a \in parts THEN {a} \cup FamilyOf(p)
                             ELSE FamilyOf(a)
  PROVE  L!Next
<1>1. L!Carve(p, parts, q)
  BY DEF L!Carve, L!Enter
<1>2. /\ p \in {a \in ActionIds : L!Born(a)}
      /\ parts \in SUBSET (ActionIds \ {a \in ActionIds : L!Born(a)})
  BY DEF L!Born
<1> QED
  BY <1>1, <1>2 DEF L!Next

----------------------------------------------------------------------------
(* Steps of Absence, each mapped to one of these *)

\* Rows with fresh ids, seen as lineages.
LEMMA FreshFamilies ==
  ASSUME TypeOK, TypeOK', NEW rows,
         nextAction' \in nextAction .. MaxActions + 1,
         DOMAIN rows = nextAction .. nextAction' - 1,
         lineage' = Insert(lineage, rows)
  PROVE  /\ DOMAIN rows \in SUBSET ActionIds
         /\ DOMAIN rows \cap DOMAIN lineage = {}
         /\ DOMAIN lineage' = DOMAIN lineage \cup DOMAIN rows
         /\ \A a \in DOMAIN rows : PhaseOf(a) = "unborn"
         /\ \A a \in ActionIds :
              FamilyOf(a)' = IF a \in DOMAIN rows THEN rows[a] ELSE FamilyOf(a)
<1>1. DOMAIN lineage' = DOMAIN lineage \cup DOMAIN rows
  BY DEF Insert
<1>2. DOMAIN rows \in SUBSET ActionIds
  <2>1. DOMAIN lineage' = 1 .. nextAction' - 1
    BY DEF TypeOK
  <2>2. /\ nextAction \in Int /\ MaxActions \in Int
        /\ nextAction' \in Int /\ nextAction' <= MaxActions + 1
    BY BoundsAssumption DEF TypeOK
  <2>3. \A a \in DOMAIN rows : a \in Int /\ 1 <= a /\ a < nextAction'
    BY <1>1, <2>1, <2>2
  <2>4. \A a \in DOMAIN rows : a <= MaxActions
    BY <2>2, <2>3
  <2>5. \A a \in DOMAIN rows : a \in ActionIds
    BY <2>2, <2>3, <2>4 DEF ActionIds
  <2> QED
    BY <2>5, Zenon
<1>3. DOMAIN rows \cap DOMAIN lineage = {}
  <2>1. /\ nextAction \in Int /\ nextAction' \in Int
        /\ DOMAIN lineage = 1 .. nextAction - 1
    BY BoundsAssumption DEF TypeOK
  <2>2. \A a \in DOMAIN lineage : a \in Int /\ a < nextAction
    BY <2>1
  <2>3. \A a \in DOMAIN rows : a \in Int /\ nextAction <= a
    BY <2>1
  <2>4. \A a \in DOMAIN rows : a \notin DOMAIN lineage
    BY <2>1, <2>2, <2>3
  <2> QED
    BY <2>4
<1>4. \A a \in DOMAIN rows : PhaseOf(a) = "unborn"
  BY <1>3 DEF PhaseOf
<1>5. \A a \in ActionIds :
        FamilyOf(a)' = IF a \in DOMAIN rows THEN rows[a] ELSE FamilyOf(a)
  BY <1>1 DEF FamilyOf, Insert
<1> QED
  BY <1>1, <1>2, <1>3, <1>4, <1>5

LEMMA RequestMaps ==
  ASSUME IInv, TypeOK', NEW u \in Employees, NEW type \in RequestTypes,
         NEW from \in Instants, NEW to \in Instants, Request(u, type, from, to)
  PROVE  L!Next
<1> DEFINE n    == nextAction
           row  == NewAction(type, u, StartOf(type, from), EndOf(type, to),
                             "pending", Null)
           rows == [a \in {n} |-> {a}]
<1>1. /\ TypeOK
      /\ actions' = Insert(actions, [a \in {n} |-> row])
      /\ nextAction' = n + 1
      /\ lineage' = Insert(lineage, rows)
      /\ granted' = granted
      /\ row.status = "pending"
  BY DEF Request, IInv, NewAction
<1>2. DOMAIN rows = {n} /\ rows[n] = {n} /\ n \in DOMAIN rows
  OBVIOUS
<1> HIDE DEF row, rows
<1>3. /\ nextAction' \in nextAction .. MaxActions + 1
      /\ DOMAIN rows = nextAction .. nextAction' - 1
  BY <1>1, <1>2, BoundsAssumption DEF TypeOK
<1>4. /\ n \in ActionIds
      /\ n \notin DOMAIN lineage
      /\ DOMAIN lineage' = DOMAIN lineage \cup {n}
      /\ PhaseOf(n) = "unborn"
      /\ \A a \in ActionIds : FamilyOf(a)' = IF a = n THEN {n} ELSE FamilyOf(a)
  BY <1>1, <1>2, <1>3, FreshFamilies
<1>5. /\ DOMAIN actions' = DOMAIN actions \cup {n}
      /\ actions'[n] = row
      /\ \A a \in DOMAIN actions \ {n} : actions'[a] = actions[a]
  BY <1>1 DEF Insert
<1>6. \A a \in ActionIds :
        PhaseOf(a)' = IF a = n THEN "pending" ELSE PhaseOf(a)
  BY <1>1, <1>4, <1>5 DEF PhaseOf
<1> QED
  BY <1>1, <1>4, <1>6, Asks

LEMMA CommitAttendanceMaps ==
  ASSUME IInv, TypeOK', ReplacedAreLogged, NEW h \in Handlers, CommitAttendance(h)
  PROVE  L!Next
<1> DEFINE n        == nextAction
           t        == handlers[h]
           replaced == t.replaced
           row      == NewAction("attendance", t.employee, t.from, t.to, "NULL", Null)
           rows     == [a \in {n} |-> {a}]
<1>1. /\ TypeOK
      /\ t.op = "attendance"
      /\ actions' = Insert(Delete(actions, replaced), [a \in {n} |-> row])
      /\ nextAction' = n + 1
      /\ lineage' = Insert(lineage, rows)
      /\ granted' = granted
      /\ row.status = "NULL"
  BY DEF CommitAttendance, IInv, NewAction
<1>2. DOMAIN rows = {n} /\ rows[n] = {n} /\ n \in DOMAIN rows
  OBVIOUS
<1>3. \A a \in replaced :
        /\ a \in DOMAIN lineage
        /\ a \in DOMAIN actions => actions[a].status = "NULL"
  BY <1>1 DEF ReplacedAreLogged, IInv, Agreement, OnlyAbsencesAreJudged
<1> HIDE DEF row, rows, replaced
<1>4. /\ nextAction' \in nextAction .. MaxActions + 1
      /\ DOMAIN rows = nextAction .. nextAction' - 1
  BY <1>1, <1>2, BoundsAssumption DEF TypeOK
<1>5. /\ n \in ActionIds
      /\ n \notin DOMAIN lineage
      /\ DOMAIN lineage' = DOMAIN lineage \cup {n}
      /\ PhaseOf(n) = "unborn"
      /\ \A a \in ActionIds : FamilyOf(a)' = IF a = n THEN {n} ELSE FamilyOf(a)
  BY <1>1, <1>2, <1>4, FreshFamilies
<1>6. /\ DOMAIN actions' = (DOMAIN actions \ replaced) \cup {n}
      /\ actions'[n] = row
      /\ \A a \in DOMAIN actions \ (replaced \cup {n}) : actions'[a] = actions[a]
  BY <1>1 DEF Insert, Delete, Restrict
<1>7. \A a \in ActionIds :
        PhaseOf(a)' = IF a = n THEN "logged"
                      ELSE IF a \in replaced THEN "gone" ELSE PhaseOf(a)
  BY <1>1, <1>3, <1>5, <1>6 DEF PhaseOf
<1>8. replaced \in SUBSET ActionIds
  BY <1>1, <1>3, Ids
<1>9. \A a \in replaced : PhaseOf(a) \in {"logged", "gone"}
  BY <1>3 DEF PhaseOf
<1> QED
  BY <1>1, <1>5, <1>7, <1>8, <1>9, Logs

LEMMA CommitApprovalMaps ==
  ASSUME IInv, NEW h \in Handlers, CommitApproval(h)
  PROVE  [L!Next]_L!vars
<1> DEFINE n == handlers[h].action
<1>1. /\ TypeOK
      /\ actions' = SetStatus(actions, n, "approved")
      /\ granted' = granted \cup ({n} \cap DOMAIN actions)
      /\ lineage' = lineage
  BY DEF CommitApproval, IInv
<1>2. n \in DOMAIN actions => actions[n].status \in {"pending", "approved"}
  <2>1. n \in DOMAIN actions => actions[n].type \in AbsenceTypes
    BY DEF CommitApproval, IInv, Agreement, LocalsAgree, Agrees, Holds
  <2>2. "attendance" \notin AbsenceTypes
    BY DEF AbsenceTypes, DayTypes
  <2> QED
    BY <1>1, <2>1, <2>2, Ids DEF IInv, Agreement, OnlyAbsencesAreJudged
<1> HIDE DEF n
<1>3. CASE n \notin DOMAIN actions
  <2>1. granted' = granted
    BY <1>1, <1>3
  <2>2. \A a \in ActionIds : PhaseOf(a)' = PhaseOf(a) /\ FamilyOf(a)' = FamilyOf(a)
    BY <1>1, <1>3 DEF SetStatus, PhaseOf, FamilyOf
  <2> QED
    BY <2>1, <2>2 DEF L!vars
<1>4. CASE n \in DOMAIN actions
  <2>1. n \in ActionIds /\ n \in DOMAIN lineage
    BY <1>1, <1>4, Ids
  <2>2. PhaseOf(n) \in {"pending", "approved"}
    BY <1>2, <1>4, <2>1 DEF PhaseOf
  <2>3. /\ DOMAIN actions' = DOMAIN actions
        /\ \A a \in DOMAIN actions :
             actions'[a].status = IF a = n THEN "approved" ELSE actions[a].status
    BY <1>1 DEF SetStatus, TypeOK, ActionRow
  <2>4. \A a \in ActionIds :
          /\ PhaseOf(a)' = IF a = n THEN "approved" ELSE PhaseOf(a)
          /\ FamilyOf(a)' = FamilyOf(a)
    BY <1>1, <1>4, <2>1, <2>3 DEF PhaseOf, FamilyOf
  <2>5. granted' = granted \cup {n}
    BY <1>1, <1>4
  <2> QED
    BY <2>1, <2>2, <2>4, <2>5, Approves
<1> QED
  BY <1>3, <1>4

\* A denial and a removal.
LEMMA DeleteMaps ==
  ASSUME TypeOK, NEW gone, gone \subseteq DOMAIN lineage,
         actions' = Delete(actions, gone), lineage' = lineage, granted' = granted
  PROVE  L!Next
<1>1. /\ DOMAIN actions' = DOMAIN actions \ gone
      /\ \A a \in DOMAIN actions' : actions'[a] = actions[a]
  BY DEF Delete, Restrict
<1>2. \A a \in ActionIds :
        /\ PhaseOf(a)' = IF a \in gone THEN "gone" ELSE PhaseOf(a)
        /\ FamilyOf(a)' = FamilyOf(a)
  BY <1>1 DEF PhaseOf, FamilyOf
<1>3. gone \in SUBSET ActionIds /\ \A a \in gone : PhaseOf(a) # "unborn"
  BY Ids
<1> QED
  BY <1>2, <1>3, Discards

LEMMA CarveMaps ==
  ASSUME IInv, TypeOK', NEW p \in DOMAIN lineage, NEW rows, NEW ids, NEW status,
         status \in {"NULL", "pending", "approved"},
         Carve(p, rows, ids), granted' = granted,
         nextAction' \in nextAction .. MaxActions + 1,
         DOMAIN rows = nextAction .. nextAction' - 1,
         \A a \in DOMAIN rows : rows[a] \in ActionRow /\ rows[a].status = status,
         status = "approved" => Sanctioned(p)
  PROVE  L!Next
<1> DEFINE q      == IF status = "NULL" THEN "logged" ELSE status
           lines  == [a \in DOMAIN rows |-> {a} \cup lineage[p]]
           before == Insert(actions, rows)
<1>1. /\ TypeOK
      /\ actions' = SetBlocking(before, p, ids)
      /\ lineage' = Insert(lineage, lines)
      /\ DOMAIN lines = DOMAIN rows
      /\ \A a \in DOMAIN rows : lines[a] = {a} \cup lineage[p]
  BY DEF Carve, IInv
<1> HIDE DEF lines
<1>2. /\ DOMAIN rows \in SUBSET ActionIds
      /\ DOMAIN rows \cap DOMAIN lineage = {}
      /\ DOMAIN lineage' = DOMAIN lineage \cup DOMAIN rows
      /\ \A a \in DOMAIN rows : PhaseOf(a) = "unborn"
      /\ \A a \in ActionIds :
           FamilyOf(a)' = IF a \in DOMAIN rows THEN lines[a] ELSE FamilyOf(a)
  BY <1>1, FreshFamilies
<1>3. FamilyOf(p) = lineage[p] /\ p \in ActionIds /\ PhaseOf(p) # "unborn"
  BY <1>1, Ids DEF FamilyOf
<1>4. /\ DOMAIN before = DOMAIN actions \cup DOMAIN rows
      /\ \A a \in DOMAIN rows : before[a] = rows[a]
      /\ \A a \in DOMAIN actions : before[a] = actions[a]
      /\ \A a \in DOMAIN before : before[a] \in ActionRow
  BY <1>1, <1>2, Ids DEF Insert, TypeOK
<1> HIDE DEF before
<1>5. /\ DOMAIN actions' = DOMAIN before
      /\ \A a \in DOMAIN before : actions'[a].status = before[a].status
  BY <1>1, <1>4 DEF SetBlocking, ActionRow
<1>6. \A a \in ActionIds : PhaseOf(a)' = IF a \in DOMAIN rows THEN q ELSE PhaseOf(a)
  BY <1>2, <1>4, <1>5 DEF PhaseOf
<1>7. \A a \in ActionIds :
        FamilyOf(a)' = IF a \in DOMAIN rows THEN {a} \cup FamilyOf(p) ELSE FamilyOf(a)
  BY <1>1, <1>2, <1>3
<1>8. /\ q \in {"pending", "logged", "approved"}
      /\ q = "approved" => FamilyOf(p) \cap granted # {}
  BY <1>3 DEF Sanctioned
<1> HIDE DEF q
<1> QED
  BY <1>2, <1>3, <1>6, <1>7, <1>8, Carves

\* What a handler read of the action it carves from.
LEMMA ReadBefore ==
  ASSUME IInv, NEW h \in Handlers, handlers[h].op \in {"split", "reschedule"}
  PROVE  /\ handlers[h] \in SplitState \cup RescheduleState
         /\ handlers[h].action \in DOMAIN lineage
         /\ handlers[h].row.status = "approved" => Sanctioned(handlers[h].action)
         /\ handlers[h].row.status \in {"NULL", "pending", "approved"}
BY LocalsOfOperation
DEF IInv, TypeOK, Agreement, LocalsAgree, Agrees, Holds, SplitState,
    RescheduleState, ActionRow

LEMMA CommitSplitMaps ==
  ASSUME IInv, TypeOK', NEW h \in Handlers, CommitSplit(h)
  PROVE  L!Next
<1> DEFINE s    == handlers[h]
           n    == nextAction
           ids  == <<n, n + 1>>
           rows == [id \in {n, n + 1} |->
                      IF id = n THEN FirstPart(s) ELSE SecondPart(s)]
<1>1. /\ s.op = "split"
      /\ n + 1 <= MaxActions
      /\ Carve(s.action, rows, ids)
      /\ granted' = granted
  BY DEF CommitSplit
<1>2. /\ s \in SplitState
      /\ s.action \in DOMAIN lineage
      /\ s.row.status = "approved" => Sanctioned(s.action)
      /\ s.row.status \in {"NULL", "pending", "approved"}
  BY <1>1, ReadBefore, LocalsOfOperation DEF IInv, TypeOK
<1>3. ASSUME NEW part \in {FirstPart(s), SecondPart(s)}
      PROVE  part \in ActionRow /\ part.status = s.row.status
  <2>1. /\ s.row \in ActionRow /\ s.user \in Employees /\ s.action \in Nat
        /\ s.date \in Int
    BY <1>2 DEF SplitState
  <2>2. s.date + Day - 1 \in Int /\ s.date + Day \in Int
    BY <2>1 DEF Day
  <2>3. CASE part = FirstPart(s)
    BY <2>1, <2>2, <2>3 DEF FirstPart, NewAction, ActionRow
  <2>4. CASE part = SecondPart(s)
    BY <2>1, <2>2, <2>4 DEF SecondPart, NewAction, ActionRow
  <2> QED
    BY <2>3, <2>4
<1>4. DOMAIN rows = {n, n + 1} /\ Len(ids) = 2
  OBVIOUS
<1>5. \A c \in DOMAIN rows : rows[c] \in ActionRow /\ rows[c].status = s.row.status
  BY <1>3
<1> HIDE DEF s, rows, ids
<1>6. /\ nextAction' \in nextAction .. MaxActions + 1
      /\ DOMAIN rows = nextAction .. nextAction' - 1
  <2>1. n \in Int /\ MaxActions \in Int
    BY BoundsAssumption DEF IInv, TypeOK
  <2>2. nextAction' = n + 2
    BY <1>1, <1>4 DEF Carve
  <2> QED
    BY <1>1, <1>4, <2>1, <2>2
<1> QED
  BY <1>1, <1>2, <1>5, <1>6, CarveMaps

LEMMA CommitRescheduleMaps ==
  ASSUME IInv, TypeOK', NEW h \in Handlers, CommitReschedule(h)
  PROVE  L!Next
<1> DEFINE s    == handlers[h]
           n    == nextAction
           ids  == <<n>>
           rows == [id \in {n} |-> Moved(s)]
<1>1. /\ s.op = "reschedule"
      /\ n <= MaxActions
      /\ Carve(s.action, rows, ids)
      /\ granted' = granted
  BY DEF CommitReschedule
<1>2. /\ s \in RescheduleState
      /\ s.action \in DOMAIN lineage
      /\ s.row.status = "approved" => Sanctioned(s.action)
      /\ s.row.status \in {"NULL", "pending", "approved"}
  BY <1>1, ReadBefore, LocalsOfOperation DEF IInv, TypeOK
<1>3. Moved(s) \in ActionRow /\ Moved(s).status = s.row.status
  <2>1. /\ s.row \in ActionRow /\ s.user \in Employees /\ s.action \in Nat
        /\ s.date \in Int
    BY <1>2 DEF RescheduleState
  <2> QED
    BY <2>1 DEF Moved, NewAction, ActionRow
<1>4. DOMAIN rows = {n} /\ Len(ids) = 1
  OBVIOUS
<1>5. \A c \in DOMAIN rows : rows[c] \in ActionRow /\ rows[c].status = s.row.status
  BY <1>3
<1> HIDE DEF s, rows, ids
<1>6. /\ nextAction' \in nextAction .. MaxActions + 1
      /\ DOMAIN rows = nextAction .. nextAction' - 1
  <2>1. n \in Int /\ MaxActions \in Int
    BY BoundsAssumption DEF IInv, TypeOK
  <2>2. nextAction' = n + 1
    BY <1>1, <1>4 DEF Carve
  <2> QED
    BY <1>1, <1>4, <2>1, <2>2
<1> QED
  BY <1>1, <1>2, <1>5, <1>6, CarveMaps

----------------------------------------------------------------------------
(* The theorem *)

LEMMA InitMaps == Init => L!Init /\ ReplacedAreLogged
<1> SUFFICES ASSUME Init PROVE L!Init /\ ReplacedAreLogged
  OBVIOUS
<1>1. DOMAIN lineage = {} /\ granted = {}
  BY DEF Init, EmptyTable
<1>2. L!Init
  BY <1>1 DEF L!Init, PhaseOf, FamilyOf
<1>3. ReplacedAreLogged
  BY DEF Init, Idle, ReplacedAreLogged
<1> QED
  BY <1>2, <1>3

LEMMA NextMaps ==
  ASSUME IInv, ReplacedAreLogged, [Next]_vars
  PROVE  [L!Next]_L!vars /\ ReplacedAreLogged'
<1>0. TypeOK /\ TypeOK'
  BY NextIInv DEF IInv
<1>1. ASSUME NEW u \in Employees, NEW type \in RequestTypes,
             NEW from \in Instants, NEW to \in Instants,
             Request(u, type, from, to)
      PROVE  [L!Next]_L!vars /\ ReplacedAreLogged'
  BY <1>0, <1>1, RequestMaps, RequestStep, EvolvesReplaced
<1>2. ASSUME NEW h \in Handlers, LocalStep(h)
      PROVE  [L!Next]_L!vars /\ ReplacedAreLogged'
  <2>1. actions' = actions /\ lineage' = lineage /\ granted' = granted
    BY <1>0, <1>2, LocalStepFacts DEF tables, history
  <2> QED
    BY <1>0, <1>2, <2>1, Stutters, LocalStepReplaced
<1>3. ASSUME NEW h \in Handlers, CommitApproval(h)
      PROVE  [L!Next]_L!vars /\ ReplacedAreLogged'
  BY <1>3, CommitApprovalMaps, CommitApprovalStep, EvolvesReplaced
<1>4. ASSUME NEW h \in Handlers, CommitDenial(h)
      PROVE  [L!Next]_L!vars /\ ReplacedAreLogged'
  <2>1. /\ {handlers[h].action} \subseteq DOMAIN lineage
        /\ actions' = Delete(actions, {handlers[h].action})
        /\ lineage' = lineage /\ granted' = granted
    BY <1>4 DEF CommitDenial, history, IInv, Agreement, LocalsAgree, Agrees, Holds
  <2> QED
    BY <1>0, <1>4, <2>1, DeleteMaps, CommitDenialStep, EvolvesReplaced
<1>5. ASSUME NEW h \in Handlers, CommitSplit(h)
      PROVE  [L!Next]_L!vars /\ ReplacedAreLogged'
  BY <1>0, <1>5, CommitSplitMaps, CommitSplitStep, EvolvesReplaced
<1>6. ASSUME NEW h \in Handlers, CommitReschedule(h)
      PROVE  [L!Next]_L!vars /\ ReplacedAreLogged'
  BY <1>0, <1>6, CommitRescheduleMaps, CommitRescheduleStep, EvolvesReplaced
<1>7. ASSUME NEW h \in Handlers, CommitAttendance(h)
      PROVE  [L!Next]_L!vars /\ ReplacedAreLogged'
  BY <1>0, <1>7, CommitAttendanceMaps, CommitAttendanceStep, EvolvesReplaced
<1>8. ASSUME NEW u \in Employees, NEW head \in HeadChoices, AddHead(u, head)
      PROVE  [L!Next]_L!vars /\ ReplacedAreLogged'
  <2>1. actions' = actions /\ lineage' = lineage /\ granted' = granted
    BY <1>8 DEF AddHead, history
  <2> QED
    BY <1>8, <2>1, Stutters, AddHeadStep, EvolvesReplaced
<1>9. ASSUME NEW u \in Employees, RemoveEmployee(u)
      PROVE  [L!Next]_L!vars /\ ReplacedAreLogged'
  <2>1. /\ RowsOf(actions, u) \subseteq DOMAIN lineage
        /\ actions' = Delete(actions, RowsOf(actions, u))
        /\ lineage' = lineage /\ granted' = granted
    BY <1>0, <1>9 DEF RemoveEmployee, history, RowsOf, TypeOK
  <2> QED
    BY <1>0, <1>9, <2>1, DeleteMaps, RemoveEmployeeStep, EvolvesReplaced
<1>10. CASE Restart
  <2>1. actions' = actions /\ lineage' = lineage /\ granted' = granted
    BY <1>10 DEF Restart, tables, history
  <2> QED
    BY <1>10, <2>1, Stutters, RestartStep, EvolvesReplaced
<1>11. CASE UNCHANGED vars
  <2>1. /\ actions' = actions /\ lineage' = lineage /\ granted' = granted
        /\ handlers' = handlers
    BY <1>11 DEF vars, tables, history
  <2> QED
    BY <2>1, Stutters DEF ReplacedAreLogged
<1> QED
  BY <1>1, <1>2, <1>3, <1>4, <1>5, <1>6, <1>7, <1>8, <1>9, <1>10, <1>11
  DEF Next, Requests, Calls, Commits, LocalStep

\* Every behaviour of the handlers, however they interleave, fail and restart,
\* is one of the lifecycle: an absence is approved only by a verdict or in a
\* family that holds one, and what is gone stays gone.
THEOREM LifecycleImplemented == Spec => ImplementsLifecycle
<1>1. Init => IInv /\ ReplacedAreLogged /\ L!Init
  BY InitIInv, InitMaps
<1>2. (IInv /\ ReplacedAreLogged) /\ [Next]_vars =>
        (IInv /\ ReplacedAreLogged)' /\ [L!Next]_L!vars
  BY NextIInv, NextMaps
<1> QED
  BY <1>1, <1>2, PTL DEF Spec, ImplementsLifecycle, L!Spec

=============================================================================
