-------------------------- MODULE DirectoryProofs --------------------------
(***************************************************************************)
(* For every behaviour of Directory, with failures, restarts and calls     *)
(* that overlap: its types, and that no login is given to two people.      *)
(*                                                                         *)
(* For calls that come one after the other, with tidy values: the index    *)
(* follows the rows, and so do the three searches over it.  An index task  *)
(* runs beside the end of its own call, so between two calls the row may   *)
(* be ahead of the index or behind it; the invariant says, for each        *)
(* employee, that what the live task will leave of the index is what the   *)
(* pending UPDATE will leave of the row.                                   *)
(***************************************************************************)
EXTENDS Search, FiniteSetTheorems, SequenceTheorems, TLAPS

----------------------------------------------------------------------------
(* Types *)

HandlerStates ==
  {Idle}
    \cup [op : {"login", "insert", "index", "team"}, hire : Hires,
          try : 0 .. MaxCalls, password : 1 .. MaxCalls]
    \cup [op : {"edit", "update"}, login : Logins, edit : Edits, old : SUBSET Values]
    \cup [op : {"unindex", "delete"}, login : Logins]
    \cup [op : {"clear", "clearing"}]

TaskStates ==
  [login : Logins, old : SUBSET Values,
   new : {<<>>} \cup [Fields -> SUBSET Values] \cup [AllFields -> SUBSET Values],
   step : {"remove", "insert", "delete", "finished"}]

\* The adds that have not inserted their row, or given up.
LiveAdds == {h \in Handlers : handlers[h].op \in {"login", "insert"}}

\* Fewer than n numbers were ever given to a login, each by an add that has
\* left LiveAdds since.
Numbered(n) ==
  /\ n + Cardinality(LiveAdds) <= calls
  /\ \A l \in DOMAIN employees : l[2] < n
  /\ \A h \in LiveAdds : handlers[h].try <= n

Numbers == IsFiniteSet(LiveAdds) /\ \E n \in 0 .. MaxCalls : Numbered(n)

DInv ==
  /\ TypeOK
  /\ handlers \in [Handlers -> HandlerStates]
  /\ tasks \in Seq(TaskStates)
  /\ calls \in 0 .. MaxCalls
  /\ IsFiniteSet(DOMAIN employees)
  /\ Numbers
  /\ \A t \in told : t[1] \in team
  /\ OneOwnerPerLogin

----------------------------------------------------------------------------
(* The queue *)

\* A set of natural numbers has a least element.
LEMMA LeastElement ==
  ASSUME NEW S, S \subseteq Nat, S # {}
  PROVE  Min(S) \in S /\ \A y \in S : Min(S) <= y
<1> DEFINE UpTo(x) == {y \in S : y <= x}
           Segments == {UpTo(x) : x \in S}
           Order == StrictSubsetOrdering(S)
<1>1. Segments \subseteq FiniteSubsetsOf(S)
  <2> SUFFICES ASSUME NEW x \in S PROVE IsFiniteSet(UpTo(x))
    BY DEF FiniteSubsetsOf
  <2> QED
    BY FS_BoundedSetOfNaturals
<1>2. PICK m \in Segments : \A segment \in Segments : <<segment, m>> \notin Order
  <2>1. Segments # {}
    OBVIOUS
  <2> QED
    BY <1>1, <2>1, FS_StrictSubsetOrderingWellFounded, WFMin
<1>3. PICK x \in S : m = UpTo(x)
  BY <1>2
<1>4. ASSUME NEW y \in S PROVE x <= y
  <2> SUFFICES ASSUME y < x PROVE FALSE
    BY <1>3
  <2>1. /\ \A z \in S : z <= y => z <= x
        /\ x <= x /\ ~(x <= y)
    BY <1>3
  <2>2. UpTo(y) \subseteq m /\ UpTo(y) # m /\ m \subseteq S
    BY <1>3, <2>1
  <2>3. <<UpTo(y), m>> \in StrictSubsetOrdering(S)
    <3> HIDE DEF UpTo
    <3> QED
      BY <2>2 DEF StrictSubsetOrdering
  <2> QED
    BY <1>2, <2>3
<1> QED
  BY <1>4 DEF Min

LEMMA DropFinishedTypes ==
  ASSUME NEW S, NEW queue \in Seq(S)
  PROVE  DropFinished(queue) \in Seq(S)
<1> DEFINE live == {i \in DOMAIN queue : ~Finished(queue[i])}
<1>1. CASE live = {}
  BY <1>1 DEF DropFinished
<1>2. CASE live # {}
  <2>1. live \subseteq Nat /\ live \subseteq 1 .. Len(queue)
    OBVIOUS
  <2>2. Min(live) \in 1 .. Len(queue)
    BY <1>2, <2>1, LeastElement
  <2>3. Min(live) \in Int /\ Len(queue) \in Int
    BY <2>2
  <2>4. \A i \in Min(live) .. Len(queue) : queue[i] \in S
    BY <2>2
  <2>5. SubSeq(queue, Min(live), Len(queue)) \in Seq(S)
    BY <2>3, <2>4, SubSeqProperties
  <2> QED
    BY <1>2, <2>5 DEF DropFinished
<1> QED
  BY <1>1, <1>2

LEMMA PushTypes ==
  ASSUME tasks \in Seq(TaskStates), NEW task \in TaskStates, Push(task)
  PROVE  tasks' \in Seq(TaskStates) /\ lock = NoOne
<1>1. DropFinished(tasks) \in Seq(TaskStates)
  BY DropFinishedTypes
<1> QED
  BY <1>1 DEF Push

LEMMA TaskTypes ==
  ASSUME NEW task \in TaskStates
  PROVE  /\ IsTask(task)
         /\ KeysOf(task.new) \subseteq Values
<1>1. RawKeysOf(task.new) \subseteq Values /\ KeysOf(task.new) \subseteq Values
  <2>1. CASE task.new = <<>>
    BY <2>1 DEF RawKeysOf, KeysOf
  <2>2. CASE task.new \in [Fields -> SUBSET Values]
    BY <2>2, NamesAssumption DEF RawKeysOf, KeysOf, LowerAll
  <2>3. CASE task.new \in [AllFields -> SUBSET Values]
    BY <2>3, NamesAssumption DEF RawKeysOf, KeysOf, LowerAll
  <2> QED
    BY <2>1, <2>2, <2>3 DEF TaskStates
<1> QED
  BY <1>1 DEF IsTask, TaskStates

LEMMA TaskGoesTypes ==
  ASSUME tasks \in Seq(TaskStates), NEW i \in DOMAIN tasks,
         NEW step \in {"remove", "insert", "delete", "finished"}, TaskGoes(i, step)
  PROVE  tasks' \in Seq(TaskStates)
<1>1. tasks[i] \in TaskStates
  OBVIOUS
<1>2. [tasks[i] EXCEPT !.step = step] \in TaskStates
  BY <1>1 DEF TaskStates
<1> QED
  BY <1>2 DEF TaskGoes

----------------------------------------------------------------------------
(* The numbers of logins *)

LEMMA NumbersStay ==
  ASSUME Numbers, LiveAdds' \subseteq LiveAdds, calls' = calls,
         \A h \in LiveAdds' : handlers'[h].try = handlers[h].try,
         DOMAIN employees' \subseteq DOMAIN employees, calls \in Nat
  PROVE  Numbers'
<1>1. PICK n \in 0 .. MaxCalls : Numbered(n)
  BY DEF Numbers
<1>2. /\ IsFiniteSet(LiveAdds) /\ IsFiniteSet(LiveAdds')
      /\ Cardinality(LiveAdds') <= Cardinality(LiveAdds)
      /\ Cardinality(LiveAdds) \in Nat /\ Cardinality(LiveAdds') \in Nat
  BY FS_Subset, FS_CardinalityType DEF Numbers
<1>3. n + Cardinality(LiveAdds') <= calls'
  BY <1>1, <1>2 DEF Numbered
<1>4. Numbered(n)'
  BY <1>1, <1>3 DEF Numbered
<1> QED
  BY <1>2, <1>4 DEF Numbers

----------------------------------------------------------------------------
(* What holds of every behaviour *)

LEMMA InitDInv == Init => DInv
<1> SUFFICES ASSUME Init PROVE DInv
  OBVIOUS
<1>1. handlers \in [Handlers -> HandlerStates]
  BY DEF Init, HandlerStates
<1>2. DOMAIN employees = {} /\ IsFiniteSet(DOMAIN employees)
  <2>1. DOMAIN employees = {}
    BY DEF Init
  <2> QED
    BY <2>1, FS_EmptySet
<1>3. LiveAdds = {}
  BY DEF LiveAdds, Init, Idle
<1>4. Numbered(0)
  BY <1>2, <1>3, FS_EmptySet DEF Numbered, Init
<1>5. Numbers
  BY <1>3, <1>4, FS_EmptySet, CallsAssumption DEF Numbers
<1>6. TypeOK
  BY <1>2 DEF Init, TypeOK
<1> QED
  BY <1>1, <1>2, <1>5, <1>6, CallsAssumption DEF DInv, Init, OneOwnerPerLogin

LEMMA BecomeTypes ==
  ASSUME handlers \in [Handlers -> HandlerStates], NEW h \in Handlers,
         NEW state \in HandlerStates, Become(h, state)
  PROVE  /\ handlers' \in [Handlers -> HandlerStates]
         /\ handlers'[h] = state
         /\ \A g \in Handlers : g # h => handlers'[g] = handlers[g]
BY DEF Become

\* A handler that is not adding changes no number.
LEMMA NumbersOthers ==
  ASSUME DInv, NEW h \in Handlers, handlers'[h].op \notin {"login", "insert"},
         \A g \in Handlers : g # h => handlers'[g] = handlers[g],
         DOMAIN employees' \subseteq DOMAIN employees, calls' = calls
  PROVE  Numbers'
<1>1. LiveAdds' \subseteq LiveAdds /\ \A g \in LiveAdds' : g # h
  BY DEF LiveAdds
<1>2. \A g \in LiveAdds' : handlers'[g].try = handlers[g].try
  BY <1>1 DEF LiveAdds
<1> QED
  BY <1>1, <1>2, NumbersStay DEF DInv

\* Steps that leave the tables but the index alone.
LEMMA FrameStep ==
  ASSUME DInv, UNCHANGED <<employees, team, told>>,
         index' \in [Values -> SUBSET Logins],
         tasks' \in Seq(TaskStates),
         handlers' \in [Handlers -> HandlerStates],
         calls' \in 0 .. MaxCalls,
         lock' \in {NoOne} \cup {h \in Handlers : handlers'[h].op = "clearing"},
         Numbers'
  PROVE  DInv'
<1>1. \A i \in DOMAIN tasks' : IsTask(tasks'[i])
  BY TaskTypes
<1>2. TypeOK'
  BY <1>1 DEF DInv, TypeOK
<1> QED
  BY <1>2 DEF DInv, OneOwnerPerLogin

LEMMA HandlerStep ==
  ASSUME DInv, NEW h \in Handlers, NEW state \in HandlerStates, Become(h, state),
         handlers[h].op # "clearing",
         UNCHANGED <<employees, team, index, lock, told>>,
         tasks' \in Seq(TaskStates), calls' \in 0 .. MaxCalls, Numbers'
  PROVE  DInv'
<1>1. /\ handlers' \in [Handlers -> HandlerStates]
      /\ \A g \in Handlers : g # h => handlers'[g] = handlers[g]
  BY BecomeTypes DEF DInv
<1>2. lock' \in {NoOne} \cup {g \in Handlers : handlers'[g].op = "clearing"}
  BY <1>1 DEF DInv, TypeOK
<1> QED
  BY <1>1, <1>2, FrameStep DEF DInv, TypeOK

----------------------------------------------------------------------------
(* The steps of the calls *)

LEMMA BeginTypes ==
  ASSUME DInv, NEW h \in Handlers, Call(h)
  PROVE  DInv'
<1>1. /\ handlers[h] = Idle /\ handlers[h].op = "idle"
      /\ calls' = calls + 1 /\ calls' \in 1 .. MaxCalls
      /\ calls \in Nat
  BY CallsAssumption DEF DInv, Call, Idle
<1>2. h \notin LiveAdds
  BY <1>1 DEF LiveAdds
<1>3. ASSUME NEW hire \in Hires, BeginAdd(h, hire) PROVE DInv'
  <2> DEFINE state == [op |-> "login", hire |-> hire, try |-> 0, password |-> calls + 1]
  <2>1. /\ state \in HandlerStates /\ Become(h, state)
        /\ UNCHANGED <<employees, team, index, tasks, lock, told>>
    <3>1. 0 \in 0 .. MaxCalls /\ calls + 1 \in 1 .. MaxCalls
      BY <1>1, CallsAssumption
    <3> QED
      BY <1>3, <3>1 DEF BeginAdd, HandlerStates
  <2>2. /\ handlers'[h] = state
        /\ \A g \in Handlers : g # h => handlers'[g] = handlers[g]
    BY <2>1, BecomeTypes DEF DInv
  <2>3. LiveAdds' = LiveAdds \cup {h}
    BY <2>2 DEF LiveAdds
  <2>4. /\ IsFiniteSet(LiveAdds')
        /\ Cardinality(LiveAdds') = Cardinality(LiveAdds) + 1
        /\ Cardinality(LiveAdds) \in Nat
    BY <1>2, <2>3, FS_AddElement, FS_CardinalityType DEF DInv, Numbers
  <2>5. PICK n \in 0 .. MaxCalls : Numbered(n)
    BY DEF DInv, Numbers
  <2>6. Numbered(n)'
    <3>1. n + Cardinality(LiveAdds') <= calls'
      BY <1>1, <2>4, <2>5 DEF Numbered
    <3>2. \A g \in LiveAdds' : handlers'[g].try <= n
      BY <2>2, <2>3, <2>5 DEF Numbered, LiveAdds
    <3> QED
      BY <2>1, <2>5, <3>1, <3>2 DEF Numbered
  <2>7. Numbers'
    BY <2>4, <2>6 DEF Numbers
  <2> QED
    BY <1>1, <2>1, <2>7, HandlerStep DEF DInv
<1>4. ASSUME NEW state \in HandlerStates, state.op \notin {"login", "insert"},
             Become(h, state), UNCHANGED <<employees, team, index, tasks, lock, told>>
      PROVE  DInv'
  <2>1. /\ handlers'[h] = state
        /\ \A g \in Handlers : g # h => handlers'[g] = handlers[g]
    BY <1>4, BecomeTypes DEF DInv
  <2>2. LiveAdds' = LiveAdds
    BY <1>2, <1>4, <2>1 DEF LiveAdds
  <2>3. PICK n \in 0 .. MaxCalls : Numbered(n)
    BY DEF DInv, Numbers
  <2>4. IsFiniteSet(LiveAdds) /\ Cardinality(LiveAdds) \in Nat
    BY FS_CardinalityType DEF DInv, Numbers
  <2>5. n + Cardinality(LiveAdds') <= calls'
    BY <1>1, <2>2, <2>3, <2>4 DEF Numbered
  <2>6. \A g \in LiveAdds' : handlers'[g].try <= n
    BY <1>2, <2>1, <2>2, <2>3 DEF Numbered, LiveAdds
  <2>7. Numbered(n)'
    BY <1>4, <2>3, <2>5, <2>6 DEF Numbered
  <2>8. Numbers'
    BY <2>2, <2>4, <2>7 DEF Numbers
  <2> QED
    BY <1>1, <1>4, <2>8, HandlerStep DEF DInv
<1>5. ASSUME NEW l \in DOMAIN employees, NEW e \in Edits, BeginEdit(h, l, e)
      PROVE  DInv'
  <2> DEFINE old == UNION {employees[l].values[f] : f \in Given(e)}
             state == [op |-> "edit", login |-> l, edit |-> e, old |-> old]
  <2>1. old \subseteq Values
    <3>1. Given(e) \subseteq Fields
      BY EditsAssumption DEF Given
    <3> QED
      BY <3>1 DEF DInv, TypeOK, AllFields
  <2>2. state \in HandlerStates /\ state.op \notin {"login", "insert"}
    BY <2>1 DEF HandlerStates, DInv, TypeOK
  <2>3. Become(h, state) /\ UNCHANGED <<employees, team, index, tasks, lock, told>>
    BY <1>5 DEF BeginEdit
  <2> HIDE DEF state
  <2> QED
    BY <1>4, <2>2, <2>3
<1>6. ASSUME NEW l \in DOMAIN employees, BeginRemove(h, l) PROVE DInv'
  <2> DEFINE state == [op |-> "unindex", login |-> l]
  <2>1. state \in HandlerStates /\ state.op \notin {"login", "insert"}
    BY DEF HandlerStates, DInv, TypeOK
  <2>2. Become(h, state) /\ UNCHANGED <<employees, team, index, tasks, lock, told>>
    BY <1>6 DEF BeginRemove
  <2> HIDE DEF state
  <2> QED
    BY <1>4, <2>1, <2>2
<1>7. CASE BeginClear(h)
  <2> DEFINE state == [op |-> "clear"]
  <2>1. state \in HandlerStates /\ state.op \notin {"login", "insert"}
    BY DEF HandlerStates
  <2>2. Become(h, state) /\ UNCHANGED <<employees, team, index, tasks, lock, told>>
    BY <1>7 DEF BeginClear
  <2> HIDE DEF state
  <2> QED
    BY <1>4, <2>1, <2>2
<1> QED
  BY <1>3, <1>5, <1>6, <1>7 DEF Call

\* What a handler holds, by how far it is.
LEMMA StateFields ==
  ASSUME NEW a \in HandlerStates
  PROVE  /\ a.op \in {"login", "insert", "index", "team"} =>
              a \in [op : {"login", "insert", "index", "team"}, hire : Hires,
                     try : 0 .. MaxCalls, password : 1 .. MaxCalls]
         /\ a.op \in {"edit", "update"} =>
              a \in [op : {"edit", "update"}, login : Logins, edit : Edits,
                     old : SUBSET Values]
         /\ a.op \in {"unindex", "delete"} =>
              a \in [op : {"unindex", "delete"}, login : Logins]
BY DEF HandlerStates, Idle

LEMMA AddTypes ==
  ASSUME DInv, NEW h \in Handlers,
         handlers[h].op \in {"login", "insert", "index", "team"}
  PROVE  /\ handlers[h].hire \in Hires
         /\ handlers[h].try \in 0 .. MaxCalls
         /\ handlers[h].password \in 1 .. MaxCalls
         /\ Login(handlers[h].hire, handlers[h].try) \in Logins
         /\ [handlers[h] EXCEPT !.op = "insert"] \in HandlerStates
         /\ [handlers[h] EXCEPT !.op = "index"] \in HandlerStates
         /\ [handlers[h] EXCEPT !.op = "team"] \in HandlerStates
<1>1. handlers[h] \in [op : {"login", "insert", "index", "team"}, hire : Hires,
                       try : 0 .. MaxCalls, password : 1 .. MaxCalls]
  BY StateFields DEF DInv
<1> QED
  BY <1>1 DEF HandlerStates, Logins

LEMMA NewRowTypes ==
  ASSUME NEW hire \in Hires, NEW password \in 1 .. MaxCalls
  PROVE  /\ NewRow(hire, password) \in [password : 0 .. MaxCalls,
                                        values : [AllFields -> SUBSET Values]]
         /\ DOMAIN NewRow(hire, password).values = AllFields
         /\ \A f \in AllFields : NewRow(hire, password).values[f] =
              IF f \in Fields THEN {} ELSE {NameOf[hire][f]}
BY NamesAssumption DEF NewRow, AllFields

LEMMA TryLoginTypes ==
  ASSUME DInv, NEW h \in Handlers, TryLogin(h)
  PROVE  DInv'
<1> DEFINE a == handlers[h]
<1>1. /\ a.op = "login"
      /\ UNCHANGED <<employees, team, index, tasks, lock, calls, told>>
  BY DEF TryLogin
<1>2. CASE Login(a.hire, a.try) \in DOMAIN employees
  <2> DEFINE state == [a EXCEPT !.try = @ + 1]
  <2>1. Become(h, state)
    BY <1>2 DEF TryLogin
  <2>2. PICK n \in 0 .. MaxCalls : Numbered(n)
    BY DEF DInv, Numbers
  <2>3. h \in LiveAdds /\ a.try \in Nat
    <3>1. a.try \in 0 .. MaxCalls
      BY <1>1, AddTypes
    <3> QED
      BY <1>1, <3>1 DEF LiveAdds
  <2>4. a.try < n
    <3>1. Login(a.hire, a.try)[2] = a.try
      BY DEF Login
    <3> QED
      BY <1>2, <2>2, <3>1 DEF Numbered
  <2>5. a.try + 1 <= n /\ a.try + 1 \in 0 .. MaxCalls
    BY <2>2, <2>3, <2>4, CallsAssumption
  <2>6. a \in [op : {"login", "insert", "index", "team"}, hire : Hires,
               try : 0 .. MaxCalls, password : 1 .. MaxCalls]
    BY <1>1, StateFields DEF DInv
  <2>7. state \in HandlerStates /\ state.op = "login" /\ state.try = a.try + 1
    BY <1>1, <2>5, <2>6 DEF HandlerStates
  <2>8. /\ handlers'[h] = state
        /\ \A g \in Handlers : g # h => handlers'[g] = handlers[g]
    <3> HIDE DEF state
    <3> QED
      BY <2>1, <2>7, BecomeTypes DEF DInv
  <2>9. LiveAdds' = LiveAdds
    BY <2>3, <2>7, <2>8 DEF LiveAdds
  <2>10. \A g \in LiveAdds' : handlers'[g].try <= n
    BY <2>2, <2>5, <2>7, <2>8, <2>9 DEF LiveAdds, Numbered
  <2>11. Numbered(n)'
    BY <1>1, <2>2, <2>9, <2>10 DEF Numbered
  <2>12. Numbers'
    BY <2>2, <2>9, <2>11 DEF Numbers, DInv
  <2> QED
    <3> HIDE DEF state
    <3> QED
      BY <1>1, <2>1, <2>7, <2>12, HandlerStep DEF DInv
<1>3. CASE Login(a.hire, a.try) \notin DOMAIN employees
  <2> DEFINE state == [a EXCEPT !.op = "insert"]
  <2>1. Become(h, state) /\ state \in HandlerStates
    BY <1>1, <1>3, AddTypes DEF TryLogin
  <2>2. /\ handlers'[h] = state
        /\ \A g \in Handlers : g # h => handlers'[g] = handlers[g]
    <3> HIDE DEF state
    <3> QED
      BY <2>1, BecomeTypes DEF DInv
  <2>3. handlers'[h].try = a.try
    <3>1. a \in [op : {"login", "insert", "index", "team"}, hire : Hires,
                 try : 0 .. MaxCalls, password : 1 .. MaxCalls]
      BY <1>1, StateFields DEF DInv
    <3> QED
      BY <2>2, <3>1
  <2>4. LiveAdds' \subseteq LiveAdds
    BY <1>1, <2>2 DEF LiveAdds
  <2>5. \A g \in LiveAdds' : handlers'[g].try = handlers[g].try
    BY <2>2, <2>3 DEF LiveAdds
  <2>6. calls \in Nat /\ calls' = calls /\ employees' = employees
    BY <1>1, CallsAssumption DEF DInv
  <2>7. Numbers'
    BY <2>4, <2>5, <2>6, NumbersStay DEF DInv
  <2> QED
    <3> HIDE DEF state
    <3> QED
      BY <1>1, <2>1, <2>7, HandlerStep DEF DInv
<1> QED
  BY <1>2, <1>3

LEMMA InsertEmployeeTypes ==
  ASSUME DInv, NEW h \in Handlers, InsertEmployee(h)
  PROVE  DInv'
<1> DEFINE a == handlers[h]
           login == Login(a.hire, a.try)
           row == NewRow(a.hire, a.password)
           state == [a EXCEPT !.op = "index"]
<1>1. /\ a.op = "insert"
      /\ employees' = [l \in DOMAIN employees \cup {login} |->
                         IF l \in DOMAIN employees THEN employees[l] ELSE row]
      /\ Become(h, state)
      /\ UNCHANGED <<team, index, tasks, lock, calls, told>>
  BY DEF InsertEmployee
<1>2. /\ state \in HandlerStates /\ login \in Logins
      /\ a.hire \in Hires /\ a.password \in 1 .. MaxCalls
  BY <1>1, AddTypes
<1>3. state.op = "index" /\ login[2] = a.try
  <2>1. a \in [op : {"login", "insert", "index", "team"}, hire : Hires,
               try : 0 .. MaxCalls, password : 1 .. MaxCalls]
    BY <1>1, StateFields DEF DInv
  <2> QED
    BY <2>1 DEF Login
<1>4. /\ handlers' \in [Handlers -> HandlerStates]
      /\ handlers'[h] = state
      /\ \A g \in Handlers : g # h => handlers'[g] = handlers[g]
  <2> HIDE DEF state
  <2> QED
    BY <1>1, <1>2, BecomeTypes DEF DInv
<1>5. Numbers'
  <2>1. PICK n \in 0 .. MaxCalls : Numbered(n)
    BY DEF DInv, Numbers
  <2>2. h \in LiveAdds /\ LiveAdds' = LiveAdds \ {h}
    BY <1>1, <1>3, <1>4 DEF LiveAdds
  <2>3. /\ IsFiniteSet(LiveAdds')
        /\ Cardinality(LiveAdds') = Cardinality(LiveAdds) - 1
        /\ Cardinality(LiveAdds) \in Nat /\ Cardinality(LiveAdds') \in Nat
    <3>1. IsFiniteSet(LiveAdds)
      BY DEF DInv, Numbers
    <3> QED
      BY <2>2, <3>1, FS_RemoveElement, FS_CardinalityType
  <2>4. n + 1 + Cardinality(LiveAdds') <= calls /\ calls \in 0 .. MaxCalls
    BY <2>1, <2>3 DEF Numbered, DInv
  <2>5. n + 1 \in 0 .. MaxCalls
    BY <2>1, <2>3, <2>4, CallsAssumption
  <2>6. a.try <= n
    BY <2>1, <2>2 DEF Numbered
  <2>7. \A l \in DOMAIN employees' : l[2] < n + 1
    <3>1. \A l \in DOMAIN employees : l[2] < n /\ l[2] \in Nat
      BY <2>1 DEF Numbered, DInv, TypeOK, Logins, Login
    <3>2. a.try \in 0 .. MaxCalls
      BY <1>1, AddTypes
    <3>3. login[2] < n + 1
      BY <1>3, <2>1, <2>6, <3>2
    <3> HIDE DEF login, row
    <3> QED
      BY <1>1, <2>1, <3>1, <3>3
  <2>8. \A g \in LiveAdds' : handlers'[g].try <= n + 1
    <3> SUFFICES ASSUME NEW g \in LiveAdds' PROVE handlers'[g].try <= n + 1
      OBVIOUS
    <3>1. g \in Handlers /\ g # h /\ handlers'[g] = handlers[g] /\ g \in LiveAdds
      BY <1>4, <2>2 DEF LiveAdds
    <3>2. handlers[g].try \in 0 .. MaxCalls
      BY <3>1, AddTypes DEF LiveAdds
    <3> QED
      BY <2>1, <3>1, <3>2 DEF Numbered
  <2>9. Numbered(n + 1)'
    BY <1>1, <2>4, <2>7, <2>8 DEF Numbered
  <2> QED
    BY <2>3, <2>5, <2>9 DEF Numbers
<1>6. row \in [password : 0 .. MaxCalls, values : [AllFields -> SUBSET Values]]
  BY <1>2, NewRowTypes
<1>7. /\ DOMAIN employees' = DOMAIN employees \cup {login}
      /\ \A l \in DOMAIN employees' :
           employees'[l] = IF l \in DOMAIN employees THEN employees[l] ELSE row
  <2> HIDE DEF login, row, state
  <2> QED
    BY <1>1
<1>8. IsFiniteSet(DOMAIN employees')
  BY <1>7, FS_AddElement DEF DInv
<1>9. TypeOK'
  <2> HIDE DEF login, row, state
  <2>1. lock' \in {NoOne} \cup {g \in Handlers : handlers'[g].op = "clearing"}
    BY <1>1, <1>4 DEF DInv, TypeOK
  <2>2. /\ DOMAIN employees' \subseteq Logins
        /\ DOMAIN employees \subseteq DOMAIN employees'
        /\ \A l \in DOMAIN employees' :
             employees'[l] \in [password : 0 .. MaxCalls,
                                values : [AllFields -> SUBSET Values]]
    BY <1>2, <1>6, <1>7 DEF DInv, TypeOK
  <2> QED
    BY <1>1, <2>1, <2>2 DEF DInv, TypeOK
<1> QED
  BY <1>1, <1>4, <1>5, <1>8, <1>9 DEF DInv, OneOwnerPerLogin

\* The last step of a call, in which it writes its rows.
LEMMA LastStep ==
  ASSUME DInv, NEW h \in Handlers, Become(h, Idle), handlers[h].op # "clearing",
         UNCHANGED <<index, tasks, lock, calls>>,
         DOMAIN employees' \subseteq DOMAIN employees,
         \A l \in DOMAIN employees' :
           employees'[l] \in [password : 0 .. MaxCalls,
                              values : [AllFields -> SUBSET Values]],
         team' \subseteq DOMAIN employees',
         told' \subseteq (DOMAIN employees') \X (1 .. MaxCalls),
         \A t \in told' : t[1] \in team',
         OneOwnerPerLogin'
  PROVE  DInv'
<1>1. Idle \in HandlerStates /\ Idle.op = "idle"
  BY DEF HandlerStates, Idle
<1>2. /\ handlers' \in [Handlers -> HandlerStates]
      /\ handlers'[h] = Idle
      /\ \A g \in Handlers : g # h => handlers'[g] = handlers[g]
  BY <1>1, BecomeTypes DEF DInv
<1>3. Numbers'
  BY <1>1, <1>2, NumbersOthers
<1>4. IsFiniteSet(DOMAIN employees')
  BY FS_Subset DEF DInv
<1>5. TypeOK'
  <2>1. lock' \in {NoOne} \cup {g \in Handlers : handlers'[g].op = "clearing"}
    BY <1>2 DEF DInv, TypeOK
  <2> QED
    BY <2>1 DEF DInv, TypeOK
<1> QED
  BY <1>2, <1>3, <1>4, <1>5 DEF DInv

LEMMA InsertTeamTypes ==
  ASSUME DInv, NEW h \in Handlers, InsertTeam(h)
  PROVE  DInv'
<1> DEFINE a == handlers[h]
           login == Login(a.hire, a.try)
<1>1. /\ a.op = "team" /\ Become(h, Idle)
      /\ UNCHANGED <<employees, index, tasks, lock, calls>>
  BY DEF InsertTeam
<1>2. a.password \in 1 .. MaxCalls
  BY <1>1, AddTypes
<1>3. \/ login \in DOMAIN employees \ team /\ team' = team \cup {login}
           /\ told' = told \cup {<<login, a.password>>}
      \/ UNCHANGED <<team, told>>
  BY DEF InsertTeam
<1>4. \A t \in told : t[1] \in team
  BY DEF DInv
<1> HIDE DEF login
<1>5. OneOwnerPerLogin'
  BY <1>3, <1>4 DEF DInv, OneOwnerPerLogin
<1>6. /\ team' \subseteq DOMAIN employees'
      /\ told' \subseteq (DOMAIN employees') \X (1 .. MaxCalls)
      /\ \A t \in told' : t[1] \in team'
  BY <1>1, <1>2, <1>3, <1>4 DEF DInv, TypeOK
<1> QED
  BY <1>1, <1>5, <1>6, LastStep DEF DInv, TypeOK

LEMMA UpdateProfileTypes ==
  ASSUME DInv, NEW h \in Handlers, UpdateProfile(h)
  PROVE  DInv'
<1> DEFINE e == handlers[h]
           new(l) == [password |-> IF e.edit.password THEN OwnPassword
                                   ELSE employees[l].password,
                      values |-> [f \in AllFields |->
                                    IF f \in Given(e.edit) THEN e.edit.values[f]
                                    ELSE employees[l].values[f]]]
<1>1. /\ e.op = "update" /\ Become(h, Idle)
      /\ employees' = [l \in DOMAIN employees |->
                         IF l # e.login THEN employees[l] ELSE new(l)]
      /\ UNCHANGED <<team, index, tasks, lock, calls, told>>
  BY DEF UpdateProfile
<1>2. e.edit \in [given : SUBSET Fields, values : [Fields -> SUBSET Values],
                  password : BOOLEAN]
  BY <1>1, StateFields, EditsAssumption DEF DInv
<1>3. ASSUME NEW l \in DOMAIN employees
      PROVE  new(l) \in [password : 0 .. MaxCalls,
                         values : [AllFields -> SUBSET Values]]
  <2>1. employees[l] \in [password : 0 .. MaxCalls,
                          values : [AllFields -> SUBSET Values]]
    BY DEF DInv, TypeOK
  <2>2. [f \in AllFields |-> IF f \in Given(e.edit) THEN e.edit.values[f]
                             ELSE employees[l].values[f]] \in [AllFields -> SUBSET Values]
    BY <1>2, <2>1 DEF Given
  <2>3. OwnPassword \in 0 .. MaxCalls
    BY CallsAssumption DEF OwnPassword
  <2> QED
    BY <2>1, <2>2, <2>3
<1>4. /\ DOMAIN employees' = DOMAIN employees
      /\ \A l \in DOMAIN employees :
           employees'[l] = IF l # e.login THEN employees[l] ELSE new(l)
  <2> HIDE DEF new
  <2> QED
    BY <1>1
<1>5. \A l \in DOMAIN employees' :
        employees'[l] \in [password : 0 .. MaxCalls,
                           values : [AllFields -> SUBSET Values]]
  <2> SUFFICES ASSUME NEW l \in DOMAIN employees
               PROVE  employees'[l] \in [password : 0 .. MaxCalls,
                                          values : [AllFields -> SUBSET Values]]
    BY <1>4
  <2>1. CASE l = e.login
    <3>1. employees'[l] = new(l)
      BY <1>4, <2>1
    <3> QED
      BY <1>3, <3>1, Zenon
  <2>2. CASE l # e.login
    BY <1>4, <2>2 DEF DInv, TypeOK
  <2> QED
    BY <2>1, <2>2
<1>6. OneOwnerPerLogin'
  BY <1>1 DEF DInv, OneOwnerPerLogin
<1> QED
  BY <1>1, <1>4, <1>5, <1>6, LastStep DEF DInv, TypeOK

LEMMA DeleteEmployeeTypes ==
  ASSUME DInv, NEW h \in Handlers, DeleteEmployee(h)
  PROVE  DInv'
<1> DEFINE login == handlers[h].login
<1>1. /\ handlers[h].op = "delete" /\ Become(h, Idle)
      /\ employees' = [l \in DOMAIN employees \ {login} |-> employees[l]]
      /\ team' = team \ {login}
      /\ told' = {t \in told : t[1] # login}
      /\ UNCHANGED <<index, tasks, lock, calls>>
  BY DEF DeleteEmployee
<1>2. /\ DOMAIN employees' = DOMAIN employees \ {login}
      /\ \A l \in DOMAIN employees' : employees'[l] = employees[l]
  BY <1>1
<1>3. OneOwnerPerLogin'
  BY <1>1 DEF DInv, OneOwnerPerLogin
<1>4. /\ team' \subseteq DOMAIN employees'
      /\ told' \subseteq (DOMAIN employees') \X (1 .. MaxCalls)
      /\ \A t \in told' : t[1] \in team'
  BY <1>1, <1>2 DEF DInv, TypeOK
<1>5. \A l \in DOMAIN employees' :
        employees'[l] \in [password : 0 .. MaxCalls,
                           values : [AllFields -> SUBSET Values]]
  BY <1>2 DEF DInv, TypeOK
<1> QED
  BY <1>1, <1>2, <1>3, <1>4, <1>5, LastStep

----------------------------------------------------------------------------
(* The steps that use the queue, and the tasks in it *)

\* A handler pushes a task, and waits for the lock before it does.
LEMMA PushStep ==
  ASSUME DInv, NEW h \in Handlers, NEW task \in TaskStates, Push(task),
         NEW state \in HandlerStates, Become(h, state),
         state.op \notin {"login", "insert"}, handlers[h].op # "clearing",
         UNCHANGED <<employees, team, index, lock, calls, told>>
  PROVE  DInv'
<1>1. tasks' \in Seq(TaskStates)
  BY PushTypes DEF DInv
<1>2. Numbers'
  BY BecomeTypes, NumbersOthers DEF DInv
<1> QED
  BY <1>1, <1>2, HandlerStep DEF DInv

LEMMA PushIndexTypes ==
  ASSUME DInv, NEW h \in Handlers, PushIndex(h)
  PROVE  DInv'
<1> DEFINE a == handlers[h]
           task == IndexTask(Login(a.hire, a.try), NewRow(a.hire, a.password).values)
           state == [a EXCEPT !.op = "team"]
<1>1. a.op = "index"
  BY DEF PushIndex
<1>2. a \in [op : {"login", "insert", "index", "team"}, hire : Hires,
             try : 0 .. MaxCalls, password : 1 .. MaxCalls]
  BY <1>1, StateFields DEF DInv
<1>3. state \in HandlerStates /\ state.op = "team"
  BY <1>1, <1>2, AddTypes
<1>4. NewRow(a.hire, a.password).values \in [AllFields -> SUBSET Values]
  BY <1>2, NewRowTypes
<1>5. task \in TaskStates
  BY <1>1, <1>4, AddTypes DEF IndexTask, TaskStates
<1>6. /\ Push(task) /\ Become(h, state)
      /\ UNCHANGED <<employees, team, index, lock, calls, told>>
  BY DEF PushIndex
<1> HIDE DEF state, task
<1> QED
  BY <1>1, <1>3, <1>5, <1>6, PushStep

LEMMA PushEditTypes ==
  ASSUME DInv, NEW h \in Handlers, PushEdit(h)
  PROVE  DInv'
<1> DEFINE e == handlers[h]
           task == EditTask(e.login, e.old, e.edit.values)
           state == [e EXCEPT !.op = "update"]
<1>1. e.op = "edit"
  BY DEF PushEdit
<1>2. e \in [op : {"edit", "update"}, login : Logins, edit : Edits, old : SUBSET Values]
  BY <1>1, StateFields DEF DInv
<1>3. state \in HandlerStates /\ state.op = "update"
  BY <1>2 DEF HandlerStates
<1>4. task \in TaskStates
  BY <1>2, EditsAssumption DEF EditTask, TaskStates
<1>5. /\ Push(task) /\ Become(h, state)
      /\ UNCHANGED <<employees, team, index, lock, calls, told>>
  BY DEF PushEdit
<1> HIDE DEF state, task
<1> QED
  BY <1>1, <1>3, <1>4, <1>5, PushStep

LEMMA PushDeleteTypes ==
  ASSUME DInv, NEW h \in Handlers, PushDelete(h)
  PROVE  DInv'
<1> DEFINE r == handlers[h]
           task == DeleteTask(r.login)
           state == [r EXCEPT !.op = "delete"]
<1>1. r.op = "unindex"
  BY DEF PushDelete
<1>2. r \in [op : {"unindex", "delete"}, login : Logins]
  BY <1>1, StateFields DEF DInv
<1>3. state \in HandlerStates /\ state.op = "delete"
  BY <1>2 DEF HandlerStates
<1>4. task \in TaskStates
  BY <1>2 DEF DeleteTask, TaskStates
<1>5. /\ Push(task) /\ Become(h, state)
      /\ UNCHANGED <<employees, team, index, lock, calls, told>>
  BY DEF PushDelete
<1> HIDE DEF state, task
<1> QED
  BY <1>1, <1>3, <1>4, <1>5, PushStep

LEMMA LockTypes ==
  ASSUME DInv, NEW h \in Handlers, LockTasks(h) \/ UnlockTasks(h)
  PROVE  DInv'
<1>1. PICK state \in {[op |-> "clearing"], Idle} :
        /\ Become(h, state)
        /\ lock' = IF state = Idle THEN NoOne ELSE h
        /\ UNCHANGED <<employees, team, index, tasks, calls, told>>
  BY DEF LockTasks, UnlockTasks, Idle
<1>2. /\ state \in HandlerStates /\ state.op \in {"clearing", "idle"}
      /\ state # Idle => state.op = "clearing"
  BY <1>1 DEF HandlerStates, Idle
<1>3. /\ handlers' \in [Handlers -> HandlerStates]
      /\ handlers'[h] = state
      /\ \A g \in Handlers : g # h => handlers'[g] = handlers[g]
  BY <1>1, <1>2, BecomeTypes DEF DInv
<1>4. Numbers'
  BY <1>1, <1>2, <1>3, NumbersOthers
<1>5. lock' \in {NoOne} \cup {g \in Handlers : handlers'[g].op = "clearing"}
  BY <1>1, <1>2, <1>3
<1> QED
  BY <1>1, <1>3, <1>4, <1>5, FrameStep DEF DInv, TypeOK

\* Steps of the queue and its tasks: no handler moves.
LEMMA QueueStep ==
  ASSUME DInv, tasks' \in Seq(TaskStates), index' \in [Values -> SUBSET Logins],
         UNCHANGED <<employees, team, lock, handlers, calls, told>>
  PROVE  DInv'
<1>1. Numbers'
  BY DEF DInv, Numbers, Numbered, LiveAdds
<1> QED
  BY <1>1, FrameStep DEF DInv, TypeOK

LEMMA PopTypes ==
  ASSUME DInv, NEW h \in Handlers, PopTask(h)
  PROVE  DInv'
<1>1. tasks' \in Seq(TaskStates)
  BY DEF PopTask, DInv
<1> QED
  BY <1>1, QueueStep DEF PopTask, DInv, TypeOK

LEMMA TaskStepTypes ==
  ASSUME DInv, NEW i \in DOMAIN tasks, RunTask(i) \/ BreakTask(i)
  PROVE  DInv'
<1>1. tasks \in Seq(TaskStates) /\ tasks[i] \in TaskStates
  BY DEF DInv
<1>2. tasks' \in Seq(TaskStates)
  BY <1>1, TaskGoesTypes
     DEF RunTask, BreakTask, RemoveOldKeys, InsertNewKeys, FailDelete, FailTask
<1>3. index' \in [Values -> SUBSET Logins]
  BY <1>1 DEF DInv, TypeOK, TaskStates,
       RunTask, BreakTask, RemoveOldKeys, InsertNewKeys, FailDelete, FailTask
<1> QED
  BY <1>2, <1>3, QueueStep DEF RunTask, BreakTask

LEMMA AbortTypes ==
  ASSUME DInv, NEW h \in Handlers, Abort(h)
  PROVE  DInv'
<1>1. Idle \in HandlerStates /\ Idle.op = "idle"
  BY DEF HandlerStates, Idle
<1>2. /\ Become(h, Idle) /\ handlers[h].op # "clearing"
      /\ UNCHANGED <<employees, team, index, tasks, lock, calls, told>>
  BY DEF Abort
<1>3. Numbers'
  BY <1>1, <1>2, BecomeTypes, NumbersOthers DEF DInv
<1> QED
  BY <1>1, <1>2, <1>3, HandlerStep DEF DInv

LEMMA RestartTypes ==
  ASSUME DInv, Restart
  PROVE  DInv'
<1>1. /\ handlers' = [h \in Handlers |-> Idle] /\ tasks' = <<>> /\ lock' = NoOne
      /\ UNCHANGED <<employees, team, index, calls, told>>
  BY DEF Restart
<1>2. handlers' \in [Handlers -> HandlerStates] /\ tasks' \in Seq(TaskStates)
  BY <1>1 DEF HandlerStates
<1>3. LiveAdds' = {}
  BY <1>1 DEF LiveAdds, Idle
<1>4. Numbers'
  BY <1>1, <1>3, CallsAssumption, NumbersStay DEF DInv
<1> QED
  BY <1>1, <1>2, <1>4, FrameStep DEF DInv, TypeOK

LEMMA NextDInv ==
  ASSUME DInv, [Next]_vars
  PROVE  DInv'
<1>1. ASSUME NEW h \in Handlers, LockStep(h) PROVE DInv'
  BY <1>1, PushIndexTypes, PushEditTypes, PushDeleteTypes, LockTypes DEF LockStep
<1>2. ASSUME NEW h \in Handlers, FreeStep(h) PROVE DInv'
  BY <1>2, TryLoginTypes, InsertEmployeeTypes, InsertTeamTypes, UpdateProfileTypes,
     DeleteEmployeeTypes, PopTypes, LockTypes DEF FreeStep
<1>3. CASE UNCHANGED vars
  BY <1>3, QueueStep DEF vars, DInv, TypeOK
<1> QED
  BY <1>1, <1>2, <1>3, BeginTypes, AbortTypes, TaskStepTypes, RestartTypes
     DEF Next, Runs

\* Rows, index, queue and lock stay well-formed through failing statements and
\* restarts, and a login never needs more numbers than there were calls.
THEOREM DirectoryTypes == Spec => []TypeOK
<1>1. DInv => TypeOK
  BY DEF DInv
<1> QED
  BY <1>1, InitDInv, NextDInv, PTL DEF Spec

\* No two calls of /v1/employee/add are answered with the login of one employee,
\* however they race: the primary key of employee_team lets one of them through.
THEOREM LoginsHaveOneOwner == Spec => []OneOwnerPerLogin
<1>1. DInv => OneOwnerPerLogin
  BY DEF DInv
<1> QED
  BY <1>1, InitDInv, NextDInv, PTL DEF Spec

----------------------------------------------------------------------------
(* Calls that come one after the other, and what their index tasks do *)

Live == {i \in DOMAIN tasks : ~Finished(tasks[i])}
Busy == {h \in Handlers : handlers[h] # Idle}

\* A row as /v1/employee/add and /v1/profile/edit write it.
Written(values) ==
  /\ \E hire \in Hires : \A f \in {"name", "surname"} : values[f] = {NameOf[hire][f]}
  /\ \A f \in Fields : values[f] = {} \/ \E e \in Edits : values[f] = e.values[f]

\* What a profile holds once an edit is written to it.
Edited(values, edit) ==
  [f \in AllFields |-> IF f \in Given(edit) THEN edit.values[f] ELSE values[f]]

\* What the row of an employee will hold when all handlers are done.
Pending(l) == {h \in Handlers : handlers[h].op = "update" /\ handlers[h].login = l}
Target(l) ==
  IF Pending(l) = {} THEN Holds(l)
  ELSE UNION {KeysOf(Edited(employees[l].values, handlers[h].edit)) : h \in Pending(l)}

\* What the index will have of an employee when all tasks are done.
Left(i, l) ==
  (KeysFor(l) \ (IF tasks[i].step = "remove" THEN tasks[i].old ELSE {}))
    \cup KeysOf(tasks[i].new)

Indexing(l) ==
  {h \in Handlers : /\ handlers[h].op = "index"
                    /\ Login(handlers[h].hire, handlers[h].try) = l}

Follows(l) ==
  /\ \A i \in Live : tasks[i].login = l => Left(i, l) = Target(l)
  /\ (\A i \in Live : tasks[i].login # l) =>
       KeysFor(l) = IF Indexing(l) = {} THEN Target(l) ELSE {}

IInv ==
  /\ \A g, h \in Busy : g = h
  /\ \A i, j \in Live : i = j
  /\ \A h \in Handlers : handlers[h].op \notin {"idle", "team", "update"} => Live = {}
  /\ \A i \in Live :
       /\ tasks[i].login \in DOMAIN employees
       /\ tasks[i].step \in {"remove", "insert"}
       /\ KeysOf(tasks[i].new) \subseteq Values
       /\ ~Clash(tasks[i].new)
  /\ \A h \in Handlers :
       LET a == handlers[h] IN
       /\ a.op \notin {"unindex", "delete"}
       /\ a.op = "insert" => Login(a.hire, a.try) \notin DOMAIN employees
       /\ a.op = "index" =>
            /\ Login(a.hire, a.try) \in DOMAIN employees
            /\ employees[Login(a.hire, a.try)] = NewRow(a.hire, a.password)
       /\ a.op \in {"edit", "update"} => a.login \in DOMAIN employees
       /\ a.op = "edit" =>
            a.old = UNION {employees[a.login].values[f] : f \in Given(a.edit)}
  /\ \A k \in Values : index[k] \subseteq DOMAIN employees
  /\ \A l \in DOMAIN employees : Written(employees[l].values) /\ Follows(l)

----------------------------------------------------------------------------
(* What tidy values give *)

LEMMA KeysTypes ==
  ASSUME NEW values \in [AllFields -> SUBSET Values]
  PROVE  KeysOf(values) \subseteq Values
BY NamesAssumption DEF KeysOf, LowerAll

LEMMA EditTypes ==
  ASSUME NEW e \in Edits
  PROVE  /\ e.values \in [Fields -> SUBSET Values]
         /\ DOMAIN e.values = Fields
         /\ KeysOf(e.values) \subseteq Values
<1>1. e.values \in [Fields -> SUBSET Values]
  BY EditsAssumption
<1> QED
  BY <1>1, NamesAssumption DEF KeysOf, LowerAll

\* Two values of a clash are in two fields, or in one.
LEMMA ClashMeans ==
  ASSUME NEW values, Clash(values)
  PROVE  \E f, g \in DOMAIN values : \E v \in values[f], w \in values[g] :
           <<f, v>> # <<g, w>> /\ Lower[v] = Lower[w]
BY DEF Clash

LEMMA EditsDoNotClash ==
  ASSUME TidyValues, NEW e \in Edits
  PROVE  ~Clash(e.values)
<1> SUFFICES ASSUME Clash(e.values) PROVE FALSE
  OBVIOUS
<1>1. PICK f, g \in Fields : \E v \in e.values[f], w \in e.values[g] :
        <<f, v>> # <<g, w>> /\ Lower[v] = Lower[w]
  BY ClashMeans, EditTypes
<1>2. PICK v \in e.values[f], w \in e.values[g] :
        <<f, v>> # <<g, w>> /\ Lower[v] = Lower[w]
  BY <1>1
<1>3. Lower[v] = v /\ Lower[w] = w
  BY <1>1, <1>2 DEF TidyValues
<1>4. v \in e.values[g]
  BY <1>2, <1>3
<1>5. f = g
  BY <1>1, <1>2, <1>4 DEF TidyValues
<1> QED
  BY <1>2, <1>3, <1>5

LEMMA NewRowsFit ==
  ASSUME TidyValues, NEW hire \in Hires, NEW password \in 1 .. MaxCalls
  PROVE  LET values == NewRow(hire, password).values IN
         ~Clash(values) /\ Written(values)
<1> DEFINE values == NewRow(hire, password).values
<1>1. /\ DOMAIN values = AllFields
      /\ \A f \in AllFields : values[f] = IF f \in Fields THEN {} ELSE {NameOf[hire][f]}
  BY NewRowTypes
<1>2. /\ \A f \in {"name", "surname"} : f \in AllFields /\ f \notin Fields
      /\ \A f \in Fields : f \in AllFields
      /\ \A f \in AllFields : f \in Fields \/ f \in {"name", "surname"}
  BY NamesAssumption DEF AllFields
<1> HIDE DEF values
<1>3. Written(values)
  BY <1>1, <1>2 DEF Written
<1>4. ASSUME Clash(values) PROVE FALSE
  <2>1. PICK f, g \in AllFields : \E v \in values[f], w \in values[g] :
          <<f, v>> # <<g, w>> /\ Lower[v] = Lower[w]
    BY <1>1, <1>4, ClashMeans
  <2>2. /\ f \in {"name", "surname"} /\ g \in {"name", "surname"} /\ f # g
        /\ Lower[NameOf[hire][f]] = Lower[NameOf[hire][g]]
    BY <1>1, <1>2, <2>1
  <2> QED
    BY <2>2 DEF TidyValues
<1> QED
  BY <1>3, <1>4 DEF values

\* Taking the old values of an edit out of the index, and putting the new ones
\* in, leaves the keys of the edited row.
LEMMA EditKeys ==
  ASSUME TidyValues, NEW values \in [AllFields -> SUBSET Values], Written(values),
         NEW e \in Edits
  PROVE  /\ (KeysOf(values) \ UNION {values[f] : f \in Given(e)}) \cup KeysOf(e.values)
              = KeysOf(Edited(values, e))
         /\ Written(Edited(values, e))
<1> DEFINE old == UNION {values[f] : f \in Given(e)}
           new == Edited(values, e)
<1>1. /\ DOMAIN new = AllFields
      /\ \A f \in AllFields : new[f] = IF f \in Given(e) THEN e.values[f] ELSE values[f]
  BY DEF Edited
<1>2. /\ \A f \in {"name", "surname"} : f \in AllFields /\ f \notin Given(e)
      /\ Given(e) \subseteq Fields /\ Fields \subseteq AllFields
      /\ \A f \in Fields : f \notin Given(e) => e.values[f] = {}
      /\ \A f \in AllFields : f \in Fields \/ f \in {"name", "surname"}
  BY NamesAssumption, EditsAssumption DEF AllFields, Given
<1>3. /\ \A k : k \in KeysOf(values) <=> \E f \in AllFields : \E v \in values[f] : k = Lower[v]
      /\ \A k : k \in KeysOf(new) <=> \E f \in AllFields : \E v \in new[f] : k = Lower[v]
      /\ \A k : k \in KeysOf(e.values) <=> \E f \in Fields : \E v \in e.values[f] : k = Lower[v]
  <2>1. DOMAIN values = AllFields /\ DOMAIN e.values = Fields
    BY EditTypes
  <2> HIDE DEF new
  <2> QED
    BY <1>1, <2>1 DEF KeysOf, LowerAll
<1> HIDE DEF new
<1>4. Written(new)
  BY <1>1, <1>2 DEF Written
\* An old value is the key of no field that the edit leaves alone.
<1>5. ASSUME NEW f \in Given(e), NEW g \in AllFields \ Given(e), NEW w \in values[g],
             Lower[w] \in values[f]
      PROVE  FALSE
  <2>1. PICK d \in Edits : values[f] = d.values[f]
    BY <1>2, <1>5 DEF Written
  <2>2. CASE g \in Fields
    <3>1. PICK c \in Edits : values[g] = c.values[g]
      BY <1>5, <2>2 DEF Written
    <3>2. Lower[w] = w
      BY <1>5, <2>2, <3>1 DEF TidyValues
    <3> QED
      BY <1>2, <1>5, <2>1, <2>2, <3>1, <3>2 DEF TidyValues
  <2>3. CASE g \in {"name", "surname"}
    <3>1. PICK hire \in Hires : values[g] = {NameOf[hire][g]}
      BY <2>3 DEF Written
    <3>2. w = NameOf[hire][g] /\ Lower[w] \in d.values[f] /\ f \in Fields
      BY <1>2, <1>5, <2>1, <3>1
    <3>3. Lower[NameOf[hire][g]] # Lower[w]
      BY <2>3, <3>2 DEF TidyValues
    <3> QED
      BY <3>2, <3>3
  <2> QED
    BY <1>2, <2>2, <2>3
\* An old value is its own key.
<1>6. \A f \in Given(e) : \A v \in values[f] : Lower[v] = v
  BY <1>2 DEF Written, TidyValues
<1>7. ASSUME NEW k
      PROVE  k \in (KeysOf(values) \ old) \cup KeysOf(e.values) <=> k \in KeysOf(new)
  <2>1. ASSUME k \in KeysOf(values) \ old PROVE k \in KeysOf(new)
    <3>1. PICK f \in AllFields : \E v \in values[f] : k = Lower[v]
      BY <1>3, <2>1
    <3>2. f \notin Given(e)
      BY <1>6, <2>1, <3>1
    <3> QED
      BY <1>1, <1>3, <3>1, <3>2
  <2>2. ASSUME k \in KeysOf(e.values) PROVE k \in KeysOf(new)
    <3>1. PICK f \in Fields : \E v \in e.values[f] : k = Lower[v]
      BY <1>3, <2>2
    <3> QED
      BY <1>1, <1>2, <1>3, <3>1
  <2>3. ASSUME k \in KeysOf(new), k \notin KeysOf(e.values)
        PROVE  k \in KeysOf(values) \ old
    <3>1. PICK f \in AllFields : \E v \in new[f] : k = Lower[v]
      BY <1>3, <2>3
    <3>2. f \notin Given(e) /\ new[f] = values[f]
      BY <1>1, <1>2, <1>3, <2>3, <3>1
    <3>3. k \in KeysOf(values)
      BY <1>3, <3>1, <3>2
    <3>4. k \notin old
      BY <1>5, <3>1, <3>2
    <3> QED
      BY <3>3, <3>4
  <2> QED
    BY <2>1, <2>2, <2>3
<1> QED
  BY <1>4, <1>7 DEF new

----------------------------------------------------------------------------
(* One call at a time *)

LEMMA InitIInv == Init => IInv
<1> SUFFICES ASSUME Init PROVE IInv
  OBVIOUS
<1>1. Busy = {} /\ Live = {} /\ DOMAIN employees = {}
  BY DEF Init, Busy, Live
<1>2. \A h \in Handlers : handlers[h].op = "idle"
  BY DEF Init, Idle
<1> QED
  BY <1>1, <1>2 DEF IInv, Init

\* Beside a handler that is busy no other is.
LEMMA OthersIdle ==
  ASSUME IInv, NEW h \in Handlers, handlers[h].op # "idle"
  PROVE  \A g \in Handlers : g # h => handlers[g] = Idle
BY DEF IInv, Busy, Idle

LEMMA Alone ==
  ASSUME NEW h \in Handlers, \A g \in Handlers : g # h => handlers[g] = Idle, NEW l
  PROVE  /\ Pending(l) = IF handlers[h].op = "update" /\ handlers[h].login = l
                         THEN {h} ELSE {}
         /\ Indexing(l) = IF /\ handlers[h].op = "index"
                             /\ Login(handlers[h].hire, handlers[h].try) = l
                          THEN {h} ELSE {}
<1>1. \A g \in Handlers : g # h => handlers[g].op = "idle"
  BY DEF Idle
<1> QED
  BY <1>1 DEF Pending, Indexing

LEMMA AloneNext ==
  ASSUME NEW h \in Handlers, \A g \in Handlers : g # h => handlers'[g] = Idle, NEW l
  PROVE  /\ Pending(l)' = IF handlers'[h].op = "update" /\ handlers'[h].login = l
                          THEN {h} ELSE {}
         /\ Indexing(l)' = IF /\ handlers'[h].op = "index"
                              /\ Login(handlers'[h].hire, handlers'[h].try) = l
                           THEN {h} ELSE {}
         /\ \A g1, g2 \in Busy' : g1 = g2
<1>1. \A g \in Handlers : g # h => handlers'[g].op = "idle"
  BY DEF Idle
<1> QED
  BY <1>1 DEF Pending, Indexing, Busy

\* With nothing pending and no task alive, the index has what the row holds.
LEMMA Settled ==
  ASSUME NEW l, Live = {}, Pending(l) = {}, Indexing(l) = {}
  PROVE  Follows(l) <=> KeysFor(l) = Holds(l)
BY DEF Follows, Target

LEMMA SettledNext ==
  ASSUME NEW l, Live' = {}, Pending(l)' = {}, Indexing(l)' = {}
  PROVE  Follows(l)' <=> KeysFor(l)' = Holds(l)'
BY DEF Follows, Target

\* A step of the only busy handler that begins or ends nothing for the index.
LEMMA CalmStep ==
  ASSUME IInv, NEW h \in Handlers, UNCHANGED <<employees, index>>,
         \A g \in Handlers : g # h => handlers[g] = Idle /\ handlers'[g] = Idle,
         handlers[h].op \notin {"index", "update"},
         handlers'[h].op \notin {"index", "update"},
         \/ Live = {} /\ Live' = {}
         \/ tasks' = tasks /\ handlers'[h].op \in {"idle", "team"},
         handlers'[h].op \in {"idle", "login", "insert", "team", "edit", "clear", "clearing"},
         handlers'[h].op = "insert" =>
           Login(handlers'[h].hire, handlers'[h].try) \notin DOMAIN employees,
         handlers'[h].op = "edit" =>
           /\ handlers'[h].login \in DOMAIN employees
           /\ handlers'[h].old =
                UNION {employees[handlers'[h].login].values[f] :
                         f \in Given(handlers'[h].edit)}
  PROVE  IInv'
<1>1. /\ \A g1, g2 \in Busy' : g1 = g2
      /\ \A l : Pending(l)' = {} /\ Indexing(l)' = {}
      /\ \A l : Pending(l) = {} /\ Indexing(l) = {}
  BY Alone, AloneNext
<1>2. \A g \in Handlers : g # h => handlers'[g].op = "idle"
  BY DEF Idle
<1>3. ASSUME NEW l \in DOMAIN employees PROVE Written(employees[l].values)' /\ Follows(l)'
  <2>1. Written(employees[l].values) /\ Follows(l)
    BY DEF IInv
  <2>2. Written(employees[l].values)'
    BY <2>1 DEF Written
  <2>3. Follows(l)'
    <3>1. CASE Live = {} /\ Live' = {}
      BY <1>1, <2>1, <3>1, Settled, SettledNext DEF KeysFor, Holds
    <3>2. CASE tasks' = tasks
      BY <1>1, <2>1, <3>2 DEF Follows, Target, Holds, KeysFor, Left, Live
    <3> QED
      BY <3>1, <3>2
  <2> QED
    BY <2>2, <2>3
<1>4. /\ \A i, j \in Live' : i = j
      /\ \A g \in Handlers : handlers'[g].op \notin {"idle", "team", "update"} => Live' = {}
  BY <1>2 DEF IInv, Live
<1>5. \A i \in Live' :
        /\ tasks'[i].login \in DOMAIN employees'
        /\ tasks'[i].step \in {"remove", "insert"}
        /\ KeysOf(tasks'[i].new) \subseteq Values
        /\ ~Clash(tasks'[i].new)
  BY DEF IInv, Live
<1>6. \A g \in Handlers :
        LET a == handlers'[g] IN
        /\ a.op \notin {"unindex", "delete"}
        /\ a.op = "insert" => Login(a.hire, a.try) \notin DOMAIN employees'
        /\ a.op # "index"
        /\ a.op \in {"edit", "update"} => a.login \in DOMAIN employees'
        /\ a.op = "edit" =>
             a.old = UNION {employees'[a.login].values[f] : f \in Given(a.edit)}
  <2> SUFFICES ASSUME NEW g \in Handlers
               PROVE  LET a == handlers'[g] IN
                      /\ a.op \notin {"unindex", "delete"}
                      /\ a.op = "insert" => Login(a.hire, a.try) \notin DOMAIN employees'
                      /\ a.op # "index"
                      /\ a.op \in {"edit", "update"} => a.login \in DOMAIN employees'
                      /\ a.op = "edit" =>
                           a.old = UNION {employees'[a.login].values[f] : f \in Given(a.edit)}
    OBVIOUS
  <2>1. CASE g = h
    BY <2>1
  <2>2. CASE g # h
    BY <1>2, <2>2
  <2> QED
    BY <2>1, <2>2
<1>7. \A k \in Values : index'[k] \subseteq DOMAIN employees'
  BY DEF IInv
<1> QED
  BY <1>1, <1>3, <1>4, <1>5, <1>6, <1>7 DEF IInv

LEMMA TestedCall ==
  ASSUME TidyValues, DInv, IInv, Quiet, NEW h \in Handlers, Call(h)
  PROVE  IInv'
<1>1. /\ \A g \in Handlers : handlers[g] = Idle
      /\ Live = {}
  BY DEF Quiet, Live
<1>2. UNCHANGED <<employees, index, tasks>>
  BY DEF Call, BeginAdd, BeginEdit, BeginRemove, BeginClear
<1>3. Live' = {}
  BY <1>1, <1>2 DEF Live
<1>4. ASSUME NEW state, Become(h, state),
             state.op \in {"login", "edit", "clear"},
             state.op = "edit" =>
               /\ state.login \in DOMAIN employees
               /\ state.old = UNION {employees[state.login].values[f] : f \in Given(state.edit)}
      PROVE  IInv'
  <2>1. /\ handlers'[h] = state
        /\ \A g \in Handlers : g # h => handlers'[g] = handlers[g]
    BY <1>4 DEF Become, DInv
  <2>2. handlers[h].op = "idle"
    BY <1>1 DEF Idle
  <2> QED
    BY <1>1, <1>2, <1>3, <1>4, <2>1, <2>2, CalmStep
<1>5. ASSUME NEW hire \in Hires, BeginAdd(h, hire) PROVE IInv'
  BY <1>4, <1>5 DEF BeginAdd
<1>6. ASSUME NEW l \in DOMAIN employees, NEW e \in Edits, BeginEdit(h, l, e) PROVE IInv'
  <2> DEFINE state == [op |-> "edit", login |-> l, edit |-> e,
                       old |-> UNION {employees[l].values[f] : f \in Given(e)}]
  <2>1. Become(h, state)
    BY <1>6 DEF BeginEdit
  <2>2. /\ state.op = "edit" /\ state.login = l /\ state.edit = e
        /\ state.old = UNION {employees[l].values[f] : f \in Given(e)}
    OBVIOUS
  <2> HIDE DEF state
  <2> QED
    BY <1>4, <2>1, <2>2
<1>7. CASE BeginClear(h)
  BY <1>4, <1>7 DEF BeginClear
<1> QED
  BY <1>5, <1>6, <1>7 DEF Call, TidyValues

LEMMA CalmHandlerStep ==
  ASSUME TidyValues, DInv, IInv, NEW h \in Handlers,
         TryLogin(h) \/ InsertTeam(h) \/ LockTasks(h) \/ PopTask(h) \/ UnlockTasks(h)
  PROVE  IInv'
<1>1. \A g \in Handlers : g # h => handlers[g] = Idle
  BY OthersIdle DEF TryLogin, InsertTeam, LockTasks, PopTask, UnlockTasks
<1>2. CASE TryLogin(h)
  <2> DEFINE a == handlers[h]
  <2>1. /\ a.op = "login" /\ UNCHANGED <<employees, index, tasks>>
        /\ a \in [op : {"login", "insert", "index", "team"}, hire : Hires,
                  try : 0 .. MaxCalls, password : 1 .. MaxCalls]
    BY <1>2, StateFields DEF TryLogin, DInv
  <2>2. Live = {} /\ Live' = {}
    BY <2>1 DEF IInv, Live
  <2>3. \A g \in Handlers : g # h => handlers'[g] = Idle
    BY <1>1, <1>2 DEF TryLogin, Become, DInv
  <2>4. \/ handlers'[h] = [a EXCEPT !.try = @ + 1]
        \/ /\ handlers'[h] = [a EXCEPT !.op = "insert"]
           /\ Login(a.hire, a.try) \notin DOMAIN employees
    BY <1>2 DEF TryLogin, Become, DInv
  <2>5. \/ handlers'[h].op = "login"
        \/ /\ handlers'[h].op = "insert"
           /\ Login(handlers'[h].hire, handlers'[h].try) \notin DOMAIN employees
    <3>1. CASE handlers'[h] = [a EXCEPT !.try = @ + 1]
      BY <2>1, <3>1
    <3>2. CASE handlers'[h] = [a EXCEPT !.op = "insert"]
      <4>1. /\ handlers'[h].op = "insert" /\ handlers'[h].hire = a.hire
            /\ handlers'[h].try = a.try
        BY <2>1, <3>2
      <4> QED
        BY <2>1, <2>4, <4>1, <3>2
    <3> QED
      BY <2>4, <3>1, <3>2
  <2> QED
    BY <1>1, <2>1, <2>2, <2>3, <2>5, CalmStep
<1>3. CASE InsertTeam(h)
  <2>1. /\ handlers[h].op = "team" /\ UNCHANGED <<employees, index, tasks>>
        /\ handlers'[h] = Idle /\ Idle.op = "idle"
        /\ \A g \in Handlers : g # h => handlers'[g] = Idle
    BY <1>1, <1>3 DEF InsertTeam, Become, DInv, Idle
  <2> QED
    BY <1>1, <2>1, CalmStep
<1>4. CASE LockTasks(h) \/ PopTask(h) \/ UnlockTasks(h)
  <2>1. handlers[h].op \in {"clear", "clearing"} /\ UNCHANGED <<employees, index>>
    BY <1>4 DEF LockTasks, PopTask, UnlockTasks
  <2>2. Live = {} /\ tasks \in Seq(TaskStates)
    BY <2>1 DEF IInv, DInv
  <2>3. Live' = {}
    <3>1. CASE PopTask(h)
      <4>1. tasks' = Tail(tasks) /\ tasks # <<>>
        BY <3>1 DEF PopTask
      <4>2. \A i \in DOMAIN tasks' : i + 1 \in DOMAIN tasks /\ tasks'[i] = tasks[i + 1]
        BY <2>2, <4>1
      <4> QED
        BY <2>2, <4>2 DEF Live
    <3>2. CASE tasks' = tasks
      BY <2>2, <3>2 DEF Live
    <3> QED
      BY <1>4, <3>1, <3>2 DEF LockTasks, UnlockTasks
  <2>4. /\ \A g \in Handlers : g # h => handlers'[g] = Idle
        /\ handlers'[h].op \in {"idle", "clearing"}
    BY <1>1, <1>4 DEF LockTasks, PopTask, UnlockTasks, Become, DInv, Idle
  <2> QED
    BY <1>1, <2>1, <2>2, <2>3, <2>4, CalmStep
<1> QED
  BY <1>2, <1>3, <1>4

\* The new row is in no key of the index: its login is that of nobody.
LEMMA InsertEmployeeStep ==
  ASSUME TidyValues, DInv, IInv, NEW h \in Handlers, InsertEmployee(h)
  PROVE  IInv'
<1> DEFINE a == handlers[h]
           login == Login(a.hire, a.try)
           row == NewRow(a.hire, a.password)
<1>1. /\ a.op = "insert" /\ UNCHANGED <<index, tasks>>
      /\ employees' = [l \in DOMAIN employees \cup {login} |->
                         IF l \in DOMAIN employees THEN employees[l] ELSE row]
      /\ handlers'[h] = [a EXCEPT !.op = "index"]
      /\ \A g \in Handlers : g # h => handlers'[g] = handlers[g]
  BY DEF InsertEmployee, Become, DInv
<1>2. \A g \in Handlers : g # h => handlers[g] = Idle /\ handlers'[g] = Idle
  BY <1>1, OthersIdle
<1>3. \A g \in Handlers : g # h => handlers'[g].op = "idle"
  BY <1>2 DEF Idle
<1>4. /\ handlers'[h].op = "index" /\ handlers'[h].hire = a.hire
      /\ handlers'[h].try = a.try /\ handlers'[h].password = a.password
      /\ a.hire \in Hires /\ a.password \in 1 .. MaxCalls
  <2>1. a \in [op : {"login", "insert", "index", "team"}, hire : Hires,
               try : 0 .. MaxCalls, password : 1 .. MaxCalls]
    BY <1>1, StateFields DEF DInv
  <2> QED
    BY <1>1, <2>1
<1>5. Live = {} /\ Live' = {} /\ login \notin DOMAIN employees
  BY <1>1 DEF IInv, Live
<1> HIDE DEF login, row
<1>6. /\ DOMAIN employees' = DOMAIN employees \cup {login}
      /\ \A l \in DOMAIN employees : employees'[l] = employees[l]
      /\ employees'[login] = row
  BY <1>1, <1>5
<1>7. /\ \A g1, g2 \in Busy' : g1 = g2
      /\ \A l : Pending(l) = {} /\ Indexing(l) = {}
      /\ \A l : Pending(l)' = {} /\ Indexing(l)' = IF l = login THEN {h} ELSE {}
  <2>1. \A l : Pending(l) = {} /\ Indexing(l) = {}
    BY <1>1, <1>2, Alone
  <2>2. login = Login(handlers'[h].hire, handlers'[h].try)
    BY <1>4 DEF login
  <2>3. \A l : Pending(l)' = {} /\ Indexing(l)' = IF l = login THEN {h} ELSE {}
    BY <1>2, <1>4, <2>2, AloneNext
  <2> QED
    BY <1>2, <2>1, <2>3, AloneNext
<1>8. ASSUME NEW l \in DOMAIN employees'
      PROVE  Written(employees[l].values)' /\ Follows(l)'
  <2>1. CASE l = login
    <3>1. Written(row.values)
      BY <1>4, NewRowsFit DEF row
    <3>2. KeysFor(l)' = {}
      BY <1>1, <1>5, <2>1 DEF KeysFor, IInv
    <3>3. Follows(l)'
      BY <1>5, <1>7, <2>1, <3>2 DEF Follows
    <3>4. Written(employees[l].values)'
      BY <1>6, <2>1, <3>1 DEF Written
    <3> QED
      BY <3>3, <3>4
  <2>2. CASE l # login
    <3>1. l \in DOMAIN employees /\ employees'[l] = employees[l]
      BY <1>6, <2>2
    <3>2. Written(employees[l].values) /\ Follows(l)
      BY <3>1 DEF IInv
    <3>3. Written(employees[l].values)'
      BY <3>1, <3>2 DEF Written
    <3>4. Follows(l)'
      BY <1>1, <1>5, <1>7, <2>2, <3>1, <3>2, Settled, SettledNext DEF KeysFor, Holds
    <3> QED
      BY <3>3, <3>4
  <2> QED
    BY <2>1, <2>2
<1>9. \A g \in Handlers :
        LET b == handlers'[g] IN
        /\ b.op \in {"idle", "index"}
        /\ b.op = "index" =>
             /\ Login(b.hire, b.try) \in DOMAIN employees'
             /\ employees'[Login(b.hire, b.try)] = NewRow(b.hire, b.password)
  BY <1>3, <1>4, <1>6 DEF login, row
<1>10. \A k \in Values : index'[k] \subseteq DOMAIN employees'
  BY <1>1, <1>6 DEF IInv
<1> QED
  BY <1>5, <1>7, <1>8, <1>9, <1>10 DEF IInv

\* The first task of a call is the only one alive.
LEMMA OnlyTask ==
  ASSUME Live = {}, NEW task, task.step \in {"remove", "insert"}, Push(task)
  PROVE  /\ Live' = {1}
         /\ tasks'[1] = task
<1>1. tasks' = <<task>>
  BY DEF Push, DropFinished, Live
<1>2. ~Finished(task)
  BY DEF Finished
<1> QED
  BY <1>1, <1>2 DEF Live

\* A handler pushes its task: nothing but the queue and the handler moves.
LEMMA PushedStep ==
  ASSUME IInv, NEW h \in Handlers, Live = {},
         \A g \in Handlers : g # h => handlers[g] = Idle /\ handlers'[g] = Idle,
         UNCHANGED <<employees, index>>,
         NEW task, task.step \in {"remove", "insert"}, Push(task),
         NEW login \in DOMAIN employees, task.login = login,
         KeysOf(task.new) \subseteq Values, ~Clash(task.new),
         handlers'[h].op \in {"team", "update"},
         handlers'[h].op = "update" => handlers'[h].login = login,
         \A l : l # login => Pending(l) = {} /\ Indexing(l) = {},
         (KeysFor(login) \ (IF task.step = "remove" THEN task.old ELSE {}))
           \cup KeysOf(task.new) = Target(login)'
  PROVE  IInv'
<1>1. Live' = {1} /\ tasks'[1] = task
  BY OnlyTask
<1>2. /\ \A g1, g2 \in Busy' : g1 = g2
      /\ \A l : l # login => Pending(l)' = {} /\ Indexing(l)' = {}
  BY AloneNext
<1>3. ASSUME NEW l \in DOMAIN employees
      PROVE  Written(employees[l].values)' /\ Follows(l)'
  <2>1. Written(employees[l].values)'
    BY DEF IInv, Written
  <2>2. CASE l = login
    <3>1. Left(1, l)' = Target(l)'
      BY <1>1, <2>2 DEF Left, KeysFor
    <3> QED
      BY <1>1, <2>1, <2>2, <3>1 DEF Follows
  <2>3. CASE l # login
    <3>1. KeysFor(l) = Holds(l)
      BY <2>3, Settled DEF IInv
    <3>2. KeysFor(l)' = Holds(l)'
      BY <3>1 DEF KeysFor, Holds
    <3>3. Follows(l)'
      BY <1>1, <1>2, <2>3, <3>2 DEF Follows, Target
    <3> QED
      BY <2>1, <3>3
  <2> QED
    BY <2>2, <2>3
<1>4. \A g \in Handlers :
        /\ handlers'[g].op \in {"idle", "team", "update"}
        /\ handlers'[g].op = "update" => handlers'[g].login \in DOMAIN employees'
  BY DEF Idle
<1>5. /\ \A i, j \in Live' : i = j
      /\ \A i \in Live' :
           /\ tasks'[i].login \in DOMAIN employees'
           /\ tasks'[i].step \in {"remove", "insert"}
           /\ KeysOf(tasks'[i].new) \subseteq Values
           /\ ~Clash(tasks'[i].new)
  BY <1>1
<1>6. \A k \in Values : index'[k] \subseteq DOMAIN employees'
  BY DEF IInv
<1> QED
  BY <1>2, <1>3, <1>4, <1>5, <1>6 DEF IInv

LEMMA PushIndexStep ==
  ASSUME TidyValues, DInv, IInv, NEW h \in Handlers, PushIndex(h)
  PROVE  IInv'
<1> DEFINE a == handlers[h]
<1>0. PICK login, row, task :
        /\ login = Login(a.hire, a.try)
        /\ row = NewRow(a.hire, a.password)
        /\ task = IndexTask(login, row.values)
  OBVIOUS
<1>1. /\ a.op = "index" /\ Push(task) /\ UNCHANGED <<employees, index>>
      /\ handlers'[h] = [a EXCEPT !.op = "team"]
      /\ \A g \in Handlers : g # h => handlers'[g] = handlers[g]
  BY <1>0 DEF PushIndex, Become, DInv
<1>2. \A g \in Handlers : g # h => handlers[g] = Idle /\ handlers'[g] = Idle
  BY <1>1, OthersIdle
<1>3. /\ a.hire \in Hires /\ a.password \in 1 .. MaxCalls
      /\ handlers'[h].op = "team"
  <2>1. a \in [op : {"login", "insert", "index", "team"}, hire : Hires,
               try : 0 .. MaxCalls, password : 1 .. MaxCalls]
    BY <1>1, StateFields DEF DInv
  <2> QED
    BY <1>1, <2>1
<1>4. /\ Live = {} /\ login \in DOMAIN employees /\ employees[login] = row
      /\ \A k \in Values : index[k] \subseteq DOMAIN employees
  BY <1>0, <1>1 DEF IInv
<1>5. ~Clash(row.values) /\ KeysOf(row.values) \subseteq Values
  BY <1>0, <1>3, NewRowsFit, NewRowTypes, KeysTypes
<1>6. /\ task.step = "insert" /\ task.login = login
      /\ task.new = row.values
  BY <1>0 DEF IndexTask
<1>7. \A l : Pending(l) = {} /\ Indexing(l) = IF l = login THEN {h} ELSE {}
  BY <1>0, <1>1, <1>2, Alone
<1>8. KeysFor(login) = {}
  <2>1. Follows(login)
    BY <1>4 DEF IInv
  <2> QED
    BY <1>4, <1>7, <2>1 DEF Follows
<1>9. Target(login)' = KeysOf(row.values)
  <2>1. Pending(login)' = {}
    BY <1>2, <1>3, AloneNext
  <2> QED
    BY <1>1, <1>4, <2>1 DEF Target, Holds
<1> QED
  <2>1. (KeysFor(login) \ (IF task.step = "remove" THEN task.old ELSE {}))
           \cup KeysOf(task.new) = Target(login)'
    BY <1>6, <1>8, <1>9
  <2>2. \A l : l # login => Pending(l) = {} /\ Indexing(l) = {}
    BY <1>7
  <2>3. /\ task.step \in {"remove", "insert"}
        /\ KeysOf(task.new) \subseteq Values /\ ~Clash(task.new)
    BY <1>5, <1>6
  <2>4. /\ handlers'[h].op \in {"team", "update"}
        /\ handlers'[h].op = "update" => handlers'[h].login = login
    BY <1>3
  <2>5. /\ Live = {} /\ login \in DOMAIN employees /\ task.login = login
        /\ Push(task) /\ UNCHANGED <<employees, index>>
    BY <1>1, <1>4, <1>6
  <2> QED
    BY <1>2, <2>1, <2>2, <2>3, <2>4, <2>5, PushedStep

LEMMA PushEditStep ==
  ASSUME TidyValues, DInv, IInv, NEW h \in Handlers, PushEdit(h)
  PROVE  IInv'
<1> DEFINE e == handlers[h]
<1>0. PICK login, edit, task :
        /\ login = e.login
        /\ edit = e.edit
        /\ task = EditTask(login, e.old, edit.values)
  OBVIOUS
<1>1. /\ e.op = "edit" /\ Push(task) /\ UNCHANGED <<employees, index>>
      /\ handlers'[h] = [e EXCEPT !.op = "update"]
      /\ \A g \in Handlers : g # h => handlers'[g] = handlers[g]
  BY <1>0 DEF PushEdit, Become, DInv
<1>2. \A g \in Handlers : g # h => handlers[g] = Idle /\ handlers'[g] = Idle
  BY <1>1, OthersIdle
<1>3. /\ edit \in Edits
      /\ handlers'[h].op = "update" /\ handlers'[h].login = login
      /\ handlers'[h].edit = edit
  <2>1. e \in [op : {"edit", "update"}, login : Logins, edit : Edits, old : SUBSET Values]
    BY <1>1, StateFields DEF DInv
  <2> QED
    BY <1>0, <1>1, <2>1
<1>4. /\ Live = {} /\ login \in DOMAIN employees
      /\ e.old = UNION {employees[login].values[f] : f \in Given(edit)}
  BY <1>0, <1>1 DEF IInv
<1>5. ~Clash(edit.values) /\ KeysOf(edit.values) \subseteq Values
  BY <1>3, EditsDoNotClash, EditTypes
<1>6. /\ task.step = "remove" /\ task.login = login
      /\ task.old = e.old /\ task.new = edit.values
  BY <1>0 DEF EditTask
<1>7. \A l : Pending(l) = {} /\ Indexing(l) = {}
  BY <1>1, <1>2, Alone
<1>8. KeysFor(login) = KeysOf(employees[login].values)
  BY <1>4, <1>7, Settled DEF IInv, Holds
<1>9. Target(login)' = KeysOf(Edited(employees[login].values, edit))
  <2>1. Pending(login)' = {h}
    BY <1>2, <1>3, AloneNext
  <2>2. employees' = employees
    BY <1>1
  <2> QED
    BY <1>3, <2>1, <2>2 DEF Target
<1>10. (KeysFor(login) \ e.old) \cup KeysOf(edit.values) = Target(login)'
  <2>1. Written(employees[login].values)
    BY <1>4 DEF IInv
  <2>2. employees[login].values \in [AllFields -> SUBSET Values]
    BY <1>4 DEF DInv, TypeOK
  <2> QED
    BY <1>3, <1>4, <1>8, <1>9, <2>1, <2>2, EditKeys
<1> QED
  <2>1. (KeysFor(login) \ (IF task.step = "remove" THEN task.old ELSE {}))
           \cup KeysOf(task.new) = Target(login)'
    BY <1>6, <1>10
  <2>3. /\ task.step \in {"remove", "insert"}
        /\ KeysOf(task.new) \subseteq Values /\ ~Clash(task.new)
    BY <1>5, <1>6
  <2>4. /\ handlers'[h].op \in {"team", "update"}
        /\ handlers'[h].op = "update" => handlers'[h].login = login
    BY <1>3
  <2>5. /\ Live = {} /\ login \in DOMAIN employees /\ task.login = login
        /\ Push(task) /\ UNCHANGED <<employees, index>>
    BY <1>1, <1>4, <1>6
  <2>6. \A l : l # login => Pending(l) = {} /\ Indexing(l) = {}
    BY <1>7
  <2> QED
    BY <1>2, <2>1, <2>3, <2>4, <2>5, <2>6, PushedStep

\* The profile is written: what was pending is what the row holds.
LEMMA UpdateProfileStep ==
  ASSUME TidyValues, DInv, IInv, NEW h \in Handlers, UpdateProfile(h)
  PROVE  IInv'
<1> DEFINE e == handlers[h]
           login == e.login
<1>1. /\ e.op = "update" /\ UNCHANGED <<index, tasks>>
      /\ handlers'[h] = Idle
      /\ \A g \in Handlers : g # h => handlers'[g] = handlers[g]
  BY DEF UpdateProfile, Become, DInv
<1>2. \A g \in Handlers : g # h => handlers[g] = Idle /\ handlers'[g] = Idle
  BY <1>1, OthersIdle
<1>3. e.edit \in Edits /\ login \in DOMAIN employees
  <2>1. e \in [op : {"edit", "update"}, login : Logins, edit : Edits, old : SUBSET Values]
    BY <1>1, StateFields DEF DInv
  <2> QED
    BY <1>1, <2>1 DEF IInv
<1>4. /\ DOMAIN employees' = DOMAIN employees
      /\ \A l \in DOMAIN employees : l # login => employees'[l] = employees[l]
      /\ employees'[login].values = Edited(employees[login].values, e.edit)
  BY <1>3 DEF UpdateProfile, Edited
<1>5. /\ \A g1, g2 \in Busy' : g1 = g2
      /\ \A l : Pending(l) = (IF l = login THEN {h} ELSE {}) /\ Indexing(l) = {}
      /\ \A l : Pending(l)' = {} /\ Indexing(l)' = {}
  <2>1. \A l : Pending(l) = (IF l = login THEN {h} ELSE {}) /\ Indexing(l) = {}
    BY <1>1, <1>2, Alone
  <2>2. handlers'[h].op = "idle"
    BY <1>1 DEF Idle
  <2> QED
    BY <1>2, <2>1, <2>2, AloneNext
<1>6. ASSUME NEW l \in DOMAIN employees
      PROVE  Written(employees[l].values)' /\ Follows(l)'
  <2>1. Written(employees[l].values) /\ Follows(l)
    BY DEF IInv
  <2>2. Target(l)' = Target(l) /\ Written(employees[l].values)'
    <3>1. CASE l = login
      <4>1. Target(l) = KeysOf(Edited(employees[login].values, e.edit))
        BY <1>5, <3>1 DEF Target
      <4>2. Target(l)' = KeysOf(Edited(employees[login].values, e.edit))
        BY <1>4, <1>5, <3>1 DEF Target, Holds
      <4>3. employees[login].values \in [AllFields -> SUBSET Values]
        BY <1>3 DEF DInv, TypeOK
      <4>4. Written(Edited(employees[login].values, e.edit))
        BY <1>3, <2>1, <3>1, <4>3, EditKeys
      <4>5. Written(employees[l].values)'
        BY <1>4, <3>1, <4>4 DEF Written
      <4> QED
        BY <4>1, <4>2, <4>5
    <3>2. CASE l # login
      BY <1>4, <1>5, <2>1, <3>2 DEF Target, Holds, Written
    <3> QED
      BY <3>1, <3>2
  <2>3. Follows(l)'
    BY <1>1, <1>5, <2>1, <2>2 DEF Follows, Live, Left, KeysFor
  <2> QED
    BY <2>2, <2>3
<1>7. \A g \in Handlers : handlers'[g].op = "idle"
  BY <1>1, <1>2 DEF Idle
<1>8. /\ \A i, j \in Live' : i = j
      /\ \A i \in Live' :
           /\ tasks'[i].login \in DOMAIN employees'
           /\ tasks'[i].step \in {"remove", "insert"}
           /\ KeysOf(tasks'[i].new) \subseteq Values
           /\ ~Clash(tasks'[i].new)
  BY <1>1, <1>4 DEF IInv, Live
<1>9. \A k \in Values : index'[k] \subseteq DOMAIN employees'
  BY <1>1, <1>4 DEF IInv
<1> QED
  BY <1>4, <1>5, <1>6, <1>7, <1>8, <1>9 DEF IInv

\* A task does one of its statements: the index comes closer to what it will
\* have.
LEMMA RunTaskStep ==
  ASSUME DInv, IInv, NEW i \in DOMAIN tasks, RunTask(i)
  PROVE  IInv'
<1>0. PICK login, old, new :
        tasks[i].login = login /\ tasks[i].old = old /\ tasks[i].new = new
  OBVIOUS
<1>1. /\ Live = {i}
      /\ tasks[i].step \in {"remove", "insert"}
      /\ KeysOf(new) \subseteq Values /\ ~Clash(new)
      /\ login \in DOMAIN employees
      /\ UNCHANGED <<employees, handlers>>
  <2>1. i \in Live
    BY DEF RunTask, RemoveOldKeys, InsertNewKeys, FailDelete, Live, Finished
  <2> QED
    BY <1>0, <2>1 DEF IInv, RunTask
<1>2. \A h \in Handlers : handlers[h].op \in {"idle", "team", "update"}
  BY <1>1 DEF IInv
<1>3. \A l : /\ Indexing(l) = {} /\ Indexing(l)' = {}
             /\ Target(l)' = Target(l)
  <2>1. \A l : Indexing(l) = {} /\ Indexing(l)' = {}
    BY <1>1, <1>2 DEF Indexing
  <2>2. \A l : Pending(l)' = Pending(l)
    BY <1>1 DEF Pending
  <2>3. \A l : Target(l)' = Target(l)
    BY <1>1, <2>2 DEF Target, Holds
  <2> QED
    BY <2>1, <2>3
<1>4. /\ Left(i, login) = Target(login)
      /\ \A l \in DOMAIN employees : l # login => KeysFor(l) = Target(l)
  BY <1>0, <1>1, <1>3 DEF IInv, Follows
<1>5. /\ tasks \in Seq(TaskStates) /\ tasks[i] \in TaskStates
      /\ \A j \in DOMAIN tasks : j # i => tasks[j].step = "finished"
      /\ \A k \in Values : index[k] \subseteq DOMAIN employees
  <2>1. \A j \in DOMAIN tasks : j # i => tasks[j].step = "finished"
    BY <1>1 DEF Live, Finished
  <2> QED
    BY <2>1 DEF DInv, IInv
\* What either statement leaves of the index and the task.
<1>6. /\ \A j \in Live' : /\ j = i
                          /\ tasks'[j].login = login /\ tasks'[j].new = new
                          /\ tasks'[j].step = "insert"
      /\ \A l : l # login => KeysFor(l)' = KeysFor(l)
      /\ Live' # {} => KeysFor(login)' \cup KeysOf(new) = Left(i, login)
      /\ Live' = {} => KeysFor(login)' = Left(i, login)
      /\ \A k \in Values : index'[k] \subseteq DOMAIN employees
  <2>1. CASE RemoveOldKeys(i)
    <3>1. /\ tasks[i].step = "remove"
          /\ \A k \in Values : index'[k] = IF k \in old THEN index[k] \ {login} ELSE index[k]
          /\ DOMAIN tasks' = DOMAIN tasks
          /\ \A j \in DOMAIN tasks : j # i => tasks'[j] = tasks[j]
      BY <1>0, <1>5, <2>1 DEF RemoveOldKeys, TaskGoes
    <3>2. tasks'[i].step = "insert" /\ tasks'[i].new = new /\ tasks'[i].login = login
      BY <1>0, <1>5, <2>1 DEF RemoveOldKeys, TaskGoes, TaskStates
    <3>3. Live' = {i}
      <4>1. \A j \in DOMAIN tasks' : tasks'[j].step = "finished" <=> j # i
        BY <1>5, <3>1, <3>2
      <4>2. i \in DOMAIN tasks'
        BY <3>1
      <4> QED
        BY <4>1, <4>2 DEF Live, Finished
    <3>4. /\ \A l : l # login => KeysFor(l)' = KeysFor(l)
          /\ KeysFor(login)' = KeysFor(login) \ old
      BY <3>1 DEF KeysFor
    <3>5. Left(i, login) = (KeysFor(login) \ old) \cup KeysOf(new)
      BY <1>0, <3>1 DEF Left
    <3>6. \A k \in Values : index'[k] \subseteq DOMAIN employees
      BY <1>5, <3>1
    <3> QED
      BY <3>2, <3>3, <3>4, <3>5, <3>6
  <2>2. CASE InsertNewKeys(i)
    <3>1. /\ tasks[i].step = "insert"
          /\ \A k \in Values : index'[k] = IF k \in KeysOf(new)
                                           THEN index[k] \cup {login} ELSE index[k]
          /\ DOMAIN tasks' = DOMAIN tasks
          /\ \A j \in DOMAIN tasks : j # i => tasks'[j] = tasks[j]
      BY <1>0, <1>1, <1>5, <2>2 DEF InsertNewKeys, TaskGoes
    <3>2. tasks'[i].step = "finished"
      BY <1>5, <2>2 DEF InsertNewKeys, TaskGoes, TaskStates
    <3>3. Live' = {}
      <4>1. \A j \in DOMAIN tasks' : tasks'[j].step = "finished"
        BY <1>5, <3>1, <3>2
      <4> QED
        BY <4>1 DEF Live, Finished
    <3>4. /\ \A l : l # login => KeysFor(l)' = KeysFor(l)
          /\ KeysFor(login)' = KeysFor(login) \cup KeysOf(new)
      <4>1. \A k \in Values : \A l : l \in index'[k] <=>
              l \in index[k] \/ (k \in KeysOf(new) /\ l = login)
        BY <3>1
      <4>2. \A l : l # login => KeysFor(l)' = KeysFor(l)
        BY <4>1 DEF KeysFor
      <4>3. KeysFor(login)' = KeysFor(login) \cup KeysOf(new)
        BY <1>1, <4>1 DEF KeysFor
      <4> QED
        BY <4>2, <4>3
    <3>5. Left(i, login) = KeysFor(login) \cup KeysOf(new)
      BY <1>0, <3>1 DEF Left
    <3>6. \A k \in Values : index'[k] \subseteq DOMAIN employees
      BY <1>1, <1>5, <3>1, ZenonT(30)
    <3> QED
      BY <3>3, <3>4, <3>5, <3>6
  <2> QED
    BY <1>1, <2>1, <2>2 DEF RunTask, FailDelete
<1>7. ASSUME NEW l \in DOMAIN employees
      PROVE  Written(employees[l].values)' /\ Follows(l)'
  <2>1. Written(employees[l].values)'
    BY <1>1 DEF IInv, Written
  <2>2. CASE l # login
    <3>1. KeysFor(l)' = Target(l)'
      BY <1>3, <1>4, <1>6, <2>2
    <3>2. \A j \in Live' : tasks'[j].login # l
      BY <1>6, <2>2
    <3> QED
      BY <1>3, <2>1, <3>1, <3>2 DEF Follows
  <2>3. CASE l = login
    <3>1. \A j \in Live' : Left(j, l)' = KeysFor(l)' \cup KeysOf(new)
      BY <1>6 DEF Left
    <3>2. \A j \in Live' : Left(j, l)' = Target(l)'
      BY <1>3, <1>4, <1>6, <2>3, <3>1
    <3>3. Live' = {} => KeysFor(l)' = Target(l)'
      BY <1>3, <1>4, <1>6, <2>3
    <3>4. (\A j \in Live' : tasks'[j].login # l) => Live' = {}
      BY <1>6, <2>3
    <3> QED
      BY <1>3, <2>1, <3>2, <3>3, <3>4 DEF Follows
  <2> QED
    BY <2>2, <2>3
<1>8. /\ \A j1, j2 \in Live' : j1 = j2
      /\ \A j \in Live' :
           /\ tasks'[j].login \in DOMAIN employees'
           /\ tasks'[j].step \in {"remove", "insert"}
           /\ KeysOf(tasks'[j].new) \subseteq Values
           /\ ~Clash(tasks'[j].new)
  BY <1>1, <1>6
<1>9. /\ \A g1, g2 \in Busy' : g1 = g2
      /\ \A h \in Handlers :
           /\ handlers'[h].op \in {"idle", "team", "update"}
           /\ handlers'[h].op = "update" => handlers'[h].login \in DOMAIN employees'
  BY <1>1, <1>2 DEF IInv, Busy
<1> QED
  BY <1>1, <1>6, <1>7, <1>8, <1>9 DEF IInv

LEMMA TestedIsNext == NextTested => Next
BY DEF NextTested, Next

LEMMA NextIInv ==
  ASSUME TidyValues, DInv, IInv, [NextTested]_vars
  PROVE  IInv'
<1>1. \A h \in Handlers : handlers[h].op \notin {"unindex", "delete"}
  BY DEF IInv
<1>2. ASSUME NEW h \in Handlers, LockStep(h) \/ FreeStep(h) PROVE IInv'
  BY <1>1, <1>2, PushIndexStep, PushEditStep, InsertEmployeeStep, UpdateProfileStep,
     CalmHandlerStep
     DEF LockStep, FreeStep, PushDelete, DeleteEmployee
<1>3. CASE UNCHANGED vars
  <2>1. ASSUME NEW l, Follows(l) PROVE Follows(l)'
    BY <1>3, <2>1 DEF vars, Follows, Target, Left, Pending, Indexing, Live, KeysFor, Holds
  <2>2. \A l \in DOMAIN employees : Written(employees[l].values)'
    BY <1>3 DEF vars, IInv, Written
  <2>3. Live' = Live /\ Busy' = Busy
    BY <1>3 DEF vars, Live, Busy
  <2> QED
    BY <1>3, <2>1, <2>2, <2>3 DEF vars, IInv
<1> QED
  BY <1>2, <1>3, TestedCall, RunTaskStep DEF NextTested, Runs

LEMMA SpecIInv ==
  ASSUME TidyValues
  PROVE  SpecTested => [](DInv /\ IInv)
<1>1. Init => DInv /\ IInv
  BY InitDInv, InitIInv
<1>2. DInv /\ IInv /\ [NextTested]_vars => (DInv /\ IInv)'
  BY NextDInv, NextIInv, TestedIsNext
<1> QED
  BY <1>1, <1>2, PTL DEF SpecTested

----------------------------------------------------------------------------
(* What searches find *)

LEMMA WhenQuiet ==
  ASSUME DInv, IInv, Quiet
  PROVE  /\ \A l \in DOMAIN employees : KeysFor(l) = Holds(l) /\ Holds(l) # {}
         /\ \A k \in Values : index[k] \subseteq DOMAIN employees
<1>1. Live = {} /\ \A h \in Handlers : handlers[h].op = "idle"
  BY DEF Quiet, Live, Idle
<1>2. \A l : Pending(l) = {} /\ Indexing(l) = {}
  BY <1>1 DEF Pending, Indexing
<1>3. ASSUME NEW l \in DOMAIN employees PROVE KeysFor(l) = Holds(l) /\ Holds(l) # {}
  <2>1. KeysFor(l) = Holds(l)
    BY <1>1, <1>2, Settled DEF IInv
  <2>2. PICK hire \in Hires : employees[l].values["name"] = {NameOf[hire]["name"]}
    BY DEF IInv, Written
  <2>3. "name" \in DOMAIN employees[l].values
    BY DEF DInv, TypeOK, AllFields
  <2>4. Lower[NameOf[hire]["name"]] \in Holds(l)
    BY <2>2, <2>3 DEF Holds, KeysOf, LowerAll
  <2> QED
    BY <2>1, <2>4
<1> QED
  BY <1>3 DEF IInv

\* Calls that come one after the other, with values the index can follow: the
\* employees that /v1/search/basic finds for a value are those who hold it.
THEOREM SearchFollows ==
  ASSUME TidyValues
  PROVE  SpecTested => []SearchFollowsEdits
<1>1. DInv /\ IInv => SearchFollowsEdits
  <2> SUFFICES ASSUME DInv, IInv, Quiet, NEW v \in Values
               PROVE  Found(v) = {l \in DOMAIN employees :
                                    Lower[v] \in KeysOf(employees[l].values)}
    BY DEF SearchFollowsEdits
  <2>1. Lower[v] \in Values
    BY NamesAssumption
  <2>2. \A l \in DOMAIN employees : l \in index[Lower[v]] <=> Lower[v] \in Holds(l)
    BY <2>1, WhenQuiet DEF KeysFor
  <2> QED
    BY <2>2 DEF Found, Holds
<1> QED
  BY <1>1, SpecIInv, PTL

LEMMA DistinctWords ==
  ASSUME NEW words \in Seq(Words), Distinct(words)
  PROVE  /\ IsFiniteSet(Range(words))
         /\ Cardinality(Range(words)) = Len(words)
<1>1. words \in Bijection(1 .. Len(words), Range(words))
  BY DEF Distinct, Bijection, Injection, Surjection, IsInjective, Range
<1>2. IsFiniteSet(1 .. Len(words)) /\ Cardinality(1 .. Len(words)) = Len(words)
  <2>1. Len(words) \in Nat /\ Len(words) \in Int /\ 1 \in Int
    OBVIOUS
  <2>2. /\ IsFiniteSet(1 .. Len(words))
        /\ Cardinality(1 .. Len(words)) = IF 1 > Len(words) THEN 0 ELSE Len(words) - 1 + 1
    BY <2>1, FS_Interval
  <2> QED
    BY <2>1, <2>2
<1> QED
  BY <1>1, <1>2, FS_Bijection DEF ExistsBijection

\* There are as many rows as words when every word is a key of somebody.
LEMMA RowsOfWords ==
  ASSUME NEW words \in Seq(Words), Distinct(words)
  PROVE  Cardinality(Rows(Range(words))) = Len(words)
           <=> \A k \in Range(words) : k \in Values /\ index[k] # {}
<1> DEFINE ks == {k \in Values \cap Range(words) : index[k] # {}}
           pairs == [k \in ks |-> <<k, index[k]>>]
<1>1. /\ IsFiniteSet(Range(words)) /\ Cardinality(Range(words)) = Len(words)
  BY DistinctWords
<1>2. ks \in SUBSET Range(words)
  OBVIOUS
<1>3. /\ IsFiniteSet(ks)
      /\ Cardinality(ks) = Len(words) <=> ks = Range(words)
  BY <1>1, <1>2, FS_Subset
<1>4. Rows(Range(words)) = {pairs[k] : k \in ks}
  BY DEF Rows
<1>5. pairs \in Bijection(ks, Rows(Range(words)))
  <2>1. pairs \in [ks -> Rows(Range(words))]
    BY <1>4
  <2>2. \A k \in ks : pairs[k][1] = k
    OBVIOUS
  <2>3. \A j, k \in ks : pairs[j] = pairs[k] => j = k
    BY <2>2
  <2>4. \A row \in Rows(Range(words)) : \E k \in ks : pairs[k] = row
    BY <1>4
  <2> HIDE DEF pairs, ks
  <2> QED
    BY <2>1, <2>3, <2>4 DEF Bijection, Injection, Surjection, IsInjective
<1>6. Cardinality(Rows(Range(words))) = Cardinality(ks)
  BY <1>3, <1>5, FS_Bijection DEF ExistsBijection
<1>7. ks = Range(words) <=> \A k \in Range(words) : k \in Values /\ index[k] # {}
  OBVIOUS
<1> QED
  BY <1>3, <1>6, <1>7

\* Then suggest intersects the rows of all full words, and leaves nobody out.
THEOREM SuggestFollows ==
  ASSUME TidyValues
  PROVE  SpecTested => []SuggestFollowsEdits
<1>1. DInv /\ IInv => SuggestFollowsEdits
  <2> SUFFICES ASSUME DInv, IInv, Quiet,
                      NEW words \in Queries, Distinct(words), NEW b \in Beginnings
               PROVE  Suggest(words, b) =
                        {l \in DOMAIN employees :
                           /\ Range(words) \subseteq Holds(l)
                           /\ \E k \in Holds(l) : <<k, b>> \in StartsWith}
    BY DEF SuggestFollowsEdits
  <2>1. words \in Seq(Words) /\ Len(words) \in Nat
    BY SearchAssumption
  <2>2. /\ \A l \in DOMAIN employees : \A k : k \in Holds(l) <=> k \in Values /\ l \in index[k]
        /\ \A k \in Values : index[k] \subseteq DOMAIN employees
    BY WhenQuiet DEF KeysFor
  <2> DEFINE begun == {index[k] : k \in {v \in Values : <<v, b>> \in StartsWith}}
  <2>3. \A l \in DOMAIN employees :
          l \in UNION begun <=> \E k \in Holds(l) : <<k, b>> \in StartsWith
    BY <2>2
  <2>4. Suggest(words, b) =
          (IF Cardinality(Rows(Range(words))) # Len(words) THEN {}
           ELSE {l \in UNION begun : \A row \in Rows(Range(words)) : l \in row[2]})
            \cap DOMAIN employees
    <3>1. (Len(words) + 1) - 1 = Len(words)
      BY <2>1
    <3> QED
      BY <3>1, Zenon DEF Suggest, GetSuggestIds
  <2>5. CASE \A k \in Range(words) : k \in Values /\ index[k] # {}
    <3>1. Cardinality(Rows(Range(words))) = Len(words)
      BY <2>1, <2>5, RowsOfWords
    <3>2. Rows(Range(words)) = {<<k, index[k]>> : k \in Range(words)}
      BY <2>5 DEF Rows
    <3>3. \A l : (\A row \in Rows(Range(words)) : l \in row[2])
                   <=> \A k \in Range(words) : l \in index[k]
      <4>1. \A k : <<k, index[k]>>[2] = index[k]
        OBVIOUS
      <4> QED
        BY <3>2, <4>1, Zenon
    <3>4. \A l \in DOMAIN employees :
            (\A k \in Range(words) : l \in index[k]) <=> Range(words) \subseteq Holds(l)
      BY <2>2, <2>5
    <3> HIDE DEF begun
    <3> QED
      BY <2>3, <2>4, <3>1, <3>3, <3>4
  <2>6. CASE \E k \in Range(words) : ~(k \in Values /\ index[k] # {})
    <3>1. Suggest(words, b) = {}
      BY <2>1, <2>4, <2>6, RowsOfWords
    <3>2. \A l \in DOMAIN employees : ~(Range(words) \subseteq Holds(l))
      BY <2>2, <2>6
    <3> QED
      BY <3>1, <3>2
  <2> QED
    BY <2>5, <2>6
<1> QED
  BY <1>1, SpecIInv, PTL

LEMMA MinOfTwo ==
  ASSUME NEW a \in Nat, NEW b \in Nat
  PROVE  Min({a, b}) = IF a <= b THEN a ELSE b
BY LeastElement

\* Then a full search leaves out only employees who match no better than all it
\* has found, when its limit is reached.
THEOREM FullSearchFinds ==
  ASSUME TidyValues
  PROVE  SpecTested => []FullSearchFindsBest
<1>1. DInv /\ IInv => FullSearchFindsBest
  <2> SUFFICES ASSUME DInv, IInv, Quiet,
                      NEW words \in Queries, NEW limit \in Limits,
                      NEW answer \in FullSearch(words, limit),
                      NEW l \in DOMAIN employees,
                      Score(words, Holds(l)) > 0, l \notin answer
               PROVE  /\ Cardinality(answer) = limit
                      /\ \A m \in answer : Score(words, Holds(m)) >= Score(words, Holds(l))
    BY DEF FullSearchFindsBest
  <2> DEFINE known == {m \in UNION {index[k] : k \in Values} : Score(words, KeysFor(m)) > 0}
  <2>1. /\ \A m \in DOMAIN employees : KeysFor(m) = Holds(m) /\ Holds(m) # {}
        /\ known \subseteq DOMAIN employees
    BY WhenQuiet
  <2>2. PICK best \in SUBSET known :
          /\ answer = best \cap DOMAIN employees
          /\ Cardinality(best) = Min({limit, Cardinality(known)})
          /\ \A n \in best, m \in known \ best :
               Score(words, KeysFor(n)) >= Score(words, KeysFor(m))
    BY DEF FullSearch, GetIds
  <2>3. answer = best /\ best \subseteq DOMAIN employees
    BY <2>1, <2>2
  <2>4. l \in known \ best
    <3>1. KeysFor(l) # {} /\ Score(words, KeysFor(l)) > 0
      BY <2>1
    <3>2. \E k \in Values : l \in index[k]
      BY <3>1 DEF KeysFor
    <3> QED
      BY <2>3, <3>1, <3>2
  <2>5. IsFiniteSet(known) /\ Cardinality(known) \in Nat
    BY <2>1, FS_Subset, FS_CardinalityType DEF DInv
  <2>6. Cardinality(best) # Cardinality(known)
    BY <2>4, <2>5, FS_Subset
  <2>7. Cardinality(best) = limit
    BY <2>2, <2>5, <2>6, MinOfTwo, SearchAssumption
  <2>8. \A m \in best : Score(words, Holds(m)) >= Score(words, Holds(l))
    <3> HIDE DEF known
    <3> QED
      BY <2>1, <2>2, <2>3, <2>4
  <2> QED
    BY <2>3, <2>7, <2>8
<1> QED
  BY <1>1, SpecIInv, PTL
=============================================================================
