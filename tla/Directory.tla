----------------------------- MODULE Directory -----------------------------
(***************************************************************************)
(* The employees of one company and the search index over them:            *)
(* /v1/employee/add, /v1/employee/remove, /v1/profile/edit, /v1/clear-tasks *)
(* and what /v1/search/basic finds.                                        *)
(*                                                                         *)
(* Handlers write `employees` themselves and leave the index to background *)
(* tasks, which they push into one queue (core::reverse_index) and which   *)
(* run side by side.  Every statement is a transaction of its own.         *)
(*                                                                         *)
(* A field holds a set of values: at most one, except for phones.  An id   *)
(* occurs in an index row or does not: array_remove takes every occurrence *)
(* away, so how often it was appended makes no difference.                 *)
(***************************************************************************)
EXTENDS Naturals, Sequences, FiniteSetsExt

CONSTANTS
  Hires,      \* the people that are added
  NameOf,     \* hire -> its name and surname, as Values
  BaseLogin,  \* hire -> initial and surname, transliterated
  Values,     \* what fields hold and clients search for
  Lower,      \* ConvertToLower on Values
  Fields,     \* the fields /v1/profile/edit writes, without the password
  Edits,      \* what clients ask of /v1/profile/edit
  Calls,      \* the calls clients make
  Handlers,   \* handler executions that may be in progress at once
  NoOne,      \* holder of the queue's lock when it is free
  Faults,     \* whether statements fail and the backend restarts
  MaxCalls    \* bound: calls made

ASSUME NamesAssumption ==
  /\ NameOf \in [Hires -> [{"name", "surname"} -> Values]]
  /\ Lower \in [Values -> Values]
  /\ {"name", "surname"} \cap Fields = {}
ASSUME EditsAssumption ==
  /\ Edits \subseteq [given : SUBSET Fields, values : [Fields -> SUBSET Values],
                     password : BOOLEAN]
  /\ \A e \in Edits : \A f \in Fields \ e.given : e.values[f] = {}
ASSUME CallsAssumption ==
  /\ Calls \subseteq {"add", "edit", "remove", "clear"}
  /\ NoOne \notin Handlers
  /\ Faults \in BOOLEAN
  /\ MaxCalls \in Nat

VARIABLES
  employees,  \* login -> row
  team,       \* logins in employee_team, all of "default_team"
  index,      \* reverse_index: key -> logins
  tasks,      \* tasks_: the queue
  lock,       \* who holds the lock of tasks_
  handlers,   \* what each handler execution holds in its locals
  calls,      \* calls made so far, which also number the passwords
  told        \* history: the credentials answered for present employees

vars == <<employees, team, index, tasks, lock, handlers, calls, told>>

OwnPassword == 0   \* a password the employee chose: the fresh ones start at 1

AllFields == {"name", "surname"} \cup Fields
Login(hire, i) == <<BaseLogin[hire], i>>
Logins == {Login(hire, i) : hire \in Hires, i \in 0 .. MaxCalls}

NewRow(hire, password) ==
  [password |-> password,
   values |-> [f \in AllFields |->
                 IF f \in Fields THEN {} ELSE {NameOf[hire][f]}]]

LowerAll(vs) == {Lower[v] : v \in vs}
KeysOf(values) == UNION {LowerAll(values[f]) : f \in DOMAIN values}
RawKeysOf(values) == UNION {values[f] : f \in DOMAIN values}

Idle == [op |-> "idle"]
Become(h, state) == handlers' = [handlers EXCEPT ![h] = state]

----------------------------------------------------------------------------
(* The queue of index tasks *)

Finished(task) == task.step = "finished"

IndexTask(login, values) ==
  [login |-> login, old |-> {}, new |-> values, step |-> "insert"]
EditTask(login, old, new) ==
  [login |-> login, old |-> old, new |-> new, step |-> "remove"]
DeleteTask(login) ==
  [login |-> login, old |-> {}, new |-> <<>>, step |-> "delete"]

DropFinished(queue) ==
  LET live == {i \in DOMAIN queue : ~Finished(queue[i])} IN
    IF live = {} THEN <<>> ELSE SubSeq(queue, Min(live), Len(queue))

\* ReverseIndexHandler, once the lock is free.
Push(task) ==
  /\ lock = NoOne
  /\ tasks' = Append(DropFinished(tasks), task)

TaskGoes(i, step) == tasks' = [tasks EXCEPT ![i].step = step]

\* Mutant: the old values are not taken out.
RemoveOldKeys_Skipped(i) ==
  /\ tasks[i].step = "remove"
  /\ TaskGoes(i, "insert")
  /\ UNCHANGED index

\* EditReverseIndexFunc, first statement: the old values as they were written.
RemoveOldKeys(i) ==
  /\ tasks[i].step = "remove"
  /\ index' = [k \in Values |-> IF k \in tasks[i].old
                                THEN index[k] \ {tasks[i].login} ELSE index[k]]
  /\ TaskGoes(i, "insert")

\* Two values with one key: ON CONFLICT DO UPDATE cannot touch a row twice.
Clash(values) ==
  LET given == UNION {{f} \X values[f] : f \in DOMAIN values} IN
    \E p, q \in given : p # q /\ Lower[p[2]] = Lower[q[2]]

\* AddReverseIndexFunc, and the second statement of EditReverseIndexFunc.
InsertNewKeys(i) ==
  /\ tasks[i].step = "insert"
  /\ index' =
       IF Clash(tasks[i].new) THEN index
       ELSE [k \in Values |-> IF k \in KeysOf(tasks[i].new)
                              THEN index[k] \cup {tasks[i].login} ELSE index[k]]
  /\ TaskGoes(i, "finished")

\* DeleteReverseIndexFunc: it throws when the row is gone already, and else
\* PostgreSQL refuses two commands in one prepared statement.
FailDelete(i) ==
  /\ tasks[i].step = "delete"
  /\ TaskGoes(i, "finished")
  /\ UNCHANGED index

FailTask(i) ==
  /\ Faults
  /\ ~Finished(tasks[i])
  /\ TaskGoes(i, "finished")
  /\ UNCHANGED index

RunTask(i) ==
  /\ RemoveOldKeys(i) \/ InsertNewKeys(i) \/ FailDelete(i)
  /\ UNCHANGED <<employees, team, lock, handlers, calls, told>>

BreakTask(i) ==
  FailTask(i) /\ UNCHANGED <<employees, team, lock, handlers, calls, told>>

----------------------------------------------------------------------------
(* /v1/employee/add *)

BeginAdd(h, hire) ==
  /\ Become(h, [op |-> "login", hire |-> hire, try |-> 0,
                password |-> calls + 1])
  /\ UNCHANGED <<employees, team, index, tasks, lock, told>>

\* One turn of the loop of generateLogin.
TryLogin(h) ==
  /\ handlers[h].op = "login"
  /\ LET a == handlers[h] IN
       IF Login(a.hire, a.try) \in DOMAIN employees
       THEN Become(h, [a EXCEPT !.try = @ + 1])
       ELSE Become(h, [a EXCEPT !.op = "insert"])
  /\ UNCHANGED <<employees, team, index, tasks, lock, calls, told>>

\* INSERT ... ON CONFLICT (id) DO NOTHING
InsertEmployee(h) ==
  /\ handlers[h].op = "insert"
  /\ LET a == handlers[h]
         login == Login(a.hire, a.try) IN
       employees' = [l \in DOMAIN employees \cup {login} |->
                       IF l \in DOMAIN employees THEN employees[l]
                       ELSE NewRow(a.hire, a.password)]
  /\ Become(h, [handlers[h] EXCEPT !.op = "index"])
  /\ UNCHANGED <<team, index, tasks, lock, calls, told>>

PushIndex(h) ==
  /\ handlers[h].op = "index"
  /\ LET a == handlers[h] IN
       Push(IndexTask(Login(a.hire, a.try), NewRow(a.hire, a.password).values))
  /\ Become(h, [handlers[h] EXCEPT !.op = "team"])
  /\ UNCHANGED <<employees, team, index, lock, calls, told>>

\* Mutant: the second INSERT ignores a conflict as the first does.
InsertTeam_Ignores(h) ==
  /\ handlers[h].op = "team"
  /\ LET a == handlers[h]
         login == Login(a.hire, a.try) IN
       IF login \in DOMAIN employees
       THEN /\ team' = team \cup {login}
            /\ told' = told \cup {<<login, a.password>>}
       ELSE UNCHANGED <<team, told>>
  /\ Become(h, Idle)
  /\ UNCHANGED <<employees, index, tasks, lock, calls>>

\* INSERT INTO employee_team, and the answer: login and password, or 500 when
\* the primary key or the foreign key refuses the row.
InsertTeam(h) ==
  /\ handlers[h].op = "team"
  /\ LET a == handlers[h]
         login == Login(a.hire, a.try) IN
       IF login \in DOMAIN employees \ team
       THEN /\ team' = team \cup {login}
            /\ told' = told \cup {<<login, a.password>>}
       ELSE UNCHANGED <<team, told>>
  /\ Become(h, Idle)
  /\ UNCHANGED <<employees, index, tasks, lock, calls>>

----------------------------------------------------------------------------
(* /v1/profile/edit *)

\* The fields of the request that are not NULL: an empty list of phones is given.
Given(edit) == edit.given

\* FetchOldData: the old values of the fields the request gives.
BeginEdit(h, login, edit) ==
  /\ login \in DOMAIN employees
  /\ Become(h, [op |-> "edit", login |-> login, edit |-> edit,
                old |-> UNION {employees[login].values[f] : f \in Given(edit)}])
  /\ UNCHANGED <<employees, team, index, tasks, lock, told>>

PushEdit(h) ==
  /\ handlers[h].op = "edit"
  /\ LET e == handlers[h] IN Push(EditTask(e.login, e.old, e.edit.values))
  /\ Become(h, [handlers[h] EXCEPT !.op = "update"])
  /\ UNCHANGED <<employees, team, index, lock, calls, told>>

\* UPDATE: fields and password that are not given stay.
UpdateProfile(h) ==
  /\ handlers[h].op = "update"
  /\ LET e == handlers[h] IN
       employees' =
         [l \in DOMAIN employees |->
            IF l # e.login THEN employees[l]
            ELSE [password |-> IF e.edit.password THEN OwnPassword
                               ELSE employees[l].password,
                  values |-> [f \in AllFields |->
                                IF f \in Given(e.edit) THEN e.edit.values[f]
                                ELSE employees[l].values[f]]]]
  /\ Become(h, Idle)
  /\ UNCHANGED <<team, index, tasks, lock, calls, told>>

----------------------------------------------------------------------------
(* /v1/employee/remove *)

BeginRemove(h, login) ==
  /\ Become(h, [op |-> "unindex", login |-> login])
  /\ UNCHANGED <<employees, team, index, tasks, lock, told>>

PushDelete(h) ==
  /\ handlers[h].op = "unindex"
  /\ Push(DeleteTask(handlers[h].login))
  /\ Become(h, [handlers[h] EXCEPT !.op = "delete"])
  /\ UNCHANGED <<employees, team, index, lock, calls, told>>

DeleteEmployee(h) ==
  /\ handlers[h].op = "delete"
  /\ LET login == handlers[h].login IN
       /\ employees' = [l \in DOMAIN employees \ {login} |-> employees[l]]
       /\ team' = team \ {login}
       /\ told' = {t \in told : t[1] # login}
  /\ Become(h, Idle)
  /\ UNCHANGED <<index, tasks, lock, calls>>

----------------------------------------------------------------------------
(* /v1/clear-tasks: waits for every task, and keeps the lock meanwhile. *)

BeginClear(h) ==
  /\ Become(h, [op |-> "clear"])
  /\ UNCHANGED <<employees, team, index, tasks, lock, told>>

LockTasks(h) ==
  /\ handlers[h].op = "clear"
  /\ lock = NoOne
  /\ lock' = h
  /\ Become(h, [op |-> "clearing"])
  /\ UNCHANGED <<employees, team, index, tasks, calls, told>>

\* Wait() returns, pop()
PopTask(h) ==
  /\ handlers[h].op = "clearing"
  /\ tasks # <<>>
  /\ Finished(Head(tasks))
  /\ tasks' = Tail(tasks)
  /\ UNCHANGED <<employees, team, index, lock, handlers, calls, told>>

\* Mutant: the lock is not given back.
UnlockTasks_Kept(h) ==
  /\ handlers[h].op = "clearing"
  /\ tasks = <<>>
  /\ Become(h, Idle)
  /\ UNCHANGED <<employees, team, index, tasks, lock, calls, told>>

UnlockTasks(h) ==
  /\ handlers[h].op = "clearing"
  /\ tasks = <<>>
  /\ lock' = NoOne
  /\ Become(h, Idle)
  /\ UNCHANGED <<employees, team, index, tasks, calls, told>>

----------------------------------------------------------------------------
\* A statement of a handler fails: what it did before stays.
Abort(h) ==
  /\ Faults
  /\ handlers[h].op \in {"login", "insert", "team", "update", "delete"}
  /\ Become(h, Idle)
  /\ UNCHANGED <<employees, team, index, tasks, lock, calls, told>>

Restart ==
  /\ Faults
  /\ handlers' = [h \in Handlers |-> Idle]
  /\ tasks' = <<>>
  /\ lock' = NoOne
  /\ UNCHANGED <<employees, team, index, calls, told>>

Init ==
  /\ employees = [l \in {} |-> {}]
  /\ team = {}
  /\ index = [k \in Values |-> {}]
  /\ tasks = <<>>
  /\ lock = NoOne
  /\ handlers = [h \in Handlers |-> Idle]
  /\ calls = 0
  /\ told = {}

Call(h) ==
  /\ handlers[h] = Idle
  /\ calls < MaxCalls
  /\ calls' = calls + 1
  /\ \/ "add" \in Calls /\ \E hire \in Hires : BeginAdd(h, hire)
     \/ "edit" \in Calls /\ \E l \in DOMAIN employees, e \in Edits : BeginEdit(h, l, e)
     \/ "remove" \in Calls /\ \E l \in DOMAIN employees : BeginRemove(h, l)
     \/ "clear" \in Calls /\ BeginClear(h)

\* Steps that wait for the lock, and steps that do not.
LockStep(h) == PushIndex(h) \/ PushEdit(h) \/ PushDelete(h) \/ LockTasks(h)
FreeStep(h) ==
  \/ TryLogin(h) \/ InsertEmployee(h) \/ InsertTeam(h)
  \/ UpdateProfile(h)
  \/ DeleteEmployee(h)
  \/ PopTask(h) \/ UnlockTasks(h)

Runs ==
  \/ \E h \in Handlers : LockStep(h) \/ FreeStep(h)
  \/ \E i \in DOMAIN tasks : RunTask(i)

Next ==
  \/ \E h \in Handlers : Call(h) \/ Abort(h)
  \/ Runs
  \/ \E i \in DOMAIN tasks : BreakTask(i)
  \/ Restart

Spec == Init /\ [][Next]_vars

\* Every task and handler that can run does; whoever waits for the lock is in
\* its queue of waiters, so it gets it if it is free again and again.
Fairness ==
  /\ \A h \in Handlers : WF_vars(FreeStep(h)) /\ SF_vars(LockStep(h))
  /\ \A i \in 1 .. MaxCalls : WF_vars(i \in DOMAIN tasks /\ RunTask(i))

FairSpec == Spec /\ Fairness

\* Clients that call /v1/clear-tasks after each call, as the tests do.
Quiet ==
  /\ \A h \in Handlers : handlers[h] = Idle
  /\ \A i \in DOMAIN tasks : Finished(tasks[i])

NextTested == (Quiet /\ \E h \in Handlers : Call(h)) \/ Runs
SpecTested == Init /\ [][NextTested]_vars

\* What clients ask for and people are called, when the index can follow it:
\* telephone numbers and the like come in lower case, no value is that of two
\* fields, and nobody is removed.
TidyValues ==
  /\ "remove" \notin Calls
  /\ \A hire \in Hires : Lower[NameOf[hire]["name"]] # Lower[NameOf[hire]["surname"]]
  /\ \A e \in Edits, f \in Fields : \A v \in e.values[f] :
       /\ Lower[v] = v
       /\ \A hire \in Hires, g \in {"name", "surname"} : Lower[NameOf[hire][g]] # v
       /\ \A d \in Edits, g \in Fields : v \in d.values[g] => g = f

----------------------------------------------------------------------------
(* Properties *)

IsTask(task) ==
  /\ task.login \in Logins
  /\ task.old \subseteq Values
  /\ RawKeysOf(task.new) \subseteq Values
  /\ task.step \in {"remove", "insert", "delete", "finished"}

\* Rows, index and queue are well-formed, and the lock is held by a call of
\* /v1/clear-tasks or by no one.
TypeOK ==
  /\ DOMAIN employees \subseteq Logins
  /\ \A l \in DOMAIN employees :
       employees[l] \in [password : 0 .. MaxCalls,
                         values : [AllFields -> SUBSET Values]]
  /\ team \subseteq DOMAIN employees
  /\ index \in [Values -> SUBSET Logins]
  /\ \A i \in DOMAIN tasks : IsTask(tasks[i])
  /\ lock \in {NoOne} \cup {h \in Handlers : handlers[h].op = "clearing"}
  /\ told \subseteq (DOMAIN employees) \X (1 .. MaxCalls)

\* However many calls pick the same login, at most one of them is answered
\* with it while its employee exists.
OneOwnerPerLogin ==
  \A s, t \in told : s[1] = t[1] => s = t

\* What /v1/search/basic finds for a value.
Found(v) == index[Lower[v]] \cap DOMAIN employees

\* When every call has returned and every task has run, employees are found
\* by what their rows hold and by nothing they no longer hold.
SearchFollowsEdits ==
  Quiet => \A v \in Values :
             Found(v) = {l \in DOMAIN employees :
                           Lower[v] \in KeysOf(employees[l].values)}

\* Every call returns: no task waits for the lock a waiting call holds.
CallsReturn == \A h \in Handlers : (handlers[h] # Idle) ~> (handlers[h] = Idle)

=============================================================================
