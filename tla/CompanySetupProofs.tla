------------------------- MODULE CompanySetupProofs -------------------------
(***************************************************************************)
(* For every set of executions and every number of calls: the types and    *)
(* foreign keys of CompanySetup.  For calls that come one at a time: no    *)
(* setup takes records away, the second one that runs to its end completes *)
(* the tables, and newcomers get a team.                                   *)
(*                                                                         *)
(* A DROP is refused while another table refers to the one it names, so    *)
(* what survives a script depends on what the statements before it have    *)
(* left: the invariant says which tables are there at which statement.     *)
(***************************************************************************)
EXTENDS CompanySetup, FiniteSetTheorems, TLAPS

----------------------------------------------------------------------------
(* The script *)

\* What the script does at its n-th statement.
LEMMA Statements ==
  /\ DOMAIN Migrations = 1 .. 17
  /\ Len(Migrations) = 17
  /\ ToRegister = 18 /\ ToAddTeam = 19
  /\ Tables = {"employees", "notifications", "actions", "payments",
               "reverse_index", "documents", "employee_document", "teams",
               "employee_team", "inventory"}
<1>1. DOMAIN Migrations = 1 .. 17 /\ Len(Migrations) = 17
  BY DEF Migrations
<1>2. ToRegister = 18 /\ ToAddTeam = 19
  BY <1>1 DEF ToRegister, ToAddTeam
<1> QED
  BY <1>1, <1>2 DEF Tables, Migrations, Create, Drop

LEMMA Steps ==
  ASSUME NEW s \in Setups, Migrate(s)
  PROVE  LET n == setups[s] IN
         /\ n \in 1 .. 17
         /\ GoOn(s)
         /\ UNCHANGED <<registered, outcomes>>
         /\ \/ n = 1 /\ CreateTable("employees")
            \/ n = 2 /\ DropTable("notifications")
            \/ n = 3 /\ CreateTable("notifications")
            \/ n = 4 /\ DropTable("actions")
            \/ n = 5 /\ CreateTable("actions")
            \/ n = 6 /\ DropTable("payments")
            \/ n = 7 /\ CreateTable("payments")
            \/ n = 8 /\ CreateTable("reverse_index")
            \/ n = 9 /\ DropTable("documents")
            \/ n = 10 /\ CreateTable("documents")
            \/ n = 11 /\ DropTable("employee_document")
            \/ n = 12 /\ CreateTable("employee_document")
            \/ n = 13 /\ DropTable("teams")
            \/ n = 14 /\ CreateTable("teams")
            \/ n = 15 /\ DropTable("employee_team")
            \/ n = 16 /\ CreateTable("employee_team")
            \/ n = 17 /\ CreateTable("inventory")
<1> DEFINE n == setups[s]
<1>1. n \in 1 .. 17 /\ GoOn(s) /\ UNCHANGED <<registered, outcomes>>
  BY Statements DEF Migrate
<1>2. \/ Migrations[n].do = "create" /\ CreateTable(Migrations[n].table)
      \/ Migrations[n].do = "drop" /\ DropTable(Migrations[n].table)
  BY DEF Migrate
<1>3. /\ Migrations[1] = Create("employees")
      /\ Migrations[2] = Drop("notifications")
      /\ Migrations[3] = Create("notifications")
      /\ Migrations[4] = Drop("actions")
      /\ Migrations[5] = Create("actions")
      /\ Migrations[6] = Drop("payments")
      /\ Migrations[7] = Create("payments")
      /\ Migrations[8] = Create("reverse_index")
      /\ Migrations[9] = Drop("documents")
      /\ Migrations[10] = Create("documents")
      /\ Migrations[11] = Drop("employee_document")
      /\ Migrations[12] = Create("employee_document")
      /\ Migrations[13] = Drop("teams")
      /\ Migrations[14] = Create("teams")
      /\ Migrations[15] = Drop("employee_team")
      /\ Migrations[16] = Create("employee_team")
      /\ Migrations[17] = Create("inventory")
  BY DEF Migrations
<1>4. ASSUME NEW t PROVE /\ Create(t).do = "create" /\ Create(t).table = t
                         /\ Drop(t).do = "drop" /\ Drop(t).table = t
  BY DEF Create, Drop
<1> HIDE DEF n
<1>5. \/ n = 1 \/ n = 2 \/ n = 3 \/ n = 4 \/ n = 5 \/ n = 6 \/ n = 7 \/ n = 8
      \/ n = 9 \/ n = 10 \/ n = 11 \/ n = 12 \/ n = 13 \/ n = 14 \/ n = 15
      \/ n = 16 \/ n = 17
  BY <1>1
<1>6. \/ n = 1 /\ CreateTable("employees")
      \/ n = 2 /\ DropTable("notifications")
      \/ n = 3 /\ CreateTable("notifications")
      \/ n = 4 /\ DropTable("actions")
      \/ n = 5 /\ CreateTable("actions")
      \/ n = 6 /\ DropTable("payments")
      \/ n = 7 /\ CreateTable("payments")
      \/ n = 8 /\ CreateTable("reverse_index")
      \/ n = 9 /\ DropTable("documents")
      \/ n = 10 /\ CreateTable("documents")
      \/ n = 11 /\ DropTable("employee_document")
      \/ n = 12 /\ CreateTable("employee_document")
      \/ n = 13 /\ DropTable("teams")
      \/ n = 14 /\ CreateTable("teams")
      \/ n = 15 /\ DropTable("employee_team")
      \/ n = 16 /\ CreateTable("employee_team")
      \/ n = 17 /\ CreateTable("inventory")
  BY <1>2, <1>3, <1>4, <1>5
<1> QED
  BY <1>1, <1>6 DEF n

----------------------------------------------------------------------------
(* How calls end *)

\* A call that ends adds its outcome to those before.
LEMMA OneMoreOutcome ==
  ASSUME outcomes \in Seq(Outcomes), NEW outcome \in Outcomes,
         outcomes' = Append(outcomes, outcome)
  PROVE  /\ outcomes' \in Seq(Outcomes)
         /\ Last(outcomes)' = outcome
         /\ \A how : Ended(how)' = Ended(how) \cup
                       (IF outcome \in how THEN {Len(outcomes) + 1} ELSE {})
<1>1. /\ outcomes' \in Seq(Outcomes)
      /\ Len(outcomes) \in Nat
      /\ Len(outcomes') = Len(outcomes) + 1
      /\ DOMAIN outcomes = 1 .. Len(outcomes)
      /\ DOMAIN outcomes' = 1 .. Len(outcomes) + 1
      /\ \A i \in DOMAIN outcomes : outcomes'[i] = outcomes[i]
      /\ outcomes'[Len(outcomes) + 1] = outcome
  OBVIOUS
<1>2. Last(outcomes)' = outcome
  BY <1>1 DEF Last
<1>3. ASSUME NEW how
      PROVE  Ended(how)' = Ended(how) \cup
               (IF outcome \in how THEN {Len(outcomes) + 1} ELSE {})
  BY <1>1 DEF Ended
<1> QED
  BY <1>1, <1>2, <1>3

\* When the call that ends is the second of its kind, there was one before.
LEMMA OneBefore ==
  ASSUME NEW S, NEW x, Cardinality(S \cup {x}) >= 2
  PROVE  S # {}
<1> SUFFICES ASSUME S = {} PROVE FALSE
  OBVIOUS
<1>1. S \cup {x} = {x}
  OBVIOUS
<1>2. Cardinality({x}) = 1
  BY FS_Singleton
<1> QED
  BY <1>1, <1>2

----------------------------------------------------------------------------
(* Types and foreign keys, whatever calls overlap *)

LEMMA InitTypes == Init => TypeOK
<1> SUFFICES ASSUME Init PROVE TypeOK
  OBVIOUS
<1>1. setups \in [Setups -> 0 .. ToAddTeam]
  BY Statements DEF Init
<1>2. outcomes \in Seq(Outcomes)
  BY DEF Init
<1> QED
  BY <1>1, <1>2 DEF Init, TypeOK

\* Ends of calls, and the numbers of the last two statements.
LEMMA EndTypes ==
  ASSUME TypeOK, NEW s \in Setups, NEW outcome \in Outcomes, End(s, outcome)
  PROVE  /\ setups' \in [Setups -> 0 .. ToAddTeam]
         /\ outcomes' \in Seq(Outcomes)
<1>1. outcomes' \in Seq(Outcomes)
  BY OneMoreOutcome DEF TypeOK, End
<1> QED
  BY <1>1, Statements DEF TypeOK, End

LEMMA GoOnTypes ==
  ASSUME TypeOK, NEW s \in Setups, GoOn(s), setups[s] < ToAddTeam
  PROVE  setups' \in [Setups -> 0 .. ToAddTeam]
<1>1. setups[s] \in 0 .. 19 /\ setups[s] < 19
  BY Statements DEF TypeOK
<1>2. setups[s] + 1 \in 0 .. ToAddTeam
  BY <1>1, Statements
<1> QED
  BY <1>2 DEF TypeOK, GoOn

\* A table that is created refers to tables that are there, and one that is
\* dropped is referred to by none.
LEMMA MigrateTypes ==
  ASSUME TypeOK, NEW s \in Setups, Migrate(s)
  PROVE  TypeOK'
<1>1. setups' \in [Setups -> 0 .. ToAddTeam]
  BY Steps, Statements, GoOnTypes
<1>2. PICK t \in Tables : CreateTable(t) \/ DropTable(t)
  BY Steps, Statements
<1>3. CASE CreateTable(t)
  BY <1>1, <1>2, <1>3, Steps DEF TypeOK, CreateTable
<1>4. CASE DropTable(t)
  BY <1>1, <1>4, Steps DEF TypeOK, DropTable, Referring
<1> QED
  BY <1>2, <1>3, <1>4

LEMMA NextTypes == TypeOK /\ [Next]_vars => TypeOK'
<1> SUFFICES ASSUME TypeOK, [Next]_vars PROVE TypeOK'
  OBVIOUS
<1>1. DOMAIN Migrations = 1 .. 17 /\ ToRegister = 18 /\ ToAddTeam = 19
  BY Statements
<1>2. {"script failed", "refused", "added", "stopped"} = Outcomes
  BY DEF Outcomes
<1>3. ASSUME NEW s \in Setups, BeginSetup(s) PROVE TypeOK'
  BY <1>1, <1>3, GoOnTypes DEF BeginSetup, TypeOK
<1>4. ASSUME NEW s \in Setups, Migrate(s) PROVE TypeOK'
  BY <1>4, MigrateTypes
<1>5. ASSUME NEW s \in Setups, PsqlDies(s) PROVE TypeOK'
  BY <1>2, <1>5, EndTypes DEF PsqlDies, TypeOK
<1>6. ASSUME NEW s \in Setups, Register(s) PROVE TypeOK'
  <2>1. setups' \in [Setups -> 0 .. ToAddTeam] /\ outcomes' \in Seq(Outcomes)
    <3>1. CASE registered
      BY <1>2, <1>6, <3>1, EndTypes DEF Register
    <3>2. CASE ~registered
      BY <1>1, <1>6, <3>2, GoOnTypes DEF Register, TypeOK
    <3> QED
      BY <3>1, <3>2
  <2> QED
    BY <1>6, <2>1 DEF Register, TypeOK
<1>7. ASSUME NEW s \in Setups, AddTeam(s) PROVE TypeOK'
  BY <1>2, <1>7, EndTypes DEF AddTeam, TypeOK
<1>8. ASSUME NEW s \in Setups, BackendStops(s) PROVE TypeOK'
  BY <1>2, <1>8, EndTypes DEF BackendStops, TypeOK
<1>9. ASSUME NEW ts, Write(ts) PROVE TypeOK'
  BY <1>9 DEF Write, TypeOK
<1>10. CASE UNCHANGED vars
  BY <1>10 DEF vars, TypeOK
<1> QED
  BY <1>3, <1>4, <1>5, <1>6, <1>7, <1>8, <1>9, <1>10
     DEF Next, AddEmployee, AddEmployeeTeam, AddAttendance, SendDocument, SendLinks

\* Whatever setups overlap and break off: only tables that exist hold rows, and
\* what a table refers to exists as long as it does.
THEOREM SetupTypes == Spec => []TypeOK
BY InitTypes, NextTypes, PTL DEF Spec

----------------------------------------------------------------------------
(* One call at a time *)

CutShort    == Ended({"script failed"}) # {}
Interrupted == Ended({"script failed", "stopped"}) # {}
Repeated    == Ended(Whole) # {}

\* At its n-th statement the script has created the tables of those before it,
\* but notifications, for which the first script comes too early.
Created(n) ==
  /\ n > 1  => "employees" \in tables
  /\ n > 5  => "actions" \in tables
  /\ n > 7  => "payments" \in tables
  /\ n > 8  => "reverse_index" \in tables
  /\ n > 10 => "documents" \in tables
  /\ n > 12 => "employee_document" \in tables
  /\ n > 14 => "teams" \in tables
  /\ n > 16 => "employee_team" \in tables
  /\ n > 17 => "inventory" \in tables

\* Where a DROP could hit a table with rows, a table that refers to it is there.
\* Between the two statements that renew that table it is not, which is where a
\* script must not be cut short.
Shielded(n) ==
  /\ n = 4 /\ "actions" \in tables => "notifications" \in tables
  /\ ~CutShort /\ "documents" \in tables =>
       "employee_document" \in tables \/ n \in {11, 12}
  /\ ~CutShort /\ "teams" \in tables => "employee_team" \in tables \/ n \in {15, 16}

\* Once a script got to its end, actions stays, and the next one creates
\* notifications.
Completed(n) ==
  Repeated => "actions" \in tables /\ (n > 3 => "notifications" \in tables)

Joined(n) == registered /\ ~Interrupted => n = 19 \/ "teams" \in filled

SInv(s) ==
  /\ TypeOK
  /\ Created(setups[s])
  /\ Shielded(setups[s])
  /\ Completed(setups[s])
  /\ Joined(setups[s])
  /\ SecondRunCompletes

\* What the foreign keys refer to.
LEMMA ForeignKeys ==
  /\ References("employees") = {}
  /\ References("notifications") = {"employees", "actions"}
  /\ References("actions") = {"employees"}
  /\ References("payments") = {"employees"}
  /\ References("reverse_index") = {}
  /\ References("documents") = {}
  /\ References("employee_document") = {"employees", "documents"}
  /\ References("teams") = {}
  /\ References("employee_team") = {"employees", "teams"}
  /\ References("inventory") = {"employees"}
BY DEF References

LEMMA InitSInv ==
  ASSUME NEW s, Setups = {s}, Init
  PROVE  SInv(s)
<1>1. TypeOK
  BY InitTypes
<1>2. setups[s] = 0 /\ tables = {} /\ registered = FALSE /\ outcomes = <<>>
  BY DEF Init
<1>3. ASSUME NEW how PROVE Ended(how) = {}
  BY <1>2 DEF Ended
<1>4. SecondRunCompletes
  <2>1. Cardinality(Ended(Whole)) = 0
    BY <1>3, FS_EmptySet
  <2> QED
    BY <2>1 DEF SecondRunCompletes
<1>5. Created(setups[s]) /\ Shielded(setups[s]) /\ Completed(setups[s]) /\ Joined(setups[s])
  BY <1>2, <1>3 DEF Created, Shielded, Completed, Joined, Repeated
<1> QED
  BY <1>1, <1>4, <1>5 DEF SInv

----------------------------------------------------------------------------
(* The script, one statement at a time *)

\* A statement that finds what it refers to creates its table.
LEMMA CreateEffect ==
  ASSUME NEW t, CreateTable(t)
  PROVE  /\ tables \subseteq tables' /\ tables' \subseteq tables \cup {t}
         /\ References(t) \subseteq tables => t \in tables'
         /\ filled' = filled
BY DEF CreateTable

\* A DROP takes away one table at most, and none that is referred to.
LEMMA DropEffect ==
  ASSUME NEW t, DropTable(t)
  PROVE  /\ tables \ {t} \subseteq tables' /\ tables' \subseteq tables
         /\ filled \ {t} \subseteq filled'
         /\ \A u \in tables : t \in References(u) =>
              tables' = tables /\ filled' = filled
BY DEF DropTable, Referring

LEMMA CutsInterrupt == CutShort => Interrupted
BY DEF CutShort, Interrupted, Ended

\* Rows that no setup takes away.
KeepsRows ==
  /\ \A t \in {"employees", "actions"} : t \in filled => t \in filled'
  /\ ~CutShort => \A t \in {"documents", "teams"} : t \in filled => t \in filled'

\* What the n-th statement leaves in place for the next one.
LEMMA StatementStep ==
  ASSUME NEW n \in 1 .. 17, filled \subseteq tables,
         Created(n), Shielded(n), Completed(n), Joined(n),
         UNCHANGED <<registered, CutShort, Interrupted, Repeated>>,
         \/ n = 1 /\ CreateTable("employees")
         \/ n = 2 /\ DropTable("notifications")
         \/ n = 3 /\ CreateTable("notifications")
         \/ n = 4 /\ DropTable("actions")
         \/ n = 5 /\ CreateTable("actions")
         \/ n = 6 /\ DropTable("payments")
         \/ n = 7 /\ CreateTable("payments")
         \/ n = 8 /\ CreateTable("reverse_index")
         \/ n = 9 /\ DropTable("documents")
         \/ n = 10 /\ CreateTable("documents")
         \/ n = 11 /\ DropTable("employee_document")
         \/ n = 12 /\ CreateTable("employee_document")
         \/ n = 13 /\ DropTable("teams")
         \/ n = 14 /\ CreateTable("teams")
         \/ n = 15 /\ DropTable("employee_team")
         \/ n = 16 /\ CreateTable("employee_team")
         \/ n = 17 /\ CreateTable("inventory")
  PROVE  /\ Created(n + 1)'
         /\ Shielded(n + 1)'
         /\ Completed(n + 1)'
         /\ Joined(n + 1)'
         /\ KeepsRows
<1>1. CASE n = 1 /\ CreateTable("employees")
  BY <1>1, CreateEffect, ForeignKeys
     DEF Created, Shielded, Completed, Joined, KeepsRows
<1>2. CASE n = 2 /\ DropTable("notifications")
  BY <1>2, DropEffect, ForeignKeys
     DEF Created, Shielded, Completed, Joined, KeepsRows
<1>3. CASE n = 3 /\ CreateTable("notifications")
  BY <1>3, CreateEffect, ForeignKeys
     DEF Created, Shielded, Completed, Joined, KeepsRows
<1>4. CASE n = 4 /\ DropTable("actions")
  BY <1>4, DropEffect, ForeignKeys
     DEF Created, Shielded, Completed, Joined, KeepsRows
<1>5. CASE n = 5 /\ CreateTable("actions")
  BY <1>5, CreateEffect, ForeignKeys
     DEF Created, Shielded, Completed, Joined, KeepsRows
<1>6. CASE n = 6 /\ DropTable("payments")
  BY <1>6, DropEffect, ForeignKeys
     DEF Created, Shielded, Completed, Joined, KeepsRows
<1>7. CASE n = 7 /\ CreateTable("payments")
  BY <1>7, CreateEffect, ForeignKeys
     DEF Created, Shielded, Completed, Joined, KeepsRows
<1>8. CASE n = 8 /\ CreateTable("reverse_index")
  BY <1>8, CreateEffect, ForeignKeys
     DEF Created, Shielded, Completed, Joined, KeepsRows
<1>9. CASE n = 9 /\ DropTable("documents")
  BY <1>9, DropEffect, ForeignKeys
     DEF Created, Shielded, Completed, Joined, KeepsRows
<1>10. CASE n = 10 /\ CreateTable("documents")
  BY <1>10, CreateEffect, ForeignKeys
     DEF Created, Shielded, Completed, Joined, KeepsRows
<1>11. CASE n = 11 /\ DropTable("employee_document")
  BY <1>11, DropEffect, ForeignKeys
     DEF Created, Shielded, Completed, Joined, KeepsRows
<1>12. CASE n = 12 /\ CreateTable("employee_document")
  BY <1>12, CreateEffect, ForeignKeys
     DEF Created, Shielded, Completed, Joined, KeepsRows
<1>13. CASE n = 13 /\ DropTable("teams")
  BY <1>13, DropEffect, ForeignKeys, CutsInterrupt
     DEF Created, Shielded, Completed, Joined, KeepsRows
<1>14. CASE n = 14 /\ CreateTable("teams")
  BY <1>14, CreateEffect, ForeignKeys
     DEF Created, Shielded, Completed, Joined, KeepsRows
<1>15. CASE n = 15 /\ DropTable("employee_team")
  BY <1>15, DropEffect, ForeignKeys
     DEF Created, Shielded, Completed, Joined, KeepsRows
<1>16. CASE n = 16 /\ CreateTable("employee_team")
  BY <1>16, CreateEffect, ForeignKeys
     DEF Created, Shielded, Completed, Joined, KeepsRows
<1>17. CASE n = 17 /\ CreateTable("inventory")
  BY <1>17, CreateEffect, ForeignKeys
     DEF Created, Shielded, Completed, Joined, KeepsRows
<1> QED
  BY <1>1, <1>2, <1>3, <1>4, <1>5, <1>6, <1>7, <1>8, <1>9, <1>10, <1>11, <1>12, <1>13, <1>14, <1>15, <1>16, <1>17

\* A statement of the script.
LEMMA MigrateStep ==
  ASSUME NEW s, Setups = {s}, SInv(s), Migrate(s)
  PROVE  SInv(s)' /\ KeepsRows
<1>1. /\ TypeOK /\ TypeOK'
      /\ setups[s] \in 1 .. 17 /\ setups'[s] = setups[s] + 1
      /\ registered' = registered /\ outcomes' = outcomes
  BY MigrateTypes, Steps DEF SInv, GoOn, TypeOK
<1>2. UNCHANGED <<registered, CutShort, Interrupted, Repeated>>
  BY <1>1 DEF CutShort, Interrupted, Repeated, Ended
<1>3. SecondRunCompletes'
  <2>1. s \in Running'
    BY <1>1 DEF Running
  <2> QED
    BY <2>1 DEF SecondRunCompletes
<1>4. PICK n \in 1 .. 17 : n = setups[s]
  BY <1>1
<1>5. /\ filled \subseteq tables
      /\ Created(n) /\ Shielded(n) /\ Completed(n) /\ Joined(n)
  BY <1>4 DEF SInv, TypeOK
<1>6. Created(n + 1)' /\ Shielded(n + 1)' /\ Completed(n + 1)' /\ Joined(n + 1)' /\ KeepsRows
  BY <1>2, <1>4, <1>5, Steps, StatementStep
<1>7. setups'[s] = n + 1
  BY <1>1, <1>4
<1> QED
  BY <1>1, <1>3, <1>6, <1>7 DEF SInv, Created, Shielded, Completed, Joined

----------------------------------------------------------------------------
(* The other steps *)

\* Steps that leave the tables and the outcomes, and end or begin no call.
LEMMA QuietStep ==
  ASSUME NEW s, Setups = {s}, SInv(s), TypeOK',
         UNCHANGED <<tables, registered, setups, outcomes>>, filled \subseteq filled'
  PROVE  SInv(s)' /\ KeepsRows
<1>1. UNCHANGED <<CutShort, Interrupted, Repeated>>
  BY DEF CutShort, Interrupted, Repeated, Ended
<1>2. SecondRunCompletes'
  BY DEF SInv, SecondRunCompletes, Running, Ended
<1> QED
  BY <1>1, <1>2 DEF SInv, Created, Shielded, Completed, Joined, KeepsRows

\* A call begins: the script is before its first statement.
LEMMA BeginStep ==
  ASSUME NEW s, Setups = {s}, SInv(s), TypeOK', BeginSetup(s)
  PROVE  SInv(s)' /\ KeepsRows
<1>1. /\ setups[s] = 0 /\ setups'[s] = 1
      /\ UNCHANGED <<tables, filled, registered, outcomes>>
  BY DEF BeginSetup, GoOn, SInv, TypeOK
<1>2. UNCHANGED <<CutShort, Interrupted, Repeated>>
  BY <1>1 DEF CutShort, Interrupted, Repeated, Ended
<1>3. SecondRunCompletes'
  <2>1. s \in Running'
    BY <1>1 DEF Running
  <2> QED
    BY <2>1 DEF SecondRunCompletes
<1> QED
  BY <1>1, <1>2, <1>3 DEF SInv, Created, Shielded, Completed, Joined, KeepsRows

\* A call ends within its script, which counts as cut short from then on.
LEMMA CutStep ==
  ASSUME NEW s, Setups = {s}, SInv(s), TypeOK', PsqlDies(s)
  PROVE  SInv(s)' /\ KeepsRows
<1>1. /\ setups'[s] = 0
      /\ outcomes' = Append(outcomes, "script failed")
      /\ UNCHANGED <<tables, filled, registered>>
  BY DEF PsqlDies, End, SInv, TypeOK
<1>2. /\ Last(outcomes)' = "script failed"
      /\ Ended({"script failed"})' # {}
      /\ Ended({"script failed", "stopped"})' # {}
      /\ Ended(Whole)' = Ended(Whole)
  <2>1. "script failed" \in Outcomes /\ outcomes \in Seq(Outcomes)
    BY DEF Outcomes, SInv, TypeOK
  <2>2. "script failed" \notin Whole
    BY DEF Whole
  <2> QED
    <3>1. /\ Last(outcomes)' = "script failed"
          /\ \A how : Ended(how)' = Ended(how) \cup
                (IF "script failed" \in how THEN {Len(outcomes) + 1} ELSE {})
      BY <1>1, <2>1, OneMoreOutcome
    <3> QED
      BY <2>2, <3>1
<1>3. SecondRunCompletes'
  BY <1>2 DEF SecondRunCompletes, Whole
<1>4. CutShort' /\ Interrupted' /\ (Repeated' => Repeated)
  BY <1>2 DEF CutShort, Interrupted, Repeated
<1>5. Created(0)'
  BY DEF Created
<1>6. Shielded(0)'
  BY <1>4 DEF Shielded
<1>7. Completed(0)'
  <2>1. Repeated => "actions" \in tables
    BY DEF SInv, Completed
  <2>2. ~(0 > 3)
    OBVIOUS
  <2>3. tables' = tables
    BY <1>1
  <2> QED
    BY <1>4, <2>1, <2>2, <2>3, Zenon DEF Completed
<1>8. Joined(0)'
  BY <1>4 DEF Joined
<1> QED
  BY <1>1, <1>3, <1>5, <1>6, <1>7, <1>8 DEF SInv, KeepsRows

\* A call ends after its script: all tables are there but, the first time,
\* notifications.
LEMMA EndStep ==
  ASSUME NEW s, Setups = {s}, SInv(s), TypeOK', setups[s] \in {18, 19},
         NEW outcome \in Whole, End(s, outcome), filled \subseteq filled',
         UNCHANGED <<tables, registered>>,
         registered => Interrupted \/ outcome = "stopped" \/ "teams" \in filled'
  PROVE  SInv(s)' /\ KeepsRows
<1>1. setups'[s] = 0 /\ outcomes' = Append(outcomes, outcome)
  BY DEF End, SInv, TypeOK
<1>2. /\ "employees" \in tables /\ "actions" \in tables /\ "payments" \in tables
      /\ "reverse_index" \in tables /\ "documents" \in tables
      /\ "employee_document" \in tables /\ "teams" \in tables
      /\ "employee_team" \in tables /\ "inventory" \in tables
      /\ Repeated => "notifications" \in tables
  BY DEF SInv, Created, Completed
<1>3. outcome \in Outcomes /\ outcome # "script failed" /\ outcomes \in Seq(Outcomes)
  BY DEF Whole, SInv, TypeOK
<1>4. /\ Last(outcomes)' = outcome
      /\ Ended(Whole)' = Ended(Whole) \cup {Len(outcomes) + 1}
      /\ CutShort' <=> CutShort
      /\ Interrupted \/ outcome = "stopped" => Interrupted'
  <2>1. /\ Last(outcomes)' = outcome
        /\ \A how : Ended(how)' = Ended(how) \cup
              (IF outcome \in how THEN {Len(outcomes) + 1} ELSE {})
    BY <1>1, <1>3, OneMoreOutcome
  <2>2. /\ Ended(Whole)' = Ended(Whole) \cup {Len(outcomes) + 1}
        /\ Ended({"script failed"})' = Ended({"script failed"})
        /\ outcome = "stopped" => Ended({"script failed", "stopped"})' # {}
        /\ Ended({"script failed", "stopped"}) # {} =>
             Ended({"script failed", "stopped"})' # {}
    BY <1>3, <2>1
  <2> QED
    BY <2>1, <2>2 DEF CutShort, Interrupted
<1>5. SecondRunCompletes'
  <2> SUFFICES ASSUME Cardinality(Ended(Whole)') >= 2 PROVE tables' = Tables
    BY DEF SecondRunCompletes
  <2>1. Repeated
    BY <1>4, OneBefore DEF Repeated
  <2>2. tables' = tables /\ tables \subseteq Tables
    BY DEF SInv, TypeOK
  <2> QED
    BY <1>2, <2>1, <2>2, Statements
<1>6. Completed(0)'
  BY <1>2 DEF Completed
<1>7. Shielded(0)'
  BY <1>2 DEF Shielded
<1>8. Joined(0)'
  BY <1>4 DEF Joined
<1> QED
  BY <1>1, <1>5, <1>6, <1>7, <1>8 DEF SInv, Created, Shielded, Completed, Joined, KeepsRows

LEMMA NextSInv ==
  ASSUME NEW s, Setups = {s}, SInv(s), [Next]_vars
  PROVE  SInv(s)' /\ KeepsRows
<1>1. TypeOK /\ TypeOK'
  BY NextTypes DEF SInv
<1>2. {"refused", "added", "stopped"} \subseteq Whole
  BY DEF Whole, Outcomes
<1>3. CASE BeginSetup(s)
  BY <1>1, <1>3, BeginStep
<1>4. CASE Migrate(s)
  BY <1>4, MigrateStep
<1>5. CASE PsqlDies(s)
  BY <1>1, <1>5, CutStep
<1>6. CASE Register(s)
  <2>1. setups[s] = 18
    BY <1>6, Statements DEF Register
  <2>2. CASE registered
    <3>1. End(s, "refused") /\ UNCHANGED <<tables, filled, registered>>
      BY <1>6, <2>2 DEF Register
    <3>2. Interrupted \/ "teams" \in filled
      BY <2>1, <2>2 DEF SInv, Joined
    <3> QED
      BY <1>1, <1>2, <2>1, <3>1, <3>2, EndStep
  <2>3. CASE ~registered
    <3>1. setups'[s] = 19 /\ UNCHANGED <<tables, filled, outcomes>>
      BY <1>1, <1>6, <2>1, <2>3 DEF Register, GoOn, TypeOK
    <3>2. UNCHANGED <<CutShort, Interrupted, Repeated>>
      BY <3>1 DEF CutShort, Interrupted, Repeated, Ended
    <3>3. s \in Running'
      BY <3>1 DEF Running
    <3> QED
      BY <1>1, <2>1, <3>1, <3>2, <3>3
         DEF SInv, Created, Shielded, Completed, Joined, SecondRunCompletes, KeepsRows
  <2> QED
    BY <2>2, <2>3
<1>7. CASE AddTeam(s)
  <2>1. setups[s] = 19 /\ "teams" \in tables
    BY <1>7, Statements DEF AddTeam, SInv, Created
  <2>2. /\ UNCHANGED <<tables, registered>>
        /\ filled \subseteq filled' /\ "teams" \in filled'
        /\ End(s, "added") \/ End(s, "refused")
    BY <1>7, <2>1 DEF AddTeam
  <2> QED
    BY <1>1, <1>2, <2>1, <2>2, EndStep
<1>8. CASE BackendStops(s)
  <2>1. /\ setups[s] \in {18, 19}
        /\ End(s, "stopped") /\ UNCHANGED <<tables, filled, registered>>
    BY <1>8, Statements DEF BackendStops
  <2> QED
    BY <1>1, <1>2, <2>1, EndStep
<1>9. ASSUME NEW ts, Write(ts) PROVE SInv(s)' /\ KeepsRows
  BY <1>1, <1>9, QuietStep DEF Write
<1>10. CASE UNCHANGED vars
  BY <1>1, <1>10, QuietStep DEF vars
<1> QED
  BY <1>3, <1>4, <1>5, <1>6, <1>7, <1>8, <1>9, <1>10
     DEF Next, AddEmployee, AddEmployeeTeam, AddAttendance, SendDocument, SendLinks

----------------------------------------------------------------------------
(* Theorems about setups that come one at a time *)

LEMMA SpecSInv == ASSUME NEW s, Setups = {s} PROVE Spec => []SInv(s)
<1>1. Init => SInv(s)
  BY InitSInv
<1>2. SInv(s) /\ [Next]_vars => SInv(s)'
  BY NextSInv
<1> QED
  BY <1>1, <1>2, PTL DEF Spec

\* The second script that runs to its end leaves every table behind, wherever
\* others were cut short before it.
THEOREM SecondRunsComplete ==
  ASSUME NEW s, Setups = {s}
  PROVE  Spec => []SecondRunCompletes
<1>1. SInv(s) => SecondRunCompletes
  BY DEF SInv
<1> QED
  BY <1>1, SpecSInv, PTL

\* A registered company has its default team and the table of its members,
\* while no call was cut short, however often the setup is repeated.
THEOREM NewcomersJoin ==
  ASSUME NEW s, Setups = {s}
  PROVE  Spec => []NewcomersGetATeam
<1>1. SInv(s) => NewcomersGetATeam
  <2> SUFFICES ASSUME SInv(s), registered, Running = {}, ~Interrupted
               PROVE  "teams" \in filled /\ "employee_team" \in tables
    BY DEF NewcomersGetATeam, Interrupted
  <2>1. setups[s] = 0
    BY DEF Running
  <2>2. "teams" \in filled /\ "teams" \in tables
    BY <2>1 DEF SInv, Joined, TypeOK
  <2>3. ~CutShort
    BY CutsInterrupt
  <2> QED
    BY <2>1, <2>2, <2>3 DEF SInv, Shielded
<1> QED
  BY <1>1, SpecSInv, PTL

\* No setup takes away employees or actions, nor, unless a script was cut
\* short, documents or teams: every DROP that could is refused.
THEOREM RecordsAreKept ==
  ASSUME NEW s, Setups = {s}
  PROVE  Spec => SetupKeepsRecords
<1> DEFINE kept == {"employees", "actions"} \cup
             (IF Ended({"script failed"}) = {} THEN {"documents", "teams"} ELSE {})
<1>1. SInv(s) /\ [Next]_vars => [kept \cap filled \subseteq filled']_vars
  <2> SUFFICES ASSUME SInv(s), [Next]_vars PROVE kept \cap filled \subseteq filled'
    OBVIOUS
  <2>1. KeepsRows
    BY NextSInv
  <2> QED
    BY <2>1 DEF KeepsRows, CutShort
<1> QED
  BY <1>1, SpecSInv, PTL DEF Spec, SetupKeepsRecords

=============================================================================
