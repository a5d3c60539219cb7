---------------------------- MODULE CompanySetup ----------------------------
(***************************************************************************)
(* How the tables of one company come into being:                          *)
(* /v1/superuser/company/add, which runs scripts/setup_company_db.sh, which *)
(* pipes postgresql/migrations into psql, and then writes two rows.        *)
(*                                                                         *)
(* psql commits every statement by itself, goes on after one that failed,  *)
(* and exits with 0 whatever failed; it reports an error only when it did  *)
(* not get to the end of its input.                                        *)
(*                                                                         *)
(* A table is there or not, and holds rows or not.  The column that        *)
(* 8__inventory.sql adds to employees counts as a table.                   *)
(***************************************************************************)
EXTENDS Naturals, Sequences, SequencesExt

CONSTANTS
  Setups,    \* handler executions that may be in progress at once
  MaxCalls   \* bound: calls of /v1/superuser/company/add for this company

ASSUME MaxCallsAssumption == MaxCalls \in Nat

VARIABLES
  tables,      \* the tables that exist
  filled,      \* the tables that hold rows
  registered,  \* whether wd_general.companies has the company
  setups,      \* the next statement of each execution: 0 when there is none
  outcomes     \* history: how the calls ended, in order

vars == <<tables, filled, registered, setups, outcomes>>

----------------------------------------------------------------------------
(* The migrations, in the order of their file names *)

Create(t) == [do |-> "create", table |-> t]
Drop(t) == [do |-> "drop", table |-> t]

\* Mutant: 6__documents_db.sql drops employee_document after creating it.
Migrations_DropsLate ==
  <<Create("employees"),
    Drop("notifications"), Create("notifications"),
    Drop("actions"), Create("actions"),
    Drop("payments"), Create("payments"),
    Create("reverse_index"),
    Drop("documents"), Create("documents"),
    Create("employee_document"), Drop("employee_document"),
    Drop("teams"), Create("teams"),
    Drop("employee_team"), Create("employee_team"),
    Create("inventory")>>

Migrations ==
  <<Create("employees"),
    Drop("notifications"), Create("notifications"),
    Drop("actions"), Create("actions"),
    Drop("payments"), Create("payments"),
    Create("reverse_index"),
    Drop("documents"), Create("documents"),
    Drop("employee_document"), Create("employee_document"),
    Drop("teams"), Create("teams"),
    Drop("employee_team"), Create("employee_team"),
    Create("inventory")>>

Tables == {Migrations[i].table : i \in DOMAIN Migrations}

\* The tables the foreign keys of a table name (documents names itself, too).
References(t) ==
  CASE t = "notifications"     -> {"employees", "actions"}
    [] t = "employee_document" -> {"employees", "documents"}
    [] t = "employee_team"     -> {"employees", "teams"}
    [] t \in {"actions", "payments", "inventory"} -> {"employees"}
    [] OTHER -> {}

Referring(t) == {u \in tables : t \in References(u)}

\* Mutant: foreign keys are added without looking for what they refer to.
CreateTable_Unchecked(t) == tables' = tables \cup {t} /\ UNCHANGED filled

\* CREATE TABLE IF NOT EXISTS, which fails without the tables it refers to.
CreateTable(t) ==
  /\ tables' = IF References(t) \subseteq tables THEN tables \cup {t} ELSE tables
  /\ UNCHANGED filled

\* Mutant: DROP TABLE IF EXISTS ... CASCADE.
DropTable_Cascade(t) == tables' = tables \ {t} /\ filled' = filled \ {t}

\* DROP TABLE IF EXISTS, without CASCADE: refused while another table refers
\* to this one.
DropTable(t) ==
  IF Referring(t) = {}
  THEN tables' = tables \ {t} /\ filled' = filled \ {t}
  ELSE UNCHANGED <<tables, filled>>

----------------------------------------------------------------------------
(* /v1/superuser/company/add *)

ToRegister == Len(Migrations) + 1
ToAddTeam  == Len(Migrations) + 2

Running == {s \in Setups : setups[s] # 0}
GoOn(s) == setups' = [setups EXCEPT ![s] = @ + 1]

End(s, outcome) ==
  /\ setups' = [setups EXCEPT ![s] = 0]
  /\ outcomes' = Append(outcomes, outcome)

\* Nothing looks whether the company is there already.
BeginSetup(s) ==
  /\ setups[s] = 0
  /\ Len(outcomes) + Cardinality(Running) < MaxCalls
  /\ GoOn(s)
  /\ UNCHANGED <<tables, filled, registered, outcomes>>

Migrate(s) ==
  /\ setups[s] \in DOMAIN Migrations
  /\ LET statement == Migrations[setups[s]] IN
       \/ statement.do = "create" /\ CreateTable(statement.table)
       \/ statement.do = "drop" /\ DropTable(statement.table)
  /\ GoOn(s)
  /\ UNCHANGED <<registered, outcomes>>

\* psql is killed, or loses its connection: the answer is 500.
PsqlDies(s) ==
  /\ setups[s] \in DOMAIN Migrations
  /\ End(s, "script failed")
  /\ UNCHANGED <<tables, filled, registered>>

\* The row of wd_general.companies; its primary key refuses a second one, and
\* the answer is 500.
Register(s) ==
  /\ setups[s] = ToRegister
  /\ IF registered
     THEN End(s, "refused") /\ UNCHANGED registered
     ELSE registered' = TRUE /\ GoOn(s) /\ UNCHANGED outcomes
  /\ UNCHANGED <<tables, filled>>

\* The row of the default team, and the answer.
AddTeam(s) ==
  /\ setups[s] = ToAddTeam
  /\ IF "teams" \in tables \ filled
     THEN End(s, "added") /\ filled' = filled \cup {"teams"}
     ELSE End(s, "refused") /\ UNCHANGED filled
  /\ UNCHANGED <<tables, registered>>

\* The backend stops after the script.
BackendStops(s) ==
  /\ setups[s] \in {ToRegister, ToAddTeam}
  /\ End(s, "stopped")
  /\ UNCHANGED <<tables, filled, registered>>

----------------------------------------------------------------------------
(* What other handlers write meanwhile.  They take the schema from the      *)
(* company id, and do not look whether the company is registered.           *)

\* One transaction that inserts a row into each of some tables.
Write(ts) ==
  /\ ts \subseteq tables
  /\ filled' = filled \cup ts
  /\ UNCHANGED <<tables, registered, setups, outcomes>>

\* /v1/employee/add: the row, and later its team, which has to exist.
AddEmployee == Write({"employees"})
AddEmployeeTeam == {"employees", "teams"} \subseteq filled /\ Write({"employee_team"})

\* /v1/attendance/add and its notification; the other handlers that write
\* actions notify in the same transaction, too.
AddAttendance == "employees" \in filled /\ Write({"actions", "notifications"})

\* /v1/documents/send: the document, and later its links.
SendDocument == Write({"documents"})
SendLinks == {"employees", "documents"} \subseteq filled /\ Write({"employee_document"})

Init ==
  /\ tables = {}
  /\ filled = {}
  /\ registered = FALSE
  /\ setups = [s \in Setups |-> 0]
  /\ outcomes = <<>>

Next ==
  \/ \E s \in Setups :
       BeginSetup(s) \/ Migrate(s) \/ PsqlDies(s) \/ Register(s) \/ AddTeam(s) \/ BackendStops(s)
  \/ AddEmployee \/ AddEmployeeTeam
  \/ AddAttendance
  \/ SendDocument \/ SendLinks

Spec == Init /\ [][Next]_vars

----------------------------------------------------------------------------
Outcomes == {"script failed", "refused", "added", "stopped"}
Ended(how) == {i \in DOMAIN outcomes : outcomes[i] \in how}
Whole == Outcomes \ {"script failed"}

\* Types; only tables that exist hold rows, and what a table refers to exists
\* as long as it does: PostgreSQL keeps a foreign key only between tables that
\* are both there.
TypeOK ==
  /\ tables \subseteq Tables
  /\ filled \subseteq tables
  /\ \A t \in tables : References(t) \subseteq tables
  /\ registered \in BOOLEAN
  /\ setups \in [Setups -> 0 .. ToAddTeam]
  /\ outcomes \in Seq(Outcomes)

\* A call for a company that has been in use, one at a time, takes away no
\* employee and no action, although 3__actions_db.sql drops the table: the
\* notifications table was created just before and refers to it.  Documents and
\* teams stay, too, unless an earlier script was cut short between the DROP and
\* the CREATE of the table that refers to them.
SetupKeepsRecords ==
  [][LET kept == {"employees", "actions"} \cup
           (IF Ended({"script failed"}) = {} THEN {"documents", "teams"} ELSE {})
     IN  kept \cap filled \subseteq filled']_vars

\* A company whose script ran to its end twice, or more often, has all tables
\* after the last of these runs: the first run leaves behind what the second
\* one misses.
SecondRunCompletes ==
  /\ Running = {}
  /\ Cardinality(Ended(Whole)) >= 2
  /\ Last(outcomes) \in Whole
  => tables = Tables

\* Whoever is added to a registered company finds the default team and the
\* table that names it, unless a call was cut short.
NewcomersGetATeam ==
  registered /\ Running = {} /\ Ended({"script failed", "stopped"}) = {}
  => "teams" \in filled /\ "employee_team" \in tables

\* "Company was added" (docs/yaml/openapi.yaml:686) is answered, and not
\* "Failed to set up database", when the company has its tables.
AddedHasTables ==
  Running = {} /\ outcomes # <<>> /\ Last(outcomes) = "added" => tables = Tables
=============================================================================
