--------------------------- MODULE AttendanceList ---------------------------
(***************************************************************************)
(* What /v1/attendance/list-all answers about the colleagues of the        *)
(* caller.  It puts a list together from three SELECTs, each of which sees *)
(* the table `actions` as the commits of other handlers have left it.      *)
(*                                                                         *)
(* employee_team has one team, so everyone is a colleague of the caller.   *)
(***************************************************************************)
EXTENDS Absence

CONSTANT Windows   \* what clients ask for: <<from, to>>

\* Clients ask from one midnight to a later one, as the tests do.
ASSUME WindowsAssumption ==
  \A w \in Windows : /\ w \in Int \X Int
                     /\ w[1] < w[2]
                     /\ w[1] % Day = 0 /\ w[2] % Day = 0

Within(t, w) == w[1] <= t /\ t <= w[2]

\* A row of the list: an employee and the start, if any.
Row(u, t) == <<u, <<t>>>>
NoDate(u) == <<u, <<>>>>

\* LEFT JOIN of the attendances that start in the window: an employee without
\* one has a row without dates.
Attendances(table, present, w) ==
  {Row(table[a].user_id, table[a].start_date) :
     a \in {b \in DOMAIN table : /\ table[b].type = "attendance"
                                 /\ Within(table[b].start_date, w)}}
  \cup
  {NoDate(u) :
     u \in {v \in present : \A a \in DOMAIN table :
              ~ /\ table[a].user_id = v
                /\ table[a].type = "attendance"
                /\ Within(table[a].start_date, w)}}

\* The approved absences that overlap the window, overtime aside.
OtherActions(table, w) ==
  {table[a] : a \in {b \in DOMAIN table :
     /\ table[b].type \notin {"attendance", "overtime"}
     /\ table[b].status = "approved"
     /\ \/ Within(table[b].start_date, w)
        \/ Within(table[b].end_date, w)
        \/ table[b].start_date < w[1] /\ table[b].end_date > w[2]}}

Overtimes(table, w) ==
  {Row(table[a].user_id, table[a].start_date) :
     a \in {b \in DOMAIN table : /\ table[b].type = "overtime"
                                 /\ table[b].status = "approved"
                                 /\ Within(table[b].start_date, w)}}

\* for (; cur_date < end_date; cur_date += 1440min)
Dates(action) ==
  {action.start_date + k * Day :
     k \in {i \in 0 .. (action.end_date - action.start_date) \div Day :
              action.start_date + i * Day < action.end_date}}

\* other_actions_days
DaysAway(others) ==
  UNION {{<<DayOf(t), action.user_id>> : t \in Dates(action)} : action \in others}

\* Mutant: the first moment of the window is not part of it.
ListAll_AfterFrom(seen, present, now, w) ==
  LET others == OtherActions(now, w) IN
    {item \in Attendances(seen, present, w) :
       \A t \in Range(item[2]) : <<DayOf(t), item[1]>> \notin DaysAway(others)}
    \cup
    UNION {{Row(action.user_id, t) : t \in {d \in Dates(action) :
                                             w[1] < d /\ d <= w[2]}} :
             action \in others}
    \cup
    Overtimes(now, w)

\* Attendances on days away are left out, and the dates of the absences that
\* are in the window put in.  `seen` is the first table read, `now` the one the
\* later SELECTs read.
ListAll(seen, present, now, w) ==
  LET others == OtherActions(now, w) IN
    {item \in Attendances(seen, present, w) :
       \A t \in Range(item[2]) : <<DayOf(t), item[1]>> \notin DaysAway(others)}
    \cup
    UNION {{Row(action.user_id, t) : t \in {d \in Dates(action) : Within(d, w)}} :
             action \in others}
    \cup
    Overtimes(now, w)

----------------------------------------------------------------------------
(* Properties *)

\* A split takes no day away and puts none in twice: while both parts of a
\* whole-day absence are there, the dates the attendance list shows for the
\* parts are those it shows for the absence, each for one part only.  The parts
\* are computed from a row read before other handlers commit, from split_date,
\* and from ends that lie a minute before midnight; a part may be split again,
\* or moved first.
SplitKeepsDays ==
  \A a \in DOMAIN actions :
    LET parts == actions[a].blocking IN
      /\ actions[a].type \in DayTypes
      /\ Len(parts) = 2
      /\ Range(parts) \subseteq DOMAIN actions
      => /\ Dates(actions[parts[1]]) \cup Dates(actions[parts[2]]) = Dates(actions[a])
         /\ Dates(actions[parts[1]]) \cap Dates(actions[parts[2]]) = {}

\* Whoever is employed throughout has a row in the list, whatever commits
\* between its first SELECT and the next: an attendance is left out only for
\* an absence that has a row of its own in the same window.
EveryColleagueListed ==
  [][\A w \in Windows :
       DOMAIN employees \cap DOMAIN employees' \subseteq
         {item[1] : item \in ListAll(actions, DOMAIN employees, actions', w)}]_vars

=============================================================================
