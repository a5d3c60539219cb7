------------------------------- MODULE Access -------------------------------
(***************************************************************************)
(* Logging in and being let in: /v1/authorize inserts a token into         *)
(* wd_general.auth_tokens, and CheckAuth of auth_bearer.cpp looks the token *)
(* of every other call up, in the cache auth-pg-cache first and then in    *)
(* the table.  One PostgreSQL host serves master and slave reads.          *)
(*                                                                         *)
(* The cache is userver's PostgreCache: every ten minutes it reads the     *)
(* rows whose column `updated` is not before its previous update, every    *)
(* hour all rows.  `updated` is NOW(), the time the INSERT began: a row    *)
(* that is committed later may be too old for the update that could first  *)
(* see it.  Instead of times the model keeps which tokens were stamped     *)
(* since the latest update.                                                *)
(***************************************************************************)
EXTENDS Naturals, Functions

CONSTANTS
  Companies,   \* the companies, each with a table of employees
  Ids,         \* ids that rows of these tables may have
  Roles,       \* employees.role
  Routes,      \* the sets of scopes static_config.yaml requires of calls
  BadHeader,   \* an Authorization header without "Bearer <token>"
  Handlers,    \* handler executions that may be in progress at once
  MaxLogins    \* bound: tokens ever made

Scopes == Roles \cup {"user"}

ASSUME RoutesAssumption == Routes \subseteq SUBSET Scopes
ASSUME LoginsAssumption == MaxLogins \in Nat /\ BadHeader \notin Nat

VARIABLES
  employees,    \* <<company, id>> -> role of the row
  auth_tokens,  \* token -> row of wd_general.auth_tokens
  stamped,      \* tokens whose `updated` is not before the latest cache update
  cache,        \* auth_cache_: token -> row
  handlers,     \* what each handler execution holds in its locals
  nextToken,    \* the next fresh token (GenerateUuid)
  told          \* history: answered token -> user, company and role

vars == <<employees, auth_tokens, stamped, cache, handlers, nextToken, told>>

Null == 0   \* no token: fresh ones start at 1
Tokens == 1 .. MaxLogins

Row      == [user_id : Ids, company_id : Companies, scopes : SUBSET Scopes]
Context  == [user_id : Ids, company_id : Companies, role : Scopes]
Outcomes == {"unauthorized", "unknown", "not enough permissions", "served"}

Idle == [op |-> "idle"]
LoginState == [op : {"selected", "inserting", "answering"}, user : Ids,
               company : Companies, role : Roles, token : Tokens]
CallState  == [op : {"select", "ended"}, token : Tokens \cup {BadHeader},
               route : Routes, answered : BOOLEAN,
               outcome : {""} \cup Outcomes, context : {Idle} \cup Context]

Become(h, state) == handlers' = [handlers EXCEPT ![h] = state]

----------------------------------------------------------------------------
(* The employees, as Directory writes them *)

\* /v1/employee/add, up to its first INSERT.
AddEmployee(c, u, role) ==
  /\ <<c, u>> \notin DOMAIN employees
  /\ employees' = [e \in DOMAIN employees \cup {<<c, u>>} |->
                     IF e = <<c, u>> THEN role ELSE employees[e]]
  /\ UNCHANGED <<auth_tokens, stamped, cache, handlers, nextToken, told>>

\* /v1/employee/remove: the tokens stay.
RemoveEmployee(e) ==
  /\ employees' = Restrict(employees, DOMAIN employees \ {e})
  /\ UNCHANGED <<auth_tokens, stamped, cache, handlers, nextToken, told>>

----------------------------------------------------------------------------
(* /v1/authorize *)

\* Mutant: the token is made once, when the handler is.
BeginLogin_SameToken(h, c, u) ==
  /\ handlers[h] = Idle
  /\ nextToken <= MaxLogins
  /\ <<c, u>> \in DOMAIN employees
  /\ Become(h, [op |-> "selected", user |-> u, company |-> c,
                role |-> employees[<<c, u>>], token |-> nextToken])
  /\ UNCHANGED <<employees, auth_tokens, stamped, cache, nextToken, told>>

\* The SELECT of the employee.  No row, or another password than the row's, is
\* answered 404.
BeginLogin(h, c, u) ==
  /\ handlers[h] = Idle
  /\ nextToken <= MaxLogins
  /\ <<c, u>> \in DOMAIN employees
  /\ Become(h, [op |-> "selected", user |-> u, company |-> c,
                role |-> employees[<<c, u>>], token |-> nextToken])
  /\ nextToken' = nextToken + 1
  /\ UNCHANGED <<employees, auth_tokens, stamped, cache, told>>

\* The INSERT begins: `updated` is DEFAULT NOW().
StampToken(h) ==
  /\ handlers[h].op = "selected"
  /\ stamped' = stamped \cup {handlers[h].token}
  /\ Become(h, [handlers[h] EXCEPT !.op = "inserting"])
  /\ UNCHANGED <<employees, auth_tokens, cache, nextToken, told>>

\* Mutant: a role replaces the scope "user".
ScopesOf_RoleOnly(role) == {role}

\* scopes = {"user"}, and the role if it is another one.
ScopesOf(role) == {"user", role}

\* The row is committed.
InsertToken(h) ==
  /\ handlers[h].op = "inserting"
  /\ LET l == handlers[h] IN
       auth_tokens' = [t \in DOMAIN auth_tokens \cup {l.token} |->
         IF t = l.token THEN [user_id |-> l.user, company_id |-> l.company,
                              scopes |-> ScopesOf(l.role)]
                        ELSE auth_tokens[t]]
  /\ Become(h, [handlers[h] EXCEPT !.op = "answering"])
  /\ UNCHANGED <<employees, stamped, cache, nextToken, told>>

AnswerLogin(h) ==
  /\ handlers[h].op = "answering"
  /\ LET l == handlers[h] IN
       told' = [t \in DOMAIN told \cup {l.token} |->
         IF t = l.token THEN [user_id |-> l.user, company_id |-> l.company,
                              role |-> l.role]
                        ELSE told[t]]
  /\ Become(h, Idle)
  /\ UNCHANGED <<employees, auth_tokens, stamped, cache, nextToken>>

\* A statement fails: the answer is 500, and no token was made.
Abort(h) ==
  /\ handlers[h].op \in {"selected", "inserting"}
  /\ Become(h, Idle)
  /\ UNCHANGED <<employees, auth_tokens, stamped, cache, nextToken, told>>

----------------------------------------------------------------------------
(* CheckAuth *)

\* Mutant: manager is not looked for.
RoleOf_NoManager(scopes) ==
  CASE "superuser" \in scopes -> "superuser"
    [] "superuser" \notin scopes /\ "admin" \in scopes -> "admin"
    [] OTHER -> "user"

\* The role the scopes of a token stand for: other ones count as "user".
RoleOf(scopes) ==
  CASE "superuser" \in scopes -> "superuser"
    [] "superuser" \notin scopes /\ "admin" \in scopes -> "admin"
    [] scopes \cap {"superuser", "admin"} = {} /\ "manager" \in scopes -> "manager"
    [] OTHER -> "user"

\* A check has an outcome, and for a call that is served the context its
\* handler reads.
End(h, call, outcome, context) ==
  Become(h, [call EXCEPT !.op = "ended", !.outcome = outcome, !.context = context])

\* The intersection of the token's scopes with those of the route.
Judge(h, call, row) ==
  IF row.scopes \cap call.route = {}
  THEN End(h, call, "not enough permissions", Idle)
  ELSE End(h, call, "served",
           [user_id |-> row.user_id, company_id |-> row.company_id,
            role |-> RoleOf(row.scopes)])

NewCall(token, route) ==
  [op |-> "select", token |-> token, route |-> route,
   answered |-> token \in DOMAIN told, outcome |-> "", context |-> Idle]

\* Mutant: what the cache does not know does not exist.
BeginCall_CacheOnly(h, token, route) ==
  /\ handlers[h] = Idle
  /\ LET call == NewCall(token, route) IN
       IF token = BadHeader THEN End(h, call, "unauthorized", Idle)
       ELSE IF token \in DOMAIN cache THEN Judge(h, call, cache[token])
       ELSE End(h, call, "unknown", Idle)
  /\ UNCHANGED <<employees, auth_tokens, stamped, cache, nextToken, told>>

\* The header, and the snapshot of the cache.
BeginCall(h, token, route) ==
  /\ handlers[h] = Idle
  /\ LET call == NewCall(token, route) IN
       IF token = BadHeader THEN End(h, call, "unauthorized", Idle)
       ELSE IF token \in DOMAIN cache THEN Judge(h, call, cache[token])
       ELSE Become(h, call)
  /\ UNCHANGED <<employees, auth_tokens, stamped, cache, nextToken, told>>

\* The SELECT for a token the cache does not have.
SelectToken(h) ==
  /\ handlers[h].op = "select"
  /\ LET call == handlers[h] IN
       IF call.token \in DOMAIN auth_tokens
       THEN Judge(h, call, auth_tokens[call.token])
       ELSE End(h, call, "unknown", Idle)
  /\ UNCHANGED <<employees, auth_tokens, stamped, cache, nextToken, told>>

ReturnCall(h) ==
  /\ handlers[h].op = "ended"
  /\ Become(h, Idle)
  /\ UNCHANGED <<employees, auth_tokens, stamped, cache, nextToken, told>>

----------------------------------------------------------------------------
(* The cache and the backend *)

\* Committed rows whose `updated` is not before the previous update.
IncrementalUpdate ==
  /\ cache' = [t \in DOMAIN cache \cup (stamped \cap DOMAIN auth_tokens) |->
                 auth_tokens[t]]
  /\ stamped' = {}
  /\ UNCHANGED <<employees, auth_tokens, handlers, nextToken, told>>

\* Mutant: update-types: only-incremental.
FullUpdate_Incremental == IncrementalUpdate

FullUpdate ==
  /\ cache' = auth_tokens
  /\ stamped' = {}
  /\ UNCHANGED <<employees, auth_tokens, handlers, nextToken, told>>

\* The backend stops and starts: the first update, a full one, comes before
\* the first call.  A row may have been committed without an answer.
Restart ==
  /\ handlers' = [h \in Handlers |-> Idle]
  /\ cache' = auth_tokens
  /\ stamped' = {}
  /\ UNCHANGED <<employees, auth_tokens, nextToken, told>>

Init ==
  /\ employees = [e \in {} |-> Idle]
  /\ auth_tokens = [t \in {} |-> Idle]
  /\ stamped = {}
  /\ cache = [t \in {} |-> Idle]
  /\ handlers = [h \in Handlers |-> Idle]
  /\ nextToken = 1
  /\ told = [t \in {} |-> Idle]

Login(h) ==
  \/ \E c \in Companies, u \in Ids : BeginLogin(h, c, u)
  \/ StampToken(h)
  \/ InsertToken(h)
  \/ AnswerLogin(h)
  \/ Abort(h)

\* Clients send what they were answered, or made up.
Check(h) ==
  \/ \E token \in Tokens \cup {BadHeader}, route \in Routes : BeginCall(h, token, route)
  \/ SelectToken(h)
  \/ ReturnCall(h)

Staff ==
  \/ \E c \in Companies, u \in Ids, role \in Roles : AddEmployee(c, u, role)
  \/ \E e \in DOMAIN employees : RemoveEmployee(e)

Next ==
  \/ Staff
  \/ \E h \in Handlers : Login(h) \/ Check(h)
  \/ IncrementalUpdate
  \/ FullUpdate
  \/ Restart

\* Only the hourly update is counted on.
Spec == Init /\ [][Next]_vars /\ WF_vars(FullUpdate)

----------------------------------------------------------------------------
(* Properties *)

\* Rows, cache and locals are well-formed, tokens are made once, and what the
\* cache holds is what the table holds.
TypeOK ==
  /\ DOMAIN employees \subseteq Companies \X Ids
  /\ \A e \in DOMAIN employees : employees[e] \in Roles
  /\ DOMAIN auth_tokens \subseteq Tokens
  /\ \A t \in DOMAIN auth_tokens : auth_tokens[t] \in Row
  /\ stamped \subseteq Tokens
  /\ DOMAIN cache \subseteq DOMAIN auth_tokens
  /\ \A t \in DOMAIN cache : cache[t] = auth_tokens[t]
  /\ handlers \in [Handlers -> {Idle} \cup LoginState \cup CallState]
  /\ nextToken \in 1 .. MaxLogins + 1
  /\ DOMAIN told \subseteq DOMAIN auth_tokens
  /\ \A t \in DOMAIN told : told[t] \in Context

\* A token that /v1/authorize has answered is never unknown to a call that
\* comes after the answer, whatever the cache has missed, and opens the routes
\* of every user and those of the role it was answered with.
AnsweredLoginsWork ==
  \A h \in Handlers :
    LET call == handlers[h] IN
      call.op = "ended" /\ call.answered =>
        call.outcome = IF {"user", told[call.token].role} \cap call.route = {}
                       THEN "not enough permissions" ELSE "served"

\* A call is served as the user, of the company and in the role that the login
\* of its token was answered with, whatever became of the employee since.
KnownRoles == {"user", "manager", "admin", "superuser"}
ServedAsLoggedIn ==
  \A h \in Handlers :
    LET call == handlers[h] IN
      call.op = "ended" /\ call.outcome = "served" /\ call.answered =>
        LET login == told[call.token] IN
          /\ call.context.user_id = login.user_id
          /\ call.context.company_id = login.company_id
          /\ call.context.role =
               IF login.role \in KnownRoles THEN login.role ELSE "user"

\* A row the incremental updates missed, because its INSERT began before one
\* of them and was committed after it, reaches the cache all the same.
CacheCatchesUp ==
  \A t \in Tokens : (t \in DOMAIN auth_tokens) ~> (t \in DOMAIN cache)

=============================================================================
