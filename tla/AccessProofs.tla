---------------------------- MODULE AccessProofs ----------------------------
(***************************************************************************)
(* For every number of companies, roles, routes, handlers and logins: the  *)
(* type invariant of Access, and that answered logins work, as whoever     *)
(* logged in.  The invariant behind it says that a token belongs to one    *)
(* login until it is answered, and that a row of auth_tokens stays what    *)
(* the answer said.                                                        *)
(***************************************************************************)
EXTENDS Access, TLAPS

\* The row a login with this answer has made.
RowOf(user, company, role) ==
  [user_id |-> user, company_id |-> company, scopes |-> ScopesOf(role)]

LoggingIn(h) == handlers[h].op \in {"selected", "inserting", "answering"}

\* Tokens are below nextToken, and no two logins in progress share one.
TokensAreFresh ==
  /\ \A t \in DOMAIN auth_tokens : t < nextToken
  /\ \A h \in Handlers : LoggingIn(h) =>
       /\ handlers[h].token < nextToken
       /\ handlers[h].token \notin DOMAIN told
       /\ \A g \in Handlers : LoggingIn(g) /\ g # h =>
            handlers[g].token # handlers[h].token

\* A login that has not inserted its row finds none, one that has finds its own.
RowsOfLogins ==
  \A h \in Handlers :
    LET l == handlers[h] IN
      /\ l.op \in {"selected", "inserting"} => l.token \notin DOMAIN auth_tokens
      /\ l.op = "answering" =>
           /\ l.token \in DOMAIN auth_tokens
           /\ auth_tokens[l.token] = RowOf(l.user, l.company, l.role)

\* What was answered is what the table holds.
RowsOfAnswers ==
  \A t \in DOMAIN told :
    auth_tokens[t] = RowOf(told[t].user_id, told[t].company_id, told[t].role)

\* What Judge says of a row.
Verdict(row, route) ==
  IF row.scopes \cap route = {} THEN "not enough permissions" ELSE "served"
ContextOf(row) ==
  [user_id |-> row.user_id, company_id |-> row.company_id,
   role |-> RoleOf(row.scopes)]

\* A call with an answered token ends with what its row says.
CallsAreJudged ==
  \A h \in Handlers :
    LET call == handlers[h] IN
      call.op \in {"select", "ended"} /\ call.answered =>
        /\ call.token \in DOMAIN told
        /\ call.op = "ended" =>
             /\ call.outcome = Verdict(auth_tokens[call.token], call.route)
             /\ call.outcome = "served" =>
                  call.context = ContextOf(auth_tokens[call.token])

IInv ==
  /\ TypeOK
  /\ TokensAreFresh
  /\ RowsOfLogins
  /\ RowsOfAnswers
  /\ CallsAreJudged

----------------------------------------------------------------------------
(* Where a handler execution can be *)

\* A handler execution is idle, logging in, or checking a call.
LEMMA HandlerCases ==
  ASSUME TypeOK, NEW h \in Handlers
  PROVE  /\ handlers[h].op \in {"selected", "inserting", "answering"} =>
              handlers[h] \in LoginState
         /\ handlers[h].op \in {"select", "ended"} => handlers[h] \in CallState
         /\ handlers[h] \in {Idle} \cup LoginState \cup CallState
<1>1. handlers[h] \in {Idle} \cup LoginState \cup CallState
  BY DEF TypeOK
<1>2. CASE handlers[h] = Idle
  BY <1>2 DEF Idle
<1>3. CASE handlers[h] \in LoginState
  BY <1>3 DEF LoginState
<1>4. CASE handlers[h] \in CallState
  BY <1>4 DEF CallState
<1> QED
  BY <1>1, <1>2, <1>3, <1>4

\* Scopes of a role that a row or an answer holds.
LEMMA ScopesOfType ==
  ASSUME NEW role \in Scopes
  PROVE  ScopesOf(role) \in SUBSET Scopes
BY DEF ScopesOf, Scopes

\* A role CheckAuth finds is one of the scopes.
LEMMA RoleOfType ==
  ASSUME NEW scopes \in SUBSET Scopes
  PROVE  RoleOf(scopes) \in Scopes
BY DEF RoleOf, Scopes

\* Init => IInv
LEMMA InitIInv == Init => IInv
<1> SUFFICES ASSUME Init PROVE IInv
  OBVIOUS
<1>1. TypeOK
  BY LoginsAssumption DEF Init, TypeOK, Idle, LoginState, CallState
<1>2. TokensAreFresh
  BY DEF Init, TokensAreFresh, LoggingIn, Idle
<1>3. RowsOfLogins
  BY DEF Init, RowsOfLogins, Idle
<1>4. RowsOfAnswers
  BY DEF Init, RowsOfAnswers
<1>5. CallsAreJudged
  BY DEF Init, CallsAreJudged, Idle
<1> QED
  BY <1>1, <1>2, <1>3, <1>4, <1>5 DEF IInv

----------------------------------------------------------------------------
(* Steps of a login *)

\* The SELECT takes a token that no row, no answer and no login has.
LEMMA BeginLoginStep ==
  ASSUME IInv, NEW h \in Handlers, NEW c \in Companies, NEW u \in Ids,
         BeginLogin(h, c, u)
  PROVE  IInv'
<1> DEFINE l == [op |-> "selected", user |-> u, company |-> c,
                 role |-> employees[<<c, u>>], token |-> nextToken]
<1> USE DEF IInv
<1>1. /\ handlers[h] = Idle
      /\ nextToken \in Tokens
      /\ nextToken' = nextToken + 1
      /\ handlers' = [handlers EXCEPT ![h] = l]
      /\ UNCHANGED <<employees, auth_tokens, stamped, cache, told>>
  BY LoginsAssumption DEF BeginLogin, Become, TypeOK, Tokens
<1>2. l \in LoginState
  BY <1>1 DEF LoginState, BeginLogin, TypeOK
<1>3. /\ handlers' \in [Handlers -> {Idle} \cup LoginState \cup CallState]
      /\ handlers'[h] = l
      /\ \A g \in Handlers : g # h => handlers'[g] = handlers[g]
  BY <1>1, <1>2 DEF TypeOK
<1>4. TypeOK'
  BY <1>1, <1>3, LoginsAssumption DEF TypeOK, Tokens
<1>5. TokensAreFresh'
  <2>1. \A t \in DOMAIN auth_tokens' : t < nextToken'
    BY <1>1, LoginsAssumption DEF TypeOK, TokensAreFresh, Tokens
  <2>2. \A g \in Handlers : g # h /\ LoggingIn(g) =>
          handlers[g].token \in Nat /\ handlers[g].token < nextToken
    BY HandlerCases DEF TokensAreFresh, LoggingIn, LoginState, Tokens
  <2>3. nextToken \in Nat /\ nextToken \notin DOMAIN told
    BY <1>1 DEF TypeOK, TokensAreFresh, Tokens
  <2>4. \A g \in Handlers : LoggingIn(g)' =>
          /\ handlers'[g].token < nextToken'
          /\ handlers'[g].token \notin DOMAIN told'
    BY <1>1, <1>3, <2>2, <2>3 DEF TokensAreFresh, LoggingIn
  <2>5. \A g, k \in Handlers : LoggingIn(g)' /\ LoggingIn(k)' /\ g # k =>
          handlers'[g].token # handlers'[k].token
    BY <1>1, <1>3, <2>2, <2>3 DEF TokensAreFresh, LoggingIn
  <2> QED
    BY <2>1, <2>4, <2>5 DEF TokensAreFresh
<1>6. RowsOfLogins'
  BY <1>1, <1>3 DEF RowsOfLogins, TokensAreFresh, TypeOK, Tokens
<1>7. RowsOfAnswers' /\ CallsAreJudged'
  BY <1>1, <1>3 DEF RowsOfAnswers, CallsAreJudged
<1> QED
  BY <1>4, <1>5, <1>6, <1>7

\* The INSERT begins: the login keeps its token.
LEMMA StampTokenStep ==
  ASSUME IInv, NEW h \in Handlers, StampToken(h)
  PROVE  IInv'
<1> DEFINE l == [handlers[h] EXCEPT !.op = "inserting"]
<1> USE DEF IInv
<1>1. /\ handlers[h] \in LoginState
      /\ handlers[h].op = "selected"
      /\ stamped' = stamped \cup {handlers[h].token}
      /\ handlers' = [handlers EXCEPT ![h] = l]
      /\ UNCHANGED <<employees, auth_tokens, cache, nextToken, told>>
  BY HandlerCases DEF StampToken, Become
<1>2. /\ l \in LoginState /\ l.op = "inserting"
      /\ l.token = handlers[h].token /\ l.token \in Tokens
  BY <1>1 DEF LoginState
<1>3. /\ handlers' \in [Handlers -> {Idle} \cup LoginState \cup CallState]
      /\ handlers'[h] = l
      /\ \A g \in Handlers : g # h => handlers'[g] = handlers[g]
  BY <1>1, <1>2 DEF TypeOK
<1>4. TypeOK'
  BY <1>1, <1>2, <1>3 DEF TypeOK
<1>5. TokensAreFresh'
  BY <1>1, <1>2, <1>3 DEF TokensAreFresh, LoggingIn
<1>6. RowsOfLogins'
  BY <1>1, <1>2, <1>3 DEF RowsOfLogins
<1>7. RowsOfAnswers' /\ CallsAreJudged'
  BY <1>1, <1>2, <1>3 DEF RowsOfAnswers, CallsAreJudged
<1> QED
  BY <1>4, <1>5, <1>6, <1>7

\* The row is committed: the only new row of the table is the login's.
LEMMA InsertTokenStep ==
  ASSUME IInv, NEW h \in Handlers, InsertToken(h)
  PROVE  IInv'
<1> DEFINE old == handlers[h]
           l == [old EXCEPT !.op = "answering"]
           row == RowOf(old.user, old.company, old.role)
<1> USE DEF IInv
<1>1. /\ old \in LoginState
      /\ old.op = "inserting"
      /\ auth_tokens' = [t \in DOMAIN auth_tokens \cup {old.token} |->
                           IF t = old.token THEN row ELSE auth_tokens[t]]
      /\ handlers' = [handlers EXCEPT ![h] = l]
      /\ UNCHANGED <<employees, stamped, cache, nextToken, told>>
  BY HandlerCases DEF InsertToken, Become, RowOf
<1>2. /\ l \in LoginState /\ l.op = "answering" /\ l.token = old.token
      /\ l.user = old.user /\ l.company = old.company /\ l.role = old.role
      /\ old.token \in Tokens /\ old.token \notin DOMAIN auth_tokens
      /\ old.token < nextToken /\ old.token \notin DOMAIN told
  BY <1>1 DEF LoginState, RowsOfLogins, TokensAreFresh, LoggingIn
<1>3. /\ handlers' \in [Handlers -> {Idle} \cup LoginState \cup CallState]
      /\ handlers'[h] = l
      /\ \A g \in Handlers : g # h => handlers'[g] = handlers[g]
  BY <1>1, <1>2 DEF TypeOK
<1>4. row \in Row
  BY <1>1, ScopesOfType DEF RowOf, Row, LoginState, Scopes
<1>5. /\ DOMAIN auth_tokens' = DOMAIN auth_tokens \cup {old.token}
      /\ auth_tokens'[old.token] = row
      /\ \A t \in DOMAIN auth_tokens : auth_tokens'[t] = auth_tokens[t]
  BY <1>1, <1>2
<1>6. TypeOK'
  BY <1>1, <1>2, <1>3, <1>4, <1>5 DEF TypeOK
<1>7. TokensAreFresh'
  BY <1>1, <1>2, <1>3, <1>5 DEF TokensAreFresh, LoggingIn
<1>8. RowsOfLogins'
  BY <1>1, <1>2, <1>3, <1>5 DEF RowsOfLogins, TokensAreFresh, LoggingIn
<1>9. RowsOfAnswers'
  BY <1>1, <1>2, <1>5 DEF RowsOfAnswers, TypeOK
<1>10. CallsAreJudged'
  BY <1>1, <1>2, <1>3, <1>5 DEF CallsAreJudged, TypeOK
<1> QED
  BY <1>6, <1>7, <1>8, <1>9, <1>10

\* The answer says what the row holds.
LEMMA AnswerLoginStep ==
  ASSUME IInv, NEW h \in Handlers, AnswerLogin(h)
  PROVE  IInv'
<1> DEFINE l == handlers[h]
           answer == [user_id |-> l.user, company_id |-> l.company,
                      role |-> l.role]
<1> USE DEF IInv
<1>1. /\ l \in LoginState
      /\ l.op = "answering"
      /\ told' = [t \in DOMAIN told \cup {l.token} |->
                    IF t = l.token THEN answer ELSE told[t]]
      /\ handlers' = [handlers EXCEPT ![h] = Idle]
      /\ UNCHANGED <<employees, auth_tokens, stamped, cache, nextToken>>
  BY HandlerCases DEF AnswerLogin, Become
<1>2. /\ l.token \in DOMAIN auth_tokens /\ l.token \notin DOMAIN told
      /\ auth_tokens[l.token] =
           RowOf(answer.user_id, answer.company_id, answer.role)
      /\ answer \in Context
  BY <1>1 DEF LoginState, RowsOfLogins, TokensAreFresh, LoggingIn, Context, Scopes
<1>3. /\ handlers' \in [Handlers -> {Idle} \cup LoginState \cup CallState]
      /\ handlers'[h] = Idle
      /\ \A g \in Handlers : g # h => handlers'[g] = handlers[g]
  BY <1>1 DEF TypeOK
<1>4. /\ DOMAIN told' = DOMAIN told \cup {l.token}
      /\ told'[l.token] = answer
      /\ \A t \in DOMAIN told : told'[t] = told[t]
  BY <1>1, <1>2
<1>5. TypeOK'
  BY <1>1, <1>2, <1>3, <1>4 DEF TypeOK
<1>6. TokensAreFresh'
  BY <1>1, <1>3, <1>4 DEF TokensAreFresh, LoggingIn, Idle
<1>7. RowsOfLogins'
  BY <1>1, <1>3 DEF RowsOfLogins, Idle
<1>8. RowsOfAnswers'
  BY <1>1, <1>2, <1>4 DEF RowsOfAnswers
<1>9. CallsAreJudged'
  BY <1>1, <1>3, <1>4 DEF CallsAreJudged, Idle
<1> QED
  BY <1>5, <1>6, <1>7, <1>8, <1>9

\* A handler execution that becomes idle leaves the others as they are.
LEMMA LeavingStep ==
  ASSUME IInv, NEW h \in Handlers, Become(h, Idle),
         UNCHANGED <<employees, auth_tokens, stamped, cache, nextToken, told>>
  PROVE  IInv'
<1> USE DEF IInv
<1>1. /\ handlers' \in [Handlers -> {Idle} \cup LoginState \cup CallState]
      /\ handlers'[h] = Idle
      /\ \A g \in Handlers : g # h => handlers'[g] = handlers[g]
  BY DEF TypeOK, Become
<1>2. TypeOK'
  BY <1>1 DEF TypeOK
<1>3. TokensAreFresh' /\ RowsOfLogins'
  BY <1>1 DEF TokensAreFresh, LoggingIn, RowsOfLogins, Idle
<1>4. RowsOfAnswers' /\ CallsAreJudged'
  BY <1>1 DEF RowsOfAnswers, CallsAreJudged, Idle
<1> QED
  BY <1>2, <1>3, <1>4

----------------------------------------------------------------------------
(* Steps of a check *)

\* What a call may become: waiting for its SELECT, or ended, and then as its
\* row says if its token was answered.
Judged(call) ==
  /\ call \in CallState
  /\ call.answered =>
       /\ call.token \in DOMAIN told
       /\ call.op = "ended" =>
            /\ call.outcome = Verdict(auth_tokens[call.token], call.route)
            /\ call.outcome = "served" =>
                 call.context = ContextOf(auth_tokens[call.token])

\* A handler execution that becomes such a call keeps the invariant.
LEMMA CallStep ==
  ASSUME IInv, NEW h \in Handlers, NEW call, Judged(call), Become(h, call),
         UNCHANGED <<employees, auth_tokens, stamped, cache, nextToken, told>>
  PROVE  IInv'
<1> USE DEF IInv
<1>1. /\ handlers' \in [Handlers -> {Idle} \cup LoginState \cup CallState]
      /\ handlers'[h] = call
      /\ \A g \in Handlers : g # h => handlers'[g] = handlers[g]
  BY DEF TypeOK, Become, Judged
<1>2. call.op \in {"select", "ended"}
  BY DEF Judged, CallState
<1>3. TypeOK'
  BY <1>1 DEF TypeOK
<1>4. TokensAreFresh'
  BY <1>1, <1>2 DEF TokensAreFresh, LoggingIn
<1>5. RowsOfLogins'
  BY <1>1, <1>2 DEF RowsOfLogins
<1>6. RowsOfAnswers' /\ CallsAreJudged'
  BY <1>1 DEF RowsOfAnswers, CallsAreJudged, Judged
<1> QED
  BY <1>3, <1>4, <1>5, <1>6

\* A call waiting for its SELECT, judged by the row of its token.
LEMMA JudgeStep ==
  ASSUME IInv, NEW h \in Handlers, NEW call \in CallState, NEW row \in Row,
         call.answered => call.token \in DOMAIN told,
         call.answered => row = auth_tokens[call.token],
         Judge(h, call, row),
         UNCHANGED <<employees, auth_tokens, stamped, cache, nextToken, told>>
  PROVE  IInv'
<1> DEFINE ended(outcome, context) ==
             [call EXCEPT !.op = "ended", !.outcome = outcome, !.context = context]
<1>1. CASE row.scopes \cap call.route = {}
  <2>1. Become(h, ended("not enough permissions", Idle))
    BY <1>1 DEF Judge, End
  <2>2. Judged(ended("not enough permissions", Idle))
    BY <1>1 DEF Judged, CallState, Outcomes, Verdict
  <2> QED
    BY <2>1, <2>2, CallStep
<1>2. CASE row.scopes \cap call.route # {}
  <2>1. Become(h, ended("served", ContextOf(row)))
    BY <1>2 DEF Judge, End, ContextOf
  <2>2. ContextOf(row) \in Context
    BY RoleOfType DEF ContextOf, Context, Row
  <2>3. Judged(ended("served", ContextOf(row)))
    BY <1>2, <2>2 DEF Judged, CallState, Outcomes, Verdict
  <2> QED
    BY <2>1, <2>3, CallStep
<1> QED
  BY <1>1, <1>2

\* A call that ends without a row has no answered token.
LEMMA UnknownStep ==
  ASSUME IInv, NEW h \in Handlers, NEW call \in CallState,
         NEW outcome \in Outcomes, ~call.answered, End(h, call, outcome, Idle),
         UNCHANGED <<employees, auth_tokens, stamped, cache, nextToken, told>>
  PROVE  IInv'
<1> DEFINE ended == [call EXCEPT !.op = "ended", !.outcome = outcome, !.context = Idle]
<1>1. Judged(ended)
  BY DEF Judged, CallState
<1>2. Become(h, ended)
  BY DEF End
<1> QED
  BY <1>1, <1>2, CallStep

\* A bad header is no token, and the cache holds rows of the table.
LEMMA BeginCallStep ==
  ASSUME IInv, NEW h \in Handlers, NEW token \in Tokens \cup {BadHeader},
         NEW route \in Routes, BeginCall(h, token, route)
  PROVE  IInv'
<1> DEFINE call == NewCall(token, route)
<1>1. /\ call \in CallState /\ call.op = "select" /\ call.token = token
      /\ call.answered <=> token \in DOMAIN told
  <2> DEFINE b == token \in DOMAIN told
  <2>1. b \in BOOLEAN
    OBVIOUS
  <2>2. call = [op |-> "select", token |-> token, route |-> route,
                answered |-> b, outcome |-> "", context |-> Idle]
    BY Zenon DEF NewCall
  <2> HIDE DEF b, call
  <2>3. /\ call \in CallState /\ call.op = "select" /\ call.token = token
        /\ call.answered = b
    BY <2>1, <2>2 DEF CallState
  <2> QED
    BY <2>3, Zenon DEF b
<1>2. UNCHANGED <<employees, auth_tokens, stamped, cache, nextToken, told>>
  BY DEF BeginCall
<1>3. CASE token = BadHeader
  <2>1. ~call.answered
    BY <1>1, <1>3, LoginsAssumption DEF IInv, TypeOK, Tokens
  <2>2. End(h, call, "unauthorized", Idle)
    BY <1>3 DEF BeginCall
  <2> QED
    BY <1>1, <1>2, <2>1, <2>2, UnknownStep DEF Outcomes
<1>4. CASE token # BadHeader /\ token \in DOMAIN cache
  <2>1. cache[token] \in Row /\ cache[token] = auth_tokens[token]
    BY <1>4 DEF IInv, TypeOK
  <2>2. Judge(h, call, cache[token])
    BY <1>4 DEF BeginCall
  <2> QED
    BY <1>1, <1>2, <2>1, <2>2, JudgeStep
<1>5. CASE token # BadHeader /\ token \notin DOMAIN cache
  <2>1. Become(h, call)
    BY <1>5 DEF BeginCall
  <2>2. Judged(call)
    BY <1>1 DEF Judged
  <2> QED
    BY <1>2, <2>1, <2>2, CallStep
<1> QED
  BY <1>3, <1>4, <1>5

\* The table has the row of every answered token.
LEMMA SelectTokenStep ==
  ASSUME IInv, NEW h \in Handlers, SelectToken(h)
  PROVE  IInv'
<1> DEFINE call == handlers[h]
<1>1. /\ call \in CallState
      /\ call.answered => call.token \in DOMAIN told
      /\ UNCHANGED <<employees, auth_tokens, stamped, cache, nextToken, told>>
  BY HandlerCases DEF SelectToken, IInv, CallsAreJudged
<1>2. CASE call.token \in DOMAIN auth_tokens
  <2>1. auth_tokens[call.token] \in Row
    BY <1>2 DEF IInv, TypeOK
  <2>2. Judge(h, call, auth_tokens[call.token])
    BY <1>2 DEF SelectToken
  <2> QED
    BY <1>1, <2>1, <2>2, JudgeStep
<1>3. CASE call.token \notin DOMAIN auth_tokens
  <2>1. ~call.answered
    BY <1>1, <1>3 DEF IInv, TypeOK
  <2>2. End(h, call, "unknown", Idle)
    BY <1>3 DEF SelectToken
  <2> QED
    BY <1>1, <2>1, <2>2, UnknownStep DEF Outcomes
<1> QED
  BY <1>2, <1>3

----------------------------------------------------------------------------
(* Steps of the cache, the backend and the employees *)

\* Whatever of the table the cache takes over, it agrees with the table.
LEMMA CacheStep ==
  ASSUME IInv, NEW ts \in SUBSET DOMAIN auth_tokens,
         cache' = [t \in ts |-> auth_tokens[t]], stamped' = {},
         handlers' = handlers \/ handlers' = [h \in Handlers |-> Idle],
         UNCHANGED <<employees, auth_tokens, nextToken, told>>
  PROVE  IInv'
<1> USE DEF IInv
<1>1. TypeOK'
  BY DEF TypeOK
<1>2. CASE handlers' = handlers
  BY <1>1, <1>2 DEF TokensAreFresh, LoggingIn, RowsOfLogins, RowsOfAnswers, CallsAreJudged
<1>3. CASE handlers' = [h \in Handlers |-> Idle]
  BY <1>1, <1>3 DEF TokensAreFresh, LoggingIn, RowsOfLogins, RowsOfAnswers,
                    CallsAreJudged, Idle
<1> QED
  BY <1>2, <1>3

\* The cache becomes the table.
LEMMA FullCacheStep ==
  ASSUME IInv, cache' = auth_tokens, stamped' = {},
         handlers' = handlers \/ handlers' = [h \in Handlers |-> Idle],
         UNCHANGED <<employees, auth_tokens, nextToken, told>>
  PROVE  IInv'
<1> USE DEF IInv
<1>1. TypeOK'
  BY DEF TypeOK
<1>2. CASE handlers' = handlers
  BY <1>1, <1>2 DEF TokensAreFresh, LoggingIn, RowsOfLogins, RowsOfAnswers, CallsAreJudged
<1>3. CASE handlers' = [h \in Handlers |-> Idle]
  BY <1>1, <1>3 DEF TokensAreFresh, LoggingIn, RowsOfLogins, RowsOfAnswers,
                    CallsAreJudged, Idle
<1> QED
  BY <1>2, <1>3

\* What becomes of the rows of employees touches no token.
LEMMA StaffStep ==
  ASSUME IInv, Staff
  PROVE  IInv'
<1> USE DEF IInv
<1>1. UNCHANGED <<auth_tokens, stamped, cache, handlers, nextToken, told>>
  BY DEF Staff, AddEmployee, RemoveEmployee
<1>2. /\ DOMAIN employees' \subseteq Companies \X Ids
      /\ \A e \in DOMAIN employees' : employees'[e] \in Roles
  <2>1. ASSUME NEW c \in Companies, NEW u \in Ids, NEW role \in Roles,
               AddEmployee(c, u, role)
        PROVE  <1>2!1 /\ <1>2!2
    BY <2>1 DEF AddEmployee, TypeOK
  <2>2. ASSUME NEW e \in DOMAIN employees, RemoveEmployee(e)
        PROVE  <1>2!1 /\ <1>2!2
    BY <2>2 DEF RemoveEmployee, Restrict, TypeOK
  <2> QED
    BY <2>1, <2>2 DEF Staff
<1>3. TypeOK'
  BY <1>1, <1>2 DEF TypeOK
<1>4. TokensAreFresh' /\ RowsOfLogins' /\ RowsOfAnswers' /\ CallsAreJudged'
  BY <1>1 DEF TokensAreFresh, LoggingIn, RowsOfLogins, RowsOfAnswers, CallsAreJudged
<1> QED
  BY <1>3, <1>4

\* IInv /\ [Next]_vars => IInv'
LEMMA NextIInv == IInv /\ [Next]_vars => IInv'
<1> SUFFICES ASSUME IInv, [Next]_vars PROVE IInv'
  OBVIOUS
<1>1. CASE Staff
  BY <1>1, StaffStep
<1>2. ASSUME NEW h \in Handlers, Login(h)
      PROVE  IInv'
  BY <1>2, BeginLoginStep, StampTokenStep, InsertTokenStep, AnswerLoginStep,
     LeavingStep DEF Login, Abort
<1>3. ASSUME NEW h \in Handlers, Check(h)
      PROVE  IInv'
  BY <1>3, BeginCallStep, SelectTokenStep, LeavingStep DEF Check, ReturnCall
<1>4. CASE IncrementalUpdate
  <2> DEFINE ts == DOMAIN cache \cup (stamped \cap DOMAIN auth_tokens)
  <2>1. ts \in SUBSET DOMAIN auth_tokens
    BY DEF IInv, TypeOK
  <2> QED
    BY <1>4, <2>1, CacheStep DEF IncrementalUpdate
<1>5. CASE FullUpdate
  BY <1>5, FullCacheStep DEF FullUpdate
<1>6. CASE Restart
  BY <1>6, FullCacheStep DEF Restart
<1>7. CASE UNCHANGED vars
  BY <1>7 DEF vars, IInv, TypeOK, TokensAreFresh, LoggingIn, RowsOfLogins,
              RowsOfAnswers, CallsAreJudged
<1> QED
  BY <1>1, <1>2, <1>3, <1>4, <1>5, <1>6, <1>7 DEF Next

----------------------------------------------------------------------------
(* The theorems *)

\* The invariant holds of every behaviour.
LEMMA SpecIInv == Spec => []IInv
BY InitIInv, NextIInv, PTL DEF Spec

\* Rows, cache and locals are well-formed, however many companies, handlers
\* and logins there are: the cache never holds what the table does not.
THEOREM AccessTypes == Spec => []TypeOK
<1>1. IInv => TypeOK
  BY DEF IInv
<1> QED
  BY <1>1, SpecIInv, PTL

\* A token that was answered opens what it was answered for, at once.
THEOREM AnswersWork == Spec => []AnsweredLoginsWork
<1> SUFFICES ASSUME IInv PROVE AnsweredLoginsWork
  BY SpecIInv, PTL
<1> SUFFICES ASSUME NEW h \in Handlers, handlers[h].op = "ended", handlers[h].answered
             PROVE  handlers[h].outcome =
                      IF {"user", told[handlers[h].token].role} \cap handlers[h].route = {}
                      THEN "not enough permissions" ELSE "served"
  BY DEF AnsweredLoginsWork
<1> DEFINE t == handlers[h].token
<1>1. handlers[h].outcome = Verdict(auth_tokens[t], handlers[h].route)
  BY DEF IInv, CallsAreJudged
<1>2. auth_tokens[t] = RowOf(told[t].user_id, told[t].company_id, told[t].role)
  BY DEF IInv, CallsAreJudged, RowsOfAnswers
<1>3. auth_tokens[t].scopes = {"user", told[t].role}
  BY <1>2 DEF RowOf, ScopesOf
<1> QED
  BY <1>1, <1>3 DEF Verdict

\* A call is served as the user, company and role its login was answered with.
THEOREM ServedAsAnswered == Spec => []ServedAsLoggedIn
<1> SUFFICES ASSUME IInv PROVE ServedAsLoggedIn
  BY SpecIInv, PTL
<1> SUFFICES ASSUME NEW h \in Handlers, handlers[h].op = "ended",
                    handlers[h].outcome = "served", handlers[h].answered
             PROVE  LET call == handlers[h]
                        login == told[call.token] IN
                    /\ call.context.user_id = login.user_id
                    /\ call.context.company_id = login.company_id
                    /\ call.context.role =
                         IF login.role \in KnownRoles THEN login.role ELSE "user"
  BY DEF ServedAsLoggedIn
<1> DEFINE login == told[handlers[h].token]
<1>1. handlers[h].context = ContextOf(RowOf(login.user_id, login.company_id, login.role))
  BY DEF IInv, CallsAreJudged, RowsOfAnswers
<1>2. \A role : RoleOf(ScopesOf(role)) =
                  IF role \in KnownRoles THEN role ELSE "user"
  BY DEF RoleOf, ScopesOf, KnownRoles
<1> QED
  BY <1>1, <1>2 DEF ContextOf, RowOf

=============================================================================
