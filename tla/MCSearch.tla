------------------------------ MODULE MCSearch ------------------------------
(***************************************************************************)
(* A small instance of Search over the people of MCDirectory, with queries *)
(* of up to two full words; "ivana" is similar to "ivan".                  *)
(***************************************************************************)
EXTENDS Search, TLC

MCHires == {"Ivan", "Irina"}
MCNameOf ==
  ("Ivan" :> [name |-> "Ivan", surname |-> "Petrov"]) @@
  ("Irina" :> [name |-> "Irina", surname |-> "Petrov"])
MCBaseLogin == [hire \in MCHires |-> "ipetrov"]

MCLower ==
  ("Ivan" :> "ivan") @@ ("ivan" :> "ivan") @@
  ("Irina" :> "irina") @@ ("irina" :> "irina") @@
  ("Petrov" :> "petrov") @@ ("petrov" :> "petrov") @@
  ("1" :> "1") @@ ("2" :> "2")
MCValues == DOMAIN MCLower

Phones(vs) == [given |-> {"phones"}, values |-> [f \in {"phones"} |-> vs],
               password |-> FALSE]
MCPhoneEdits == {Phones({"1"}), Phones({"2"}), Phones({"1", "2"}), Phones({}),
                 [given |-> {}, values |-> [f \in {"phones"} |-> {}], password |-> TRUE]}

MCQueries == {<<>>, <<"petrov">>, <<"ivana">>, <<"ivan", "1">>, <<"1", "2">>}
MCBeginnings == {"", "iv", "1"}
MCStartsWith == (MCValues \X {""}) \cup {<<"ivan", "iv">>, <<"1", "1">>}
MCSimilarity ==
  [pair \in Words \X MCValues |->
     CASE pair[1] = pair[2]          -> 100
       [] pair = <<"ivana", "ivan">> -> 57
       [] pair = <<"ivan", "irina">> -> 10
       [] OTHER                      -> 0]
MCLimits == {1, 2}

\* The instance is one of those for which the searches are proved right.
ASSUME MCTidyAssumption == TidyValues
=============================================================================
