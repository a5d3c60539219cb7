---------------------------- MODULE MCDirectory ----------------------------
(***************************************************************************)
(* Small instances of Directory: two people whose logins have the same     *)
(* base, and a field for telephone numbers.                                *)
(***************************************************************************)
EXTENDS Directory, TLC

MCHires == {"Ivan", "Irina"}
MCNameOf ==
  ("Ivan" :> [name |-> "Ivan", surname |-> "Petrov"]) @@
  ("Irina" :> [name |-> "Irina", surname |-> "Petrov"])
MCBaseLogin == [hire \in MCHires |-> "ipetrov"]
MCOneHire == {"Ivan"}
MCOneName == [hire \in MCOneHire |-> MCNameOf[hire]]
MCOneLogin == [hire \in MCOneHire |-> "ipetrov"]

MCLower ==
  ("Ivan" :> "ivan") @@ ("ivan" :> "ivan") @@
  ("Irina" :> "irina") @@ ("irina" :> "irina") @@
  ("Petrov" :> "petrov") @@ ("petrov" :> "petrov") @@
  ("1" :> "1") @@ ("2" :> "2")
MCValues == DOMAIN MCLower

Phones(vs) == [given |-> {"phones"}, values |-> [f \in {"phones"} |-> vs],
               password |-> FALSE]
MCOnePhone == {Phones({"1"})}
MCTwoPhones == {Phones({"1"}), Phones({"2"})}
=============================================================================
