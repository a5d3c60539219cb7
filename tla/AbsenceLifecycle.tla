-------------------------- MODULE AbsenceLifecycle --------------------------
(***************************************************************************)
(* What the absence subsystem promises about each action, without tables,  *)
(* transactions or notifications: an action is born waiting for a verdict, *)
(* as an attendance record, or carved from another action; only a verdict  *)
(* makes it approved, unless it was carved from a family that already held *)
(* a verdict; and once it is gone it stays gone.                           *)
(***************************************************************************)
CONSTANT Actions

VARIABLES
  phase,    \* what has become of each action
  family,   \* the action and the actions it was carved from
  granted   \* the actions a verdict approved

vars == <<phase, family, granted>>

Born(a) == phase[a] # "unborn"

Enter(new, p) == phase' = [a \in Actions |-> IF a \in new THEN p ELSE phase[a]]

Init ==
  /\ phase = [a \in Actions |-> "unborn"]
  /\ family = [a \in Actions |-> {}]
  /\ granted = {}

\* A request: nobody has decided on it.
Ask(a) ==
  /\ ~Born(a)
  /\ Enter({a}, "pending")
  /\ family' = [family EXCEPT ![a] = {a}]
  /\ UNCHANGED granted

\* An attendance record, which takes the place of older ones.
Log(a, replaced) ==
  /\ ~Born(a)
  /\ phase' = [b \in Actions |-> IF b = a THEN "logged"
                                 ELSE IF b \in replaced THEN "gone"
                                 ELSE phase[b]]
  /\ family' = [family EXCEPT ![a] = {a}]
  /\ UNCHANGED granted

\* One or two actions carved from p, all in the phase p was in when it was
\* looked at.
Carve(p, parts, q) ==
  /\ q = "approved" => family[p] \cap granted # {}
  /\ Enter(parts, q)
  /\ family' = [a \in Actions |-> IF a \in parts THEN {a} \cup family[p]
                                  ELSE family[a]]
  /\ UNCHANGED granted

Approve(a) ==
  /\ phase[a] \in {"pending", "approved"}
  /\ Enter({a}, "approved")
  /\ granted' = granted \cup {a}
  /\ UNCHANGED family

\* A denial, or the removal of an employee.
Discard(gone) ==
  /\ Enter(gone, "gone")
  /\ UNCHANGED <<family, granted>>

Next ==
  LET born   == {a \in Actions : Born(a)}
      logged == {a \in born : phase[a] \in {"logged", "gone"}} IN
    \/ \E gone \in SUBSET born : Discard(gone)
    \/ \E a \in Actions : Ask(a) \/ Approve(a)
    \/ \E a \in Actions, replaced \in SUBSET logged : Log(a, replaced)
    \/ \E p \in born, parts \in SUBSET (Actions \ born),
          q \in {"pending", "logged", "approved"} : Carve(p, parts, q)

Spec == Init /\ [][Next]_vars
=============================================================================
