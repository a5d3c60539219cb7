------------------------- MODULE SignatureLifecycle -------------------------
(***************************************************************************)
(* What signing promises about each signature, without tables, files,      *)
(* posts or retries.  A signature is asked for, stamped, kept as a         *)
(* document and listed, in this order; whichever call gives up on it ends  *)
(* it, and so does its signer who leaves or signs the copy.  What is over  *)
(* stays over, however late an answer comes.                               *)
(***************************************************************************)
CONSTANTS People, Originals, Copies

VARIABLES
  people,   \* who is employed
  request,  \* copy -> who asked for it, and of what
  phase     \* what has become of each copy that was asked for

vars == <<people, request, phase>>

In(phases) == {k \in DOMAIN phase : phase[k] \in phases}

Turn(copies, p) ==
  phase' = [k \in DOMAIN phase |-> IF k \in copies THEN p ELSE phase[k]]

Init ==
  /\ people = People
  /\ request = <<>>
  /\ phase = [k \in DOMAIN request |-> "asked"]

\* By someone employed, about an original or an older copy.
Ask(k, e, d) ==
  /\ k \notin DOMAIN request
  /\ e \in people
  /\ d \in Originals \cup In({"kept", "listed", "over"})
  /\ request' = [j \in DOMAIN request \cup {k} |->
                   IF j = k THEN [by |-> e, of |-> d] ELSE request[j]]
  /\ phase' = [j \in DOMAIN request \cup {k} |-> IF j = k THEN "asked" ELSE phase[j]]
  /\ UNCHANGED people

Stamp(k) == k \in In({"asked"}) /\ Turn({k}, "stamped") /\ UNCHANGED <<people, request>>

Keep(k) == k \in In({"stamped"}) /\ Turn({k}, "kept") /\ UNCHANGED <<people, request>>

List(k) ==
  /\ k \in In({"kept"})
  /\ request[k].by \in people
  /\ Turn({k}, "listed")
  /\ UNCHANGED <<people, request>>

GiveUp(copies) ==
  /\ copies \subseteq In({"asked", "stamped", "kept"})
  /\ Turn(copies, "over")
  /\ UNCHANGED <<people, request>>

\* The signer's later signature j is on the copy k.
Supersede(k, j) ==
  /\ k \in In({"listed"})
  /\ j \in In({"stamped"})
  /\ request[j] = [by |-> request[k].by, of |-> k]
  /\ Turn({k}, "over")
  /\ UNCHANGED <<people, request>>

Leave(e) ==
  /\ e \in people
  /\ people' = people \ {e}
  /\ Turn({k \in In({"listed"}) : request[k].by = e}, "over")
  /\ UNCHANGED request

Next ==
  \/ \E k \in In({"asked", "stamped", "kept"}) : Stamp(k) \/ Keep(k) \/ List(k)
  \/ \E k \in In({"listed"}), j \in In({"stamped"}) : Supersede(k, j)
  \/ \E e \in people : Leave(e)
  \/ \E copies \in SUBSET In({"asked", "stamped", "kept"}) : GiveUp(copies)
  \/ \E k \in Copies, e \in people, d \in Originals \cup DOMAIN request : Ask(k, e, d)

Spec == Init /\ [][Next]_vars
=============================================================================
