------------------------- MODULE AbsenceRefinement -------------------------
(***************************************************************************)
(* Absence implements AbsenceLifecycle: the phase of an action is read off *)
(* its row of `actions`, or off the row's absence.                         *)
(***************************************************************************)
EXTENDS Absence

ActionIds == 1 .. MaxActions

PhaseOf(a) ==
  IF a \notin DOMAIN lineage THEN "unborn"
  ELSE IF a \notin DOMAIN actions THEN "gone"
  ELSE IF actions[a].status = "NULL" THEN "logged"
  ELSE actions[a].status

FamilyOf(a) == IF a \in DOMAIN lineage THEN lineage[a] ELSE {}

L == INSTANCE AbsenceLifecycle WITH
       Actions <- ActionIds,
       phase   <- [a \in ActionIds |-> PhaseOf(a)],
       family  <- [a \in ActionIds |-> FamilyOf(a)]

\* Whatever the interleaving of requests, verdicts, splits, reschedules,
\* attendance records and removals, each of their commits is one step of the
\* lifecycle or changes no action's phase.
ImplementsLifecycle == L!Spec
=============================================================================
