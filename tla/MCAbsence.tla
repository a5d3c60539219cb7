----------------------------- MODULE MCAbsence -----------------------------
(***************************************************************************)
(* Small instances of Absence: an employee and the head of the company.    *)
(***************************************************************************)
EXTENDS AbsenceRefinement, TLC

CONSTANTS worker, boss

MCEmployees == {worker, boss}
MCHeadOf    == (worker :> boss) @@ (boss :> NoHead)
MCOwnHead   == (worker :> NoHead) @@ (boss :> boss)

\* Midnight and noon of one day; one midnight.
HalfDays == {0, 720}
OneDay   == {0}

HandlerSymmetry == Permutations(Handlers)
=============================================================================
