------------------------ MODULE MCVacationDocuments ------------------------
(***************************************************************************)
(* Small instances of VacationDocuments, for a company that has a template *)
(* for requests.                                                           *)
(***************************************************************************)
EXTENDS VacationDocuments, TLC

CONSTANTS worker, boss

MCEmployees == {worker, boss}
MCHeadOf    == (worker :> boss) @@ (boss :> NoHead)
MCAlone     == {worker}
MCNoHeads   == worker :> NoHead
OneDay      == {0}
MCTemplates == {<<"esv", "create">>, <<"evsikovaip", "create">>,
                <<"sadGrandKavkaz", "create">>}
=============================================================================
