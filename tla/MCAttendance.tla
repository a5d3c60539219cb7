---------------------------- MODULE MCAttendance ----------------------------
(***************************************************************************)
(* A small instance of AttendanceList: an employee and the head, noon of   *)
(* one day and midnight two days later, and lists of the first day, the    *)
(* second and both.                                                        *)
(***************************************************************************)
EXTENDS AttendanceList, TLC

CONSTANTS worker, boss

MCEmployees == {worker, boss}
MCHeadOf    == (worker :> boss) @@ (boss :> NoHead)
MCInstants  == {720, 2880}
MCWindows   == {<<0, 1440>>, <<1440, 2880>>, <<0, 2880>>}
=============================================================================
