--------------------------- MODULE MCCompanySetup ---------------------------
(***************************************************************************)
(* A small instance of CompanySetup: a superuser who waits for an answer   *)
(* before calling again.                                                   *)
(***************************************************************************)
EXTENDS CompanySetup, TLC

OneAtATime == {1}
=============================================================================
