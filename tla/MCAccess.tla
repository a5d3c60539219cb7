------------------------------ MODULE MCAccess ------------------------------
(***************************************************************************)
(* A small instance of Access: one login name in two companies, with roles *)
(* of every kind, and the routes of configs/static_config.yaml they reach. *)
(***************************************************************************)
EXTENDS Access, TLC

MCRoutes == {{"user"}, {"manager"}}
=============================================================================
