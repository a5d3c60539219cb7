----------------------------- MODULE MCSigning -----------------------------
(***************************************************************************)
(* A small instance of Signing: two uploaded files, each of which may be   *)
(* sent once, to both of two employees, alone or as a child of the other.  *)
(***************************************************************************)
EXTENDS SignatureRefinement, TLC

Everyone == {Employees}
Symmetry ==
  Permutations(Handlers) \cup Permutations(Employees) \cup Permutations(Uploads)
=============================================================================
