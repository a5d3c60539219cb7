------------------------ MODULE SignatureRefinement ------------------------
(***************************************************************************)
(* Signing implements SignatureLifecycle: the phase of a signature is read *)
(* off its link, its row, its file and the call that still works on it.    *)
(***************************************************************************)
EXTENDS Signing

\* The call that asked for copy k goes on.
Worked(k) ==
  \E h \in Handlers : /\ handlers[h].op \in {"stamp", "unlink", "copy", "link"}
                      /\ handlers[h].copy = k

PhaseOf(k) ==
  IF <<signer[k].by, k, TRUE>> \in employee_document THEN "listed"
  ELSE IF ~Worked(k) THEN "over"
  ELSE IF k \in DOMAIN documents THEN "kept"
  ELSE IF k \in bucket THEN "stamped"
  ELSE "asked"

L == INSTANCE SignatureLifecycle WITH
       People    <- Employees,
       Originals <- Uploads,
       Copies    <- 1 .. MaxSigns,
       people    <- employees,
       request   <- signer,
       phase     <- [k \in DOMAIN signer |-> PhaseOf(k)]

\* Whatever calls, posts, late answers, failures, restarts and removals
\* interleave, each step takes a signature along its lifecycle or leaves it:
\* nothing is listed before it was stamped and kept, and nothing that was given
\* up or taken away comes back.
ImplementsSignatures == L!Spec
=============================================================================
