---------------------------- MODULE MCJobStream -----------------------------
(* Instances: connections of the owner, with and without one of a stranger. *)
EXTENDS JobStream
=============================================================================
