-------------------------- MODULE MCOutputStorage ---------------------------
(* The output directory and one other, two saves; the shipped 5, 15 and 30 *)
(* minutes as 1 : 3 : 6.                                                   *)
EXTENDS OutputStorage
=============================================================================
