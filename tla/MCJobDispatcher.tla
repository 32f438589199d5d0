-------------------------- MODULE MCJobDispatcher ---------------------------
(* Two connections of one session and one of another.                      *)
EXTENDS JobDispatcher

CONSTANTS r1, r2, r3, alice, bob

MCSessionOf == [r \in {r1, r2, r3} |-> IF r = r3 THEN bob ELSE alice]
=============================================================================
