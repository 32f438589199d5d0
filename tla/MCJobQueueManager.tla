------------------------- MODULE MCJobQueueManager --------------------------
(* Five requests of two sessions against limits small enough that every    *)
(* refusal, and every refusal caused by another refusal, happens.          *)
EXTENDS JobQueueManager

CONSTANTS r1, r2, r3, r4, r5, alice, bob

MCSessionOf ==
  [r \in {r1, r2, r3, r4, r5} |-> IF r \in {r1, r2, r3} THEN alice ELSE bob]

MCOneSession == [r \in Requests |-> alice]
=============================================================================
