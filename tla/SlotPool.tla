------------------------------ MODULE SlotPool ------------------------------
(***************************************************************************)
(* What the API promises about job slots, with no counter in sight.  A     *)
(* request asks for a slot and is granted one or refused; a granted slot   *)
(* is handed back exactly once.  Grants never exceed the server-wide limit *)
(* nor the limit of one session, and a refusal needs a reason: that many   *)
(* other requests must be on their way through the pool at that moment.    *)
(*                                                                         *)
(* JobQueueManager implements this pool with two independent counters.     *)
(***************************************************************************)
EXTENDS Integers, FiniteSets

CONSTANTS
  Requests,           (* the requests that may ask for a slot              *)
  Sessions,           (* the session tokens they are sent under            *)
  SessionOf,          (* SessionOf[r]: the session token of request r      *)
  MaxConcurrentJobs,  (* slots of the whole server                         *)
  MaxJobsPerSession   (* slots of one session                              *)

VARIABLE phase        (* phase[r]: how far request r is with the pool      *)

Outside == {"free"}
Inside  == {"asking", "refusedSession", "refusedGlobal", "holding", "returning"}

TypeOK == phase \in [Requests -> Outside \cup Inside]

InSession(s) == {r \in Requests : SessionOf[r] = s}
Within(P)    == {r \in Requests : phase[r] \in P}
Holders      == Within({"holding"})
Others(r)    == Within(Inside) \ {r}

Move(r, from, to) ==
  /\ phase[r] \in from
  /\ phase' = [phase EXCEPT ![r] = to]

-----------------------------------------------------------------------------
Init == phase = [r \in Requests |-> "free"]

Ask(r) == Move(r, Outside, "asking")

Grant(r) ==
  /\ Cardinality(Holders) < MaxConcurrentJobs
  /\ Cardinality(Holders \cap InSession(SessionOf[r])) < MaxJobsPerSession
  /\ Move(r, {"asking"}, "holding")

RefuseSession(r) ==
  /\ Cardinality(Others(r) \cap InSession(SessionOf[r])) >= MaxJobsPerSession
  /\ Move(r, Outside, "refusedSession")

RefuseGlobal(r) ==
  /\ Cardinality(Others(r)) >= MaxConcurrentJobs
  /\ Move(r, {"asking"}, "refusedGlobal")

AnswerRefusal(r) == Move(r, {"refusedSession", "refusedGlobal"}, "free")

GiveBack(r) == Move(r, {"holding"}, "returning")

Return(r) == Move(r, {"returning"}, "free")

Next == \E r \in Requests :
  \/ Ask(r) \/ Grant(r) \/ RefuseSession(r) \/ RefuseGlobal(r)
  \/ AnswerRefusal(r) \/ GiveBack(r) \/ Return(r)

Spec == Init /\ [][Next]_phase
=============================================================================
