-------------------------- MODULE JobQueueManager ---------------------------
(***************************************************************************)
(* Jobs/JobQueueManager.cs: the admission counters of the API.             *)
(*                                                                         *)
(* TryAcquire and Release run on the thread-pool thread that serves a      *)
(* request and take no lock: each AddOrUpdate on the ConcurrentDictionary  *)
(* and each Interlocked operation is atomic, the sequence of them is not.  *)
(* One action below is one of those atomic steps; at[r] is the point the   *)
(* thread of request r has reached.  A missing dictionary key counts as 0: *)
(* AddOrUpdate(token, 1, c + 1) and AddOrUpdate(token, 0, Max(0, c - 1))   *)
(* give the same number for a missing key and for 0.                       *)
(***************************************************************************)
EXTENDS Integers, FiniteSets

CONSTANTS
  Requests,           (* requests in flight at once (connections)          *)
  Sessions,           (* values of X-Session-Token                         *)
  SessionOf,          (* SessionOf[r]: the token request r carries         *)
  MaxConcurrentJobs,  (* ApiOptions.MaxConcurrentJobs                      *)
  MaxJobsPerSession   (* ApiOptions.MaxJobsPerSession                      *)

ASSUME QueueAssumption ==
  /\ IsFiniteSet(Requests)
  /\ SessionOf \in [Requests -> Sessions]
  /\ MaxConcurrentJobs \in Nat
  /\ MaxJobsPerSession \in Nat

VARIABLES
  activeJobCount,     (* _activeJobCount                                   *)
  sessionCounts,      (* _sessionCounts                                    *)
  at                  (* at[r]: where request r is in TryAcquire/Release   *)

vars == <<activeJobCount, sessionCounts, at>>

(* Outside the two methods and without a slot.                             *)
Idle == {"free"}

(* Inside them, named after what has been done so far.                     *)
Busy == {"overSession",       (* session count raised beyond the limit     *)
         "counted",           (* session count raised within the limit     *)
         "overGlobal",        (* global count raised beyond the limit      *)
         "overGlobalUndone",  (* and lowered again                         *)
         "holding",           (* Success                                   *)
         "released"}          (* Release lowered the global count          *)

(* A request is in the global count, or in the count of its session.       *)
InGlobal  == {"overGlobal", "holding"}
InSession == Busy

Within(P)    == {r \in Requests : at[r] \in P}
OfSession(s) == {r \in Requests : SessionOf[r] = s}

TypeOK ==
  /\ activeJobCount \in Nat
  /\ sessionCounts \in [Sessions -> Nat]
  /\ at \in [Requests -> Idle \cup Busy]

-----------------------------------------------------------------------------
Clamped(n) == IF n < 0 THEN 0 ELSE n

(* _sessionCounts.AddOrUpdate(sessionToken, 0, (_, c) => Math.Max(0, c - 1)) *)
DecrementSession(s) ==
  sessionCounts' = [sessionCounts EXCEPT ![s] = Clamped(@ - 1)]

GoTo(r, point) == at' = [at EXCEPT ![r] = point]

Init ==
  /\ activeJobCount = 0
  /\ sessionCounts = [s \in Sessions |-> 0]
  /\ at = [r \in Requests |-> "free"]

(* TryAcquire: raise the count of the session, compare the new value.      *)
EnterSession(r) ==
  LET s == SessionOf[r]
      c == sessionCounts[s] + 1
  IN  /\ at[r] \in Idle
      /\ sessionCounts' = [sessionCounts EXCEPT ![s] = c]
      /\ GoTo(r, IF c > MaxJobsPerSession THEN "overSession" ELSE "counted")
      /\ UNCHANGED activeJobCount

UndoSession(r) ==
  /\ at[r] = "overSession"
  /\ DecrementSession(SessionOf[r])
  /\ GoTo(r, "free")
  /\ UNCHANGED activeJobCount

(* Mutant: the old value is compared, not the new one.                     *)
EnterGlobalOffByOne(r) ==
  /\ at[r] = "counted"
  /\ activeJobCount' = activeJobCount + 1
  /\ GoTo(r, IF activeJobCount > MaxConcurrentJobs THEN "overGlobal" ELSE "holding")
  /\ UNCHANGED sessionCounts

EnterGlobal(r) ==
  /\ at[r] = "counted"
  /\ activeJobCount' = activeJobCount + 1
  /\ GoTo(r, IF activeJobCount' > MaxConcurrentJobs THEN "overGlobal" ELSE "holding")
  /\ UNCHANGED sessionCounts

UndoGlobal(r) ==
  /\ at[r] = "overGlobal"
  /\ activeJobCount' = activeJobCount - 1
  /\ GoTo(r, "overGlobalUndone")
  /\ UNCHANGED sessionCounts

(* Mutant: QueueFull is retried with the session count still raised.       *)
UndoSessionAfterGlobalRetries(r) ==
  /\ at[r] = "overGlobalUndone"
  /\ GoTo(r, "counted")
  /\ UNCHANGED <<activeJobCount, sessionCounts>>

(* Mutant: QueueFull leaves the session count raised.                      *)
UndoSessionAfterGlobalForgotten(r) ==
  /\ at[r] = "overGlobalUndone"
  /\ GoTo(r, "free")
  /\ UNCHANGED <<activeJobCount, sessionCounts>>

UndoSessionAfterGlobal(r) ==
  /\ at[r] = "overGlobalUndone"
  /\ DecrementSession(SessionOf[r])
  /\ GoTo(r, "free")
  /\ UNCHANGED activeJobCount

(* Release, called by the holder of a slot: global count, then the session *)
ReleaseGlobal(r) ==
  /\ at[r] = "holding"
  /\ activeJobCount' = activeJobCount - 1
  /\ GoTo(r, "released")
  /\ UNCHANGED sessionCounts

(* Mutant: an error path releases, and so does the finally block.          *)
ReleaseSessionTwice(r) ==
  /\ at[r] = "released"
  /\ DecrementSession(SessionOf[r])
  /\ \E point \in {"holding", "free"} : GoTo(r, point)
  /\ UNCHANGED activeJobCount

ReleaseSession(r) ==
  /\ at[r] = "released"
  /\ DecrementSession(SessionOf[r])
  /\ GoTo(r, "free")
  /\ UNCHANGED activeJobCount

(* The steps a thread takes without waiting for anything.                  *)
Step(r) ==
  \/ UndoSession(r) \/ EnterGlobal(r) \/ UndoGlobal(r)
  \/ UndoSessionAfterGlobal(r) \/ ReleaseSession(r)

Next == \E r \in Requests : EnterSession(r) \/ ReleaseGlobal(r) \/ Step(r)

Spec == Init /\ [][Next]_vars

(* A running thread is not suspended for ever, and the holder of a slot    *)
(* calls Release: JobDispatcher shows the latter.                          *)
Fairness == \A r \in Requests : WF_vars(Step(r)) /\ WF_vars(ReleaseGlobal(r))

FairSpec == Spec /\ Fairness

-----------------------------------------------------------------------------
(* Each counter is exactly the number of requests that have raised it and  *)
(* not lowered it yet: no interleaving of TryAcquire and Release loses or  *)
(* invents a slot, and the clamp at 0 never hides an imbalance.            *)
ExactCounts ==
  /\ activeJobCount = Cardinality(Within(InGlobal))
  /\ \A s \in Sessions :
       sessionCounts[s] = Cardinality(Within(InSession) \cap OfSession(s))

(* The limits hold for the jobs that were admitted, whatever the requests  *)
(* being refused do to the counters in the meantime.  A job counts for its *)
(* session until Release has returned.                                     *)
Admitted == {"counted", "overGlobal", "overGlobalUndone", "holding", "released"}

LimitsHold ==
  /\ Cardinality(Within({"holding"})) =< MaxConcurrentJobs
  /\ \A s \in Sessions :
       Cardinality(Within(Admitted) \cap OfSession(s)) =< MaxJobsPerSession

(* Every call returns: no request is stuck between raising a counter and   *)
(* answering, however the others interleave.                               *)
CallsReturn ==
  \A r \in Requests : at[r] \in Busy \ {"holding"} ~> at[r] \in Idle \cup {"holding"}

(* docs/architecture/11-rate-limiting.md: "Max concurrent jobs per session *)
(* 3 ... Concurrent job limit exceeded: 429 + ConcurrentJobLimit".  A      *)
(* request is refused for its session only while that many jobs of the     *)
(* session have been admitted.                                             *)
RefusedOnlyAtSessionLimit ==
  [][\A r \in Requests :
       at[r] \in Idle /\ at'[r] = "overSession" =>
         Cardinality(Within(Admitted) \cap OfSession(SessionOf[r])) >= MaxJobsPerSession]_vars

(* The counters implement the pool of slots: grants within both limits,    *)
(* one return per grant, and no refusal without that many other requests   *)
(* in the pool.                                                            *)
PhaseAt ==
  [p \in Idle \cup Busy |->
     CASE p = "counted"                           -> "asking"
       [] p = "overSession"                       -> "refusedSession"
       [] p \in {"overGlobal", "overGlobalUndone"} -> "refusedGlobal"
       [] p = "released"                          -> "returning"
       [] OTHER                                   -> p]

Pool == INSTANCE SlotPool WITH phase <- [r \in Requests |-> PhaseAt[at[r]]]

ImplementsSlotPool == Pool!Spec
=============================================================================
