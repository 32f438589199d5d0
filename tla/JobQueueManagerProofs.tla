----------------------- MODULE JobQueueManagerProofs ------------------------
(***************************************************************************)
(* For any number of requests and sessions and any limits: the counters of *)
(* JobQueueManager are exact, the limits hold, and the counters implement  *)
(* the pool of slots.                                                      *)
(***************************************************************************)
EXTENDS JobQueueManager, FiniteSetTheorems, TLAPS

(* The requests of the set T whose thread is at a point of P.              *)
Count(P, T) == Cardinality(Within(P) \cap T)

(* 1 when point x is one of P.                                             *)
In(x, P) == IF x \in P THEN 1 ELSE 0

(* The inductive invariant, with every number of requests as a Count.      *)
CountsMatch ==
  /\ activeJobCount = Count(InGlobal, Requests)
  /\ \A s \in Sessions : sessionCounts[s] = Count(InSession, OfSession(s))

CountsBounded ==
  /\ Count({"holding"}, Requests) =< MaxConcurrentJobs
  /\ \A s \in Sessions : Count(Admitted, OfSession(s)) =< MaxJobsPerSession

IInv == TypeOK /\ CountsMatch /\ CountsBounded

-----------------------------------------------------------------------------
(* A number of requests is a natural number.                               *)
LEMMA CountType ==
  ASSUME NEW P, NEW T
  PROVE  Count(P, T) \in Nat
<1>1. Within(P) \cap T \in SUBSET Requests
  BY DEF Within
<1>2. IsFiniteSet(Within(P) \cap T)
  BY <1>1, FS_Subset, QueueAssumption
<1>3. QED
  BY <1>2, FS_CardinalityType DEF Count

LEMMA CountTypePrime ==
  ASSUME NEW P, NEW T
  PROVE  Count(P, T)' \in Nat
<1>1. (Within(P) \cap T)' \in SUBSET Requests
  BY DEF Within
<1>2. IsFiniteSet((Within(P) \cap T)')
  BY <1>1, FS_Subset, QueueAssumption
<1>3. QED
  BY <1>2, FS_CardinalityType DEF Count

(* Fewer points, fewer requests.                                           *)
LEMMA CountMonotone ==
  ASSUME NEW P, NEW Q, P \subseteq Q, NEW T
  PROVE  Count(P, T) =< Count(Q, T)
<1>1. Within(P) \cap T \in SUBSET (Within(Q) \cap T)
  BY DEF Within
<1>2. Within(Q) \cap T \in SUBSET Requests
  BY DEF Within
<1>3. IsFiniteSet(Within(Q) \cap T)
  BY <1>2, FS_Subset, QueueAssumption
<1>4. QED
  BY <1>1, <1>3, FS_Subset DEF Count

LEMMA CountMonotonePrime ==
  ASSUME NEW P, NEW Q, P \subseteq Q, NEW T
  PROVE  Count(P, T)' =< Count(Q, T)'
<1>1. (Within(P) \cap T)' \in SUBSET (Within(Q) \cap T)'
  BY DEF Within
<1>2. (Within(Q) \cap T)' \in SUBSET Requests
  BY DEF Within
<1>3. IsFiniteSet((Within(Q) \cap T)')
  BY <1>2, FS_Subset, QueueAssumption
<1>4. QED
  BY <1>1, <1>3, FS_Subset DEF Count

(* One thread moving to point p changes the number of requests at P by one *)
(* at most, and only if it enters or leaves P.                             *)
LEMMA CountMoves ==
  ASSUME TypeOK,
         NEW r \in Requests, NEW p, at' = [at EXCEPT ![r] = p],
         NEW P, NEW T
  PROVE  /\ r \in T => Count(P, T)' = Count(P, T) + In(p, P) - In(at[r], P)
         /\ r \notin T => Count(P, T)' = Count(P, T)
<1> DEFINE A == Within(P) \cap T
<1>1. A \in SUBSET Requests
  BY DEF Within
<1>2. IsFiniteSet(A)
  BY <1>1, FS_Subset, QueueAssumption
<1>3. \A q \in Requests : at'[q] = IF q = r THEN p ELSE at[q]
  BY DEF TypeOK
<1>4. r \in A <=> r \in T /\ at[r] \in P
  BY DEF Within
<1>5. CASE r \in T /\ p \in P
  <2>1. A' = A \cup {r}
    BY <1>3, <1>5 DEF Within
  <2>2. Cardinality(A \cup {r}) = IF r \in A THEN Cardinality(A) ELSE Cardinality(A) + 1
    BY <1>2, FS_AddElement
  <2>3. Count(P, T) = Cardinality(A) /\ Count(P, T)' = Cardinality(A')
    BY DEF Count
  <2>4. Cardinality(A) \in Nat
    BY <1>2, FS_CardinalityType
  <2>5. Count(P, T)' = IF r \in A THEN Cardinality(A) ELSE Cardinality(A) + 1
    BY <2>1, <2>2, <2>3
  <2>6. Count(P, T)' = Count(P, T) + In(p, P) - In(at[r], P)
    BY <2>3, <2>4, <2>5, <1>4, <1>5 DEF In
  <2>7. QED
    BY <2>6, <1>5
<1>6. CASE r \in T /\ p \notin P
  <2>1. A' = A \ {r}
    BY <1>3, <1>6 DEF Within
  <2>2. Cardinality(A \ {r}) = IF r \in A THEN Cardinality(A) - 1 ELSE Cardinality(A)
    BY <1>2, FS_RemoveElement
  <2>3. Count(P, T) = Cardinality(A) /\ Count(P, T)' = Cardinality(A')
    BY DEF Count
  <2>4. Cardinality(A) \in Nat
    BY <1>2, FS_CardinalityType
  <2>5. Count(P, T)' = IF r \in A THEN Cardinality(A) - 1 ELSE Cardinality(A)
    BY <2>1, <2>2, <2>3
  <2>6. Count(P, T)' = Count(P, T) + In(p, P) - In(at[r], P)
    BY <2>3, <2>4, <2>5, <1>4, <1>6 DEF In
  <2>7. QED
    BY <2>6, <1>6
<1>7. CASE r \notin T
  <2>1. A' = A
    BY <1>3, <1>7 DEF Within
  <2>2. QED
    BY <2>1, <1>7 DEF Count
<1>8. QED
  BY <1>5, <1>6, <1>7

(* ExactCounts and LimitsHold say the same as the invariant.               *)
LEMMA SameCounts ==
  /\ CountsMatch <=> ExactCounts
  /\ CountsBounded <=> LimitsHold
<1>1. \A P : Within(P) \cap Requests = Within(P)
  BY DEF Within
<1>2. QED
  BY <1>1 DEF CountsMatch, CountsBounded, ExactCounts, LimitsHold, Count

(* The request of a session is in that session's set and in no other.      *)
LEMMA OwnSession ==
  ASSUME NEW r \in Requests
  PROVE  /\ SessionOf[r] \in Sessions
         /\ \A s \in Sessions : r \in OfSession(s) <=> s = SessionOf[r]
BY QueueAssumption DEF OfSession

-----------------------------------------------------------------------------
LEMMA InitIInv == Init => IInv
<1> SUFFICES ASSUME Init
             PROVE  IInv
  OBVIOUS
<1>1. TypeOK
  BY DEF Init, TypeOK, Idle
<1>2. \A P, T : "free" \notin P => Count(P, T) = 0
  <2> SUFFICES ASSUME NEW P, NEW T, "free" \notin P
               PROVE  Count(P, T) = 0
    OBVIOUS
  <2>1. Within(P) \cap T = {}
    BY DEF Within, Init
  <2>2. QED
    BY <2>1, FS_EmptySet DEF Count
<1>3. CountsMatch
  BY <1>2 DEF CountsMatch, Init, InGlobal, InSession, Busy
<1>4. CountsBounded
  BY <1>2, QueueAssumption DEF CountsBounded, Admitted
<1>5. QED
  BY <1>1, <1>3, <1>4 DEF IInv

(* The session count of a request inside the pool is positive, so the      *)
(* clamp in AddOrUpdate lowers it by exactly one.                          *)
LEMMA ClampIsExact ==
  ASSUME IInv, NEW r \in Requests, at[r] \in Busy
  PROVE  /\ sessionCounts[SessionOf[r]] \in Nat
         /\ sessionCounts[SessionOf[r]] >= 1
         /\ Clamped(sessionCounts[SessionOf[r]] - 1) = sessionCounts[SessionOf[r]] - 1
<1> DEFINE T == OfSession(SessionOf[r])
           A == Within(InSession) \cap T
<1>1. sessionCounts[SessionOf[r]] = Count(InSession, T)
  BY OwnSession DEF IInv, CountsMatch
<1>2. r \in A
  BY DEF Within, OfSession, InSession
<1>3. A \in SUBSET Requests
  BY DEF Within
<1>4. IsFiniteSet(A)
  BY <1>3, FS_Subset, QueueAssumption
<1>5. Cardinality(A) \in Nat /\ Cardinality(A) # 0
  BY <1>2, <1>4, FS_CardinalityType, FS_EmptySet
<1>6. Count(InSession, T) \in Nat /\ Count(InSession, T) >= 1
  BY <1>5 DEF Count
<1>7. QED
  BY <1>1, <1>6 DEF Clamped

(* A thread that moves to point p and changes each counter by what p counts *)
(* more than its old point keeps the invariant, if the new values respect   *)
(* the limit that p stands for.  Every action of the module is such a move. *)
LEMMA MoveIInv ==
  ASSUME IInv, NEW r \in Requests, NEW p \in Idle \cup Busy,
         at' = [at EXCEPT ![r] = p],
         activeJobCount' = activeJobCount + In(p, InGlobal) - In(at[r], InGlobal),
         sessionCounts' = [sessionCounts EXCEPT
            ![SessionOf[r]] = @ + In(p, InSession) - In(at[r], InSession)],
         p = "holding" => activeJobCount' =< MaxConcurrentJobs,
         p \in Admitted /\ at[r] \notin Admitted =>
            sessionCounts'[SessionOf[r]] =< MaxJobsPerSession
  PROVE  IInv'
<1> DEFINE s0 == SessionOf[r]
<1>1. TypeOK /\ CountsMatch /\ CountsBounded
  BY DEF IInv
<1>2. ASSUME NEW P, NEW T, r \in T
      PROVE  Count(P, T)' = Count(P, T) + In(p, P) - In(at[r], P)
  BY <1>1, <1>2, CountMoves
<1>3. ASSUME NEW P, NEW T, r \notin T
      PROVE  Count(P, T)' = Count(P, T)
  BY <1>1, <1>3, CountMoves
<1>4. CountsMatch'
  <2>1. activeJobCount' = Count(InGlobal, Requests)'
    BY <1>1, <1>2 DEF CountsMatch
  <2>2. ASSUME NEW s \in Sessions
        PROVE  sessionCounts'[s] = Count(InSession, OfSession(s))'
    BY <1>1, <1>2, <1>3, OwnSession DEF CountsMatch, TypeOK
  <2>3. QED
    BY <2>1, <2>2 DEF CountsMatch
<1>5. TypeOK'
  <2>1. activeJobCount' \in Nat /\ \A s \in Sessions : sessionCounts'[s] \in Nat
    BY <1>4, CountTypePrime DEF CountsMatch
  <2>2. \A s \in Sessions : sessionCounts'[s] \in Nat
    BY <2>1
  <2>3. sessionCounts' \in [Sessions -> Nat]
    BY <1>1, <2>2, Zenon DEF TypeOK
  <2>4. at' \in [Requests -> Idle \cup Busy]
    BY <1>1 DEF TypeOK
  <2>5. QED
    BY <2>1, <2>3, <2>4 DEF TypeOK
<1>6. Count({"holding"}, Requests)' =< MaxConcurrentJobs
  <2>1. CASE p = "holding"
    <3>1. Count({"holding"}, Requests)' =< Count(InGlobal, Requests)'
      BY CountMonotonePrime DEF InGlobal
    <3>2. QED
      BY <3>1, <1>4, <2>1, CountTypePrime, QueueAssumption DEF CountsMatch
  <2>2. CASE p # "holding"
    <3>1. Count({"holding"}, Requests)' =< Count({"holding"}, Requests)
      BY <1>2, <2>2, CountType DEF In
    <3>2. QED
      BY <3>1, <1>1, CountType, CountTypePrime, QueueAssumption DEF CountsBounded
  <2>3. QED
    BY <2>1, <2>2
<1>7. ASSUME NEW s \in Sessions
      PROVE  Count(Admitted, OfSession(s))' =< MaxJobsPerSession
  <2>1. CASE s = s0 /\ p \in Admitted /\ at[r] \notin Admitted
    <3>1. Count(Admitted, OfSession(s))' =< Count(InSession, OfSession(s))'
      BY CountMonotonePrime DEF Admitted, InSession, Busy
    <3>2. sessionCounts'[s] = Count(InSession, OfSession(s))'
      BY <1>4 DEF CountsMatch
    <3>3. QED
      BY <3>1, <3>2, <2>1, CountTypePrime, QueueAssumption
  <2>2. CASE s = s0 /\ ~(p \in Admitted /\ at[r] \notin Admitted)
    <3>1. r \in OfSession(s)
      BY <2>2, OwnSession
    <3>2. Count(Admitted, OfSession(s))' =< Count(Admitted, OfSession(s))
      BY <1>2, <2>2, <3>1, CountType DEF In
    <3>3. QED
      BY <3>2, <1>1, CountType, CountTypePrime, QueueAssumption DEF CountsBounded
  <2>3. CASE s # s0
    <3>1. r \notin OfSession(s)
      BY <2>3, OwnSession
    <3>2. QED
      BY <1>1, <1>3, <3>1 DEF CountsBounded
  <2>4. QED
    BY <2>1, <2>2, <2>3
<1>8. QED
  BY <1>4, <1>5, <1>6, <1>7 DEF IInv, CountsBounded

-----------------------------------------------------------------------------
(* Each atomic operation of TryAcquire and Release is such a move.         *)
LEMMA EnterSessionIInv ==
  ASSUME IInv, NEW r \in Requests, EnterSession(r)
  PROVE  IInv'
<1> DEFINE c == sessionCounts[SessionOf[r]] + 1
<1>1. /\ at[r] \in Idle /\ c \in Int
      /\ activeJobCount \in Int /\ activeJobCount' = activeJobCount
      /\ sessionCounts' = [sessionCounts EXCEPT ![SessionOf[r]] = c]
  BY OwnSession DEF EnterSession, IInv, TypeOK
<1>2. PICK p \in {"overSession", "counted"} :
         /\ at' = [at EXCEPT ![r] = p]
         /\ p = "counted" => c =< MaxJobsPerSession
  <2>1. CASE c > MaxJobsPerSession
    <3>1. at' = [at EXCEPT ![r] = "overSession"]
      BY <2>1 DEF EnterSession, GoTo
    <3>2. QED
      BY <3>1
  <2>2. CASE ~(c > MaxJobsPerSession)
    <3>1. at' = [at EXCEPT ![r] = "counted"]
      BY <2>2 DEF EnterSession, GoTo
    <3>2. c =< MaxJobsPerSession
      BY <1>1, <2>2, QueueAssumption
    <3>3. QED
      BY <3>1, <3>2
  <2>3. QED
    BY <2>1, <2>2
<1>3. /\ In(p, InGlobal) = 0 /\ In(at[r], InGlobal) = 0
      /\ In(p, InSession) = 1 /\ In(at[r], InSession) = 0
  BY <1>1, <1>2 DEF In, InGlobal, InSession, Busy, Idle
<1>4. sessionCounts'[SessionOf[r]] = c
  BY <1>1, OwnSession DEF IInv, TypeOK
<1>5. /\ activeJobCount' = activeJobCount + In(p, InGlobal) - In(at[r], InGlobal)
      /\ sessionCounts' = [sessionCounts EXCEPT
            ![SessionOf[r]] = @ + In(p, InSession) - In(at[r], InSession)]
  BY <1>1, <1>3, OwnSession DEF IInv, TypeOK
<1>6. /\ p \in Idle \cup Busy /\ p # "holding"
      /\ p \in Admitted => sessionCounts'[SessionOf[r]] =< MaxJobsPerSession
  BY <1>2, <1>4 DEF Busy, Admitted
<1>7. QED
  BY <1>2, <1>5, <1>6, MoveIInv

LEMMA EnterGlobalIInv ==
  ASSUME IInv, NEW r \in Requests, EnterGlobal(r)
  PROVE  IInv'
<1>1. /\ at[r] = "counted" /\ sessionCounts' = sessionCounts
      /\ activeJobCount \in Int /\ activeJobCount' = activeJobCount + 1
  BY DEF EnterGlobal, IInv, TypeOK
<1>2. PICK p \in {"overGlobal", "holding"} :
         /\ at' = [at EXCEPT ![r] = p]
         /\ p = "holding" => activeJobCount' =< MaxConcurrentJobs
  <2>1. CASE activeJobCount' > MaxConcurrentJobs
    <3>1. at' = [at EXCEPT ![r] = "overGlobal"]
      BY <2>1 DEF EnterGlobal, GoTo
    <3>2. QED
      BY <3>1
  <2>2. CASE ~(activeJobCount' > MaxConcurrentJobs)
    <3>1. at' = [at EXCEPT ![r] = "holding"]
      BY <2>2 DEF EnterGlobal, GoTo
    <3>2. activeJobCount' =< MaxConcurrentJobs
      BY <1>1, <2>2, QueueAssumption
    <3>3. QED
      BY <3>1, <3>2
  <2>3. QED
    BY <2>1, <2>2
<1>3. /\ In(p, InGlobal) = 1 /\ In(at[r], InGlobal) = 0
      /\ In(p, InSession) = 1 /\ In(at[r], InSession) = 1
  BY <1>1, <1>2 DEF In, InGlobal, InSession, Busy
<1>4. /\ activeJobCount' = activeJobCount + In(p, InGlobal) - In(at[r], InGlobal)
      /\ sessionCounts' = [sessionCounts EXCEPT
            ![SessionOf[r]] = @ + In(p, InSession) - In(at[r], InSession)]
  BY <1>1, <1>3, OwnSession DEF IInv, TypeOK
<1>5. p \in Idle \cup Busy /\ at[r] \in Admitted
  BY <1>1, <1>2 DEF Busy, Admitted
<1>6. QED
  BY <1>2, <1>4, <1>5, MoveIInv

LEMMA UndoGlobalIInv ==
  ASSUME IInv, NEW r \in Requests, UndoGlobal(r) \/ ReleaseGlobal(r)
  PROVE  IInv'
<1>1. /\ at[r] \in {"overGlobal", "holding"} /\ sessionCounts' = sessionCounts
      /\ activeJobCount \in Int /\ activeJobCount' = activeJobCount - 1
  BY DEF UndoGlobal, ReleaseGlobal, IInv, TypeOK
<1>2. PICK p \in {"overGlobalUndone", "released"} : at' = [at EXCEPT ![r] = p]
  BY DEF UndoGlobal, ReleaseGlobal, GoTo
<1>3. /\ In(p, InGlobal) = 0 /\ In(at[r], InGlobal) = 1
      /\ In(p, InSession) = 1 /\ In(at[r], InSession) = 1
  BY <1>1, <1>2 DEF In, InGlobal, InSession, Busy
<1>4. /\ activeJobCount' = activeJobCount + In(p, InGlobal) - In(at[r], InGlobal)
      /\ sessionCounts' = [sessionCounts EXCEPT
            ![SessionOf[r]] = @ + In(p, InSession) - In(at[r], InSession)]
  BY <1>1, <1>3, OwnSession DEF IInv, TypeOK
<1>5. p \in Idle \cup Busy /\ p # "holding" /\ at[r] \in Admitted
  BY <1>1, <1>2 DEF Busy, Admitted
<1>6. QED
  BY <1>2, <1>4, <1>5, MoveIInv

LEMMA LeaveSessionIInv ==
  ASSUME IInv, NEW r \in Requests,
         UndoSession(r) \/ UndoSessionAfterGlobal(r) \/ ReleaseSession(r)
  PROVE  IInv'
<1> DEFINE s0 == SessionOf[r]
<1>1. /\ at[r] \in {"overSession", "overGlobalUndone", "released"}
      /\ activeJobCount \in Int /\ activeJobCount' = activeJobCount
      /\ sessionCounts' = [sessionCounts EXCEPT ![s0] = Clamped(@ - 1)]
  BY DEF UndoSession, UndoSessionAfterGlobal, ReleaseSession, DecrementSession,
         IInv, TypeOK
<1>2. PICK p \in Idle : at' = [at EXCEPT ![r] = p]
  BY DEF UndoSession, UndoSessionAfterGlobal, ReleaseSession, GoTo, Idle
<1>3. /\ In(p, InGlobal) = 0 /\ In(at[r], InGlobal) = 0
      /\ In(p, InSession) = 0 /\ In(at[r], InSession) = 1
  BY <1>1, <1>2 DEF In, InGlobal, InSession, Busy, Idle
<1>4. Clamped(sessionCounts[s0] - 1) = sessionCounts[s0] - 1 /\ sessionCounts[s0] \in Nat
  BY <1>1, ClampIsExact DEF Busy
<1>5. /\ activeJobCount' = activeJobCount + In(p, InGlobal) - In(at[r], InGlobal)
      /\ sessionCounts' = [sessionCounts EXCEPT
            ![s0] = @ + In(p, InSession) - In(at[r], InSession)]
  <2>1. sessionCounts' = [sessionCounts EXCEPT ![s0] = sessionCounts[s0] - 1]
    BY <1>1, <1>4
  <2>2. sessionCounts[s0] + In(p, InSession) - In(at[r], InSession) = sessionCounts[s0] - 1
    BY <1>3, <1>4
  <2>3. activeJobCount' = activeJobCount + In(p, InGlobal) - In(at[r], InGlobal)
    BY <1>1, <1>3
  <2>4. QED
    BY <2>1, <2>2, <2>3, Zenon
<1>6. p \in Idle \cup Busy /\ p # "holding" /\ p \notin Admitted
  BY <1>2 DEF Idle, Admitted
<1>7. QED
  BY <1>2, <1>5, <1>6, MoveIInv

LEMMA NextIInv == IInv /\ [Next]_vars => IInv'
<1> SUFFICES ASSUME IInv, [Next]_vars
             PROVE  IInv'
  OBVIOUS
<1>1. ASSUME NEW r \in Requests, EnterSession(r)
      PROVE  IInv'
  BY <1>1, EnterSessionIInv
<1>2. ASSUME NEW r \in Requests, ReleaseGlobal(r)
      PROVE  IInv'
  BY <1>2, UndoGlobalIInv
<1>3. ASSUME NEW r \in Requests, Step(r)
      PROVE  IInv'
  BY <1>3, EnterGlobalIInv, UndoGlobalIInv, LeaveSessionIInv DEF Step
<1>4. CASE UNCHANGED vars
  BY <1>4 DEF vars, IInv, TypeOK, CountsMatch, CountsBounded, Count, Within
<1>5. QED
  BY <1>1, <1>2, <1>3, <1>4 DEF Next

THEOREM Invariance == Spec => []IInv
BY InitIInv, NextIInv, PTL DEF Spec

(* The counters never fall below 0, every thread is at a point of the code *)
THEOREM TypeCorrect == Spec => []TypeOK
<1>1. IInv => TypeOK
  BY DEF IInv
<1>2. QED
  BY <1>1, Invariance, PTL

(* No slot is lost or invented, whatever the interleaving.                 *)
THEOREM CountersExact == Spec => []ExactCounts
<1>1. IInv => ExactCounts
  BY SameCounts DEF IInv
<1>2. QED
  BY <1>1, Invariance, PTL

(* Admitted jobs never exceed MaxConcurrentJobs on the server, nor         *)
(* MaxJobsPerSession in a session.                                         *)
THEOREM WithinLimits == Spec => []LimitsHold
<1>1. IInv => LimitsHold
  BY SameCounts DEF IInv
<1>2. QED
  BY <1>1, Invariance, PTL

-----------------------------------------------------------------------------
(* The refinement of SlotPool.  Phases is the pool's variable as the       *)
(* counters' points show it.                                               *)
Phases == [r \in Requests |-> PhaseAt[at[r]]]

(* What each point of the code is to the pool.                             *)
LEMMA PhaseTable ==
  /\ \A p \in Idle : PhaseAt[p] = p
  /\ PhaseAt["counted"] = "asking"
  /\ PhaseAt["holding"] = "holding"
  /\ PhaseAt["released"] = "returning"
  /\ PhaseAt["overSession"] = "refusedSession"
  /\ PhaseAt["overGlobal"] = "refusedGlobal"
  /\ PhaseAt["overGlobalUndone"] = "refusedGlobal"
BY DEF PhaseAt, Idle, Busy

(* The requests inside the pool are those inside TryAcquire, Release or a  *)
(* job; its holders are those that hold a slot.                            *)
LEMMA PoolSets ==
  ASSUME TypeOK
  PROVE  /\ Pool!Within(Pool!Inside) = Within(InSession)
         /\ Pool!Holders = Within({"holding"})
         /\ \A s : Pool!InSession(s) = OfSession(s)
<1>1. ASSUME NEW r \in Requests
      PROVE  /\ PhaseAt[at[r]] \in Pool!Inside <=> at[r] \in InSession
             /\ PhaseAt[at[r]] = "holding" <=> at[r] = "holding"
  BY PhaseTable DEF TypeOK, Idle, Busy, InSession, Pool!Inside
<1>2. QED
  BY <1>1 DEF Pool!Within, Pool!Holders, Within, Pool!InSession, OfSession

(* A thread that goes to point p moves its request to the phase of p.      *)
LEMMA PhaseMoves ==
  ASSUME TypeOK, NEW r \in Requests, NEW p \in Idle \cup Busy,
         at' = [at EXCEPT ![r] = p]
  PROVE  /\ Phases[r] = PhaseAt[at[r]]
         /\ p \in Idle => Phases' = [Phases EXCEPT ![r] = p]
         /\ p = "counted" => Phases' = [Phases EXCEPT ![r] = "asking"]
         /\ p = "holding" => Phases' = [Phases EXCEPT ![r] = "holding"]
         /\ p = "released" => Phases' = [Phases EXCEPT ![r] = "returning"]
         /\ p = "overSession" => Phases' = [Phases EXCEPT ![r] = "refusedSession"]
         /\ p \in {"overGlobal", "overGlobalUndone"} =>
               Phases' = [Phases EXCEPT ![r] = "refusedGlobal"]
<1>1. Phases' = [Phases EXCEPT ![r] = PhaseAt[p]]
  BY DEF Phases, TypeOK
<1>2. Phases[r] = PhaseAt[at[r]]
  BY DEF Phases
<1>3. QED
  BY <1>1, <1>2, PhaseTable

(* A request that raised its session's count too far finds the session at  *)
(* its limit among the others in the pool.                                 *)
LEMMA EnterSessionRefines ==
  ASSUME IInv, NEW r \in Requests, EnterSession(r)
  PROVE  Pool!Ask(r) \/ Pool!RefuseSession(r)
<1> DEFINE s0 == SessionOf[r]
           c == sessionCounts[s0] + 1
<1>1. TypeOK /\ at[r] \in Idle /\ sessionCounts[s0] \in Int
  BY OwnSession DEF IInv, EnterSession, TypeOK
<1>2. Phases[r] \in Pool!Outside
  BY <1>1, PhaseTable DEF Phases, Pool!Outside, Idle
<1>3. PICK p \in {"overSession", "counted"} :
         /\ at' = [at EXCEPT ![r] = p]
         /\ p = "overSession" <=> c > MaxJobsPerSession
  BY DEF EnterSession, GoTo
<1>4. p \in Idle \cup Busy
  BY DEF Busy
<1>5. CASE p = "overSession"
  <2>1. Phases' = [Phases EXCEPT ![r] = "refusedSession"]
    BY <1>1, <1>3, <1>4, <1>5, PhaseMoves
  <2>2. Pool!Others(r) \cap Pool!InSession(s0) = Within(InSession) \cap OfSession(s0)
    BY <1>1, PoolSets DEF Pool!Others, Within, InSession, Busy, Idle
  <2>3. Cardinality(Pool!Others(r) \cap Pool!InSession(s0)) = sessionCounts[s0]
    BY <2>2, OwnSession DEF IInv, CountsMatch, Count
  <2>4. Cardinality(Pool!Others(r) \cap Pool!InSession(s0)) >= MaxJobsPerSession
    BY <2>3, <1>1, <1>3, <1>5, QueueAssumption
  <2>5. QED
    BY <2>1, <2>4, <1>2
       DEF Pool!RefuseSession, Pool!Move, Phases, Pool!Cardinality, Cardinality
<1>6. CASE p = "counted"
  <2>1. Phases' = [Phases EXCEPT ![r] = "asking"]
    BY <1>1, <1>3, <1>4, <1>6, PhaseMoves
  <2>2. QED
    BY <2>1, <1>2 DEF Pool!Ask, Pool!Move, Phases
<1>7. QED
  BY <1>5, <1>6

(* A slot is granted only below both limits, and a request that raised the *)
(* global count too far finds the server full of others.                   *)
LEMMA EnterGlobalRefines ==
  ASSUME IInv, NEW r \in Requests, EnterGlobal(r)
  PROVE  Pool!Grant(r) \/ Pool!RefuseGlobal(r)
<1> DEFINE s0 == SessionOf[r]
<1>1. /\ TypeOK /\ at[r] = "counted" /\ activeJobCount \in Int
      /\ activeJobCount' = activeJobCount + 1
      /\ activeJobCount = Count(InGlobal, Requests)
  BY DEF IInv, EnterGlobal, TypeOK, CountsMatch
<1>2. Phases[r] = "asking"
  BY <1>1, PhaseTable DEF Phases
<1>3. PICK p \in {"overGlobal", "holding"} :
         /\ at' = [at EXCEPT ![r] = p]
         /\ p = "overGlobal" <=> activeJobCount' > MaxConcurrentJobs
  BY DEF EnterGlobal, GoTo
<1>4. p \in Idle \cup Busy
  BY DEF Busy
<1>5. CASE p = "overGlobal"
  <2>1. Phases' = [Phases EXCEPT ![r] = "refusedGlobal"]
    BY <1>1, <1>3, <1>4, <1>5, PhaseMoves
  <2>2. Within(InGlobal) \cap Requests \in SUBSET Pool!Others(r)
    BY <1>1, PoolSets DEF Pool!Others, Within, InGlobal, InSession, Busy
  <2>3. Pool!Others(r) \in SUBSET Requests
    BY <1>1, PoolSets DEF Pool!Others, Within
  <2>4. IsFiniteSet(Pool!Others(r)) /\ Cardinality(Pool!Others(r)) \in Nat
    BY <2>3, FS_Subset, FS_CardinalityType, QueueAssumption
  <2>5. Count(InGlobal, Requests) =< Cardinality(Pool!Others(r))
    BY <2>2, <2>4, FS_Subset DEF Count
  <2>6. Cardinality(Pool!Others(r)) >= MaxConcurrentJobs
    BY <2>4, <2>5, <1>1, <1>3, <1>5, QueueAssumption
  <2>7. QED
    BY <2>1, <2>6, <1>2
       DEF Pool!RefuseGlobal, Pool!Move, Phases, Pool!Cardinality, Cardinality
<1>6. CASE p = "holding"
  <2>1. Phases' = [Phases EXCEPT ![r] = "holding"]
    BY <1>1, <1>3, <1>4, <1>6, PhaseMoves
  <2>2. Cardinality(Pool!Holders) < MaxConcurrentJobs
    <3>1. Pool!Holders = Within({"holding"}) \cap Requests
      BY <1>1, PoolSets DEF Within
    <3>2. Cardinality(Pool!Holders) = Count({"holding"}, Requests)
      BY <3>1 DEF Count
    <3>3. Count({"holding"}, Requests) =< Count(InGlobal, Requests)
      BY CountMonotone DEF InGlobal
    <3>4. activeJobCount + 1 =< MaxConcurrentJobs
      BY <1>1, <1>3, <1>6, QueueAssumption
    <3>5. QED
      BY <3>2, <3>3, <3>4, <1>1, CountType, QueueAssumption
  <2>3. Cardinality(Pool!Holders \cap Pool!InSession(s0)) < MaxJobsPerSession
    <3> DEFINE H == Within({"holding"}) \cap OfSession(s0)
               A == Within(Admitted) \cap OfSession(s0)
    <3>1. Pool!Holders \cap Pool!InSession(s0) = H
      BY <1>1, PoolSets
    <3>2. H \in SUBSET A /\ A \in SUBSET Requests
      BY DEF Within, Admitted
    <3>3. r \in A /\ r \notin H
      BY <1>1 DEF Within, Admitted, OfSession
    <3>4. IsFiniteSet(A)
      BY <3>2, FS_Subset, QueueAssumption
    <3>5. /\ Cardinality(H) =< Cardinality(A)
          /\ Cardinality(A) # Cardinality(H)
      BY <3>2, <3>3, <3>4, FS_Subset
    <3>6. Cardinality(A) =< MaxJobsPerSession
      BY OwnSession DEF IInv, CountsBounded, Count
    <3>7. Cardinality(H) \in Nat /\ Cardinality(A) \in Nat
      BY <3>2, <3>4, FS_Subset, FS_CardinalityType
    <3> HIDE DEF H, A
    <3>8. Cardinality(H) < MaxJobsPerSession
      BY <3>5, <3>6, <3>7, QueueAssumption
    <3>9. QED
      BY <3>1, <3>8
  <2>4. QED
    BY <2>1, <2>2, <2>3, <1>2
       DEF Pool!Grant, Pool!Move, Phases, Pool!Cardinality, Cardinality
<1>7. QED
  BY <1>5, <1>6

(* The steps after a decision: they answer, give back, or change nothing   *)
(* the pool can see.                                                       *)
LEMMA LeaveRefines ==
  ASSUME IInv, NEW r \in Requests
  PROVE  /\ UndoSession(r) => Pool!AnswerRefusal(r)
         /\ UndoGlobal(r) => UNCHANGED Phases
         /\ UndoSessionAfterGlobal(r) => Pool!AnswerRefusal(r)
         /\ ReleaseGlobal(r) => Pool!GiveBack(r)
         /\ ReleaseSession(r) => Pool!Return(r)
<1>1. TypeOK /\ Phases[r] = PhaseAt[at[r]]
  BY DEF IInv, Phases
<1>2. ASSUME UndoSession(r)
      PROVE  Pool!AnswerRefusal(r)
  BY <1>1, <1>2, PhaseMoves, PhaseTable
     DEF UndoSession, GoTo, Idle, Pool!AnswerRefusal, Pool!Move, Phases
<1>3. ASSUME UndoGlobal(r)
      PROVE  UNCHANGED Phases
  <2>1. at[r] = "overGlobal" /\ at' = [at EXCEPT ![r] = "overGlobalUndone"]
    BY <1>3 DEF UndoGlobal, GoTo
  <2>2. \A q \in Requests : PhaseAt[at'[q]] = PhaseAt[at[q]]
    BY <2>1, <1>1, PhaseTable DEF TypeOK
  <2>3. QED
    BY <2>2 DEF Phases
<1>4. ASSUME UndoSessionAfterGlobal(r)
      PROVE  Pool!AnswerRefusal(r)
  BY <1>1, <1>4, PhaseMoves, PhaseTable
     DEF UndoSessionAfterGlobal, GoTo, Idle, Pool!AnswerRefusal, Pool!Move, Phases
<1>5. ASSUME ReleaseGlobal(r)
      PROVE  Pool!GiveBack(r)
  BY <1>1, <1>5, PhaseMoves, PhaseTable
     DEF ReleaseGlobal, GoTo, Busy, Pool!GiveBack, Pool!Move, Phases
<1>6. ASSUME ReleaseSession(r)
      PROVE  Pool!Return(r)
  BY <1>1, <1>6, PhaseMoves, PhaseTable
     DEF ReleaseSession, GoTo, Idle, Pool!Return, Pool!Move, Phases
<1>7. QED
  BY <1>2, <1>3, <1>4, <1>5, <1>6

(* The two counters implement the pool of slots: no grant beyond a limit,  *)
(* one return per grant, no refusal without as many others in the pool.    *)
THEOREM Refinement == Spec => ImplementsSlotPool
<1>1. Init => Pool!Init
  BY PhaseTable DEF Init, Pool!Init, Idle
<1>2. IInv /\ [Next]_vars => [Pool!Next]_Phases
  <2> SUFFICES ASSUME IInv, [Next]_vars
               PROVE  [Pool!Next]_Phases
    OBVIOUS
  <2>1. ASSUME NEW r \in Requests, EnterSession(r)
        PROVE  Pool!Next
    BY <2>1, EnterSessionRefines DEF Pool!Next
  <2>2. ASSUME NEW r \in Requests, ReleaseGlobal(r)
        PROVE  Pool!Next
    BY <2>2, LeaveRefines DEF Pool!Next
  <2>3. ASSUME NEW r \in Requests, Step(r)
        PROVE  Pool!Next \/ UNCHANGED Phases
    BY <2>3, EnterGlobalRefines, LeaveRefines DEF Pool!Next, Step
  <2>4. CASE UNCHANGED vars
    BY <2>4 DEF vars, Phases
  <2>5. QED
    BY <2>1, <2>2, <2>3, <2>4 DEF Next
<1>3. [Pool!Next]_Phases <=> [Pool!Next]_[r \in Requests |-> PhaseAt[at[r]]]
  BY DEF Phases
<1>4. QED
  BY <1>1, <1>2, <1>3, Invariance, PTL DEF Spec, ImplementsSlotPool, Pool!Spec
=============================================================================
