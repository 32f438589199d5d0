------------------------ MODULE JobDispatcherProofs -------------------------
(***************************************************************************)
(* For any number of requests, sessions, limits and tiers: the dispatcher  *)
(* makes a legal use of the queue manager, so what JobQueueManagerProofs   *)
(* proves of the counters holds of it, and with that a session that keeps  *)
(* to its share is always served.                                          *)
(***************************************************************************)
EXTENDS JobDispatcher, FiniteSetTheorems, TLAPS

(* JobQueueManager's variable at, as the dispatcher's points show it.      *)
QueuePoints == [r \in Requests |-> QueuePoint[pc[r]]]

TypeInv ==
  /\ pc \in [Requests -> Points]
  /\ activeJobCount \in Int
  /\ sessionCounts \in [Sessions -> Int]

LEMMA PointTable ==
  /\ QueuePoint["idle"] = "free" /\ QueuePoint["answering"] = "free"
  /\ QueuePoint["running"] = "holding" /\ QueuePoint["saving"] = "holding"
  /\ QueuePoint["leaving"] = "holding"
  /\ \A p \in Acquiring \cup {"released"} : QueuePoint[p] = p
BY DEF QueuePoint, Points, Acquiring, InTry, Leaving

(* A thread that goes to a point of the dispatcher goes to its image.      *)
LEMMA PointMoves ==
  ASSUME TypeInv, NEW r \in Requests, NEW p \in Points, GoTo(r, p)
  PROVE  /\ QueuePoints[r] = QueuePoint[pc[r]]
         /\ QueuePoints' = [QueuePoints EXCEPT ![r] = QueuePoint[p]]
         /\ pc' \in [Requests -> Points]
         /\ QueuePoint[p] = QueuePoint[pc[r]] => QueuePoints' = QueuePoints
BY DEF QueuePoints, TypeInv, GoTo

LEMMA InitTyped == Init => TypeInv
BY DEF Init, TypeInv, Points

LEMMA NextTyped == TypeInv /\ [Next]_vars => TypeInv'
<1> SUFFICES ASSUME TypeInv, [Next]_vars
             PROVE  TypeInv'
  OBVIOUS
<1> USE DEF GoTo, TypeInv, Points, Acquiring, InTry, Leaving
<1>1. ASSUME NEW r \in Requests, Submit(r)
      PROVE  TypeInv'
  BY <1>1 DEF Submit, RefuseRequest, AcquireSession, RaiseSession, counters
<1>2. ASSUME NEW r \in Requests, Step(r)
      PROVE  TypeInv'
  <2>1. sessionCounts' \in [Sessions -> Int]
    BY <1>2 DEF Step, RefuseSession, AcquireGlobal, UndoGlobal, RefuseGlobal,
       ProcessorReturns, ProcessorThrows, ProcessorCancelled, StorageReturns,
       ReleaseGlobal, ReleaseSession, Answer, LowerSession, Clamped, counters
  <2>2. pc' \in [Requests -> Points]
    BY <1>2 DEF Step, RefuseSession, AcquireGlobal, UndoGlobal, RefuseGlobal,
       ProcessorReturns, ProcessorThrows, ProcessorCancelled, StorageReturns,
       ReleaseGlobal, ReleaseSession, Answer, LeaveTry
  <2>3. activeJobCount' \in Int
    BY <1>2 DEF Step, RefuseSession, AcquireGlobal, UndoGlobal, RefuseGlobal,
       ProcessorReturns, ProcessorThrows, ProcessorCancelled, StorageReturns,
       ReleaseGlobal, ReleaseSession, Answer, LowerGlobal, counters
  <2>4. QED
    BY <2>1, <2>2, <2>3
<1>3. ASSUME NEW r \in Requests, TimerFires(r) \/ Abort(r)
      PROVE  TypeInv'
  BY <1>3 DEF TimerFires, Abort, counters
<1>4. CASE UNCHANGED vars
  BY <1>4 DEF vars
<1>5. QED
  BY <1>1, <1>2, <1>3, <1>4 DEF Next

-----------------------------------------------------------------------------
(* The calls of TryAcquire, step by step.                                  *)
LEMMA AcquireRefines ==
  ASSUME TypeInv, DispatcherAssumption, NEW r \in Requests
  PROVE  /\ RefuseRequest(r) => UNCHANGED <<counters, QueuePoints>>
         /\ AcquireSession(r) => Queue!EnterSession(r)
         /\ RefuseSession(r) => Queue!UndoSession(r)
         /\ AcquireGlobal(r) => Queue!EnterGlobal(r)
         /\ UndoGlobal(r) => Queue!UndoGlobal(r)
         /\ RefuseGlobal(r) => Queue!UndoSessionAfterGlobal(r)
<1> USE DEF Points, Acquiring, InTry, Leaving
<1>1. ASSUME RefuseRequest(r)
      PROVE  UNCHANGED <<counters, QueuePoints>>
  BY <1>1, PointMoves, PointTable DEF RefuseRequest, counters
<1>2. ASSUME AcquireSession(r)
      PROVE  Queue!EnterSession(r)
  <2> DEFINE c == sessionCounts[SessionOf[r]] + 1
             p == IF c > MaxJobsPerSession THEN "overSession" ELSE "counted"
  <2>1. /\ pc[r] = "idle" /\ UNCHANGED activeJobCount
        /\ sessionCounts' = [sessionCounts EXCEPT ![SessionOf[r]] = c]
    BY <1>2 DEF AcquireSession, RaiseSession
  <2>2. sessionCounts'[SessionOf[r]] = c
    BY <2>1 DEF DispatcherAssumption, TypeInv
  <2>3. GoTo(r, p)
    BY <1>2, <2>2 DEF AcquireSession
  <2>4. QueuePoints[r] = "free" /\ QueuePoints' = [QueuePoints EXCEPT ![r] = p]
    BY <2>1, <2>3, PointMoves, PointTable
  <2>5. QED
    BY <2>1, <2>4 DEF Queue!EnterSession, Queue!GoTo, Queue!Idle, QueuePoints
<1>3. ASSUME RefuseSession(r)
      PROVE  Queue!UndoSession(r)
  <2>1. QueuePoints[r] = "overSession" /\ QueuePoints' = [QueuePoints EXCEPT ![r] = "free"]
    BY <1>3, PointMoves, PointTable DEF RefuseSession
  <2>2. QED
    BY <1>3, <2>1 DEF RefuseSession, LowerSession, Clamped, Queue!UndoSession,
       Queue!DecrementSession, Queue!Clamped, Queue!GoTo, QueuePoints
<1>4. ASSUME AcquireGlobal(r)
      PROVE  Queue!EnterGlobal(r)
  <2>1. /\ QueuePoints[r] = "counted" /\ UNCHANGED sessionCounts
        /\ activeJobCount' = activeJobCount + 1
    BY <1>4, PointTable DEF AcquireGlobal, QueuePoints
  <2>2. PICK point \in {"overGlobal", "running", "leaving"} :
           /\ GoTo(r, point)
           /\ point = "overGlobal" => activeJobCount' > MaxConcurrentJobs
           /\ point # "overGlobal" => ~(activeJobCount' > MaxConcurrentJobs)
    BY <1>4 DEF AcquireGlobal, TypeInv, DispatcherAssumption
  <2>3. QueuePoints' = [QueuePoints EXCEPT ![r] =
                          IF point = "overGlobal" THEN "overGlobal" ELSE "holding"]
    BY <2>2, PointMoves, PointTable
  <2>4. QED
    BY <2>1, <2>2, <2>3 DEF Queue!EnterGlobal, Queue!GoTo, QueuePoints
<1>5. ASSUME UndoGlobal(r)
      PROVE  Queue!UndoGlobal(r)
  <2>1. /\ QueuePoints[r] = "overGlobal"
        /\ QueuePoints' = [QueuePoints EXCEPT ![r] = "overGlobalUndone"]
    BY <1>5, PointMoves, PointTable DEF UndoGlobal
  <2>2. QED
    BY <1>5, <2>1 DEF UndoGlobal, LowerGlobal, Queue!UndoGlobal, Queue!GoTo, QueuePoints
<1>6. ASSUME RefuseGlobal(r)
      PROVE  Queue!UndoSessionAfterGlobal(r)
  <2>1. /\ QueuePoints[r] = "overGlobalUndone"
        /\ QueuePoints' = [QueuePoints EXCEPT ![r] = "free"]
    BY <1>6, PointMoves, PointTable DEF RefuseGlobal
  <2>2. QED
    BY <1>6, <2>1 DEF RefuseGlobal, LowerSession, Clamped, Queue!UndoSessionAfterGlobal,
       Queue!DecrementSession, Queue!Clamped, Queue!GoTo, QueuePoints
<1>7. QED
  BY <1>1, <1>2, <1>3, <1>4, <1>5, <1>6

(* While a job runs nothing happens that the queue manager can see.        *)
LEMMA RunRefines ==
  ASSUME TypeInv, NEW r \in Requests,
         \/ ProcessorReturns(r) \/ ProcessorThrows(r) \/ ProcessorCancelled(r)
         \/ StorageReturns(r) \/ Answer(r) \/ TimerFires(r) \/ Abort(r)
  PROVE  UNCHANGED <<counters, QueuePoints>>
<1> USE DEF Points, Acquiring, InTry, Leaving
<1>1. CASE ProcessorReturns(r)
  BY <1>1, PointMoves, PointTable DEF ProcessorReturns, LeaveTry
<1>2. CASE ProcessorThrows(r) \/ ProcessorCancelled(r)
  BY <1>2, PointMoves, PointTable DEF ProcessorThrows, ProcessorCancelled, LeaveTry
<1>3. CASE StorageReturns(r)
  BY <1>3, PointMoves, PointTable DEF StorageReturns, LeaveTry
<1>4. CASE Answer(r)
  BY <1>4, PointMoves, PointTable DEF Answer
<1>5. CASE TimerFires(r) \/ Abort(r)
  BY <1>5 DEF TimerFires, Abort, QueuePoints
<1>6. QED
  BY <1>1, <1>2, <1>3, <1>4, <1>5

(* Every path out of a job passes through Release, once.                   *)
LEMMA ReleaseRefines ==
  ASSUME TypeInv, NEW r \in Requests
  PROVE  /\ ReleaseGlobal(r) => Queue!ReleaseGlobal(r)
         /\ ReleaseSession(r) => Queue!ReleaseSession(r)
<1> USE DEF Points, Acquiring, InTry, Leaving
<1>1. ASSUME ReleaseGlobal(r)
      PROVE  Queue!ReleaseGlobal(r)
  <2>1. QueuePoints[r] = "holding" /\ QueuePoints' = [QueuePoints EXCEPT ![r] = "released"]
    BY <1>1, PointMoves, PointTable DEF ReleaseGlobal
  <2>2. QED
    BY <1>1, <2>1 DEF ReleaseGlobal, LowerGlobal, Queue!ReleaseGlobal, Queue!GoTo, QueuePoints
<1>2. ASSUME ReleaseSession(r)
      PROVE  Queue!ReleaseSession(r)
  <2>1. QueuePoints[r] = "released" /\ QueuePoints' = [QueuePoints EXCEPT ![r] = "free"]
    BY <1>2, PointMoves, PointTable DEF ReleaseSession
  <2>2. QED
    BY <1>2, <2>1 DEF ReleaseSession, LowerSession, Clamped, Queue!ReleaseSession,
       Queue!DecrementSession, Queue!Clamped, Queue!GoTo, QueuePoints
<1>3. QED
  BY <1>1, <1>2

(* The dispatcher takes and gives back slots as JobQueueManager expects:   *)
(* one Release for each Success, on every path, and none otherwise.        *)
THEOREM DispatcherUsesQueue == Spec => ImplementsQueueManager
<1>1. Init => Queue!Init
  BY PointTable DEF Init, Queue!Init
<1>2. TypeInv /\ [Next]_vars => [Queue!Next]_<<activeJobCount, sessionCounts, QueuePoints>>
  <2> SUFFICES ASSUME TypeInv, [Next]_vars
               PROVE  Queue!Next \/ UNCHANGED <<counters, QueuePoints>>
    BY DEF counters
  <2>1. ASSUME NEW r \in Requests, Submit(r)
        PROVE  Queue!Next \/ UNCHANGED <<counters, QueuePoints>>
    BY <2>1, AcquireRefines, DispatcherAssumption DEF Submit, Queue!Next
  <2>2. ASSUME NEW r \in Requests, Step(r)
        PROVE  Queue!Next \/ UNCHANGED <<counters, QueuePoints>>
    BY <2>2, AcquireRefines, RunRefines, ReleaseRefines, DispatcherAssumption
       DEF Step, Queue!Next, Queue!Step
  <2>3. ASSUME NEW r \in Requests, TimerFires(r) \/ Abort(r)
        PROVE  UNCHANGED <<counters, QueuePoints>>
    BY <2>3, RunRefines
  <2>4. CASE UNCHANGED vars
    BY <2>4 DEF vars, counters, QueuePoints
  <2>5. QED
    BY <2>1, <2>2, <2>3, <2>4 DEF Next
<1>3. [Queue!Next]_<<activeJobCount, sessionCounts, QueuePoints>> <=> [Queue!Next]_Queue!vars
  BY DEF QueuePoints, Queue!vars
<1>4. QED
  BY <1>1, <1>2, <1>3, InitTyped, NextTyped, PTL DEF Spec, ImplementsQueueManager, Queue!Spec

-----------------------------------------------------------------------------
(* What is proved of the queue manager holds inside the dispatcher: the    *)
(* theorems of JobQueueManagerProofs, for the points the dispatcher shows. *)
QueueProofs ==
  INSTANCE JobQueueManagerProofs WITH at <- [r \in Requests |-> QueuePoint[pc[r]]]

LEMMA SameQueue == Queue!Spec => QueueProofs!Spec
<1>1. Queue!Init <=> QueueProofs!Init
  BY DEF Queue!Init, QueueProofs!Init
<1>2. Queue!Next <=> QueueProofs!Next
  BY Zenon DEF Queue!Next, QueueProofs!Next, Queue!EnterSession,
     QueueProofs!EnterSession, Queue!UndoSession, QueueProofs!UndoSession,
     Queue!EnterGlobal, QueueProofs!EnterGlobal, Queue!UndoGlobal,
     QueueProofs!UndoGlobal, Queue!UndoSessionAfterGlobal,
     QueueProofs!UndoSessionAfterGlobal, Queue!ReleaseGlobal,
     QueueProofs!ReleaseGlobal, Queue!ReleaseSession,
     QueueProofs!ReleaseSession, Queue!Step, QueueProofs!Step, Queue!GoTo,
     QueueProofs!GoTo, Queue!DecrementSession, QueueProofs!DecrementSession,
     Queue!Clamped, QueueProofs!Clamped, Queue!Idle, QueueProofs!Idle
<1>3. [Queue!Next]_Queue!vars <=> [QueueProofs!Next]_QueueProofs!vars
  BY <1>2 DEF Queue!vars, QueueProofs!vars
<1>4. QED
  BY <1>1, <1>3, PTL DEF Queue!Spec, QueueProofs!Spec

LEMMA SameAssumption == QueueProofs!QueueAssumption
BY DispatcherAssumption
   DEF DispatcherAssumption, QueueProofs!QueueAssumption, QueueProofs!IsFiniteSet, IsFiniteSet

(* Jobs that run, store their output or are about to release their slot    *)
(* never exceed either limit.                                              *)
THEOREM DispatcherWithinLimits == Spec => []Queue!LimitsHold
<1>1. QueueProofs!Spec => []QueueProofs!LimitsHold
  BY SameAssumption, QueueProofs!WithinLimits
<1>2. QueueProofs!LimitsHold => Queue!LimitsHold
  BY DEF QueueProofs!LimitsHold, Queue!LimitsHold, QueueProofs!Within, Queue!Within,
     QueueProofs!Admitted, Queue!Admitted, QueueProofs!OfSession, Queue!OfSession,
     QueueProofs!Cardinality, Queue!Cardinality
<1>3. QED
  BY <1>1, <1>2, SameQueue, DispatcherUsesQueue, PTL DEF ImplementsQueueManager

(* The count of a session is the number of its requests inside the queue   *)
(* manager.                                                                *)
InsideOf(s) == {r \in Requests : QueuePoint[pc[r]] # "free"} \cap RequestsOf(s)

SessionCountsExact == \A s \in Sessions : sessionCounts[s] = Cardinality(InsideOf(s))

LEMMA DispatcherCountsExact == Spec => []SessionCountsExact
<1>1. QueueProofs!Spec => []QueueProofs!ExactCounts /\ []QueueProofs!TypeOK
  BY SameAssumption, QueueProofs!CountersExact, QueueProofs!TypeCorrect, PTL
<1>2. QueueProofs!ExactCounts /\ QueueProofs!TypeOK => SessionCountsExact
  <2> SUFFICES ASSUME QueueProofs!ExactCounts, QueueProofs!TypeOK, NEW s \in Sessions
               PROVE  sessionCounts[s] = Cardinality(InsideOf(s))
    BY DEF SessionCountsExact
  <2>1. QueueProofs!Within(QueueProofs!InSession) \cap QueueProofs!OfSession(s) = InsideOf(s)
    BY DEF QueueProofs!Within, QueueProofs!InSession, QueueProofs!OfSession,
       QueueProofs!TypeOK, QueueProofs!Idle, QueueProofs!Busy, InsideOf, RequestsOf
  <2>2. QED
    BY <2>1 DEF QueueProofs!ExactCounts, QueueProofs!Cardinality, Cardinality
<1>3. QED
  BY <1>1, <1>2, SameQueue, DispatcherUsesQueue, PTL DEF ImplementsQueueManager

(* No slot leaks: once the requests of a session are answered or about to  *)
(* be, however their jobs ended, its count is 0 again, and once all        *)
(* requests are, so is the count of active jobs.                           *)
AtRest(R) == \A r \in R : pc[r] \in {"idle", "answering"}

SlotsComeBack ==
  /\ AtRest(Requests) => activeJobCount = 0
  /\ \A s \in Sessions : AtRest(RequestsOf(s)) => sessionCounts[s] = 0

THEOREM NoSlotLeaks == Spec => []SlotsComeBack
<1>1. QueueProofs!Spec => []QueueProofs!ExactCounts
  BY SameAssumption, QueueProofs!CountersExact
<1>2. QueueProofs!ExactCounts /\ SessionCountsExact => SlotsComeBack
  <2> SUFFICES ASSUME QueueProofs!ExactCounts, SessionCountsExact
               PROVE  SlotsComeBack
    OBVIOUS
  <2>1. QueueProofs!Cardinality({}) = 0 /\ Cardinality({}) = 0
    BY FS_EmptySet DEF QueueProofs!Cardinality, Cardinality
  <2>2. ASSUME AtRest(Requests)
        PROVE  activeJobCount = 0
    <3>1. QueueProofs!Within(QueueProofs!InGlobal) = {}
      BY <2>2, PointTable DEF AtRest, QueueProofs!Within, QueueProofs!InGlobal
    <3>2. QED
      BY <2>1, <3>1 DEF QueueProofs!ExactCounts
  <2>3. ASSUME NEW s \in Sessions, AtRest(RequestsOf(s))
        PROVE  sessionCounts[s] = 0
    <3>1. InsideOf(s) = {}
      BY <2>3, PointTable DEF AtRest, InsideOf, RequestsOf
    <3>2. QED
      BY <2>1, <3>1 DEF SessionCountsExact
  <2>4. QED
    BY <2>2, <2>3 DEF SlotsComeBack
<1>3. QED
  BY <1>1, <1>2, DispatcherCountsExact, SameQueue, DispatcherUsesQueue, PTL
     DEF ImplementsQueueManager

(* The two refinements compose: the requests of the dispatcher ask for,    *)
(* hold and give back slots as the pool of SlotPool promises.              *)
THEOREM DispatcherKeepsPool == Spec => QueueProofs!ImplementsSlotPool
<1>1. QueueProofs!Spec => QueueProofs!ImplementsSlotPool
  BY SameAssumption, QueueProofs!Refinement
<1>2. QED
  BY <1>1, SameQueue, DispatcherUsesQueue, PTL DEF ImplementsQueueManager

(* A request that is refused for its session found the counter raised by   *)
(* MaxJobsPerSession others of the session; a session with no more than    *)
(* that many connections has not so many others.                           *)
LEMMA AcquireServes ==
  ASSUME TypeInv, SessionCountsExact, NEW r \in Requests, AcquireSession(r),
         Cardinality(RequestsOf(SessionOf[r])) =< MaxJobsPerSession
  PROVE  pc'[r] # "overSession"
<1> DEFINE s == SessionOf[r]
           A == InsideOf(s)
           B == RequestsOf(s)
<1>1. /\ s \in Sessions /\ sessionCounts[s] = Cardinality(A)
  BY DispatcherAssumption DEF DispatcherAssumption, SessionCountsExact
<1>2. B \in SUBSET Requests /\ IsFiniteSet(B)
  BY DispatcherAssumption, FS_Subset DEF RequestsOf, DispatcherAssumption
<1>3. r \in B /\ r \notin A /\ A \in SUBSET B
  BY PointTable DEF AcquireSession, InsideOf, RequestsOf
<1>4. IsFiniteSet(A) /\ Cardinality(A) =< Cardinality(B) /\ Cardinality(A) # Cardinality(B)
  BY <1>2, <1>3, FS_Subset
<1>5. Cardinality(A) \in Nat /\ Cardinality(B) \in Nat
  BY <1>2, <1>4, FS_CardinalityType
<1>6. Cardinality(A) + 1 =< MaxJobsPerSession
  BY <1>4, <1>5, DispatcherAssumption DEF DispatcherAssumption
<1>7. sessionCounts'[s] = Cardinality(A) + 1
  BY <1>1 DEF AcquireSession, RaiseSession, TypeInv
<1>8. pc' = [pc EXCEPT ![r] = "counted"]
  <2>1. ~(sessionCounts'[s] > MaxJobsPerSession)
    BY <1>5, <1>6, <1>7, DispatcherAssumption DEF DispatcherAssumption
  <2>2. QED
    BY <2>1 DEF AcquireSession, GoTo
<1>9. QED
  BY <1>8 DEF TypeInv

(* No other step leads to a refusal for the session.                       *)
LEMMA OthersServe ==
  ASSUME TypeInv, NEW r \in Requests, NEW q \in Requests,
         RefuseRequest(q) \/ Step(q) \/ TimerFires(q) \/ Abort(q),
         pc[r] # "overSession"
  PROVE  pc'[r] # "overSession"
BY DEF RefuseRequest, Step, RefuseSession, AcquireGlobal, UndoGlobal, RefuseGlobal,
   ProcessorReturns, ProcessorThrows, ProcessorCancelled, StorageReturns,
   ReleaseGlobal, ReleaseSession, Answer, TimerFires, Abort, LeaveTry, GoTo, TypeInv

(* A session that keeps to its share never gets 429 ConcurrentJobLimit.    *)
THEOREM SharesAreServed == Spec => []WithinShareIsServed
<1>1. Init => WithinShareIsServed
  BY DEF Init, WithinShareIsServed, RequestsOf
<1>2. TypeInv /\ SessionCountsExact /\ WithinShareIsServed /\ [Next]_vars =>
        WithinShareIsServed'
  <2> SUFFICES ASSUME TypeInv, SessionCountsExact, WithinShareIsServed, [Next]_vars,
                      NEW s \in Sessions, Cardinality(RequestsOf(s)) =< MaxJobsPerSession,
                      NEW r \in RequestsOf(s)
               PROVE  pc'[r] # "overSession"
    BY DEF WithinShareIsServed, RequestsOf
  <2>1. r \in Requests /\ SessionOf[r] = s /\ pc[r] # "overSession"
    BY DEF RequestsOf, WithinShareIsServed
  <2>2. ASSUME NEW q \in Requests, AcquireSession(q)
        PROVE  pc'[r] # "overSession"
    <3>1. CASE q = r
      BY <2>1, <2>2, <3>1, AcquireServes
    <3>2. CASE q # r
      BY <2>1, <2>2, <3>2 DEF AcquireSession, GoTo, TypeInv
    <3>3. QED
      BY <3>1, <3>2
  <2>3. ASSUME NEW q \in Requests, RefuseRequest(q) \/ Step(q) \/ TimerFires(q) \/ Abort(q)
        PROVE  pc'[r] # "overSession"
    BY <2>1, <2>3, OthersServe
  <2>4. CASE UNCHANGED vars
    BY <2>1, <2>4 DEF vars
  <2>5. QED
    BY <2>2, <2>3, <2>4 DEF Next, Submit
<1>3. QED
  BY <1>1, <1>2, InitTyped, NextTyped, DispatcherCountsExact, PTL DEF Spec
-----------------------------------------------------------------------------
(* The parts of TypeOK that the queue manager knows nothing of.            *)
RequestsTyped ==
  /\ aborted \subseteq Requests
  /\ timedOut \subseteq {r \in Requests : pc[r] \in InTry}
  /\ answer \in [Requests -> Outcomes \cup {"none"}]

LEMMA RequestsTypedStep ==
  ASSUME TypeInv, RequestsTyped, NEW r \in Requests,
         Submit(r) \/ Step(r) \/ TimerFires(r) \/ Abort(r)
  PROVE  RequestsTyped'
<1> USE DEF TypeInv, RequestsTyped, GoTo, Decide
<1>1. aborted' \subseteq Requests
  BY DEF Submit, RefuseRequest, AcquireSession, Step, RefuseSession, AcquireGlobal,
     UndoGlobal, RefuseGlobal, ProcessorReturns, ProcessorThrows, ProcessorCancelled,
     StorageReturns, ReleaseGlobal, ReleaseSession, Answer, TimerFires, Abort
<1>2. timedOut' \subseteq {q \in Requests : pc'[q] \in InTry}
  BY DEF Submit, RefuseRequest, AcquireSession, Step, RefuseSession, AcquireGlobal,
     UndoGlobal, RefuseGlobal, ProcessorReturns, ProcessorThrows, ProcessorCancelled,
     StorageReturns, ReleaseGlobal, ReleaseSession, Answer, TimerFires, Abort,
     LeaveTry, InTry
<1>3. answer' \in [Requests -> Outcomes \cup {"none"}]
  BY DEF Submit, RefuseRequest, AcquireSession, Step, RefuseSession, AcquireGlobal,
     UndoGlobal, RefuseGlobal, ProcessorReturns, ProcessorThrows, ProcessorCancelled,
     StorageReturns, ReleaseGlobal, ReleaseSession, Answer, TimerFires, Abort,
     Outcomes, Results, Refusals, Escapes, Failures
<1>4. QED
  BY <1>1, <1>2, <1>3

(* No counter falls below 0, and a fired timer belongs to a job that is in *)
(* its try block: the source of a job that has left it is disposed.        *)
THEOREM DispatcherTyped == Spec => []TypeOK
<1>1. Init => RequestsTyped
  BY DEF Init, RequestsTyped
<1>2. TypeInv /\ RequestsTyped /\ [Next]_vars => RequestsTyped'
  <2> SUFFICES ASSUME TypeInv, RequestsTyped, [Next]_vars
               PROVE  RequestsTyped'
    OBVIOUS
  <2>1. CASE Next
    BY <2>1, RequestsTypedStep DEF Next
  <2>2. CASE UNCHANGED vars
    BY <2>2 DEF vars, RequestsTyped
  <2>3. QED
    BY <2>1, <2>2
<1>3. QueueProofs!Spec => []QueueProofs!TypeOK
  BY SameAssumption, QueueProofs!TypeCorrect
<1>4. TypeInv /\ RequestsTyped /\ QueueProofs!TypeOK => TypeOK
  BY DEF TypeInv, RequestsTyped, QueueProofs!TypeOK, TypeOK
<1>5. QED
  BY <1>1, <1>2, <1>3, <1>4, InitTyped, NextTyped, SameQueue, DispatcherUsesQueue, PTL
  DEF Spec, ImplementsQueueManager
=============================================================================
