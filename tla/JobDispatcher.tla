--------------------------- MODULE JobDispatcher ----------------------------
(***************************************************************************)
(* Jobs/JobDispatcher.cs: DispatchAsync, from the tool lookup to the       *)
(* answer, for concurrent requests that share one JobQueueManager.  Each   *)
(* request runs on its own thread; pc[r] is the point it has reached.  The *)
(* counters are raised and lowered where the dispatcher calls TryAcquire   *)
(* and Release, guarded by nothing but the dispatcher's own control flow:  *)
(* that this makes a legal use of JobQueueManager is a property below.     *)
(*                                                                         *)
(* Two things happen to a running job from outside: the timer of the       *)
(* linked token source fires, or the client disconnects (RequestAborted).  *)
(* Either lets the processor throw OperationCanceledException; neither     *)
(* forces it to, since processors look at the token only now and then.     *)
(***************************************************************************)
EXTENDS Integers, FiniteSets

CONSTANTS
  Requests, Sessions, SessionOf, MaxConcurrentJobs, MaxJobsPerSession,
  Tiers               (* JobTier values of the registered tools            *)

ASSUME DispatcherAssumption ==
  /\ IsFiniteSet(Requests)
  /\ SessionOf \in [Requests -> Sessions]
  /\ MaxConcurrentJobs \in Nat
  /\ MaxJobsPerSession \in Nat
  /\ Tiers \subseteq {"Synchronous", "Async"}

VARIABLES
  activeJobCount, sessionCounts,   (* the fields of JobQueueManager        *)
  pc,                 (* pc[r]: where the thread of request r is           *)
  aborted,            (* requests whose client has disconnected            *)
  timedOut,           (* requests whose linked source was cancelled by its *)
                      (* timer; disposed when the try block is left        *)
  answer              (* answer[r]: what will be answered, once decided    *)

vars == <<activeJobCount, sessionCounts, pc, aborted, timedOut, answer>>
counters == <<activeJobCount, sessionCounts>>

Acquiring == {"overSession", "counted", "overGlobal", "overGlobalUndone"}
InTry     == {"running",     (* awaiting processor.ExecuteAsync            *)
              "saving"}      (* awaiting storageService.SaveAsync          *)
Leaving   == {"leaving",     (* about to call Release                      *)
              "released",    (* between its two decrements                 *)
              "answering"}   (* Release has returned                       *)
Points    == {"idle"} \cup Acquiring \cup InTry \cup Leaving

(* How a request ends: a result, a refusal, or the exception that escapes. *)
Results     == {"Inline", "SignedUrl"}
Refusals    == {"UnknownToolSlug", "InvalidOptions", "ConcurrentJobLimit", "QueueFull"}
Failures    == {"ProcessorRejects",      (* validation or domain exception *)
                "ProcessorUnexpected"}
Escapes     == Failures \cup {"OperationCanceled", "StorageError", "NotImplemented"}
Outcomes    == Results \cup Refusals \cup Escapes

TypeOK ==
  /\ activeJobCount \in Nat
  /\ sessionCounts \in [Sessions -> Nat]
  /\ pc \in [Requests -> Points]
  /\ aborted \subseteq Requests
  /\ timedOut \subseteq {r \in Requests : pc[r] \in InTry}
  /\ answer \in [Requests -> Outcomes \cup {"none"}]

-----------------------------------------------------------------------------
(* ProblemDetailsExceptionHandler: status, errorCode and retryable of each *)
(* way to fail ("own": the error code the exception carries).              *)
Problem ==
  [o \in Refusals \cup Escapes |->
     CASE o = "UnknownToolSlug"    -> [status |-> 400, code |-> o, retryable |-> FALSE]
       [] o = "ConcurrentJobLimit" -> [status |-> 429, code |-> o, retryable |-> TRUE]
       [] o = "QueueFull"          -> [status |-> 503, code |-> o, retryable |-> TRUE]
       [] o \in {"InvalidOptions", "ProcessorRejects"} ->
            [status |-> 422, code |-> "own", retryable |-> FALSE]
       [] OTHER ->
            [status |-> 500, code |-> "ProcessorUnexpectedError", retryable |-> TRUE]]

Clamped(n) == IF n < 0 THEN 0 ELSE n

RaiseSession(s) == sessionCounts' = [sessionCounts EXCEPT ![s] = @ + 1]
LowerSession(s) == sessionCounts' = [sessionCounts EXCEPT ![s] = Clamped(@ - 1)]
LowerGlobal     == activeJobCount' = activeJobCount - 1

GoTo(r, point)    == pc' = [pc EXCEPT ![r] = point]

(* Mutant: the linked token source is not disposed.                        *)
LeaveTryUndisposed(r) == GoTo(r, "leaving") /\ UNCHANGED timedOut

LeaveTry(r)       == GoTo(r, "leaving") /\ timedOut' = timedOut \ {r}
Decide(r, result) == answer' = [answer EXCEPT ![r] = result]

Init ==
  /\ activeJobCount = 0
  /\ sessionCounts = [s \in Sessions |-> 0]
  /\ pc = [r \in Requests |-> "idle"]
  /\ aborted = {}
  /\ timedOut = {}
  /\ answer = [r \in Requests |-> "none"]

-----------------------------------------------------------------------------
(* Before the slot: no tool of that name with a server-side processor, or  *)
(* ValidateOptions throws.                                                 *)
RefuseRequest(r) ==
  /\ pc[r] = "idle"
  /\ \E o \in {"UnknownToolSlug", "InvalidOptions"} : Decide(r, o)
  /\ GoTo(r, "answering")
  /\ UNCHANGED <<counters, aborted, timedOut>>

(* TryAcquire, first counter.                                              *)
AcquireSession(r) ==
  /\ pc[r] = "idle"
  /\ RaiseSession(SessionOf[r])
  /\ GoTo(r, IF sessionCounts'[SessionOf[r]] > MaxJobsPerSession
             THEN "overSession" ELSE "counted")
  /\ UNCHANGED <<activeJobCount, aborted, timedOut, answer>>

(* ConcurrentLimitExceeded: lowered again, 429.                            *)
RefuseSession(r) ==
  /\ pc[r] = "overSession"
  /\ LowerSession(SessionOf[r])
  /\ Decide(r, "ConcurrentJobLimit")
  /\ GoTo(r, "answering")
  /\ UNCHANGED <<activeJobCount, aborted, timedOut>>

(* TryAcquire, second counter; on Success the tool's tier picks the path.  *)
(* RunAsyncJobAsync only releases the slot and throws.                     *)
AcquireGlobal(r) ==
  /\ pc[r] = "counted"
  /\ activeJobCount' = activeJobCount + 1
  /\ \/ /\ activeJobCount' > MaxConcurrentJobs
        /\ GoTo(r, "overGlobal")
        /\ UNCHANGED answer
     \/ /\ activeJobCount' =< MaxConcurrentJobs
        /\ "Synchronous" \in Tiers
        /\ GoTo(r, "running")
        /\ UNCHANGED answer
     \/ /\ activeJobCount' =< MaxConcurrentJobs
        /\ "Async" \in Tiers
        /\ GoTo(r, "leaving")
        /\ Decide(r, "NotImplemented")
  /\ UNCHANGED <<sessionCounts, aborted, timedOut>>

UndoGlobal(r) ==
  /\ pc[r] = "overGlobal"
  /\ LowerGlobal
  /\ GoTo(r, "overGlobalUndone")
  /\ UNCHANGED <<sessionCounts, aborted, timedOut, answer>>

(* Mutant: a full server is tried again instead of answered.               *)
RefuseGlobalSpins(r) ==
  /\ pc[r] = "overGlobalUndone"
  /\ GoTo(r, "counted")
  /\ UNCHANGED <<counters, aborted, timedOut, answer>>

(* QueueFull: both lowered again, 503.                                     *)
RefuseGlobal(r) ==
  /\ pc[r] = "overGlobalUndone"
  /\ LowerSession(SessionOf[r])
  /\ Decide(r, "QueueFull")
  /\ GoTo(r, "answering")
  /\ UNCHANGED <<activeJobCount, aborted, timedOut>>

(* The timer set by CancelAfter; the source lives until the try is left.   *)
TimerFires(r) ==
  /\ pc[r] \in InTry
  /\ timedOut' = timedOut \cup {r}
  /\ UNCHANGED <<counters, pc, aborted, answer>>

(* The client disconnects: RequestAborted is cancelled.                    *)
Abort(r) ==
  /\ pc[r] # "idle"
  /\ aborted' = aborted \cup {r}
  /\ UNCHANGED <<counters, pc, timedOut, answer>>

(* RunSyncAsync: ExecuteAsync returns an output below the inline threshold *)
(* or one that is stored first, or throws.                                 *)
ProcessorReturns(r) ==
  /\ pc[r] = "running"
  /\ \/ LeaveTry(r) /\ Decide(r, "Inline")
     \/ GoTo(r, "saving") /\ UNCHANGED <<timedOut, answer>>
  /\ UNCHANGED <<counters, aborted>>

(* Mutant: Release after the await instead of in a finally block.          *)
ProcessorThrowsPastRelease(r) ==
  /\ pc[r] = "running"
  /\ \E o \in Failures : Decide(r, o)
  /\ GoTo(r, "answering")
  /\ timedOut' = timedOut \ {r}
  /\ UNCHANGED <<counters, aborted>>

ProcessorThrows(r) ==
  /\ pc[r] = "running"
  /\ \E o \in Failures : Decide(r, o)
  /\ LeaveTry(r)
  /\ UNCHANGED <<counters, aborted>>

(* The token the processor sees is linked to both sources.                 *)
ProcessorCancelled(r) ==
  /\ pc[r] = "running"
  /\ r \in timedOut \cup aborted
  /\ Decide(r, "OperationCanceled")
  /\ LeaveTry(r)
  /\ UNCHANGED <<counters, aborted>>

(* SaveAsync is given the request's token: the timer cannot cancel it.     *)
StorageReturns(r) ==
  /\ pc[r] = "saving"
  /\ \/ Decide(r, "SignedUrl")
     \/ Decide(r, "StorageError")
     \/ r \in aborted /\ Decide(r, "OperationCanceled")
  /\ LeaveTry(r)
  /\ UNCHANGED <<counters, aborted>>

(* Release, in the finally block or before the throw.                      *)
ReleaseGlobal(r) ==
  /\ pc[r] = "leaving"
  /\ LowerGlobal
  /\ GoTo(r, "released")
  /\ UNCHANGED <<sessionCounts, aborted, timedOut, answer>>

(* Mutant: Release lowers the global count only.                           *)
ReleaseSessionForgets(r) ==
  /\ pc[r] = "released"
  /\ GoTo(r, "answering")
  /\ UNCHANGED <<counters, aborted, timedOut, answer>>

ReleaseSession(r) ==
  /\ pc[r] = "released"
  /\ LowerSession(SessionOf[r])
  /\ GoTo(r, "answering")
  /\ UNCHANGED <<activeJobCount, aborted, timedOut, answer>>

(* The endpoint or the exception handler writes the answer, unless nobody  *)
(* is there to read it.                                                    *)
Answer(r) ==
  /\ pc[r] = "answering"
  /\ Decide(r, "none")
  /\ GoTo(r, "idle")
  /\ aborted' = aborted \ {r}
  /\ UNCHANGED <<counters, timedOut>>

Submit(r) == RefuseRequest(r) \/ AcquireSession(r)

Step(r) ==
  \/ RefuseSession(r) \/ AcquireGlobal(r) \/ UndoGlobal(r) \/ RefuseGlobal(r)
  \/ ProcessorReturns(r) \/ ProcessorThrows(r) \/ ProcessorCancelled(r)
  \/ StorageReturns(r) \/ ReleaseGlobal(r) \/ ReleaseSession(r) \/ Answer(r)

Next == \E r \in Requests : Submit(r) \/ Step(r) \/ TimerFires(r) \/ Abort(r)

Spec == Init /\ [][Next]_vars

(* Threads run, and every processor and every write ends, by itself or     *)
(* because of its token; nobody has to submit, to disconnect or to be late *)
Fairness == \A r \in Requests : WF_vars(Step(r))

FairSpec == Spec /\ Fairness

-----------------------------------------------------------------------------
(* The dispatcher uses the queue manager as it must be used: TryAcquire    *)
(* only by a request that is outside, Release exactly once per Success, on *)
(* every path out of a job (result, exception, cancellation, timeout).     *)
QueuePoint ==
  [p \in Points |->
     CASE p \in {"idle", "answering"}            -> "free"
       [] p \in {"running", "saving", "leaving"} -> "holding"
       [] OTHER                                  -> p]

Queue == INSTANCE JobQueueManager WITH at <- [r \in Requests |-> QueuePoint[pc[r]]]

ImplementsQueueManager == Queue!Spec

(* A session with no more connections than MaxJobsPerSession is never told *)
(* 429 ConcurrentJobLimit, whatever other sessions do and however its own  *)
(* jobs end: the place of a job is free before the client can read the     *)
(* answer and submit the next one.                                         *)
RequestsOf(s) == {r \in Requests : SessionOf[r] = s}

WithinShareIsServed ==
  \A s \in Sessions : Cardinality(RequestsOf(s)) =< MaxJobsPerSession =>
    \A r \in RequestsOf(s) : pc[r] # "overSession"

(* Every request is answered, and so every slot becomes free again.        *)
EveryRequestAnswered == \A r \in Requests : pc[r] # "idle" ~> pc[r] = "idle"

-----------------------------------------------------------------------------
(* docs/architecture/03-api-surface.md, status codes: "504 Job timeout".   *)
(* What a client that stays connected is told when its job is cancelled:   *)
(* only the timer can have done that.                                      *)
TimeoutIs504 ==
  \A r \in Requests \ aborted :
    pc[r] = "answering" /\ answer[r] = "OperationCanceled" =>
      Problem[answer[r]].status = 504
=============================================================================
