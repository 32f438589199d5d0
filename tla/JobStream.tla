----------------------------- MODULE JobStream ------------------------------
(***************************************************************************)
(* The progress stream of one job: StreamProgress in                       *)
(* Endpoints/JobEndpoints.cs, the job's record in InMemoryJobStore, and    *)
(* SweepExpiredJobs in JobSweepService.cs.                                 *)
(*                                                                         *)
(* Every GET of /progress is a loop of its own that takes events from the  *)
(* one channel of the job: several connections, or an old one and its      *)
(* reconnect, compete for them.  When the channel is empty the loop waits  *)
(* for an event or for its PeriodicTimer.  A PeriodicTimer has room for    *)
(* one wait: a second WaitForNextTickAsync while the first is pending      *)
(* throws InvalidOperationException.                                       *)
(*                                                                         *)
(* Nothing in the repository creates a job record or writes to its channel *)
(* yet.  The producer is modelled from docs/architecture/04-processors.md: *)
(* progress events, then a terminal event and the end of the channel, or   *)
(* the end of the channel alone.                                           *)
(***************************************************************************)
EXTENDS Integers, Sequences, SequencesExt

CONSTANTS
  Streams,            (* requests for /progress, each a connection         *)
  Owners,             (* those that carry the session token of the job     *)
  MaxEvents,          (* bound: events the producer writes                 *)
  Retention           (* ApiOptions.CompletedJobRetentionMinutes           *)

ASSUME StreamAssumption ==
  /\ Owners \subseteq Streams
  /\ MaxEvents \in Nat \ {0}
  /\ Retention \in Nat

VARIABLES
  published,          (* events written to the channel so far: 1..published*)
  terminal,           (* the number of the Completed or Failed event, or 0 *)
  channel,            (* EventChannel: events nobody has read              *)
  closed,             (* its writer is completed                           *)
  over,               (* Status is Completed or Failed                     *)
  age,                (* ticks since CompletedAt                           *)
  stored, disposed,   (* the record is in the store; its token source is   *)
                      (* disposed                                          *)
  cancelled,          (* the job's token source is cancelled               *)
  pc,                 (* pc[s]: where the request s is                     *)
  timer,              (* timer[s]: its PeriodicTimer                       *)
  held,               (* held[s]: the event it has read last and not sent  *)
  sent,               (* sent[s]: the events it has written to its client  *)
  gone,               (* requests whose client has disconnected            *)
  missed              (* history; missed[s]: events that were lost with    *)
                      (* earlier connections when s connected              *)

job      == <<published, terminal, channel, closed, over, age, cancelled>>
record   == <<stored, disposed>>
progress == <<timer, held, sent, missed>>
vars     == <<job, record, progress, pc, gone>>

InLoop == {"loop",      (* at the head of the loop                         *)
           "writing",   (* awaiting the write of an event                  *)
           "waiting",   (* awaiting an event or a tick                     *)
           "ping"}      (* awaiting the write of a keep-alive              *)
Ended  == {"notFound", "forbidden",
           "broken",    (* the token source was disposed: 500              *)
           "crashed",   (* InvalidOperationException                       *)
           "stopped",   (* cancelled                                       *)
           "complete"}  (* the terminal event was written                  *)
Points == {"new", "found"} \cup InLoop \cup Ended

TypeOK ==
  /\ published \in 0..MaxEvents /\ terminal \in 0..published
  /\ channel \in Seq(1..published)
  /\ closed \in BOOLEAN /\ over \in BOOLEAN /\ cancelled \in BOOLEAN
  /\ stored \in BOOLEAN /\ disposed \in BOOLEAN
  /\ age \in 0..Retention + 1
  /\ disposed => ~stored
  /\ pc \in [Streams -> Points]
  /\ timer \in [Streams -> {"idle", "awaited", "ticked"}]
  /\ held \in [Streams -> 0..published]
  /\ sent \in [Streams -> Seq(1..published)]
  /\ gone \subseteq Streams
  /\ missed \in [Streams -> SUBSET (1..published)]

-----------------------------------------------------------------------------
Init ==
  /\ published = 0 /\ terminal = 0 /\ channel = <<>>
  /\ closed = FALSE /\ over = FALSE /\ cancelled = FALSE /\ age = 0
  /\ stored = TRUE /\ disposed = FALSE
  /\ pc = [s \in Streams |-> "new"]
  /\ timer = [s \in Streams |-> "idle"]
  /\ held = [s \in Streams |-> 0]
  /\ sent = [s \in Streams |-> <<>>]
  /\ gone = {}
  /\ missed = [s \in Streams |-> {}]

GoTo(s, point) == pc' = [pc EXCEPT ![s] = point]

(* WaitToReadAsync of every waiting stream completes.                      *)
WakeReaders == pc' = [s \in Streams |-> IF pc[s] = "waiting" THEN "loop" ELSE pc[s]]

(* Outside this code: the background task of the job.                      *)
Publish ==
  /\ ~closed /\ published < MaxEvents - 1
  /\ published' = published + 1
  /\ channel' = Append(channel, published')
  /\ WakeReaders
  /\ UNCHANGED <<terminal, closed, over, age, cancelled, record, progress, gone>>

Conclude ==
  /\ ~closed
  /\ \/ /\ published' = published + 1
        /\ terminal' = published'
        /\ channel' = Append(channel, published')
     \/ UNCHANGED <<published, terminal, channel>>
  /\ closed' = TRUE /\ over' = TRUE
  /\ WakeReaders
  /\ UNCHANGED <<age, cancelled, record, progress, gone>>

CancelJob ==
  /\ ~disposed /\ ~over
  /\ cancelled' = TRUE
  /\ UNCHANGED <<published, terminal, channel, closed, over, age, record, progress, pc, gone>>

Disconnect(s) ==
  /\ pc[s] \notin Ended
  /\ gone' = gone \cup {s}
  /\ UNCHANGED <<job, record, progress, pc>>

TimePasses ==
  /\ over /\ age =< Retention
  /\ age' = age + 1
  /\ UNCHANGED <<published, terminal, channel, closed, over, cancelled, record, progress, pc, gone>>

-----------------------------------------------------------------------------
(* SweepExpiredJobs: remove the record, then dispose its token source.     *)
(* Mutant: a finished job is removed whatever its age.                     *)
SweepRemoveAtOnce ==
  /\ stored /\ over
  /\ stored' = FALSE
  /\ UNCHANGED <<job, disposed, progress, pc, gone>>

SweepRemove ==
  /\ stored /\ over /\ age > Retention
  /\ stored' = FALSE
  /\ UNCHANGED <<job, disposed, progress, pc, gone>>

(* Mutant: the source is disposed while the record can still be found.     *)
SweepDisposeEarly ==
  /\ over /\ age > Retention /\ ~disposed
  /\ disposed' = TRUE
  /\ UNCHANGED <<job, stored, progress, pc, gone>>

SweepDispose ==
  /\ ~stored /\ ~disposed
  /\ disposed' = TRUE
  /\ UNCHANGED <<job, stored, progress, pc, gone>>

-----------------------------------------------------------------------------
(* Events a client went away from while they were being sent to it.        *)
LostSoFar == {held[t] : t \in {u \in gone : pc[u] = "stopped"}} \ {0}

(* Up to the stream: the job is looked up and its owner compared.  The     *)
(* header Last-Event-ID is read and has no effect.                         *)
LookUp(s) ==
  /\ pc[s] = "new"
  /\ GoTo(s, IF ~stored THEN "notFound" ELSE IF s \notin Owners THEN "forbidden" ELSE "found")
  /\ missed' = [missed EXCEPT ![s] = LostSoFar]
  /\ UNCHANGED <<job, record, timer, held, sent, gone>>

(* CreateLinkedTokenSource reads job.CancellationTokenSource.Token.        *)
Link(s) ==
  /\ pc[s] = "found"
  /\ GoTo(s, IF disposed THEN "broken" ELSE "loop")
  /\ UNCHANGED <<job, record, progress, gone>>

Cancelled(s) == cancelled \/ s \in gone

(* Mutant: the event is looked at but stays in the channel.                *)
ReadPeeks(s) ==
  /\ pc[s] = "loop" /\ ~Cancelled(s) /\ channel # <<>>
  /\ held' = [held EXCEPT ![s] = Head(channel)]
  /\ GoTo(s, "writing")
  /\ UNCHANGED <<job, record, timer, sent, gone, missed>>

(* reader.TryRead finds an event.                                          *)
Read(s) ==
  /\ pc[s] = "loop" /\ ~Cancelled(s) /\ channel # <<>>
  /\ held' = [held EXCEPT ![s] = Head(channel)]
  /\ channel' = Tail(channel)
  /\ GoTo(s, "writing")
  /\ UNCHANGED <<published, terminal, closed, over, age, cancelled, record, timer, sent, gone,
                 missed>>

(* Mutant: no break after the terminal event.                              *)
WriteGoesOn(s) ==
  /\ pc[s] = "writing"
  /\ sent' = [sent EXCEPT ![s] = Append(@, held[s])]
  /\ held' = [held EXCEPT ![s] = 0]
  /\ GoTo(s, "loop")
  /\ UNCHANGED <<job, record, timer, gone, missed>>

Write(s) ==
  /\ pc[s] = "writing"
  /\ sent' = [sent EXCEPT ![s] = Append(@, held[s])]
  /\ held' = [held EXCEPT ![s] = 0]
  /\ GoTo(s, IF held[s] = terminal THEN "complete" ELSE "loop")
  /\ UNCHANGED <<job, record, timer, gone, missed>>

(* Mutant: a pending wait for the timer is waited for again.               *)
WaitAgain(s) ==
  /\ pc[s] = "loop" /\ ~Cancelled(s) /\ channel = <<>>
  /\ GoTo(s, IF closed THEN "loop" ELSE "waiting")
  /\ timer' = [timer EXCEPT ![s] = "awaited"]
  /\ UNCHANGED <<job, record, held, sent, gone, missed>>

(* The channel is empty: WaitToReadAsync and WaitForNextTickAsync, then    *)
(* WhenAny.  A tick nobody waited for completes the wait at once.  So does *)
(* a closed channel, and then the loop goes on without a keep-alive.       *)
Wait(s) ==
  /\ pc[s] = "loop" /\ ~Cancelled(s) /\ channel = <<>>
  /\ \/ /\ timer[s] = "awaited"
        /\ GoTo(s, "crashed")
        /\ UNCHANGED timer
     \/ /\ timer[s] = "ticked"
        /\ timer' = [timer EXCEPT ![s] = "idle"]
        /\ GoTo(s, IF closed THEN "loop" ELSE "ping")
     \/ /\ timer[s] = "idle"
        /\ timer' = [timer EXCEPT ![s] = "awaited"]
        /\ GoTo(s, IF closed THEN "loop" ELSE "waiting")
  /\ UNCHANGED <<job, record, held, sent, gone, missed>>

(* Fifteen seconds are over, while the stream awaits something: from one    *)
(* await to the next the loop runs without a pause.  A stream that waits   *)
(* for the tick sends a keep-alive.                                        *)
TimerTicks(s) ==
  /\ pc[s] \in {"writing", "waiting", "ping"} /\ timer[s] # "ticked"
  /\ timer' = [timer EXCEPT ![s] = IF @ = "awaited" THEN "idle" ELSE "ticked"]
  /\ GoTo(s, IF pc[s] = "waiting" THEN "ping" ELSE pc[s])
  /\ UNCHANGED <<job, record, held, sent, gone, missed>>

Ping(s) ==
  /\ pc[s] = "ping"
  /\ GoTo(s, "loop")
  /\ UNCHANGED <<job, record, progress, gone>>

(* The client has disconnected or the job was cancelled: the waits and the *)
(* loop end, a write may.  An event that was read stays unsent.            *)
Stop(s) ==
  /\ pc[s] \in InLoop /\ Cancelled(s)
  /\ GoTo(s, "stopped")
  /\ UNCHANGED <<job, record, progress, gone>>

Serve(s) == LookUp(s) \/ Link(s) \/ Read(s) \/ Write(s) \/ Wait(s) \/ Ping(s) \/ Stop(s)

Next ==
  \/ Publish \/ Conclude \/ CancelJob \/ TimePasses \/ SweepRemove \/ SweepDispose
  \/ \E s \in Streams : Serve(s) \/ TimerTicks(s) \/ Disconnect(s)

Spec == Init /\ [][Next]_vars

(* The threads that serve the streams run.  Neither the producer nor time  *)
(* nor the timer has to do anything.                                       *)
Fairness == \A s \in Streams : WF_vars(Serve(s))

FairSpec == Spec /\ Fairness

-----------------------------------------------------------------------------
(* However many connections compete for them, every event is in one place: *)
(* still in the channel, read by one stream, or sent by one; and each      *)
(* stream sends what it sends in the order of publication.  So no event is *)
(* sent twice, and the only ones that stay unsent are those in the channel *)
(* and those whose connection was broken off, or whose job was cancelled,  *)
(* while they were being sent.                                             *)
Places(e) ==
  {<<"channel", i>> : i \in {j \in DOMAIN channel : channel[j] = e}}
    \cup {<<"held", s>> : s \in {t \in Streams : held[t] = e}}
    \cup {<<"sent", s>> : s \in {t \in Streams : Contains(sent[t], e)}}

Increasing(seq) == \A i, j \in DOMAIN seq : i < j => seq[i] < seq[j]

EventsAccountedFor ==
  /\ \A e \in 1..published : \E p \in Places(e) : Places(e) = {p}
  /\ \A s \in Streams :
       /\ Increasing(sent[s])
       /\ held[s] # 0 => pc[s] = "writing" \/ (pc[s] = "stopped" /\ Cancelled(s))

(* A stream is complete when and only when it has sent the terminal event, *)
(* and that is the last thing it sends.                                    *)
TerminalEndsStream ==
  \A s \in Streams :
    pc[s] = "complete" <=> terminal # 0 /\ Contains(sent[s], terminal)

(* The sweep takes nothing from a job that runs or has ended lately: its   *)
(* owner can connect.                                                      *)
LiveJobsAreServed ==
  \A s \in Owners : pc[s] \in {"notFound", "broken"} => over /\ age > Retention

(* After the producer has ended no stream stays open, also one whose       *)
(* terminal event was taken by another connection.                         *)
StreamsEnd == \A s \in Streams : closed /\ pc[s] \in InLoop ~> pc[s] \in Ended

-----------------------------------------------------------------------------
(* docs/architecture/03-api-surface.md: "Stream closes when job reaches    *)
(* Completed or Failed."  While the job runs, and nobody has cancelled it  *)
(* or gone away, a stream does not end.                                    *)
StreamOutlivesRunningJob ==
  \A s \in Owners : pc[s] \in Ended => over \/ Cancelled(s)

(* docs/architecture/03-api-surface.md: "`Last-Event-ID` header on         *)
(* reconnect -> server replays missed events."  A stream that was opened   *)
(* after events were lost with a broken connection has sent them too by    *)
(* the time it is complete.                                                *)
MissedEventsReplayed ==
  \A s \in Streams : pc[s] = "complete" =>
    \A e \in missed[s] : Contains(sent[s], e)
=============================================================================
