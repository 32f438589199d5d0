-------------------------- MODULE JobStreamProofs ---------------------------
(***************************************************************************)
(* For any number of connections and events and any retention: every event *)
(* of a job is with one of its connections or in the channel, the terminal *)
(* event ends the one that sends it, and the sweep leaves live jobs alone. *)
(***************************************************************************)
EXTENDS JobStream, SequenceTheorems, TLAPS

(* An event is held while it is written, and stays with a stream that was  *)
(* stopped meanwhile, by its client or with its job; nobody else holds one.*)
HeldInv ==
  \A s \in Streams :
    /\ pc[s] = "writing" => held[s] # 0
    /\ pc[s] \notin {"writing", "stopped"} => held[s] = 0
    /\ pc[s] = "stopped" => Cancelled(s)

LEMMA SeqGrows ==
  ASSUME NEW m \in Nat, NEW n \in Nat, m =< n, NEW q \in Seq(1..m)
  PROVE  q \in Seq(1..n)
OBVIOUS

LEMMA InitTyped == Init => TypeOK /\ HeldInv
<1> SUFFICES ASSUME Init
             PROVE  TypeOK /\ HeldInv
  OBVIOUS
<1>1. \A S : <<>> \in Seq(S)
  OBVIOUS
<1>2. sent \in [Streams -> Seq(1..published)]
  BY <1>1 DEF Init
<1>3. held \in [Streams -> 0..published] /\ pc \in [Streams -> Points]
  BY DEF Init, Points
<1>4. MaxEvents \in Nat /\ Retention \in Nat
  BY StreamAssumption
<1>5. channel \in Seq(1..published) /\ published \in 0..MaxEvents /\ terminal \in 0..published
  BY <1>1, <1>4 DEF Init
<1>6. age \in 0..Retention + 1
  BY <1>4 DEF Init
<1>f. /\ closed \in BOOLEAN /\ over \in BOOLEAN /\ cancelled \in BOOLEAN
      /\ stored \in BOOLEAN /\ disposed \in BOOLEAN
  BY Zenon DEF Init
<1>7. timer \in [Streams -> {"idle", "awaited", "ticked"}] /\ gone \subseteq Streams
  BY DEF Init
<1>m. missed \in [Streams -> SUBSET (1..published)]
  BY DEF Init
<1>8. HeldInv /\ ~disposed
  BY DEF Init, HeldInv
<1>9. QED
  BY <1>2, <1>3, <1>5, <1>6, <1>7, <1>8, <1>f, <1>m DEF TypeOK

(* A step adds to the channel, takes from it, sends what was taken, or     *)
(* leaves all events where they are.                                       *)
Elsewhere ==
  /\ UNCHANGED <<published, terminal, channel, closed, held, sent>>
  /\ \A s \in Streams :
       /\ pc'[s] = "complete" <=> pc[s] = "complete"
       /\ pc'[s] = "writing" => pc[s] = "writing"
       /\ pc[s] = "writing" => pc'[s] \in {"writing", "stopped"}
       /\ pc[s] = "stopped" => pc'[s] = "stopped"
       /\ pc'[s] = "stopped" => pc[s] = "stopped" \/ Cancelled(s)
       /\ Cancelled(s) => Cancelled(s)'

LEMMA Steps ==
  ASSUME TypeOK, [Next]_vars
  PROVE  \/ Publish \/ Conclude
         \/ \E s \in Streams : Read(s) \/ Write(s)
         \/ Elsewhere
<1>1. CASE CancelJob \/ TimePasses \/ SweepRemove \/ SweepDispose
  BY <1>1 DEF CancelJob, TimePasses, SweepRemove, SweepDispose, Elsewhere, Cancelled, job, record, progress
<1>2. ASSUME NEW s \in Streams, LookUp(s) \/ Link(s)
      PROVE  Elsewhere
  BY <1>2 DEF LookUp, Link, GoTo, Elsewhere, Cancelled, job, progress, TypeOK
<1>3. ASSUME NEW s \in Streams, Wait(s)
      PROVE  Elsewhere
  BY <1>3 DEF Wait, GoTo, Elsewhere, Cancelled, job, TypeOK
<1>4. ASSUME NEW s \in Streams, TimerTicks(s)
      PROVE  Elsewhere
  BY <1>4 DEF TimerTicks, GoTo, Elsewhere, Cancelled, job, TypeOK
<1>5. ASSUME NEW s \in Streams, Ping(s) \/ Stop(s)
      PROVE  Elsewhere
  BY <1>5 DEF Ping, Stop, InLoop, GoTo, Elsewhere, Cancelled, job, progress, TypeOK
<1>6. ASSUME NEW s \in Streams, Disconnect(s)
      PROVE  Elsewhere
  BY <1>6 DEF Disconnect, Elsewhere, Cancelled, job, progress
<1>7. CASE UNCHANGED vars
  BY <1>7 DEF vars, Elsewhere, Cancelled, job, record, progress
<1>8. QED
  BY <1>1, <1>2, <1>3, <1>4, <1>5, <1>6, <1>7 DEF Next, Serve

LEMMA NextHeld == TypeOK /\ HeldInv /\ [Next]_vars => HeldInv'
<1> SUFFICES ASSUME TypeOK, HeldInv, [Next]_vars
             PROVE  HeldInv'
  OBVIOUS
<1>1. CASE Publish \/ Conclude
  BY <1>1 DEF Publish, Conclude, WakeReaders, HeldInv, Cancelled, TypeOK, progress
<1>2. ASSUME NEW s \in Streams, Read(s)
      PROVE  HeldInv'
  <2>1. Head(channel) # 0
    BY <1>2, HeadTailProperties DEF Read, TypeOK
  <2>2. QED
    BY <1>2, <2>1 DEF Read, GoTo, HeldInv, Cancelled, TypeOK
<1>3. ASSUME NEW s \in Streams, Write(s)
      PROVE  HeldInv'
  BY <1>3 DEF Write, GoTo, HeldInv, Cancelled, job, TypeOK
<1>4. CASE Elsewhere
  BY <1>4 DEF Elsewhere, HeldInv
<1>5. QED
  BY <1>1, <1>2, <1>3, <1>4, Steps

(* The producer keeps room for its terminal event.                         *)
RoomInv == ~closed => published < MaxEvents

LEMMA NextRoom == TypeOK /\ RoomInv /\ [Next]_vars => RoomInv'
<1> SUFFICES ASSUME TypeOK, RoomInv, [Next]_vars
             PROVE  RoomInv'
  OBVIOUS
<1>1. CASE Publish
  BY <1>1, StreamAssumption DEF Publish, TypeOK, RoomInv
<1>2. CASE Conclude
  BY <1>2 DEF Conclude, RoomInv
<1>3. ASSUME NEW s \in Streams, Read(s) \/ Write(s)
      PROVE  RoomInv'
  BY <1>3 DEF Read, Write, job, RoomInv
<1>4. CASE Elsewhere
  BY <1>4 DEF Elsewhere, RoomInv
<1>5. QED
  BY <1>1, <1>2, <1>3, <1>4, Steps

LEMMA NextTyped == TypeOK /\ HeldInv /\ RoomInv /\ [Next]_vars => TypeOK'
<1> SUFFICES ASSUME TypeOK, HeldInv, RoomInv, [Next]_vars
             PROVE  TypeOK'
  OBVIOUS
<1>a. MaxEvents \in Nat \ {0} /\ Retention \in Nat /\ published \in Nat
  BY StreamAssumption DEF TypeOK
<1>b. ASSUME published' = published + 1, published < MaxEvents,
             channel' = Append(channel, published'), UNCHANGED progress
      PROVE  /\ published' \in 0..MaxEvents /\ published' \in Nat
             /\ terminal \in 0..published'
             /\ channel' \in Seq(1..published')
             /\ timer' \in [Streams -> {"idle", "awaited", "ticked"}]
             /\ sent' \in [Streams -> Seq(1..published')]
             /\ held' \in [Streams -> 0..published']
             /\ missed' \in [Streams -> SUBSET (1..published')]
  <2>1. published' \in 0..MaxEvents /\ published' \in Nat /\ published =< published'
    BY <1>a, <1>b DEF TypeOK
  <2>2. channel \in Seq(1..published') /\ published' \in 1..published'
    BY <1>a, <1>b, <2>1, SeqGrows DEF TypeOK
  <2>3. channel' \in Seq(1..published')
    BY <1>b, <2>2, AppendProperties
  <2>4. \A s \in Streams : sent[s] \in Seq(1..published')
    BY <1>a, <2>1, SeqGrows DEF TypeOK
  <2>5. sent' \in [Streams -> Seq(1..published')]
    BY <1>b, <2>4 DEF TypeOK, progress
  <2>6. held' \in [Streams -> 0..published'] /\ terminal \in 0..published'
    BY <1>a, <1>b, <2>1 DEF TypeOK, progress
  <2>7. missed' \in [Streams -> SUBSET (1..published')]
    <3>1. 1..published \subseteq 1..published'
      BY <1>a, <2>1
    <3>2. missed' = missed /\ \A s \in Streams : missed[s] \subseteq 1..published'
      BY <1>b, <3>1 DEF TypeOK, progress
    <3>3. QED
      BY <3>2 DEF TypeOK
  <2>8. QED
    BY <1>b, <2>1, <2>3, <2>5, <2>6, <2>7 DEF TypeOK, progress
<1>c. ASSUME WakeReaders
      PROVE  pc' \in [Streams -> Points]
  BY <1>c DEF WakeReaders, TypeOK, Points, InLoop
<1>1. CASE Publish
  BY <1>1, <1>a, <1>b, <1>c DEF Publish, RoomInv, TypeOK, record
<1>2. CASE Conclude
  <2>1. CASE UNCHANGED <<published, terminal, channel>>
    BY <1>2, <1>c, <2>1 DEF Conclude, TypeOK, progress, record
  <2>2. CASE /\ published' = published + 1
             /\ terminal' = published'
             /\ channel' = Append(channel, published')
    BY <1>2, <1>a, <1>b, <1>c, <2>2 DEF Conclude, RoomInv, TypeOK, record
  <2>3. QED
    BY <1>2, <2>1, <2>2 DEF Conclude
<1>3. CASE CancelJob \/ TimePasses
  <2>1. /\ closed' \in BOOLEAN /\ over' \in BOOLEAN /\ cancelled' \in BOOLEAN
        /\ stored' \in BOOLEAN /\ disposed' \in BOOLEAN /\ (disposed' => ~stored')
    <3>1. UNCHANGED <<closed, over, stored, disposed>> /\ cancelled' \in {cancelled, TRUE}
      BY <1>3, Zenon DEF CancelJob, TimePasses, record
    <3>2. QED
      BY <3>1, Zenon DEF TypeOK
  <2>2. age' \in 0..Retention + 1
    BY <1>3, <1>a DEF CancelJob, TimePasses, TypeOK
  <2>3. UNCHANGED <<published, terminal, channel, progress, pc, gone>>
    BY <1>3 DEF CancelJob, TimePasses
  <2>4. QED
    BY <2>1, <2>2, <2>3 DEF TypeOK, progress
<1>4. CASE SweepRemove \/ SweepDispose
  <2>1. /\ closed' \in BOOLEAN /\ over' \in BOOLEAN /\ cancelled' \in BOOLEAN
        /\ stored' \in BOOLEAN /\ disposed' \in BOOLEAN /\ (disposed' => ~stored')
    <3>1. UNCHANGED <<closed, over, cancelled>>
      BY <1>4, Zenon DEF SweepRemove, SweepDispose, job
    <3>2. \/ stored' = FALSE /\ disposed' = disposed
          \/ ~stored /\ stored' = stored /\ disposed' = TRUE
      BY <1>4, Zenon DEF SweepRemove, SweepDispose
    <3>3. ~stored'
      BY <3>2, Zenon
    <3>4. stored' \in BOOLEAN /\ disposed' \in BOOLEAN
      BY <3>2, Zenon DEF TypeOK
    <3>5. closed' \in BOOLEAN /\ over' \in BOOLEAN /\ cancelled' \in BOOLEAN
      BY <3>1, Zenon DEF TypeOK
    <3>6. QED
      BY <3>3, <3>4, <3>5, Zenon
  <2>2. UNCHANGED <<job, progress, pc, gone>>
    BY <1>4 DEF SweepRemove, SweepDispose
  <2>3. QED
    BY <2>1, <2>2 DEF TypeOK, job, progress
<1>5. ASSUME NEW s \in Streams, Link(s) \/ Ping(s) \/ Stop(s)
      PROVE  TypeOK'
  <2>1. pc' \in [Streams -> Points]
    BY <1>5 DEF Link, Ping, Stop, GoTo, TypeOK, Points, InLoop, Ended
  <2>2. UNCHANGED <<job, record, progress, gone>>
    BY <1>5 DEF Link, Ping, Stop
  <2>3. QED
    BY <2>1, <2>2 DEF TypeOK, job, record, progress
<1>6. ASSUME NEW s \in Streams, Read(s)
      PROVE  TypeOK'
  <2>1. Head(channel) \in 1..published /\ Tail(channel) \in Seq(1..published)
    BY <1>6, HeadTailProperties DEF Read, TypeOK
  <2>2. pc' \in [Streams -> Points]
    BY <1>6 DEF Read, GoTo, TypeOK, Points, InLoop
  <2>3. held' \in [Streams -> 0..published]
    BY <1>6, <1>a, <2>1 DEF Read, TypeOK
  <2>4. QED
    BY <1>6, <2>1, <2>2, <2>3 DEF Read, TypeOK, record
<1>7. ASSUME NEW s \in Streams, Write(s)
      PROVE  TypeOK'
  <2>1. held[s] \in 1..published
    BY <1>7, <1>a DEF Write, HeldInv, TypeOK
  <2>2. Append(sent[s], held[s]) \in Seq(1..published)
    BY <2>1, AppendProperties DEF TypeOK
  <2>3. sent' \in [Streams -> Seq(1..published)] /\ held' \in [Streams -> 0..published]
    BY <1>7, <1>a, <2>2 DEF Write, TypeOK
  <2>4. pc' \in [Streams -> Points]
    BY <1>7 DEF Write, GoTo, TypeOK, Points, InLoop, Ended
  <2>5. QED
    BY <1>7, <2>3, <2>4 DEF Write, TypeOK, job, record
<1>8. ASSUME NEW s \in Streams, Wait(s) \/ TimerTicks(s)
      PROVE  TypeOK'
  <2>1. pc' \in [Streams -> Points]
    BY <1>8 DEF Wait, TimerTicks, GoTo, TypeOK, Points, InLoop, Ended
  <2>2. timer' \in [Streams -> {"idle", "awaited", "ticked"}]
    BY <1>8 DEF Wait, TimerTicks, TypeOK
  <2>3. UNCHANGED <<job, record, held, sent, gone, missed>>
    BY <1>8 DEF Wait, TimerTicks
  <2>4. QED
    BY <2>1, <2>2, <2>3 DEF TypeOK, job, record
<1>9. ASSUME NEW s \in Streams, Disconnect(s)
      PROVE  TypeOK'
  BY <1>9 DEF Disconnect, TypeOK, job, record, progress
<1>10. CASE UNCHANGED vars
  BY <1>10 DEF vars, TypeOK, job, record, progress
<1>11. ASSUME NEW s \in Streams, LookUp(s)
       PROVE  TypeOK'
  <2>1. pc' \in [Streams -> Points]
    BY <1>11 DEF LookUp, GoTo, TypeOK, Points, InLoop, Ended
  <2>2. LostSoFar \subseteq 1..published
    BY <1>a DEF LostSoFar, TypeOK
  <2>3. missed' \in [Streams -> SUBSET (1..published)]
    BY <1>11, <2>2 DEF LookUp, TypeOK
  <2>4. UNCHANGED <<job, record, timer, held, sent, gone>>
    BY <1>11 DEF LookUp
  <2>5. QED
    BY <2>1, <2>3, <2>4 DEF TypeOK, job, record
<1>12. QED
  BY <1>1, <1>2, <1>3, <1>4, <1>5, <1>6, <1>7, <1>8, <1>9, <1>10, <1>11 DEF Next, Serve

StreamInv == TypeOK /\ HeldInv /\ RoomInv

(* Events, record and connections of StreamProgress stay of their types,   *)
(* and a connection holds an event only between its read and its write, or *)
(* if it was stopped there.                                                *)
THEOREM StreamTyped == Spec => [](TypeOK /\ HeldInv /\ RoomInv)
<1>1. Init => StreamInv
  BY InitTyped, StreamAssumption DEF StreamInv, Init, RoomInv
<1>2. StreamInv /\ [Next]_vars => StreamInv'
  BY NextHeld, NextRoom, NextTyped DEF StreamInv
<1>3. Spec => []StreamInv
  BY <1>1, <1>2, PTL DEF Spec
<1>4. QED
  BY <1>3, PTL DEF StreamInv

-----------------------------------------------------------------------------
(* The events that some connection has taken from the channel.             *)
Taken == published - Len(channel)

HasIt(s, e) == held[s] = e \/ Contains(sent[s], e)

(* The channel holds the last events in order.  Each event taken from it   *)
(* is with one stream, and a stream holds a later event than it has sent.  *)
LedgerInv ==
  /\ Len(channel) =< published
  /\ \A i \in 1..Len(channel) : channel[i] = Taken + i
  /\ \A s \in Streams :
       /\ held[s] =< Taken
       /\ Increasing(sent[s])
       /\ \A i \in 1..Len(sent[s]) :
            sent[s][i] =< Taken /\ (held[s] # 0 => sent[s][i] < held[s])
  /\ \A e \in 1..Taken :
        \E s \in Streams : HasIt(s, e) /\ \A t \in Streams : HasIt(t, e) => t = s

LEMMA ContainsAppend ==
  ASSUME NEW S, NEW q \in Seq(S), NEW x \in S, NEW e
  PROVE  Contains(Append(q, x), e) <=> Contains(q, e) \/ x = e
<1>1. /\ Append(q, x) \in Seq(S) /\ Len(Append(q, x)) = Len(q) + 1 /\ Len(q) \in Nat
      /\ \A i \in 1..Len(q) : Append(q, x)[i] = q[i]
      /\ Append(q, x)[Len(q) + 1] = x
  BY AppendProperties
<1>2. 1..(Len(q) + 1) = 1..Len(q) \cup {Len(q) + 1}
  BY <1>1
<1>3. QED
  BY <1>1, <1>2 DEF Contains

LEMMA SentTyped ==
  ASSUME TypeOK, NEW s \in Streams
  PROVE  /\ sent[s] \in Seq(1..published) /\ sent[s] \in Seq(Nat)
         /\ Len(sent[s]) \in Nat /\ DOMAIN sent[s] = 1..Len(sent[s])
         /\ \A i \in 1..Len(sent[s]) : sent[s][i] \in 1..published /\ sent[s][i] \in Nat
         /\ held[s] \in 0..published /\ held[s] \in Nat
<1>1. published \in Nat /\ sent[s] \in Seq(1..published) /\ held[s] \in 0..published
  BY DEF TypeOK
<1>2. QED
  BY <1>1

LEMMA PutKeepsLedger ==
  ASSUME TypeOK, TypeOK', LedgerInv, UNCHANGED <<held, sent>>,
         published' = published + 1, channel' = Append(channel, published')
  PROVE  LedgerInv'
<1>1. published \in Nat /\ Len(channel) \in Nat /\ published' \in Nat /\ channel \in Seq(Nat)
  BY DEF TypeOK
<1>2. /\ Len(channel') = Len(channel) + 1
      /\ \A i \in 1..Len(channel) : channel'[i] = channel[i]
      /\ channel'[Len(channel) + 1] = published'
  BY <1>1, AppendProperties
<1>3. Taken' = Taken /\ Taken \in Nat /\ Taken + Len(channel) = published
  BY <1>1, <1>2 DEF Taken, LedgerInv
<1>4. \A i \in 1..Len(channel') : channel'[i] = Taken' + i
  <2>1. \A i \in 1..Len(channel) : channel'[i] = Taken' + i
    BY <1>2, <1>3 DEF LedgerInv
  <2>2. channel'[Len(channel) + 1] = Taken' + (Len(channel) + 1)
    BY <1>1, <1>2, <1>3
  <2>3. QED
    BY <1>1, <1>2, <2>1, <2>2
<1>5. Len(channel') =< published'
  BY <1>1, <1>2 DEF LedgerInv
<1>6. QED
  BY <1>3, <1>4, <1>5 DEF LedgerInv, HasIt, Increasing

LEMMA ReadKeepsLedger ==
  ASSUME TypeOK, TypeOK', HeldInv, LedgerInv, NEW s \in Streams, Read(s)
  PROVE  LedgerInv'
<1>1. /\ published \in Nat /\ Len(channel) \in Nat \ {0} /\ channel \in Seq(Nat)
      /\ published' = published /\ sent' = sent
  BY DEF TypeOK, Read
<1>2. /\ Len(channel') = Len(channel) - 1
      /\ \A i \in 1..Len(channel') : channel'[i] = channel[i + 1]
      /\ Head(channel) = channel[1]
  BY <1>1, HeadTailProperties DEF Read
<1>3. Taken' = Taken + 1 /\ Taken \in Nat
  BY <1>1, <1>2 DEF Taken, LedgerInv
<1>4. /\ held[s] = 0 /\ held' = [held EXCEPT ![s] = Taken + 1]
      /\ held \in [Streams -> Nat]
  <2>1. held[s] = 0 /\ held' = [held EXCEPT ![s] = Head(channel)]
    BY DEF Read, HeldInv
  <2>2. Head(channel) = Taken + 1
    BY <1>1, <1>2 DEF LedgerInv
  <2>3. held \in [Streams -> Nat]
    BY <1>1 DEF TypeOK
  <2>4. QED
    BY <2>1, <2>2, <2>3
<1>5. Len(channel') =< published' /\ \A i \in 1..Len(channel') : channel'[i] = Taken' + i
  <2>1. Len(channel') =< published'
    BY <1>1, <1>2 DEF LedgerInv
  <2>2. ASSUME NEW i \in 1..Len(channel')
        PROVE  channel'[i] = Taken' + i
    <3>1. i + 1 \in 1..Len(channel) /\ channel'[i] = channel[i + 1]
      BY <1>1, <1>2
    <3>2. channel[i + 1] = Taken + (i + 1)
      BY <3>1 DEF LedgerInv
    <3>3. QED
      BY <1>3, <3>1, <3>2
  <2>3. QED
    BY <2>1, <2>2
<1>6. ASSUME NEW t \in Streams
      PROVE  /\ held'[t] =< Taken'
             /\ \A i \in 1..Len(sent'[t]) :
                  sent'[t][i] =< Taken' /\ (held'[t] # 0 => sent'[t][i] < held'[t])
             /\ Increasing(sent'[t])
  <2>1. \A i \in 1..Len(sent[t]) : sent[t][i] \in Nat /\ sent[t][i] =< Taken
    BY SentTyped DEF LedgerInv
  <2>2. QED
    BY <1>1, <1>3, <1>4, <2>1 DEF LedgerInv
<1>7. ASSUME NEW e \in 1..Taken'
      PROVE  \E t \in Streams : HasIt(t, e)' /\ \A u \in Streams : HasIt(u, e)' => u = t
  <2>1. CASE e = Taken'
    <3>1. HasIt(s, e)'
      BY <1>3, <1>4, <2>1 DEF HasIt
    <3>2. ASSUME NEW u \in Streams, u # s
          PROVE  ~HasIt(u, e)'
      <4>1. held'[u] < e
        BY <1>3, <1>4, <2>1, <3>2 DEF LedgerInv
      <4>2. \A i \in 1..Len(sent'[u]) : sent'[u][i] \in Nat /\ sent'[u][i] < e
        <5>1. \A i \in 1..Len(sent[u]) : sent[u][i] \in Nat
          BY <3>2, SentTyped
        <5>2. \A i \in 1..Len(sent[u]) : sent[u][i] =< Taken
          BY <3>2 DEF LedgerInv
        <5>3. QED
          BY <1>1, <1>3, <2>1, <5>1, <5>2
      <4>3. held'[u] \in Nat
        BY <1>4, <3>2
      <4>4. QED
        BY <1>3, <2>1, <4>1, <4>2, <4>3 DEF HasIt, Contains
    <3>3. QED
      BY <3>1, <3>2
  <2>2. CASE e # Taken'
    <3>1. e \in 1..Taken
      BY <1>3, <2>2
    <3>2. \A t \in Streams : HasIt(t, e)' <=> HasIt(t, e)
      BY <1>1, <1>3, <1>4, <3>1 DEF HasIt
    <3>3. QED
      BY <3>1, <3>2 DEF LedgerInv
  <2>3. QED
    BY <2>1, <2>2
<1>8. QED
  BY <1>5, <1>6, <1>7 DEF LedgerInv

LEMMA WriteKeepsLedger ==
  ASSUME TypeOK, TypeOK', HeldInv, LedgerInv, NEW s \in Streams, Write(s)
  PROVE  LedgerInv'
<1>1. /\ published \in Nat /\ Len(channel) \in Nat
      /\ published' = published /\ channel' = channel
      /\ held[s] \in Nat \ {0} /\ held \in [Streams -> Nat]
  BY DEF TypeOK, Write, HeldInv, job
<1>2. Taken' = Taken /\ Taken \in Nat
  BY <1>1 DEF Taken, LedgerInv
<1>3. /\ held' = [held EXCEPT ![s] = 0]
      /\ sent' = [sent EXCEPT ![s] = Append(@, held[s])]
      /\ \A t \in Streams : sent[t] \in Seq(Nat)
      /\ DOMAIN sent = Streams
  BY DEF Write, TypeOK
<1>4. \A t \in Streams \ {s} : sent'[t] = sent[t] /\ held'[t] = held[t]
  BY <1>1, <1>3
<1>5. held'[s] = 0 /\ sent'[s] = Append(sent[s], held[s])
  BY <1>1, <1>3
<1>6. /\ Len(sent'[s]) = Len(sent[s]) + 1 /\ Len(sent[s]) \in Nat
      /\ \A i \in 1..Len(sent[s]) : sent'[s][i] = sent[s][i]
      /\ sent'[s][Len(sent[s]) + 1] = held[s]
      /\ DOMAIN sent'[s] = 1..Len(sent'[s]) /\ DOMAIN sent[s] = 1..Len(sent[s])
      /\ \A i \in 1..Len(sent[s]) : sent[s][i] \in Nat
  BY <1>1, <1>3, <1>5, AppendProperties
<1>7. ASSUME NEW t \in Streams
      PROVE  /\ held'[t] =< Taken'
             /\ \A i \in 1..Len(sent'[t]) :
                  sent'[t][i] =< Taken' /\ (held'[t] # 0 => sent'[t][i] < held'[t])
             /\ Increasing(sent'[t])
  <2>1. CASE t # s
    BY <1>2, <1>4, <2>1 DEF LedgerInv
  <2>2. CASE t = s
    <3>1. held'[s] =< Taken' /\ \A i \in 1..Len(sent'[s]) : sent'[s][i] =< Taken'
      BY <1>1, <1>2, <1>5, <1>6 DEF LedgerInv
    <3>2. Increasing(sent'[s])
      <4>1. \A i \in 1..Len(sent[s]) : sent[s][i] < held[s]
        BY <1>1 DEF LedgerInv
      <4>2. \A i, j \in 1..Len(sent[s]) : i < j => sent[s][i] < sent[s][j]
        BY <1>6 DEF LedgerInv, Increasing
      <4>3. QED
        <5> SUFFICES ASSUME NEW i \in 1..Len(sent'[s]), NEW j \in 1..Len(sent'[s]), i < j
                     PROVE  sent'[s][i] < sent'[s][j]
          BY <1>6 DEF Increasing
        <5>1. i \in 1..Len(sent[s]) /\ sent'[s][i] = sent[s][i]
          BY <1>6
        <5>2. CASE j = Len(sent[s]) + 1
          BY <1>6, <4>1, <5>1, <5>2
        <5>3. CASE j # Len(sent[s]) + 1
          BY <1>6, <4>2, <5>1, <5>3
        <5>4. QED
          BY <5>2, <5>3
    <3>3. QED
      BY <1>5, <2>2, <3>1, <3>2
  <2>3. QED
    BY <2>1, <2>2
<1>8. ASSUME NEW t \in Streams, NEW e \in 1..Taken
      PROVE  HasIt(t, e)' <=> HasIt(t, e)
  <2>1. CASE t # s
    BY <1>4, <2>1 DEF HasIt
  <2>2. CASE t = s
    <3>1. Contains(sent'[s], e) <=> Contains(sent[s], e) \/ held[s] = e
      <4>1. Contains(Append(sent[s], held[s]), e) <=> Contains(sent[s], e) \/ held[s] = e
        BY <1>1, <1>3, ContainsAppend
      <4>2. QED
        BY <1>5, <4>1
    <3>2. held'[s] # e
      BY <1>5
    <3>3. QED
      BY <2>2, <3>1, <3>2 DEF HasIt
  <2>3. QED
    BY <2>1, <2>2
<1>9. QED
  BY <1>1, <1>2, <1>7, <1>8 DEF LedgerInv

LEMMA NextLedger ==
  TypeOK /\ HeldInv /\ LedgerInv /\ [Next]_vars /\ TypeOK' => LedgerInv'
<1> SUFFICES ASSUME TypeOK, HeldInv, LedgerInv, [Next]_vars, TypeOK'
             PROVE  LedgerInv'
  OBVIOUS
<1>1. ASSUME UNCHANGED <<published, channel, held, sent>>
      PROVE  LedgerInv'
  BY <1>1 DEF LedgerInv, Taken, HasIt
<1>2. CASE Publish
  BY <1>2, PutKeepsLedger DEF Publish, progress
<1>3. CASE Conclude
  BY <1>1, <1>3, PutKeepsLedger DEF Conclude, progress
<1>4. QED
  BY <1>1, <1>2, <1>3, ReadKeepsLedger, WriteKeepsLedger, Steps DEF Elsewhere

LEMMA InitLedger == Init => LedgerInv
BY DEF Init, LedgerInv, Taken, HasIt, Increasing

LEMMA LedgerAccounts == TypeOK /\ HeldInv /\ LedgerInv => EventsAccountedFor
<1> SUFFICES ASSUME TypeOK, HeldInv, LedgerInv
             PROVE  EventsAccountedFor
  OBVIOUS
<1>1. /\ published \in Nat /\ Len(channel) \in Nat /\ DOMAIN channel = 1..Len(channel)
      /\ Taken \in Nat /\ Taken + Len(channel) = published
  BY DEF TypeOK, LedgerInv, Taken
<1>2. ASSUME NEW e \in 1..published
      PROVE  \E p \in Places(e) : Places(e) = {p}
  <2>1. CASE e \in 1..Taken
    <3>1. {j \in DOMAIN channel : channel[j] = e} = {}
      BY <1>1, <2>1 DEF LedgerInv
    <3>2. PICK s \in Streams : HasIt(s, e) /\ \A t \in Streams : HasIt(t, e) => t = s
      BY <2>1 DEF LedgerInv
    <3>3. ~(held[s] = e /\ Contains(sent[s], e))
      <4>1. \A i \in 1..Len(sent[s]) : held[s] # 0 => sent[s][i] < held[s]
        BY DEF LedgerInv
      <4>2. QED
        <5> SUFFICES ASSUME held[s] = e, NEW i \in 1..Len(sent[s]), sent[s][i] = e
                     PROVE  FALSE
          BY DEF Contains
        <5>1. e < e /\ e \in Nat
          BY <1>1, <2>1, <4>1
        <5>2. QED
          BY <5>1
    <3>4. CASE held[s] = e
      <4>1. {t \in Streams : held[t] = e} = {s} /\ {t \in Streams : Contains(sent[t], e)} = {}
        BY <3>2, <3>3, <3>4 DEF HasIt
      <4>2. Places(e) = {<<"held", s>>}
        BY <3>1, <4>1 DEF Places
      <4>3. QED
        BY <4>2
    <3>5. CASE held[s] # e
      <4>1. {t \in Streams : held[t] = e} = {} /\ {t \in Streams : Contains(sent[t], e)} = {s}
        BY <3>2, <3>5 DEF HasIt
      <4>2. Places(e) = {<<"sent", s>>}
        BY <3>1, <4>1 DEF Places
      <4>3. QED
        BY <4>2
    <3>6. QED
      BY <3>4, <3>5
  <2>2. CASE e > Taken
    <3>1. {j \in DOMAIN channel : channel[j] = e} = {e - Taken}
      <4>1. /\ DOMAIN channel = 1..Len(channel)
            /\ \A j \in 1..Len(channel) : channel[j] = Taken + j
        BY <1>1 DEF LedgerInv
      <4>2. /\ e \in Int /\ Taken \in Int
            /\ e - Taken \in 1..Len(channel)
        BY <1>1, <2>2
      <4>3. \A j \in 1..Len(channel) : channel[j] = e <=> j = e - Taken
        BY <4>1, <4>2
      <4>4. QED
        BY <4>1, <4>2, <4>3
    <3>2. \A s \in Streams : held[s] # e
      BY <1>1, <2>2 DEF LedgerInv, TypeOK
    <3>3. \A s \in Streams : ~Contains(sent[s], e)
      <4>1. \A s \in Streams : \A i \in 1..Len(sent[s]) : sent[s][i] =< Taken
        BY DEF LedgerInv
      <4>2. QED
        BY <1>1, <2>2, <4>1 DEF Contains
    <3>4. {s \in Streams : held[s] = e} = {} /\ {s \in Streams : Contains(sent[s], e)} = {}
      BY <3>2, <3>3
    <3>5. Places(e) = {<<"channel", e - Taken>>}
      BY <3>1, <3>4 DEF Places
    <3>6. QED
      BY <3>5
  <2>3. QED
    BY <1>1, <2>1, <2>2
<1>3. QED
  BY <1>2 DEF EventsAccountedFor, HeldInv, LedgerInv

(* However many connections of StreamProgress compete for the channel of a *)
(* job, an event waits there, or exactly one of them has it; each sends    *)
(* its events in the order of their publication; and one that is not sent  *)
(* after it was read is being sent, or was on a connection broken off or   *)
(* of a job cancelled meanwhile.                                           *)
THEOREM EventsAreAccountedFor == Spec => []EventsAccountedFor
<1>1. Init => LedgerInv
  BY InitLedger
<1>2. StreamInv /\ StreamInv' /\ LedgerInv /\ [Next]_vars => LedgerInv'
  BY NextLedger DEF StreamInv
<1>3. StreamInv /\ LedgerInv => EventsAccountedFor
  BY LedgerAccounts DEF StreamInv
<1>4. Spec => []StreamInv
  BY StreamTyped, PTL DEF StreamInv
<1>5. QED
  BY <1>1, <1>2, <1>3, <1>4, PTL DEF Spec

-----------------------------------------------------------------------------
(* The producer ends with the terminal event, which completes the stream   *)
(* that sends it.                                                          *)
TerminalInv ==
  /\ terminal # 0 => closed /\ terminal = published
  /\ TerminalEndsStream

LEMMA PutKeepsTerminal ==
  ASSUME TypeOK, TerminalInv, ~closed, published' = published + 1,
         terminal' \in {0, published'}, terminal' # 0 => closed',
         sent' = sent, \A s \in Streams : pc'[s] = "complete" <=> pc[s] = "complete"
  PROVE  TerminalInv'
<1>1. terminal = 0 /\ \A s \in Streams : pc'[s] # "complete"
  BY DEF TerminalInv, TerminalEndsStream
<1>2. ASSUME NEW s \in Streams
      PROVE  ~Contains(sent[s], published')
  <2>1. \A i \in 1..Len(sent[s]) : sent[s][i] \in 1..published
    BY SentTyped
  <2>2. published \in Nat
    BY DEF TypeOK
  <2>3. QED
    BY <2>1, <2>2 DEF Contains
<1>3. QED
  BY <1>1, <1>2 DEF TerminalInv, TerminalEndsStream

LEMMA WriteKeepsTerminal ==
  ASSUME TypeOK, HeldInv, TerminalInv, NEW s \in Streams, Write(s)
  PROVE  TerminalInv'
<1>1. UNCHANGED <<published, terminal, closed>>
  BY DEF Write, job
<1>2. \A t \in Streams \ {s} : sent'[t] = sent[t] /\ pc'[t] = pc[t]
  BY DEF Write, GoTo, TypeOK
<1>3. /\ pc[s] = "writing" /\ held[s] # 0 /\ sent'[s] = Append(sent[s], held[s])
      /\ pc'[s] = IF held[s] = terminal THEN "complete" ELSE "loop"
  BY DEF Write, GoTo, TypeOK, HeldInv
<1>4. ~(terminal # 0 /\ Contains(sent[s], terminal))
  BY <1>3 DEF TerminalInv, TerminalEndsStream
<1>5. Contains(sent'[s], terminal) <=> Contains(sent[s], terminal) \/ held[s] = terminal
  <2>1. sent[s] \in Seq(Nat) /\ held[s] \in Nat
    BY SentTyped
  <2>2. Contains(Append(sent[s], held[s]), terminal)
          <=> Contains(sent[s], terminal) \/ held[s] = terminal
    BY <2>1, ContainsAppend
  <2>3. QED
    BY <1>3, <2>2
<1>6. pc'[s] = "complete" <=> terminal # 0 /\ Contains(sent'[s], terminal)
  BY <1>3, <1>4, <1>5
<1>7. QED
  BY <1>1, <1>2, <1>6 DEF TerminalInv, TerminalEndsStream

LEMMA NextTerminal ==
  TypeOK /\ HeldInv /\ TerminalInv /\ [Next]_vars => TerminalInv'
<1> SUFFICES ASSUME TypeOK, HeldInv, TerminalInv, [Next]_vars
             PROVE  TerminalInv'
  OBVIOUS
<1>a. ASSUME UNCHANGED <<published, terminal, closed, sent>>,
             \A s \in Streams : pc'[s] = "complete" <=> pc[s] = "complete"
      PROVE  TerminalInv'
  BY <1>a DEF TerminalInv, TerminalEndsStream
<1>b. ASSUME WakeReaders
      PROVE  \A s \in Streams : pc'[s] = "complete" <=> pc[s] = "complete"
  BY <1>b DEF WakeReaders, TypeOK
<1>1. CASE Publish
  <2>1. terminal = 0
    BY <1>1 DEF Publish, TerminalInv
  <2>2. QED
    BY <1>1, <1>b, <2>1, PutKeepsTerminal DEF Publish, progress
<1>2. CASE Conclude
  <2>1. CASE UNCHANGED <<published, terminal, channel>>
    <3>1. terminal = 0 /\ terminal' = 0 /\ sent' = sent
      BY <1>2, <2>1 DEF Conclude, TerminalInv, progress
    <3>2. \A s \in Streams : pc'[s] = "complete" <=> pc[s] = "complete"
      BY <1>2, <1>b DEF Conclude
    <3>3. QED
      BY <3>1, <3>2 DEF TerminalInv, TerminalEndsStream
  <2>2. CASE published' = published + 1 /\ terminal' = published'
    BY <1>2, <1>b, <2>2, PutKeepsTerminal DEF Conclude, progress
  <2>3. QED
    BY <1>2, <2>1, <2>2 DEF Conclude
<1>3. ASSUME NEW s \in Streams, Read(s)
      PROVE  TerminalInv'
  BY <1>3, <1>a DEF Read, GoTo, TypeOK
<1>4. QED
  BY <1>1, <1>2, <1>3, <1>a, WriteKeepsTerminal, Steps DEF Elsewhere

(* A connection of StreamProgress ends as complete exactly when it has     *)
(* sent the terminal event, however many compete for it.                   *)
THEOREM TerminalEndsItsStream == Spec => []TerminalEndsStream
<1>1. Init => TerminalInv
  BY DEF Init, TerminalInv, TerminalEndsStream
<1>2. StreamInv /\ TerminalInv /\ [Next]_vars => TerminalInv'
  BY NextTerminal DEF StreamInv
<1>3. TerminalInv => TerminalEndsStream
  BY DEF TerminalInv
<1>4. Spec => []StreamInv
  BY StreamTyped, PTL DEF StreamInv
<1>5. QED
  BY <1>1, <1>2, <1>3, <1>4, PTL DEF Spec

-----------------------------------------------------------------------------
(* A record leaves the store only when its job is over for long enough,    *)
(* and its token source is disposed only after that.                       *)
RecordInv ==
  /\ ~stored => over /\ age > Retention
  /\ LiveJobsAreServed

LEMMA NextRecord == TypeOK /\ RecordInv /\ [Next]_vars => RecordInv'
<1> SUFFICES ASSUME TypeOK, RecordInv, [Next]_vars
             PROVE  RecordInv'
  OBVIOUS
<1>a. age \in Nat /\ Retention \in Nat
  BY StreamAssumption DEF TypeOK
<1>b. ASSUME stored' = stored, over => over', age' \in {age, age + 1},
             \A s \in Owners : pc'[s] \in {"notFound", "broken"} =>
                                 pc[s] \in {"notFound", "broken"} \/ ~stored
      PROVE  RecordInv'
  <2>1. age > Retention => age' > Retention
    BY <1>a, <1>b
  <2>2. QED
    BY <1>b, <2>1 DEF RecordInv, LiveJobsAreServed
<1>c. Owners \subseteq Streams
  BY StreamAssumption
<1>1. CASE Publish \/ Conclude
  BY <1>1, <1>b, <1>c DEF Publish, Conclude, WakeReaders, record, TypeOK
<1>2. CASE CancelJob \/ TimePasses
  BY <1>2, <1>b DEF CancelJob, TimePasses, record
<1>3. CASE SweepRemove
  BY <1>3 DEF SweepRemove, RecordInv, LiveJobsAreServed, job
<1>4. CASE SweepDispose
  BY <1>4, <1>b DEF SweepDispose, job
<1>5. ASSUME NEW s \in Streams, LookUp(s)
      PROVE  RecordInv'
  BY <1>5, <1>b, <1>c DEF LookUp, GoTo, job, record, TypeOK
<1>6. ASSUME NEW s \in Streams, Link(s)
      PROVE  RecordInv'
  BY <1>6, <1>b, <1>c DEF Link, GoTo, job, record, TypeOK
<1>7. ASSUME NEW s \in Streams, Read(s) \/ Write(s)
      PROVE  RecordInv'
  BY <1>7, <1>b, <1>c DEF Read, Write, GoTo, job, record, TypeOK
<1>8. ASSUME NEW s \in Streams, Wait(s) \/ TimerTicks(s)
      PROVE  RecordInv'
  BY <1>8, <1>b, <1>c DEF Wait, TimerTicks, GoTo, job, record, TypeOK
<1>9. ASSUME NEW s \in Streams, Ping(s) \/ Stop(s) \/ Disconnect(s)
      PROVE  RecordInv'
  BY <1>9, <1>b, <1>c DEF Ping, Stop, Disconnect, GoTo, job, record, TypeOK
<1>10. CASE UNCHANGED vars
  BY <1>10, <1>b DEF vars, job, record
<1>11. QED
  BY <1>1, <1>2, <1>3, <1>4, <1>5, <1>6, <1>7, <1>8, <1>9, <1>10 DEF Next, Serve

(* The sweep of JobSweepService takes nothing from the owner of a job that *)
(* runs or whose retention is not over: no 404 and no disposed token       *)
(* source, wherever the two steps of the sweep fall.                       *)
THEOREM LiveJobsServed == Spec => []LiveJobsAreServed
<1>1. Init => RecordInv
  BY StreamAssumption DEF Init, RecordInv, LiveJobsAreServed
<1>2. StreamInv /\ RecordInv /\ [Next]_vars => RecordInv'
  BY NextRecord DEF StreamInv
<1>3. RecordInv => LiveJobsAreServed
  BY DEF RecordInv
<1>4. Spec => []StreamInv
  BY StreamTyped, PTL DEF StreamInv
<1>5. QED
  BY <1>1, <1>2, <1>3, <1>4, PTL DEF Spec
=============================================================================
