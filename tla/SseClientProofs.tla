-------------------------- MODULE SseClientProofs ---------------------------
(***************************************************************************)
(* For any number of jobs and events, any messages and any network: what   *)
(* the reader of an SseClient is given is the feed of module EventFeed,    *)
(* without gaps, and a terminal event is its last word; and the client     *)
(* closes every connection whose id it knows.                              *)
(***************************************************************************)
EXTENDS SseClient, SequenceTheorems, TLAPS

TypeInv ==
  /\ wire \in [Opens -> Seq(Message \cup {Error})]
  /\ sent \in [Opens -> 0..MaxEvents]
  /\ channel \in Seq(Event) /\ received \in Seq(Event)
  /\ completed \in {"no", "ended", "error"}
  /\ reader \in {"idle", "reading", "ended", "failed"}

(* A terminal event is the last one, and with it the channel ended without *)
(* an error; only an error makes a reader fail.                            *)
FinalInv ==
  /\ \A i \in 1..Len(Given) :
       Given[i].kind = "terminal" => i = Len(Given) /\ completed = "ended"
  /\ reader = "failed" => completed = "error"

(* What OnMessage writes.                                                  *)
EventOf(m) == [m EXCEPT !.kind = IF @ = "progress" THEN @ ELSE "terminal"]

LEMMA EventOfMessage ==
  ASSUME ClientAssumption, NEW m \in Message
  PROVE  /\ EventOf(m) \in Event
         /\ EventOf(m).kind = "terminal" <=> m.kind # "progress"
BY DEF ClientAssumption, Message, Event, EventOf

LEMMA InitTyped == ClientAssumption /\ Init => TypeInv
<1> SUFFICES ASSUME ClientAssumption, Init
             PROVE  TypeInv
  OBVIOUS
<1>1. \A S : <<>> \in Seq(S)
  OBVIOUS
<1>2. wire \in [Opens -> Seq(Message \cup {Error})]
  BY <1>1 DEF Init
<1>3. sent \in [Opens -> 0..MaxEvents]
  BY DEF Init, ClientAssumption
<1>4. QED
  BY <1>1, <1>2, <1>3 DEF Init, TypeInv

(* The head of a wire that is not empty.                                   *)
LEMMA HeadOfWire ==
  ASSUME TypeInv, NEW c \in Opens, wire[c] # <<>>
  PROVE  /\ Head(wire[c]) \in Message \cup {Error}
         /\ Tail(wire[c]) \in Seq(Message \cup {Error})
BY HeadTailProperties DEF TypeInv

LEMMA NextTyped == ClientAssumption /\ TypeInv /\ [Next]_vars => TypeInv'
<1> SUFFICES ASSUME ClientAssumption, TypeInv, [Next]_vars
             PROVE  TypeInv'
  OBVIOUS
<1> DEFINE Item == Message \cup {Error}
<1>a. Error \in Item
  OBVIOUS
<1>1. ASSUME NEW c \in Opens, OpenAsync(c) \/ OpenReturns(c) \/ OpenCancelled(c)
      PROVE  TypeInv'
  BY <1>1 DEF TypeInv, OpenAsync, OpenReturns, OpenCancelled, server, reading
<1>2. CASE ReadAllAsync \/ CancelRead
  BY <1>2 DEF TypeInv, ReadAllAsync, CancelRead, server
<1>3. CASE Read
  <2>1. channel' \in Seq(Event) /\ received' \in Seq(Event)
    <3>1. CASE channel = <<>>
      BY <1>3, <3>1 DEF Read, TypeInv
    <3>2. CASE channel # <<>>
      <4>1. Head(channel) \in Event /\ Tail(channel) \in Seq(Event)
        BY <3>2, HeadTailProperties DEF TypeInv
      <4>2. Append(received, Head(channel)) \in Seq(Event)
        BY <4>1, AppendProperties DEF TypeInv
      <4>3. channel' = Tail(channel) /\ received' = Append(received, Head(channel))
        BY <1>3, <3>2 DEF Read
      <4>4. QED
        BY <4>1, <4>2, <4>3
    <3>3. QED
      BY <3>1, <3>2
  <2>2. QED
    BY <1>3, <2>1 DEF Read, TypeInv, server
<1>4. CASE DisposeAsync
  <2>1. wire' \in [Opens -> Seq(Item)]
    <3>1. <<>> \in Seq(Item)
      OBVIOUS
    <3>2. wire' = wire \/ wire' = [wire EXCEPT ![connectionId] = <<>>]
      BY <1>4 DEF DisposeAsync, Close
    <3>3. QED
      BY <3>1, <3>2 DEF TypeInv
  <2>2. QED
    BY <1>4, <2>1 DEF DisposeAsync, TypeInv, server, reading
<1>5. CASE DisposeReturns
  BY <1>5 DEF DisposeReturns, TryComplete, TypeInv, server, reading
<1>6. ASSUME NEW c \in Opens, Deliver(c)
      PROVE  TypeInv'
  <2>1. Head(wire[c]) \in Item /\ Tail(wire[c]) \in Seq(Item)
    BY <1>6, HeadOfWire DEF Deliver
  <2>2. wire' \in [Opens -> Seq(Item)]
    BY <1>6, <2>1 DEF Deliver, TypeInv
  <2>3. channel' \in Seq(Event) /\ completed' \in {"no", "ended", "error"}
    <3>1. CASE c \notin refs
      BY <1>6, <3>1 DEF Deliver, TypeInv
    <3>2. CASE c \in refs /\ Head(wire[c]) = Error
      BY <1>6, <3>2 DEF Deliver, OnError, TryComplete, TypeInv
    <3>3. CASE c \in refs /\ Head(wire[c]) # Error
      <4>1. Head(wire[c]) \in Message /\ OnMessage(Head(wire[c]))
        BY <1>6, <2>1, <3>3 DEF Deliver
      <4>2. EventOf(Head(wire[c])) \in Event
        BY <4>1, EventOfMessage
      <4>3. QED
        BY <4>1, <4>2, AppendProperties DEF OnMessage, TryComplete, TypeInv, EventOf
    <3>4. QED
      BY <3>1, <3>2, <3>3
  <2>4. QED
    BY <1>6, <2>2, <2>3 DEF Deliver, TypeInv, server, reading
<1>7. ASSUME NEW c \in Opens, Accept(c)
      PROVE  TypeInv'
  BY <1>7 DEF Accept, TypeInv, server, reading
<1>8. ASSUME NEW c \in Opens, Refuse(c) \/ ResponseEnds(c)
      PROVE  TypeInv'
  <2>1. Append(wire[c], Error) \in Seq(Item)
    BY <1>a, AppendProperties DEF TypeInv
  <2>2. wire' \in [Opens -> Seq(Item)]
    BY <1>8, <2>1 DEF Refuse, ResponseEnds, TypeInv
  <2>3. QED
    BY <1>8, <2>2 DEF Refuse, ResponseEnds, TypeInv, server, reading
<1>9. ASSUME NEW c \in Opens, Drop(c)
      PROVE  TypeInv'
  <2>1. PICK n \in 0..Len(wire[c]) : wire' = [wire EXCEPT ![c] = Append(SubSeq(@, 1, n), Error)]
    BY <1>9 DEF Drop
  <2>2. SubSeq(wire[c], 1, n) \in Seq(Item)
    BY <2>1 DEF TypeInv
  <2>3. Append(SubSeq(wire[c], 1, n), Error) \in Seq(Item)
    BY <1>a, <2>2, AppendProperties
  <2>4. wire' \in [Opens -> Seq(Item)]
    BY <2>1, <2>3 DEF TypeInv
  <2>5. QED
    BY <1>9, <2>4 DEF Drop, TypeInv, server, reading
<1>10. ASSUME NEW c \in Opens, NEW kind \in Kinds, Send(c, kind)
       PROVE  TypeInv'
  <2>1. sent' \in [Opens -> 0..MaxEvents] /\ sent'[c] \in 1..MaxEvents
    BY <1>10 DEF Send, TypeInv, ClientAssumption
  <2>2. [job |-> c, number |-> sent'[c], kind |-> kind] \in Item
    BY <2>1 DEF Message
  <2>3. Append(wire[c], [job |-> c, number |-> sent'[c], kind |-> kind]) \in Seq(Item)
    BY <2>2, AppendProperties DEF TypeInv
  <2>4. wire' \in [Opens -> Seq(Item)]
    BY <1>10, <2>3 DEF Send, TypeInv
  <2>5. QED
    BY <1>10, <2>1, <2>4 DEF Send, TypeInv, reading
<1>11. CASE UNCHANGED vars
  BY <1>11 DEF vars, TypeInv
<1>12. QED
  BY <1>1, <1>2, <1>3, <1>4, <1>5, <1>6, <1>7, <1>8, <1>9, <1>10, <1>11
     DEF Next, Client, Environment

-----------------------------------------------------------------------------
(* Reading moves an event from one side of Given to the other, a message   *)
(* appends to it.                                                          *)
LEMMA ReadKeepsGiven ==
  ASSUME NEW S, NEW r \in Seq(S), NEW q \in Seq(S), q # <<>>
  PROVE  Append(r, Head(q)) \o Tail(q) = r \o q
<1>1. /\ Head(q) \in S /\ Tail(q) \in Seq(S) /\ Len(Tail(q)) = Len(q) - 1
      /\ \A i \in 1..Len(Tail(q)) : Tail(q)[i] = q[i + 1]
      /\ Len(q) \in Nat \ {0} /\ Head(q) = q[1] /\ Len(r) \in Nat
  BY HeadTailProperties, EmptySeq
<1>2. /\ Append(r, Head(q)) \in Seq(S) /\ Len(Append(r, Head(q))) = Len(r) + 1
      /\ \A i \in 1..Len(r) : Append(r, Head(q))[i] = r[i]
      /\ Append(r, Head(q))[Len(r) + 1] = q[1]
  BY <1>1, AppendProperties
<1> DEFINE a == Append(r, Head(q)) \o Tail(q)
           b == r \o q
<1>3. /\ a \in Seq(S) /\ Len(a) = Len(r) + Len(q)
      /\ \A i \in 1..(Len(r) + Len(q)) :
           a[i] = IF i =< Len(r) + 1 THEN Append(r, Head(q))[i] ELSE Tail(q)[i - (Len(r) + 1)]
  <2>1. /\ a \in Seq(S) /\ Len(a) = (Len(r) + 1) + (Len(q) - 1)
        /\ \A i \in 1..((Len(r) + 1) + (Len(q) - 1)) :
             a[i] = IF i =< Len(r) + 1 THEN Append(r, Head(q))[i] ELSE Tail(q)[i - (Len(r) + 1)]
    BY <1>1, <1>2, ConcatProperties
  <2>2. (Len(r) + 1) + (Len(q) - 1) = Len(r) + Len(q)
    BY <1>1
  <2>3. QED
    BY <2>1, <2>2
<1>4. /\ b \in Seq(S) /\ Len(b) = Len(r) + Len(q)
      /\ \A i \in 1..(Len(r) + Len(q)) : b[i] = IF i =< Len(r) THEN r[i] ELSE q[i - Len(r)]
  BY ConcatProperties
<1> HIDE DEF a, b
<1>5. ASSUME NEW i \in 1..(Len(r) + Len(q))
      PROVE  a[i] = b[i]
  <2>1. CASE i =< Len(r)
    BY <2>1, <1>1, <1>2, <1>3, <1>4
  <2>2. CASE i = Len(r) + 1
    BY <2>2, <1>1, <1>2, <1>3, <1>4
  <2>3. CASE i > Len(r) + 1
    <3>1. /\ a[i] = Tail(q)[i - (Len(r) + 1)] /\ b[i] = q[i - Len(r)]
      BY <2>3, <1>1, <1>3, <1>4
    <3>2. /\ i - (Len(r) + 1) \in 1..Len(Tail(q))
          /\ (i - (Len(r) + 1)) + 1 = i - Len(r)
      BY <2>3, <1>1
    <3>3. QED
      BY <3>1, <3>2, <1>1
  <2>4. QED
    BY <2>1, <2>2, <2>3, <1>1
<1>6. a = b
  BY <1>1, <1>3, <1>4, <1>5, SeqEqual
<1>7. QED
  BY <1>6 DEF a, b

LEMMA WriteAppends ==
  ASSUME NEW S, NEW r \in Seq(S), NEW q \in Seq(S), NEW e \in S
  PROVE  r \o Append(q, e) = Append(r \o q, e)
<1>1. Append(q, e) = q \o <<e>> /\ Append(r \o q, e) = (r \o q) \o <<e>>
  BY ConcatProperties, AppendIsConcat
<1>2. <<e>> \in Seq(S)
  OBVIOUS
<1>3. QED
  BY <1>1, <1>2, ConcatAssociative

TerminalEvents == {e \in Event : e.kind = "terminal"}

LEMMA InitFeeds == Init => Feed!Init
BY DEF Init, Feed!Init, Given

(* Every step of the client, the browser, the network or the server is a   *)
(* step of the feed, or one it does not see.                               *)
LEMMA NextFeeds ==
  ClientAssumption /\ TypeInv /\ [Next]_vars => [Feed!Next]_<<Given, completed>>
<1> SUFFICES ASSUME ClientAssumption, TypeInv, [Next]_vars
             PROVE  [Feed!Next]_<<Given, completed>>
  OBVIOUS
<1>1. CASE UNCHANGED <<channel, received, completed>>
  BY <1>1 DEF Given
<1>2. CASE Read
  <2>1. CASE channel = <<>>
    BY <1>2, <2>1 DEF Read, Given
  <2>2. CASE channel # <<>>
    <3>1. /\ channel' = Tail(channel) /\ received' = Append(received, Head(channel))
          /\ completed' = completed
      BY <1>2, <2>2 DEF Read
    <3>2. Given' = Given
      BY <3>1, <2>2, ReadKeepsGiven DEF Given, TypeInv
    <3>3. QED
      BY <3>1, <3>2
  <2>3. QED
    BY <2>1, <2>2
<1>3. CASE DisposeReturns
  BY <1>3 DEF DisposeReturns, TryComplete, Feed!Next, Feed!End, Given, reading, TypeInv
<1>4. ASSUME NEW c \in Opens, Deliver(c)
      PROVE  [Feed!Next]_<<Given, completed>>
  <2>1. CASE c \notin refs
    BY <1>4, <2>1 DEF Deliver, Given, reading
  <2>2. CASE c \in refs /\ Head(wire[c]) = Error
    BY <1>4, <2>2 DEF Deliver, OnError, TryComplete, Feed!Next, Feed!End, Given, reading
  <2>3. CASE c \in refs /\ Head(wire[c]) # Error
    <3> DEFINE m == Head(wire[c])
    <3>1. m \in Message /\ OnMessage(m) /\ received' = received
      BY <1>4, <2>3, HeadOfWire DEF Deliver, reading
    <3>2. EventOf(m) \in Event /\ (EventOf(m) \in TerminalEvents <=> m.kind # "progress")
      BY <3>1, EventOfMessage DEF TerminalEvents
    <3> HIDE DEF m
    <3>3. CASE m.kind = "malformed" \/ completed # "no"
      BY <3>1, <3>3 DEF OnMessage, TryComplete, Feed!Next, Feed!End, Given, TypeInv
    <3>4. CASE m.kind # "malformed" /\ completed = "no"
      <4>1. channel' = Append(channel, EventOf(m))
        BY <3>1, <3>4 DEF OnMessage, EventOf
      <4>2. Given' = Append(Given, EventOf(m))
        BY <3>1, <3>2, <4>1, WriteAppends DEF Given, TypeInv
      <4>3. completed' = IF EventOf(m) \in TerminalEvents THEN "ended" ELSE "no"
        BY <3>1, <3>2, <3>4 DEF OnMessage, TryComplete
      <4>4. Feed!Give(EventOf(m))
        BY <3>4, <4>2, <4>3 DEF Feed!Give, TerminalEvents
      <4>5. QED
        BY <3>2, <4>4 DEF Feed!Next
    <3>5. QED
      BY <3>3, <3>4
  <2>4. QED
    BY <2>1, <2>2, <2>3
<1>5. ASSUME NEW c \in Opens, OpenAsync(c) \/ OpenReturns(c) \/ OpenCancelled(c)
      PROVE  UNCHANGED <<channel, received, completed>>
  BY <1>5 DEF OpenAsync, OpenReturns, OpenCancelled, reading
<1>6. CASE ReadAllAsync \/ CancelRead \/ DisposeAsync
  BY <1>6, <1>1 DEF ReadAllAsync, CancelRead, DisposeAsync, reading
<1>7. ASSUME NEW c \in Opens, Accept(c) \/ Refuse(c) \/ ResponseEnds(c) \/ Drop(c)
      PROVE  UNCHANGED <<channel, received, completed>>
  BY <1>7 DEF Accept, Refuse, ResponseEnds, Drop, reading
<1>8. ASSUME NEW c \in Opens, NEW kind \in Kinds, Send(c, kind)
      PROVE  UNCHANGED <<channel, received, completed>>
  BY <1>8 DEF Send, reading
<1>9. CASE UNCHANGED vars
  BY <1>9, <1>1 DEF vars
<1>10. QED
  BY <1>1, <1>2, <1>3, <1>4, <1>5, <1>6, <1>7, <1>8, <1>9 DEF Next, Client, Environment

(* What the reader is given is the feed of module EventFeed, whatever the  *)
(* connections, the network and the server do.                             *)
THEOREM ReaderSeesAFeed == Spec => IsAFeed
<1>1. Init => TypeInv /\ Feed!Init
  BY ClientAssumption, InitTyped, InitFeeds
<1>2. TypeInv /\ [Next]_vars => TypeInv' /\ [Feed!Next]_<<Given, completed>>
  BY ClientAssumption, NextTyped, NextFeeds
<1>3. QED
  BY <1>1, <1>2, PTL DEF Spec, IsAFeed, Feed!Spec

-----------------------------------------------------------------------------
LEMMA GivenIsASequence == TypeInv => Given \in Seq(Event)
BY ConcatProperties DEF TypeInv, Given

LEMMA InitFinal == Init => FinalInv
BY DEF Init, FinalInv, Given

(* A step of the feed keeps the terminal event last, and an error is kept. *)
LEMMA FeedKeepsTerminal ==
  ASSUME TypeInv, FinalInv, [Feed!Next]_<<Given, completed>>
  PROVE  /\ \A i \in 1..Len(Given') :
              Given'[i].kind = "terminal" => i = Len(Given') /\ completed' = "ended"
         /\ completed = "error" => completed' = "error"
<1>1. Given \in Seq(Event) /\ Len(Given) \in Nat
  BY GivenIsASequence
<1>2. CASE UNCHANGED <<Given, completed>>
  BY <1>2 DEF FinalInv
<1>3. CASE Feed!End
  BY <1>3 DEF Feed!End, FinalInv
<1>4. ASSUME NEW e \in Event, Feed!Give(e)
      PROVE  /\ \A i \in 1..Len(Given') :
                   Given'[i].kind = "terminal" => i = Len(Given') /\ completed' = "ended"
             /\ completed # "error"
  <2>1. completed = "no" /\ Given' = Append(Given, e)
    BY <1>4 DEF Feed!Give
  <2>2. completed' = IF e.kind = "terminal" THEN "ended" ELSE "no"
    BY <1>4 DEF Feed!Give
  <2>3. /\ Len(Given') = Len(Given) + 1 /\ Given'[Len(Given) + 1] = e
        /\ \A i \in 1..Len(Given) : Given'[i] = Given[i]
    BY <1>1, <2>1, AppendProperties
  <2>4. \A i \in 1..Len(Given) : Given[i].kind # "terminal"
    BY <2>1 DEF FinalInv
  <2>5. QED
    BY <1>1, <2>1, <2>2, <2>3, <2>4
<1>5. QED
  BY <1>2, <1>3, <1>4 DEF Feed!Next

(* A reader fails only on a channel that ended with an error.              *)
LEMMA NextFinal ==
  ClientAssumption /\ TypeInv /\ FinalInv /\ [Next]_vars => FinalInv'
<1> SUFFICES ASSUME ClientAssumption, TypeInv, FinalInv, [Next]_vars
             PROVE  FinalInv'
  OBVIOUS
<1>1. /\ \A i \in 1..Len(Given') :
           Given'[i].kind = "terminal" => i = Len(Given') /\ completed' = "ended"
      /\ completed = "error" => completed' = "error"
  BY NextFeeds, FeedKeepsTerminal
<1>2. reader' = "failed" => reader = "failed" \/ completed = "error"
  <2>1. CASE Read \/ ReadAllAsync \/ CancelRead
    BY <2>1 DEF Read, ReadAllAsync, CancelRead
  <2>2. CASE DisposeAsync \/ DisposeReturns
    BY <2>2 DEF DisposeAsync, DisposeReturns, reading
  <2>3. ASSUME NEW c \in Opens, OpenAsync(c) \/ OpenReturns(c) \/ OpenCancelled(c) \/ Deliver(c)
        PROVE  reader' = reader
    BY <2>3 DEF OpenAsync, OpenReturns, OpenCancelled, Deliver, reading
  <2>4. ASSUME NEW c \in Opens, Accept(c) \/ Refuse(c) \/ ResponseEnds(c) \/ Drop(c)
        PROVE  reader' = reader
    BY <2>4 DEF Accept, Refuse, ResponseEnds, Drop, reading
  <2>5. ASSUME NEW c \in Opens, NEW kind \in Kinds, Send(c, kind)
        PROVE  reader' = reader
    BY <2>5 DEF Send, reading
  <2>6. CASE UNCHANGED vars
    BY <2>6 DEF vars
  <2>7. QED
    BY <2>1, <2>2, <2>3, <2>4, <2>5, <2>6 DEF Next, Client, Environment
<1>3. QED
  BY <1>1, <1>2 DEF FinalInv

(* Nothing is given after a terminal event, and a stream that had one does *)
(* not fail: not by the error that follows the end of the response, nor by *)
(* any other connection of the tab.                                        *)
THEOREM TerminalStaysFinal == Spec => []TerminalIsFinal
<1>1. Init => TypeInv /\ FinalInv
  BY ClientAssumption, InitTyped, InitFinal
<1>2. TypeInv /\ FinalInv /\ [Next]_vars => TypeInv' /\ FinalInv'
  BY ClientAssumption, NextTyped, NextFinal
<1>3. TypeInv /\ FinalInv => TerminalIsFinal
  <2> SUFFICES ASSUME TypeInv, FinalInv, NEW i \in DOMAIN Given, Given[i].kind = "terminal"
               PROVE  i = Len(Given) /\ reader # "failed"
    BY DEF TerminalIsFinal
  <2>1. DOMAIN Given = 1..Len(Given)
    BY GivenIsASequence
  <2>2. QED
    BY <2>1 DEF FinalInv
<1>4. QED
  BY <1>1, <1>2, <1>3, PTL DEF Spec

-----------------------------------------------------------------------------
(* The rest of the client's state, and the connections it knows.           *)
RestInv ==
  /\ status \in [Opens -> {"none", "opening", "connecting", "open", "refused", "closed"}]
  /\ connectionId \in Opens \cup {0} /\ selfRef \in Opens \cup {0}
  /\ refs \subseteq Opens /\ overlooked \subseteq Opens
  /\ disposing \in {"no", "closing", "done"}

FlagInv == finished \in [Opens -> BOOLEAN]

LEMMA NextRest == RestInv /\ [Next]_vars => RestInv'
<1> SUFFICES ASSUME RestInv, [Next]_vars
             PROVE  RestInv'
  OBVIOUS
<1>1. ASSUME NEW c \in Opens, OpenAsync(c) \/ OpenReturns(c) \/ OpenCancelled(c)
      PROVE  RestInv'
  BY <1>1 DEF RestInv, OpenAsync, OpenReturns, OpenCancelled, SetStatus
<1>2. CASE ReadAllAsync \/ CancelRead \/ Read
  BY <1>2 DEF RestInv, ReadAllAsync, CancelRead, Read, ids
<1>3. CASE DisposeAsync
  BY <1>3 DEF RestInv, DisposeAsync, Close, SetStatus, ids
<1>4. CASE DisposeReturns
  BY <1>4 DEF RestInv, DisposeReturns
<1>5. ASSUME NEW c \in Opens, Deliver(c)
      PROVE  RestInv'
  BY <1>5 DEF RestInv, Deliver, ids
<1>6. ASSUME NEW c \in Opens, Accept(c) \/ Refuse(c) \/ ResponseEnds(c) \/ Drop(c)
      PROVE  RestInv'
  BY <1>6 DEF RestInv, Accept, Refuse, ResponseEnds, Drop, SetStatus, ids
<1>7. ASSUME NEW c \in Opens, NEW kind \in Kinds, Send(c, kind)
      PROVE  RestInv'
  BY <1>7 DEF RestInv, Send, ids
<1>8. CASE UNCHANGED vars
  BY <1>8 DEF RestInv, vars, ids
<1>9. QED
  BY <1>1, <1>2, <1>3, <1>4, <1>5, <1>6, <1>7, <1>8 DEF Next, Client, Environment

LEMMA NextFlags == FlagInv /\ [Next]_vars => FlagInv'
<1> SUFFICES ASSUME FlagInv, [Next]_vars
             PROVE  FlagInv'
  OBVIOUS
<1>1. ASSUME NEW c \in Opens, NEW kind \in Kinds, Send(c, kind)
      PROVE  FlagInv'
  BY <1>1 DEF FlagInv, Send
<1>2. ASSUME NEW c \in Opens, OpenAsync(c) \/ OpenReturns(c) \/ OpenCancelled(c) \/ Deliver(c)
      PROVE  FlagInv'
  BY <1>2 DEF FlagInv, OpenAsync, OpenReturns, OpenCancelled, Deliver, server
<1>3. ASSUME NEW c \in Opens, Accept(c) \/ Refuse(c) \/ ResponseEnds(c) \/ Drop(c)
      PROVE  FlagInv'
  BY <1>3 DEF FlagInv, Accept, Refuse, ResponseEnds, Drop, server
<1>4. CASE ReadAllAsync \/ CancelRead \/ Read \/ DisposeAsync \/ DisposeReturns
  BY <1>4 DEF FlagInv, ReadAllAsync, CancelRead, Read, DisposeAsync, DisposeReturns, server
<1>5. CASE UNCHANGED vars
  BY <1>5 DEF FlagInv, vars, server
<1>6. QED
  BY <1>1, <1>2, <1>3, <1>4, <1>5 DEF Next, Client, Environment

(* Connections, server and reader of SseClient stay of their types.        *)
THEOREM ClientTyped == Spec => []TypeOK
<1>1. Init => TypeInv /\ RestInv /\ FlagInv
  BY ClientAssumption, InitTyped DEF Init, RestInv, FlagInv
<1>2. TypeInv /\ RestInv /\ FlagInv /\ [Next]_vars => TypeInv' /\ RestInv' /\ FlagInv'
  BY ClientAssumption, NextTyped, NextRest, NextFlags
<1>3. TypeInv /\ RestInv /\ FlagInv => TypeOK
  BY DEF TypeInv, RestInv, FlagInv, TypeOK
<1>4. QED
  BY <1>1, <1>2, <1>3, PTL DEF Spec

-----------------------------------------------------------------------------
(* A connection that is not known to be lost is the one DisposeAsync will  *)
(* close.                                                                  *)
KnownInv ==
  \A c \in Opens :
    status[c] \in {"connecting", "open"} =>
      c \in overlooked \/ (disposing = "no" /\ c = connectionId)

LEMMA NextKnown == RestInv /\ KnownInv /\ [Next]_vars => KnownInv'
<1> SUFFICES ASSUME RestInv, KnownInv, [Next]_vars
             PROVE  KnownInv'
  OBVIOUS
<1>1. ASSUME NEW c \in Opens, OpenAsync(c) \/ OpenReturns(c) \/ OpenCancelled(c)
      PROVE  KnownInv'
  <2>1. CASE OpenAsync(c)
    BY <2>1 DEF RestInv, KnownInv, OpenAsync, SetStatus
  <2>2. CASE OpenReturns(c)
    <3>1. \A b \in Opens \ {c} : status'[b] = status[b]
      BY <2>2 DEF RestInv, OpenReturns, SetStatus
    <3>2. overlooked \subseteq overlooked' /\ connectionId' = c /\ disposing' = disposing
      BY <2>2 DEF OpenReturns
    <3>3. \A b \in Opens : b = connectionId => b \in overlooked'
      BY <2>2 DEF OpenReturns, Opens
    <3>4. disposing # "no" => c \in overlooked'
      BY <2>2 DEF OpenReturns
    <3>5. QED
      BY <3>1, <3>2, <3>3, <3>4 DEF KnownInv
  <2>3. CASE OpenCancelled(c)
    BY <2>3 DEF RestInv, KnownInv, OpenCancelled, SetStatus
  <2>4. QED
    BY <1>1, <2>1, <2>2, <2>3
<1>2. CASE ReadAllAsync \/ CancelRead \/ Read
  BY <1>2 DEF KnownInv, ReadAllAsync, CancelRead, Read, ids
<1>3. CASE DisposeAsync
  <2>1. CASE connectionId = 0
    BY <1>3, <2>1 DEF KnownInv, DisposeAsync, ids, Opens
  <2>2. CASE connectionId # 0
    BY <1>3, <2>2 DEF RestInv, KnownInv, DisposeAsync, Close, SetStatus, ids
  <2>3. QED
    BY <2>1, <2>2
<1>4. CASE DisposeReturns
  BY <1>4 DEF KnownInv, DisposeReturns
<1>5. ASSUME NEW c \in Opens, Deliver(c)
      PROVE  KnownInv'
  BY <1>5 DEF KnownInv, Deliver, ids
<1>6. ASSUME NEW c \in Opens, Accept(c) \/ Refuse(c) \/ ResponseEnds(c) \/ Drop(c)
      PROVE  KnownInv'
  BY <1>6 DEF RestInv, KnownInv, Accept, Refuse, ResponseEnds, Drop, SetStatus, ids
<1>7. ASSUME NEW c \in Opens, NEW kind \in Kinds, Send(c, kind)
      PROVE  KnownInv'
  BY <1>7 DEF KnownInv, Send, ids
<1>8. CASE UNCHANGED vars
  BY <1>8 DEF KnownInv, vars, ids
<1>9. QED
  BY <1>1, <1>2, <1>3, <1>4, <1>5, <1>6, <1>7, <1>8 DEF Next, Client, Environment

(* Once DisposeAsync has closed the connection it has the id of, only      *)
(* connections are left whose id was overwritten or never came back.       *)
THEOREM OnlyOverlookedAreLeft == Spec => []NoConnectionLeft
<1>1. Init => RestInv /\ KnownInv
  BY DEF Init, RestInv, KnownInv
<1>2. RestInv /\ KnownInv /\ [Next]_vars => RestInv' /\ KnownInv'
  BY NextRest, NextKnown
<1>3. KnownInv => NoConnectionLeft
  BY DEF KnownInv, NoConnectionLeft
<1>4. QED
  BY <1>1, <1>2, <1>3, PTL DEF Spec

-----------------------------------------------------------------------------
(* While the channel is open, last[c] events of job c were given, the next *)
(* ones are on the wire in their order up to an error, and the server has  *)
(* sent no others.  Who has no reference any more gives nothing.           *)
OnWire(c, last) ==
  /\ \A i \in 1..Len(wire[c]) :
       (\A j \in 1..i : wire[c][j] # Error) =>
          wire[c][i].job = c /\ wire[c][i].number = last + i
  /\ NoErrorPending(c) /\ status[c] # "closed" => sent[c] = last + Len(wire[c])

GivenUpTo(last) ==
  /\ \A i \in 1..Len(Given) : Given[i].number =< last[Given[i].job]
  /\ \A c \in Opens :
       last[c] > 0 => \E i \in 1..Len(Given) : Given[i].job = c /\ Given[i].number = last[c]

LiveInv ==
  completed = "no" =>
    /\ \A c \in Opens : status[c] # "none" \/ c = connectionId => c \in refs
    /\ \A c \in Opens : wire[c] # <<>> => status[c] # "none"
    /\ \E last \in [Opens -> 0..MaxEvents] :
         GivenUpTo(last) /\ \A c \in Opens : OnWire(c, last[c])

GapInv == NoGaps /\ LiveInv

LEMMA InitGaps == Init => GapInv
<1> SUFFICES ASSUME Init
             PROVE  GapInv
  OBVIOUS
<1> DEFINE last == [c \in Opens |-> 0]
<1>1. Len(Given) = 0 /\ \A c \in Opens : Len(wire[c]) = 0 /\ wire[c] = <<>> /\ sent[c] = 0
  BY DEF Init, Given
<1>2. last \in [Opens -> 0..MaxEvents] /\ GivenUpTo(last)
  BY <1>1, ClientAssumption DEF GivenUpTo
<1>3. \A c \in Opens : OnWire(c, last[c])
  BY <1>1 DEF OnWire
<1>4. NoGaps
  BY <1>1 DEF NoGaps
<1>5. QED
  BY <1>2, <1>3, <1>4 DEF Init, GapInv, LiveInv

(* As long as the reader's side stays, one connection changes.             *)
LEMMA OneConnection ==
  ASSUME GapInv, Given' = Given, completed' = completed,
         NEW c \in Opens, refs \subseteq refs',
         \A b \in Opens \ {c} :
           wire'[b] = wire[b] /\ status'[b] = status[b] /\ sent'[b] = sent[b],
         connectionId' \in {connectionId, c},
         completed = "no" /\ (status'[c] # "none" \/ connectionId' = c) => c \in refs',
         completed = "no" /\ wire'[c] # <<>> => status'[c] # "none",
         \A n \in 0..MaxEvents : completed = "no" /\ OnWire(c, n) => OnWire(c, n)'
  PROVE  GapInv'
<1>1. NoGaps'
  BY DEF GapInv, NoGaps, Precedes
<1>2. CASE completed # "no"
  BY <1>1, <1>2 DEF GapInv, LiveInv
<1>3. CASE completed = "no"
  <2>1. PICK last \in [Opens -> 0..MaxEvents] :
               GivenUpTo(last) /\ \A b \in Opens : OnWire(b, last[b])
    BY <1>3 DEF GapInv, LiveInv
  <2>2. GivenUpTo(last)'
    BY <2>1 DEF GivenUpTo
  <2>3. ASSUME NEW b \in Opens
        PROVE  OnWire(b, last[b])'
    <3>1. CASE b = c
      BY <1>3, <2>1, <3>1
    <3>2. CASE b # c
      <4>1. wire'[b] = wire[b] /\ status'[b] = status[b] /\ sent'[b] = sent[b]
        BY <3>2
      <4>2. OnWire(b, last[b])
        BY <2>1
      <4>3. QED
        BY <4>1, <4>2 DEF OnWire, NoErrorPending
    <3>3. QED
      BY <3>1, <3>2
  <2>4. \A b \in Opens : /\ status'[b] # "none" \/ b = connectionId' => b \in refs'
                         /\ wire'[b] # <<>> => status'[b] # "none"
    BY <1>3 DEF GapInv, LiveInv
  <2>5. QED
    BY <1>1, <2>2, <2>3, <2>4 DEF GapInv, LiveInv
<1>4. QED
  BY <1>2, <1>3

(* A channel that has been completed is given nothing any more.            *)
LEMMA Completed ==
  ASSUME NoGaps, Given' = Given, completed' # "no"
  PROVE  GapInv'
BY DEF GapInv, NoGaps, Precedes, LiveInv

(* The event that comes next is given to the reader.                       *)
LEMMA GivesNext ==
  ASSUME TypeInv, NoGaps, NEW last \in [Opens -> 0..MaxEvents], GivenUpTo(last),
         NEW e \in Event, e.number = last[e.job] + 1, Given' = Append(Given, e)
  PROVE  NoGaps' /\ GivenUpTo([last EXCEPT ![e.job] = e.number])'
<1>1. Given \in Seq(Event) /\ Len(Given) \in Nat
  BY GivenIsASequence
<1>2. /\ Len(Given') = Len(Given) + 1 /\ Given'[Len(Given) + 1] = e
      /\ \A i \in 1..Len(Given) : Given'[i] = Given[i] /\ Given[i] \in Event
  BY <1>1, AppendProperties
<1>3. e.job \in Opens /\ e.number \in Nat /\ last[e.job] \in Nat
  BY DEF Event
<1>4. \A i \in 1..Len(Given) : Given[i].job \in Opens /\ Given[i].number \in Nat
  BY <1>2 DEF Event
<1>5. ASSUME NEW i \in 1..Len(Given')
      PROVE  /\ Given'[i].number > 1 => \E j \in 1..(i - 1) : Precedes(Given'[j], Given'[i])
             /\ \A j \in 1..(i - 1) :
                  Given'[j].job = Given'[i].job => Given'[j].number < Given'[i].number
  <2>1. CASE i \in 1..Len(Given)
    <3>1. \A j \in 1..(i - 1) : Given'[j] = Given[j]
      BY <1>1, <1>2, <2>1
    <3>2. QED
      BY <1>2, <2>1, <3>1 DEF NoGaps
  <2>2. CASE i = Len(Given) + 1
    <3>1. Given'[i] = e /\ 1..(i - 1) = 1..Len(Given)
      BY <1>1, <1>2, <2>2
    <3>2. \A j \in 1..Len(Given) : Given[j].job = e.job => Given[j].number < e.number
      BY <1>3, <1>4 DEF GivenUpTo
    <3>3. e.number > 1 => \E j \in 1..Len(Given) : Precedes(Given[j], e)
      <4>1. SUFFICES ASSUME e.number > 1
                     PROVE  \E j \in 1..Len(Given) : Precedes(Given[j], e)
        OBVIOUS
      <4>2. last[e.job] > 0 /\ last[e.job] = e.number - 1
        BY <1>3, <4>1
      <4>3. PICK j \in 1..Len(Given) : Given[j].job = e.job /\ Given[j].number = last[e.job]
        BY <1>3, <4>2 DEF GivenUpTo
      <4>4. QED
        BY <4>2, <4>3 DEF Precedes
    <3>4. QED
      BY <1>2, <3>1, <3>2, <3>3
  <2>3. i \in 1..Len(Given) \/ i = Len(Given) + 1
    BY <1>1, <1>2
  <2>4. QED
    BY <2>1, <2>2, <2>3
<1>6. NoGaps'
  BY <1>5 DEF NoGaps
<1> DEFINE next == [last EXCEPT ![e.job] = e.number]
<1>7. next[e.job] = e.number /\ \A c \in Opens \ {e.job} : next[c] = last[c]
  BY <1>3
<1> HIDE DEF next
<1>8. \A i \in 1..Len(Given') : Given'[i].number =< next[Given'[i].job]
  <2>1. ASSUME NEW i \in 1..Len(Given)
        PROVE  Given[i].number =< next[Given[i].job]
    <3>1. Given[i].number =< last[Given[i].job]
      BY DEF GivenUpTo
    <3>2. QED
      BY <1>3, <1>4, <1>7, <3>1
  <2>2. QED
    BY <1>1, <1>2, <1>3, <1>7, <2>1
<1>9. ASSUME NEW c \in Opens, next[c] > 0
      PROVE  \E i \in 1..Len(Given') : Given'[i].job = c /\ Given'[i].number = next[c]
  <2>1. CASE c = e.job
    BY <1>1, <1>2, <1>7, <2>1
  <2>2. CASE c # e.job
    <3>1. PICK i \in 1..Len(Given) : Given[i].job = c /\ Given[i].number = last[c]
      BY <1>7, <1>9, <2>2 DEF GivenUpTo
    <3>2. i \in 1..Len(Given') /\ Given'[i] = Given[i] /\ next[c] = last[c]
      BY <1>1, <1>2, <1>7, <2>2
    <3>3. QED
      BY <3>1, <3>2
  <2>3. QED
    BY <2>1, <2>2
<1>10. QED
  BY <1>6, <1>8, <1>9 DEF GivenUpTo, next

(* What the wire looks like after its head is taken, or something is added.*)
LEMMA TakesHead ==
  ASSUME TypeInv, NEW c \in Opens, wire[c] # <<>>, wire' = [wire EXCEPT ![c] = Tail(@)]
  PROVE  /\ Head(wire[c]) = wire[c][1] /\ Len(wire[c]) \in Nat \ {0}
         /\ Len(wire'[c]) = Len(wire[c]) - 1
         /\ \A i \in 1..Len(wire'[c]) : wire'[c][i] = wire[c][i + 1]
         /\ \A b \in Opens \ {c} : wire'[b] = wire[b]
<1>1. wire[c] \in Seq(Message \cup {Error}) /\ wire'[c] = Tail(wire[c])
  BY DEF TypeInv
<1>2. QED
  BY <1>1, HeadTailProperties DEF TypeInv

LEMMA ShiftsWire ==
  ASSUME TypeInv, NEW c \in Opens, wire[c] # <<>>, wire' = [wire EXCEPT ![c] = Tail(@)],
         status' = status, sent' = sent, NEW n \in Nat, OnWire(c, n), Head(wire[c]) # Error
  PROVE  /\ Head(wire[c]).job = c /\ Head(wire[c]).number = n + 1
         /\ OnWire(c, n + 1)'
<1>1. /\ Head(wire[c]) = wire[c][1] /\ Len(wire[c]) \in Nat \ {0}
      /\ Len(wire'[c]) = Len(wire[c]) - 1
      /\ \A i \in 1..Len(wire'[c]) : wire'[c][i] = wire[c][i + 1]
  BY TakesHead
<1>2. wire[c][1].job = c /\ wire[c][1].number = n + 1
  <2>1. 1 \in 1..Len(wire[c]) /\ \A j \in 1..1 : wire[c][j] # Error
    BY <1>1
  <2>2. QED
    BY <2>1 DEF OnWire
<1>3. ASSUME NEW i \in 1..Len(wire'[c]), \A j \in 1..i : wire'[c][j] # Error
      PROVE  wire'[c][i].job = c /\ wire'[c][i].number = (n + 1) + i
  <2>1. i + 1 \in 1..Len(wire[c]) /\ wire'[c][i] = wire[c][i + 1]
    BY <1>1
  <2>2. ASSUME NEW j \in 1..(i + 1)
        PROVE  wire[c][j] # Error
    <3>1. CASE j = 1
      BY <1>1, <3>1
    <3>2. CASE j # 1
      <4>1. j - 1 \in 1..i /\ (j - 1) + 1 = j /\ j - 1 \in 1..Len(wire'[c])
        BY <1>1, <3>2
      <4>2. wire'[c][j - 1] = wire[c][j]
        BY <1>1, <4>1
      <4>3. QED
        BY <1>3, <4>1, <4>2
    <3>3. QED
      BY <3>1, <3>2
  <2>3. wire[c][i + 1].job = c /\ wire[c][i + 1].number = n + (i + 1)
    BY <2>1, <2>2 DEF OnWire
  <2>4. QED
    BY <2>1, <2>3
<1>4. ASSUME NoErrorPending(c)', status'[c] # "closed"
      PROVE  sent'[c] = (n + 1) + Len(wire'[c])
  <2>1. NoErrorPending(c)
    <3> SUFFICES ASSUME NEW j \in 1..Len(wire[c]), wire[c][j] = Error
                 PROVE  FALSE
      BY DEF NoErrorPending, Contains
    <3>1. j # 1
      BY <1>1
    <3>2. j - 1 \in 1..Len(wire'[c]) /\ wire'[c][j - 1] = wire[c][j]
      BY <1>1, <3>1
    <3>3. QED
      BY <1>4, <3>2 DEF NoErrorPending, Contains
  <2>2. sent[c] = n + Len(wire[c])
    BY <1>4, <2>1 DEF OnWire
  <2>3. sent'[c] = sent[c] /\ n \in Nat
    OBVIOUS
  <2>4. n + Len(wire[c]) = (n + 1) + (Len(wire[c]) - 1)
    <3>1. \A x, y \in Nat : x + y = (x + 1) + (y - 1)
      OBVIOUS
    <3>2. QED
      BY <1>1, <2>3, <3>1
  <2>5. QED
    BY <1>1, <2>2, <2>3, <2>4
<1>5. QED
  BY <1>1, <1>2, <1>3, <1>4 DEF OnWire

(* An error goes behind what is left of the wire.                          *)
LEMMA ErrorAfter ==
  ASSUME TypeInv, NEW c \in Opens, NEW n \in 0..MaxEvents, OnWire(c, n),
         NEW q \in Seq(Message \cup {Error}), Len(q) =< Len(wire[c]),
         \A i \in 1..Len(q) : q[i] = wire[c][i], wire'[c] = Append(q, Error)
  PROVE  OnWire(c, n)' /\ wire'[c] # <<>>
<1>1. Len(wire[c]) \in Nat /\ Len(q) \in Nat
  BY DEF TypeInv
<1>2. Error \in Message \cup {Error}
  OBVIOUS
<1>3. /\ Len(wire'[c]) = Len(q) + 1 /\ wire'[c][Len(q) + 1] = Error
      /\ \A i \in 1..Len(q) : wire'[c][i] = wire[c][i]
  BY <1>2, AppendProperties
<1>4. ~NoErrorPending(c)'
  BY <1>1, <1>3 DEF NoErrorPending, Contains
<1>5. ASSUME NEW i \in 1..Len(wire'[c]), \A j \in 1..i : wire'[c][j] # Error
      PROVE  wire'[c][i].job = c /\ wire'[c][i].number = n + i
  <2>1. i \in 1..Len(q)
    BY <1>1, <1>3, <1>5
  <2>2. i \in 1..Len(wire[c]) /\ \A j \in 1..i : wire[c][j] # Error
    BY <1>1, <1>3, <1>5, <2>1
  <2>3. QED
    BY <1>3, <2>1, <2>2 DEF OnWire
<1>6. wire'[c] # <<>>
  BY <1>1, <1>3
<1>7. QED
  BY <1>4, <1>5, <1>6 DEF OnWire

(* The server sends the event after the last one on the wire.              *)
LEMMA SendsNext ==
  ASSUME ClientAssumption, TypeInv, NEW c \in Opens, NEW kind \in Kinds, Send(c, kind),
         NEW n \in 0..MaxEvents, OnWire(c, n)
  PROVE  OnWire(c, n)'
<1> DEFINE m == [job |-> c, number |-> sent[c] + 1, kind |-> kind]
<1>1. /\ sent'[c] = sent[c] + 1 /\ sent[c] \in Nat /\ status[c] = "open" /\ status' = status
      /\ wire[c] \in Seq(Message \cup {Error}) /\ Len(wire[c]) \in Nat
  BY DEF Send, TypeInv, ClientAssumption
<1>2. wire'[c] = Append(wire[c], m)
  BY <1>1 DEF Send, TypeInv
<1>3. m \in Message
  BY <1>1 DEF Send, Message, ClientAssumption
<1>4. m.job = c /\ m.number = sent[c] + 1 /\ m # Error
  BY DEF Error, Opens
<1> HIDE DEF m
<1>5. /\ Len(wire'[c]) = Len(wire[c]) + 1 /\ wire'[c][Len(wire[c]) + 1] = m
      /\ \A i \in 1..Len(wire[c]) : wire'[c][i] = wire[c][i]
  BY <1>1, <1>2, <1>3, AppendProperties
<1>6. NoErrorPending(c) => sent[c] = n + Len(wire[c])
  BY <1>1 DEF OnWire
<1>7. NoErrorPending(c)' => sent'[c] = n + Len(wire'[c])
  <2>1. NoErrorPending(c)' => NoErrorPending(c)
    <3> SUFFICES ASSUME NEW i \in 1..Len(wire[c]), wire[c][i] = Error
                 PROVE  \E j \in 1..Len(wire'[c]) : wire'[c][j] = Error
      BY DEF NoErrorPending, Contains
    <3>1. i \in 1..Len(wire'[c]) /\ wire'[c][i] = Error
      BY <1>1, <1>5
    <3>2. QED
      BY <3>1
  <2>2. QED
    BY <1>1, <1>5, <1>6, <2>1
<1>8. ASSUME NEW i \in 1..Len(wire'[c]), \A j \in 1..i : wire'[c][j] # Error
      PROVE  wire'[c][i].job = c /\ wire'[c][i].number = n + i
  <2>1. CASE i \in 1..Len(wire[c])
    <3>1. \A j \in 1..i : wire[c][j] # Error
      BY <1>1, <1>5, <1>8, <2>1
    <3>2. QED
      BY <1>5, <2>1, <3>1 DEF OnWire
  <2>2. CASE i = Len(wire[c]) + 1
    <3>1. NoErrorPending(c)
      BY <1>1, <1>5, <1>8, <2>2 DEF NoErrorPending, Contains
    <3>2. QED
      BY <1>1, <1>4, <1>5, <1>6, <2>2, <3>1
  <2>3. QED
    BY <1>1, <1>5, <2>1, <2>2
<1>9. QED
  BY <1>7, <1>8 DEF OnWire

LEMMA DeliverKeepsGaps ==
  ASSUME ClientAssumption, TypeInv, GapInv, NEW c \in Opens, Deliver(c)
  PROVE  GapInv'
<1>1. NoGaps
  BY DEF GapInv
<1>2. /\ wire[c] # <<>> /\ wire' = [wire EXCEPT ![c] = Tail(@)]
      /\ UNCHANGED <<status, sent, connectionId, refs, received>>
  BY DEF Deliver, server, ids, reading
<1>3. CASE channel' = channel /\ completed' # "no"
  BY <1>1, <1>2, <1>3, Completed DEF Given
<1>4. CASE c \notin refs
  <2>1. completed # "no"
    BY <1>2, <1>4 DEF GapInv, LiveInv
  <2>2. QED
    BY <1>3, <1>4, <2>1 DEF Deliver
<1>5. CASE c \in refs /\ Head(wire[c]) = Error
  BY <1>3, <1>5 DEF Deliver, OnError, TryComplete
<1>6. CASE c \in refs /\ Head(wire[c]) # Error
  <2> DEFINE m == Head(wire[c])
  <2>1. m \in Message /\ OnMessage(m)
    BY <1>2, <1>6, HeadOfWire DEF Deliver
  <2>2. EventOf(m) \in Event /\ EventOf(m).job = m.job /\ EventOf(m).number = m.number
    BY <2>1, EventOfMessage DEF EventOf, Message
  <2> HIDE DEF m
  <2>3. CASE m.kind = "malformed" \/ completed # "no"
    BY <1>3, <2>1, <2>3 DEF OnMessage, TryComplete
  <2>4. CASE m.kind # "malformed" /\ completed = "no"
    <3>1. Given' = Append(Given, EventOf(m))
      <4>1. channel' = Append(channel, EventOf(m))
        BY <2>1, <2>4 DEF OnMessage, EventOf
      <4>2. QED
        BY <1>2, <2>2, <4>1, WriteAppends DEF Given, TypeInv
    <3>2. PICK last \in [Opens -> 0..MaxEvents] :
                 GivenUpTo(last) /\ \A b \in Opens : OnWire(b, last[b])
      BY <2>4 DEF GapInv, LiveInv
    <3>3. last[c] \in Nat
      BY <3>2, ClientAssumption
    <3>4. m.job = c /\ m.number = last[c] + 1 /\ OnWire(c, last[c] + 1)'
      BY <1>2, <1>6, <3>2, <3>3, ShiftsWire DEF m
    <3> DEFINE next == [last EXCEPT ![c] = last[c] + 1]
    <3>5. NoGaps' /\ GivenUpTo(next)'
      BY <1>1, <2>2, <3>1, <3>2, <3>4, GivesNext
    <3>6. next \in [Opens -> 0..MaxEvents]
      BY <2>1, <3>2, <3>4 DEF Message
    <3>7. next[c] = last[c] + 1 /\ \A b \in Opens \ {c} : next[b] = last[b]
      BY <3>2
    <3> HIDE DEF next
    <3>8. ASSUME NEW b \in Opens
          PROVE  OnWire(b, next[b])'
      <4>1. CASE b = c
        BY <3>4, <3>7, <4>1
      <4>2. CASE b # c
        <5>1. wire'[b] = wire[b] /\ OnWire(b, last[b])
          BY <1>2, <3>2, <4>2, TakesHead
        <5>2. QED
          BY <1>2, <3>7, <4>2, <5>1 DEF OnWire, NoErrorPending
      <4>3. QED
        BY <4>1, <4>2
    <3>9. \A b \in Opens : /\ status'[b] # "none" \/ b = connectionId' => b \in refs'
                           /\ wire'[b] # <<>> => status'[b] # "none"
      BY <1>2, <2>4, TakesHead DEF GapInv, LiveInv
    <3>10. QED
      BY <3>5, <3>6, <3>8, <3>9 DEF GapInv, LiveInv
  <2>5. QED
    BY <2>3, <2>4
<1>7. QED
  BY <1>4, <1>5, <1>6

LEMMA NextGaps ==
  ClientAssumption /\ TypeInv /\ RestInv /\ GapInv /\ [Next]_vars => GapInv'
<1> SUFFICES ASSUME ClientAssumption, TypeInv, RestInv, GapInv, [Next]_vars
             PROVE  GapInv'
  OBVIOUS
<1> DEFINE Item == Message \cup {Error}
<1>a. ASSUME Given' = Given, UNCHANGED <<status, wire, sent, connectionId, refs, completed>>
      PROVE  GapInv'
  BY <1>a DEF GapInv, NoGaps, Precedes, LiveInv, GivenUpTo, OnWire, NoErrorPending
<1>b. \A c \in Opens : status[c] # "none" /\ completed = "no" => c \in refs
  BY DEF GapInv, LiveInv
<1>1. ASSUME NEW c \in Opens, OpenAsync(c) \/ OpenReturns(c) \/ OpenCancelled(c)
      PROVE  GapInv'
  <2>1. /\ Given' = Given /\ completed' = completed /\ wire' = wire /\ sent' = sent
        /\ \A b \in Opens \ {c} : status'[b] = status[b]
        /\ status'[c] # "none" /\ status[c] # "closed"
        /\ refs \subseteq refs' /\ connectionId' \in {connectionId, c}
    BY <1>1 DEF OpenAsync, OpenReturns, OpenCancelled, SetStatus, server, reading, Given, RestInv
  <2>2. completed = "no" => c \in refs'
    BY <1>1, <1>b DEF OpenAsync, OpenReturns, OpenCancelled
  <2>3. \A n \in 0..MaxEvents : OnWire(c, n) => OnWire(c, n)'
    BY <2>1 DEF OnWire, NoErrorPending
  <2>4. QED
    BY <2>1, <2>2, <2>3, OneConnection
<1>2. CASE ReadAllAsync \/ CancelRead
  BY <1>2, <1>a DEF ReadAllAsync, CancelRead, Given, server, ids
<1>3. CASE Read
  <2>1. Given' = Given
    BY <1>3, ReadKeepsGiven DEF Read, Given, TypeInv
  <2>2. QED
    BY <1>3, <1>a, <2>1 DEF Read, server, ids
<1>4. CASE DisposeAsync
  <2>1. /\ Given' = Given /\ UNCHANGED <<sent, connectionId, refs, completed>>
    BY <1>4 DEF DisposeAsync, Given, server, ids, reading
  <2>2. CASE connectionId = 0
    BY <1>4, <1>a, <2>1, <2>2 DEF DisposeAsync
  <2>3. CASE connectionId # 0
    <3>a. PICK c \in Opens : c = connectionId
      BY <2>3 DEF RestInv
    <3>1. /\ wire'[c] = <<>> /\ status'[c] = "closed"
          /\ \A b \in Opens \ {c} : wire'[b] = wire[b] /\ status'[b] = status[b]
      BY <1>4, <2>3, <3>a DEF DisposeAsync, Close, SetStatus, RestInv, TypeInv
    <3>2. completed = "no" => c \in refs
      BY <3>a DEF GapInv, LiveInv
    <3>3. \A n \in 0..MaxEvents : OnWire(c, n)'
      <4>1. Len(wire'[c]) = 0
        BY <3>1
      <4>2. QED
        BY <3>1, <4>1 DEF OnWire
    <3>4. QED
      BY <2>1, <3>1, <3>2, <3>3, OneConnection
  <2>4. QED
    BY <2>2, <2>3
<1>5. CASE DisposeReturns
  BY <1>5, Completed DEF DisposeReturns, TryComplete, Given, reading, GapInv
<1>6. ASSUME NEW c \in Opens, Deliver(c)
      PROVE  GapInv'
  BY <1>6, DeliverKeepsGaps
<1>7. ASSUME NEW c \in Opens, Accept(c)
      PROVE  GapInv'
  <2>1. /\ Given' = Given /\ UNCHANGED <<wire, sent, connectionId, refs, completed>>
        /\ \A b \in Opens \ {c} : status'[b] = status[b]
        /\ status'[c] = "open" /\ status[c] = "connecting"
    BY <1>7 DEF Accept, SetStatus, server, ids, reading, Given, RestInv
  <2>2. \A n \in 0..MaxEvents : OnWire(c, n) => OnWire(c, n)'
    BY <2>1 DEF OnWire, NoErrorPending
  <2>3. QED
    BY <1>b, <2>1, <2>2, OneConnection
<1>8. ASSUME NEW c \in Opens, Refuse(c) \/ ResponseEnds(c) \/ Drop(c)
      PROVE  GapInv'
  <2>1. /\ Given' = Given /\ UNCHANGED <<sent, connectionId, refs, completed>>
        /\ \A b \in Opens \ {c} : status'[b] = status[b] /\ wire'[b] = wire[b]
        /\ status'[c] # "none" /\ status[c] # "none"
    BY <1>8 DEF Refuse, ResponseEnds, Drop, SetStatus, server, ids, reading, Given, RestInv, TypeInv
  <2>2. wire[c] \in Seq(Item) /\ DOMAIN wire = Opens
    BY DEF TypeInv
  <2>3. PICK q \in Seq(Item) : /\ Len(q) =< Len(wire[c])
                               /\ \A i \in 1..Len(q) : q[i] = wire[c][i]
                               /\ wire'[c] = Append(q, Error)
    <3>1. CASE Refuse(c) \/ ResponseEnds(c)
      <4>1. wire'[c] = Append(wire[c], Error) /\ Len(wire[c]) =< Len(wire[c])
        BY <2>2, <3>1 DEF Refuse, ResponseEnds
      <4>2. QED
        BY <2>2, <4>1
    <3>2. CASE Drop(c)
      <4>1. PICK n \in 0..Len(wire[c]) : wire' = [wire EXCEPT ![c] = Append(SubSeq(@, 1, n), Error)]
        BY <3>2 DEF Drop
      <4>2. /\ SubSeq(wire[c], 1, n) \in Seq(Item) /\ Len(SubSeq(wire[c], 1, n)) = n
            /\ \A i \in 1..n : SubSeq(wire[c], 1, n)[i] = wire[c][i]
        BY <2>2, <4>1
      <4>3. n =< Len(wire[c])
        BY <2>2, <4>1
      <4>4. wire'[c] = Append(SubSeq(wire[c], 1, n), Error)
        BY <2>2, <4>1
      <4>5. QED
        BY <4>2, <4>3, <4>4
    <3>3. QED
      BY <1>8, <3>1, <3>2
  <2>4. \A n \in 0..MaxEvents : OnWire(c, n) => OnWire(c, n)'
    BY <2>3, ErrorAfter
  <2>5. QED
    BY <1>b, <2>1, <2>4, OneConnection
<1>9. ASSUME NEW c \in Opens, NEW kind \in Kinds, Send(c, kind)
      PROVE  GapInv'
  <2>1. /\ Given' = Given /\ UNCHANGED <<status, connectionId, refs, completed>>
        /\ \A b \in Opens \ {c} : sent'[b] = sent[b] /\ wire'[b] = wire[b]
        /\ status[c] = "open"
    BY <1>9 DEF Send, ids, reading, Given, TypeInv
  <2>2. \A n \in 0..MaxEvents : OnWire(c, n) => OnWire(c, n)'
    BY <1>9, SendsNext
  <2>3. QED
    BY <1>b, <2>1, <2>2, OneConnection
<1>10. CASE UNCHANGED vars
  BY <1>10, <1>a DEF vars, Given
<1>11. QED
  BY <1>1, <1>2, <1>3, <1>4, <1>5, <1>6, <1>7, <1>8, <1>9, <1>10
     DEF Next, Client, Environment

(* Whatever the network loses and however often the EventSource connects   *)
(* again, the reader of ReadAllAsync is given a job's events from the      *)
(* first on, without a hole and in order.                                  *)
THEOREM FeedHasNoGaps == Spec => []NoGaps
<1>1. Init => TypeInv /\ RestInv /\ GapInv
  BY ClientAssumption, InitTyped, InitGaps DEF Init, RestInv
<1>2. TypeInv /\ RestInv /\ GapInv /\ [Next]_vars => TypeInv' /\ RestInv' /\ GapInv'
  BY ClientAssumption, NextTyped, NextRest, NextGaps
<1>3. GapInv => NoGaps
  BY DEF GapInv
<1>4. QED
  BY <1>1, <1>2, <1>3, PTL DEF Spec
=============================================================================
