----------------------------- MODULE SseClient ------------------------------
(***************************************************************************)
(* The browser's end of a progress stream: Interop/SseClient.cs and        *)
(* wwwroot/js/SseClient.js around the browser's EventSource.               *)
(*                                                                         *)
(* One SseClient serves a tab for as long as it is open.  Each OpenAsync   *)
(* makes an EventSource that calls the client back; all of them write into *)
(* the client's one channel, which can be completed once.  An EventSource  *)
(* connects again by itself when the connection breaks or the response     *)
(* ends, and gives up when the server refuses.  In .NET the call of "open" *)
(* and its answer are two turns: the token may be cancelled and the client *)
(* disposed of in between, and so is "close" in DisposeAsync.              *)
(*                                                                         *)
(* No page opens a stream yet: the caller, the server (see JobStream) and  *)
(* the EventSource are modelled as this code meets them.                   *)
(***************************************************************************)
EXTENDS Integers, Sequences, SequencesExt

CONSTANTS
  MaxOpens,           (* bound: calls of OpenAsync, each for its own job   *)
  MaxEvents,          (* bound: events of a job ...                        *)
  MaxSent,            (* ... and of all jobs together                      *)
  Kinds,              (* what OnMessage finds in a message, see below      *)
  TokenInHeader,      (* the request carries X-Session-Token               *)
  NetworkFails        (* connections may break                             *)

ASSUME ClientAssumption ==
  /\ MaxOpens \in Nat \ {0} /\ MaxEvents \in Nat /\ MaxSent \in Nat
  /\ Kinds \subseteq {"progress", "terminal", "unknown", "malformed"}
  /\ TokenInHeader \in BOOLEAN /\ NetworkFails \in BOOLEAN

VARIABLES
  status,             (* status[c]: the EventSource of the c-th OpenAsync  *)
  wire,               (* wire[c]: its messages and errors not handled yet  *)
  sent, finished,     (* sent[c], finished[c]: the server's side of job c  *)
  connectionId,       (* _connectionId; 0 for null                         *)
  selfRef, refs,      (* _selfRef; references not disposed of              *)
  channel, completed, (* _channel: its events, whether and how it ended    *)
  reader,             (* the enumeration of ReadAllAsync                   *)
  disposing,          (* DisposeAsync: "no", "closing", "done"             *)
  received,           (* history: all the reader was given                 *)
  overlooked          (* history: connections the client lost the id of    *)

vars == <<status, wire, sent, finished, connectionId, selfRef, refs, channel,
          completed, reader, disposing, received, overlooked>>

server  == <<sent, finished>>
ids     == <<connectionId, selfRef, refs, overlooked>>
reading == <<reader, received>>

Opens  == 1..MaxOpens
Event  == [job : Opens, number : 1..MaxEvents, kind : {"progress", "terminal"}]
Message == [job : Opens, number : 1..MaxEvents, kind : Kinds]
Error  == [job |-> 0, number |-> 0, kind |-> "error"]

TypeOK ==
  /\ status \in [Opens -> {"none", "opening", "connecting", "open", "refused", "closed"}]
  /\ wire \in [Opens -> Seq(Message \cup {Error})]
  /\ sent \in [Opens -> 0..MaxEvents] /\ finished \in [Opens -> BOOLEAN]
  /\ connectionId \in Opens \cup {0} /\ selfRef \in Opens \cup {0}
  /\ refs \subseteq Opens /\ overlooked \subseteq Opens
  /\ channel \in Seq(Event) /\ received \in Seq(Event)
  /\ completed \in {"no", "ended", "error"}
  /\ reader \in {"idle", "reading", "ended", "failed"}
  /\ disposing \in {"no", "closing", "done"}

Init ==
  /\ status = [c \in Opens |-> "none"] /\ wire = [c \in Opens |-> <<>>]
  /\ sent = [c \in Opens |-> 0] /\ finished = [c \in Opens |-> FALSE]
  /\ connectionId = 0 /\ selfRef = 0 /\ refs = {}
  /\ channel = <<>> /\ completed = "no"
  /\ reader = "idle" /\ disposing = "no"
  /\ received = <<>> /\ overlooked = {}

-----------------------------------------------------------------------------
(* The caller.  Jobs are opened in the order 1, 2, ...                     *)

SetStatus(c, s) == status' = [status EXCEPT ![c] = s]

(* A token that is cancelled already stops the call before "open" runs.    *)
OpenAsync(c) ==
  /\ disposing = "no"
  /\ status[c] = "none" /\ \A b \in 1..(c - 1) : status[b] \notin {"none", "opening"}
  /\ selfRef' = c /\ refs' = refs \cup {c}
  /\ \E s \in {"opening", "closed"} : SetStatus(c, s)
  /\ UNCHANGED <<wire, server, connectionId, overlooked, channel, completed, reading, disposing>>

(* The id of an earlier connection is overwritten; nothing closes it.      *)
OpenReturns(c) ==
  /\ status[c] = "opening"
  /\ SetStatus(c, "connecting")
  /\ connectionId' = c
  /\ overlooked' = overlooked \cup ({connectionId} \ {0})
                              \cup (IF disposing = "no" THEN {} ELSE {c})
  /\ UNCHANGED <<wire, server, selfRef, refs, channel, completed, reading, disposing>>

(* The token is cancelled after "open" ran: the connection is there, its   *)
(* id is lost.                                                             *)
OpenCancelled(c) ==
  /\ status[c] = "opening"
  /\ SetStatus(c, "connecting")
  /\ overlooked' = overlooked \cup {c}
  /\ UNCHANGED <<wire, server, connectionId, selfRef, refs, channel, completed, reading,
                 disposing>>

ReadAllAsync ==
  /\ reader # "reading" /\ disposing = "no"
  /\ reader' = "reading"
  /\ UNCHANGED <<status, wire, server, ids, channel, completed, received, disposing>>

(* The token of the enumeration is cancelled.                              *)
CancelRead ==
  /\ reader = "reading"
  /\ reader' = "idle"
  /\ UNCHANGED <<status, wire, server, ids, channel, completed, received, disposing>>

Read ==
  /\ reader = "reading"
  /\ \/ /\ channel # <<>>
        /\ channel' = Tail(channel)
        /\ received' = Append(received, Head(channel))
        /\ UNCHANGED reader
     \/ /\ channel = <<>> /\ completed # "no"
        /\ reader' = IF completed = "error" THEN "failed" ELSE "ended"
        /\ UNCHANGED <<channel, received>>
  /\ UNCHANGED <<status, wire, server, ids, completed, disposing>>

(* Mutant: the connection is left to the browser.                          *)
DisposeKeepsConnection ==
  /\ disposing = "no"
  /\ disposing' = "closing"
  /\ UNCHANGED <<status, wire, server, ids, channel, completed, reading>>

(* What it has not handed over yet is dropped with the connection.         *)
Close(id) == SetStatus(id, "closed") /\ wire' = [wire EXCEPT ![id] = <<>>]

(* DisposeAsync: "close", if there is an id ...                            *)
DisposeAsync ==
  /\ disposing = "no"
  /\ disposing' = "closing"
  /\ IF connectionId = 0 THEN UNCHANGED <<status, wire>> ELSE Close(connectionId)
  /\ UNCHANGED <<server, ids, channel, completed, reading>>

(* TryComplete of a channel that is complete changes nothing.              *)
TryComplete(how) == completed' = IF completed = "no" THEN how ELSE completed

(* Mutant: the channel is not completed.                                   *)
DisposeReturnsOpen ==
  /\ disposing = "closing"
  /\ disposing' = "done"
  /\ refs' = refs \ {selfRef}
  /\ UNCHANGED <<status, wire, server, connectionId, selfRef, overlooked, channel, reading,
                 completed>>

(* ... and, when that has returned, the channel and the last reference.    *)
DisposeReturns ==
  /\ disposing = "closing"
  /\ disposing' = "done"
  /\ TryComplete("ended")
  /\ refs' = refs \ {selfRef}
  /\ UNCHANGED <<status, wire, server, connectionId, selfRef, overlooked, channel, reading>>

-----------------------------------------------------------------------------
(* What the browser calls, as long as the connection's reference is live.  *)

(* Mutant: a terminal event is an event like any other.                    *)
OnMessageGoesOn(m) ==
  /\ IF m.kind = "malformed" THEN TryComplete("ended") ELSE UNCHANGED completed
  /\ channel' = IF m.kind = "malformed" \/ completed # "no" THEN channel
                ELSE Append(channel, [m EXCEPT !.kind = IF @ = "progress" THEN @ ELSE "terminal"])

(* Mutant: a type that is no JobEventType is passed on.                    *)
OnMessageUnparsed(m) ==
  /\ IF m.kind = "progress" THEN UNCHANGED completed ELSE TryComplete("ended")
  /\ channel' = IF m.kind = "malformed" \/ completed # "no" THEN channel ELSE Append(channel, m)

(* A message without a "type", or that is no JSON, completes the channel;  *)
(* a type that is no JobEventType counts as Failed.  TryWrite into a       *)
(* complete channel does nothing.                                          *)
OnMessage(m) ==
  /\ IF m.kind = "progress" THEN UNCHANGED completed ELSE TryComplete("ended")
  /\ channel' = IF m.kind = "malformed" \/ completed # "no" THEN channel
                ELSE Append(channel, [m EXCEPT !.kind = IF @ = "progress" THEN @ ELSE "terminal"])

(* Mutants: the client waits for the EventSource to connect again; an      *)
(* error replaces how the channel was completed; an error before the first *)
(* event is left to the EventSource.                                       *)
OnErrorIgnored == UNCHANGED <<completed, channel>>
OnErrorAlways  == completed' = "error" /\ UNCHANGED channel
OnErrorAwaitsEvents ==
  /\ IF received \o channel = <<>> THEN UNCHANGED completed ELSE TryComplete("error")
  /\ UNCHANGED channel

OnError == TryComplete("error") /\ UNCHANGED channel

Deliver(c) ==
  /\ wire[c] # <<>>
  /\ wire' = [wire EXCEPT ![c] = Tail(@)]
  /\ IF c \notin refs THEN UNCHANGED <<completed, channel>>
     ELSE IF Head(wire[c]) = Error THEN OnError ELSE OnMessage(Head(wire[c]))
  /\ UNCHANGED <<status, server, ids, reading, disposing>>

-----------------------------------------------------------------------------
(* The EventSource and the server.                                         *)

(* Bound: one error at a time waits to be handled.                         *)
NoErrorPending(c) == ~Contains(wire[c], Error)

Accept(c) ==
  /\ status[c] = "connecting" /\ TokenInHeader
  /\ SetStatus(c, "open")
  /\ UNCHANGED <<wire, server, ids, channel, completed, reading, disposing>>

(* The first request of a connection or any later one: 404 for a job that  *)
(* is not in the store (any more), 403 for one that is somebody else's,    *)
(* 400 for want of a token, 429 from the rate limiter.                     *)
Refuse(c) ==
  /\ status[c] = "connecting" /\ NoErrorPending(c)
  /\ SetStatus(c, "refused")
  /\ wire' = [wire EXCEPT ![c] = Append(@, Error)]
  /\ UNCHANGED <<server, ids, channel, completed, reading, disposing>>

Send(c, kind) ==
  /\ status[c] = "open" /\ ~finished[c]
  /\ sent[c] < MaxEvents /\ SumFunction(sent) < MaxSent
  /\ sent' = [sent EXCEPT ![c] = @ + 1]
  /\ finished' = [finished EXCEPT ![c] = kind = "terminal"]
  /\ wire' = [wire EXCEPT ![c] = Append(@, [job |-> c, number |-> sent'[c], kind |-> kind])]
  /\ UNCHANGED <<status, ids, channel, completed, reading, disposing>>

(* The response ends after the terminal event.                             *)
ResponseEnds(c) ==
  /\ status[c] = "open" /\ finished[c] /\ NoErrorPending(c)
  /\ SetStatus(c, "connecting")
  /\ wire' = [wire EXCEPT ![c] = Append(@, Error)]
  /\ UNCHANGED <<server, ids, channel, completed, reading, disposing>>

(* The network fails; what was on its way is lost.                         *)
Drop(c) ==
  /\ NetworkFails
  /\ status[c] \in {"connecting", "open"} /\ NoErrorPending(c)
  /\ SetStatus(c, "connecting")
  /\ \E n \in 0..Len(wire[c]) :
       wire' = [wire EXCEPT ![c] = Append(SubSeq(@, 1, n), Error)]
  /\ UNCHANGED <<server, ids, channel, completed, reading, disposing>>

Client ==
  \/ \E c \in Opens : OpenAsync(c) \/ OpenReturns(c) \/ OpenCancelled(c)
  \/ ReadAllAsync \/ CancelRead \/ Read
  \/ DisposeAsync \/ DisposeReturns
  \/ \E c \in Opens : Deliver(c)

Environment ==
  \E c \in Opens :
    \/ Accept(c) \/ Refuse(c) \/ ResponseEnds(c) \/ Drop(c)
    \/ \E kind \in Kinds : Send(c, kind)

Next == Client \/ Environment

Spec == Init /\ [][Next]_vars

(* The browser handles what has arrived, the reader's loop goes on, a call *)
(* of "close" returns.  Nothing is asked of the network or the server.     *)
Fairness ==
  /\ \A c \in Opens : WF_vars(Deliver(c))
  /\ WF_vars(Read) /\ WF_vars(DisposeReturns)

FairSpec == Spec /\ Fairness

-----------------------------------------------------------------------------
Given == received \o channel

(* Nothing follows a terminal event, not even from another connection, and *)
(* the error that the browser reports when the server closes the response  *)
(* does not turn the outcome into a failed stream.                         *)
TerminalIsFinal ==
  \A i \in DOMAIN Given : Given[i].kind = "terminal" => i = Len(Given) /\ reader # "failed"

(* Reconnecting never leaves a hole: what the reader is given of a job is  *)
(* its events from the first on, in order, whatever the network lost.      *)
Precedes(d, e) == d.job = e.job /\ d.number = e.number - 1

NoGaps ==
  \A i \in 1..Len(Given) :
    /\ Given[i].number > 1 => \E j \in 1..(i - 1) : Precedes(Given[j], Given[i])
    /\ \A j \in 1..(i - 1) :
         Given[j].job = Given[i].job => Given[j].number < Given[i].number

(* After DisposeAsync only connections are left whose id the client lost:  *)
(* a second OpenAsync, or a cancelled one, or one still under way.         *)
NoConnectionLeft ==
  disposing # "no" =>
    \A c \in Opens : status[c] \in {"connecting", "open"} => c \in overlooked

(* Whoever reads sees the feed that module EventFeed describes.            *)
Feed == INSTANCE EventFeed WITH
  Events <- Event, Terminal <- {e \in Event : e.kind = "terminal"},
  given <- Given, outcome <- completed

IsAFeed == Feed!Spec

(* Nobody waits forever on a stream that the server refuses, be it at the  *)
(* first request or after a reconnect, or on a client that is disposed of. *)
ReaderIsReleased ==
  (disposing = "done" \/ \E c \in Opens : status[c] = "refused") ~> reader # "reading"

=============================================================================
