# Fileway in TLA+

Fileway converts files. Most conversions run in the browser (Blazor
WebAssembly); those that cannot are sent to an ASP.NET Core API. Both share a
library with the tool registry, the format detector and the processor
contracts. This directory holds TLA+ specifications of the parts of that
program whose behaviour depends on the order in which things happen, the TLC
configurations that check them on small instances, and proofs of the most
important results for instances of any size.

All paths below are relative to the repository (`src/Fileway.Api/...`); in
`PROJECT.json` they carry the prefix `src/` of the checked-out tree.

## 1. Inventory

### Fileway.Api

| Component | State | Operations | Talks to | Hard behaviour |
|---|---|---|---|---|
| `Jobs/JobQueueManager` | `_activeJobCount`, `_sessionCounts` | `TryAcquire`, `Release` | called by the dispatcher | lock-free counters, raised before compared, lowered in two steps |
| `Jobs/JobDispatcher` | none of its own; one thread per request | `DispatchAsync` (sync and async tier) | queue manager, processors, storage, exception handler | timer, disconnect, exception and result race; the slot must be released once |
| `Infrastructure/ProblemDetailsExceptionHandler` | none | exception to status, code, retryable | client | an exception nobody maps |
| `Infrastructure/LocalFileStorageService` | files in `LocalStoragePath` | `SaveAsync`, `GetSignedUrlAsync` | file system, shared with the sweeper | a save interleaves with a sweep; partial files |
| `Jobs/JobSweepService` | one loop with a delay | `SweepExpiredJobs`, `SweepOrphanedTempDirs` | job store, file system | deletes by age what others are using; one failure of several |
| `Jobs/InMemoryJobStore`, `JobRecord` | dictionary of jobs, an event channel each | `Add`, `Get`, `Remove`, `GetAll` | stream endpoint, sweeper | nothing calls `Add` yet |
| `Endpoints/JobEndpoints` | none | `SubmitJob`, `StreamProgress` | dispatcher, job store | a stream that waits for an event or a timer; reconnects; a job swept while streamed |
| `Infrastructure/RateLimitingExtensions`, `SessionTokenMiddleware` | sliding windows per token and per address hash | admission of every request | all endpoints | chained windows; the daily salt |
| `Endpoints/ToolEndpoints`, `DetectEndpoints`, start-up checks | none | queries | registry, detector | none |
| `Processors/*` | none | `ValidateOptions`, `ExecuteAsync` | libraries | look at the token now and then |

### Fileway.Client

| Component | State | Operations | Talks to | Hard behaviour |
|---|---|---|---|---|
| `Pages/ToolPage` | tool, text, format, result, `_isConverting`, `_cts` | page handlers, `HandleConvert` | services below | everything may change at an await |
| `Services/ToolStateService` | state and error, one per tab | `BeginSubmitting`, `CompleteSync`, `Fail`, `Reset`, ... | page, panels | runs of pages that are gone still write to it |
| `Services/ProcessorRouter`, `DetectionService`, `ApiJobClient` | little | route, detect, submit | API, processors | cancellation swallowed or passed on; fall back to the API |
| `Components/Errors/ErrorPanel` | countdown | show an error, retry | page | blank or raw errors |
| `Components/DropZone`, `CodeMirrorEditor`, `DimensionInputs` | a file, a text, two sizes | callbacks | JavaScript, page | callbacks out of order |
| `Interop/SseClient`, `js/SseClient.js` | one channel, one connection id | `OpenAsync`, `OnMessage`, `OnError`, `ReadAllAsync`, `DisposeAsync` | EventSource | reconnects, several connections into one channel, disposal under way; nothing opens it yet |
| `Components/SideBySideImagePreview`, `js/SideBySideInterop.js` | two images, the divider, a reference the listeners call | parameters, pointer and key handlers, `DisposeAsync` | browser events | images in any order; gestures that end unheard; several fingers |
| `js/ClientInterop.js`, `js/ThemeInterop.js`, `js/codemirror-fileway.js` | the stored theme | download, copy, highlight, theme | browser | none |

### Fileway.Shared

`FormatDetector`, `ToolRegistry` and the tool definitions are pure or read-only.
They matter to the modules here through what they allow: which kinds of tool
there are, where a tool may run, which formats it has.

### What makes each component correct

* **Queue manager**: the counters count exactly the requests that raised them;
  admitted jobs stay within both limits; a refusal has a cause; calls return.
* **Dispatcher**: one `Release` per successful `TryAcquire` on every path; each
  request is answered; the slot is free before the answer can be read.
* **Storage and sweeper**: an output stays on disk while its URL is valid; an
  orphan goes in time unless a deletion of it fails, and then it is tried again
  in every sweep; the sweeper survives what it cannot delete.
* **Tool page**: nothing spins without a run in flight; one conversion at a time;
  what is shown belongs to the tool, the text and the format beside it; an outcome
  is that of a conversion the page has submitted; errors can be read.
* **Stream and store**: no event is sent twice, none is lost but by a connection
  or a job that is cut off, and those are replayed; each connection sends its
  events in order, the terminal one last; a stream ends when its job does and not
  before; the sweep leaves live jobs alone, and a request that meets it is told 404.
* **SSE client**: whoever reads is given a feed without holes that ends once and
  says how; a terminal event is the last word; a reader is never left waiting;
  no connection the client knows of survives it.
* **Image comparison**: it can be dragged whenever it is shown; only a hand drags
  it, and it stays under that hand; its listeners go with it; it does not trap the
  keyboard.
* **Rate limiter** (not modelled): never more permits in any window than its limit.

## 2. Modules

| Module | Kind | Models |
|---|---|---|
| `SlotPool` | abstract specification | what the API promises about job slots |
| `JobQueueManager` | component | `JobQueueManager.cs`, atomic step by atomic step; implements `SlotPool` |
| `JobQueueManagerProofs` | proofs | the invariants and the refinement |
| `JobDispatcher` | composition | `JobDispatcher.cs` with the counters it shares; implements `JobQueueManager` |
| `JobDispatcherProofs` | proofs | that refinement, its composition with the queue manager's, and what follows |
| `OutputStorage` | composition | `LocalFileStorageService.cs` and `JobSweepService.cs` on one file system |
| `OutputStorageProofs` | proofs | its three safety invariants |
| `JobStream` | composition | `StreamProgress` in `JobEndpoints.cs`, the record it reads from, `SweepExpiredJobs` |
| `JobStreamProofs` | proofs | its four safety invariants |
| `ToolPage` | composition | `ToolPage.razor` with the services it calls |
| `ToolPageProofs` | proofs | its five safety invariants |
| `EventFeed` | abstract specification | what the reader of a progress stream is promised |
| `SseClient` | component | `SseClient.cs` and `SseClient.js` around an `EventSource`; implements `EventFeed` |
| `SseClientProofs` | proofs | that refinement, and its four safety invariants |
| `ImagePreview` | component | `SideBySideImagePreview.razor` and `SideBySideInterop.js` |
| `ImagePreviewProofs` | proofs | its five safety invariants |
| `MC...` | model checking | constants for TLC |

`JobDispatcher` implements `JobQueueManager`, which implements `SlotPool`: the
dispatcher's `pc` maps to the queue manager's `at` (`QueuePoint`), which maps to
the pool's `phase` (`PhaseAt`).

### JobQueueManager

`TryAcquire` and `Release` take no lock. Each `AddOrUpdate` and each
`Interlocked` call is atomic, so one action is one such call, with the comparison
of the value it returned and the branch taken:

| Action | Code |
|---|---|
| `EnterSession` | raise the session's count, compare (23-24) |
| `UndoSession` | lower it, `ConcurrentLimitExceeded` (26-27) |
| `EnterGlobal` | raise the global count, compare (30-31, 38) |
| `UndoGlobal`, `UndoSessionAfterGlobal` | lower both, `QueueFull` (33-35) |
| `ReleaseGlobal`, `ReleaseSession` | `Release` (43-44) |

A missing dictionary key and the value 0 behave alike under `AddOrUpdate` as it
is called here, so the model starts every session at 0.

### JobDispatcher

One request per connection; `pc[r]` is the point its thread has reached. The
module raises and lowers the same counters, guarded by the dispatcher's control
flow and by nothing else; that this is a legal use of the queue manager is the
property `ImplementsQueueManager`. A running job can end by a result (inline or
stored), a validation or domain error, an unexpected error, or a cancellation
that its timer or a disconnect made possible but does not force. `SaveAsync` sees
the request's token only. `RunAsyncJobAsync` releases and throws. `Problem` is the
table of the exception handler. `Answer` stands for the endpoint's or the
handler's write of the response.

### OutputStorage

The save and the sweeper share a file system, and each file system call is a
step: create the directory, open the file, finish or cancel the write; list the
directories, look at the age of one, unlink what is in it, remove it. Any unlinking
may fail for some of the files and any removal altogether, for an orphan as for the
output directory (`JobSweepService.cs:57-62` catches it). `resisted[d]` is a history
variable: the ticks since a deletion of the orphan `d` failed. An exception of
`GetDirectories` itself (line 52), which the inner `catch` does not see, is not
modelled. "Served", in `SignedUrlsServed`, means that the file is complete on disk:
nothing in the repository answers a request for `/storage`. How the
server is deployed is part of the state and chosen initially: whether the output
directory is below `TempBasePath` (it is, with the shipped settings) and whether
the creation time .NET reports is the birth of a directory or its last change,
which depends on the file system. Outside the code: something leaves a temp
directory behind.

### JobStream

One job, and every request for its `/progress`. A stream is looked up (`LookUp`),
linked to the job's token source (`Link`) and then loops: `Read` an event and
`Write` it, or `Wait` for an event and the timer and perhaps `Ping`. All streams
read from one channel. `timer[s]` is the `PeriodicTimer`: idle, awaited, or ticked
with nobody waiting; a `Wait` that finds it awaited throws. A tick can fall into
any await of the loop and not between two of them, since that code runs without a
pause. The sweep is `SweepRemove` and `SweepDispose`, two steps with streams in
between. Nothing in the repository creates a job record yet: the producer
(`Publish`, `Conclude`), the cancellation and the disconnect are external, the
producer as `docs/architecture/04-processors.md` describes it, a terminal event
and the end of the channel or the end of the channel alone. Before `Conclude` it
leaves room for the terminal event, so `MaxEvents` counts all of them. When the
sweep runs is left open: it may come at any time after the retention.
`Last-Event-ID` is read by the code and has no effect, so a reconnect is a
connection like any other. `missed[s]` is a history variable: the events that had
been lost with broken connections when `s` was looked up.

### ToolPage

One action is what runs between two awaits. `run[k]` is a call of `HandleConvert`
in flight: detecting (waiting for the server's detection), in the browser (the
processor has yielded) or at the API. A run takes the page's tool and format when
its detection ends, as the code does. `Navigate` keeps the component and cancels
the newest run; `Leave` disposes the component and cancels nothing, so its runs
become `detached`: their fields are nobody's, but the tab's `ToolStateService` is
still theirs to write. `disturbed` is a history variable: it records that the
user did something the runs in flight, or the result shown, do not know of, and
is cleared when a conversion starts with none in flight.

A dropped file is read and detected (`HandleFile`) and then the page is told
(`HandleFileSelected`), whatever page that is by then, or nobody is
(`FileUnreadable`).

An alias of a tool is a slug of its own here: `OnParametersSet` treats it so.
Detection that ends in the browser takes no time of its own. A `WasmOnly` tool
without a processor in the browser would go to the API (`ProcessorRouter.cs:49`);
each of the six in the registry has one (`WasmProcessorExtensions.cs`), so
`DetectionSucceeds` leaves that out. Progress callbacks
are left out: no shipped processor reports progress. What is on the screen is a
function of the fields; that `Reset` does not itself ask for a new rendering is
not modelled.

### SseClient

`status[c]` is the `EventSource` the `c`-th `OpenAsync` made and `wire[c]` what it has
yet to hand to .NET. The call of `open` and its answer are two steps
(`OpenAsync`, then `OpenReturns`, or `OpenCancelled` if the token was cancelled in
between), and so are the two halves of `DisposeAsync`, so a client can be disposed
of while a connection is being made. `Deliver` is a call from the browser; it does
nothing once the reference of that connection is disposed of. `OnMessage`, `OnError`
and `TryComplete` are the methods: the channel is completed once, and what is
written afterwards is dropped. A `Message` has the kind the client finds in it:
`"unknown"` is a type that is no `JobEventType` (which counts as `Failed`),
`"malformed"` has no type or is no JSON. The server side (`Accept`, `Refuse`, `Send`,
`ResponseEnds`) is `StreamProgress` behind the session token middleware and the rate
limiter: it may refuse any request, the first one of a job included (400, 429, 404,
403), and without a token it refuses every one. `Drop`
is the network: it loses a suffix of what was on its way. An `EventSource` whose
request is refused gives up; any other end makes it connect again. `overlooked` is a
history variable: connections whose id the client lost (overwritten, or never
received). Jobs are opened in the order of their numbers, since nothing in the
repository says which job comes first. `Given`, what was read followed by what is
in the channel, is the feed of `EventFeed`.

### ImagePreview

`Mount`, `SetParameters` and `DisposeAsync` are the component's life; `init` and
`destroy` of the script are part of them (`InitInterop`, `Destroy`). `init` in the
first `OnParametersSetAsync` has no element yet and fails without a word; the one in
`OnAfterRenderAsync` follows with a second reference. `mouse` and `touches` are where
the user's hands are, which is more than the listeners hear: a button let go
elsewhere (`MouseReleasedUnheard`) and a touch the browser takes over (`TouchCancel`)
have no listener. `clientX` of a touch event is that of `touches[0]`, the first
finger on the screen, wherever it is. History variables: `lost` (a release nobody
heard), `grip` (the column of the one pointer that holds the divider), `swallowed`
(keys whose default was dropped although the slider has no use for them). The flag
of `@onkeydown:preventDefault` takes effect with the next rendering, so
`HandleKeyDown` leaves open whether the key meets the flag of before or of after.
A container of width 0 (`getPercent` then says 50) is left out, and `SetDividerPosition`
is called within the step of the pointer event. `SideBySideInterop.js:27` speaks of
28px where the code compares with 32: `Reach` is the code's number.

## 3. Runs

| Run | Checks | Instance |
|---|---|---|
| `job_queue_manager` | `TypeOK`, `ExactCounts`, `LimitsHold`, `CallsReturn`, `ImplementsSlotPool` | 5 requests, 2 sessions (3 + 2), limits 2 and 3; 7842 states |
| `job_dispatcher` | `TypeOK`, `WithinShareIsServed`, `ImplementsQueueManager`, `EveryRequestAnswered` | 3 connections, 2 sessions (2 + 1), limits 1 and 1, both tiers; 147475 states |
| `output_storage` | `TypeOK`, `StorageElsewhereIsSafe`, `OrphansRemovedInTime`, `SweepsGoOn` | 2 saves, 1 orphan; interval, age and lifetime 1, 3, 6; 363280 states |
| `tool_page` | `TypeOK`, `NoSpinnerWithoutRun`, `OneConversion`, `ProgressWhileConverting`, `ShownMatchesPage`, `ConvertingEnds` | 2 runs, 1 dropped file, 3 tools, 2 formats, one text and the empty editor; 215076 states |
| `job_stream` | `TypeOK`, `EventsAccountedFor`, `TerminalEndsStream`, `LiveJobsAreServed`, `StreamsEnd` | 2 connections of the owner, 3 events, retention of 1 tick; 163612 states |
| `image_preview` | `TypeOK`, `Wired`, `DragNeedsHold`, `DividerUnderHand`, `NoKeyboardTrap` | 5 columns, reach 1, mouse and 2 fingers; 247192 states |
| `sse_client` | `TypeOK`, `TerminalIsFinal`, `NoGaps`, `NoConnectionLeft`, `IsAFeed`, `ReaderIsReleased` | 2 connections, 2 events in all, every kind of message, a network that breaks, a server that refuses; 246965 states |
| `session_limit_race` | violates `RefusedOnlyAtSessionLimit` | 3 requests of one session, its limit 1, the server's 2 |
| `timeout_is_504` | violates `TimeoutIs504` | as `job_dispatcher` |
| `signed_urls_served` | violates `SignedUrlsServed` | as `output_storage` |
| `stream_outlives_job` | violates `StreamOutlivesRunningJob` | as `job_stream`, with a stranger's connection |
| `missed_events_replayed` | violates `MissedEventsReplayed` | 2 connections of the owner, 2 events |

Why the bounds are enough to meet the interesting cases:

* *Queue manager.* Three requests of a session with limit 2 let one be refused
  because of another that is itself being refused; five requests with a global
  limit of 3 do the same for the server. Requests come back for ever, so every
  counter is raised and lowered through every interleaving.
* *Dispatcher.* Limits of 1 make every refusal and every way to lose a slot
  visible with three connections: one session exceeds its share, the other does
  not. For other limits there are the proofs.
* *Storage.* A tick is five minutes: the shipped sweep interval, orphan age and
  URL lifetime are 1, 3 and 6 ticks. `MaxAge` bounds the ages that are told
  apart: a directory older than the oldest one the sweeper distinguishes is
  treated as the same age. Two saves are enough for one to fill the directory
  that a sweep for the other is emptying.
* *Stream.* Two connections are enough for one to take the event the other was
  woken for, or the terminal event. Three events let a stream have sent one, hold
  one and find one in the channel. A stranger's connection is refused in its first
  step and adds nothing but states. One tick after the end the job is not yet
  expired, two ticks after it is.
* *Image comparison.* In 5 columns with a reach of 1 the divider has places within
  and out of reach on both sides, and a finger may be outside the container; two
  fingers are enough for the second to be judged by the first. The theorems hold
  for any of these numbers.
* *SSE client.* Two connections are needed to overwrite an id and to mix two jobs in
  a channel; two events let one be lost, or a terminal event follow another
  (`MaxEvents` bounds those of a job, `MaxSent` those of all jobs together). One error at a time
  waits to be handled (`NoErrorPending`).
* *Tool page.* Two runs overlap; a third would need the same steps again. The
  three tools are one that runs in the browser only, one that may fall back to
  the API, and one without an editor. A text and the empty editor are enough to
  tell a changed text from an unchanged one.

### What the violated runs show

* `RefusedOnlyAtSessionLimit`: a request raises the count of its session before
  comparing it, and so counts against others while it is being refused itself. It
  takes a full limit, a request that is being refused, and a release before that
  request has lowered the count again: whoever asks then is refused although there
  is room. (Two requests for one free slot cannot refuse each other.)
  `docs/architecture/11-rate-limiting.md` promises 429 only when the limit of
  concurrent jobs is exceeded.
* `TimeoutIs504`: a job its own timer cut off is answered with 500
  `ProcessorUnexpectedError`; `docs/architecture/03-api-surface.md` says 504.
* `SignedUrlsServed`: the output directory is itself an "orphaned temp directory"
  to the sweeper, which empties it while URLs into it are valid.
* `StreamOutlivesRunningJob`: a stream that has had to wait for an event crashes the
  next time it waits, because the tick it asked for before is still awaited;
  `docs/architecture/03-api-surface.md` closes a stream when its job is over. The
  same exception is what ends a stream whose terminal event went to another
  connection, so `StreamsEnd` holds by it.
* `MissedEventsReplayed`: an event that was being written when its connection broke
  has left the channel for good; the connection that follows is complete without
  it. `docs/architecture/03-api-surface.md` and `PROGRESS.md` promise a replay by
  `Last-Event-ID`, a header the server reads and does not use. What the program does
  with events instead is `EventsAccountedFor`.

More disagreements with the documents came to light while modelling and have no run:

* `new EventSource(url)` (`SseClient.js:6`) cannot send `X-Session-Token`, so the
  middleware answers every request of a stream with 400, and the channel is completed
  before anything is read; `docs/architecture/03-api-surface.md:9` says that every
  request carries the token. With a token the stream would still be empty:
  `StreamProgress` serialises a `JobEvent` without the `type` that `OnMessage` requires
  (a message of kind `"malformed"`). No page opens a stream yet.
* A request finds an expired job, the sweep removes it and disposes its token source,
  and linking that source throws (`JobEndpoints.cs:210`; in the model, `Link` ends in
  `"broken"`): 500, where `docs/architecture/03-api-surface.md:138` has 404.
  `LiveJobsAreServed` says that it takes an expired job.
* The user goes to another tool while a conversion is detecting its format; the
  detection fails, and the next page, which has submitted nothing, goes from Idle to
  Failed (`ToolPage.razor:260`). `PROGRESS.md:135` has Idle → Submitting → Processing →
  Completed | Failed. `disturbed` excuses this in the properties of the page.
* A dropped connection cancels its own stream and not the job (`JobEndpoints.cs:210`,
  `docs/architecture/02-job-model.md:24`).
* 503 `QueueFull` comes as soon as the slots are taken, with no queue of depth 50
  behind them (`JobQueueManager.cs:31`, `docs/architecture/02-job-model.md:110`).
* An exception's own message, or nothing at all, can reach the error panel
  (`ToolPage.razor:260`, `ApiJobClient.cs:102`, `docs/architecture/07-error-model.md:29`).

## 4. Fairness

Safety is checked and proved without fairness. The liveness properties assume:

* *Queue manager*: a thread between two atomic steps goes on, and whoever holds a
  slot calls `Release` (`ImplementsQueueManager` and `EveryRequestAnswered` justify
  this for the only caller).
* *Dispatcher*: every step of a request is taken in the end, which includes that a
  processor ends, by itself or because of its token, and that a write ends. No
  request has to be submitted, no client has to disconnect, no timer has to fire.
* *Storage*: time passes and the background service runs. Nobody has to save.
* *Stream*: a loop that can go on goes on, and a write to a client ends. The
  producer, the clock, the timer and the sweep do not have to do anything.
* *Tool page*: an await ends: a request is answered or `HttpClient` gives up, a
  yield returns. The user has to do nothing.
* *SSE client*: the browser hands over what has arrived, the reader's loop goes on,
  and the call of `close` returns. Nothing is asked of the network, the server or
  the caller.
* *Image comparison*: none; it has no liveness property.

All of it is weak fairness of actions that stay enabled until taken; no property
rests on strong fairness.

## 5. Proofs

TLAPS checks the theorems of seven modules, for every value of the constants: every
safety invariant and every refinement of section 3 that holds is proved. The
assumptions are those the component modules name:

* `QueueAssumption`, `DispatcherAssumption`: finitely many requests, each with a
  session, and limits that are natural numbers;
* `StorageAssumption`: an interval, an age and a lifetime of at least one tick, and
  an output directory that is not itself what somebody left behind;
* `StreamAssumption`: owners are among the streams, room for at least one event;
* `PageAssumption`: every tool has a kind and formats, its default among them;
  model values for "none" that are none of the values;
* `PreviewAssumption`: a container at least one column wide, key steps above 0;
* `ClientAssumption`: natural bounds, and messages of the kinds named.

An inductive invariant below was checked by TLC on the instance of its component's
run before it was proved.

**JobQueueManagerProofs.** The inductive invariant is `IInv == TypeOK /\ CountsMatch
/\ CountsBounded`: what `ExactCounts` and `LimitsHold` say (lemma `SameCounts`),
with every number of requests written as `Count(P, T)`, the number of requests of
the set `T` at a point of `P`. A step moves one thread, so it changes each count by
at most one and only if the thread enters or leaves `P` (`CountMoves`); the counter
the step changes follows. `ClampIsExact`: the clamp at 0 never takes effect, since
a request that lowers a counter is itself counted. `CountsBounded` needs
`CountsMatch`: the comparison in `EnterSession` and `EnterGlobal` sees a counter
that is never below the number of admitted jobs. `MoveIInv` puts these together
once for all actions.
`Refinement` maps each step to a step of `SlotPool` or a stutter; the refusals
need `ExactCounts` once more, to find the other requests the abstract guard
asks for.

* `TypeCorrect`, `CountersExact`, `WithinLimits`: the three invariants.
* `Refinement`: `Spec => Pool!Spec`.

**JobDispatcherProofs.** Each step of the dispatcher is a step of the queue manager
under `QueuePoint`, or leaves its state alone (`DispatcherUsesQueue`). The
invariants of the queue manager then hold for the dispatcher's counters by the
theorems already proved (`DispatcherWithinLimits`), with no second induction.
`SharesAreServed` uses the exact counts: the count of a session is at most the
number of its other connections when a request raises it. `DispatcherTyped` takes
the counters from the queue manager's invariant too, and adds by induction that a
timer that has fired belongs to a job that is running. `NoSlotLeaks` says what the
exact counts mean for the dispatcher: once the requests of a session are answered,
however their jobs ended, its count is 0. `DispatcherKeepsPool` composes the two
refinements: the dispatcher implements `SlotPool`.

**OutputStorageProofs.** `ElsewhereIsSafe` rests on `AwayInv`: with the outputs away
from `TempBasePath` the output directory is never listed, so it is never the one the
sweeper deletes, and a save finds the directory it made and the file it opened.
`OrphansGoInTime` rests on `OrphanInv`, which `OrphansRemovedInTime` needs because
the bound alone is not inductive. An orphan that is `Late` has outlived the bound, and
then either a deletion of it has failed within the last interval or one is due: during
the delay, the time since that failure and the rest of the delay stay within the
interval, or else the age and the rest of the delay within the bound; during a sweep,
an orphan that is no longer to be looked at, nor the one being deleted, is not too old
or has just resisted. Where
the output directory is, what a timestamp means and which deletions fail is arbitrary
in all of it.

**JobStreamProofs.** `EventsAreAccountedFor` needs the whole ledger, `LedgerInv`: the
channel holds the last events in their order, each event taken from it is with one
stream, held or sent, and a stream holds a later event than any it has sent. A
stream that is stopped between its read and its write keeps the event it held
(`HeldInv`): the event is lost to everybody else, and not doubled; and only a stream
whose client has gone or whose job was cancelled is stopped. `TerminalEndsItsStream`
adds that the terminal event is the last one published, `LiveJobsServed` that a
record is out of the store only if its job was over for longer than the retention.
`RoomInv` (the producer leaves room for the terminal event) keeps `published` within
its type.

**ToolPageProofs.** Lemma `ResumeSteps` reduces the steps of a run that is resumed, of
which there are many, to two: it ends, or it goes on. `NoSpinnerIsLeft` rests on
`SpinnerInv`, which is stronger than the property: while the page is converting one
of the runs in flight is *its own*. Without that, the last run of a page that
was left could end and leave the spinner of the next page alone. The
other three theorems are parts of one invariant, `CalmInv`: a page nobody has
disturbed has at most one run, which is its own and works on the page's text and,
once it has been routed, for its tool and format; so what it shows in the end
fits. They are not inductive one by one.

**ImagePreviewProofs.** Each theorem has an inductive invariant of its own beside
the types. `AlwaysWired` rests on `WiredInv`: `listening` and `_selfRef` are the same
reference at every step, although two are created and the first is forgotten.
`DragIsHeld` needs it to know that a container without listeners drags nothing, and
a lemma about `RemoveAt` (lifting one finger leaves the others). `DividerStaysUnderHand`
adds `GripInv`: if fingers are down while one pointer grips, there is one, and it is
on the container, so `touches[0]` is it. `KeyboardIsFree` rests on `KeyInv`: after a
key was dropped in vain the flag is down. `PreviewTyped` adds the bound on the number of
fingers to the types the other proofs use.

**SseClientProofs.** `ReaderSeesAFeed` maps every step to a step of `EventFeed` or to
one it does not see; reading moves an event from the channel to what was received
and changes their concatenation by nothing (`ReadKeepsGiven`), a message appends to
it (`WriteAppends`). `TerminalStaysFinal` then needs no second look at the steps of
connections: a step of the feed keeps terminal events last (`FeedKeepsTerminal`), and
a reader fails only on a channel that ended with an error, which a terminal event
rules out (`FinalInv`). `OnlyOverlookedAreLeft` rests on `KnownInv`: a connection whose
id was not lost is the one `DisposeAsync` will close. `FeedHasNoGaps` has the largest
invariant, `LiveInv`: while the channel is open there is for each job a last event
given; its next events are on the wire in order, up to an error; and unless an
error is among them the server has sent no others. An error that is handled completes
the channel, so what a reconnect repeats or skips no longer reaches the reader.

**Only model-checked**: the liveness properties `CallsReturn`, `EveryRequestAnswered`,
`SweepsGoOn`, `StreamsEnd`, `ConvertingEnds` and `ReaderIsReleased`. They rest on
fairness, whose proof rules need `ENABLED`, which TLAPS 1.4.5 does not handle. The
properties of the violated runs are refuted by TLC and have no theorem.

## 6. Not modelled, and why

* `ResolveOutputFormat`, `FormatDetector`, `ToolRegistry`, the arithmetic of the
  resize and quality options: pure; planned as operators (below).
* The rate limiter: its windows are a library's; what is its own is the order of
  the two limiters and the salt of the address hash. `SubmitJob`: a sequence of
  checks without state.
* The drop zone's own chip, the wrapper of the text editor and the aspect lock of
  the dimension inputs: small parts with stale values of their own (see the plan).
* The numbers a stream gives to its events, which start at 1 on every connection: the
  server does not use the `Last-Event-ID` that comes back. That nothing is replayed
  is shown by `MissedEventsReplayed`; `NoGaps` says that the client at least shows no
  feed with a hole, which a feed cut short also satisfies.
* In the dispatcher, an exception of `ResolveOutputFormat` or of lines 79-80, between
  `TryAcquire` and the `try`, which would lose a slot: no tool in the registry
  reaches one. In the sweep, an exception of `GetDirectories`.
* What `ShownMatchesPage`, `OneConversion`, `ProgressWhileConverting`, `NoConnectionLeft`,
  `DragNeedsHold` and `DividerUnderHand` excuse by their history variables: the steps
  are in the models, and the code does what the excuse says; no document decides what
  it should do instead (`hazards` in `PROJECT.json` names them).
* `ClientInterop.js`, `ThemeInterop.js`, `OutputPanel`: a download, a copy, a
  highlight, a stored setting: one call without state another step depends on.
  `codemirror-fileway.js` is a bundled library.
* Image, spreadsheet and data-format libraries: a processor is an await with the
  outcomes its contract allows.
* Start-up, dependency injection, security headers, logging, markup and styling:
  no behaviour that depends on order.

## 7. Plan

Done: `SlotPool`, `JobQueueManager`, `JobDispatcher`, `OutputStorage`, `JobStream`,
`ToolPage` with the drop zone's callback, `EventFeed` and `SseClient`, `ImagePreview`,
and the proofs of section 5. What is left:

1. `RateLimiter`: two chained sliding windows in segments; never more permits in
   a window than the limit; what a rejection by the second costs in the first.
2. `EditorSync`: the text of the page, of the editor's wrapper and of the editor,
   with a change before the editor has its id, and the echo of a change.
3. `DimensionInputs`: the ratio after the first callback has changed a parameter.
4. `SubmitJob`: the validation pipeline as a function from abstract requests to
   answers, checked against the order the API document gives.
5. `FormatDetection`, `Registry`, `ImageOptions`: pure operators against reference
   definitions over bounded inputs.
6. `SseClient` composed with `JobStream`, once something in the repository opens a
   stream.
7. Proofs: an abstract specification of a job's stream (each connection gets a part
   of the events in order, the terminal one last) that `JobStream` implements, and of
   the page (what is shown belongs to what was asked for) that `ToolPage` implements.
