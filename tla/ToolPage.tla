------------------------------ MODULE ToolPage ------------------------------
(***************************************************************************)
(* The client's tool page: Pages/ToolPage.razor with DropZone,             *)
(* ToolStateService, ProcessorRouter, DetectionService and ApiJobClient.   *)
(*                                                                         *)
(* A browser tab runs one thing at a time, but HandleConvert awaits: the   *)
(* detection of the input's format, the processor in the browser (which    *)
(* yields before it starts), the answer of the API.  At each await the     *)
(* user may type, choose a format, go to another tool or leave the page.   *)
(* Going from tool to tool keeps the component and cancels its newest run; *)
(* leaving disposes the component and cancels nothing.  ToolStateService   *)
(* is one per tab: runs of a component that is gone still write to it, and *)
(* so does a drop zone that is gone, once it has read its file.            *)
(*                                                                         *)
(* One action is what happens between two awaits.  A run reads the page's  *)
(* tool and output format when detection has ended, not when it started.   *)
(***************************************************************************)
EXTENDS Integers, FiniteSets

CONSTANTS
  Tools,              (* the slugs of the registry, aliases included       *)
  NoTool,             (* _tool when the slug is unknown                    *)
  Kind,               (* Kind[t]: ToolDefinition.ProcessorKind             *)
  NeedsFile,          (* tools with RequiresFileInput: no editor           *)
  Inputs, Empty,      (* contents of the editor                            *)
  Formats,
  OutputFormats,      (* OutputFormats[t]                                  *)
  DefaultFormat,      (* DefaultFormat[t]: what a page starts with         *)
  Runs,               (* calls of HandleConvert that can be in flight      *)
  MaxDrops,           (* bound: files that drop zones read at a time       *)
  NoResult, NoRun     (* null in _syncResult and in _cts                   *)

AnyTool == Tools \cup {NoTool}
Result  == [tool : AnyTool, input : Inputs, format : Formats]

ASSUME PageAssumption ==
  /\ NoTool \notin Tools /\ Empty \notin Inputs
  /\ Kind \in [Tools -> {"WasmOnly", "WasmPreferred", "ApiOnly"}]
  /\ NeedsFile \subseteq Tools
  /\ OutputFormats \in [Tools -> SUBSET Formats \ {{}}]
  /\ DefaultFormat \in [AnyTool -> Formats]
  /\ \A t \in Tools : DefaultFormat[t] \in OutputFormats[t]
  /\ IsFiniteSet(Runs) /\ NoRun \notin Runs /\ NoResult \notin Result
  /\ MaxDrops \in Nat

VARIABLES
  mounted,            (* a ToolPage component is shown                     *)
  tool,               (* its _tool                                         *)
  inputText,          (* its _inputText                                    *)
  selected,           (* its _selectedOutputFormat                         *)
  isConverting,       (* its _isConverting                                 *)
  shown,              (* its _syncResult and _outputText                   *)
  newest,             (* the run whose token source is in _cts             *)
  state, error,       (* ToolStateService.State, and what Fail was told    *)
  run,                (* run[k]: a call of HandleConvert                   *)
  drops,              (* calls of DropZone.HandleFile in flight            *)
  disturbed           (* history: the user did something a run in flight   *)
                      (* or a shown result does not know of                *)

vars == <<mounted, tool, inputText, selected, isConverting, shown, newest,
          state, error, run, drops, disturbed>>

page    == <<mounted, tool, inputText>>
service == <<state, error>>

(* A run is identified by its place in Runs; "over" is a free place.  Its  *)
(* tool and format are those it was given to the processor or the API; a   *)
(* detached one belongs to a component that is gone, with its last _tool.  *)
Phases == {"over", "detecting", "browser", "api"}
Over   == [phase |-> "over", input |-> Empty, tool |-> NoTool,
           format |-> DefaultFormat[NoTool], cancelled |-> FALSE,
           detached |-> FALSE, lastTool |-> NoTool]

InFlight == {k \in Runs : run[k].phase # "over"}

(* Errors: an error code or a message written for the user, retryable or   *)
(* not; the message of whatever exception came; nothing at all.            *)
Messages == {"forUser", "retryable", "rawException", "nothing"}

TypeOK ==
  /\ mounted \in BOOLEAN /\ isConverting \in BOOLEAN /\ disturbed \in BOOLEAN
  /\ tool \in AnyTool
  /\ inputText \in Inputs \cup {Empty}
  /\ selected \in Formats
  /\ shown \in Result \cup {NoResult}
  /\ newest \in Runs \cup {NoRun}
  /\ state \in {"Idle", "Submitting", "Completed", "Failed"}
  /\ error \in Messages \cup {"none"}
  /\ state = "Failed" => error # "none"
  /\ state \in {"Idle", "Submitting"} => error = "none"
  /\ run \in [Runs -> [phase : Phases, input : Inputs \cup {Empty}, tool : AnyTool,
                       format : Formats, cancelled : BOOLEAN, detached : BOOLEAN,
                       lastTool : AnyTool]]
  /\ \A k \in Runs : run[k].phase = "over" => run[k] = Over
  /\ drops \in 0..MaxDrops

-----------------------------------------------------------------------------
(* ToolStateService.                                                       *)
Reset           == state' = "Idle" /\ error' = "none"

(* Mutant: the error of the last run is not reset.                         *)
BeginSubmittingDirty == state' = "Submitting" /\ UNCHANGED error

BeginSubmitting == state' = "Submitting" /\ error' = "none"
CompleteSync    == state' = "Completed" /\ UNCHANGED error
Fail(message)   == state' = "Failed" /\ error' = message

Init ==
  /\ mounted = FALSE /\ tool = NoTool /\ inputText = Empty
  /\ selected = DefaultFormat[NoTool]
  /\ isConverting = FALSE /\ shown = NoResult /\ newest = NoRun
  /\ state = "Idle" /\ error = "none"
  /\ run = [k \in Runs |-> Over]
  /\ drops = 0 /\ disturbed = FALSE

(* What a page for tool t starts with.                                     *)
FreshFields(t) ==
  /\ tool' = t
  /\ inputText' = Empty
  /\ selected' = DefaultFormat[t]
  /\ isConverting' = FALSE
  /\ shown' = NoResult

(* A new component: OnParametersSet sees _tool change from null, unless    *)
(* the slug is unknown.                                                    *)
Mount(t) ==
  /\ ~mounted
  /\ mounted' = TRUE
  /\ FreshFields(t)
  /\ newest' = NoRun
  /\ IF t = NoTool THEN UNCHANGED service ELSE Reset
  /\ disturbed' = (InFlight # {})
  /\ UNCHANGED <<run, drops>>

(* Another slug for the same component: OnParametersSet.                   *)
Navigate(t) ==
  /\ mounted /\ t # tool
  /\ FreshFields(t)
  /\ run' = [k \in Runs |-> IF k = newest /\ k \in InFlight
                            THEN [run[k] EXCEPT !.cancelled = TRUE] ELSE run[k]]
  /\ Reset
  /\ disturbed' = (InFlight # {})
  /\ UNCHANGED <<mounted, newest, drops>>

(* Dispose: a run still in flight keeps what the component's fields say.   *)
Leave ==
  /\ mounted
  /\ mounted' = FALSE
  /\ FreshFields(NoTool)
  /\ newest' = NoRun
  /\ run' = [k \in Runs |->
       IF k \notin InFlight \/ run[k].detached THEN run[k]
       ELSE [run[k] EXCEPT !.detached = TRUE, !.lastTool = tool,
                           !.format = IF run[k].phase = "detecting" THEN selected ELSE @]]
  /\ disturbed' = (InFlight # {})
  /\ UNCHANGED <<service, drops>>

HasEditor == tool \in Tools \ NeedsFile

(* Mutant: a finished result stays when the text it came from has changed. *)
HandleInputKeepsResult(text) ==
  /\ HasEditor
  /\ inputText' = text
  /\ disturbed' = (disturbed \/ InFlight # {})
  /\ UNCHANGED <<mounted, tool, selected, isConverting, newest, run, drops, shown, service>>

HandleInputChanged(text) ==
  /\ HasEditor
  /\ inputText' = text
  /\ IF state \in {"Completed", "Failed"}
     THEN Reset /\ shown' = NoResult
     ELSE UNCHANGED <<service, shown>>
  /\ disturbed' = (disturbed \/ InFlight # {})
  /\ UNCHANGED <<mounted, tool, selected, isConverting, newest, run, drops>>

(* The selector is there when the tool has more than one output format.    *)
HandleFormatSelected(f) ==
  /\ tool \in Tools /\ OutputFormats[tool] \ {f} # {}
  /\ f \in OutputFormats[tool] \ {selected}
  /\ selected' = f
  /\ disturbed' = (disturbed \/ InFlight # {} \/ shown # NoResult)
  /\ UNCHANGED <<page, isConverting, shown, newest, service, run, drops>>

(* DropZone.HandleFile, up to the end of reading and detecting.            *)
HandleFile ==
  /\ tool \in NeedsFile /\ drops < MaxDrops
  /\ drops' = drops + 1
  /\ UNCHANGED <<page, selected, isConverting, shown, newest, service, run, disturbed>>

(* The rest of it: the page is told, whatever page that is now and whether *)
(* it is still there.                                                      *)
HandleFileSelected ==
  /\ drops > 0
  /\ drops' = drops - 1
  /\ Reset
  /\ disturbed' = (disturbed \/ InFlight # {})
  /\ UNCHANGED <<page, selected, isConverting, shown, newest, run>>

(* The file is too large or cannot be read: the catch block tells nobody.  *)
FileUnreadable ==
  /\ drops > 0
  /\ drops' = drops - 1
  /\ UNCHANGED <<page, selected, isConverting, shown, newest, service, run, disturbed>>

(* The panel's "Try again" only clears the error.                          *)
HandleRetry ==
  /\ tool \in Tools /\ state = "Failed" /\ error = "retryable"
  /\ shown' = NoResult
  /\ Reset
  /\ UNCHANGED <<page, selected, isConverting, newest, run, drops, disturbed>>

-----------------------------------------------------------------------------
(* Mutant: nothing keeps a second conversion from starting.                *)
HandleConvertUnguarded(k) ==
  /\ HasEditor /\ inputText # Empty
  /\ run[k].phase = "over"
  /\ isConverting' = TRUE
  /\ shown' = NoResult
  /\ BeginSubmitting
  /\ newest' = k
  /\ run' = [run EXCEPT ![k] = [Over EXCEPT !.phase = "detecting", !.input = inputText]]
  /\ disturbed' = (disturbed /\ InFlight # {})
  /\ UNCHANGED <<page, selected, drops>>

(* HandleConvert up to the first await.  The token source of an older run  *)
(* is disposed, not cancelled.                                             *)
HandleConvert(k) ==
  /\ HasEditor /\ inputText # Empty /\ ~isConverting
  /\ run[k].phase = "over"
  /\ isConverting' = TRUE
  /\ shown' = NoResult
  /\ BeginSubmitting
  /\ newest' = k
  /\ run' = [run EXCEPT ![k] = [Over EXCEPT !.phase = "detecting", !.input = inputText]]
  /\ disturbed' = (disturbed /\ InFlight # {})
  /\ UNCHANGED <<page, selected, drops>>

(* Mutant: no finally block.                                               *)
FinishForgets(k) ==
  /\ run' = [run EXCEPT ![k] = Over]
  /\ newest' = IF newest = k THEN NoRun ELSE newest
  /\ UNCHANGED <<page, drops, disturbed, isConverting>>

(* The finally block, for a component that is still there or for one that  *)
(* is gone.                                                                *)
Finish(k) ==
  /\ run' = [run EXCEPT ![k] = Over]
  /\ newest' = IF newest = k THEN NoRun ELSE newest
  /\ isConverting' = IF run[k].detached THEN isConverting ELSE FALSE
  /\ UNCHANGED <<page, drops, disturbed>>

(* Mutant: a cancelled run just ends.                                      *)
EndCancelledSilently(k) == Finish(k) /\ UNCHANGED <<service, selected, shown>>

(* catch blocks: OperationCanceledException; the others.                   *)
EndCancelled(k) == Finish(k) /\ Reset /\ UNCHANGED <<selected, shown>>

EndFailed(k, message) == Finish(k) /\ Fail(message) /\ UNCHANGED <<selected, shown>>

(* The tool and format the run finds in its component.                     *)
ToolOf(k)   == IF run[k].detached THEN run[k].lastTool ELSE tool
FormatOf(k) == IF run[k].detached THEN run[k].format ELSE selected

GoOn(k, phase, format) ==
  /\ run' = [run EXCEPT ![k].phase = phase, ![k].tool = ToolOf(k), ![k].format = format]
  /\ UNCHANGED <<page, selected, isConverting, shown, newest, service, drops, disturbed>>

(* ApiJobClient.SubmitAsync: _tool is read once more, which fails if the   *)
(* slug is unknown; a cancelled token stops it before anything is sent.    *)
SubmitAsync(k, format) ==
  \/ ToolOf(k) = NoTool /\ EndFailed(k, "rawException")
  \/ ToolOf(k) # NoTool /\ run[k].cancelled /\ EndCancelled(k)
  \/ ToolOf(k) # NoTool /\ ~run[k].cancelled /\ GoOn(k, "api", format)

(* DetectAsync returns null, also for a cancelled request.                 *)
DetectionFails(k) ==
  /\ run[k].phase = "detecting"
  /\ EndFailed(k, "forUser")

(* A format was found (perhaps just before the token was cancelled), and   *)
(* TryRunWasmAsync routes: to the browser, or (no processor there, or the  *)
(* input is too large for it) to the API.  Each WasmOnly tool of the       *)
(* registry has its processor in the browser, so none of them goes there.  *)
DetectionSucceeds(k) ==
  /\ run[k].phase = "detecting"
  /\ \/ /\ ToolOf(k) = NoTool
        /\ EndFailed(k, "rawException")
     \/ /\ ToolOf(k) \in Tools /\ Kind[ToolOf(k)] # "ApiOnly"
        /\ GoOn(k, "browser", FormatOf(k))
     \/ /\ ToolOf(k) \in Tools /\ Kind[ToolOf(k)] # "WasmOnly"
        /\ SubmitAsync(k, FormatOf(k))

(* ApplyWasmResultAsync, ApplyApiResult.                                   *)
ShowResult(k, format) ==
  /\ Finish(k)
  /\ CompleteSync
  /\ shown' = IF run[k].detached THEN shown
              ELSE [tool |-> run[k].tool, input |-> run[k].input, format |-> format]

(* The processor looks at the token after its first yield and then runs to *)
(* its end; the format of the output is its own choice.                    *)
BrowserCancelled(k) ==
  /\ run[k].phase = "browser" /\ run[k].cancelled
  /\ EndCancelled(k)

BrowserReturns(k) ==
  /\ run[k].phase = "browser" /\ ~run[k].cancelled
  /\ \/ /\ ToolOf(k) = NoTool
        /\ EndFailed(k, "rawException")
     \/ /\ ToolOf(k) # NoTool
        /\ \E f \in OutputFormats[run[k].tool] :
             /\ ShowResult(k, f)
             /\ selected' = IF run[k].detached THEN selected ELSE f

(* Domain and validation errors carry a code; any other exception shows    *)
(* its own message, except that a WasmPreferred tool hands an unexpected   *)
(* error over to the API.                                                  *)
BrowserThrows(k) ==
  /\ run[k].phase = "browser" /\ ~run[k].cancelled
  /\ \/ EndFailed(k, "forUser")
     \/ EndFailed(k, "rawException")
     \/ Kind[run[k].tool] = "WasmPreferred" /\ SubmitAsync(k, run[k].format)

(* 200.                                                                    *)
ApiReturns(k) ==
  /\ run[k].phase = "api"
  /\ ShowResult(k, run[k].format)
  /\ UNCHANGED selected

(* A problem from the server (or 202, which the page does not expect), an  *)
(* error body without one, or no usable answer at all.                     *)
ApiFails(k) ==
  /\ run[k].phase = "api"
  /\ \E message \in Messages : EndFailed(k, message)

(* The token is cancelled or HttpClient gives up waiting: the same         *)
(* exception.                                                              *)
ApiCancelled(k) ==
  /\ run[k].phase = "api"
  /\ EndCancelled(k)

Resume(k) ==
  \/ DetectionFails(k) \/ DetectionSucceeds(k)
  \/ BrowserCancelled(k) \/ BrowserReturns(k) \/ BrowserThrows(k)
  \/ ApiReturns(k) \/ ApiFails(k) \/ ApiCancelled(k)

User ==
  \/ \E t \in AnyTool : Mount(t) \/ Navigate(t)
  \/ Leave
  \/ \E text \in Inputs \cup {Empty} : HandleInputChanged(text)
  \/ \E f \in Formats : HandleFormatSelected(f)
  \/ HandleFile
  \/ HandleRetry
  \/ \E k \in Runs : HandleConvert(k)

Next ==
  \/ User
  \/ \E k \in Runs : Resume(k)
  \/ HandleFileSelected \/ FileUnreadable

Spec == Init /\ [][Next]_vars

(* Every await ends: a request is answered or times out, a yield returns.  *)
(* The user need not do anything.                                          *)
Fairness == \A k \in Runs : WF_vars(Resume(k))

FairSpec == Spec /\ Fairness

-----------------------------------------------------------------------------
(* The progress panel and the spinner of the button are never left behind: *)
(* whatever runs overlapped, were cancelled or outlived their component,   *)
(* one of them is still in flight while either is shown.                   *)
NoSpinnerWithoutRun == isConverting \/ state = "Submitting" => InFlight # {}

(* As long as the user stays on the page no two conversions overlap, and   *)
(* the button is disabled exactly while one is in flight.                  *)
OneConversion ==
  disturbed \/ (Cardinality(InFlight) =< 1 /\ (isConverting <=> InFlight # {}))

(* The page and the tab's service agree: as long as nothing disturbed the  *)
(* run, its progress is shown all the time the button is disabled.         *)
ProgressWhileConverting == isConverting /\ ~disturbed => state = "Submitting"

(* What is shown as completed is what this page's tool made of the text in *)
(* the editor, in the format selected, unless the user did not wait for    *)
(* the run to end or changed the format afterwards.                        *)
ShownMatchesPage ==
  tool \in Tools /\ state = "Completed" /\ ~disturbed =>
    shown = [tool |-> tool, input |-> inputText, format |-> selected]

(* The button can always be pressed again.                                 *)
ConvertingEnds == isConverting ~> ~isConverting

=============================================================================
