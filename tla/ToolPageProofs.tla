--------------------------- MODULE ToolPageProofs ---------------------------
(***************************************************************************)
(* For any tools, formats and texts and any number of conversions in       *)
(* flight: no spinner is left behind, and a page nobody disturbs runs one  *)
(* conversion, shows its progress, and then what it made of its input.     *)
(***************************************************************************)
EXTENDS ToolPage, FiniteSetTheorems, TLAPS

(* What a run in flight holds.                                             *)
RunInv ==
  \A k \in Runs :
    /\ run[k].phase # "over" => run[k].input \in Inputs
    /\ run[k].phase \in {"browser", "api"} => run[k].tool \in Tools

ARun == [phase : Phases, input : Inputs \cup {Empty}, tool : AnyTool, format : Formats,
         cancelled : BOOLEAN, detached : BOOLEAN, lastTool : AnyTool]

(* A run that is resumed ends, and tells the tab's service, or goes on.    *)
Shows(k, f) ==
  /\ run[k].phase \in {"browser", "api"}
  /\ CompleteSync
  /\ shown' = IF run[k].detached THEN shown
              ELSE [tool |-> run[k].tool, input |-> run[k].input, format |-> f]
  /\ \/ selected' = IF run[k].detached THEN selected ELSE f
     \/ f = run[k].format /\ UNCHANGED selected

Ends(k) ==
  /\ k \in InFlight /\ Finish(k)
  /\ \/ Reset /\ UNCHANGED <<selected, shown>>
     \/ \E m \in Messages : Fail(m) /\ UNCHANGED <<selected, shown>>
     \/ \E f \in Formats : Shows(k, f)

Continues(k) ==
  /\ k \in InFlight /\ ToolOf(k) \in Tools
  /\ \E phase \in {"browser", "api"}, f \in Formats :
       /\ GoOn(k, phase, f)
       /\ f = FormatOf(k) \/ (run[k].phase = "browser" /\ f = run[k].format)

LEMMA RunTyped ==
  ASSUME TypeOK, NEW k \in Runs
  PROVE  run[k] \in ARun /\ ToolOf(k) \in AnyTool /\ FormatOf(k) \in Formats
BY DEF TypeOK, ARun, ToolOf, FormatOf

LEMMA OverTyped == Over \in ARun /\ Over.phase = "over"
<1>1. DefaultFormat[NoTool] \in Formats
  BY PageAssumption DEF AnyTool
<1>2. QED
  BY <1>1 DEF Over, ARun, Phases, AnyTool

LEMMA SubmitSteps ==
  ASSUME TypeOK, NEW k \in Runs, k \in InFlight, NEW f \in Formats, SubmitAsync(k, f),
         f = FormatOf(k) \/ (run[k].phase = "browser" /\ f = run[k].format)
  PROVE  Ends(k) \/ Continues(k)
<1>1. CASE EndFailed(k, "rawException")
  BY <1>1 DEF EndFailed, Ends, Messages
<1>2. CASE EndCancelled(k)
  BY <1>2 DEF EndCancelled, Ends
<1>3. CASE ToolOf(k) # NoTool /\ GoOn(k, "api", f)
  BY <1>3, RunTyped DEF Continues, AnyTool
<1>4. QED
  BY <1>1, <1>2, <1>3 DEF SubmitAsync

LEMMA ResumeSteps ==
  ASSUME TypeOK, RunInv, NEW k \in Runs, Resume(k)
  PROVE  Ends(k) \/ Continues(k)
<1>a. run[k] \in ARun /\ ToolOf(k) \in AnyTool /\ FormatOf(k) \in Formats
  BY RunTyped
<1>b. run[k].format \in Formats
  BY <1>a DEF ARun
<1>1. CASE DetectionFails(k)
  BY <1>1 DEF DetectionFails, EndFailed, Ends, InFlight, Messages
<1>2. CASE DetectionSucceeds(k)
  <2>1. k \in InFlight
    BY <1>2 DEF DetectionSucceeds, InFlight
  <2>2. CASE EndFailed(k, "rawException")
    BY <2>1, <2>2 DEF EndFailed, Ends, Messages
  <2>3. CASE ToolOf(k) \in Tools /\ GoOn(k, "browser", FormatOf(k))
    BY <1>a, <2>1, <2>3 DEF Continues
  <2>4. CASE SubmitAsync(k, FormatOf(k))
    BY <1>a, <2>1, <2>4, SubmitSteps
  <2>5. QED
    BY <1>2, <2>2, <2>3, <2>4 DEF DetectionSucceeds
<1>3. CASE BrowserCancelled(k)
  BY <1>3 DEF BrowserCancelled, EndCancelled, Ends, InFlight
<1>4. CASE BrowserReturns(k)
  <2>1. k \in InFlight
    BY <1>4 DEF BrowserReturns, InFlight
  <2>2. CASE EndFailed(k, "rawException")
    BY <2>1, <2>2 DEF EndFailed, Ends, Messages
  <2>3. CASE \E f \in OutputFormats[run[k].tool] :
               ShowResult(k, f) /\ selected' = IF run[k].detached THEN selected ELSE f
    <3>1. OutputFormats[run[k].tool] \subseteq Formats
      BY <1>4, PageAssumption DEF BrowserReturns, RunInv
    <3>2. QED
      BY <1>4, <2>1, <2>3, <3>1 DEF BrowserReturns, ShowResult, Ends, Shows
  <2>4. QED
    BY <1>4, <2>2, <2>3 DEF BrowserReturns
<1>5. CASE BrowserThrows(k)
  <2>1. k \in InFlight /\ run[k].phase = "browser"
    BY <1>5 DEF BrowserThrows, InFlight
  <2>2. CASE EndFailed(k, "forUser") \/ EndFailed(k, "rawException")
    BY <2>1, <2>2 DEF EndFailed, Ends, Messages
  <2>3. CASE SubmitAsync(k, run[k].format)
    BY <1>b, <2>1, <2>3, SubmitSteps
  <2>4. QED
    BY <1>5, <2>2, <2>3 DEF BrowserThrows
<1>6. CASE ApiReturns(k)
  BY <1>6, <1>b DEF ApiReturns, ShowResult, Ends, Shows, InFlight
<1>7. CASE ApiFails(k)
  BY <1>7 DEF ApiFails, EndFailed, Ends, InFlight
<1>8. CASE ApiCancelled(k)
  BY <1>8 DEF ApiCancelled, EndCancelled, Ends, InFlight
<1>9. QED
  BY <1>1, <1>2, <1>3, <1>4, <1>5, <1>6, <1>7, <1>8 DEF Resume

-----------------------------------------------------------------------------
(* What happens to the runs: they stay as they are, a new one starts, they *)
(* are cancelled or detached, or one of them ends or goes on.              *)
LEMMA NextRuns ==
  ASSUME TypeOK, RunInv, [Next]_vars
  PROVE  /\ run' \in [Runs -> ARun] /\ RunInv'
         /\ \A k \in Runs : run'[k].phase = "over" => run'[k] = Over
<1> DEFINE Fine == /\ run' \in [Runs -> ARun] /\ RunInv'
                   /\ \A k \in Runs : run'[k].phase = "over" => run'[k] = Over
<1>a. run \in [Runs -> ARun] /\ \A k \in Runs : run[k].phase = "over" => run[k] = Over
  BY DEF TypeOK, ARun
<1>1. CASE run' = run
  BY <1>1, <1>a DEF RunInv
<1>2. ASSUME NEW t \in AnyTool, Navigate(t)
      PROVE  Fine
  BY <1>2, <1>a DEF Navigate, RunInv, ARun, InFlight
<1>3. CASE Leave
  <2>1. tool \in AnyTool /\ selected \in Formats
    BY DEF TypeOK
  <2>2. ASSUME NEW k \in Runs
        PROVE  /\ run'[k] \in ARun /\ run'[k].phase = run[k].phase
               /\ run'[k].input = run[k].input /\ run'[k].tool = run[k].tool
               /\ run'[k].phase = "over" => run'[k] = run[k]
    <3>1. CASE k \notin InFlight \/ run[k].detached
      BY <1>3, <1>a, <3>1 DEF Leave
    <3>2. CASE ~(k \notin InFlight \/ run[k].detached)
      <4> DEFINE format == IF run[k].phase = "detecting" THEN selected ELSE run[k].format
      <4>1. run'[k] = [run[k] EXCEPT !.detached = TRUE, !.lastTool = tool, !.format = format]
        BY <1>3, <1>a, <3>2 DEF Leave, ARun
      <4>2. format \in Formats
        BY <1>a, <2>1 DEF ARun
      <4>3. run[k].phase # "over"
        BY <3>2 DEF InFlight
      <4> HIDE DEF format
      <4>4. run[k] \in ARun
        BY <1>a
      <4>5. run'[k] \in ARun
        BY <2>1, <4>1, <4>2, <4>4 DEF ARun
      <4>6. /\ run'[k].phase = run[k].phase
            /\ run'[k].input = run[k].input /\ run'[k].tool = run[k].tool
        BY <4>1, <4>4 DEF ARun
      <4>7. QED
        BY <4>3, <4>5, <4>6
    <3>3. QED
      BY <3>1, <3>2
  <2>3. DOMAIN run' = Runs /\ run' = [k \in Runs |-> run'[k]]
    BY <1>3 DEF Leave
  <2>4. QED
    BY <1>a, <2>2, <2>3 DEF RunInv
<1>4. ASSUME NEW k \in Runs, HandleConvert(k)
      PROVE  Fine
  <2> DEFINE new == [Over EXCEPT !.phase = "detecting", !.input = inputText]
  <2>1. inputText \in Inputs
    BY <1>4 DEF HandleConvert, TypeOK
  <2>2. new \in ARun /\ new.phase = "detecting" /\ new.input = inputText
    BY <2>1, OverTyped DEF ARun, Over, Phases
  <2>3. run' = [run EXCEPT ![k] = new]
    BY <1>4 DEF HandleConvert
  <2> HIDE DEF new
  <2>4. QED
    BY <1>a, <2>1, <2>2, <2>3 DEF RunInv
<1>5. ASSUME NEW k \in Runs, Ends(k)
      PROVE  Fine
  <2>1. run' = [run EXCEPT ![k] = Over]
    BY <1>5 DEF Ends, Finish
  <2>2. QED
    BY <1>a, <2>1, OverTyped DEF RunInv
<1>6. ASSUME NEW k \in Runs, Continues(k)
      PROVE  Fine
  <2>1. PICK phase \in {"browser", "api"}, f \in Formats : GoOn(k, phase, f)
    BY <1>6 DEF Continues
  <2>2. ToolOf(k) \in Tools /\ run[k].phase # "over"
    BY <1>6 DEF Continues, InFlight
  <2>3. run' = [run EXCEPT ![k] = [run[k] EXCEPT !.phase = phase, !.tool = ToolOf(k), !.format = f]]
    BY <2>1, <1>a DEF GoOn, ARun
  <2> HIDE DEF ToolOf
  <2>4. QED
    BY <1>a, <2>2, <2>3 DEF RunInv, ARun, Phases, AnyTool
<1>7. QED
  <2>1. CASE User
    BY <2>1, <1>1, <1>2, <1>3, <1>4
       DEF User, Mount, HandleInputChanged, HandleFormatSelected, HandleFile, HandleRetry
  <2>2. ASSUME NEW k \in Runs, Resume(k)
        PROVE  Fine
    BY <2>2, <1>5, <1>6, ResumeSteps
  <2>3. CASE HandleFileSelected \/ FileUnreadable \/ UNCHANGED vars
    BY <2>3, <1>1 DEF HandleFileSelected, FileUnreadable, vars
  <2>4. QED
    BY <2>1, <2>2, <2>3 DEF Next

-----------------------------------------------------------------------------
(* The rest of the state, flags apart from fields.                         *)
Flags == mounted \in BOOLEAN /\ isConverting \in BOOLEAN /\ disturbed \in BOOLEAN

Service ==
  /\ state \in {"Idle", "Submitting", "Completed", "Failed"}
  /\ error \in Messages \cup {"none"}
  /\ state = "Failed" => error # "none"
  /\ state \in {"Idle", "Submitting"} => error = "none"

Fields ==
  /\ tool \in AnyTool
  /\ inputText \in Inputs \cup {Empty}
  /\ selected \in Formats
  /\ shown \in Result \cup {NoResult}
  /\ newest \in Runs \cup {NoRun}
  /\ drops \in 0..MaxDrops

LEMMA NextFlags == TypeOK /\ RunInv /\ [Next]_vars => Flags'
<1> SUFFICES ASSUME TypeOK, RunInv, [Next]_vars
             PROVE  Flags'
  OBVIOUS
<1>a. mounted \in BOOLEAN /\ isConverting \in BOOLEAN /\ disturbed \in BOOLEAN
  BY DEF TypeOK
<1>1. ASSUME NEW t \in AnyTool, Mount(t) \/ Navigate(t)
      PROVE  Flags'
  BY <1>1, <1>a DEF Mount, Navigate, FreshFields, Flags
<1>2. CASE Leave
  BY <1>2, <1>a DEF Leave, FreshFields, Flags
<1>3. ASSUME NEW text \in Inputs \cup {Empty}, HandleInputChanged(text)
      PROVE  Flags'
  BY <1>3, <1>a DEF HandleInputChanged, Flags
<1>4. ASSUME NEW f \in Formats, HandleFormatSelected(f)
      PROVE  Flags'
  BY <1>4, <1>a DEF HandleFormatSelected, page, Flags
<1>5. CASE HandleFile \/ HandleFileSelected \/ FileUnreadable \/ HandleRetry
  BY <1>5, <1>a DEF HandleFile, HandleFileSelected, FileUnreadable, HandleRetry, page, Flags
<1>6. ASSUME NEW k \in Runs, HandleConvert(k)
      PROVE  Flags'
  BY <1>6, <1>a DEF HandleConvert, page, Flags
<1>7. ASSUME NEW k \in Runs, Ends(k) \/ Continues(k)
      PROVE  Flags'
  BY <1>7, <1>a DEF Ends, Continues, Finish, GoOn, page, Flags
<1>8. CASE UNCHANGED vars
  BY <1>8, <1>a DEF vars, Flags
<1>9. QED
  BY <1>1, <1>2, <1>3, <1>4, <1>5, <1>6, <1>7, <1>8, ResumeSteps DEF Next, User

LEMMA NextFields == TypeOK /\ RunInv /\ [Next]_vars => Fields' /\ Service'
<1> SUFFICES ASSUME TypeOK, RunInv, [Next]_vars
             PROVE  Fields' /\ Service'
  OBVIOUS
<1>a. Fields /\ Service
  BY DEF TypeOK, Fields, Service
<1>b. \A t \in AnyTool : DefaultFormat[t] \in Formats
  BY PageAssumption
<1>c. MaxDrops \in Nat /\ Tools \subseteq AnyTool /\ NoTool \in AnyTool
  BY PageAssumption DEF AnyTool
<1>1. ASSUME NEW t \in AnyTool, Mount(t) \/ Navigate(t)
      PROVE  Fields' /\ Service'
  BY <1>1, <1>a, <1>b DEF Mount, Navigate, FreshFields, Reset, service, Fields, Service
<1>2. CASE Leave
  BY <1>2, <1>a, <1>b, <1>c DEF Leave, FreshFields, service, Fields, Service
<1>3. ASSUME NEW text \in Inputs \cup {Empty}, HandleInputChanged(text)
      PROVE  Fields' /\ Service'
  BY <1>3, <1>a DEF HandleInputChanged, Reset, service, Fields, Service
<1>4. ASSUME NEW f \in Formats, HandleFormatSelected(f)
      PROVE  Fields' /\ Service'
  BY <1>4, <1>a DEF HandleFormatSelected, page, service, Fields, Service
<1>5. CASE HandleFile \/ HandleFileSelected \/ FileUnreadable \/ HandleRetry
  BY <1>5, <1>a, <1>c DEF HandleFile, HandleFileSelected, FileUnreadable, HandleRetry,
                          Reset, page, service, Fields, Service
<1>6. ASSUME NEW k \in Runs, HandleConvert(k)
      PROVE  Fields' /\ Service'
  BY <1>6, <1>a DEF HandleConvert, BeginSubmitting, page, Fields, Service
<1>7. ASSUME NEW k \in Runs, Continues(k)
      PROVE  Fields' /\ Service'
  BY <1>7, <1>a DEF Continues, GoOn, page, service, Fields, Service
<1>8. ASSUME NEW k \in Runs, Ends(k)
      PROVE  Fields' /\ Service'
  <2>1. UNCHANGED <<tool, inputText, drops>> /\ newest' \in Runs \cup {NoRun}
    BY <1>8, <1>a DEF Ends, Finish, page, Fields
  <2>2. CASE UNCHANGED <<selected, shown>> /\ (Reset \/ \E m \in Messages : Fail(m))
    BY <1>a, <2>1, <2>2 DEF Fields, Service, Reset, Fail, Messages
  <2>3. CASE \E f \in Formats : Shows(k, f)
    <3>1. PICK f \in Formats : Shows(k, f)
      BY <2>3
    <3>2. Service' /\ selected' \in Formats
      BY <1>a, <3>1 DEF Shows, CompleteSync, Fields, Service
    <3>3. run[k].tool \in AnyTool /\ run[k].input \in Inputs
      BY <1>c, <3>1 DEF Shows, RunInv
    <3>4. [tool |-> run[k].tool, input |-> run[k].input, format |-> f] \in Result
      BY <3>3 DEF Result
    <3>5. shown' \in Result \cup {NoResult}
      BY <1>a, <3>1, <3>4 DEF Shows, Fields
    <3>6. QED
      BY <1>a, <2>1, <3>2, <3>5 DEF Fields
  <2>4. QED
    BY <1>8, <2>2, <2>3 DEF Ends
<1>9. CASE UNCHANGED vars
  BY <1>9, <1>a DEF vars, service, Fields, Service
<1>10. QED
  BY <1>1, <1>2, <1>3, <1>4, <1>5, <1>6, <1>7, <1>8, <1>9, ResumeSteps DEF Next, User

LEMMA InitTyped == Init => TypeOK /\ RunInv
<1> SUFFICES ASSUME Init
             PROVE  TypeOK /\ RunInv
  OBVIOUS
<1>1. DefaultFormat[NoTool] \in Formats /\ NoTool \in AnyTool /\ 0 \in 0..MaxDrops
  BY PageAssumption DEF AnyTool
<1>2. run \in [Runs -> ARun] /\ \A k \in Runs : run[k] = Over /\ run[k].phase = "over"
  BY OverTyped DEF Init
<1>3. RunInv
  BY <1>2 DEF RunInv
<1>4. QED
  BY <1>1, <1>2, <1>3 DEF Init, TypeOK, ARun

PageTyped == TypeOK /\ RunInv

(* Page, service and conversions of ToolPage.razor stay of their types,    *)
(* and a conversion in flight has a text and, once routed, a tool.         *)
THEOREM ToolPageTyped == Spec => [](TypeOK /\ RunInv)
<1>1. Init => PageTyped
  BY InitTyped DEF PageTyped
<1>2. PageTyped /\ [Next]_vars => PageTyped'
  <2> SUFFICES ASSUME TypeOK, RunInv, [Next]_vars
               PROVE  TypeOK' /\ RunInv'
    BY DEF PageTyped
  <2>1. Flags' /\ Fields' /\ Service'
    BY NextFlags, NextFields
  <2>2. /\ run' \in [Runs -> ARun] /\ RunInv'
        /\ \A k \in Runs : run'[k].phase = "over" => run'[k] = Over
    BY NextRuns
  <2>3. QED
    BY <2>1, <2>2 DEF TypeOK, Flags, Fields, Service, ARun
<1>3. Spec => []PageTyped
  BY <1>1, <1>2, PTL DEF Spec
<1>4. QED
  BY <1>3, PTL DEF PageTyped

-----------------------------------------------------------------------------
(* While the page is converting one of the runs in flight is its own, and  *)
(* the service is submitting only while a run is in flight.                *)
SpinnerInv ==
  /\ isConverting => \E k \in InFlight : ~run[k].detached
  /\ state = "Submitting" => InFlight # {}

(* A page nobody has disturbed has at most one run, which is its own and   *)
(* works on its input, once routed also for its tool and format.           *)
CalmInv ==
  ~disturbed =>
    /\ \A j, k \in InFlight : j = k
    /\ \A k \in InFlight :
         /\ ~run[k].detached /\ run[k].input = inputText
         /\ run[k].phase # "detecting" => run[k].tool = tool /\ run[k].format = selected
    /\ isConverting <=> InFlight # {}
    /\ isConverting => state = "Submitting"
    /\ tool \in Tools /\ state = "Completed" =>
         inputText # Empty /\ shown = [tool |-> tool, input |-> inputText, format |-> selected]

(* The effect of the steps on the runs in flight.                          *)
LEMMA SameRuns == run' = run => InFlight' = InFlight
BY DEF InFlight

LEMMA LeaveRuns ==
  ASSUME TypeOK, Leave
  PROVE  InFlight' = InFlight
<1>1. ASSUME NEW k \in Runs
      PROVE  run'[k].phase = run[k].phase
  BY <1>1 DEF Leave, TypeOK
<1>2. QED
  BY <1>1 DEF InFlight

LEMMA NavigateRuns ==
  ASSUME TypeOK, NEW t \in AnyTool, Navigate(t)
  PROVE  InFlight' = InFlight /\ \A k \in InFlight : run'[k].detached = run[k].detached
BY DEF Navigate, InFlight, TypeOK

LEMMA ConvertRuns ==
  ASSUME TypeOK, NEW k \in Runs, HandleConvert(k)
  PROVE  /\ InFlight' = InFlight \cup {k}
         /\ ~run'[k].detached /\ run'[k].input = inputText /\ run'[k].phase = "detecting"
<1> DEFINE new == [Over EXCEPT !.phase = "detecting", !.input = inputText]
<1>1. ~new.detached /\ new.input = inputText /\ new.phase = "detecting"
  BY DEF Over
<1>2. run' = [run EXCEPT ![k] = new] /\ DOMAIN run = Runs
  BY DEF HandleConvert, TypeOK
<1> HIDE DEF new
<1>3. QED
  BY <1>1, <1>2 DEF InFlight

LEMMA EndsRuns ==
  ASSUME TypeOK, NEW k \in Runs, Ends(k)
  PROVE  InFlight' = InFlight \ {k} /\ \A j \in InFlight' : run'[j] = run[j]
<1>1. run' = [run EXCEPT ![k] = Over] /\ DOMAIN run = Runs
  BY DEF Ends, Finish, TypeOK
<1>2. QED
  BY <1>1, OverTyped DEF InFlight

LEMMA ContinuesRuns ==
  ASSUME TypeOK, NEW k \in Runs, Continues(k)
  PROVE  /\ InFlight' = InFlight
         /\ \A j \in InFlight :
               run'[j].detached = run[j].detached /\ run'[j].input = run[j].input
         /\ ~run[k].detached /\ (run[k].phase = "browser" => run[k].format = selected) =>
              run'[k].tool = tool /\ run'[k].format = selected
         /\ \A j \in InFlight \ {k} : run'[j] = run[j]
<1>1. PICK phase \in {"browser", "api"}, f \in Formats :
             /\ GoOn(k, phase, f)
             /\ f = FormatOf(k) \/ (run[k].phase = "browser" /\ f = run[k].format)
  BY DEF Continues
<1>2. run \in [Runs -> ARun] /\ k \in InFlight
  BY DEF TypeOK, ARun, Continues
<1>3. run' = [run EXCEPT ![k] = [run[k] EXCEPT !.phase = phase, !.tool = ToolOf(k), !.format = f]]
  BY <1>1, <1>2 DEF GoOn, ARun
<1>4. /\ run'[k].phase = phase /\ run'[k].tool = ToolOf(k) /\ run'[k].format = f
      /\ run'[k].detached = run[k].detached /\ run'[k].input = run[k].input
  BY <1>2, <1>3 DEF ARun
<1>5. \A j \in Runs \ {k} : run'[j] = run[j]
  BY <1>2, <1>3
<1>6. QED
  BY <1>1, <1>2, <1>4, <1>5 DEF InFlight, ToolOf, FormatOf

LEMMA NextSpinner == TypeOK /\ RunInv /\ SpinnerInv /\ [Next]_vars => SpinnerInv'
<1> SUFFICES ASSUME TypeOK, RunInv, SpinnerInv, [Next]_vars
             PROVE  SpinnerInv'
  OBVIOUS
<1>a. ASSUME run' = run, isConverting' = isConverting, state' \in {state, "Idle"}
      PROVE  SpinnerInv'
  BY <1>a, SameRuns DEF SpinnerInv
<1>1. ASSUME NEW t \in AnyTool, Mount(t)
      PROVE  SpinnerInv'
  BY <1>1, SameRuns DEF Mount, FreshFields, Reset, service, SpinnerInv
<1>2. ASSUME NEW t \in AnyTool, Navigate(t)
      PROVE  SpinnerInv'
  BY <1>2 DEF Navigate, FreshFields, Reset, SpinnerInv
<1>3. CASE Leave
  BY <1>3, LeaveRuns DEF Leave, FreshFields, service, SpinnerInv
<1>4. ASSUME NEW text \in Inputs \cup {Empty}, HandleInputChanged(text)
      PROVE  SpinnerInv'
  BY <1>4, <1>a DEF HandleInputChanged, Reset, service
<1>5. ASSUME NEW f \in Formats, HandleFormatSelected(f)
      PROVE  SpinnerInv'
  BY <1>5, <1>a DEF HandleFormatSelected, service
<1>6. CASE HandleFile \/ HandleFileSelected \/ FileUnreadable \/ HandleRetry
  BY <1>6, <1>a DEF HandleFile, HandleFileSelected, FileUnreadable, HandleRetry, Reset, service
<1>7. ASSUME NEW k \in Runs, HandleConvert(k)
      PROVE  SpinnerInv'
  BY <1>7, ConvertRuns DEF SpinnerInv
<1>8. ASSUME NEW k \in Runs, Ends(k)
      PROVE  SpinnerInv'
  <2>1. state' # "Submitting"
    BY <1>8 DEF Ends, Shows, CompleteSync, Reset, Fail
  <2>2. CASE run[k].detached
    BY <1>8, <2>1, <2>2, EndsRuns DEF Ends, Finish, SpinnerInv
  <2>3. CASE ~run[k].detached
    BY <1>8, <2>1, <2>3 DEF Ends, Finish, SpinnerInv
  <2>4. QED
    BY <2>2, <2>3
<1>9. ASSUME NEW k \in Runs, Continues(k)
      PROVE  SpinnerInv'
  <2>1. UNCHANGED <<isConverting, state>>
    BY <1>9 DEF Continues, GoOn, service
  <2>2. InFlight' = InFlight /\ \A j \in InFlight : run'[j].detached = run[j].detached
    BY <1>9, ContinuesRuns
  <2>3. QED
    BY <2>1, <2>2 DEF SpinnerInv
<1>10. CASE UNCHANGED vars
  BY <1>10, <1>a DEF vars, service
<1>11. QED
  BY <1>1, <1>2, <1>3, <1>4, <1>5, <1>6, <1>7, <1>8, <1>9, <1>10, ResumeSteps DEF Next, User

(* Whatever conversions overlap, are cancelled or outlive their component: *)
(* the spinner of ToolPage.razor and the progress panel of the tab show    *)
(* only while a conversion is in flight.                                   *)
THEOREM NoSpinnerIsLeft == Spec => []NoSpinnerWithoutRun
<1>1. Init => SpinnerInv
  BY DEF Init, SpinnerInv
<1>2. PageTyped /\ SpinnerInv /\ [Next]_vars => SpinnerInv'
  BY NextSpinner DEF PageTyped
<1>3. SpinnerInv => NoSpinnerWithoutRun
  BY DEF SpinnerInv, NoSpinnerWithoutRun
<1>4. Spec => []PageTyped
  BY ToolPageTyped, PTL DEF PageTyped
<1>5. QED
  BY <1>1, <1>2, <1>3, <1>4, PTL DEF Spec

-----------------------------------------------------------------------------
LEMMA NextCalm == TypeOK /\ RunInv /\ CalmInv /\ [Next]_vars => CalmInv'
<1> SUFFICES ASSUME TypeOK, RunInv, CalmInv, [Next]_vars, ~disturbed'
             PROVE  CalmInv'
  BY DEF CalmInv
<1>a. ASSUME InFlight = {}, InFlight' = {}, ~isConverting',
             tool' \in Tools /\ state' = "Completed" =>
               inputText' # Empty /\ shown' = [tool |-> tool', input |-> inputText', format |-> selected']
      PROVE  CalmInv'
  BY <1>a DEF CalmInv
<1>b. ASSUME run' = run, UNCHANGED <<page, selected, isConverting, disturbed>>,
             (state' = state /\ shown' = shown) \/ (state' = "Idle" /\ state # "Submitting")
      PROVE  CalmInv'
  BY <1>b, SameRuns DEF CalmInv, page
<1>c. ~disturbed /\ InFlight = {} => ~isConverting
  BY DEF CalmInv
<1>1. ASSUME NEW t \in AnyTool, Mount(t)
      PROVE  CalmInv'
  BY <1>1, <1>a, SameRuns, PageAssumption DEF Mount, FreshFields, Reset
<1>2. ASSUME NEW t \in AnyTool, Navigate(t)
      PROVE  CalmInv'
  BY <1>2, <1>a, NavigateRuns DEF Navigate, FreshFields, Reset
<1>3. CASE Leave
  BY <1>3, <1>a, LeaveRuns, PageAssumption DEF Leave, FreshFields
<1>4. ASSUME NEW text \in Inputs \cup {Empty}, HandleInputChanged(text)
      PROVE  CalmInv'
  BY <1>4, <1>a, <1>c, SameRuns DEF HandleInputChanged, Reset, service
<1>5. ASSUME NEW f \in Formats, HandleFormatSelected(f)
      PROVE  CalmInv'
  <2>1. ~disturbed /\ InFlight = {} /\ InFlight' = {} /\ shown = NoResult /\ tool \in Tools
    BY <1>5, SameRuns DEF HandleFormatSelected
  <2>2. ~isConverting' /\ state' = state
    BY <1>5, <1>c, <2>1 DEF HandleFormatSelected, service
  <2>3. state # "Completed"
    <3>1. SUFFICES ASSUME state = "Completed"
                   PROVE  FALSE
      OBVIOUS
    <3>2. inputText \in Inputs /\ selected \in Formats /\ tool \in AnyTool
      BY <2>1, <3>1 DEF CalmInv, TypeOK
    <3>3. shown \in Result
      BY <2>1, <3>1, <3>2 DEF CalmInv, Result
    <3>4. QED
      BY <2>1, <3>3, PageAssumption
  <2>4. QED
    BY <1>a, <2>1, <2>2, <2>3
<1>6. CASE HandleFileSelected
  BY <1>6, <1>a, <1>c, SameRuns DEF HandleFileSelected, Reset
<1>7. CASE HandleFile \/ FileUnreadable
  BY <1>7, <1>b DEF HandleFile, FileUnreadable, service, page
<1>8. CASE HandleRetry
  BY <1>8, <1>b DEF HandleRetry, Reset
<1>9. ASSUME NEW k \in Runs, HandleConvert(k)
      PROVE  CalmInv'
  <2>1. InFlight = {}
    BY <1>9 DEF HandleConvert, CalmInv
  <2>2. InFlight' = {k} /\ ~run'[k].detached /\ run'[k].input = inputText /\ run'[k].phase = "detecting"
    BY <1>9, <2>1, ConvertRuns
  <2>3. isConverting' /\ state' = "Submitting" /\ inputText' = inputText
    BY <1>9 DEF HandleConvert, BeginSubmitting, page
  <2>4. QED
    BY <2>2, <2>3 DEF CalmInv
<1>10. ASSUME NEW k \in Runs, Ends(k)
       PROVE  CalmInv'
  <2>1. ~disturbed /\ UNCHANGED <<tool, inputText>>
    BY <1>10 DEF Ends, Finish, page
  <2>2. /\ \A j \in InFlight : j = k
        /\ k \in InFlight /\ ~run[k].detached /\ run[k].input = inputText
        /\ run[k].phase # "detecting" => run[k].tool = tool /\ run[k].format = selected
    BY <1>10, <2>1 DEF CalmInv, Ends
  <2>3. InFlight' = {} /\ ~isConverting'
    BY <1>10, <2>2, EndsRuns DEF Ends, Finish
  <2>4. ASSUME state' = "Completed"
        PROVE  inputText' # Empty /\ shown' = [tool |-> tool', input |-> inputText', format |-> selected']
    <3>1. PICK f \in Formats : Shows(k, f)
      BY <1>10, <2>4 DEF Ends, Reset, Fail
    <3>2. /\ shown' = [tool |-> tool, input |-> inputText, format |-> f]
          /\ selected' = f
      BY <2>2, <3>1 DEF Shows
    <3>3. inputText # Empty
      BY <2>2, PageAssumption DEF RunInv, InFlight
    <3>4. QED
      BY <2>1, <3>2, <3>3
  <2>5. QED
    BY <2>3, <2>4 DEF CalmInv
<1>11. ASSUME NEW k \in Runs, Continues(k)
       PROVE  CalmInv'
  <2>1. UNCHANGED <<tool, inputText, selected, isConverting, shown, state, disturbed>>
    BY <1>11 DEF Continues, GoOn, page, service
  <2>2. ~disturbed /\ k \in InFlight /\ \A j \in InFlight : j = k
    BY <1>11, <2>1 DEF CalmInv, Continues
  <2>3. ~run[k].detached /\ run[k].input = inputText /\ (run[k].phase = "browser" => run[k].format = selected)
    BY <2>2 DEF CalmInv
  <2>4. /\ InFlight' = InFlight
        /\ ~run'[k].detached /\ run'[k].input = inputText
        /\ run'[k].tool = tool /\ run'[k].format = selected
    BY <1>11, <2>2, <2>3, ContinuesRuns
  <2>5. QED
    BY <2>1, <2>2, <2>4 DEF CalmInv
<1>12. CASE UNCHANGED vars
  BY <1>12, <1>b DEF vars, service, page
<1>13. QED
  BY <1>1, <1>2, <1>3, <1>4, <1>5, <1>6, <1>7, <1>8, <1>9, <1>10, <1>11, <1>12, ResumeSteps
     DEF Next, User

LEMMA InitCalm == Init => CalmInv
BY OverTyped, PageAssumption DEF Init, CalmInv, InFlight

LEMMA CalmAlways == Spec => []CalmInv
<1>1. PageTyped /\ CalmInv /\ [Next]_vars => CalmInv'
  BY NextCalm DEF PageTyped
<1>2. Spec => []PageTyped
  BY ToolPageTyped, PTL DEF PageTyped
<1>3. QED
  BY InitCalm, <1>1, <1>2, PTL DEF Spec

(* On a page nobody disturbs two calls of HandleConvert never overlap, and *)
(* the button is disabled exactly while one is in flight.                  *)
THEOREM OneConversionAtATime == Spec => []OneConversion
<1>1. CalmInv => OneConversion
  <2> SUFFICES ASSUME CalmInv, ~disturbed
               PROVE  Cardinality(InFlight) =< 1 /\ (isConverting <=> InFlight # {})
    BY DEF OneConversion
  <2>1. CASE InFlight = {}
    BY <2>1, FS_EmptySet DEF CalmInv
  <2>2. CASE InFlight # {}
    <3>1. PICK k \in InFlight : InFlight = {k}
      BY <2>2 DEF CalmInv
    <3>2. Cardinality(InFlight) = 1
      BY <3>1, FS_Singleton
    <3>3. QED
      BY <3>2 DEF CalmInv
  <2>3. QED
    BY <2>1, <2>2
<1>2. QED
  BY <1>1, CalmAlways, PTL

(* As long as nobody disturbs the conversion, ToolStateService shows its   *)
(* progress all the time the button of ToolPage.razor is disabled.         *)
THEOREM ProgressIsShown == Spec => []ProgressWhileConverting
<1>1. CalmInv => ProgressWhileConverting
  BY DEF CalmInv, ProgressWhileConverting
<1>2. QED
  BY <1>1, CalmAlways, PTL

(* What an undisturbed page shows as completed is what its tool made of    *)
(* the text in its editor, in the format it has selected.                  *)
THEOREM ShownResultMatches == Spec => []ShownMatchesPage
<1>1. CalmInv => ShownMatchesPage
  BY DEF CalmInv, ShownMatchesPage
<1>2. QED
  BY <1>1, CalmAlways, PTL
=============================================================================
