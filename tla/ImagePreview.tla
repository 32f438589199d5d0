---------------------------- MODULE ImagePreview ----------------------------
(***************************************************************************)
(* The before/after comparison of two images: the component                *)
(* SideBySideImagePreview.razor and the listeners SideBySideInterop.js     *)
(* puts on its container, which call the component back through a          *)
(* DotNetObjectReference.                                                  *)
(*                                                                         *)
(* The container hears a mouse, fingers and (on the divider) keys; what    *)
(* the user does and what the container hears of it are not the same: a    *)
(* touch the browser takes over, the context menu and an element removed   *)
(* under a finger all end a gesture without an event any listener hears.   *)
(* Horizontal places are columns; those of the container are 0..Width.     *)
(***************************************************************************)
EXTENDS Integers, Sequences, SequencesExt

CONSTANTS
  Width,              (* the columns of the container: 100 per cent        *)
  Reach,              (* a press this near the divider takes hold of it    *)
  KeyStep,            (* what an arrow key moves it                        *)
  MaxTouches          (* bound: fingers on the screen at once              *)

ASSUME PreviewAssumption ==
  /\ Width \in Nat \ {0} /\ Reach \in Nat /\ KeyStep \in Nat \ {0}
  /\ MaxTouches \in Nat

VARIABLES
  mounted,            (* the component is in the page                      *)
  before, after,      (* BeforeBytes, AfterBytes are not null              *)
  live, selfRef,      (* references not disposed; _selfRef                 *)
  listening,          (* the container's entry in _instances               *)
  isDragging,         (* in the closure of those listeners                 *)
  dividerPosition,
  preventDefaultKey,
  mouse, touches,     (* where the user's hands are                        *)
  lost,               (* history: the drag goes on after a release nobody  *)
                      (* heard of                                          *)
  grip,               (* history: the column of the one pointer that holds *)
                      (* the divider, if there is just one and no key was  *)
                      (* pressed meanwhile                                 *)
  swallowed           (* history: keys of no use to the slider whose       *)
                      (* default the browser dropped, in a row, at most 2  *)

vars == <<mounted, before, after, live, selfRef, listening, isDragging,
          dividerPosition, preventDefaultKey, mouse, touches, lost, grip,
          swallowed>>

component == <<mounted, before, after, live, selfRef, listening>>
keys      == <<preventDefaultKey, swallowed>>

(* A component creates at most two references to itself, named after the   *)
(* callback that does it.                                                  *)
Refs  == {"OnParametersSet", "OnAfterRender"}
NoRef == "null"
NoGrip == -1

Columns   == 0..Width
AllColumns == -1..(Width + 1)
Touch     == [x : AllColumns, inside : BOOLEAN]
Mouse     == [over : BOOLEAN, held : BOOLEAN]
SliderKeys == {"ArrowLeft", "ArrowRight", "Home", "End"}
Keys       == SliderKeys \cup {"Tab"}

TypeOK ==
  /\ mounted \in BOOLEAN /\ before \in BOOLEAN /\ after \in BOOLEAN
  /\ isDragging \in BOOLEAN /\ lost \in BOOLEAN /\ preventDefaultKey \in BOOLEAN
  /\ live \subseteq Refs
  /\ selfRef \in Refs \cup {NoRef} /\ listening \in Refs \cup {NoRef}
  /\ dividerPosition \in Columns /\ grip \in Columns \cup {NoGrip}
  /\ mouse \in Mouse
  /\ touches \in Seq(Touch) /\ Len(touches) =< MaxTouches
  /\ swallowed \in 0..2

Init ==
  /\ mounted = FALSE /\ before = FALSE /\ after = FALSE
  /\ live = {} /\ selfRef = NoRef /\ listening = NoRef
  /\ isDragging = FALSE /\ dividerPosition = Width \div 2
  /\ preventDefaultKey = FALSE
  /\ mouse = [over |-> FALSE, held |-> FALSE] /\ touches = <<>>
  /\ lost = FALSE /\ grip = NoGrip /\ swallowed = 0

-----------------------------------------------------------------------------
(* The component.                                                          *)

Divider == mounted /\ before /\ after

(* init(container, ref), which destroys the entry it finds: the new        *)
(* listeners drag nothing yet.                                             *)
InitInterop(ref) ==
  /\ listening' = ref
  /\ isDragging' = FALSE
  /\ lost' = FALSE

(* Mutant: the reference of OnParametersSetAsync is taken as good enough.  *)
MountOnce(b, a) ==
  /\ ~mounted
  /\ mounted' = TRUE /\ before' = b /\ after' = a
  /\ live' = IF a THEN {"OnParametersSet"} ELSE {}
  /\ selfRef' = IF a THEN "OnParametersSet" ELSE NoRef
  /\ UNCHANGED <<listening, isDragging, lost>>
  /\ dividerPosition' = Width \div 2 /\ preventDefaultKey' = FALSE
  /\ UNCHANGED <<mouse, touches, grip, swallowed>>

(* A new component.  OnParametersSetAsync runs before the container is     *)
(* rendered: its init has no element to listen on, throws, and the empty   *)
(* catch hides it.  The first OnAfterRenderAsync calls init again with a   *)
(* second reference, which replaces the first in _selfRef.                 *)
Mount(b, a) ==
  /\ ~mounted
  /\ mounted' = TRUE /\ before' = b /\ after' = a
  /\ live' = IF a THEN Refs ELSE {}
  /\ selfRef' = IF a THEN "OnAfterRender" ELSE NoRef
  /\ IF a THEN InitInterop("OnAfterRender") ELSE UNCHANGED <<listening, isDragging, lost>>
  /\ dividerPosition' = Width \div 2 /\ preventDefaultKey' = FALSE
  /\ UNCHANGED <<mouse, touches, grip, swallowed>>

(* Fingers whose target is gone: their events no longer reach the          *)
(* container.                                                              *)
TargetsRemoved ==
  touches' = [i \in DOMAIN touches |-> [touches[i] EXCEPT !.inside = FALSE]]

(* What the container shows; its elements are new when this changes.       *)
Shows(b, a) == IF ~b THEN "prompt" ELSE IF a THEN "comparison" ELSE "input"

(* OnParametersSetAsync of a component that is rendered, and the rendering *)
(* that follows.                                                           *)
SetParameters(b, a) ==
  /\ mounted /\ <<b, a>> # <<before, after>>
  /\ before' = b /\ after' = a
  /\ IF a /\ selfRef = NoRef
     THEN /\ live' = live \cup {"OnParametersSet"}
          /\ selfRef' = "OnParametersSet"
          /\ InitInterop("OnParametersSet")
     ELSE /\ UNCHANGED <<live, selfRef, listening, isDragging>>
          /\ lost' = (lost \/ (isDragging /\ ~(mouse.over /\ mouse.held)
                               /\ Shows(b, a) # Shows(before, after)))
  /\ IF Shows(b, a) = Shows(before, after) THEN UNCHANGED touches ELSE TargetsRemoved
  /\ grip' = IF touches = <<>> /\ isDragging' THEN grip ELSE NoGrip
  /\ UNCHANGED <<mounted, dividerPosition, preventDefaultKey, mouse, swallowed>>

(* Mutant: only the reference is let go.                                   *)
DisposeOnlyReference ==
  /\ mounted
  /\ mounted' = FALSE /\ before' = FALSE /\ after' = FALSE
  /\ live' = live \ {selfRef} /\ selfRef' = NoRef
  /\ isDragging' = FALSE /\ lost' = FALSE /\ grip' = NoGrip
  /\ mouse' = [mouse EXCEPT !.over = FALSE]
  /\ TargetsRemoved
  /\ UNCHANGED <<listening, dividerPosition, keys>>

(* destroy(container): the listeners go, and what they knew with them.     *)
Destroy == listening' = NoRef /\ isDragging' = FALSE /\ lost' = FALSE

(* DisposeAsync: destroy, then the reference in _selfRef.                  *)
DisposeAsync ==
  /\ mounted
  /\ mounted' = FALSE /\ before' = FALSE /\ after' = FALSE
  /\ Destroy /\ grip' = NoGrip
  /\ live' = live \ {selfRef} /\ selfRef' = NoRef
  /\ mouse' = [mouse EXCEPT !.over = FALSE]
  /\ TargetsRemoved
  /\ UNCHANGED <<dividerPosition, keys>>

(* Mutant: nothing keeps the divider from the right edge.                  *)
ClampLeft(x) == IF x < 0 THEN 0 ELSE x

(* Math.Clamp, and getPercent of a column of the page.                     *)
Clamp(x) == IF x < 0 THEN 0 ELSE IF x > Width THEN Width ELSE x

KeyPressed(k, flag) ==
  /\ Divider
  /\ preventDefaultKey' = flag
  /\ dividerPosition' = CASE k = "ArrowLeft"  -> Clamp(dividerPosition - KeyStep)
                          [] k = "ArrowRight" -> Clamp(dividerPosition + KeyStep)
                          [] k = "Home"       -> 0
                          [] k = "End"        -> Width
                          [] OTHER            -> dividerPosition
  /\ \E prevented \in {preventDefaultKey, flag} :
       swallowed' = CASE k \in SliderKeys \/ ~prevented -> 0
                      [] swallowed = 2                 -> 2
                      [] OTHER                         -> swallowed + 1
  /\ grip' = NoGrip
  /\ UNCHANGED <<component, isDragging, mouse, touches, lost>>

(* Mutant: the flag stays up once a slider key was pressed.                *)
HandleKeyDownSticky(k) == KeyPressed(k, preventDefaultKey \/ k \in SliderKeys)

(* A key on the focused divider; "Tab" is any key the slider has no use    *)
(* for.  Whether the browser drops the key's default is decided by the     *)
(* flag as last rendered, and that may or may not be after this handler.   *)
HandleKeyDown(k) == KeyPressed(k, k \in SliderKeys)

-----------------------------------------------------------------------------
(* The listeners; clientX is the mouse's column or that of touches[0], the *)
(* first finger on the screen, wherever it is.                             *)

InReach(clientX) ==
  clientX - dividerPosition \in -Reach..Reach

(* Mutant: anywhere in the container takes hold of the divider.            *)
OnPointerDownAnywhere(clientX) ==
  IF listening # NoRef /\ Divider
  THEN isDragging' = TRUE /\ lost' = FALSE
  ELSE UNCHANGED <<isDragging, lost>>

OnPointerDown(clientX) ==
  IF listening # NoRef /\ Divider /\ InReach(clientX)
  THEN isDragging' = TRUE /\ lost' = FALSE
  ELSE UNCHANGED <<isDragging, lost>>

Grips(x) == grip' = IF touches = <<>> /\ ~isDragging /\ isDragging' THEN x ELSE NoGrip

(* SetDividerPosition, as long as the reference is live.                   *)
OnPointerMove(clientX) ==
  dividerPosition' = IF listening \in live /\ isDragging THEN Clamp(clientX)
                     ELSE dividerPosition

OnPointerUp == isDragging' = FALSE /\ lost' = FALSE /\ grip' = NoGrip

(* The mouse.                                                              *)
MouseEnter ==
  /\ mounted /\ ~mouse.over
  /\ mouse' = [mouse EXCEPT !.over = TRUE]
  /\ UNCHANGED <<component, isDragging, dividerPosition, keys, touches, lost, grip>>

MouseDown(x) ==
  /\ mouse.over /\ ~mouse.held
  /\ mouse' = [mouse EXCEPT !.held = TRUE]
  /\ OnPointerDown(x)
  /\ Grips(x)
  /\ UNCHANGED <<component, dividerPosition, keys, touches>>

MouseMove(x) ==
  /\ mouse.over
  /\ OnPointerMove(x)
  /\ grip' = IF grip # NoGrip /\ touches = <<>> THEN x ELSE NoGrip
  /\ UNCHANGED <<component, isDragging, keys, mouse, touches, lost>>

MouseUp ==
  /\ mouse.over /\ mouse.held
  /\ mouse' = [mouse EXCEPT !.held = FALSE]
  /\ OnPointerUp
  /\ UNCHANGED <<component, dividerPosition, keys, touches>>

(* Mutant: no listener for mouseleave.                                     *)
MouseLeaveUnheard ==
  /\ mouse.over
  /\ mouse' = [mouse EXCEPT !.over = FALSE]
  /\ UNCHANGED <<component, isDragging, lost, dividerPosition, keys, touches, grip>>

MouseLeave ==
  /\ mouse.over
  /\ mouse' = [mouse EXCEPT !.over = FALSE]
  /\ OnPointerUp
  /\ UNCHANGED <<component, dividerPosition, keys, touches>>

(* The button is let go elsewhere, or on the context menu it opened (the   *)
(* listener asks for no button in particular): no mouseup.                 *)
MouseReleasedUnheard ==
  /\ mouse.held
  /\ mouse' = [mouse EXCEPT !.held = FALSE]
  /\ lost' = (lost \/ (isDragging /\ mouse.over))
  /\ grip' = NoGrip
  /\ UNCHANGED <<component, isDragging, dividerPosition, keys, touches>>

(* The fingers, in the order they came.                                    *)
TouchStart(x, inside) ==
  /\ Len(touches) < MaxTouches
  /\ inside => mounted /\ x \in Columns
  /\ touches' = Append(touches, [x |-> x, inside |-> inside])
  /\ IF inside THEN OnPointerDown(touches'[1].x) ELSE UNCHANGED <<isDragging, lost>>
  /\ Grips(x)
  /\ UNCHANGED <<component, dividerPosition, keys, mouse>>

TouchMove(i, x) ==
  /\ i \in DOMAIN touches /\ x # touches[i].x
  /\ touches' = [touches EXCEPT ![i].x = x]
  /\ IF touches[i].inside THEN OnPointerMove(touches'[1].x) ELSE UNCHANGED dividerPosition
  /\ grip' = IF grip # NoGrip /\ Len(touches) = 1 THEN Clamp(x) ELSE NoGrip
  /\ UNCHANGED <<component, isDragging, keys, mouse, lost>>

TouchEnd(i) ==
  /\ i \in DOMAIN touches
  /\ touches' = RemoveAt(touches, i)
  /\ IF touches[i].inside THEN OnPointerUp ELSE UNCHANGED <<isDragging, lost, grip>>
  /\ UNCHANGED <<component, dividerPosition, keys, mouse>>

(* The browser takes the touch for a gesture of its own: touchcancel,      *)
(* which has no listener.                                                  *)
TouchCancel(i) ==
  /\ i \in DOMAIN touches
  /\ touches' = RemoveAt(touches, i)
  /\ lost' = (lost \/ (isDragging /\ touches[i].inside))
  /\ grip' = NoGrip
  /\ UNCHANGED <<component, isDragging, dividerPosition, keys, mouse>>

Next ==
  \/ \E b, a \in BOOLEAN : Mount(b, a) \/ SetParameters(b, a)
  \/ DisposeAsync
  \/ \E k \in Keys : HandleKeyDown(k)
  \/ MouseEnter \/ MouseUp \/ MouseLeave \/ MouseReleasedUnheard
  \/ \E x \in Columns : MouseDown(x) \/ MouseMove(x)
  \/ \E x \in AllColumns, inside \in BOOLEAN : TouchStart(x, inside)
  \/ \E i \in 1..MaxTouches, x \in AllColumns : TouchMove(i, x)
  \/ \E i \in 1..MaxTouches : TouchEnd(i) \/ TouchCancel(i)

Spec == Init /\ [][Next]_vars

-----------------------------------------------------------------------------
(* Whatever the order in which the images arrive, change and go: a         *)
(* divider that is shown can be dragged, and listeners never outlive the   *)
(* component, nor call it through another reference than the one it will   *)
(* dispose of.                                                             *)
Wired ==
  /\ Divider => listening # NoRef
  /\ listening # NoRef => mounted /\ listening \in live /\ listening = selfRef

(* The divider follows a pointer only while a button is held over the      *)
(* container or a finger is on it, except after a release that no listener *)
(* heard of.                                                               *)
DragNeedsHold ==
  isDragging /\ ~lost => (mouse.over /\ mouse.held) \/ \E i \in DOMAIN touches : touches[i].inside

(* The divider is under the hand that drags it: taken hold of within reach *)
(* and from then on where the pointer is, as long as there is one pointer. *)
(* A second finger is judged, and followed, by the place of the first.     *)
DividerUnderHand == grip # NoGrip => isDragging /\ InReach(grip)

(* A reader who moves through the page with the keyboard is not stuck on   *)
(* the slider: of two keys in a row that are none of the slider's, the     *)
(* browser acts on the second at the latest.                               *)
NoKeyboardTrap == swallowed =< 1
=============================================================================
