------------------------- MODULE ImagePreviewProofs -------------------------
(***************************************************************************)
(* For a container of any width, any reach and any number of fingers: the  *)
(* comparison is wired whenever it is shown, what drags it is a hand, the  *)
(* divider stays under that hand, and the keyboard is not trapped.         *)
(***************************************************************************)
EXTENDS ImagePreview, SequenceTheorems, TLAPS

TypeInv ==
  /\ mounted \in BOOLEAN /\ before \in BOOLEAN /\ after \in BOOLEAN
  /\ isDragging \in BOOLEAN /\ lost \in BOOLEAN /\ preventDefaultKey \in BOOLEAN
  /\ live \in SUBSET Refs
  /\ selfRef \in Refs \cup {NoRef} /\ listening \in Refs \cup {NoRef}
  /\ dividerPosition \in Columns /\ grip \in Columns \cup {NoGrip}
  /\ mouse \in Mouse
  /\ touches \in Seq(Touch)

(* The listeners are those of the reference the component holds.           *)
WiredInv ==
  /\ listening = selfRef
  /\ selfRef # NoRef => mounted /\ selfRef \in live
  /\ Divider => selfRef # NoRef
  /\ isDragging => listening # NoRef

(* The one pointer that grips the divider is the mouse, with no finger on  *)
(* the screen, or the only finger, and that on the container.              *)
GripInv ==
  grip # NoGrip /\ touches # <<>> => Len(touches) = 1 /\ touches[1].inside

(* A key is dropped in vain only on a flag that is down again.             *)
KeyInv == swallowed \in {0, 1} /\ (swallowed = 1 => ~preventDefaultKey)

LEMMA ClampIsAColumn ==
  ASSUME PreviewAssumption, NEW x \in Int
  PROVE  Clamp(x) \in Columns
BY DEF PreviewAssumption, Clamp, Columns

(* A finger that leaves the screen takes no other with it.                 *)
LEMMA RemoveAtKeeps ==
  ASSUME NEW S, NEW s \in Seq(S), NEW i \in DOMAIN s
  PROVE  /\ RemoveAt(s, i) \in Seq(S) /\ Len(RemoveAt(s, i)) = Len(s) - 1
         /\ \A j \in DOMAIN s \ {i} : \E k \in DOMAIN RemoveAt(s, i) : RemoveAt(s, i)[k] = s[j]
<1> DEFINE a == SubSeq(s, 1, i - 1)
           b == SubSeq(s, i + 1, Len(s))
           t == a \o b
<1>1. RemoveAt(s, i) = t
  BY DEF RemoveAt
<1>2. Len(s) \in Nat /\ i \in 1..Len(s) /\ DOMAIN s = 1..Len(s)
  OBVIOUS
<1>3. /\ a \in Seq(S) /\ Len(a) = i - 1
      /\ \A j \in 1..(i - 1) : a[j] = s[j]
  BY <1>2
<1>4. /\ b \in Seq(S) /\ Len(b) = Len(s) - i
      /\ \A j \in 1..(Len(s) - i) : b[j] = s[i + j]
  BY <1>2
<1> HIDE DEF a, b
<1>8. /\ t \in Seq(S) /\ Len(t) = Len(a) + Len(b)
      /\ \A j \in 1..(Len(a) + Len(b)) : t[j] = IF j =< Len(a) THEN a[j] ELSE b[j - Len(a)]
  BY <1>3, <1>4, ConcatProperties
<1> HIDE DEF t
<1>5. /\ Len(t) = Len(s) - 1 /\ DOMAIN t = 1..(Len(s) - 1)
      /\ \A j \in 1..(i - 1) : t[j] = s[j]
      /\ \A j \in i..(Len(s) - 1) : t[j] = s[j + 1]
  <2>1. Len(t) = Len(s) - 1 /\ DOMAIN t = 1..(Len(s) - 1)
    BY <1>2, <1>3, <1>4, <1>8
  <2>2. \A j \in 1..(i - 1) : t[j] = s[j]
    BY <1>2, <1>3, <1>4, <1>8
  <2>3. ASSUME NEW j \in i..(Len(s) - 1)
        PROVE  t[j] = s[j + 1]
    <3>1. /\ j \in 1..(Len(a) + Len(b)) /\ ~(j =< Len(a))
          /\ j - Len(a) \in 1..(Len(s) - i) /\ i + (j - Len(a)) = j + 1
      BY <1>2, <1>3, <1>4
    <3>2. QED
      BY <3>1, <1>4, <1>8
  <2>4. QED
    BY <2>1, <2>2, <2>3
<1>6. ASSUME NEW j \in DOMAIN s \ {i}
      PROVE  \E k \in DOMAIN t : t[k] = s[j]
  <2>1. CASE j < i
    <3>1. j \in DOMAIN t /\ t[j] = s[j]
      BY <2>1, <1>2, <1>5
    <3>2. QED
      BY <3>1
  <2>2. CASE j > i
    <3>1. j - 1 \in i..(Len(s) - 1) /\ j - 1 \in DOMAIN t /\ (j - 1) + 1 = j
      BY <2>2, <1>2, <1>5
    <3>3. t[j - 1] = s[j]
      BY <3>1, <1>5
    <3>2. QED
      BY <3>1, <3>3
  <2>3. QED
    BY <2>1, <2>2, <1>2
<1>7. QED
  BY <1>1, <1>5, <1>8, <1>6

-----------------------------------------------------------------------------
LEMMA InitTyped == PreviewAssumption /\ Init => TypeInv
<1> SUFFICES ASSUME PreviewAssumption, Init
             PROVE  TypeInv
  OBVIOUS
<1>1. Width \div 2 \in Columns
  BY DEF PreviewAssumption, Columns
<1>2. touches \in Seq(Touch)
  BY DEF Init
<1>3. QED
  BY <1>1, <1>2 DEF Init, TypeInv, Mouse

LEMMA NextTyped == PreviewAssumption /\ TypeInv /\ [Next]_vars => TypeInv'
<1> SUFFICES ASSUME PreviewAssumption, TypeInv, [Next]_vars
             PROVE  TypeInv'
  OBVIOUS
<1> USE DEF TypeInv
<1>a. Width \div 2 \in Columns /\ 0 \in Columns /\ Width \in Columns
      /\ Columns \subseteq AllColumns
      /\ Columns \subseteq Int /\ AllColumns \subseteq Int /\ KeyStep \in Int
  BY DEF PreviewAssumption, Columns, AllColumns
<1>b. \A x \in Int : Clamp(x) \in Columns
  BY ClampIsAColumn
<1>c. [i \in DOMAIN touches |-> [touches[i] EXCEPT !.inside = FALSE]] \in Seq(Touch)
  <2>1. /\ DOMAIN touches = 1..Len(touches) /\ Len(touches) \in Nat
        /\ \A i \in DOMAIN touches : touches[i] \in Touch
    OBVIOUS
  <2>2. \A i \in DOMAIN touches : [touches[i] EXCEPT !.inside = FALSE] \in Touch
    BY <2>1 DEF Touch
  <2>3. [i \in DOMAIN touches |-> [touches[i] EXCEPT !.inside = FALSE]]
          \in [1..Len(touches) -> Touch]
    BY <2>1, <2>2
  <2>4. QED
    BY <2>1, <2>3, SeqDef
<1>1. ASSUME NEW b \in BOOLEAN, NEW a \in BOOLEAN, Mount(b, a)
      PROVE  TypeInv'
  BY <1>1, <1>a DEF Mount, InitInterop, Refs
<1>2. ASSUME NEW b \in BOOLEAN, NEW a \in BOOLEAN, SetParameters(b, a)
      PROVE  TypeInv'
  BY <1>2, <1>c DEF SetParameters, InitInterop, TargetsRemoved, Refs
<1>3. CASE DisposeAsync
  BY <1>3, <1>c DEF DisposeAsync, Destroy, TargetsRemoved, Mouse, keys
<1>4. ASSUME NEW k \in Keys, HandleKeyDown(k)
      PROVE  TypeInv'
  <2>1. dividerPosition' \in Columns
    <3>1. dividerPosition - KeyStep \in Int /\ dividerPosition + KeyStep \in Int
      BY <1>a
    <3>2. QED
      BY <1>4, <1>a, <1>b, <3>1 DEF HandleKeyDown, KeyPressed
  <2>2. preventDefaultKey' \in BOOLEAN
    BY <1>4 DEF HandleKeyDown, KeyPressed
  <2>3. QED
    BY <1>4, <2>1, <2>2 DEF HandleKeyDown, KeyPressed, component
<1>5. CASE MouseEnter \/ MouseUp \/ MouseLeave \/ MouseReleasedUnheard
  BY <1>5 DEF MouseEnter, MouseUp, MouseLeave, MouseReleasedUnheard, OnPointerUp, Mouse,
     component, keys
<1>6. ASSUME NEW x \in Columns, MouseDown(x)
      PROVE  TypeInv'
  BY <1>6 DEF MouseDown, OnPointerDown, Grips, Mouse, component, keys
<1>7. ASSUME NEW x \in Columns, MouseMove(x)
      PROVE  TypeInv'
  BY <1>7, <1>a, <1>b DEF MouseMove, OnPointerMove, component, keys
<1>8. ASSUME NEW x \in AllColumns, NEW inside \in BOOLEAN, TouchStart(x, inside)
      PROVE  TypeInv'
  <2>1. touches' \in Seq(Touch)
    BY <1>8 DEF TouchStart, Touch
  <2>2. grip' \in Columns \cup {NoGrip}
    BY <1>8 DEF TouchStart, Grips
  <2>3. isDragging' \in BOOLEAN /\ lost' \in BOOLEAN
    BY <1>8 DEF TouchStart, OnPointerDown
  <2>4. QED
    BY <1>8, <2>1, <2>2, <2>3 DEF TouchStart, component, keys
<1>9. ASSUME NEW i \in 1..MaxTouches, NEW x \in AllColumns, TouchMove(i, x)
      PROVE  TypeInv'
  <2>1. touches' \in Seq(Touch) /\ 1 \in 1..Len(touches')
    <3>5. i \in 1..Len(touches) /\ touches[i] \in Touch
      BY <1>9 DEF TouchMove
    <3>1. [touches[i] EXCEPT !.x = x] \in Touch
      BY <3>5 DEF Touch
    <3>2. touches' = [touches EXCEPT ![i] = [touches[i] EXCEPT !.x = x]]
      BY <1>9 DEF TouchMove
    <3>3. touches' \in Seq(Touch) /\ Len(touches') = Len(touches)
      BY <3>1, <3>2, <3>5, ExceptSeq
    <3>4. QED
      BY <3>3, <3>5
  <2>2. touches'[1].x \in Int
    <3>2. touches'[1] \in Touch
      BY <2>1
    <3>3. QED
      BY <3>2, <1>a DEF Touch
  <2>3. dividerPosition' \in Columns
    BY <1>9, <1>b, <2>2 DEF TouchMove, OnPointerMove
  <2>4. grip' \in Columns \cup {NoGrip}
    BY <1>9, <1>a, <1>b DEF TouchMove
  <2>5. QED
    BY <1>9, <2>1, <2>3, <2>4 DEF TouchMove, component, keys
<1>10. ASSUME NEW i \in 1..MaxTouches, TouchEnd(i) \/ TouchCancel(i)
       PROVE  TypeInv'
  <2>1. touches' \in Seq(Touch)
    BY <1>10, RemoveAtKeeps DEF TouchEnd, TouchCancel
  <2>2. isDragging' \in BOOLEAN /\ lost' \in BOOLEAN /\ grip' \in Columns \cup {NoGrip}
    BY <1>10 DEF TouchEnd, TouchCancel, OnPointerUp
  <2>3. QED
    BY <1>10, <2>1, <2>2 DEF TouchEnd, TouchCancel, component, keys
<1>11. CASE UNCHANGED vars
  BY <1>11 DEF vars
<1>12. QED
  BY <1>1, <1>2, <1>3, <1>4, <1>5, <1>6, <1>7, <1>8, <1>9, <1>10, <1>11 DEF Next

-----------------------------------------------------------------------------
LEMMA InitWired == Init => WiredInv
BY DEF Init, WiredInv, Divider

LEMMA NextWired == TypeInv /\ WiredInv /\ [Next]_vars => WiredInv'
<1> SUFFICES ASSUME TypeInv, WiredInv, [Next]_vars
             PROVE  WiredInv'
  OBVIOUS
<1> USE DEF WiredInv, Divider
<1>1. ASSUME NEW b \in BOOLEAN, NEW a \in BOOLEAN, Mount(b, a)
      PROVE  WiredInv'
  BY <1>1 DEF Mount, InitInterop, Refs, NoRef
<1>2. ASSUME NEW b \in BOOLEAN, NEW a \in BOOLEAN, SetParameters(b, a)
      PROVE  WiredInv'
  BY <1>2 DEF SetParameters, InitInterop, NoRef
<1>3. CASE DisposeAsync
  BY <1>3 DEF DisposeAsync, Destroy
<1>4. ASSUME NEW k \in Keys, HandleKeyDown(k)
      PROVE  WiredInv'
  BY <1>4 DEF HandleKeyDown, KeyPressed, component
<1>5. CASE MouseEnter \/ MouseUp \/ MouseLeave \/ MouseReleasedUnheard
  BY <1>5 DEF MouseEnter, MouseUp, MouseLeave, MouseReleasedUnheard, OnPointerUp, component
<1>6. ASSUME NEW x \in Columns, MouseDown(x) \/ MouseMove(x)
      PROVE  WiredInv'
  BY <1>6 DEF MouseDown, MouseMove, OnPointerDown, component
<1>7. ASSUME NEW x \in AllColumns, NEW inside \in BOOLEAN, TouchStart(x, inside)
      PROVE  WiredInv'
  BY <1>7 DEF TouchStart, OnPointerDown, component
<1>8. ASSUME NEW i \in 1..MaxTouches, NEW x \in AllColumns, TouchMove(i, x)
      PROVE  WiredInv'
  BY <1>8 DEF TouchMove, component
<1>9. ASSUME NEW i \in 1..MaxTouches, TouchEnd(i) \/ TouchCancel(i)
      PROVE  WiredInv'
  BY <1>9 DEF TouchEnd, TouchCancel, OnPointerUp, component
<1>10. CASE UNCHANGED vars
  BY <1>10 DEF vars
<1>11. QED
  BY <1>1, <1>2, <1>3, <1>4, <1>5, <1>6, <1>7, <1>8, <1>9, <1>10 DEF Next

(* Whatever the order in which the images arrive, change and go, a         *)
(* comparison that is shown has its listeners, and listeners neither       *)
(* outlive the component nor hold another reference than _selfRef.         *)
THEOREM AlwaysWired == Spec => []Wired
<1>1. Init => TypeInv /\ WiredInv
  BY PreviewAssumption, InitTyped, InitWired
<1>2. TypeInv /\ WiredInv /\ [Next]_vars => TypeInv' /\ WiredInv'
  BY PreviewAssumption, NextTyped, NextWired
<1>3. WiredInv => Wired
  BY DEF WiredInv, Wired
<1>4. QED
  BY <1>1, <1>2, <1>3, PTL DEF Spec

-----------------------------------------------------------------------------
(* Touches that change hands: which step leaves a finger on the container. *)
LEMMA TouchesKept ==
  ASSUME TypeInv, NEW i \in DOMAIN touches, touches' = RemoveAt(touches, i),
         ~touches[i].inside,
         \E j \in DOMAIN touches : touches[j].inside
  PROVE  \E j \in DOMAIN touches' : touches'[j].inside
<1>1. PICK j \in DOMAIN touches : touches[j].inside
  OBVIOUS
<1>2. j \in DOMAIN touches \ {i}
  BY <1>1
<1>3. \E k \in DOMAIN RemoveAt(touches, i) : RemoveAt(touches, i)[k] = touches[j]
  BY <1>2, RemoveAtKeeps DEF TypeInv
<1>4. QED
  BY <1>1, <1>3

LEMMA InitHeld == Init => DragNeedsHold
BY DEF Init, DragNeedsHold

LEMMA NextHeld == TypeInv /\ WiredInv /\ DragNeedsHold /\ [Next]_vars => DragNeedsHold'
<1> SUFFICES ASSUME TypeInv, WiredInv, DragNeedsHold, [Next]_vars
             PROVE  DragNeedsHold'
  OBVIOUS
<1> USE DEF DragNeedsHold
<1>1. ASSUME NEW b \in BOOLEAN, NEW a \in BOOLEAN, Mount(b, a)
      PROVE  DragNeedsHold'
  BY <1>1 DEF Mount, InitInterop, WiredInv
<1>2. ASSUME NEW b \in BOOLEAN, NEW a \in BOOLEAN, SetParameters(b, a)
      PROVE  DragNeedsHold'
  BY <1>2 DEF SetParameters, InitInterop, TypeInv
<1>3. CASE DisposeAsync
  BY <1>3 DEF DisposeAsync, Destroy
<1>4. ASSUME NEW k \in Keys, HandleKeyDown(k)
      PROVE  DragNeedsHold'
  BY <1>4 DEF HandleKeyDown, KeyPressed
<1>5. CASE MouseEnter
  BY <1>5 DEF MouseEnter, TypeInv, Mouse
<1>6. CASE MouseUp \/ MouseLeave
  BY <1>6 DEF MouseUp, MouseLeave, OnPointerUp
<1>7. CASE MouseReleasedUnheard
  BY <1>7 DEF MouseReleasedUnheard, TypeInv, Mouse
<1>8. ASSUME NEW x \in Columns, MouseDown(x) \/ MouseMove(x)
      PROVE  DragNeedsHold'
  BY <1>8 DEF MouseDown, MouseMove, OnPointerDown, TypeInv, Mouse
<1>9. ASSUME NEW x \in AllColumns, NEW inside \in BOOLEAN, TouchStart(x, inside)
      PROVE  DragNeedsHold'
  <2>1. [x |-> x, inside |-> inside] \in Touch
    BY DEF Touch
  <2>2. /\ Len(touches') = Len(touches) + 1 /\ DOMAIN touches' = 1..(Len(touches) + 1)
        /\ \A j \in 1..Len(touches) : touches'[j] = touches[j]
        /\ touches'[Len(touches) + 1].inside = inside
    BY <1>9, <2>1, AppendProperties DEF TouchStart, TypeInv
  <2>3. /\ DOMAIN touches \subseteq DOMAIN touches'
        /\ \A j \in DOMAIN touches : touches'[j] = touches[j]
        /\ Len(touches) + 1 \in DOMAIN touches'
    BY <2>2 DEF TypeInv
  <2>4. CASE inside
    BY <2>2, <2>3, <2>4
  <2>5. CASE ~inside
    BY <1>9, <2>3, <2>5 DEF TouchStart
  <2>6. QED
    BY <2>4, <2>5
<1>10. ASSUME NEW i \in 1..MaxTouches, NEW x \in AllColumns, TouchMove(i, x)
       PROVE  DragNeedsHold'
  <2>1. /\ DOMAIN touches' = DOMAIN touches
        /\ \A j \in DOMAIN touches : touches'[j].inside = touches[j].inside
    BY <1>10 DEF TouchMove, TypeInv, Touch
  <2>2. QED
    BY <1>10, <2>1 DEF TouchMove
<1>11. ASSUME NEW i \in 1..MaxTouches, TouchEnd(i) \/ TouchCancel(i)
       PROVE  DragNeedsHold'
  <2>1. i \in DOMAIN touches /\ touches' = RemoveAt(touches, i)
    BY <1>11 DEF TouchEnd, TouchCancel
  <2>2. CASE touches[i].inside
    BY <1>11, <2>2 DEF TouchEnd, TouchCancel, OnPointerUp
  <2>3. CASE ~touches[i].inside
    BY <1>11, <2>1, <2>3, TouchesKept DEF TouchEnd, TouchCancel, TypeInv
  <2>4. QED
    BY <2>2, <2>3
<1>12. CASE UNCHANGED vars
  BY <1>12 DEF vars
<1>13. QED
  BY <1>1, <1>2, <1>3, <1>4, <1>5, <1>6, <1>7, <1>8, <1>9, <1>10, <1>11, <1>12 DEF Next

(* The divider follows a pointer only while a button is held over the      *)
(* container or a finger is on it, but for a release nobody heard of.      *)
THEOREM DragIsHeld == Spec => []DragNeedsHold
<1>1. Init => TypeInv /\ WiredInv /\ DragNeedsHold
  BY PreviewAssumption, InitTyped, InitWired, InitHeld
<1>2. TypeInv /\ WiredInv /\ DragNeedsHold /\ [Next]_vars =>
        TypeInv' /\ WiredInv' /\ DragNeedsHold'
  BY PreviewAssumption, NextTyped, NextWired, NextHeld
<1>3. QED
  BY <1>1, <1>2, PTL DEF Spec

-----------------------------------------------------------------------------
HandInv == DividerUnderHand /\ GripInv

LEMMA InitHand == Init => HandInv
BY DEF Init, HandInv, DividerUnderHand, GripInv

LEMMA NextHand ==
  PreviewAssumption /\ TypeInv /\ WiredInv /\ HandInv /\ [Next]_vars => HandInv'
<1> SUFFICES ASSUME PreviewAssumption, TypeInv, WiredInv, HandInv, [Next]_vars
             PROVE  HandInv'
  OBVIOUS
<1> USE DEF HandInv, DividerUnderHand, GripInv
<1>a. /\ Reach \in Nat /\ \A n \in Int : n - n \in -Reach..Reach
      /\ Columns \subseteq Int /\ AllColumns \subseteq Int
  BY DEF PreviewAssumption, Columns, AllColumns
<1>b. \A x \in Columns : Clamp(x) = x
  BY DEF Clamp, Columns, PreviewAssumption
<1>c. \A x \in Int : Clamp(x) \in Columns
  BY ClampIsAColumn
<1>1. ASSUME NEW b \in BOOLEAN, NEW a \in BOOLEAN, Mount(b, a)
      PROVE  HandInv'
  <2>1. grip = NoGrip
    BY <1>1 DEF Mount, WiredInv
  <2>2. QED
    BY <1>1, <2>1 DEF Mount
<1>2. ASSUME NEW b \in BOOLEAN, NEW a \in BOOLEAN, SetParameters(b, a)
      PROVE  HandInv'
  <2>1. CASE grip' = NoGrip
    BY <2>1
  <2>2. CASE grip' # NoGrip
    <3>1. touches = <<>> /\ isDragging' /\ grip' = grip
      BY <1>2, <2>2 DEF SetParameters
    <3>2. touches' = <<>>
      BY <1>2, <3>1 DEF SetParameters, TargetsRemoved
    <3>3. isDragging /\ dividerPosition' = dividerPosition
      BY <1>2, <3>1, <2>2 DEF SetParameters, InitInterop
    <3>4. QED
      BY <2>2, <3>1, <3>2, <3>3 DEF InReach
  <2>3. QED
    BY <2>1, <2>2
<1>3. CASE DisposeAsync
  BY <1>3 DEF DisposeAsync, Destroy
<1>4. ASSUME NEW k \in Keys, HandleKeyDown(k)
      PROVE  HandInv'
  BY <1>4 DEF HandleKeyDown, KeyPressed
<1>5. CASE MouseEnter
  BY <1>5 DEF MouseEnter, InReach
<1>6. CASE MouseUp \/ MouseLeave \/ MouseReleasedUnheard
  BY <1>6 DEF MouseUp, MouseLeave, MouseReleasedUnheard, OnPointerUp
<1>7. ASSUME NEW x \in Columns, MouseDown(x)
      PROVE  HandInv'
  BY <1>7 DEF MouseDown, OnPointerDown, Grips, InReach
<1>8. ASSUME NEW x \in Columns, MouseMove(x)
      PROVE  HandInv'
  <2>1. CASE grip' = NoGrip
    BY <2>1
  <2>2. CASE grip' # NoGrip
    <3>1. grip # NoGrip /\ touches = <<>> /\ grip' = x /\ touches' = <<>>
      BY <1>8, <2>2 DEF MouseMove
    <3>2. isDragging /\ listening \in live
      BY <3>1 DEF WiredInv
    <3>3. dividerPosition' = x /\ isDragging'
      BY <1>8, <1>b, <3>2 DEF MouseMove, OnPointerMove
    <3>4. QED
      BY <3>1, <3>3, <1>a DEF InReach
  <2>3. QED
    BY <2>1, <2>2
<1>9. ASSUME NEW x \in AllColumns, NEW inside \in BOOLEAN, TouchStart(x, inside)
      PROVE  HandInv'
  <2>1. CASE grip' = NoGrip
    BY <2>1
  <2>2. CASE grip' # NoGrip
    <3>1. touches = <<>> /\ ~isDragging /\ isDragging' /\ grip' = x
      BY <1>9, <2>2 DEF TouchStart, Grips
    <3>2. inside /\ InReach(touches'[1].x)
      BY <1>9, <3>1 DEF TouchStart, OnPointerDown
    <3>3. Len(touches') = 1 /\ touches'[1] = [x |-> x, inside |-> inside]
      <4>1. [x |-> x, inside |-> inside] \in Touch
        BY DEF Touch
      <4>2. touches' = Append(<<>>, [x |-> x, inside |-> inside])
        BY <1>9, <3>1 DEF TouchStart
      <4>3. QED
        BY <4>1, <4>2, EmptySeq, AppendProperties
    <3>4. dividerPosition' = dividerPosition
      BY <1>9 DEF TouchStart
    <3>5. QED
      BY <3>1, <3>2, <3>3, <3>4 DEF InReach
  <2>3. QED
    BY <2>1, <2>2
<1>10. ASSUME NEW i \in 1..MaxTouches, NEW x \in AllColumns, TouchMove(i, x)
       PROVE  HandInv'
  <2>1. CASE grip' = NoGrip
    BY <2>1
  <2>2. CASE grip' # NoGrip
    <3>1. grip # NoGrip /\ Len(touches) = 1 /\ grip' = Clamp(x) /\ i = 1
      BY <1>10, <2>2 DEF TouchMove, TypeInv
    <3>2. touches # <<>> /\ touches[1].inside
      BY <3>1
    <3>3. touches[1] \in Touch
      <4>1. touches \in Seq(Touch) /\ 1 \in 1..Len(touches)
        BY <3>1 DEF TypeInv
      <4>2. QED
        BY <4>1, ElementOfSeq
    <3>4. /\ Len(touches') = 1
          /\ touches'[1] = [touches[1] EXCEPT !.x = x]
      <4>1. 1 \in DOMAIN touches /\ DOMAIN touches = 1..1
        BY <3>1 DEF TypeInv
      <4>2. touches' = [touches EXCEPT ![1] = [touches[1] EXCEPT !.x = x]]
        BY <1>10, <3>1 DEF TouchMove
      <4>3. [touches[1] EXCEPT !.x = x] \in Touch /\ 1 \in 1..Len(touches)
        BY <3>1, <3>3 DEF Touch
      <4>4. QED
        BY <3>1, <4>2, <4>3, ExceptSeq DEF TypeInv
    <3>5. touches'[1].inside /\ touches'[1].x = x
      BY <3>2, <3>3, <3>4 DEF Touch
    <3>6. isDragging /\ listening \in live
      BY <3>1 DEF WiredInv
    <3>7. dividerPosition' = Clamp(x) /\ isDragging'
      BY <1>10, <3>1, <3>2, <3>5, <3>6 DEF TouchMove, OnPointerMove
    <3>8. QED
      BY <1>a, <1>c, <3>1, <3>4, <3>5, <3>7 DEF InReach
  <2>3. QED
    BY <2>1, <2>2
<1>11. ASSUME NEW i \in 1..MaxTouches, TouchEnd(i) \/ TouchCancel(i)
       PROVE  HandInv'
  <2>1. i \in 1..Len(touches) /\ Len(touches) \in Nat /\ touches # <<>>
    BY <1>11 DEF TouchEnd, TouchCancel, TypeInv
  <2>2. grip = NoGrip \/ touches[i].inside
    BY <2>1
  <2>3. QED
    BY <1>11, <2>2 DEF TouchEnd, TouchCancel, OnPointerUp
<1>12. CASE UNCHANGED vars
  BY <1>12 DEF vars, InReach
<1>13. QED
  BY <1>1, <1>2, <1>3, <1>4, <1>5, <1>6, <1>7, <1>8, <1>9, <1>10, <1>11, <1>12 DEF Next

(* The divider is under the hand that drags it, as long as there is one.   *)
THEOREM DividerStaysUnderHand == Spec => []DividerUnderHand
<1>1. Init => TypeInv /\ WiredInv /\ HandInv
  BY PreviewAssumption, InitTyped, InitWired, InitHand
<1>2. TypeInv /\ WiredInv /\ HandInv /\ [Next]_vars => TypeInv' /\ WiredInv' /\ HandInv'
  BY PreviewAssumption, NextTyped, NextWired, NextHand
<1>3. HandInv => DividerUnderHand
  BY DEF HandInv
<1>4. QED
  BY <1>1, <1>2, <1>3, PTL DEF Spec

-----------------------------------------------------------------------------
LEMMA KeyInvAlways == Spec => []KeyInv
<1>1. Init => KeyInv
  BY DEF Init, KeyInv
<1>2. KeyInv /\ [Next]_vars => KeyInv'
  <2> SUFFICES ASSUME KeyInv, [Next]_vars
               PROVE  KeyInv'
    OBVIOUS
  <2> USE DEF KeyInv, keys
  <2>1. ASSUME NEW b \in BOOLEAN, NEW a \in BOOLEAN, Mount(b, a) \/ SetParameters(b, a)
        PROVE  KeyInv'
    BY <2>1 DEF Mount, SetParameters
  <2>2. ASSUME NEW k \in Keys, HandleKeyDown(k)
        PROVE  KeyInv'
    <3>1. PICK prevented \in {preventDefaultKey, preventDefaultKey'} :
            swallowed' = CASE k \in SliderKeys \/ ~prevented -> 0
                           [] swallowed = 2                 -> 2
                           [] OTHER                         -> swallowed + 1
      BY <2>2 DEF HandleKeyDown, KeyPressed
    <3>2. (preventDefaultKey' <=> k \in SliderKeys)
      BY <2>2 DEF HandleKeyDown, KeyPressed
    <3>3. CASE k \in SliderKeys \/ ~prevented
      BY <3>1, <3>3
    <3>4. CASE k \notin SliderKeys /\ prevented
      <4>1. ~preventDefaultKey' /\ preventDefaultKey /\ swallowed = 0
        BY <3>1, <3>2, <3>4
      <4>2. swallowed' = 1
        BY <3>1, <3>4, <4>1
      <4>3. QED
        BY <4>1, <4>2
    <3>5. QED
      BY <3>3, <3>4
  <2>3. CASE DisposeAsync \/ MouseEnter \/ MouseUp \/ MouseLeave \/ MouseReleasedUnheard
    BY <2>3 DEF DisposeAsync, Destroy, MouseEnter, MouseUp, MouseLeave, MouseReleasedUnheard
  <2>4. ASSUME NEW x \in Columns, MouseDown(x) \/ MouseMove(x)
        PROVE  KeyInv'
    BY <2>4 DEF MouseDown, MouseMove
  <2>5. ASSUME NEW x \in AllColumns, NEW inside \in BOOLEAN, TouchStart(x, inside)
        PROVE  KeyInv'
    BY <2>5 DEF TouchStart
  <2>6. ASSUME NEW i \in 1..MaxTouches, NEW x \in AllColumns, TouchMove(i, x)
        PROVE  KeyInv'
    BY <2>6 DEF TouchMove
  <2>7. ASSUME NEW i \in 1..MaxTouches, TouchEnd(i) \/ TouchCancel(i)
        PROVE  KeyInv'
    BY <2>7 DEF TouchEnd, TouchCancel
  <2>8. CASE UNCHANGED vars
    BY <2>8 DEF vars
  <2>9. QED
    BY <2>1, <2>2, <2>3, <2>4, <2>5, <2>6, <2>7, <2>8 DEF Next
<1>3. QED
  BY <1>1, <1>2, PTL DEF Spec

(* Of two keys in a row that are none of the slider's the browser acts on  *)
(* the second at the latest.                                               *)
THEOREM KeyboardIsFree == Spec => []NoKeyboardTrap
<1>1. KeyInv => NoKeyboardTrap
  BY DEF KeyInv, NoKeyboardTrap
<1>2. QED
  BY <1>1, KeyInvAlways, PTL

-----------------------------------------------------------------------------
(* No more fingers than the bound.                                         *)
FingerInv == Len(touches) =< MaxTouches

LEMMA NextFingers == PreviewAssumption /\ TypeInv /\ FingerInv /\ [Next]_vars => FingerInv'
<1> SUFFICES ASSUME PreviewAssumption, TypeInv, FingerInv, [Next]_vars
             PROVE  FingerInv'
  OBVIOUS
<1>a. MaxTouches \in Nat /\ Len(touches) \in Nat /\ DOMAIN touches = 1..Len(touches)
  BY DEF PreviewAssumption, TypeInv
<1>b. ASSUME touches' = touches \/ TargetsRemoved
      PROVE  FingerInv'
  <2>1. CASE TargetsRemoved
    <3>1. touches' = [i \in 1..Len(touches) |-> [touches[i] EXCEPT !.inside = FALSE]]
      BY <1>a, <2>1 DEF TargetsRemoved
    <3>2. DOMAIN touches' = 1..Len(touches') /\ Len(touches') \in Nat
      BY NextTyped DEF TypeInv
    <3>3. Len(touches') = Len(touches)
      BY <1>a, <3>1, <3>2
    <3>4. QED
      BY <3>3 DEF FingerInv
  <2>2. QED
    BY <1>b, <2>1 DEF FingerInv
<1>1. ASSUME NEW b \in BOOLEAN, NEW a \in BOOLEAN, Mount(b, a) \/ SetParameters(b, a)
      PROVE  FingerInv'
  BY <1>1, <1>b DEF Mount, SetParameters
<1>2. CASE DisposeAsync
  BY <1>2, <1>b DEF DisposeAsync
<1>3. ASSUME NEW k \in Keys, HandleKeyDown(k)
      PROVE  FingerInv'
  BY <1>3, <1>b DEF HandleKeyDown, KeyPressed
<1>4. CASE MouseEnter \/ MouseUp \/ MouseLeave \/ MouseReleasedUnheard
  BY <1>4, <1>b DEF MouseEnter, MouseUp, MouseLeave, MouseReleasedUnheard
<1>5. ASSUME NEW x \in Columns, MouseDown(x) \/ MouseMove(x)
      PROVE  FingerInv'
  BY <1>5, <1>b DEF MouseDown, MouseMove
<1>6. ASSUME NEW x \in AllColumns, NEW inside \in BOOLEAN, TouchStart(x, inside)
      PROVE  FingerInv'
  <2>1. touches \in Seq(Touch) /\ [x |-> x, inside |-> inside] \in Touch
    BY DEF TypeInv, Touch
  <2>2. Len(touches') = Len(touches) + 1
    BY <1>6, <2>1, AppendProperties DEF TouchStart
  <2>3. QED
    BY <1>6, <1>a, <2>2 DEF TouchStart, FingerInv
<1>7. ASSUME NEW i \in 1..MaxTouches, NEW x \in AllColumns, TouchMove(i, x)
      PROVE  FingerInv'
  <2>1. touches' = [touches EXCEPT ![i].x = x] /\ touches \in Seq(Touch)
    BY <1>7 DEF TouchMove, TypeInv
  <2>2. Len(touches') = Len(touches)
    BY <2>1
  <2>3. QED
    BY <2>2 DEF FingerInv
<1>8. ASSUME NEW i \in 1..MaxTouches, TouchEnd(i) \/ TouchCancel(i)
      PROVE  FingerInv'
  <2>1. Len(touches') = Len(touches) - 1
    BY <1>8, RemoveAtKeeps DEF TouchEnd, TouchCancel, TypeInv
  <2>2. QED
    BY <1>a, <2>1 DEF FingerInv
<1>9. CASE UNCHANGED vars
  BY <1>9, <1>b DEF vars
<1>10. QED
  BY <1>1, <1>2, <1>3, <1>4, <1>5, <1>6, <1>7, <1>8, <1>9 DEF Next

(* Component, listeners and hands of the comparison stay of their types.   *)
THEOREM PreviewTyped == Spec => []TypeOK
<1>1. Init => TypeInv /\ FingerInv
  BY PreviewAssumption, InitTyped DEF Init, FingerInv, PreviewAssumption
<1>2. TypeInv /\ FingerInv /\ [Next]_vars => TypeInv' /\ FingerInv'
  BY PreviewAssumption, NextTyped, NextFingers
<1>3. Spec => []KeyInv
  BY KeyInvAlways
<1>4. TypeInv /\ FingerInv /\ KeyInv => TypeOK
  BY DEF TypeInv, FingerInv, KeyInv, TypeOK
<1>5. QED
  BY <1>1, <1>2, <1>3, <1>4, PTL DEF Spec
=============================================================================
