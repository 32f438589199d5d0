\* Five columns, two fingers, a press within one column of the divider.
SPECIFICATION Spec
CONSTANTS
  Width = 4
  Reach = 1
  KeyStep = 1
  MaxTouches = 2
INVARIANTS
  TypeOK
  Wired
  DragNeedsHold
  DividerUnderHand
  NoKeyboardTrap
