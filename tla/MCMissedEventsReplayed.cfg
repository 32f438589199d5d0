\* A connection of the owner and its reconnect; one progress event and a
\* terminal one.
SPECIFICATION Spec
CONSTANTS
  Streams = {s1, s2}
  Owners = {s1, s2}
  MaxEvents = 2
  Retention = 1
CHECK_DEADLOCK FALSE
INVARIANTS
  MissedEventsReplayed
