\* Two connections of the owner; two progress events and a terminal one.
SPECIFICATION FairSpec
CONSTANTS
  Streams = {s1, s2}
  Owners = {s1, s2}
  MaxEvents = 3
  Retention = 1
CHECK_DEADLOCK FALSE
INVARIANTS
  TypeOK
  EventsAccountedFor
  TerminalEndsStream
  LiveJobsAreServed
PROPERTIES
  StreamsEnd
