\* Two jobs in a tab, two events in all; the messages are those the client is
\* written for, the unknown and the unreadable ones included.  A client that is
\* disposed of may stop.
CHECK_DEADLOCK FALSE
SPECIFICATION FairSpec
CONSTANTS
  MaxOpens = 2
  MaxEvents = 2
  MaxSent = 2
  Kinds = {"progress", "terminal", "unknown", "malformed"}
  TokenInHeader = TRUE
  NetworkFails = TRUE
INVARIANTS
  TypeOK
  TerminalIsFinal
  NoGaps
  NoConnectionLeft
PROPERTIES
  IsAFeed
  ReaderIsReleased
