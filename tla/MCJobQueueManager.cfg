\* Two slots per session, three for the server, five requests that come back.
SPECIFICATION FairSpec
CONSTANTS
  r1 = r1
  r2 = r2
  r3 = r3
  r4 = r4
  r5 = r5
  alice = alice
  bob = bob
  Requests = {r1, r2, r3, r4, r5}
  Sessions = {alice, bob}
  SessionOf <- MCSessionOf
  MaxConcurrentJobs = 3
  MaxJobsPerSession = 2
INVARIANTS
  TypeOK
  ExactCounts
  LimitsHold
PROPERTIES
  CallsReturn
  ImplementsSlotPool
