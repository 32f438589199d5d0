\* The answer to a job the timer cancelled.
SPECIFICATION Spec
CONSTANTS
  r1 = r1
  r2 = r2
  r3 = r3
  alice = alice
  bob = bob
  Requests = {r1, r2, r3}
  Sessions = {alice, bob}
  SessionOf <- MCSessionOf
  MaxConcurrentJobs = 1
  MaxJobsPerSession = 1
  Tiers = {"Synchronous", "Async"}
INVARIANTS
  TimeoutIs504
