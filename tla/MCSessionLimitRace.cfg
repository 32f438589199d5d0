\* Three requests of one session against a limit of one job.
SPECIFICATION Spec
CONSTANTS
  r1 = r1
  r2 = r2
  r3 = r3
  r4 = r4
  r5 = r5
  alice = alice
  bob = bob
  Requests = {r1, r2, r3}
  Sessions = {alice}
  SessionOf <- MCOneSession
  MaxConcurrentJobs = 2
  MaxJobsPerSession = 1
PROPERTIES
  RefusedOnlyAtSessionLimit
