\* A tick is five minutes.
SPECIFICATION Spec
CONSTANTS
  Saves = {s1, s2}
  Orphans = {orphan}
  Output = output
  SweepInterval = 1
  OrphanAge = 3
  SignedUrlTtl = 6
INVARIANTS
  SignedUrlsServed
