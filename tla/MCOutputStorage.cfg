\* A tick is five minutes.
SPECIFICATION FairSpec
CONSTANTS
  Saves = {s1, s2}
  Orphans = {orphan}
  Output = output
  SweepInterval = 1
  OrphanAge = 3
  SignedUrlTtl = 6
INVARIANTS
  TypeOK
  StorageElsewhereIsSafe
  OrphansRemovedInTime
PROPERTIES
  SweepsGoOn
