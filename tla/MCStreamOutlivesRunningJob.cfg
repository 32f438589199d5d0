\* A running job whose second event finds the timer of the first still awaited.
SPECIFICATION Spec
CONSTANTS
  Streams = {s1, s2, s3}
  Owners = {s1, s2}
  MaxEvents = 3
  Retention = 1
CHECK_DEADLOCK FALSE
INVARIANTS
  StreamOutlivesRunningJob
