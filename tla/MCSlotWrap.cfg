\* Counters 16 bits wide and a duration that is clamped to their maximum: the
\* second call wraps elapsed_us.
CONSTANTS
  t1 = t1
  t2 = t2
  t3 = t3
  t4 = t4
  Recorders <- OneThread
  Readers <- OneThread
  Policy = "Resource"
  Durations = {1000, 70000000}
  MaxCalls = 2
  Modulus = 65536
  Processors = {"in_order"}
SPECIFICATION Spec
PROPERTY SnapshotsNeverDecrease
