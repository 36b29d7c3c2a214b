\* Two recorders; on a memory that keeps nothing but coherence one of them takes
\* snapshots too, on one that keeps loads and updates in order a third thread.
CONSTANTS
  t1 = t1
  t2 = t2
  t3 = t3
  t4 = t4
  Recorders <- SomeRecorders
  Readers <- SomeReaders
  Policy = "Resource"
  Durations <- AtTheThreshold
  MaxCalls = 2
  Modulus = 1000000
  Processors = {"relaxed", "in_order"}
SYMMETRY Symmetry
SPECIFICATION Spec
INVARIANTS
  TypeOK
  NoRecordLost
  QuietSnapshotExact
  CountedCallsComplete
  SuccessNotOverstated
PROPERTY SnapshotsNeverDecrease
