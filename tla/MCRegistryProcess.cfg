\* One shard of timings and one of scalars with one-entry chunks; registrations may
\* stall in the critical section, traversals are scheduled.
CONSTANTS
  Threads = {t1, t2}
  Requests <- ProcessRequests
  NumShards = 2
  ShardOf <- OneShardEach
  ChunkSize = 1
  MaxChunks = 2
  None = None
  Uninit = Uninit
SPECIFICATION WalkSpec
PROPERTIES
  TraversalEnds
  ImplementsAbstract
