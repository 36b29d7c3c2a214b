\* Two threads race to register equal names through every entry point, in a
\* shard of timings and a shard of scalars.
CONSTANTS
  Threads = {t1, t2}
  Requests <- CollidingRequests
  NumShards = 2
  ShardOf <- OneShardEach
  ChunkSize = 2
  MaxChunks = 2
  None = None
  Uninit = Uninit
SYMMETRY ThreadSymmetry
SPECIFICATION RegistrationSpec
INVARIANTS
  OneSlotPerKey
  OnePolicyPerSlot
  HandleExportedUnderItsKey
