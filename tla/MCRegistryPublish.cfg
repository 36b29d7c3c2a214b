\* Three threads, one shard, two-entry chunks, three metrics.
CONSTANTS
  Threads = {t1, t2, t3}
  Requests <- ThreeSingles
  NumShards = 1
  ShardOf <- OneShard
  ChunkSize = 2
  MaxChunks = 2
  None = None
  Uninit = Uninit
SYMMETRY ThreadSymmetry
SPECIFICATION Spec
INVARIANTS
  TypeOK
  InductiveInv
  NoUninitializedRead
  PublishExtendsPrefix
  VisitComplete
  VisitSeesPrefix
  LenWithinBounds
PROPERTIES
  PublishedForever
