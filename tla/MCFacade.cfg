\* Two threads, two metrics of one shard, two records.
CONSTANTS
  Threads = {t1, t2}
  Requests <- SomeRequests
  Shards = {1}
  ShardOf <- OneShard
  MaxRecords = 2
  None = None
SPECIFICATION Spec
INVARIANTS
  RecordsReachVisit
  AliasesAgree
  RowsFollowPlan
