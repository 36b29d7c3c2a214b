--------------------------- MODULE RegistryProofs ---------------------------
(***************************************************************************)
(* Proofs about Registry, for every number of threads, shards and requests *)
(* and every chunk size.                                                   *)
(***************************************************************************)
EXTENDS Registry, TLAPS

(* Quotient and remainder are determined by the equation between them. *)
LEMMA DivModUnique ==
  ASSUME NEW a \in Nat, NEW C \in Nat \ {0}, NEW q \in Nat, NEW r \in 0..(C - 1),
         a = C * q + r
  PROVE  a \div C = q /\ a % C = r
  <1> DEFINE p == a \div C
             m == a % C
  <1>1. p \in Nat /\ m \in 0..(C - 1) /\ a = C * p + m
    OBVIOUS
  <1> HIDE DEF p, m
  <1>2. C * p + m = C * q + r
    BY <1>1
  <1>3. ASSUME p < q PROVE FALSE
    <2>1. PICK d \in Nat : q = p + 1 + d
      <3>1. q - p - 1 \in Nat BY <1>1, <1>3
      <3> QED BY <1>1, <3>1
    <2>2. C * q = C * p + C + C * d BY <2>1, <1>1
    <2>3. C * d \in Nat BY <2>1
    <2>4. C * p \in Nat BY <1>1
    <2> QED BY <1>1, <1>2, <2>2, <2>3, <2>4
  <1>4. ASSUME q < p PROVE FALSE
    <2>1. PICK d \in Nat : p = q + 1 + d
      <3>1. p - q - 1 \in Nat BY <1>1, <1>4
      <3> QED BY <1>1, <3>1
    <2>2. C * p = C * q + C + C * d BY <2>1, <1>1
    <2>3. C * d \in Nat BY <2>1
    <2>4. C * q \in Nat OBVIOUS
    <2> QED BY <1>1, <1>2, <2>2, <2>3, <2>4
  <1>5. p = q BY <1>1, <1>3, <1>4
  <1>6. m = r BY <1>1, <1>2, <1>5
  <1> QED BY <1>5, <1>6 DEF p, m

(* Position n + 1 of a chunked array follows position n: the next offset of *)
(* the same chunk, or the first of the next.                                *)
LEMMA NextPositionArith ==
  ASSUME NEW n \in Nat, NEW C \in Nat \ {0}
  PROVE  /\ n \div C \in Nat
         /\ n % C \in 0..(C - 1)
         /\ n % C = C - 1 => (n + 1) \div C = (n \div C) + 1 /\ (n + 1) % C = 0
         /\ n % C # C - 1 => (n + 1) \div C = n \div C /\ (n + 1) % C = (n % C) + 1
  <1> DEFINE q == n \div C
             r == n % C
  <1>1. q \in Nat /\ r \in 0..(C - 1) /\ n = C * q + r
    OBVIOUS
  <1>2. CASE r = C - 1
    <2>1. n + 1 = C * (q + 1) + 0
      BY <1>1, <1>2
    <2>2. (n + 1) \div C = q + 1 /\ (n + 1) % C = 0
      <3>1. n + 1 \in Nat /\ q + 1 \in Nat /\ 0 \in 0..(C - 1) BY <1>1
      <3> HIDE DEF q, r
      <3> QED BY ONLY <2>1, <3>1, C \in Nat \ {0}, DivModUnique
    <2> QED BY <1>1, <1>2, <2>2
  <1>3. CASE r # C - 1
    <2>1. n + 1 = C * q + (r + 1) /\ r + 1 \in 0..(C - 1)
      BY <1>1, <1>3
    <2>2. (n + 1) \div C = q /\ (n + 1) % C = r + 1
      <3>1. n + 1 \in Nat /\ q \in Nat BY <1>1
      <3> HIDE DEF q, r
      <3> QED BY ONLY <2>1, <3>1, C \in Nat \ {0}, DivModUnique
    <2> QED BY <1>1, <1>3, <2>2
  <1> QED BY <1>1, <1>2, <1>3

----------------------------------------------------------------------------
(* Facts about the constants. *)
LEMMA ConstantFacts ==
  /\ NumShards \in Nat \ {0}
  /\ ChunkSize \in Nat \ {0}
  /\ MaxChunks \in Nat \ {0}
  /\ 1 \in Shards
  /\ 0 \in ChunkIds
  /\ 0 \in Offsets
  /\ None \notin Threads
  /\ None \notin Slots
  /\ Uninit \notin Metas
  BY RegistryAssumption, NoneAssumption DEF Shards, ChunkIds, Offsets

(* Every request has a key, and every key a shard. *)
LEMMA RequestFacts ==
  ASSUME NEW r \in Requests
  PROVE  LookupKey(r) \in Keys /\ ShardOf[LookupKey(r)] \in Shards
  <1>1. LookupKey(r) \in Keys
    BY DEF Keys
  <1> QED BY <1>1, RegistryAssumption

(* A slot is the triple of its shard, chunk and offset. *)
LEMMA SlotFacts ==
  ASSUME NEW x \in Slots
  PROVE  /\ x[1] \in Shards /\ x[2] \in ChunkIds /\ x[3] \in Offsets
         /\ x = <<x[1], x[2], x[3]>>
         /\ <<x[1], x[2]>> \in Shards \X ChunkIds
  BY DEF Slots

(* The names of writes are writes, and different names differ. *)
LEMMA WriteFacts ==
  ASSUME NEW s \in Shards, NEW c \in ChunkIds, NEW o \in Offsets
  PROVE  /\ SlotsWrite(s, c) \in Writes
         /\ EntryWrite(s, c, o) \in Writes
         /\ LenStore(s, c, o) \in Writes
         /\ IndexStore(s, c) \in Writes
  BY ConstantFacts DEF SlotsWrite, EntryWrite, LenStore, IndexStore, Writes

(* The cursor a traversal starts with is a cursor. *)
LEMMA StartCursorType ==
  ASSUME NEW op \in {"visit", "len"}
  PROVE  StartCursor(op) \in Cursors
  BY ConstantFacts DEF StartCursor, Cursors

(* The initial state has its types. *)
LEMMA InitType == Init => TypeOK
  BY ConstantFacts, StartCursorType
  DEF Init, TypeOK, Labels, Handles

----------------------------------------------------------------------------
(***************************************************************************)
(* Type correctness.  LockInv and SlotInv say which slot and request a     *)
(* registration in progress works with.                                    *)
(***************************************************************************)

(* Taking the shard lock and looking the key up keep the types. *)
LEMMA LockType ==
  ASSUME TypeOK, NEW t \in Threads, NEW r \in Requests, Lock(t, r)
  PROVE  TypeOK'
  <1>1. LookupKey(r) \in Keys /\ ShardOf[LookupKey(r)] \in Shards
    BY RequestFacts
  <1>2. Existing(ShardOf[LookupKey(r)], r) \in Slots \cup {None}
    BY <1>1 DEF TypeOK, Existing
  <1> QED
    BY <1>1, <1>2
    DEF TypeOK, Lock, Acquire, Goto, Labels, memoryVars, walkVars

(* allocate and the write of the entry stay inside the shard. *)
LEMMA AllocateType ==
  ASSUME TypeOK, LockInv, NEW t \in Threads, Allocate(t)
  PROVE  TypeOK'
  <1> DEFINE s == ShardLocked(t)
             c == NextSlot(s)[2]
             o == NextSlot(s)[3]
  <1>1. req[t] \in Requests /\ s \in Shards
    BY RequestFacts DEF LockInv, Allocate, Registering, ShardLocked
  <1>2. len[s] \in Nat
    BY <1>1 DEF TypeOK
  <1>3. NextSlot(s) = <<s, c, o>> /\ c \in ChunkIds /\ o \in Offsets /\ NextSlot(s) \in Slots
    <2>1. len[s] % ChunkSize \in Offsets
      BY <1>2, ConstantFacts, NextPositionArith DEF Offsets
    <2>2. c \in ChunkIds
      BY DEF Allocate
    <2> QED BY <1>1, <2>1, <2>2 DEF NextSlot, Slots
  <1>4. [item |-> NextSlot(s), profile |-> req[t]] \in Metas
    BY <1>1, <1>3 DEF Metas
  <1>5. chunks' \in [Shards -> 0..MaxChunks]
    BY <1>1, <1>3, ConstantFacts DEF TypeOK, Allocate, ChunkIds
  <1>6. view' \in [Threads -> SUBSET Writes]
    BY <1>1, <1>3, WriteFacts DEF TypeOK, Allocate
  <1>7. entries' \in [Slots -> Metas \cup {Uninit}] /\ item' \in [Threads -> Slots \cup {None}]
    BY <1>3, <1>4 DEF TypeOK, Allocate
  <1>8. fresh' \in [Threads -> BOOLEAN] /\ pc' \in [Threads -> Labels]
    BY DEF TypeOK, Allocate, Goto, Labels
  <1> QED
    BY <1>5, <1>6, <1>7, <1>8 DEF TypeOK, Allocate, walkVars

(* A thread that remembers its slot stores it in the map of its key. *)
LEMMA RememberType ==
  ASSUME TypeOK, NEW t \in Threads, item[t] \in Slots, req[t] \in Requests
  PROVE  Remember(t) \in [Shards -> [Keys -> Slots \cup {None}]]
  <1>1. LookupKey(req[t]) \in Keys /\ ShardLocked(t) \in Shards
    BY RequestFacts DEF ShardLocked
  <1>2. items \in [Shards -> [Keys -> Slots \cup {None}]]
    BY DEF TypeOK
  <1>3. [items[ShardLocked(t)] EXCEPT ![LookupKey(req[t])] = item[t]]
          \in [Keys -> Slots \cup {None}]
    BY <1>1, <1>2
  <1> QED BY <1>1, <1>2, <1>3 DEF Remember

(* The store to published_len and the map insert keep the types. *)
LEMMA PublishType ==
  ASSUME TypeOK, LockInv, SlotInv, NEW t \in Threads, Publish(t)
  PROVE  TypeOK'
  <1> DEFINE s == item[t][1]
             c == item[t][2]
             o == item[t][3]
  <1>1. item[t] \in Slots
    BY DEF SlotInv, Publish
  <1>2. s \in Shards /\ c \in ChunkIds /\ o \in Offsets /\ <<s, c>> \in Shards \X ChunkIds
    BY <1>1, SlotFacts
  <1>3. PrefixThrough(o) \in 0..ChunkSize
    BY <1>2, ConstantFacts DEF PrefixThrough, Offsets
  <1>4. published_len' \in [Shards \X ChunkIds -> 0..ChunkSize] /\ len' \in [Shards -> Nat]
    BY <1>2, <1>3 DEF TypeOK, Publish
  <1>5. view' \in [Threads -> SUBSET Writes] /\ lenView' \in [Slots -> SUBSET Writes]
    BY <1>1, <1>2, WriteFacts DEF TypeOK, Publish, Acquire, Released
  <1>6. pc' \in [Threads -> Labels]
    BY DEF TypeOK, Publish, Goto, AfterPublish, Labels
  <1>7. items' \in [Shards -> [Keys -> Slots \cup {None}]]
    <2>1. req[t] \in Requests
      BY DEF LockInv, Registering, Publish
    <2>2. items \in [Shards -> [Keys -> Slots \cup {None}]]
      BY DEF TypeOK
    <2>3. items' = Remember(t) \/ items' = items
      BY DEF Publish
    <2> QED BY <1>1, <2>1, <2>2, <2>3, RememberType
  <1> QED
    BY <1>4, <1>5, <1>6, <1>7 DEF TypeOK, Publish, callVars, walkVars

(* The store of the copied index keeps the types. *)
LEMMA StoreIndexType ==
  ASSUME TypeOK, LockInv, SlotInv, NEW t \in Threads, StoreIndex(t)
  PROVE  TypeOK'
  <1> DEFINE s == item[t][1]
             c == item[t][2]
  <1>1. item[t] \in Slots
    BY DEF SlotInv, StoreIndex
  <1>2. s \in Shards /\ c \in ChunkIds /\ <<s, c>> \in Shards \X ChunkIds
    BY <1>1, SlotFacts
  <1>3. published_index' \in [Shards -> 0..MaxChunks]
    BY <1>2 DEF TypeOK, StoreIndex
  <1>4. view' \in [Threads -> SUBSET Writes]
    BY <1>2, WriteFacts, ConstantFacts DEF TypeOK, StoreIndex, Acquire
  <1>5. indexView' \in [Shards \X ChunkIds -> SUBSET Writes]
    BY <1>2, WriteFacts, ConstantFacts DEF TypeOK, StoreIndex, Released
  <1>6. pc' \in [Threads -> Labels]
    BY DEF TypeOK, StoreIndex, Goto, Labels
  <1> QED
    BY <1>3, <1>4, <1>5, <1>6 DEF TypeOK, StoreIndex, shardVars, callVars, walkVars

(* Unlocking and returning a handle keep the types. *)
LEMMA ReturnType ==
  ASSUME TypeOK, LockInv, SlotInv, NEW t \in Threads,
         ReturnExisting(t) \/ ReturnInserted(t)
  PROVE  TypeOK'
  <1>1. Return(t) /\ pc[t] \in {"existing", "insert"}
    BY DEF ReturnExisting, ReturnInserted
  <1>2. item[t] \in Slots /\ req[t] \in Requests
    BY <1>1 DEF SlotInv, LockInv, Registering
  <1>3. LookupKey(req[t]) \in Keys /\ ShardLocked(t) \in Shards
    BY <1>2, RequestFacts DEF ShardLocked
  <1>4. items' \in [Shards -> [Keys -> Slots \cup {None}]]
    <2>1. items \in [Shards -> [Keys -> Slots \cup {None}]]
      BY DEF TypeOK
    <2>2. items' = Remember(t) \/ items' = items
      BY DEF ReturnExisting, ReturnInserted
    <2> QED BY <1>2, <2>1, <2>2, RememberType
  <1>5. [key |-> LookupKey(req[t]), item |-> item[t], policy |-> PolicyOf(req[t])] \in Handles
    BY <1>2, <1>3 DEF Handles
  <1>6. handles' \in SUBSET Handles
    BY <1>1, <1>5 DEF TypeOK, Return
  <1>7. mutex' \in [Shards -> Threads \cup {None}] /\ lockView' \in [Shards -> SUBSET Writes]
    BY <1>1, <1>3 DEF TypeOK, Return
  <1>8. pc' \in [Threads -> Labels]
    BY <1>1 DEF TypeOK, Return, Goto, Labels
  <1> QED
    BY <1>1, <1>4, <1>6, <1>7, <1>8 DEF TypeOK, Return, memoryVars, walkVars

(* The start of visit or len keeps the types. *)
LEMMA BeginWalkType ==
  ASSUME TypeOK, NEW t \in Threads, NEW op \in {"visit", "len"}, BeginWalk(t, op)
  PROVE  TypeOK'
  BY StartCursorType
  DEF TypeOK, BeginWalk, KnownSlots, Goto, Labels, shardVars, memoryVars, callVars

(* The position a traversal moves to. *)
LEMMA NextPositionType ==
  ASSUME TypeOK, NEW t \in Threads, NextPosition(t, cursor[t])
  PROVE  cursor' \in [Threads -> Cursors] /\ pc' \in [Threads -> Labels]
  <1> DEFINE cur == cursor[t]
  <1>1. cur \in Cursors
    BY DEF TypeOK
  <1>2. CASE cur.chunk + 1 < cur.chunks
    <2>1. [cur EXCEPT !.chunk = @ + 1, !.len = 0, !.offset = 0] \in Cursors
      <3>1. cur.chunk + 1 \in ChunkIds /\ 0 \in 0..ChunkSize /\ 0 \in Offsets
        BY <1>1, <1>2, ConstantFacts DEF Cursors, ChunkIds
      <3> QED BY <1>1, <3>1 DEF Cursors
    <2> QED BY <1>2, <2>1 DEF TypeOK, NextPosition, Goto, Labels
  <1>3. CASE ~(cur.chunk + 1 < cur.chunks) /\ cur.shard < NumShards
    <2>1. [StartCursor(cur.op) EXCEPT !.shard = cur.shard + 1] \in Cursors
      BY <1>1, <1>3, ConstantFacts DEF Cursors, StartCursor, Shards
    <2> QED BY <1>3, <2>1 DEF TypeOK, NextPosition, Goto, Labels
  <1>4. CASE ~(cur.chunk + 1 < cur.chunks) /\ ~(cur.shard < NumShards)
    BY <1>1, <1>4 DEF TypeOK, NextPosition, Goto, Labels
  <1> QED BY <1>2, <1>3, <1>4

(* Loading an index of a shard keeps the types. *)
LEMMA LoadIndexType ==
  ASSUME TypeOK, NEW t \in Threads, LoadIndex(t)
  PROVE  TypeOK'
  <1> DEFINE s == cursor[t].shard
  <1>1. cursor[t] \in Cursors /\ s \in Shards
    BY DEF TypeOK, Cursors
  <1>2. PICK k \in LoadableIndex(view[t], s) : WithIndex(t, s, k)
    BY DEF LoadIndex
  <1>3. k \in 0..MaxChunks
    BY <1>1, ConstantFacts DEF LoadableIndex, TypeOK
  <1>4. CASE k = 0
    <2>1. NextPosition(t, cursor[t]) /\ UNCHANGED view
      BY <1>2, <1>4 DEF WithIndex
    <2>2. cursor' \in [Threads -> Cursors] /\ pc' \in [Threads -> Labels]
      BY <2>1, NextPositionType
    <2> QED
      BY <1>2, <2>1, <2>2 DEF TypeOK, WithIndex, shardVars, memoryVars, callVars
  <1>5. CASE k # 0
    <2>1. <<s, k - 1>> \in Shards \X ChunkIds
      BY <1>1, <1>3, <1>5, ConstantFacts DEF ChunkIds
    <2>0. /\ Acquire(t, indexView[<<s, k - 1>>])
          /\ cursor' = [cursor EXCEPT ![t].chunks = k]
          /\ Goto(t, "load_len")
      BY <1>2, <1>5 DEF WithIndex
    <2>2. view' \in [Threads -> SUBSET Writes]
      <3>1. indexView[<<s, k - 1>>] \in SUBSET Writes
        BY <2>1 DEF TypeOK
      <3> QED BY <2>0, <3>1 DEF TypeOK, Acquire
    <2>3. cursor' \in [Threads -> Cursors] /\ pc' \in [Threads -> Labels]
      <3>1. [cursor[t] EXCEPT !.chunks = k] \in Cursors
        BY <1>1, <1>3 DEF Cursors
      <3> QED BY <2>0, <3>1 DEF TypeOK, Goto, Labels
    <2> QED
      BY <1>2, <2>2, <2>3 DEF TypeOK, WithIndex, shardVars, memoryVars, callVars
  <1> QED BY <1>4, <1>5

(* Loading a published_len keeps the types. *)
LEMMA LoadLenType ==
  ASSUME TypeOK, NEW t \in Threads, LoadLen(t)
  PROVE  TypeOK'
  <1> DEFINE s == cursor[t].shard
             c == cursor[t].chunk
  <1>1. cursor[t] \in Cursors /\ s \in Shards /\ c \in ChunkIds
    BY DEF TypeOK, Cursors
  <1>2. PICK n \in LoadableLen(view[t], s, c) :
          /\ Acquire(t, IF n = 0 THEN {} ELSE lenView[<<s, c, n - 1>>])
          /\ IF cursor[t].op = "len" \/ n = 0
               THEN /\ NextPosition(t, cursor[t])
                    /\ total' = [total EXCEPT ![t] = @ + n]
               ELSE /\ cursor' = [cursor EXCEPT ![t].len = n]
                    /\ Goto(t, "get")
                    /\ UNCHANGED total
    BY DEF LoadLen
  <1>3. n \in 0..ChunkSize
    <2>1. <<s, c>> \in Shards \X ChunkIds
      BY <1>1
    <2> QED BY <2>1, ConstantFacts DEF LoadableLen, TypeOK
  <1>4. view' \in [Threads -> SUBSET Writes]
    <2>1. CASE n = 0
      BY <1>2, <2>1 DEF TypeOK, Acquire
    <2>2. CASE n # 0
      <3>1. <<s, c, n - 1>> \in Slots
        BY <1>1, <1>3, <2>2, ConstantFacts DEF Slots, Offsets
      <3> QED BY <1>2, <2>2, <3>1 DEF TypeOK, Acquire
    <2> QED BY <2>1, <2>2
  <1>5. /\ cursor' \in [Threads -> Cursors]
        /\ pc' \in [Threads -> Labels]
        /\ total' \in [Threads -> Nat]
    <2>1. CASE cursor[t].op = "len" \/ n = 0
      BY <1>2, <1>3, <2>1, NextPositionType DEF TypeOK
    <2>2. CASE ~(cursor[t].op = "len" \/ n = 0)
      <3>1. [cursor[t] EXCEPT !.len = n] \in Cursors
        BY <1>1, <1>3 DEF Cursors
      <3> QED BY <1>2, <2>2, <3>1 DEF TypeOK, Goto, Labels
    <2> QED BY <2>1, <2>2
  <1> QED
    BY <1>4, <1>5 DEF TypeOK, LoadLen, shardVars, memoryVars, callVars

(* Reading an entry and calling back keep the types. *)
LEMMA GetEntryType ==
  ASSUME TypeOK, NEW t \in Threads, GetEntry(t)
  PROVE  TypeOK'
  <1> DEFINE s == cursor[t].shard
             c == cursor[t].chunk
             o == cursor[t].offset
  <1>1. cursor[t] \in Cursors /\ <<s, c, o>> \in Slots
    BY DEF TypeOK, Cursors, Slots
  <1>2. PICK m \in EntryRead(view[t], s, c, o) : seen' = [seen EXCEPT ![t] = @ \cup {m}]
    BY DEF GetEntry
  <1>3. m \in Metas \cup {Uninit}
    BY <1>1 DEF EntryRead, TypeOK
  <1>4. seen' \in [Threads -> SUBSET (Metas \cup {Uninit})] /\ total' \in [Threads -> Nat]
    BY <1>2, <1>3 DEF TypeOK, GetEntry
  <1>5. cursor' \in [Threads -> Cursors] /\ pc' \in [Threads -> Labels]
    <2>1. CASE MoreEntries(cursor[t])
      <3>1. [cursor[t] EXCEPT !.offset = @ + 1] \in Cursors
        BY <1>1, <2>1, ConstantFacts DEF Cursors, MoreEntries, Offsets
      <3> QED BY <2>1, <3>1 DEF GetEntry, TypeOK
    <2>2. CASE ~MoreEntries(cursor[t])
      BY <2>2, NextPositionType DEF GetEntry
    <2> QED BY <2>1, <2>2
  <1> QED
    BY <1>4, <1>5 DEF TypeOK, GetEntry, shardVars, memoryVars, callVars

(* The end of visit or len keeps the types. *)
LEMMA EndWalkType ==
  ASSUME TypeOK, NEW t \in Threads, EndWalk(t)
  PROVE  TypeOK'
  BY StartCursorType
  DEF TypeOK, EndWalk, Goto, Labels, shardVars, memoryVars, callVars

(* Synchronisation of two threads elsewhere keeps the types. *)
LEMMA SynchronizeType ==
  ASSUME TypeOK, NEW a \in Threads, NEW b \in Threads, Synchronize(a, b)
  PROVE  TypeOK'
  BY DEF TypeOK, Synchronize, Acquire, shardVars, memoryVars, callVars, walkVars

(* A step that changes nothing keeps the types. *)
LEMMA StutterType == TypeOK /\ UNCHANGED vars => TypeOK'
  BY DEF TypeOK, vars, shardVars, memoryVars, callVars, walkVars

----------------------------------------------------------------------------
(***************************************************************************)
(* Views that are closed stay closed when they grow the way views grow.    *)
(***************************************************************************)

(* The empty view is closed. *)
LEMMA ClosedEmpty ==
  ASSUME NEW e
  PROVE  Closed({}, e)
  BY DEF Closed

(* What an acquire load makes of two closed views is closed. *)
LEMMA ClosedUnion ==
  ASSUME NEW V, NEW W, NEW e, Closed(V, e), Closed(W, e)
  PROVE  Closed(V \cup W, e)
  BY DEF Closed

(* An entry that is written stays written. *)
LEMMA ClosedWritten ==
  ASSUME NEW V, NEW e, NEW f, Closed(V, e),
         \A x \in Slots : e[x] # Uninit => f[x] # Uninit
  PROVE  Closed(V, f)
  <1>1. \A s \in Shards, c \in ChunkIds, o \in Offsets : <<s, c, o>> \in Slots
    BY DEF Slots
  <1> QED BY <1>1 DEF Closed

(* Allocate writes the entry, and the counters of a chunk it adds. *)
LEMMA ClosedAllocate ==
  ASSUME NEW V, NEW e, Closed(V, e),
         NEW s \in Shards, NEW c \in ChunkIds, NEW o \in Offsets,
         e[<<s, c, o>>] # Uninit,
         NEW W, W \subseteq {EntryWrite(s, c, o), SlotsWrite(s, c)}
  PROVE  Closed(V \cup W, e)
  BY DEF Closed, EntryWrite, SlotsWrite, LenStore

(* Publish stores the length that follows the last one. *)
LEMMA ClosedPublish ==
  ASSUME NEW V, NEW e, Closed(V, e),
         NEW s \in Shards, NEW c \in ChunkIds, NEW o \in Offsets,
         EntryWrite(s, c, o) \in V, SlotsWrite(s, c) \in V,
         o > 0 => LenStore(s, c, o - 1) \in V
  PROVE  Closed(V \cup {LenStore(s, c, o)}, e)
  <1>1. \A p \in 0..o : EntryWrite(s, c, p) \in V
    <2> TAKE p \in 0..o
    <2>1. CASE p = o
      BY <2>1
    <2>2. CASE p # o
      <3>1. o > 0 /\ o - 1 \in Offsets /\ p \in 0..(o - 1)
        BY <2>2, ConstantFacts DEF Offsets
      <3> QED BY <3>1 DEF Closed
    <2> QED BY <2>1, <2>2
  <1> QED BY <1>1 DEF Closed, EntryWrite, SlotsWrite, LenStore

(* The index store follows the publication it makes reachable. *)
LEMMA ClosedIndex ==
  ASSUME NEW V, NEW e, Closed(V, e), NEW s, NEW c
  PROVE  Closed(V \cup {IndexStore(s, c)}, e)
  BY DEF Closed, EntryWrite, SlotsWrite, LenStore, IndexStore

----------------------------------------------------------------------------
(***************************************************************************)
(* What the steps of one kind leave alone.                                 *)
(***************************************************************************)

(* Steps outside the critical section keep the registration invariants.    *)
LEMMA WalkFrame ==
  ASSUME InductiveInv,
         UNCHANGED <<shardVars, memoryVars, lockView, callVars>>,
         \A u \in Threads : view[u] \subseteq view'[u] /\ Closed(view'[u], entries),
         \A u \in Threads : pc[u] \in Registering \/ pc'[u] \in Registering => pc'[u] = pc[u]
  PROVE  /\ LockInv' /\ SlotInv' /\ PrefixInv' /\ ChunkInv'
         /\ ClosedInv' /\ ReleaseInv'
  <1> USE DEF shardVars, memoryVars, callVars
  <1>1. \A u \in Threads : ShardLocked(u)' = ShardLocked(u)
    BY DEF ShardLocked
  <1>2. \A x : NextSlot(x)' = NextSlot(x)
    BY DEF NextSlot
  <1>3. LockInv'
    BY <1>1 DEF InductiveInv, LockInv
  <1>4. SlotInv'
    <2> SUFFICES ASSUME NEW u \in Threads
                 PROVE  SlotInv!(u)'
      BY DEF SlotInv
    <2>1. pc'[u] \in {"publish", "index", "insert", "existing"} => pc'[u] = pc[u]
      BY DEF Registering
    <2> QED BY <1>1, <1>2, <2>1 DEF InductiveInv, SlotInv
  <1>5. PrefixInv'
    BY DEF InductiveInv, PrefixInv
  <1>6. ChunkInv'
    <2>1. \A u \in Threads : pc[u] = "publish" => pc'[u] = "publish"
      BY DEF Registering
    <2> QED BY <1>1, <2>1 DEF InductiveInv, ChunkInv
  <1>7. ClosedInv'
    BY DEF InductiveInv, ClosedInv
  <1>8. ReleaseInv'
    <2>1. \A x \in Shards : OwnerView(x) \subseteq OwnerView(x)'
      BY DEF OwnerView, InductiveInv, TypeOK
    <2> QED BY <2>1 DEF InductiveInv, ReleaseInv
  <1> QED BY <1>3, <1>4, <1>5, <1>6, <1>7, <1>8

(* Steps of a registration keep the traversal invariants. *)
LEMMA RegisterFrame ==
  ASSUME InductiveInv,
         UNCHANGED walkVars,
         \A u \in Threads : view[u] \subseteq view'[u],
         \A u \in Threads : pc'[u] \in Walking => pc'[u] = pc[u]
  PROVE  WalkInv' /\ NoUninitializedRead'
  BY DEF Walking, InductiveInv, WalkInv, NoUninitializedRead, walkVars

----------------------------------------------------------------------------
(***************************************************************************)
(* Every action preserves the inductive invariant.                         *)
(***************************************************************************)

(* Taking the lock acquires the view of the last owner. *)
LEMMA LockStep ==
  ASSUME InductiveInv, NEW t \in Threads, NEW r \in Requests, Lock(t, r)
  PROVE  InductiveInv'
  <1> DEFINE s == ShardOf[LookupKey(r)]
  <1> USE DEF InductiveInv
  <1>1. s \in Shards
    BY RequestFacts
  <1>2. TypeOK'
    BY LockType
  <1>3. /\ mutex[s] = None
        /\ mutex' = [mutex EXCEPT ![s] = t]
        /\ view' = [view EXCEPT ![t] = @ \cup lockView[s]]
        /\ req' = [req EXCEPT ![t] = r]
        /\ item' = [item EXCEPT ![t] = Existing(s, r)]
        /\ pc' = [pc EXCEPT ![t] = IF Existing(s, r) = None THEN "allocate" ELSE "existing"]
        /\ UNCHANGED <<items, len, chunks, memoryVars, lockView, walkVars>>
    BY DEF Lock, Unlocked, Acquire, Goto
  <1>4. pc[t] = "idle"
    BY DEF Lock
  <1>5. pc'[t] \in {"allocate", "existing"} /\ req'[t] = r /\ ShardLocked(t)' = s
    BY <1>3 DEF TypeOK, ShardLocked
  <1>6. \A u \in Threads \ {t} :
          /\ pc'[u] = pc[u] /\ req'[u] = req[u] /\ item'[u] = item[u] /\ view'[u] = view[u]
          /\ ShardLocked(u)' = ShardLocked(u)
    BY <1>3 DEF TypeOK, ShardLocked
  <1>7. LockInv'
    <2>1. mutex'[s] = t
      BY <1>1, <1>3 DEF TypeOK
    <2>2. ASSUME NEW u \in Threads \ {t}, pc'[u] \in Registering
          PROVE  req'[u] \in Requests /\ mutex'[ShardLocked(u)'] = u
      <3>1. req[u] \in Requests /\ mutex[ShardLocked(u)] = u
        BY <1>6, <2>2 DEF LockInv
      <3>2. ShardLocked(u) # s
        BY <1>3, <3>1, ConstantFacts
      <3>3. ShardLocked(u) \in Shards
        BY <3>1, RequestFacts DEF ShardLocked
      <3> QED BY <1>3, <1>6, <3>1, <3>2, <3>3 DEF TypeOK
    <2> QED BY <1>5, <2>1, <2>2 DEF LockInv
  <1>8. SlotInv'
    <2>1. pc'[t] = "existing" => item'[t] \in Slots
      <3>1. Existing(s, r) \in Slots \cup {None}
        BY <1>1, RequestFacts DEF TypeOK, Existing
      <3> QED BY <1>3, <3>1 DEF TypeOK
    <2>2. \A x : NextSlot(x)' = NextSlot(x)
      BY <1>3 DEF NextSlot
    <2> QED BY <1>5, <1>6, <2>1, <2>2 DEF SlotInv
  <1>9. PrefixInv'
    BY <1>3 DEF PrefixInv, memoryVars
  <1>10. ChunkInv'
    <2>1. \A u \in Threads : pc[u] = "publish" => pc'[u] = "publish" /\ ShardLocked(u)' = ShardLocked(u)
      BY <1>4, <1>6
    <2> QED BY <1>3, <2>1 DEF ChunkInv, memoryVars
  <1>11. \A u \in Threads : view[u] \subseteq view'[u] /\ Closed(view'[u], entries)
    <2>1. view'[t] = view[t] \cup lockView[s]
      BY <1>3 DEF TypeOK
    <2>2. Closed(view'[t], entries)
      BY <1>1, <2>1, ClosedUnion DEF ClosedInv
    <2> QED BY <1>6, <2>1, <2>2 DEF ClosedInv
  <1>12. ClosedInv'
    BY <1>3, <1>11 DEF ClosedInv, memoryVars
  <1>13. ReleaseInv'
    <2>1. \A x \in Shards : OwnerView(x) \subseteq OwnerView(x)'
      <3> TAKE x \in Shards
      <3>1. CASE x = s
        <4>1. mutex'[s] = t /\ view'[t] = view[t] \cup lockView[s]
          BY <1>1, <1>3 DEF TypeOK
        <4> QED BY <1>3, <3>1, <4>1, ConstantFacts DEF OwnerView
      <3>2. CASE x # s
        <4>1. mutex'[x] = mutex[x] /\ lockView'[x] = lockView[x] /\ mutex[x] \in Threads \cup {None}
          BY <1>1, <1>3, <3>2 DEF TypeOK
        <4> QED BY <1>11, <4>1 DEF OwnerView
      <3> QED BY <3>1, <3>2
    <2> QED BY <1>3, <2>1 DEF ReleaseInv, memoryVars
  <1>14. WalkInv' /\ NoUninitializedRead'
    <2>1. \A u \in Threads : pc'[u] \in Walking => pc'[u] = pc[u]
      BY <1>5, <1>6 DEF Walking
    <2> QED BY <1>3, <1>11, <2>1, RegisterFrame
  <1> QED BY <1>2, <1>7, <1>8, <1>9, <1>10, <1>12, <1>13, <1>14

(* The publication before the next one of a shard that is inside a chunk.   *)
LEMMA PreviousStore ==
  ASSUME InductiveInv, NEW s \in Shards, len[s] % ChunkSize # 0
  PROVE  LenStore(s, len[s] \div ChunkSize, (len[s] % ChunkSize) - 1) \in OwnerView(s)
  <1>1. len[s] \in Nat
    BY DEF InductiveInv, TypeOK
  <1>2. len[s] > 0
    <2>1. 0 % ChunkSize = 0
      <3>1. 0 = ChunkSize * 0 + 0 /\ 0 \in 0..(ChunkSize - 1)
        BY ConstantFacts
      <3> QED BY <3>1, ConstantFacts, DivModUnique
    <2> QED BY <1>1, <2>1
  <1> DEFINE n == len[s] - 1
  <1>3. n \in Nat /\ n + 1 = len[s]
    BY <1>1, <1>2
  <1> HIDE DEF n
  <1>4. n \div ChunkSize = len[s] \div ChunkSize /\ n % ChunkSize = (len[s] % ChunkSize) - 1
    <2>1. /\ n % ChunkSize \in 0..(ChunkSize - 1)
          /\ n % ChunkSize = ChunkSize - 1 => len[s] % ChunkSize = 0
          /\ n % ChunkSize # ChunkSize - 1 =>
               /\ len[s] \div ChunkSize = n \div ChunkSize
               /\ len[s] % ChunkSize = (n % ChunkSize) + 1
      BY <1>3, ConstantFacts, NextPositionArith
    <2> QED BY <2>1, ConstantFacts
  <1>5. LenStore(s, n \div ChunkSize, n % ChunkSize) \in OwnerView(s)
    BY <1>2 DEF InductiveInv, ReleaseInv, n
  <1> QED BY <1>4, <1>5

(* The entry is written at the next unpublished position. *)
LEMMA AllocateStep ==
  ASSUME InductiveInv, NEW t \in Threads, Allocate(t)
  PROVE  InductiveInv'
  <1> DEFINE s == ShardLocked(t)
             c == len[s] \div ChunkSize
             o == len[s] % ChunkSize
             slot == <<s, c, o>>
             isNew == chunks[s] <= c
             W == {EntryWrite(s, c, o)} \cup (IF isNew THEN {SlotsWrite(s, c)} ELSE {})
  <1> USE DEF InductiveInv
  <1>1. pc[t] = "allocate" /\ req[t] \in Requests /\ s \in Shards /\ mutex[s] = t
    BY RequestFacts DEF Allocate, LockInv, Registering, ShardLocked
  <1>2. NextSlot(s) = slot /\ NextSlot(s)[2] = c /\ NextSlot(s)[3] = o
    BY DEF NextSlot
  <1>3. len[s] \in Nat /\ c \in ChunkIds /\ o \in Offsets /\ slot \in Slots
    <2>1. len[s] \in Nat
      BY <1>1 DEF TypeOK
    <2>2. c \in ChunkIds
      BY <1>2 DEF Allocate
    <2>3. o \in Offsets
      BY <2>1, ConstantFacts, NextPositionArith DEF Offsets
    <2> QED BY <1>1, <2>1, <2>2, <2>3 DEF Slots
  <1>4. TypeOK'
    BY AllocateType
  <1>5. /\ chunks' = [chunks EXCEPT ![s] = IF isNew THEN @ + 1 ELSE @]
        /\ item' = [item EXCEPT ![t] = slot]
        /\ entries' = [entries EXCEPT ![slot] = [item |-> slot, profile |-> req[t]]]
        /\ view' = [view EXCEPT ![t] = @ \cup W]
        /\ pc' = [pc EXCEPT ![t] = "publish"]
        /\ UNCHANGED <<mutex, len, published_len, published_index, lenView,
                       indexView, lockView, req, walkVars>>
    <2>1. view' = [view EXCEPT ![t] = @ \cup {EntryWrite(s, c, o)}
                      \cup (IF isNew THEN {SlotsWrite(s, c)} ELSE {})]
      BY <1>2 DEF Allocate
    <2>2. view' = [view EXCEPT ![t] = @ \cup W]
      BY <2>1
    <2> QED BY <1>2, <2>2 DEF Allocate, Goto
  <1> HIDE DEF c, o, isNew, W
  <1>6. /\ pc'[t] = "publish" /\ item'[t] = slot /\ view'[t] = view[t] \cup W
        /\ \A u \in Threads \ {t} : pc'[u] = pc[u] /\ item'[u] = item[u] /\ view'[u] = view[u]
    BY <1>5 DEF TypeOK
  <1>7. \A u \in Threads : ShardLocked(u)' = ShardLocked(u)
    BY <1>5 DEF ShardLocked
  <1>8. /\ entries'[slot] # Uninit
        /\ \A x \in Slots : entries[x] # Uninit => entries'[x] # Uninit
    <2>1. [item |-> slot, profile |-> req[t]] \in Metas
      BY <1>1, <1>3 DEF Metas
    <2> QED BY <1>3, <1>5, <2>1, ConstantFacts DEF TypeOK
  <1>9. \A V : Closed(V, entries) => Closed(V, entries')
    BY <1>8, ClosedWritten
  <1>10. \A u \in Threads : view[u] \subseteq view'[u] /\ Closed(view'[u], entries')
    <2>1. W \subseteq {EntryWrite(s, c, o), SlotsWrite(s, c)}
      BY DEF W
    <2>2. Closed(view[t], entries')
      BY <1>9 DEF ClosedInv
    <2>3. Closed(view[t] \cup W, entries')
      BY <1>1, <1>3, <1>8, <2>1, <2>2, ClosedAllocate
    <2> QED BY <1>6, <1>9, <2>3 DEF ClosedInv
  <1>11. SlotsWrite(s, c) \in view'[t] /\ EntryWrite(s, c, o) \in view'[t]
    <2>1. CASE o = 0
      <3>1. ~\E u \in Threads : pc[u] = "publish" /\ ShardLocked(u) = s
        BY <1>1 DEF LockInv, Registering
      <3>2. isNew
        BY <1>1, <2>1, <3>1 DEF ChunkInv, c, o, isNew
      <3> QED BY <1>6, <3>2 DEF W
    <2>2. CASE o # 0
      <3>1. LenStore(s, c, o - 1) \in OwnerView(s)
        BY <1>1, <2>2, PreviousStore DEF c, o
      <3>2. LenStore(s, c, o - 1) \in view[t]
        BY <1>1, <3>1, ConstantFacts DEF OwnerView
      <3>3. o - 1 \in Offsets
        BY <1>3, <2>2, ConstantFacts DEF Offsets
      <3>4. SlotsWrite(s, c) \in view[t]
        BY <1>1, <1>3, <3>2, <3>3 DEF ClosedInv, Closed
      <3> QED BY <1>6, <3>4 DEF W
    <2> QED BY <2>1, <2>2
  <1>12. LockInv'
    BY <1>1, <1>5, <1>6, <1>7 DEF LockInv
  <1>13. SlotInv'
    <2>1. \A x : NextSlot(x)' = NextSlot(x)
      BY <1>5 DEF NextSlot
    <2> QED BY <1>2, <1>3, <1>6, <1>7, <1>11, <2>1 DEF SlotInv
  <1>14. PrefixInv'
    BY <1>5 DEF PrefixInv
  <1>15. ChunkInv'
    <2>1. chunks'[s] <= c + 1 /\ chunks[s] <= chunks'[s]
      <3>1. chunks[s] \in Nat /\ chunks[s] <= c + 1 /\ c \in Nat
        BY <1>1, <1>3, ConstantFacts DEF ChunkInv, TypeOK, ChunkIds, c
      <3> QED BY <1>1, <1>5, <3>1 DEF isNew, TypeOK
    <2>2. \A x \in Shards \ {s} : chunks'[x] = chunks[x]
      BY <1>5 DEF TypeOK
    <2>3. \A x \in Shards : published_index[x] \in Nat /\ chunks[x] \in Nat /\ chunks'[x] \in Nat
      BY <1>4, ConstantFacts DEF TypeOK
    <2>4. ASSUME NEW x \in Shards
          PROVE  ChunkInv!(x)'
      <3>1. CASE x = s
        <4>1. published_index'[s] <= chunks'[s]
          BY <1>1, <1>5, <2>1, <2>3 DEF ChunkInv
        <4>2. chunks'[s] <= (len'[s] \div ChunkSize) + 1
          BY <1>5, <2>1 DEF c
        <4>3. pc'[t] = "publish" /\ ShardLocked(t)' = s
          BY <1>6, <1>7
        <4> QED BY <3>1, <4>1, <4>2, <4>3
      <3>2. CASE x # s
        <4>1. \A u \in Threads : pc[u] = "publish" => pc'[u] = "publish"
          BY <1>6
        <4> QED BY <1>5, <1>7, <2>2, <3>2, <4>1 DEF ChunkInv
      <3> QED BY <3>1, <3>2
    <2> QED BY <2>4 DEF ChunkInv
  <1>16. ClosedInv'
    BY <1>5, <1>9, <1>10 DEF ClosedInv
  <1>17. ReleaseInv'
    <2>1. \A x \in Shards : OwnerView(x) \subseteq OwnerView(x)'
      BY <1>5, <1>10 DEF OwnerView, TypeOK
    <2> QED BY <1>5, <2>1 DEF ReleaseInv
  <1>18. WalkInv' /\ NoUninitializedRead'
    <2>1. \A u \in Threads : pc'[u] \in Walking => pc'[u] = pc[u]
      BY <1>6 DEF Walking
    <2> QED BY <1>5, <1>10, <2>1, RegisterFrame
  <1> QED BY <1>4, <1>12, <1>13, <1>14, <1>15, <1>16, <1>17, <1>18

(* The release of published_len follows the write of its entry. *)
LEMMA PublishStep ==
  ASSUME InductiveInv, NEW t \in Threads, Publish(t)
  PROVE  InductiveInv'
  <1> DEFINE s == ShardLocked(t)
             c == len[s] \div ChunkSize
             o == len[s] % ChunkSize
             w == LenStore(s, c, o)
  <1> USE DEF InductiveInv
  <1>1. pc[t] = "publish" /\ req[t] \in Requests /\ s \in Shards /\ mutex[s] = t
    BY RequestFacts DEF Publish, LockInv, Registering, ShardLocked
  <1>2. /\ item[t] = <<s, c, o>> /\ item[t] \in Slots
        /\ item[t][1] = s /\ item[t][2] = c /\ item[t][3] = o
    BY <1>1 DEF SlotInv, NextSlot
  <1>3. len[s] \in Nat /\ c \in ChunkIds /\ o \in Offsets /\ <<s, c>> \in Shards \X ChunkIds
    BY <1>1, <1>2, SlotFacts DEF TypeOK
  <1>4. TypeOK'
    BY PublishType
  <1>5. /\ published_len' = [published_len EXCEPT ![<<s, c>>] = o + 1]
        /\ lenView' = [lenView EXCEPT ![<<s, c, o>>] = view[t] \cup {w}]
        /\ view' = [view EXCEPT ![t] = @ \cup {w}]
        /\ len' = [len EXCEPT ![s] = @ + 1]
        /\ pc' = [pc EXCEPT ![t] = IF fresh[t] THEN "index" ELSE "insert"]
        /\ UNCHANGED <<mutex, chunks, entries, published_index, indexView, lockView,
                       callVars, walkVars>>
    BY <1>2 DEF Publish, PrefixThrough, Released, Acquire, Goto, AfterPublish
  <1>6. /\ o = ChunkSize - 1 =>
             len'[s] \div ChunkSize = c + 1 /\ len'[s] % ChunkSize = 0
        /\ o # ChunkSize - 1 =>
             len'[s] \div ChunkSize = c /\ len'[s] % ChunkSize = o + 1
        /\ len'[s] = len[s] + 1
    <2>1. len'[s] = len[s] + 1
      BY <1>1, <1>5 DEF TypeOK
    <2> QED BY <1>3, <2>1, ConstantFacts, NextPositionArith
  <1> HIDE DEF c, o, w
  <1>7. /\ pc'[t] \in {"index", "insert"} /\ view'[t] = view[t] \cup {w}
        /\ \A u \in Threads \ {t} : pc'[u] = pc[u] /\ view'[u] = view[u]
        /\ \A u \in Threads : item'[u] = item[u] /\ ShardLocked(u)' = ShardLocked(u)
    BY <1>5 DEF TypeOK, callVars, ShardLocked
  <1>8. \A u \in Threads \ {t} : pc[u] \in Registering => ShardLocked(u) # s
    BY <1>1 DEF LockInv
  <1>9. \A x \in Shards \ {s} : len'[x] = len[x] /\ NextSlot(x)' = NextSlot(x)
    BY <1>5 DEF TypeOK, NextSlot
  <1>10. Closed(view[t] \cup {w}, entries)
    <2>1. EntryWrite(s, c, o) \in view[t] /\ SlotsWrite(s, c) \in view[t]
      BY <1>1, <1>2 DEF SlotInv
    <2>2. ASSUME o > 0 PROVE LenStore(s, c, o - 1) \in view[t]
      <3>1. LenStore(s, c, o - 1) \in OwnerView(s)
        BY <1>1, <1>3, <2>2, PreviousStore DEF c, o, Offsets
      <3> QED BY <1>1, <3>1, ConstantFacts DEF OwnerView
    <2>3. Closed(view[t], entries)
      BY DEF ClosedInv
    <2> QED BY <1>1, <1>3, <2>1, <2>2, <2>3, ClosedPublish DEF w
  <1>11. LockInv'
    BY <1>1, <1>5, <1>7 DEF LockInv, callVars, Registering
  <1>12. SlotInv'
    <2> SUFFICES ASSUME NEW u \in Threads
                 PROVE  SlotInv!(u)'
      BY DEF SlotInv
    <2>1. CASE u = t
      BY <1>2, <1>7, <2>1
    <2>2. CASE u # t
      <3>1. pc[u] = "publish" =>
              req[u] \in Requests /\ ShardLocked(u) \in Shards \ {s}
        BY <1>8, <2>2, RequestFacts DEF LockInv, Registering, ShardLocked
      <3> QED BY <1>7, <1>9, <2>2, <3>1 DEF SlotInv
    <2> QED BY <2>1, <2>2
  <1>13. PrefixInv'
    <2> SUFFICES ASSUME NEW x \in Shards, NEW d \in ChunkIds
                 PROVE  PrefixInv!(x, d)'
      BY DEF PrefixInv
    <2>1. <<x, d>> \in Shards \X ChunkIds
      OBVIOUS
    <2>2. CASE x # s
      <3>1. published_len'[<<x, d>>] = published_len[<<x, d>>]
        BY <1>3, <1>5, <2>1, <2>2 DEF TypeOK
      <3> QED BY <1>9, <2>2, <3>1 DEF PrefixInv
    <2>3. CASE x = s
      <3>1. published_len[<<s, d>>] = IF d < c THEN ChunkSize ELSE IF d = c THEN o ELSE 0
        BY <1>1 DEF PrefixInv, c, o
      <3>2. published_len'[<<s, d>>] = IF d = c THEN o + 1 ELSE published_len[<<s, d>>]
        BY <1>1, <1>3, <1>5, <2>1, <2>3 DEF TypeOK
      <3>3. c \in Nat /\ o \in 0..(ChunkSize - 1) /\ d \in Nat /\ ChunkSize \in Nat
        BY <1>3, ConstantFacts DEF ChunkIds, Offsets
      <3> QED BY <1>6, <2>3, <3>1, <3>2, <3>3
    <2> QED BY <2>2, <2>3
  <1>14. ChunkInv'
    <2> SUFFICES ASSUME NEW x \in Shards
                 PROVE  ChunkInv!(x)'
      BY DEF ChunkInv
    <2>1. CASE x # s
      <3>1. \A u \in Threads : pc[u] = "publish" /\ ShardLocked(u) = x => pc'[u] = "publish"
        BY <1>7, <2>1
      <3> QED BY <1>5, <1>7, <1>9, <2>1, <3>1 DEF ChunkInv
    <2>2. CASE x = s
      <3>1. c \in Nat /\ o \in 0..(ChunkSize - 1) /\ chunks[s] \in Nat /\ chunks[s] <= c + 1
        BY <1>1, <1>3, ConstantFacts DEF ChunkInv, TypeOK, ChunkIds, Offsets, c
      <3>2. published_index'[s] <= chunks'[s]
        BY <1>1, <1>5 DEF ChunkInv
      <3>3. chunks'[s] <= (len'[s] \div ChunkSize) + 1
        BY <1>5, <1>6, <3>1
      <3>4. chunks'[s] <= len'[s] \div ChunkSize \/ len'[s] % ChunkSize # 0
        BY <1>5, <1>6, <3>1
      <3> QED BY <2>2, <3>2, <3>3, <3>4
    <2> QED BY <2>1, <2>2
  <1>15. ClosedInv'
    BY <1>2, <1>5, <1>7, <1>10 DEF ClosedInv, TypeOK
  <1>16. ReleaseInv'
    <2>1. \A x \in Shards \ {s} : OwnerView(x) \subseteq OwnerView(x)'
      BY <1>5, <1>7 DEF OwnerView, TypeOK
    <2>2. w \in OwnerView(s)'
      BY <1>1, <1>5, <1>7, ConstantFacts DEF OwnerView
    <2>3. ASSUME NEW x \in Shards, len'[x] > 0
          PROVE  LenStore(x, (len'[x] - 1) \div ChunkSize, (len'[x] - 1) % ChunkSize)
                   \in OwnerView(x)'
      <3>1. CASE x = s
        <4>1. len'[s] - 1 = len[s]
          BY <1>3, <1>6
        <4> QED BY <1>7, <2>2, <3>1, <4>1 DEF w, c, o
      <3>2. CASE x # s
        BY <1>9, <2>1, <2>3, <3>2 DEF ReleaseInv
      <3> QED BY <3>1, <3>2
    <2>4. ASSUME NEW x \in Shards, NEW d \in ChunkIds, NEW p \in Offsets,
                 p < published_len'[<<x, d>>]
          PROVE  LenStore(x, d, p) \in lenView'[<<x, d, p>>]
      <3>1. <<x, d, p>> \in Slots /\ <<x, d>> \in Shards \X ChunkIds
        BY DEF Slots
      <3>2. CASE <<x, d, p>> = <<s, c, o>>
        BY <1>2, <1>5, <3>1, <3>2 DEF w, TypeOK
      <3>3. CASE <<x, d, p>> # <<s, c, o>>
        <4>1. lenView'[<<x, d, p>>] = lenView[<<x, d, p>>]
          BY <1>5, <3>1, <3>3 DEF TypeOK
        <4>2. p < published_len[<<x, d>>]
          <5>1. CASE <<x, d>> = <<s, c>>
            <6>1. published_len[<<s, c>>] = o
              BY <1>1, <1>3, ConstantFacts DEF PrefixInv, c, o, ChunkIds
            <6>2. published_len'[<<s, c>>] = o + 1 /\ p # o
              BY <1>3, <1>5, <3>3, <5>1 DEF TypeOK
            <6> QED BY <1>3, <2>4, <5>1, <6>1, <6>2 DEF Offsets
          <5>2. CASE <<x, d>> # <<s, c>>
            BY <1>3, <1>5, <2>4, <3>1, <5>2 DEF TypeOK
          <5> QED BY <5>1, <5>2
        <4> QED BY <4>1, <4>2 DEF ReleaseInv
      <3> QED BY <3>2, <3>3
    <2> QED BY <2>3, <2>4 DEF ReleaseInv
  <1>17. WalkInv' /\ NoUninitializedRead'
    <2>1. \A u \in Threads : view[u] \subseteq view'[u] /\ (pc'[u] \in Walking => pc'[u] = pc[u])
      BY <1>7 DEF Walking
    <2> QED BY <1>5, <2>1, RegisterFrame
  <1> QED BY <1>4, <1>11, <1>12, <1>13, <1>14, <1>15, <1>16, <1>17

(* The new chunk is reachable only with its first entry published. *)
LEMMA StoreIndexStep ==
  ASSUME InductiveInv, NEW t \in Threads, StoreIndex(t)
  PROVE  InductiveInv'
  <1> DEFINE s == item[t][1]
             c == item[t][2]
             w == IndexStore(s, c)
  <1> USE DEF InductiveInv
  <1>1. pc[t] = "index" /\ s \in Shards /\ c \in ChunkIds /\ <<s, c>> \in Shards \X ChunkIds
    BY SlotFacts DEF StoreIndex, SlotInv
  <1>2. TypeOK'
    BY StoreIndexType
  <1>3. /\ published_index' = [published_index EXCEPT ![s] = chunks[s]]
        /\ indexView' = [indexView EXCEPT ![<<s, c>>] = view[t] \cup {w}]
        /\ view' = [view EXCEPT ![t] = @ \cup {w}]
        /\ pc' = [pc EXCEPT ![t] = "insert"]
        /\ UNCHANGED <<mutex, len, chunks, entries, published_len, lenView, lockView,
                       req, item, walkVars>>
    BY DEF StoreIndex, Released, Acquire, Goto, shardVars, callVars
  <1> HIDE DEF s, c, w
  <1>4. /\ pc'[t] = "insert" /\ view'[t] = view[t] \cup {w}
        /\ \A u \in Threads \ {t} : pc'[u] = pc[u] /\ view'[u] = view[u]
        /\ \A u \in Threads : item'[u] = item[u] /\ ShardLocked(u)' = ShardLocked(u)
    BY <1>3 DEF TypeOK, ShardLocked
  <1>5. Closed(view[t] \cup {w}, entries)
    BY ClosedIndex DEF ClosedInv, w
  <1>6. LockInv'
    BY <1>1, <1>3, <1>4 DEF LockInv, Registering
  <1>7. SlotInv'
    <2>1. \A x : NextSlot(x)' = NextSlot(x)
      BY <1>3 DEF NextSlot
    <2> SUFFICES ASSUME NEW u \in Threads
                 PROVE  SlotInv!(u)'
      BY DEF SlotInv
    <2>2. CASE u = t
      BY <1>1, <1>4, <2>2 DEF SlotInv
    <2>3. CASE u # t
      BY <1>4, <2>1, <2>3 DEF SlotInv
    <2> QED BY <2>2, <2>3
  <1>8. PrefixInv'
    BY <1>3 DEF PrefixInv
  <1>9. ChunkInv'
    <2>1. \A x \in Shards : published_index'[x] <= chunks'[x]
      <3> TAKE x \in Shards
      <3>1. chunks[x] \in Nat
        BY ConstantFacts DEF TypeOK
      <3> QED BY <1>1, <1>3, <3>1 DEF ChunkInv, TypeOK
    <2>2. \A u \in Threads : pc[u] = "publish" => pc'[u] = "publish"
      BY <1>1, <1>4
    <2> QED BY <1>3, <1>4, <2>1, <2>2 DEF ChunkInv
  <1>10. ClosedInv'
    BY <1>1, <1>3, <1>4, <1>5 DEF ClosedInv, TypeOK
  <1>11. ReleaseInv'
    <2>1. \A x \in Shards : OwnerView(x) \subseteq OwnerView(x)'
      BY <1>3, <1>4 DEF OwnerView, TypeOK
    <2> QED BY <1>3, <2>1 DEF ReleaseInv
  <1>12. WalkInv' /\ NoUninitializedRead'
    <2>1. \A u \in Threads : view[u] \subseteq view'[u] /\ (pc'[u] \in Walking => pc'[u] = pc[u])
      BY <1>4 DEF Walking
    <2> QED BY <1>3, <2>1, RegisterFrame
  <1> QED BY <1>2, <1>6, <1>7, <1>8, <1>9, <1>10, <1>11, <1>12

(* The unlock releases everything the registration wrote. *)
LEMMA ReturnStep ==
  ASSUME InductiveInv, NEW t \in Threads, ReturnExisting(t) \/ ReturnInserted(t)
  PROVE  InductiveInv'
  <1> DEFINE s == ShardLocked(t)
  <1> USE DEF InductiveInv
  <1>1. Return(t) /\ pc[t] \in {"existing", "insert"}
    BY DEF ReturnExisting, ReturnInserted
  <1>2. req[t] \in Requests /\ s \in Shards /\ mutex[s] = t
    BY <1>1, RequestFacts DEF LockInv, Registering, ShardLocked
  <1>3. TypeOK'
    BY ReturnType
  <1>4. /\ mutex' = [mutex EXCEPT ![s] = None]
        /\ lockView' = [lockView EXCEPT ![s] = view[t]]
        /\ pc' = [pc EXCEPT ![t] = "idle"]
        /\ req' = [req EXCEPT ![t] = None]
        /\ item' = [item EXCEPT ![t] = None]
        /\ UNCHANGED <<len, chunks, memoryVars, view, walkVars>>
    BY <1>1 DEF Return, Goto
  <1> HIDE DEF s
  <1>5. /\ pc'[t] = "idle"
        /\ \A u \in Threads \ {t} :
             /\ pc'[u] = pc[u] /\ req'[u] = req[u] /\ item'[u] = item[u]
             /\ ShardLocked(u)' = ShardLocked(u)
    BY <1>4 DEF TypeOK, ShardLocked
  <1>6. LockInv'
    <2> SUFFICES ASSUME NEW u \in Threads \ {t}, pc'[u] \in Registering
                 PROVE  req'[u] \in Requests /\ mutex'[ShardLocked(u)'] = u
      BY <1>5 DEF LockInv, Registering
    <2>1. req[u] \in Requests /\ mutex[ShardLocked(u)] = u
      BY <1>5 DEF LockInv
    <2>2. ShardLocked(u) \in Shards \ {s}
      BY <1>2, <2>1, RequestFacts DEF ShardLocked
    <2> QED BY <1>4, <1>5, <2>1, <2>2 DEF TypeOK
  <1>7. SlotInv'
    <2>1. \A x : NextSlot(x)' = NextSlot(x)
      BY <1>4 DEF NextSlot
    <2> SUFFICES ASSUME NEW u \in Threads
                 PROVE  SlotInv!(u)'
      BY DEF SlotInv
    <2>2. CASE u = t
      BY <1>5, <2>2
    <2>3. CASE u # t
      BY <1>4, <1>5, <2>1, <2>3 DEF SlotInv
    <2> QED BY <2>2, <2>3
  <1>8. PrefixInv'
    BY <1>4 DEF PrefixInv, memoryVars
  <1>9. ChunkInv'
    <2>1. \A u \in Threads : pc[u] = "publish" =>
             pc'[u] = "publish" /\ ShardLocked(u)' = ShardLocked(u)
      BY <1>1, <1>5
    <2> QED BY <1>4, <2>1 DEF ChunkInv, memoryVars
  <1>10. ClosedInv'
    BY <1>2, <1>4 DEF ClosedInv, memoryVars, TypeOK
  <1>11. ReleaseInv'
    <2>1. \A x \in Shards : OwnerView(x) \subseteq OwnerView(x)'
      <3> TAKE x \in Shards
      <3>1. CASE x = s
        <4>1. mutex'[s] = None /\ lockView'[s] = view[t]
          BY <1>2, <1>4 DEF TypeOK
        <4> QED BY <1>2, <3>1, <4>1, ConstantFacts DEF OwnerView
      <3>2. CASE x # s
        BY <1>2, <1>4, <3>2 DEF OwnerView, TypeOK
      <3> QED BY <3>1, <3>2
    <2> QED BY <1>4, <2>1 DEF ReleaseInv, memoryVars
  <1>12. WalkInv' /\ NoUninitializedRead'
    <2>1. \A u \in Threads : view[u] \subseteq view'[u] /\ (pc'[u] \in Walking => pc'[u] = pc[u])
      BY <1>4, <1>5 DEF Walking
    <2> QED BY <1>4, <2>1, RegisterFrame
  <1> QED BY <1>3, <1>6, <1>7, <1>8, <1>9, <1>10, <1>11, <1>12

(* A traversal starts before the first shard. *)
LEMMA BeginWalkStep ==
  ASSUME InductiveInv, NEW t \in Threads, NEW op \in {"visit", "len"}, BeginWalk(t, op)
  PROVE  InductiveInv'
  <1> USE DEF InductiveInv
  <1>1. TypeOK'
    BY BeginWalkType
  <1>2. /\ pc[t] = "idle" /\ pc'[t] = "load_index" /\ seen'[t] = {}
        /\ \A u \in Threads \ {t} :
             pc'[u] = pc[u] /\ cursor'[u] = cursor[u] /\ seen'[u] = seen[u]
        /\ UNCHANGED <<shardVars, memoryVars, view, lockView, callVars>>
    BY DEF BeginWalk, Goto, TypeOK
  <1>3. /\ LockInv' /\ SlotInv' /\ PrefixInv' /\ ChunkInv' /\ ClosedInv' /\ ReleaseInv'
    <2>1. \A u \in Threads : pc[u] \in Registering \/ pc'[u] \in Registering => pc'[u] = pc[u]
      BY <1>2 DEF Registering
    <2>2. \A u \in Threads : view[u] \subseteq view'[u] /\ Closed(view'[u], entries)
      BY <1>2 DEF ClosedInv
    <2> QED BY <1>2, <2>1, <2>2, WalkFrame
  <1>4. WalkInv' /\ NoUninitializedRead'
    <2>1. cursor'[t].offset = 0
      BY DEF BeginWalk, TypeOK, StartCursor
    <2> QED BY <1>2, <2>1 DEF WalkInv, NoUninitializedRead
  <1> QED BY <1>1, <1>3, <1>4

(* A traversal that ends leaves the registry alone. *)
LEMMA EndWalkStep ==
  ASSUME InductiveInv, NEW t \in Threads, EndWalk(t)
  PROVE  InductiveInv'
  <1> USE DEF InductiveInv
  <1>1. TypeOK'
    BY EndWalkType
  <1>2. /\ pc[t] = "walked" /\ pc'[t] = "idle" /\ seen'[t] = {}
        /\ \A u \in Threads \ {t} :
             pc'[u] = pc[u] /\ cursor'[u] = cursor[u] /\ seen'[u] = seen[u]
        /\ UNCHANGED <<shardVars, memoryVars, view, lockView, callVars>>
    BY DEF EndWalk, Goto, TypeOK
  <1>3. /\ LockInv' /\ SlotInv' /\ PrefixInv' /\ ChunkInv' /\ ClosedInv' /\ ReleaseInv'
    <2>1. \A u \in Threads : pc[u] \in Registering \/ pc'[u] \in Registering => pc'[u] = pc[u]
      BY <1>2 DEF Registering
    <2>2. \A u \in Threads : view[u] \subseteq view'[u] /\ Closed(view'[u], entries)
      BY <1>2 DEF ClosedInv
    <2> QED BY <1>2, <2>1, <2>2, WalkFrame
  <1>4. WalkInv' /\ NoUninitializedRead'
    BY <1>2 DEF WalkInv, NoUninitializedRead
  <1> QED BY <1>1, <1>3, <1>4

(* A view taken over from another thread is closed. *)
LEMMA SynchronizeStep ==
  ASSUME InductiveInv, NEW a \in Threads, NEW b \in Threads, Synchronize(a, b)
  PROVE  InductiveInv'
  <1> USE DEF InductiveInv
  <1>1. TypeOK'
    BY SynchronizeType
  <1>2. /\ view'[b] = view[b] \cup view[a]
        /\ \A u \in Threads \ {b} : view'[u] = view[u]
        /\ UNCHANGED <<shardVars, memoryVars, lockView, callVars, pc, cursor, seen>>
    BY DEF Synchronize, Acquire, TypeOK, walkVars
  <1>3. \A u \in Threads : view[u] \subseteq view'[u] /\ Closed(view'[u], entries)
    BY <1>2, ClosedUnion DEF ClosedInv
  <1>4. /\ LockInv' /\ SlotInv' /\ PrefixInv' /\ ChunkInv' /\ ClosedInv' /\ ReleaseInv'
    BY <1>2, <1>3, WalkFrame
  <1>5. WalkInv' /\ NoUninitializedRead'
    BY <1>2, <1>3 DEF WalkInv, NoUninitializedRead
  <1> QED BY <1>1, <1>4, <1>5

(* Moving on changes only the thread's own position, and not to a read.    *)
LEMMA NextPositionFrame ==
  ASSUME TypeOK, NEW t \in Threads, NextPosition(t, cursor[t])
  PROVE  /\ pc'[t] \in {"load_len", "load_index", "walked"}
         /\ pc'[t] # "walked" => cursor'[t].offset = 0
         /\ \A u \in Threads \ {t} : pc'[u] = pc[u] /\ cursor'[u] = cursor[u]
  <1>1. cursor[t] \in Cursors /\ cursor \in [Threads -> Cursors] /\ pc \in [Threads -> Labels]
    BY DEF TypeOK
  <1> DEFINE cur == cursor[t]
  <1>2. CASE cur.chunk + 1 < cur.chunks
    <2> DEFINE nxt == [cur EXCEPT !.chunk = @ + 1, !.len = 0, !.offset = 0]
    <2>1. nxt.offset = 0
      BY <1>1 DEF Cursors
    <2>2. cursor' = [cursor EXCEPT ![t] = nxt] /\ pc' = [pc EXCEPT ![t] = "load_len"]
      BY <1>2 DEF NextPosition, Goto
    <2> HIDE DEF nxt
    <2> QED BY <1>1, <2>1, <2>2
  <1>3. CASE ~(cur.chunk + 1 < cur.chunks) /\ cur.shard < NumShards
    <2> DEFINE nxt == [StartCursor(cur.op) EXCEPT !.shard = cur.shard + 1]
    <2>1. nxt.offset = 0
      BY DEF StartCursor
    <2>2. cursor' = [cursor EXCEPT ![t] = nxt] /\ pc' = [pc EXCEPT ![t] = "load_index"]
      BY <1>3 DEF NextPosition, Goto
    <2> HIDE DEF nxt
    <2> QED BY <1>1, <2>1, <2>2
  <1>4. CASE ~(cur.chunk + 1 < cur.chunks) /\ ~(cur.shard < NumShards)
    BY <1>1, <1>4 DEF NextPosition, Goto
  <1> QED BY <1>2, <1>3, <1>4

(* An acquire load of the index brings the chunks it names. *)
LEMMA LoadIndexStep ==
  ASSUME InductiveInv, NEW t \in Threads, LoadIndex(t)
  PROVE  InductiveInv'
  <1> DEFINE s == cursor[t].shard
  <1> USE DEF InductiveInv
  <1>1. TypeOK'
    BY LoadIndexType
  <1>2. PICK k \in LoadableIndex(view[t], s) : WithIndex(t, s, k)
    BY DEF LoadIndex
  <1>3. /\ pc[t] = "load_index"
        /\ UNCHANGED <<shardVars, memoryVars, lockView, callVars, seen>>
    BY <1>2 DEF LoadIndex, WithIndex
  <1>4. /\ pc'[t] \in {"load_len", "load_index", "walked"}
        /\ pc'[t] # "walked" => cursor'[t].offset = 0
        /\ \A u \in Threads \ {t} : pc'[u] = pc[u] /\ cursor'[u] = cursor[u]
        /\ \A u \in Threads : view[u] \subseteq view'[u] /\ Closed(view'[u], entries)
    <2>1. CASE k = 0
      <3>1. NextPosition(t, cursor[t]) /\ UNCHANGED view
        BY <1>2, <2>1 DEF WithIndex
      <3> QED BY <3>1, NextPositionFrame DEF ClosedInv
    <2>2. CASE k # 0
      <3>1. /\ view' = [view EXCEPT ![t] = @ \cup indexView[<<s, k - 1>>]]
            /\ cursor' = [cursor EXCEPT ![t].chunks = k]
            /\ pc' = [pc EXCEPT ![t] = "load_len"]
        BY <1>2, <2>2 DEF WithIndex, Acquire, Goto
      <3>2. <<s, k - 1>> \in Shards \X ChunkIds
        <4>1. s \in Shards
          BY DEF TypeOK, Cursors
        <4>2. k \in 0..MaxChunks
          BY <4>1, ConstantFacts DEF LoadableIndex, TypeOK
        <4> QED BY <2>2, <4>1, <4>2, ConstantFacts DEF ChunkIds
      <3>3. view'[t] = view[t] \cup indexView[<<s, k - 1>>]
        BY <3>1 DEF TypeOK
      <3>4. Closed(view'[t], entries)
        BY <3>2, <3>3, ClosedUnion DEF ClosedInv
      <3>5. \A u \in Threads \ {t} : view'[u] = view[u] /\ pc'[u] = pc[u] /\ cursor'[u] = cursor[u]
        BY <3>1 DEF TypeOK
      <3>6. cursor'[t].offset = 0
        <4>1. cursor[t].offset = 0 /\ cursor[t] \in Cursors
          BY <1>3 DEF WalkInv, TypeOK
        <4> QED BY <3>1, <4>1 DEF TypeOK, Cursors
      <3> QED BY <3>1, <3>3, <3>4, <3>5, <3>6 DEF ClosedInv, TypeOK
    <2> QED BY <2>1, <2>2
  <1>5. /\ LockInv' /\ SlotInv' /\ PrefixInv' /\ ChunkInv' /\ ClosedInv' /\ ReleaseInv'
    <2>1. \A u \in Threads : pc[u] \in Registering \/ pc'[u] \in Registering => pc'[u] = pc[u]
      BY <1>3, <1>4 DEF Registering
    <2> QED BY <1>3, <1>4, <2>1, WalkFrame
  <1>6. WalkInv' /\ NoUninitializedRead'
    BY <1>3, <1>4 DEF WalkInv, NoUninitializedRead
  <1> QED BY <1>1, <1>5, <1>6

(* An acquire load of the length brings the entries below it. *)
LEMMA LoadLenStep ==
  ASSUME InductiveInv, NEW t \in Threads, LoadLen(t)
  PROVE  InductiveInv'
  <1> DEFINE s == cursor[t].shard
             c == cursor[t].chunk
  <1> USE DEF InductiveInv
  <1>1. TypeOK'
    BY LoadLenType
  <1>2. cursor[t] \in Cursors /\ s \in Shards /\ c \in ChunkIds /\ <<s, c>> \in Shards \X ChunkIds
    BY DEF TypeOK, Cursors
  <1>3. PICK n \in LoadableLen(view[t], s, c) :
          /\ Acquire(t, IF n = 0 THEN {} ELSE lenView[<<s, c, n - 1>>])
          /\ IF cursor[t].op = "len" \/ n = 0
               THEN NextPosition(t, cursor[t])
               ELSE /\ cursor' = [cursor EXCEPT ![t].len = n]
                    /\ Goto(t, "get")
    BY DEF LoadLen
  <1>4. /\ pc[t] = "load_len"
        /\ UNCHANGED <<shardVars, memoryVars, lockView, callVars, seen>>
    BY DEF LoadLen
  <1>5. n \in 0..published_len[<<s, c>>] /\ published_len[<<s, c>>] \in 0..ChunkSize
    BY <1>2 DEF LoadableLen, TypeOK
  <1>6. /\ n # 0 => /\ view'[t] = view[t] \cup lenView[<<s, c, n - 1>>]
                    /\ Closed(lenView[<<s, c, n - 1>>], entries)
                    /\ LenStore(s, c, n - 1) \in lenView[<<s, c, n - 1>>]
        /\ n = 0 => view'[t] = view[t]
        /\ \A u \in Threads \ {t} : view'[u] = view[u]
    <2>1. view' = [view EXCEPT ![t] = @ \cup (IF n = 0 THEN {} ELSE lenView[<<s, c, n - 1>>])]
      BY <1>3 DEF Acquire
    <2>2. ASSUME n # 0
          PROVE  /\ <<s, c, n - 1>> \in Slots
                 /\ LenStore(s, c, n - 1) \in lenView[<<s, c, n - 1>>]
      <3>1. n - 1 \in Offsets /\ n - 1 < published_len[<<s, c>>]
        BY <1>5, <2>2, ConstantFacts DEF Offsets
      <3> QED BY <1>2, <3>1 DEF ReleaseInv, Slots
    <2> QED BY <2>1, <2>2 DEF TypeOK, ClosedInv
  <1>7. \A u \in Threads : view[u] \subseteq view'[u] /\ Closed(view'[u], entries)
    BY <1>6, ClosedUnion DEF ClosedInv
  <1>8. /\ pc'[t] \in {"load_len", "load_index", "walked", "get"}
        /\ \A u \in Threads \ {t} : pc'[u] = pc[u] /\ cursor'[u] = cursor[u]
        /\ pc'[t] \in {"load_len", "load_index"} => cursor'[t].offset = 0
        /\ pc'[t] = "get" => n # 0 /\ cursor'[t] = [cursor[t] EXCEPT !.len = n]
    <2>1. CASE cursor[t].op = "len" \/ n = 0
      BY <1>3, <2>1, NextPositionFrame
    <2>2. CASE ~(cursor[t].op = "len" \/ n = 0)
      BY <1>3, <2>2 DEF TypeOK, Goto
    <2> QED BY <2>1, <2>2
  <1>9. /\ LockInv' /\ SlotInv' /\ PrefixInv' /\ ChunkInv' /\ ClosedInv' /\ ReleaseInv'
    <2>1. \A u \in Threads : pc[u] \in Registering \/ pc'[u] \in Registering => pc'[u] = pc[u]
      BY <1>4, <1>8 DEF Registering
    <2> QED BY <1>4, <1>7, <2>1, WalkFrame
  <1>10. WalkInv'
    <2> SUFFICES ASSUME NEW u \in Threads, pc'[u] = "get"
                 PROVE  /\ cursor'[u].offset < cursor'[u].len
                        /\ LenStore(cursor'[u].shard, cursor'[u].chunk, cursor'[u].len - 1)
                             \in view'[u]
      BY <1>8 DEF WalkInv
    <2>1. CASE u = t
      <3>1. /\ cursor'[t].offset = cursor[t].offset /\ cursor'[t].len = n
            /\ cursor'[t].shard = s /\ cursor'[t].chunk = c
        BY <1>2, <1>8, <2>1 DEF Cursors
      <3>2. cursor[t].offset = 0
        BY <1>4 DEF WalkInv
      <3> QED BY <1>5, <1>6, <1>8, <2>1, <3>1, <3>2
    <2>2. CASE u # t
      BY <1>7, <1>8, <2>2 DEF WalkInv
    <2> QED BY <2>1, <2>2
  <1>11. NoUninitializedRead'
    BY <1>4 DEF NoUninitializedRead
  <1> QED BY <1>1, <1>9, <1>10, <1>11

(* The entry that is read is in the reading thread's view. *)
LEMMA GetEntryStep ==
  ASSUME InductiveInv, NEW t \in Threads, GetEntry(t)
  PROVE  InductiveInv'
  <1> DEFINE s == cursor[t].shard
             c == cursor[t].chunk
             o == cursor[t].offset
             n == cursor[t].len
  <1> USE DEF InductiveInv
  <1>1. TypeOK'
    BY GetEntryType
  <1>2. /\ cursor[t] \in Cursors /\ s \in Shards /\ c \in ChunkIds /\ o \in Offsets
        /\ n \in 0..ChunkSize
    BY DEF TypeOK, Cursors
  <1>3. /\ pc[t] = "get"
        /\ UNCHANGED <<shardVars, memoryVars, view, lockView, callVars>>
    BY DEF GetEntry
  <1>4. o < n /\ LenStore(s, c, n - 1) \in view[t]
    BY <1>3 DEF WalkInv
  <1>5. NoUninitializedRead'
    <2>1. n - 1 \in Offsets /\ o \in 0..(n - 1)
      BY <1>2, <1>4, ConstantFacts DEF Offsets
    <2>2. Closed(view[t], entries)
      BY DEF ClosedInv
    <2>3. SlotsWrite(s, c) \in view[t] /\ EntryWrite(s, c, o) \in view[t]
      BY <1>2, <1>4, <2>1, <2>2 DEF Closed
    <2>4. entries[<<s, c, o>>] # Uninit
      BY <1>2, <2>2, <2>3 DEF Closed
    <2>5. PICK m \in EntryRead(view[t], s, c, o) : seen' = [seen EXCEPT ![t] = @ \cup {m}]
      BY DEF GetEntry
    <2>6. m = entries[<<s, c, o>>]
      BY <2>3 DEF EntryRead
    <2> QED BY <2>4, <2>5, <2>6 DEF NoUninitializedRead, TypeOK
  <1>6. /\ pc'[t] \in {"load_len", "load_index", "walked", "get"}
        /\ \A u \in Threads \ {t} : pc'[u] = pc[u] /\ cursor'[u] = cursor[u]
        /\ pc'[t] \in {"load_len", "load_index"} => cursor'[t].offset = 0
        /\ pc'[t] = "get" => o + 1 < n /\ cursor'[t] = [cursor[t] EXCEPT !.offset = @ + 1]
    <2>1. CASE MoreEntries(cursor[t])
      <3>1. /\ o + 1 < n
            /\ cursor' = [cursor EXCEPT ![t].offset = @ + 1]
            /\ UNCHANGED pc
        BY <2>1 DEF GetEntry, MoreEntries
      <3> QED BY <1>3, <3>1 DEF TypeOK
    <2>2. CASE ~MoreEntries(cursor[t])
      <3>1. NextPosition(t, cursor[t])
        BY <2>2 DEF GetEntry
      <3> QED BY <3>1, NextPositionFrame
    <2> QED BY <2>1, <2>2
  <1>7. /\ LockInv' /\ SlotInv' /\ PrefixInv' /\ ChunkInv' /\ ClosedInv' /\ ReleaseInv'
    <2>1. \A u \in Threads : pc[u] \in Registering \/ pc'[u] \in Registering => pc'[u] = pc[u]
      BY <1>3, <1>6 DEF Registering
    <2>2. \A u \in Threads : view[u] \subseteq view'[u] /\ Closed(view'[u], entries)
      BY <1>3 DEF ClosedInv
    <2> QED BY <1>3, <2>1, <2>2, WalkFrame
  <1>8. WalkInv'
    <2> SUFFICES ASSUME NEW u \in Threads, pc'[u] = "get"
                 PROVE  /\ cursor'[u].offset < cursor'[u].len
                        /\ LenStore(cursor'[u].shard, cursor'[u].chunk, cursor'[u].len - 1)
                             \in view'[u]
      BY <1>6 DEF WalkInv
    <2>1. CASE u = t
      <3>1. /\ cursor'[t].offset = o + 1 /\ cursor'[t].len = n
            /\ cursor'[t].shard = s /\ cursor'[t].chunk = c
        BY <1>2, <1>6, <2>1 DEF Cursors
      <3> QED BY <1>3, <1>4, <1>6, <2>1, <3>1
    <2>2. CASE u # t
      BY <1>3, <1>6, <2>2 DEF WalkInv
    <2> QED BY <2>1, <2>2
  <1> QED BY <1>1, <1>5, <1>7, <1>8

(* The inductive invariant holds of the empty registry. *)
LEMMA InitInv == Init => InductiveInv
  <1> SUFFICES ASSUME Init PROVE InductiveInv
    OBVIOUS
  <1> USE DEF Init
  <1>1. TypeOK
    BY InitType
  <1>2. LockInv /\ SlotInv /\ WalkInv /\ NoUninitializedRead
    BY DEF LockInv, SlotInv, WalkInv, NoUninitializedRead, Registering, StartCursor
  <1>3. 0 \div ChunkSize = 0 /\ 0 % ChunkSize = 0
    <2>1. 0 = ChunkSize * 0 + 0 /\ 0 \in 0..(ChunkSize - 1)
      BY ConstantFacts
    <2> QED BY <2>1, ConstantFacts, DivModUnique
  <1>4. PrefixInv
    BY <1>3, ConstantFacts DEF PrefixInv, ChunkIds
  <1>5. ChunkInv
    BY <1>3 DEF ChunkInv
  <1>6. ClosedInv
    BY ClosedEmpty DEF ClosedInv
  <1>7. ReleaseInv
    <2>1. \A s \in Shards, c \in ChunkIds : published_len[<<s, c>>] = 0
      OBVIOUS
    <2>2. \A o \in Offsets : ~(o < 0)
      BY ConstantFacts DEF Offsets
    <2> QED BY <2>1, <2>2 DEF ReleaseInv
  <1> QED BY <1>1, <1>2, <1>4, <1>5, <1>6, <1>7 DEF InductiveInv

(* A step that changes nothing keeps the inductive invariant. *)
LEMMA StutterStep == InductiveInv /\ UNCHANGED vars => InductiveInv'
  <1> SUFFICES ASSUME InductiveInv, UNCHANGED vars PROVE InductiveInv'
    OBVIOUS
  <1> USE DEF vars, shardVars, memoryVars, callVars, walkVars, InductiveInv
  <1>1. TypeOK'
    BY StutterType
  <1>2. /\ LockInv' /\ SlotInv' /\ PrefixInv' /\ ChunkInv' /\ ClosedInv' /\ ReleaseInv'
    BY WalkFrame DEF ClosedInv
  <1>3. WalkInv' /\ NoUninitializedRead'
    BY DEF WalkInv, NoUninitializedRead
  <1> QED BY <1>1, <1>2, <1>3

(* Every step keeps the inductive invariant: one case per action. *)
LEMMA NextStep == InductiveInv /\ [Next]_vars => InductiveInv'
  <1> SUFFICES ASSUME InductiveInv, [Next]_vars PROVE InductiveInv'
    OBVIOUS
  <1>1. CASE \E t \in Threads : Register(t)
    BY <1>1, LockStep, AllocateStep, PublishStep, StoreIndexStep, ReturnStep DEF Register
  <1>2. CASE \E t \in Threads, op \in {"visit", "len"} : BeginWalk(t, op)
    BY <1>2, BeginWalkStep
  <1>3. CASE \E t \in Threads : WalkStep(t)
    BY <1>3, LoadIndexStep, LoadLenStep, GetEntryStep, EndWalkStep DEF WalkStep
  <1>4. CASE \E a, b \in Threads : Synchronize(a, b)
    BY <1>4, SynchronizeStep
  <1>5. CASE UNCHANGED vars
    BY <1>5, StutterStep
  <1> QED BY <1>1, <1>2, <1>3, <1>4, <1>5 DEF Next

----------------------------------------------------------------------------
(***************************************************************************)
(* Theorems.                                                               *)
(***************************************************************************)

(* The inductive invariant holds in every reachable state: with any number  *)
(* of threads, shards and requests, the lock, the release stores and the    *)
(* acquire loads of registry.rs keep every view closed.                     *)
THEOREM Invariance == Spec => []InductiveInv
  BY InitInv, NextStep, PTL DEF Spec

(* Locks, lengths, offsets, views, cursors and handles stay in their types: *)
(* no publication leaves its chunk and no cursor its prefix.                *)
THEOREM TypeCorrect == Spec => []TypeOK
  <1>1. InductiveInv => TypeOK
    BY DEF InductiveInv
  <1> QED BY <1>1, Invariance, PTL

(* No traversal ever hands an uninitialized entry, or a pointer to counters *)
(* that are not zeroed yet, to its callback (registry.rs:33 and 68).        *)
THEOREM InitializedReads == Spec => []NoUninitializedRead
  <1>1. InductiveInv => NoUninitializedRead
    BY DEF InductiveInv
  <1> QED BY <1>1, Invariance, PTL

(* The debug assertions of MetaChunk::publish never fail.                   *)
THEOREM PublishAssertions == Spec => []PublishExtendsPrefix
  <1>1. ASSUME InductiveInv PROVE PublishExtendsPrefix
    <2> SUFFICES ASSUME NEW t \in Threads, pc[t] = "publish"
                 PROVE  /\ item[t][3] < ChunkSize
                        /\ published_len[<<item[t][1], item[t][2]>>] = item[t][3]
      BY DEF PublishExtendsPrefix
    <2> USE DEF InductiveInv
    <2>1. item[t] = NextSlot(ShardLocked(t)) /\ item[t] \in Slots
      BY <1>1 DEF SlotInv
    <2>2. /\ item[t][1] = ShardLocked(t)
          /\ item[t][2] = len[item[t][1]] \div ChunkSize
          /\ item[t][3] = len[item[t][1]] % ChunkSize
      BY <2>1 DEF NextSlot
    <2>3. item[t][1] \in Shards /\ item[t][2] \in ChunkIds /\ item[t][3] \in Offsets
      BY <2>1, SlotFacts
    <2>4. item[t][3] < ChunkSize
      BY <2>3, ConstantFacts DEF Offsets
    <2>5. ~(item[t][2] < item[t][2])
      BY <2>3, ConstantFacts DEF ChunkIds
    <2> QED BY <1>1, <2>2, <2>3, <2>4, <2>5 DEF PrefixInv
  <1> QED BY <1>1, Invariance, PTL

(* A step keeps what is published. *)
KeepsPublished ==
  /\ \A x \in Published : entries'[x] = entries[x]
  /\ \A x \in Published : x[3] < published_len'[<<x[1], x[2]>>]
  /\ \A s \in Shards : published_index[s] <= published_index'[s]

(* A step that leaves the shared memory alone keeps what is published. *)
LEMMA SameMemory ==
  ASSUME TypeOK, UNCHANGED <<entries, published_len, published_index>>
  PROVE  KeepsPublished
  <1>1. \A s \in Shards : published_index[s] \in Nat
    BY ConstantFacts DEF TypeOK
  <1> QED BY <1>1 DEF KeepsPublished, Published

(* Allocate writes only an entry that is not published. *)
LEMMA AllocateKeeps ==
  ASSUME InductiveInv, NEW t \in Threads, Allocate(t)
  PROVE  KeepsPublished
  <1> DEFINE s == ShardLocked(t)
             c == len[s] \div ChunkSize
             o == len[s] % ChunkSize
  <1> USE DEF InductiveInv
  <1>1. s \in Shards
    BY RequestFacts DEF Allocate, LockInv, Registering, ShardLocked
  <1>2. /\ NextSlot(s) = <<s, c, o>> /\ c \in ChunkIds
        /\ UNCHANGED <<published_len, published_index>>
        /\ \E m : entries' = [entries EXCEPT ![<<s, c, o>>] = m]
    BY DEF Allocate, NextSlot
  <1>3. published_len[<<s, c>>] = o
    BY <1>1, <1>2, ConstantFacts DEF PrefixInv, ChunkIds
  <1>4. o \in Nat
    BY <1>1, ConstantFacts, NextPositionArith DEF TypeOK
  <1>5. <<s, c, o>> \notin Published
    BY <1>3, <1>4 DEF Published
  <1>6. \A x \in Published : entries'[x] = entries[x]
    BY <1>2, <1>5 DEF Published, TypeOK
  <1>7. \A x \in Shards : published_index[x] \in Nat
    BY ConstantFacts DEF TypeOK
  <1> QED BY <1>2, <1>6, <1>7 DEF KeepsPublished, Published

(* Publish lengthens the prefix of its chunk. *)
LEMMA PublishKeeps ==
  ASSUME InductiveInv, NEW t \in Threads, Publish(t)
  PROVE  KeepsPublished
  <1> DEFINE s == item[t][1]
             c == item[t][2]
             o == item[t][3]
  <1> USE DEF InductiveInv
  <1>1. s \in Shards /\ c \in ChunkIds /\ o \in Offsets /\ <<s, c>> \in Shards \X ChunkIds
    BY SlotFacts DEF Publish, SlotInv
  <1>2. /\ published_len' = [published_len EXCEPT ![<<s, c>>] = o + 1]
        /\ UNCHANGED <<entries, published_index>>
    BY DEF Publish, PrefixThrough
  <1>3. published_len[<<s, c>>] = o
    <2>1. s = ShardLocked(t) /\ c = len[s] \div ChunkSize /\ o = len[s] % ChunkSize
      BY DEF Publish, SlotInv, NextSlot
    <2> QED BY <1>1, <2>1, ConstantFacts DEF PrefixInv, ChunkIds
  <1>4. ASSUME NEW x \in Published PROVE x[3] < published_len'[<<x[1], x[2]>>]
    <2>1. /\ <<x[1], x[2]>> \in Shards \X ChunkIds /\ x[3] \in Offsets
          /\ x[3] < published_len[<<x[1], x[2]>>]
      BY SlotFacts DEF Published
    <2>2. CASE <<x[1], x[2]>> = <<s, c>>
      <3>1. published_len'[<<s, c>>] = o + 1 /\ x[3] < o
        BY <1>1, <1>2, <1>3, <2>1, <2>2 DEF TypeOK
      <3> QED BY <1>1, <2>1, <2>2, <3>1, ConstantFacts DEF Offsets
    <2>3. CASE <<x[1], x[2]>> # <<s, c>>
      BY <1>1, <1>2, <2>1, <2>3 DEF TypeOK
    <2> QED BY <2>2, <2>3
  <1>5. \A x \in Shards : published_index[x] \in Nat
    BY ConstantFacts DEF TypeOK
  <1> QED BY <1>2, <1>4, <1>5 DEF KeepsPublished

(* StoreIndex stores a list that holds the chunks of the last one. *)
LEMMA StoreIndexKeeps ==
  ASSUME InductiveInv, NEW t \in Threads, StoreIndex(t)
  PROVE  KeepsPublished
  <1> DEFINE s == item[t][1]
  <1> USE DEF InductiveInv
  <1>1. s \in Shards
    BY SlotFacts DEF StoreIndex, SlotInv
  <1>2. /\ published_index' = [published_index EXCEPT ![s] = chunks[s]]
        /\ UNCHANGED <<entries, published_len>>
    BY DEF StoreIndex
  <1>3. \A x \in Shards : published_index[x] <= published_index'[x]
    <2> TAKE x \in Shards
    <2>1. published_index[x] \in Nat /\ published_index[x] <= chunks[x]
      BY ConstantFacts DEF TypeOK, ChunkInv
    <2> QED BY <1>1, <1>2, <2>1 DEF TypeOK
  <1> QED BY <1>2, <1>3 DEF KeepsPublished, Published

(* Published metadata is immutable and stays published, and no index loses  *)
(* a chunk (registry.rs:36).                                                *)
THEOREM Immutability == Spec => PublishedForever
  <1>1. ASSUME InductiveInv, [Next]_vars
        PROVE  [KeepsPublished]_vars
    <2> USE <1>1
    <2>1. TypeOK
      BY DEF InductiveInv
    <2>2. CASE \E t \in Threads : Register(t)
      <3>1. PICK t \in Threads : Register(t)
        BY <2>2
      <3>2. CASE \E r \in Requests : Lock(t, r)
        BY <2>1, <3>2, SameMemory DEF Lock, memoryVars
      <3>3. CASE ReturnExisting(t) \/ ReturnInserted(t)
        BY <2>1, <3>3, SameMemory DEF ReturnExisting, ReturnInserted, Return, memoryVars
      <3> QED BY <3>1, <3>2, <3>3, AllocateKeeps, PublishKeeps, StoreIndexKeeps DEF Register
    <2>3. CASE \E t \in Threads, op \in {"visit", "len"} : BeginWalk(t, op)
      BY <2>1, <2>3, SameMemory DEF BeginWalk, memoryVars
    <2>4. CASE \E t \in Threads : WalkStep(t)
      BY <2>1, <2>4, SameMemory
      DEF WalkStep, LoadIndex, WithIndex, LoadLen, GetEntry, EndWalk, memoryVars
    <2>5. CASE \E a, b \in Threads : Synchronize(a, b)
      BY <2>1, <2>5, SameMemory DEF Synchronize, memoryVars
    <2> QED BY <2>2, <2>3, <2>4, <2>5 DEF Next
  <1>2. [KeepsPublished]_vars <=>
          [/\ \A x \in Published : entries'[x] = entries[x]
           /\ \A x \in Published : x[3] < published_len'[<<x[1], x[2]>>]
           /\ \A s \in Shards : published_index[s] <= published_index'[s]]_vars
    BY DEF KeepsPublished
  <1> QED BY <1>1, <1>2, Invariance, PTL DEF Spec, PublishedForever

----------------------------------------------------------------------------
(***************************************************************************)
(* The handles: one slot per key, one policy per slot, and every handle's  *)
(* counters exported under the handle's own key, whichever threads race to *)
(* register.                                                               *)
(*                                                                         *)
(* The argument: a shard's map only ever names published slots, each under *)
(* the key of its own metadata (MapInv); every handle was taken from the   *)
(* map (HandleInv); a registration that found nothing still holds the      *)
(* mutex, so nothing is there when it inserts (CallInv).                   *)
(***************************************************************************)

(* What the map says about the registration thread t is in. *)
Found(t) == items[ShardLocked(t)][LookupKey(req[t])]

(* The metadata a registration of request r writes for slot x. *)
MetaOf(x, r) == [item |-> x, profile |-> r]

(* A slot in a map is a published slot of that shard, under its own key.    *)
MapInv ==
  \A s \in Shards, k \in Keys :
    items[s][k] # None =>
      /\ ShardOf[k] = s
      /\ items[s][k] \in Published
      /\ items[s][k][1] = s
      /\ LookupKey(entries[items[s][k]].profile) = k

(* A published entry names itself and a request; the map has it, or the     *)
(* registration that published it is about to insert it.                    *)
LogInv ==
  \A x \in Published :
    /\ entries[x] \in Metas
    /\ entries[x].item = x
    /\ \/ items[x[1]][LookupKey(entries[x].profile)] = x
       \/ \E t \in Threads :
            /\ pc[t] \in {"index", "insert"}
            /\ ~ IsScalar(req[t])
            /\ item[t] = x

(* A handle is what the map holds under its key, with its request's policy. *)
HandleInv ==
  \A h \in handles :
    /\ items[ShardOf[h.key]][h.key] = h.item
    /\ \E r \in Requests : h.key = LookupKey(r) /\ h.policy = PolicyOf(r)

(* What a registration in progress has found and written. *)
CallInv ==
  \A t \in Threads :
    /\ pc[t] = "allocate" => Found(t) = None
    /\ pc[t] = "publish" => Found(t) = None /\ entries[item[t]] = MetaOf(item[t], req[t])
    /\ pc[t] \in {"index", "insert"} =>
         /\ item[t] \in Published
         /\ item[t][1] = ShardLocked(t)
         /\ entries[item[t]] = MetaOf(item[t], req[t])
         /\ Found(t) = IF IsScalar(req[t]) THEN item[t] ELSE None
    /\ pc[t] = "existing" => Found(t) = item[t]

KeyInv == MapInv /\ LogInv /\ HandleInv /\ CallInv

----------------------------------------------------------------------------
(***************************************************************************)
(* Keys and policies.                                                      *)
(***************************************************************************)

(* The maps have keys of their own, and a key fixes the policy of every     *)
(* request that has it: the kind implies it, or the key carries it.         *)
LEMMA KeyFixesPolicy ==
  ASSUME NEW q \in Requests, NEW r \in Requests, LookupKey(q) = LookupKey(r)
  PROVE  PolicyOf(q) = PolicyOf(r)
  <1> DEFINE Tag(x) == LookupKey(x)[1]
             Mid(x) == LookupKey(x)[2]
  <1>1. ASSUME NEW x \in Requests
        PROVE  \/ x.api = "register" /\ Tag(x) = "by_type" /\ PolicyOf(x) = policy(Mid(x))
               \/ x.api = "register_resource" /\ Tag(x) = "by_resource"
                    /\ PolicyOf(x) = policy(Mid(x))
               \/ x.api = "register_profile" /\ Tag(x) = "by_profile" /\ PolicyOf(x) = Mid(x)
               \/ x.api = "scalar" /\ Tag(x) = "scalar_by_type" /\ PolicyOf(x) = Mid(x)[2]
               \/ x.api = "scalar_resource" /\ Tag(x) = "scalar_by_resource"
                    /\ PolicyOf(x) = Mid(x)[2]
    <2>1. x.api \in Apis
      BY RegistryAssumption
    <2>2. CASE x.api \in {"scalar", "scalar_resource"}
      BY <2>2 DEF LookupKey, ScalarKey, IsScalar, PolicyOf
    <2>3. CASE x.api \in {"register", "register_resource", "register_profile"}
      BY <2>3 DEF LookupKey, TimingKey, IsScalar, PolicyOf
    <2> QED BY <2>1, <2>2, <2>3 DEF Apis
  <1>2. Tag(q) = Tag(r) /\ Mid(q) = Mid(r)
    OBVIOUS
  <1> HIDE DEF Tag, Mid
  <1> QED BY <1>1, <1>2

----------------------------------------------------------------------------
(***************************************************************************)
(* What the steps do to the published slots.                               *)
(***************************************************************************)

(* The slot of a registration that has not published it is not published.   *)
LEMMA NextSlotUnpublished ==
  ASSUME InductiveInv, NEW s \in Shards
  PROVE  NextSlot(s) \notin Published
  <1> DEFINE c == len[s] \div ChunkSize
             o == len[s] % ChunkSize
  <1> USE DEF InductiveInv
  <1>1. c \in Nat /\ o \in Nat
    <2>1. len[s] \in Nat
      BY DEF TypeOK
    <2> QED BY <2>1, ConstantFacts
  <1>2. c \in ChunkIds => published_len[<<s, c>>] = o
    BY <1>1 DEF PrefixInv
  <1>3. NextSlot(s) \in Slots => c \in ChunkIds
    BY DEF NextSlot, Slots
  <1> QED BY <1>1, <1>2, <1>3 DEF Published, NextSlot

(* Publish adds its own slot to the published ones and no other. *)
LEMMA PublishAdds ==
  ASSUME InductiveInv, NEW t \in Threads, Publish(t)
  PROVE  /\ item[t] \in Slots /\ item[t][1] = ShardLocked(t)
         /\ item[t] \notin Published
         /\ Published' = Published \cup {item[t]}
  <1> DEFINE s == ShardLocked(t)
             c == len[s] \div ChunkSize
             o == len[s] % ChunkSize
  <1> USE DEF InductiveInv
  <1>1. pc[t] = "publish" /\ s \in Shards
    BY RequestFacts DEF Publish, LockInv, Registering, ShardLocked
  <1>2. /\ item[t] = <<s, c, o>> /\ item[t] \in Slots
        /\ item[t][1] = s /\ item[t][2] = c /\ item[t][3] = o
        /\ item[t] = NextSlot(s)
    BY <1>1 DEF SlotInv, NextSlot
  <1>3. c \in ChunkIds /\ o \in Offsets /\ <<s, c>> \in Shards \X ChunkIds
    BY <1>1, <1>2, SlotFacts
  <1>4. published_len' = [published_len EXCEPT ![<<s, c>>] = o + 1]
    BY <1>2 DEF Publish, PrefixThrough
  <1>5. published_len[<<s, c>>] = o
    BY <1>1, <1>3, ConstantFacts DEF PrefixInv, ChunkIds
  <1>6. o \in Nat
    BY <1>3, ConstantFacts DEF Offsets
  <1> HIDE DEF c, o, s
  <1>7. ASSUME NEW x \in Slots
        PROVE  x \in Published' <=> x \in Published \/ x = item[t]
    <2>1. /\ x[1] \in Shards /\ x[2] \in ChunkIds /\ x[3] \in Nat
          /\ x = <<x[1], x[2], x[3]>> /\ <<x[1], x[2]>> \in Shards \X ChunkIds
      BY SlotFacts, ConstantFacts DEF Offsets
    <2>2. CASE <<x[1], x[2]>> = <<s, c>>
      <3>1. published_len'[<<x[1], x[2]>>] = o + 1
        BY <1>3, <1>4, <2>2 DEF TypeOK
      <3>2. x = item[t] <=> x[3] = o
        BY <1>2, <2>1, <2>2
      <3> QED BY <1>5, <1>6, <2>1, <2>2, <3>1, <3>2 DEF Published
    <2>3. CASE <<x[1], x[2]>> # <<s, c>>
      <3>1. published_len'[<<x[1], x[2]>>] = published_len[<<x[1], x[2]>>]
        BY <1>3, <1>4, <2>1, <2>3 DEF TypeOK
      <3>2. x # item[t]
        BY <1>2, <2>3
      <3> QED BY <3>1, <3>2 DEF Published
    <2> QED BY <2>2, <2>3
  <1>8. Published \subseteq Slots /\ Published' \subseteq Slots
    BY DEF Published
  <1>9. item[t] \notin Published
    BY <1>1, <1>2, NextSlotUnpublished
  <1>10. item[t][1] = ShardLocked(t)
    BY <1>2 DEF s
  <1> QED BY <1>2, <1>7, <1>8, <1>9, <1>10

(* At most one thread is inside the critical section of a shard. *)
LEMMA OneRegistration ==
  ASSUME InductiveInv, NEW t \in Threads, NEW u \in Threads,
         pc[t] \in Registering, pc[u] \in Registering, u # t
  PROVE  ShardLocked(u) # ShardLocked(t)
  BY DEF InductiveInv, LockInv

(* A registration in progress has a request with a key in its shard. *)
LEMMA CallFacts ==
  ASSUME InductiveInv, NEW t \in Threads, pc[t] \in Registering
  PROVE  /\ req[t] \in Requests
         /\ LookupKey(req[t]) \in Keys
         /\ ShardLocked(t) \in Shards
         /\ ShardLocked(t) = ShardOf[LookupKey(req[t])]
  BY RequestFacts DEF InductiveInv, LockInv, ShardLocked

----------------------------------------------------------------------------
(***************************************************************************)
(* Every action preserves KeyInv.                                          *)
(***************************************************************************)

(* Steps that register nothing leave maps, entries, calls and handles alone. *)
LEMMA KeyFrame ==
  ASSUME KeyInv,
         UNCHANGED <<items, entries, published_len, handles, req, item>>,
         \A u \in Threads : pc[u] \in Registering \/ pc'[u] \in Registering => pc'[u] = pc[u]
  PROVE  KeyInv'
  <1>1. Published' = Published
    BY DEF Published
  <1>2. \A u \in Threads : Found(u)' = Found(u) /\ ShardLocked(u)' = ShardLocked(u)
    BY DEF Found, ShardLocked
  <1>3. MapInv' /\ HandleInv'
    BY <1>1 DEF KeyInv, MapInv, HandleInv
  <1>4. LogInv'
    BY <1>1 DEF KeyInv, LogInv, Registering
  <1>5. CallInv'
    <2> SUFFICES ASSUME NEW u \in Threads PROVE CallInv!(u)'
      BY DEF CallInv
    <2>1. pc'[u] \in Registering => pc'[u] = pc[u]
      OBVIOUS
    <2> QED BY <1>1, <1>2, <2>1 DEF KeyInv, CallInv, Registering
  <1> QED BY <1>3, <1>4, <1>5 DEF KeyInv

(* The lookup tells the registration what the map holds. *)
LEMMA KeyLock ==
  ASSUME InductiveInv, KeyInv, NEW t \in Threads, NEW r \in Requests, Lock(t, r)
  PROVE  KeyInv'
  <1> DEFINE s == ShardOf[LookupKey(r)]
             e == Existing(s, r)
  <1> USE DEF InductiveInv, KeyInv
  <1>1. /\ pc[t] = "idle"
        /\ req' = [req EXCEPT ![t] = r]
        /\ item' = [item EXCEPT ![t] = e]
        /\ pc' = [pc EXCEPT ![t] = IF e = None THEN "allocate" ELSE "existing"]
        /\ UNCHANGED <<items, entries, published_len, handles>>
    BY DEF Lock, Goto, memoryVars
  <1>2. /\ req'[t] = r /\ item'[t] = e
        /\ pc'[t] = IF e = None THEN "allocate" ELSE "existing"
        /\ \A u \in Threads \ {t} :
             /\ pc'[u] = pc[u] /\ item'[u] = item[u] /\ req'[u] = req[u]
             /\ Found(u)' = Found(u) /\ ShardLocked(u)' = ShardLocked(u)
    BY <1>1 DEF TypeOK, Found, ShardLocked
  <1>3. Found(t)' = e
    BY <1>1, <1>2 DEF Found, ShardLocked, Existing
  <1> HIDE DEF s, e
  <1>4. Published' = Published
    BY <1>1 DEF Published
  <1>5. MapInv' /\ HandleInv'
    BY <1>1, <1>4 DEF MapInv, HandleInv
  <1>6. LogInv'
    BY <1>1, <1>2, <1>4 DEF LogInv
  <1>7. CallInv'
    BY <1>1, <1>2, <1>3, <1>4 DEF CallInv
  <1> QED BY <1>5, <1>6, <1>7

(* The entry is written where nothing is published yet. *)
LEMMA KeyAllocate ==
  ASSUME InductiveInv, KeyInv, NEW t \in Threads, Allocate(t)
  PROVE  KeyInv'
  <1> DEFINE s == ShardLocked(t)
             slot == NextSlot(s)
  <1> USE DEF InductiveInv, KeyInv
  <1>1. pc[t] = "allocate" /\ pc[t] \in Registering
    BY DEF Allocate, Registering
  <1>2. s \in Shards /\ slot \notin Published
    BY <1>1, CallFacts, NextSlotUnpublished
  <1>3. /\ item' = [item EXCEPT ![t] = slot]
        /\ entries' = [entries EXCEPT ![slot] = MetaOf(slot, req[t])]
        /\ pc' = [pc EXCEPT ![t] = "publish"]
        /\ UNCHANGED <<items, published_len, handles, req>>
    BY DEF Allocate, Goto, MetaOf
  <1>4. slot \in Slots /\ slot[1] = s
    <2>1. slot[2] \in ChunkIds /\ len[s] \in Nat
      BY <1>2 DEF Allocate, TypeOK
    <2>2. len[s] % ChunkSize \in Offsets
      BY <2>1, ConstantFacts DEF Offsets
    <2> QED BY <1>2, <2>1, <2>2 DEF NextSlot, Slots
  <1>5. /\ pc'[t] = "publish" /\ item'[t] = slot /\ entries'[slot] = MetaOf(slot, req[t])
        /\ \A u \in Threads \ {t} : pc'[u] = pc[u] /\ item'[u] = item[u]
        /\ \A u \in Threads : Found(u)' = Found(u) /\ ShardLocked(u)' = ShardLocked(u)
        /\ \A x \in Slots \ {slot} : entries'[x] = entries[x]
    BY <1>3, <1>4 DEF TypeOK, Found, ShardLocked
  <1> HIDE DEF slot
  <1>6. Published' = Published /\ Published \subseteq Slots \ {slot}
    BY <1>2, <1>3 DEF Published
  <1>7. MapInv'
    BY <1>3, <1>5, <1>6 DEF MapInv
  <1>8. HandleInv'
    BY <1>3 DEF HandleInv
  <1>9. LogInv'
    <2> SUFFICES ASSUME NEW x \in Published PROVE LogInv!(x)'
      BY <1>6 DEF LogInv
    <2>1. entries'[x] = entries[x]
      BY <1>5, <1>6
    <2>2. \A u \in Threads : pc[u] \in {"index", "insert"} =>
             pc'[u] = pc[u] /\ item'[u] = item[u]
      BY <1>1, <1>5
    <2> QED BY <1>3, <2>1, <2>2 DEF LogInv
  <1>10. CallInv'
    <2> SUFFICES ASSUME NEW u \in Threads PROVE CallInv!(u)'
      BY DEF CallInv
    <2>1. CASE u = t
      BY <1>1, <1>3, <1>5, <2>1 DEF CallInv
    <2>2. CASE u # t
      <3>1. pc[u] \in {"publish", "index", "insert"} => entries'[item[u]] = entries[item[u]]
        <4>1. ASSUME pc[u] = "publish" PROVE item[u] \in Slots \ {slot}
          <5>1. ShardLocked(u) # s
            BY <1>1, <2>2, <4>1, OneRegistration DEF Registering
          <5>2. item[u] \in Slots /\ item[u][1] = ShardLocked(u)
            BY <4>1 DEF SlotInv, NextSlot
          <5> QED BY <1>4, <5>1, <5>2
        <4>2. ASSUME pc[u] \in {"index", "insert"} PROVE item[u] \in Slots \ {slot}
          BY <1>6, <4>2 DEF CallInv
        <4> QED BY <1>5, <4>1, <4>2
      <3> QED BY <1>3, <1>5, <1>6, <2>2, <3>1 DEF CallInv
    <2> QED BY <2>1, <2>2
  <1> QED BY <1>7, <1>8, <1>9, <1>10

(* The entry of a registration joins the published ones under its own key. *)
LEMMA KeyPublish ==
  ASSUME InductiveInv, KeyInv, NEW t \in Threads, Publish(t)
  PROVE  KeyInv'
  <1> DEFINE s == ShardLocked(t)
             k == LookupKey(req[t])
             x == item[t]
  <1> USE DEF InductiveInv, KeyInv
  <1>1. pc[t] = "publish" /\ pc[t] \in Registering
    BY DEF Publish, Registering
  <1>2. s \in Shards /\ k \in Keys /\ ShardOf[k] = s /\ req[t] \in Requests
    BY <1>1, CallFacts
  <1>3. x \in Slots /\ x[1] = s /\ Published' = Published \cup {x} /\ x # None
    BY PublishAdds, ConstantFacts
  <1>4. items[s][k] = None /\ entries[x] = MetaOf(x, req[t])
    BY <1>1 DEF CallInv, Found
  <1>5. /\ items' = IF IsScalar(req[t]) THEN [items EXCEPT ![s][k] = x] ELSE items
        /\ pc' = [pc EXCEPT ![t] = IF fresh[t] THEN "index" ELSE "insert"]
        /\ UNCHANGED <<entries, handles, req, item>>
    BY DEF Publish, Remember, Goto, AfterPublish, callVars
  <1>6. \A u \in Threads : ShardLocked(u)' = ShardLocked(u)
    BY <1>5 DEF ShardLocked
  <1> HIDE DEF s, k, x
  <1>7. /\ pc'[t] \in {"index", "insert"}
        /\ \A u \in Threads \ {t} : pc'[u] = pc[u]
    BY <1>5 DEF TypeOK
  <1>8. /\ items'[s][k] = IF IsScalar(req[t]) THEN x ELSE None
        /\ \A a \in Shards, b \in Keys : a # s \/ b # k => items'[a][b] = items[a][b]
    BY <1>2, <1>4, <1>5 DEF TypeOK
  <1>9. MetaOf(x, req[t]) \in Metas /\ MetaOf(x, req[t]).item = x
        /\ MetaOf(x, req[t]).profile = req[t]
    BY <1>2, <1>3 DEF MetaOf, Metas
  <1>10. MapInv'
    <2> SUFFICES ASSUME NEW a \in Shards, NEW b \in Keys, items'[a][b] # None
                 PROVE  /\ ShardOf[b] = a
                        /\ items'[a][b] \in Published'
                        /\ items'[a][b][1] = a
                        /\ LookupKey(entries'[items'[a][b]].profile) = b
      BY DEF MapInv
    <2>1. CASE a = s /\ b = k
      BY <1>2, <1>3, <1>4, <1>5, <1>8, <1>9, <2>1 DEF k
    <2>2. CASE a # s \/ b # k
      <3>1. items'[a][b] = items[a][b]
        BY <1>8, <2>2
      <3> QED BY <1>3, <1>5, <3>1 DEF MapInv
    <2> QED BY <2>1, <2>2
  <1>11. LogInv'
    <2> SUFFICES ASSUME NEW y \in Published \cup {x} PROVE LogInv!(y)'
      BY <1>3 DEF LogInv
    <2>1. CASE y = x
      <3>1. IsScalar(req[t]) => items'[y[1]][LookupKey(entries'[y].profile)] = y
        BY <1>3, <1>4, <1>5, <1>8, <1>9, <2>1 DEF k
      <3> QED BY <1>4, <1>5, <1>7, <1>9, <2>1, <3>1 DEF x
    <2>2. CASE y \in Published
      <3>1. /\ entries[y] \in Metas /\ entries[y].item = y
            /\ y \in Slots /\ y[1] \in Shards /\ y # None
            /\ LookupKey(entries[y].profile) \in Keys
        BY <2>2, SlotFacts, RequestFacts, ConstantFacts DEF LogInv, Published, Metas
      <3>2. CASE items[y[1]][LookupKey(entries[y].profile)] = y
        <4>1. items'[y[1]][LookupKey(entries[y].profile)] = y
          BY <1>4, <1>8, <3>1, <3>2
        <4> QED BY <1>5, <3>1, <4>1
      <3>3. CASE \E u \in Threads : pc[u] \in {"index", "insert"} /\ ~ IsScalar(req[u]) /\ item[u] = y
        BY <1>1, <1>5, <1>7, <3>1, <3>3
      <3> QED BY <2>2, <3>2, <3>3 DEF LogInv
    <2> QED BY <2>1, <2>2
  <1>12. HandleInv'
    <2> SUFFICES ASSUME NEW h \in handles PROVE items'[ShardOf[h.key]][h.key] = h.item
      BY <1>5 DEF HandleInv
    <2>1. h.key \in Keys /\ ShardOf[h.key] \in Shards /\ h.item # None
      BY RegistryAssumption, ConstantFacts DEF TypeOK, Handles
    <2> QED BY <1>4, <1>8, <2>1 DEF HandleInv
  <1>13. CallInv'
    <2> SUFFICES ASSUME NEW u \in Threads PROVE CallInv!(u)'
      BY DEF CallInv
    <2>1. CASE u = t
      <3>1. Found(t)' = items'[s][k]
        BY <1>5, <1>6 DEF Found, k, s
      <3>2. item'[t] = x /\ req'[t] = req[t] /\ ShardLocked(t)' = s
        BY <1>5, <1>6 DEF x, s
      <3> QED BY <1>3, <1>4, <1>5, <1>7, <1>8, <2>1, <3>1, <3>2
    <2>2. CASE u # t
      <3>1. ASSUME pc[u] \in Registering PROVE Found(u)' = Found(u)
        <4>1. ShardLocked(u) # s /\ ShardLocked(u) \in Shards /\ LookupKey(req[u]) \in Keys
          BY <1>1, <2>2, <3>1, OneRegistration, CallFacts DEF s
        <4> QED BY <1>5, <1>6, <1>8, <4>1 DEF Found
      <3> QED BY <1>3, <1>5, <1>6, <1>7, <2>2, <3>1 DEF CallInv, Registering
    <2> QED BY <2>1, <2>2
  <1> QED BY <1>10, <1>11, <1>12, <1>13

(* Storing the index changes no map and no entry. *)
LEMMA KeyIndex ==
  ASSUME InductiveInv, KeyInv, NEW t \in Threads, StoreIndex(t)
  PROVE  KeyInv'
  <1> USE DEF InductiveInv, KeyInv
  <1>1. /\ pc[t] = "index"
        /\ pc' = [pc EXCEPT ![t] = "insert"]
        /\ UNCHANGED <<items, entries, published_len, handles, req, item>>
    BY DEF StoreIndex, Goto, shardVars, callVars
  <1>2. /\ pc'[t] = "insert"
        /\ \A u \in Threads \ {t} : pc'[u] = pc[u]
        /\ \A u \in Threads : Found(u)' = Found(u) /\ ShardLocked(u)' = ShardLocked(u)
    BY <1>1 DEF TypeOK, Found, ShardLocked
  <1>3. Published' = Published
    BY <1>1 DEF Published
  <1>4. MapInv' /\ HandleInv'
    BY <1>1, <1>3 DEF MapInv, HandleInv
  <1>5. LogInv'
    BY <1>1, <1>2, <1>3 DEF LogInv
  <1>6. CallInv'
    <2> SUFFICES ASSUME NEW u \in Threads PROVE CallInv!(u)'
      BY DEF CallInv
    <2>1. CASE u = t
      BY <1>1, <1>2, <1>3, <2>1 DEF CallInv
    <2>2. CASE u # t
      BY <1>1, <1>2, <1>3, <2>2 DEF CallInv
    <2> QED BY <2>1, <2>2
  <1> QED BY <1>4, <1>5, <1>6

(* The handle returned is the slot the map holds from then on. *)
LEMMA KeyReturn ==
  ASSUME InductiveInv, KeyInv, NEW t \in Threads, ReturnExisting(t) \/ ReturnInserted(t)
  PROVE  KeyInv'
  <1> DEFINE s == ShardLocked(t)
             k == LookupKey(req[t])
             x == item[t]
             h == [key |-> k, item |-> x, policy |-> PolicyOf(req[t])]
  <1> USE DEF InductiveInv, KeyInv
  <1>1. Return(t) /\ pc[t] \in {"existing", "insert"} /\ pc[t] \in Registering
    BY DEF ReturnExisting, ReturnInserted, Registering
  <1>2. s \in Shards /\ k \in Keys /\ ShardOf[k] = s /\ req[t] \in Requests
    BY <1>1, CallFacts
  <1>3. /\ handles' = handles \cup {h}
        /\ pc' = [pc EXCEPT ![t] = "idle"]
        /\ req' = [req EXCEPT ![t] = None]
        /\ item' = [item EXCEPT ![t] = None]
        /\ UNCHANGED <<entries, published_len>>
    BY <1>1 DEF Return, Goto, memoryVars
  <1>4. h.key = k /\ h.item = x /\ h.policy = PolicyOf(req[t])
    OBVIOUS
  <1>5. /\ pc'[t] = "idle"
        /\ \A u \in Threads \ {t} :
             /\ pc'[u] = pc[u] /\ req'[u] = req[u] /\ item'[u] = item[u]
             /\ ShardLocked(u)' = ShardLocked(u)
    BY <1>3 DEF TypeOK, ShardLocked
  <1>6. x \in Published /\ x # None /\ x[1] = s /\ LookupKey(entries[x].profile) = k
    <2>1. CASE pc[t] = "existing"
      <3>1. items[s][k] = x /\ x \in Slots
        BY <2>1 DEF CallInv, Found, SlotInv
      <3> QED BY <1>2, <3>1, ConstantFacts DEF MapInv
    <2>2. CASE pc[t] = "insert"
      <3>1. x \in Published /\ x[1] = s /\ entries[x] = MetaOf(x, req[t])
        BY <2>2 DEF CallInv
      <3> QED BY <3>1, ConstantFacts DEF Published, MetaOf
    <2> QED BY <1>1, <2>1, <2>2
  <1>7. /\ items'[s][k] = x
        /\ items[s][k] \in {x, None}
        /\ \A a \in Shards, b \in Keys : a # s \/ b # k => items'[a][b] = items[a][b]
    <2>1. CASE ReturnExisting(t)
      BY <1>2, <2>1 DEF ReturnExisting, CallInv, Found
    <2>2. CASE ReturnInserted(t)
      <3>1. items' = IF IsScalar(req[t]) THEN items ELSE [items EXCEPT ![s][k] = x]
        BY <2>2 DEF ReturnInserted, Remember
      <3>2. items[s][k] = IF IsScalar(req[t]) THEN x ELSE None
        BY <2>2 DEF ReturnInserted, CallInv, Found
      <3> HIDE DEF s, k, x, h
      <3> QED BY <1>2, <3>1, <3>2 DEF TypeOK
    <2> QED BY <2>1, <2>2
  <1>8. Published' = Published
    BY <1>3 DEF Published
  <1> HIDE DEF s, k, x, h
  <1>9. MapInv'
    <2> SUFFICES ASSUME NEW a \in Shards, NEW b \in Keys, items'[a][b] # None
                 PROVE  /\ ShardOf[b] = a
                        /\ items'[a][b] \in Published'
                        /\ items'[a][b][1] = a
                        /\ LookupKey(entries'[items'[a][b]].profile) = b
      BY DEF MapInv
    <2>1. CASE a = s /\ b = k
      BY <1>2, <1>3, <1>6, <1>7, <1>8, <2>1
    <2>2. CASE a # s \/ b # k
      <3>1. items'[a][b] = items[a][b]
        BY <1>7, <2>2
      <3> QED BY <1>3, <1>8, <3>1 DEF MapInv
    <2> QED BY <2>1, <2>2
  <1>10. LogInv'
    <2> SUFFICES ASSUME NEW y \in Published PROVE LogInv!(y)'
      BY <1>8 DEF LogInv
    <2>1. /\ entries[y] \in Metas /\ entries[y].item = y
          /\ y[1] \in Shards /\ y # None /\ LookupKey(entries[y].profile) \in Keys
      BY SlotFacts, RequestFacts, ConstantFacts DEF LogInv, Published, Metas
    <2>2. CASE items[y[1]][LookupKey(entries[y].profile)] = y
      <3>1. items'[y[1]][LookupKey(entries[y].profile)] = y
        BY <1>7, <2>1, <2>2
      <3> QED BY <1>3, <2>1, <3>1
    <2>3. CASE \E u \in Threads : pc[u] \in {"index", "insert"} /\ ~ IsScalar(req[u]) /\ item[u] = y
      <3>1. PICK u \in Threads : pc[u] \in {"index", "insert"} /\ ~ IsScalar(req[u]) /\ item[u] = y
        BY <2>3
      <3>2. CASE u = t
        <4>1. y = x
          BY <3>1, <3>2 DEF x
        <4> QED BY <1>3, <1>6, <1>7, <2>1, <4>1
      <3>3. CASE u # t
        BY <1>3, <1>5, <2>1, <3>1, <3>3
      <3> QED BY <3>2, <3>3
    <2> QED BY <2>2, <2>3 DEF LogInv
  <1>11. HandleInv'
    <2> SUFFICES ASSUME NEW g \in handles \cup {h} PROVE HandleInv!(g)'
      BY <1>3 DEF HandleInv
    <2>1. CASE g = h
      BY <1>2, <1>4, <1>7, <2>1 DEF k
    <2>2. CASE g \in handles
      <3>1. g.key \in Keys /\ ShardOf[g.key] \in Shards /\ g.item # None
        BY <2>2, RegistryAssumption, ConstantFacts DEF TypeOK, Handles
      <3> QED BY <1>7, <2>2, <3>1 DEF HandleInv
    <2> QED BY <2>1, <2>2
  <1>12. CallInv'
    <2> SUFFICES ASSUME NEW u \in Threads PROVE CallInv!(u)'
      BY DEF CallInv
    <2>1. CASE u = t
      BY <1>5, <2>1
    <2>2. CASE u # t
      <3>1. ASSUME pc[u] \in Registering PROVE Found(u)' = Found(u)
        <4>1. ShardLocked(u) # s /\ ShardLocked(u) \in Shards /\ LookupKey(req[u]) \in Keys
          BY <1>1, <2>2, <3>1, OneRegistration, CallFacts DEF s
        <4> QED BY <1>5, <1>7, <2>2, <4>1 DEF Found
      <3> QED BY <1>3, <1>5, <1>8, <2>2, <3>1 DEF CallInv, Registering
    <2> QED BY <2>1, <2>2
  <1> QED BY <1>9, <1>10, <1>11, <1>12

(* A traversal step of thread t moves its own pc only, outside registering. *)
LEMMA WalkPc ==
  ASSUME TypeOK, NEW t \in Threads,
         WalkStep(t) \/ \E op \in {"visit", "len"} : BeginWalk(t, op)
  PROVE  /\ UNCHANGED <<shardVars, memoryVars, lockView, callVars, handles>>
         /\ \A u \in Threads : pc[u] \in Registering \/ pc'[u] \in Registering => pc'[u] = pc[u]
         /\ \A u \in Threads \ {t} : pc'[u] = pc[u] /\ cursor'[u] = cursor[u]
  <1>1. UNCHANGED <<shardVars, memoryVars, lockView, callVars, handles>>
    BY DEF WalkStep, LoadIndex, WithIndex, LoadLen, GetEntry, EndWalk, BeginWalk
  <1>2. pc[t] \in Walking \cup {"idle", "walked"}
    BY DEF WalkStep, LoadIndex, LoadLen, GetEntry, EndWalk, BeginWalk, Walking
  <1>3. /\ pc'[t] \in Walking \cup {"idle", "walked"}
        /\ \A u \in Threads \ {t} : pc'[u] = pc[u] /\ cursor'[u] = cursor[u]
    <2>1. ASSUME NextPosition(t, cursor[t])
          PROVE  /\ pc'[t] \in Walking \cup {"idle", "walked"}
                 /\ \A u \in Threads \ {t} : pc'[u] = pc[u] /\ cursor'[u] = cursor[u]
      BY <2>1, NextPositionFrame DEF Walking
    <2>2. CASE LoadIndex(t)
      BY <2>1, <2>2 DEF LoadIndex, WithIndex, Goto, TypeOK, Walking
    <2>3. CASE LoadLen(t)
      BY <2>1, <2>3 DEF LoadLen, Goto, TypeOK, Walking
    <2>4. CASE GetEntry(t)
      BY <1>2, <2>1, <2>4 DEF GetEntry, TypeOK, Walking
    <2>5. CASE EndWalk(t) \/ \E op \in {"visit", "len"} : BeginWalk(t, op)
      BY <2>5 DEF EndWalk, BeginWalk, Goto, TypeOK, Walking
    <2> QED BY <2>2, <2>3, <2>4, <2>5 DEF WalkStep
  <1> QED BY <1>1, <1>2, <1>3 DEF Walking, Registering

(* The empty registry has no keys to get wrong. *)
LEMMA KeyInit == Init => KeyInv
  <1> SUFFICES ASSUME Init PROVE KeyInv
    OBVIOUS
  <1>1. Published = {}
    <2>1. ASSUME NEW x \in Slots PROVE ~(x[3] < published_len[<<x[1], x[2]>>])
      BY SlotFacts, ConstantFacts DEF Init, Offsets
    <2> QED BY <2>1 DEF Published
  <1> QED BY <1>1 DEF Init, KeyInv, MapInv, LogInv, HandleInv, CallInv

(* Every step keeps KeyInv: one case per action. *)
LEMMA KeyNext == InductiveInv /\ KeyInv /\ [Next]_vars => KeyInv'
  <1> SUFFICES ASSUME InductiveInv, KeyInv, [Next]_vars PROVE KeyInv'
    OBVIOUS
  <1> USE DEF shardVars, memoryVars, callVars
  <1>1. CASE \E t \in Threads : Register(t)
    BY <1>1, KeyLock, KeyAllocate, KeyPublish, KeyIndex, KeyReturn DEF Register
  <1>2. CASE \E t \in Threads : WalkStep(t) \/ \E op \in {"visit", "len"} : BeginWalk(t, op)
    BY <1>2, WalkPc, KeyFrame DEF InductiveInv
  <1>3. CASE \E a, b \in Threads : Synchronize(a, b)
    BY <1>3, KeyFrame DEF Synchronize
  <1>4. CASE UNCHANGED vars
    BY <1>4, KeyFrame DEF vars
  <1> QED BY <1>1, <1>2, <1>3, <1>4 DEF Next

----------------------------------------------------------------------------
(***************************************************************************)
(* Theorems.                                                               *)
(***************************************************************************)

(* Maps, metadata, handles and registrations in progress agree in every     *)
(* reachable state, for any number of threads, shards and requests.         *)
THEOREM KeyInvariance == Spec => []KeyInv
  BY KeyInit, KeyNext, Invariance, PTL DEF Spec

(* Two handles have equal keys exactly when they share their counters: the  *)
(* lookup and the insert of registry.rs are one critical section.           *)
THEOREM SlotPerKey == Spec => []OneSlotPerKey
  <1>1. ASSUME TypeOK, KeyInv PROVE OneSlotPerKey
    <2> SUFFICES ASSUME NEW h \in handles, NEW g \in handles
                 PROVE  h.key = g.key <=> h.item = g.item
      BY DEF OneSlotPerKey
    <2>1. \A f \in handles :
            /\ f.key \in Keys /\ ShardOf[f.key] \in Shards /\ f.item # None
            /\ items[ShardOf[f.key]][f.key] = f.item
      BY <1>1, RegistryAssumption, ConstantFacts DEF TypeOK, Handles, KeyInv, HandleInv
    <2>2. \A f \in handles : LookupKey(entries[f.item].profile) = f.key
      BY <1>1, <2>1 DEF KeyInv, MapInv
    <2> QED BY <2>1, <2>2
  <1> QED BY <1>1, TypeCorrect, KeyInvariance, PTL

(* All handles on one slot have one policy, so its slow counters have one   *)
(* meaning, and no counter shares an atomic with a gauge.                   *)
THEOREM PolicyPerSlot == Spec => []OnePolicyPerSlot
  <1>1. ASSUME KeyInv, OneSlotPerKey PROVE OnePolicyPerSlot
    BY <1>1, KeyFixesPolicy DEF KeyInv, HandleInv, OnePolicyPerSlot, OneSlotPerKey
  <1> QED BY <1>1, KeyInvariance, SlotPerKey, PTL

(* The counters a handle updates are exported under the handle's own key.   *)
THEOREM ExportedUnderItsKey == Spec => []HandleExportedUnderItsKey
  <1>1. ASSUME TypeOK, KeyInv PROVE HandleExportedUnderItsKey
    <2> SUFFICES ASSUME NEW h \in handles
                 PROVE  /\ entries[h.item] # Uninit
                        /\ entries[h.item].item = h.item
                        /\ LookupKey(entries[h.item].profile) = h.key
      BY DEF HandleExportedUnderItsKey
    <2>1. /\ h.key \in Keys /\ ShardOf[h.key] \in Shards /\ h.item # None
          /\ items[ShardOf[h.key]][h.key] = h.item
      BY <1>1, RegistryAssumption, ConstantFacts DEF TypeOK, Handles, KeyInv, HandleInv
    <2>2. h.item \in Published /\ LookupKey(entries[h.item].profile) = h.key
      BY <1>1, <2>1 DEF KeyInv, MapInv
    <2> QED BY <1>1, <2>2, ConstantFacts DEF KeyInv, LogInv
  <1> QED BY <1>1, TypeCorrect, KeyInvariance, PTL

============================================================================
