------------------------------ MODULE Registry ------------------------------
(***************************************************************************)
(* A registry of slots: sharded registration under a mutex per shard,      *)
(* append-only metadata chunks published with a release store of           *)
(* `published_len`, a copy-on-write chunk index published through an       *)
(* ArcSwap, and traversals (`visit`, `len`) that take no mutex.  The       *)
(* process has two: the timing slots (registry.rs) and the scalars         *)
(* (scalar.rs), which differ in their keys and in when a registration      *)
(* remembers its slot.  The requests of an instance belong to one of them. *)
(*                                                                         *)
(* Threads run on a weak memory.  Each has a view: the set of writes that  *)
(* happen before its next step.  A release store keeps the view of the     *)
(* storing thread next to the value; an acquire load that returns the      *)
(* value adds that view to the loading thread's, and may return any value  *)
(* that is not older than one the thread already knows (coherence).  A     *)
(* read of a plain, non-atomic location is defined only when its write is  *)
(* in the reader's view; otherwise it is a data race and the model returns *)
(* either the stored value or Uninit.                                      *)
(***************************************************************************)
EXTENDS Naturals, FiniteSets, Requests

CONSTANTS
  Threads,    \* threads of the process that use the registry
  Requests,   \* the registrations the application asks for
  NumShards,  \* SHARD_COUNT
  ShardOf,    \* the keyed hash: the shard of each lookup key
  ChunkSize,  \* CHUNK_SIZE
  MaxChunks,  \* bound: chunks a shard can grow to in the model
  None,       \* an unlocked mutex, a missing map entry, no call in progress
  Uninit      \* the content of a MaybeUninit entry before it is written

Shards   == 1..NumShards
ChunkIds == 0..(MaxChunks - 1)
Offsets  == 0..(ChunkSize - 1)

(* A slot is named by its address: shard, chunk, offset in the chunk. *)
Slots == Shards \X ChunkIds \X Offsets

Keys == {LookupKey(r) : r \in Requests}

ASSUME RegistryAssumption ==
  /\ NumShards \in Nat \ {0}
  /\ ChunkSize \in Nat \ {0}
  /\ MaxChunks \in Nat \ {0}
  /\ None \notin Threads
  /\ \A r \in Requests : r.api \in Apis
  /\ ShardOf \in [Keys -> Shards]

Metas   == [item : Slots, profile : Requests]
Handles == [key : Keys, item : Slots, policy : {PolicyOf(r) : r \in Requests}]

ASSUME NoneAssumption == Uninit \notin Metas /\ None \notin Slots

(***************************************************************************)
(* Writes, as the elements of a view: the zeroed counters of a chunk of    *)
(* slots, a metadata entry, a store of a chunk's published_len (named by   *)
(* the offset it published) and a store of a shard's index (named by the   *)
(* chunk it added).                                                        *)
(***************************************************************************)
SlotsWrite(s, c)    == <<"slots", s, c, 0>>
EntryWrite(s, c, o) == <<"entry", s, c, o>>
LenStore(s, c, o)   == <<"len", s, c, o>>
IndexStore(s, c)    == <<"index", s, c, 0>>

Writes == {"slots", "entry", "len", "index"} \X Shards \X ChunkIds \X Offsets

VARIABLES
  mutex,            \* Shard.state: the thread that holds the lock
  items,            \* ShardState.by_type, by_resource and by_profile
  len,              \* ShardState.len
  chunks,           \* ShardState.meta_chunks.len(), and slots.len()
  entries,          \* MetaChunk.entries
  published_len,    \* MetaChunk.published_len, the newest value
  published_index,  \* Shard.published_index: chunks in the newest index
  view,             \* each thread's view
  lockView,         \* the view the last unlock of each mutex released
  lenView,          \* the view each store to published_len released
  indexView,        \* the view each store to published_index released
  pc,               \* each thread's position in its call
  req,              \* registration in progress
  item,             \* its slot
  fresh,            \* its is_new_chunk
  cursor,           \* position of a traversal
  known,            \* slots published before the traversal began
  seen,             \* metadata handed to the callback so far
  total,            \* callbacks made, or lengths summed, so far
  handles           \* every Metric handle returned

shardVars  == <<mutex, items, len, chunks>>
memoryVars == <<entries, published_len, published_index, lenView, indexView>>
callVars   == <<req, item, fresh>>
walkVars   == <<cursor, known, seen, total>>
vars == <<shardVars, memoryVars, view, lockView, pc, callVars, walkVars, handles>>

Cursors ==
  [op : {"visit", "len"}, shard : Shards, chunks : 0..MaxChunks,
   chunk : ChunkIds, len : 0..ChunkSize, offset : Offsets]

StartCursor(op) ==
  [op |-> op, shard |-> 1, chunks |-> 0, chunk |-> 0, len |-> 0, offset |-> 0]

ShardLocked(t) == ShardOf[LookupKey(req[t])]

Goto(t, label) == pc' = [pc EXCEPT ![t] = label]

(* What an acquire adds to a thread's view. *)
Acquire(t, released) == view' = [view EXCEPT ![t] = @ \cup released]

(* The view a release store of write w by thread t keeps with its value. *)
MutReleased(t, w) == {w}
Released(t, w) == view[t] \cup {w}

Init ==
  /\ mutex = [s \in Shards |-> None]
  /\ items = [s \in Shards |-> [k \in Keys |-> None]]
  /\ len = [s \in Shards |-> 0]
  /\ chunks = [s \in Shards |-> 0]
  /\ entries = [x \in Slots |-> Uninit]
  /\ published_len = [x \in Shards \X ChunkIds |-> 0]
  /\ published_index = [s \in Shards |-> 0]
  /\ view = [t \in Threads |-> {}]
  /\ lockView = [s \in Shards |-> {}]
  /\ lenView = [x \in Slots |-> {}]
  /\ indexView = [x \in Shards \X ChunkIds |-> {}]
  /\ pc = [t \in Threads |-> "idle"]
  /\ req = [t \in Threads |-> None]
  /\ item = [t \in Threads |-> None]
  /\ fresh = [t \in Threads |-> FALSE]
  /\ cursor = [t \in Threads |-> StartCursor("visit")]
  /\ known = [t \in Threads |-> {}]
  /\ seen = [t \in Threads |-> {}]
  /\ total = [t \in Threads |-> 0]
  /\ handles = {}

----------------------------------------------------------------------------
(***************************************************************************)
(* Registration.                                                           *)
(***************************************************************************)

(* Only one thread at a time is between lock() and the drop of the guard. *)
MutUnlocked(s) == TRUE
Unlocked(s) == mutex[s] = None

(* ShardState::existing, existing_profile and the by_resource lookup. *)
MutExisting(s, r) == None
Existing(s, r) == items[s][LookupKey(r)]

(* Lock the shard of the key and look the key up. *)
Lock(t, r) ==
  LET s == ShardOf[LookupKey(r)] IN
  /\ pc[t] = "idle"
  /\ Admitted(r)
  /\ Unlocked(s)
  /\ mutex' = [mutex EXCEPT ![s] = t]
  /\ Acquire(t, lockView[s])
  /\ req' = [req EXCEPT ![t] = r]
  /\ item' = [item EXCEPT ![t] = Existing(s, r)]
  /\ Goto(t, IF Existing(s, r) = None THEN "allocate" ELSE "existing")
  /\ UNCHANGED <<items, len, chunks, memoryVars, lockView, fresh, walkVars, handles>>

(* Where the next metric of the shard goes. *)
MutNextSlot(s) == <<s, 0, len[s] % ChunkSize>>
NextSlot(s) == <<s, len[s] \div ChunkSize, len[s] % ChunkSize>>

(* Take the next slot, adding a chunk when it starts one, and write its     *)
(* metadata entry: the plain write at the head of MetaChunk::publish.       *)
Allocate(t) ==
  LET s     == ShardLocked(t)
      slot  == NextSlot(s)
      c     == slot[2]
      o     == slot[3]
      isNew == chunks[s] <= c
  IN
  /\ pc[t] = "allocate"
  /\ c \in ChunkIds
  /\ chunks' = [chunks EXCEPT ![s] = IF isNew THEN @ + 1 ELSE @]
  /\ fresh' = [fresh EXCEPT ![t] = isNew]
  /\ item' = [item EXCEPT ![t] = slot]
  /\ entries' = [entries EXCEPT ![slot] = [item |-> slot, profile |-> req[t]]]
  /\ view' = [view EXCEPT ![t] =
                @ \cup {EntryWrite(s, c, o)}
                  \cup (IF isNew THEN {SlotsWrite(s, c)} ELSE {})]
  /\ Goto(t, "publish")
  /\ UNCHANGED <<mutex, items, len, published_len, published_index, lenView,
                 indexView, lockView, req, walkVars, handles>>

(* The length that makes offset o the last published entry of its chunk. *)
MutPrefixThrough(o) == o + 2
PrefixThrough(o) == o + 1

(* Only a registration that added a chunk copies and stores the index. *)
MutAfterPublish(t) == "insert"
AfterPublish(t) == IF fresh[t] THEN "index" ELSE "insert"

(* The maps with thread t's slot under its key. *)
MutRemember(t) == items
Remember(t) == [items EXCEPT ![ShardLocked(t)][LookupKey(req[t])] = item[t]]

(* The release store of published_len that ends MetaChunk::publish, and     *)
(* what follows it before the index: a scalar is remembered here.           *)
Publish(t) ==
  LET s == item[t][1]
      c == item[t][2]
      o == item[t][3]
  IN
  /\ pc[t] = "publish"
  /\ published_len' = [published_len EXCEPT ![<<s, c>>] = PrefixThrough(o)]
  /\ lenView' = [lenView EXCEPT ![item[t]] = Released(t, LenStore(s, c, o))]
  /\ Acquire(t, {LenStore(s, c, o)})
  /\ items' = IF IsScalar(req[t]) THEN Remember(t) ELSE items
  /\ len' = [len EXCEPT ![s] = @ + 1]
  /\ Goto(t, AfterPublish(t))
  /\ UNCHANGED <<mutex, chunks, entries, published_index, indexView,
                 lockView, callVars, walkVars, handles>>

(* Publish the copied chunk list, only when a chunk was added. *)
StoreIndex(t) ==
  LET s == item[t][1]
      c == item[t][2]
  IN
  /\ pc[t] = "index"
  /\ published_index' = [published_index EXCEPT ![s] = chunks[s]]
  /\ indexView' = [indexView EXCEPT ![<<s, c>>] = Released(t, IndexStore(s, c))]
  /\ Acquire(t, {IndexStore(s, c)})
  /\ Goto(t, "insert")
  /\ UNCHANGED <<shardVars, entries, published_len, lenView, lockView, callVars,
                 walkVars, handles>>

(* Drop the guard and hand out a handle with the policy of the request. *)
Return(t) ==
  LET s == ShardLocked(t) IN
  /\ mutex' = [mutex EXCEPT ![s] = None]
  /\ lockView' = [lockView EXCEPT ![s] = view[t]]
  /\ handles' = handles \cup {[key |-> LookupKey(req[t]), item |-> item[t],
                               policy |-> PolicyOf(req[t])]}
  /\ Goto(t, "idle")
  /\ req' = [req EXCEPT ![t] = None]
  /\ item' = [item EXCEPT ![t] = None]
  /\ fresh' = [fresh EXCEPT ![t] = FALSE]
  /\ UNCHANGED <<len, chunks, memoryVars, view, walkVars>>

ReturnExisting(t) ==
  /\ pc[t] = "existing"
  /\ Return(t)
  /\ UNCHANGED items

(* A timing slot is remembered under its key after the index, then the call *)
(* returns.                                                                 *)
ReturnInserted(t) ==
  /\ pc[t] = "insert"
  /\ items' = IF IsScalar(req[t]) THEN items ELSE Remember(t)
  /\ Return(t)

----------------------------------------------------------------------------
(***************************************************************************)
(* Traversals: Registry::for_each_meta under `visit`, and Registry::len.   *)
(***************************************************************************)

(* The number of chunks an acquire load of the index may return. *)
LoadableIndex(V, s) ==
  {k \in 0..published_index[s] : \A c \in ChunkIds : IndexStore(s, c) \in V => c < k}

(* The values an acquire load of a chunk's published_len may return. *)
LoadableLen(V, s, c) ==
  {n \in 0..published_len[<<s, c>>] : \A o \in Offsets : LenStore(s, c, o) \in V => o < n}

(* The slots whose publication is in a view. *)
KnownSlots(V) == {x \in Slots : LenStore(x[1], x[2], x[3]) \in V}

BeginWalk(t, op) ==
  /\ pc[t] = "idle"
  /\ cursor' = [cursor EXCEPT ![t] = StartCursor(op)]
  /\ known' = [known EXCEPT ![t] = KnownSlots(view[t])]
  /\ seen' = [seen EXCEPT ![t] = {}]
  /\ total' = [total EXCEPT ![t] = 0]
  /\ Goto(t, "load_index")
  /\ UNCHANGED <<shardVars, memoryVars, view, lockView, callVars, handles>>

(* Leave the chunk `cur` stands on: the next chunk of the loaded index, the *)
(* next shard, or the end.                                                  *)
NextPosition(t, cur) ==
  IF cur.chunk + 1 < cur.chunks
    THEN /\ cursor' = [cursor EXCEPT ![t] = [cur EXCEPT !.chunk = @ + 1,
                                                        !.len = 0, !.offset = 0]]
         /\ Goto(t, "load_len")
    ELSE IF cur.shard < NumShards
      THEN /\ cursor' = [cursor EXCEPT ![t] =
                           [StartCursor(cur.op) EXCEPT !.shard = cur.shard + 1]]
           /\ Goto(t, "load_index")
      ELSE /\ cursor' = [cursor EXCEPT ![t] = cur]
           /\ Goto(t, "walked")

(* Go on with an index of k chunks; an empty one has no chunk to walk. *)
WithIndex(t, s, k) ==
  /\ IF k = 0
       THEN NextPosition(t, cursor[t]) /\ UNCHANGED view
       ELSE /\ Acquire(t, indexView[<<s, k - 1>>])
            /\ cursor' = [cursor EXCEPT ![t].chunks = k]
            /\ Goto(t, "load_len")
  /\ UNCHANGED <<shardVars, memoryVars, lockView, callVars, known, seen, total, handles>>

(* Load the shard's index, whoever holds the shard's mutex. *)
MutLoadIndex(t) ==
  /\ pc[t] = "load_index"
  /\ Unlocked(cursor[t].shard)
  /\ \E k \in LoadableIndex(view[t], cursor[t].shard) : WithIndex(t, cursor[t].shard, k)
LoadIndex(t) ==
  /\ pc[t] = "load_index"
  /\ \E k \in LoadableIndex(view[t], cursor[t].shard) : WithIndex(t, cursor[t].shard, k)

(* Load the chunk's length; `len` adds it up, `visit` walks the prefix. *)
LoadLen(t) ==
  LET s == cursor[t].shard
      c == cursor[t].chunk
  IN
  /\ pc[t] = "load_len"
  /\ \E n \in LoadableLen(view[t], s, c) :
       /\ Acquire(t, IF n = 0 THEN {} ELSE lenView[<<s, c, n - 1>>])
       /\ IF cursor[t].op = "len" \/ n = 0
            THEN /\ NextPosition(t, cursor[t])
                 /\ total' = [total EXCEPT ![t] = @ + n]
            ELSE /\ cursor' = [cursor EXCEPT ![t].len = n]
                 /\ Goto(t, "get")
                 /\ UNCHANGED total
  /\ UNCHANGED <<shardVars, memoryVars, lockView, callVars, known, seen, handles>>

(* What a plain read of an entry, and of the counters it points to, yields. *)
EntryRead(V, s, c, o) ==
  IF {EntryWrite(s, c, o), SlotsWrite(s, c)} \subseteq V
    THEN {entries[<<s, c, o>>]}
    ELSE {entries[<<s, c, o>>], Uninit}

(* The loop over the offsets of a prefix goes on. *)
MutMoreEntries(cur) == cur.offset + 2 < cur.len
MoreEntries(cur) == cur.offset + 1 < cur.len

(* MetaChunk::get and the callback, for one offset of the prefix. *)
GetEntry(t) ==
  LET s == cursor[t].shard
      c == cursor[t].chunk
      o == cursor[t].offset
  IN
  /\ pc[t] = "get"
  /\ \E m \in EntryRead(view[t], s, c, o) : seen' = [seen EXCEPT ![t] = @ \cup {m}]
  /\ total' = [total EXCEPT ![t] = @ + 1]
  /\ IF MoreEntries(cursor[t])
       THEN /\ cursor' = [cursor EXCEPT ![t].offset = @ + 1]
            /\ UNCHANGED pc
       ELSE NextPosition(t, cursor[t])
  /\ UNCHANGED <<shardVars, memoryVars, view, lockView, callVars, known, handles>>

(* The traversal returns to its caller. *)
EndWalk(t) ==
  /\ pc[t] = "walked"
  /\ known' = [known EXCEPT ![t] = {}]
  /\ seen' = [seen EXCEPT ![t] = {}]
  /\ total' = [total EXCEPT ![t] = 0]
  /\ cursor' = [cursor EXCEPT ![t] = StartCursor("visit")]
  /\ Goto(t, "idle")
  /\ UNCHANGED <<shardVars, memoryVars, view, lockView, callVars, handles>>

----------------------------------------------------------------------------
(* The application orders a step of one thread before the next of another: *)
(* a spawn, a join, a channel.                                             *)
Synchronize(a, b) ==
  /\ pc[a] = "idle" /\ pc[b] = "idle"
  /\ ~ view[a] \subseteq view[b]
  /\ Acquire(b, view[a])
  /\ UNCHANGED <<shardVars, memoryVars, lockView, pc, callVars, walkVars, handles>>

Register(t) ==
  \/ \E r \in Requests : Lock(t, r)
  \/ Allocate(t) \/ Publish(t) \/ StoreIndex(t)
  \/ ReturnExisting(t) \/ ReturnInserted(t)

WalkStep(t) == LoadIndex(t) \/ LoadLen(t) \/ GetEntry(t) \/ EndWalk(t)

Next ==
  \/ \E t \in Threads : Register(t)
  \/ \E t \in Threads, op \in {"visit", "len"} : BeginWalk(t, op)
  \/ \E t \in Threads : WalkStep(t)
  \/ \E a, b \in Threads : Synchronize(a, b)

Spec == Init /\ [][Next]_vars

(* Threads that only register.  A traversal or a Synchronize changes no     *)
(* lock, map, entry or handle, so what handles point to does not depend on  *)
(* them.                                                                    *)
RegistrationSpec == Init /\ [][\E t \in Threads : Register(t)]_vars

(* A traversal never waits: only its own steps are assumed to be scheduled, *)
(* and a registration may stop for ever inside its critical section.        *)
WalkSpec == Spec /\ \A t \in Threads : WF_vars(WalkStep(t))

----------------------------------------------------------------------------
(***************************************************************************)
(* Properties.                                                             *)
(***************************************************************************)

Labels == {"idle", "allocate", "publish", "index", "insert", "existing",
           "load_index", "load_len", "get", "walked"}

(* Every variable holds a value of its Rust type: locks are held by         *)
(* threads, lengths and offsets stay inside their chunk, handles and map    *)
(* entries point at slots.                                                  *)
TypeOK ==
  /\ mutex \in [Shards -> Threads \cup {None}]
  /\ items \in [Shards -> [Keys -> Slots \cup {None}]]
  /\ len \in [Shards -> Nat]
  /\ chunks \in [Shards -> 0..MaxChunks]
  /\ entries \in [Slots -> Metas \cup {Uninit}]
  /\ published_len \in [Shards \X ChunkIds -> 0..ChunkSize]
  /\ published_index \in [Shards -> 0..MaxChunks]
  /\ view \in [Threads -> SUBSET Writes]
  /\ lockView \in [Shards -> SUBSET Writes]
  /\ lenView \in [Slots -> SUBSET Writes]
  /\ indexView \in [Shards \X ChunkIds -> SUBSET Writes]
  /\ pc \in [Threads -> Labels]
  /\ req \in [Threads -> Requests \cup {None}]
  /\ item \in [Threads -> Slots \cup {None}]
  /\ fresh \in [Threads -> BOOLEAN]
  /\ cursor \in [Threads -> Cursors]
  /\ known \in [Threads -> SUBSET Slots]
  /\ seen \in [Threads -> SUBSET (Metas \cup {Uninit})]
  /\ total \in [Threads -> Nat]
  /\ handles \in SUBSET Handles

(* No traversal hands uninitialized metadata, or a pointer to counters that *)
(* were not zeroed yet, to its callback: the safety argument of `MetaChunk` *)
(* (registry.rs:33) under the memory model the code relies on.              *)
NoUninitializedRead == \A t \in Threads : Uninit \notin seen[t]

(* The two debug assertions of MetaChunk::publish (registry.rs:49): the     *)
(* offset is inside the chunk and is exactly the length published so far.   *)
PublishExtendsPrefix ==
  \A t \in Threads :
    pc[t] = "publish" =>
      /\ item[t][3] < ChunkSize
      /\ published_len[<<item[t][1], item[t][2]>>] = item[t][3]

(***************************************************************************)
(* An inductive invariant: why no traversal reads an uninitialized entry.  *)
(***************************************************************************)

Registering == {"allocate", "publish", "index", "insert", "existing"}

Walking     == {"load_index", "load_len", "get"}

(* A thread inside the critical section holds the mutex of its shard. *)
LockInv ==
  \A t \in Threads :
    pc[t] \in Registering => req[t] \in Requests /\ mutex[ShardLocked(t)] = t

(* The slot of a registration: not yet published, it is the shard's next.   *)
SlotInv ==
  \A t \in Threads :
    /\ pc[t] \in {"publish", "index", "insert", "existing"} => item[t] \in Slots
    /\ pc[t] = "publish" =>
         /\ item[t] = NextSlot(ShardLocked(t))
         /\ EntryWrite(item[t][1], item[t][2], item[t][3]) \in view[t]
         /\ SlotsWrite(item[t][1], item[t][2]) \in view[t]

(* The lengths of a shard's chunks are what its length says: full chunks,   *)
(* then at most one partial chunk.                                          *)
PrefixInv ==
  \A s \in Shards, c \in ChunkIds :
    published_len[<<s, c>>] =
      IF c < len[s] \div ChunkSize THEN ChunkSize
      ELSE IF c = len[s] \div ChunkSize THEN len[s] % ChunkSize ELSE 0

(* A shard never has a chunk it has no use for, so the first metric of a    *)
(* chunk always adds it; the index lists only chunks that exist.            *)
ChunkInv ==
  \A s \in Shards :
    /\ published_index[s] <= chunks[s]
    /\ chunks[s] <= (len[s] \div ChunkSize) + 1
    /\ \/ chunks[s] <= len[s] \div ChunkSize
       \/ len[s] % ChunkSize # 0
       \/ \E t \in Threads : pc[t] = "publish" /\ ShardLocked(t) = s

(* Happens-before is closed: who knows a length knows the entries below it  *)
(* and the counters they point to, and an entry that is known is written.   *)
Closed(V, e) ==
  /\ \A s \in Shards, c \in ChunkIds, o \in Offsets :
       LenStore(s, c, o) \in V =>
         /\ SlotsWrite(s, c) \in V
         /\ \A p \in 0..o : EntryWrite(s, c, p) \in V
  /\ \A s \in Shards, c \in ChunkIds, o \in Offsets :
       EntryWrite(s, c, o) \in V => e[<<s, c, o>>] # Uninit

ClosedInv ==
  /\ \A t \in Threads : Closed(view[t], entries)
  /\ \A s \in Shards : Closed(lockView[s], entries)
  /\ \A x \in Slots : Closed(lenView[x], entries)
  /\ \A x \in Shards \X ChunkIds : Closed(indexView[x], entries)

(* The view of the next thread to work on a shard: the holder's, or the one *)
(* the next lock acquires.                                                  *)
OwnerView(s) == IF mutex[s] = None THEN lockView[s] ELSE view[mutex[s]]

(* The owner of a shard knows its last publication, and every published     *)
(* length released the view of its publisher.                               *)
ReleaseInv ==
  /\ \A s \in Shards :
       len[s] > 0 => LenStore(s, (len[s] - 1) \div ChunkSize, (len[s] - 1) % ChunkSize)
                       \in OwnerView(s)
  /\ \A s \in Shards, c \in ChunkIds, o \in Offsets :
       o < published_len[<<s, c>>] => LenStore(s, c, o) \in lenView[<<s, c, o>>]

(* A traversal starts each chunk at its first entry, and one that reads     *)
(* entries knows the length it loaded.                                      *)
WalkInv ==
  \A t \in Threads :
    /\ pc[t] \in {"load_index", "load_len"} => cursor[t].offset = 0
    /\ pc[t] = "get" =>
         /\ cursor[t].offset < cursor[t].len
         /\ LenStore(cursor[t].shard, cursor[t].chunk, cursor[t].len - 1) \in view[t]

(* The safety argument of MetaChunk (registry.rs:33) as one state           *)
(* predicate that every step of every thread preserves.                     *)
InductiveInv ==
  /\ TypeOK
  /\ LockInv
  /\ SlotInv
  /\ PrefixInv
  /\ ChunkInv
  /\ ClosedInv
  /\ ReleaseInv
  /\ WalkInv
  /\ NoUninitializedRead

----------------------------------------------------------------------------
(* One key, one slot: two handles have the same key exactly when they point *)
(* to the same counters, whatever threads race to register.                 *)
OneSlotPerKey ==
  \A h, g \in handles : h.key = g.key <=> h.item = g.item

(* All handles on one slot apply the same slow threshold, so the slow       *)
(* counters of a slot have one meaning; and a counter and a gauge never     *)
(* share an atomic (README, line 47).                                       *)
OnePolicyPerSlot ==
  \A h, g \in handles : h.item = g.item => h.policy = g.policy

(* A handle's counters are exported under the handle's own key.             *)
HandleExportedUnderItsKey ==
  \A h \in handles :
    /\ entries[h.item] # Uninit
    /\ entries[h.item].item = h.item
    /\ LookupKey(entries[h.item].profile) = h.key

Visited(t) == {m.item : m \in seen[t] \ {Uninit}}

Finished(t, op) == pc[t] = "walked" /\ cursor[t].op = op

(* Every metric published before a visit began, in the happens-before order *)
(* of the program, is in the visit: a registration is seen by the current   *)
(* traversal or the next one (README, "visit sees per-shard published       *)
(* prefixes").                                                              *)
VisitComplete ==
  \A t \in Threads : Finished(t, "visit") => known[t] \subseteq Visited(t)

(* `a` comes before `b` in the allocation order of one shard. *)
Before(a, b) == a[1] = b[1] /\ (a[2] < b[2] \/ (a[2] = b[2] /\ a[3] < b[3]))

(* What a visit has seen of a shard is a prefix of the shard's allocation   *)
(* order, even across chunks whose lengths are loaded one after the other.  *)
VisitSeesPrefix ==
  \A t \in Threads : \A b \in Visited(t) : \A a \in Slots :
    Before(a, b) => a \in Visited(t)

Published == {x \in Slots : x[3] < published_len[<<x[1], x[2]>>]}

(* `len` counts at least what was published before the call and at most     *)
(* what is published when it returns.                                       *)
LenWithinBounds ==
  \A t \in Threads :
    Finished(t, "len") =>
      Cardinality(known[t]) <= total[t] /\ total[t] <= Cardinality(Published)

(* A published entry is immutable and stays published: no step rewrites an  *)
(* entry inside a published prefix, shortens a prefix or drops a chunk from *)
(* an index.                                                                *)
PublishedForever ==
  [][/\ \A x \in Published : entries'[x] = entries[x]
     /\ \A x \in Published : x[3] < published_len'[<<x[1], x[2]>>]
     /\ \A s \in Shards : published_index[s] <= published_index'[s]]_vars

(* A traversal that has begun ends, even if every registration stalls while *)
(* it holds its shard's mutex: traversals take no registration mutex.       *)
TraversalEnds ==
  \A t \in Threads : (pc[t] = "load_index") ~> (pc[t] = "walked")

============================================================================
