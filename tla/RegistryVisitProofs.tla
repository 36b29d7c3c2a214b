------------------------ MODULE RegistryVisitProofs ------------------------
(***************************************************************************)
(* Proofs about the traversals of Registry: a visit sees a prefix of every *)
(* shard, misses nothing its thread knew, and `len` counts no less than    *)
(* was known before and no more than is published after the call.          *)
(*                                                                         *)
(* The argument: who knows a publication knows every earlier one of its    *)
(* shard (OrderedView) and, once the publishing registration has stored    *)
(* the index, that the index reaches it (LinkedView); so an index load     *)
(* covers the chunks of all known slots, every chunk but the last of the   *)
(* loaded index is full, and the slots a traversal has passed are the ones *)
(* it has counted (Tour).                                                  *)
(*                                                                         *)
(* Then the proof that Registry implements AbstractRegistry.               *)
(***************************************************************************)
EXTENDS RegistryRefinement, RegistryProofs, FiniteSetTheorems, FunctionTheorems, SequenceTheorems

(***************************************************************************)
(* Views.                                                                  *)
(***************************************************************************)

(* Known slots are published, with all slots before them; a known index     *)
(* reaches only chunks that have a known entry.                             *)
OrderedView(V, P) ==
  /\ KnownSlots(V) \subseteq P
  /\ \A a \in Slots, b \in KnownSlots(V) : Before(a, b) => a \in KnownSlots(V)
  /\ \A s \in Shards, c \in ChunkIds :
       IndexStore(s, c) \in V => <<s, c, 0>> \in KnownSlots(V)

(* The index is known to reach every known slot. *)
LinkedView(V) == \A b \in KnownSlots(V) : IndexStore(b[1], b[2]) \in V

(* A registration that added a chunk has its index store before it. *)
Pending(t) == IF pc[t] = "index" THEN {IndexStore(item[t][1], item[t][2])} ELSE {}

OrderInv ==
  /\ \A t \in Threads :
       OrderedView(view[t], Published) /\ LinkedView(view[t] \cup Pending(t))
  /\ \A s \in Shards : OrderedView(lockView[s], Published) /\ LinkedView(lockView[s])
  /\ \A x \in Slots :
       /\ OrderedView(lenView[x], Published)
       /\ LinkedView(lenView[x] \cup {IndexStore(x[1], x[2])})
  /\ \A x \in Shards \X ChunkIds :
       OrderedView(indexView[x], Published) /\ LinkedView(indexView[x])

(* Thread t is adding a chunk to shard s. *)
Adding(t, s) ==
  /\ pc[t] = "index" \/ (pc[t] = "publish" /\ fresh[t])
  /\ ShardLocked(t) = s

(* A shard has exactly the chunks its length needs, the index lags behind   *)
(* them only while a registration adds one, and every index that was ever   *)
(* loadable was stored.                                                     *)
IndexInv ==
  /\ \A s \in Shards :
       /\ len[s] \div ChunkSize <= chunks[s]
       /\ len[s] % ChunkSize # 0 => chunks[s] = (len[s] \div ChunkSize) + 1
       /\ published_index[s] = chunks[s] \/ \E t \in Threads : Adding(t, s)
       /\ \A c \in ChunkIds : c < published_index[s] => IndexStore(s, c) \in indexView[<<s, c>>]
  /\ \A t \in Threads :
       /\ pc[t] \in {"publish", "index"} =>
            /\ item[t][1] = ShardLocked(t)
            /\ chunks[item[t][1]] = item[t][2] + 1
       /\ pc[t] = "publish" /\ item[t][3] = 0 => fresh[t]
       /\ \A s \in Shards : Adding(t, s) => published_index[s] = item[t][2]
       /\ pc[t] \in {"index", "insert"} => item[t] \in KnownSlots(view[t])

(***************************************************************************)
(* Traversals.                                                             *)
(***************************************************************************)

(* The slots behind the position of a traversal. *)
Passed(label, cur) ==
  {x \in Slots :
     \/ label = "walked"
     \/ x[1] < cur.shard
     \/ /\ x[1] = cur.shard
        /\ \/ label \in {"load_len", "get"} /\ x[2] < cur.chunk
           \/ label = "get" /\ x[2] = cur.chunk /\ x[3] < cur.offset}

(* C is what a traversal with view V, which set out knowing K, has counted: *)
(* known slots it has passed, all of K it has passed, all of its shard it   *)
(* has passed, and with each slot the ones before it.                       *)
Tour(C, K, V, label, cur) ==
  /\ C \subseteq Passed(label, cur) /\ C \subseteq KnownSlots(V)
  /\ K \subseteq KnownSlots(V)
  /\ K \cap Passed(label, cur) \subseteq C
  /\ label # "walked" => \A x \in Passed(label, cur) : x[1] = cur.shard => x \in C
  /\ \A a \in Slots, b \in C : Before(a, b) => a \in C

(* The index a traversal has loaded covers what it set out knowing, and     *)
(* every chunk of it but the last is full.                                  *)
Position(K, V, label, cur) ==
  /\ label = "load_index" => cur.chunks = 0 /\ cur.chunk = 0
  /\ label \in {"load_len", "get"} =>
       /\ cur.chunk < cur.chunks
       /\ <<cur.shard, cur.chunks - 1, 0>> \in KnownSlots(V)
       /\ \A x \in K : x[1] = cur.shard => x[2] < cur.chunks
  /\ label = "get" =>
       /\ cur.op = "visit"
       /\ cur.chunk + 1 < cur.chunks => cur.len = ChunkSize
       /\ \A x \in K : x[1] = cur.shard /\ x[2] = cur.chunk => x[3] < cur.len

Counted(t, C) ==
  /\ Tour(C, known[t], view[t], pc[t], cursor[t])
  /\ IsFiniteSet(C) /\ Cardinality(C) = total[t]
  /\ cursor[t].op = "visit" => C = Visited(t)

TourInv ==
  \A t \in Threads :
    /\ pc[t] \in Walking \cup {"walked"} =>
         /\ Position(known[t], view[t], pc[t], cursor[t])
         /\ \E C \in SUBSET Slots : Counted(t, C)
    /\ pc[t] \notin Walking \cup {"walked"} \/ cursor[t].op = "len" => seen[t] = {}

VisitInv == OrderInv /\ IndexInv /\ TourInv

----------------------------------------------------------------------------
(***************************************************************************)
(* Views that are ordered and linked stay so when they grow as views grow. *)
(***************************************************************************)

(* Knowing a slot is knowing the store of the length that published it.     *)
LEMMA KnownSlot ==
  ASSUME NEW V, NEW s \in Shards, NEW c \in ChunkIds, NEW o \in Offsets
  PROVE  <<s, c, o>> \in Slots /\ (<<s, c, o>> \in KnownSlots(V) <=> LenStore(s, c, o) \in V)
  BY DEF KnownSlots, Slots

(* A union of views knows what one of them knows. *)
LEMMA KnownUnion ==
  ASSUME NEW V, NEW W
  PROVE  KnownSlots(V \cup W) = KnownSlots(V) \cup KnownSlots(W)
  BY DEF KnownSlots

(* Only stores of published_len are known slots. *)
LEMMA KnownOther ==
  ASSUME NEW W, \A s \in Shards, c \in ChunkIds, o \in Offsets : LenStore(s, c, o) \notin W
  PROVE  KnownSlots(W) = {}
  BY SlotFacts DEF KnownSlots

(* The stores of an index name other writes than published lengths. *)
LEMMA KnownIndex ==
  ASSUME NEW a, NEW b
  PROVE  KnownSlots({IndexStore(a, b)}) = {}
  BY DEF KnownSlots, LenStore, IndexStore

(* One store of published_len makes one slot known. *)
LEMMA KnownLen ==
  ASSUME NEW x \in Slots
  PROVE  KnownSlots({LenStore(x[1], x[2], x[3])}) = {x}
  BY SlotFacts DEF KnownSlots, LenStore

(* The empty view is ordered and linked. *)
LEMMA OrderedEmpty ==
  ASSUME NEW P
  PROVE  OrderedView({}, P) /\ LinkedView({})
  BY DEF OrderedView, LinkedView, KnownSlots

(* More may be published than a view knows. *)
LEMMA OrderedMore ==
  ASSUME NEW V, NEW P, NEW Q, OrderedView(V, P), P \subseteq Q
  PROVE  OrderedView(V, Q)
  BY DEF OrderedView

(* What an acquire makes of two ordered views is ordered. *)
LEMMA OrderedUnion ==
  ASSUME NEW V, NEW W, NEW P, OrderedView(V, P), OrderedView(W, P)
  PROVE  OrderedView(V \cup W, P)
  BY KnownUnion DEF OrderedView

(* What an acquire makes of two linked views is linked. *)
LEMMA LinkedUnion ==
  ASSUME NEW V, NEW W, LinkedView(V), LinkedView(W)
  PROVE  LinkedView(V \cup W)
  BY KnownUnion DEF LinkedView

(* Writes that are neither lengths nor indices leave a view ordered and     *)
(* linked.                                                                  *)
LEMMA OrderedOther ==
  ASSUME NEW V, NEW W, NEW P, OrderedView(V, P),
         \A s \in Shards, c \in ChunkIds :
           IndexStore(s, c) \notin W /\ \A o \in Offsets : LenStore(s, c, o) \notin W
  PROVE  OrderedView(V \cup W, P) /\ KnownSlots(V \cup W) = KnownSlots(V)
  <1>1. KnownSlots(V \cup W) = KnownSlots(V)
    BY KnownUnion, KnownOther
  <1> QED BY <1>1 DEF OrderedView

(* Before two slots of a shard there is one order. *)
LEMMA BeforeFacts ==
  ASSUME NEW s \in Shards, NEW c \in ChunkIds, NEW o \in Offsets
  PROVE  /\ \A d \in ChunkIds, p \in Offsets : d < c => Before(<<s, d, p>>, <<s, c, o>>)
         /\ \A p \in Offsets : p < o => Before(<<s, c, p>>, <<s, c, o>>)
  BY DEF Before

(* An ordered view that knows an entry of a chunk knows the entries before  *)
(* it in the chunk, and all of the chunks before.                           *)
LEMMA OrderedBelow ==
  ASSUME NEW V, NEW P, OrderedView(V, P),
         NEW s \in Shards, NEW c \in ChunkIds, NEW o \in Offsets,
         <<s, c, o>> \in KnownSlots(V)
  PROVE  /\ \A d \in ChunkIds, p \in Offsets : d < c => <<s, d, p>> \in KnownSlots(V)
         /\ \A p \in Offsets : p <= o => <<s, c, p>> \in KnownSlots(V)
  <1>1. \A d \in ChunkIds, p \in Offsets : <<s, d, p>> \in Slots
    BY DEF Slots
  <1>2. ASSUME NEW p \in Offsets, p <= o PROVE <<s, c, p>> \in KnownSlots(V)
    <2>1. p = o \/ p < o
      BY <1>2, ConstantFacts DEF Offsets
    <2> QED BY <1>1, <2>1, BeforeFacts DEF OrderedView
  <1> QED BY <1>1, <1>2, BeforeFacts DEF OrderedView

(* A view that grows knows more. *)
LEMMA KnownGrows ==
  ASSUME NEW V, NEW W, V \subseteq W
  PROVE  KnownSlots(V) \subseteq KnownSlots(W)
  BY DEF KnownSlots

----------------------------------------------------------------------------
(***************************************************************************)
(* What is published, and who knows it.                                    *)
(***************************************************************************)

(* The chunk and the offset of a slot are numbers. *)
LEMMA SlotNumbers ==
  ASSUME NEW x \in Slots
  PROVE  /\ x[1] \in Shards /\ x[1] \in Nat
         /\ x[2] \in ChunkIds /\ x[2] \in Nat
         /\ x[3] \in Offsets /\ x[3] \in Nat /\ x[3] < ChunkSize
         /\ x = <<x[1], x[2], x[3]>>
  <1>1. x[1] \in Shards /\ x[2] \in ChunkIds /\ x[3] \in Offsets /\ x = <<x[1], x[2], x[3]>>
    BY SlotFacts
  <1>2. x[1] \in Nat
    BY <1>1, ConstantFacts DEF Shards
  <1>3. x[2] \in Nat
    BY <1>1, ConstantFacts DEF ChunkIds
  <1>4. x[3] \in Nat /\ x[3] < ChunkSize
    BY <1>1, ConstantFacts DEF Offsets
  <1> QED BY <1>1, <1>2, <1>3, <1>4

(* The length of a shard is full chunks and the entries of a partial one.   *)
LEMMA LengthFacts ==
  ASSUME TypeOK, NEW s \in Shards
  PROVE  /\ len[s] \in Nat
         /\ len[s] \div ChunkSize \in Nat
         /\ len[s] % ChunkSize \in Nat /\ len[s] % ChunkSize \in Offsets
  <1>1. len[s] \in Nat
    BY DEF TypeOK
  <1> QED BY <1>1, ConstantFacts DEF Offsets

(* A slot is published exactly when its place is below the shard's length.  *)
LEMMA PublishedPlace ==
  ASSUME InductiveInv, NEW x \in Slots
  PROVE  x \in Published <=>
           \/ x[2] < len[x[1]] \div ChunkSize
           \/ x[2] = len[x[1]] \div ChunkSize /\ x[3] < len[x[1]] % ChunkSize
  <1> DEFINE s == x[1]
             q == len[s] \div ChunkSize
             r == len[s] % ChunkSize
  <1>1. s \in Shards /\ x[2] \in ChunkIds /\ x[3] \in Offsets
    BY SlotFacts
  <1>2. x[2] \in Nat /\ x[3] \in Nat /\ x[3] < ChunkSize
    BY <1>1, ConstantFacts DEF ChunkIds, Offsets
  <1>3. q \in Nat /\ r \in Nat
    BY <1>1, LengthFacts DEF InductiveInv
  <1>4. published_len[<<s, x[2]>>] = IF x[2] < q THEN ChunkSize ELSE IF x[2] = q THEN r ELSE 0
    BY <1>1 DEF InductiveInv, PrefixInv
  <1> HIDE DEF q, r
  <1>5. x \in Published <=> x[3] < published_len[<<s, x[2]>>]
    BY DEF Published
  <1>6. x \in Published <=> x[2] < q \/ (x[2] = q /\ x[3] < r)
    BY <1>2, <1>3, <1>4, <1>5
  <1> QED BY <1>6 DEF q, r

(* Everything before a published slot is published. *)
LEMMA PublishedBefore ==
  ASSUME InductiveInv, NEW a \in Slots, NEW b \in Slots, Before(a, b),
         b \in Published \/ b = NextSlot(b[1])
  PROVE  a \in Published
  <1>1. /\ a[1] = b[1] /\ a[1] \in Shards
        /\ a[2] \in Nat /\ a[3] \in Nat /\ b[2] \in Nat /\ b[3] \in Nat
        /\ a[2] < b[2] \/ (a[2] = b[2] /\ a[3] < b[3])
    BY SlotNumbers DEF Before
  <1>2. len[a[1]] \div ChunkSize \in Nat /\ len[a[1]] % ChunkSize \in Nat
    BY <1>1, LengthFacts DEF InductiveInv
  <1>3. b = NextSlot(b[1]) =>
          b[2] = len[b[1]] \div ChunkSize /\ b[3] = len[b[1]] % ChunkSize
    BY DEF NextSlot
  <1> QED BY <1>1, <1>2, <1>3, PublishedPlace

(* The next owner of a shard knows all that the shard has published. *)
LEMMA OwnerKnows ==
  ASSUME InductiveInv, OrderInv, NEW x \in Published
  PROVE  x \in KnownSlots(OwnerView(x[1]))
  <1> DEFINE s == x[1]
             V == OwnerView(s)
             n == len[s] - 1
             q == n \div ChunkSize
             r == n % ChunkSize
  <1> USE DEF InductiveInv
  <1>1. x \in Slots /\ s \in Shards /\ x[2] \in ChunkIds /\ x[3] \in Offsets
        /\ x = <<s, x[2], x[3]>>
    BY SlotFacts DEF Published
  <1>2. x[2] \in Nat /\ x[3] \in Nat /\ x[3] < ChunkSize
    BY <1>1, ConstantFacts DEF ChunkIds, Offsets
  <1>3. len[s] \in Nat
    BY <1>1 DEF TypeOK
  <1>4. OrderedView(V, Published) /\ V \subseteq Writes
    <2>1. mutex[s] \in Threads \cup {None}
      BY <1>1 DEF TypeOK
    <2> QED BY <1>1, <2>1 DEF OwnerView, OrderInv, TypeOK
  <1>5. \/ x[2] < len[s] \div ChunkSize
        \/ x[2] = len[s] \div ChunkSize /\ x[3] < len[s] % ChunkSize
    BY <1>1, PublishedPlace
  <1>6. len[s] # 0
    <2>1. 0 \div ChunkSize = 0 /\ 0 % ChunkSize = 0
      <3>1. 0 = ChunkSize * 0 + 0 /\ 0 \in 0..(ChunkSize - 1)
        BY ConstantFacts
      <3> QED BY <3>1, ConstantFacts, DivModUnique
    <2> QED BY <1>2, <1>5, <2>1
  <1>7. n \in Nat /\ n + 1 = len[s] /\ len[s] > 0
    BY <1>3, <1>6
  <1>8. LenStore(s, q, r) \in V
    BY <1>1, <1>7 DEF ReleaseInv
  <1>9. q \in ChunkIds /\ r \in Offsets
    BY <1>4, <1>8 DEF LenStore, Writes
  <1>10. <<s, q, r>> \in KnownSlots(V)
    BY <1>1, <1>8, <1>9, KnownSlot
  <1> HIDE DEF n
  <1>11. /\ q \in Nat /\ r \in 0..(ChunkSize - 1)
         /\ r = ChunkSize - 1 => len[s] \div ChunkSize = q + 1 /\ len[s] % ChunkSize = 0
         /\ r # ChunkSize - 1 => len[s] \div ChunkSize = q /\ len[s] % ChunkSize = r + 1
    BY <1>7, ConstantFacts, NextPositionArith
  <1> HIDE DEF q, r, V
  <1>12. x[2] < q \/ (x[2] = q /\ x[3] <= r)
    BY <1>2, <1>5, <1>11, ConstantFacts
  <1>13. x \in KnownSlots(V)
    BY <1>1, <1>4, <1>9, <1>10, <1>12, OrderedBelow
  <1> QED BY <1>13 DEF V

----------------------------------------------------------------------------
(***************************************************************************)
(* Every action preserves OrderInv.                                        *)
(***************************************************************************)

(* A step that stores nothing shared need only keep the threads' views.     *)
LEMMA OrderFrame ==
  ASSUME OrderInv, Published \subseteq Published', UNCHANGED <<lockView, lenView, indexView>>,
         \A u \in Threads :
           OrderedView(view'[u], Published') /\ LinkedView(view'[u] \cup Pending(u)')
  PROVE  OrderInv'
  BY OrderedMore DEF OrderInv

(* The lock brings the view of the last owner. *)
LEMMA OrderLock ==
  ASSUME InductiveInv, OrderInv, NEW t \in Threads, NEW r \in Requests, Lock(t, r)
  PROVE  OrderInv'
  <1> DEFINE s == ShardOf[LookupKey(r)]
  <1> USE DEF InductiveInv
  <1>1. s \in Shards
    BY RequestFacts
  <1>2. /\ pc[t] = "idle"
        /\ view'[t] = view[t] \cup lockView[s]
        /\ pc'[t] \in {"allocate", "existing"}
        /\ \A u \in Threads \ {t} : view'[u] = view[u] /\ pc'[u] = pc[u] /\ item'[u] = item[u]
        /\ UNCHANGED <<published_len, lockView, lenView, indexView>>
    BY DEF Lock, Acquire, Goto, TypeOK, memoryVars
  <1> HIDE DEF s
  <1>3. Published' = Published
    BY <1>2 DEF Published
  <1>4. OrderedView(view'[t], Published) /\ LinkedView(view'[t] \cup Pending(t)')
    <2>1. Pending(t) = {} /\ Pending(t)' = {} /\ \A V : V \cup {} = V
      BY <1>2 DEF Pending
    <2>2. OrderedView(view[t], Published) /\ LinkedView(view[t])
      BY <2>1 DEF OrderInv
    <2>3. OrderedView(lockView[s], Published) /\ LinkedView(lockView[s])
      BY <1>1 DEF OrderInv
    <2> QED BY <1>2, <2>1, <2>2, <2>3, OrderedUnion, LinkedUnion
  <1>5. \A u \in Threads \ {t} :
          OrderedView(view'[u], Published) /\ LinkedView(view'[u] \cup Pending(u)')
    BY <1>2 DEF OrderInv, Pending
  <1> QED BY <1>2, <1>3, <1>4, <1>5, OrderFrame

(* Writing the entry and the counters publishes nothing. *)
LEMMA OrderAllocate ==
  ASSUME InductiveInv, OrderInv, NEW t \in Threads, Allocate(t)
  PROVE  OrderInv'
  <1> USE DEF InductiveInv
  <1>1. PICK W \in SUBSET Writes :
          /\ view'[t] = view[t] \cup W
          /\ \A w \in W : w[1] \in {"entry", "slots"}
    <2> DEFINE s == ShardLocked(t)
               c == NextSlot(s)[2]
               o == NextSlot(s)[3]
               W == {EntryWrite(s, c, o)} \cup (IF chunks[s] <= c THEN {SlotsWrite(s, c)} ELSE {})
    <2>1. pc[t] = "allocate" /\ s \in Shards /\ c \in ChunkIds
      BY RequestFacts DEF Allocate, LockInv, Registering, ShardLocked
    <2>2. o \in Offsets
      <3>1. len[s] \in Nat
        BY <2>1 DEF TypeOK
      <3>2. len[s] % ChunkSize \in Offsets
        BY <3>1, ConstantFacts DEF Offsets
      <3> QED BY <3>2 DEF NextSlot
    <2>3. view'[t] = view[t] \cup W
      BY DEF Allocate, TypeOK
    <2> HIDE DEF s, c, o
    <2>4. W \in SUBSET Writes
      BY <2>1, <2>2, WriteFacts
    <2>5. \A w \in W : w[1] \in {"entry", "slots"}
      BY DEF EntryWrite, SlotsWrite
    <2> QED BY <2>3, <2>4, <2>5
  <1>2. /\ pc[t] = "allocate" /\ pc'[t] = "publish"
        /\ \A u \in Threads \ {t} : view'[u] = view[u] /\ pc'[u] = pc[u] /\ item'[u] = item[u]
        /\ UNCHANGED <<published_len, lockView, lenView, indexView>>
    BY DEF Allocate, Goto, TypeOK
  <1>3. Published' = Published
    BY <1>2 DEF Published
  <1>4. OrderedView(view'[t], Published) /\ KnownSlots(view'[t]) = KnownSlots(view[t])
    <2>1. \A s \in Shards, c \in ChunkIds :
            IndexStore(s, c) \notin W /\ \A o \in Offsets : LenStore(s, c, o) \notin W
      BY <1>1 DEF IndexStore, LenStore
    <2>2. OrderedView(view[t], Published)
      BY DEF OrderInv
    <2>3. /\ OrderedView(view[t] \cup W, Published)
          /\ KnownSlots(view[t] \cup W) = KnownSlots(view[t])
      BY <2>1, <2>2, OrderedOther
    <2> QED BY <1>1, <2>3
  <1>5. LinkedView(view'[t] \cup Pending(t)')
    <2>1. Pending(t) = {} /\ Pending(t)' = {} /\ \A V : V \cup {} = V
      BY <1>2 DEF Pending
    <2> QED BY <1>1, <1>4, <2>1 DEF OrderInv, LinkedView
  <1>6. \A u \in Threads \ {t} :
          OrderedView(view'[u], Published) /\ LinkedView(view'[u] \cup Pending(u)')
    BY <1>2 DEF OrderInv, Pending
  <1> QED BY <1>2, <1>3, <1>4, <1>5, <1>6, OrderFrame

(* A publication follows all earlier ones of its shard; unless it is the    *)
(* first of its chunk, the index reaches it already.                        *)
LEMMA OrderPublish ==
  ASSUME InductiveInv, OrderInv, IndexInv, NEW t \in Threads, Publish(t)
  PROVE  OrderInv'
  <1> DEFINE x == item[t]
             s == x[1]
             c == x[2]
             o == x[3]
             w == LenStore(s, c, o)
             i == IndexStore(s, c)
             V == view[t] \cup {w}
  <1> USE DEF InductiveInv
  <1>1. /\ pc[t] = "publish" /\ x \in Slots /\ s = ShardLocked(t)
        /\ x = NextSlot(s) /\ x \notin Published /\ Published' = Published \cup {x}
    BY PublishAdds DEF Publish, SlotInv
  <1>2. /\ view' = [view EXCEPT ![t] = @ \cup {w}]
        /\ lenView' = [lenView EXCEPT ![x] = view[t] \cup {w}]
        /\ pc' = [pc EXCEPT ![t] = IF fresh[t] THEN "index" ELSE "insert"]
        /\ UNCHANGED <<item, lockView, indexView>>
    BY DEF Publish, Released, Acquire, Goto, AfterPublish, callVars
  <1>3. /\ s \in Shards /\ c \in ChunkIds /\ o \in Offsets /\ c \in Nat /\ o \in Nat
        /\ x = <<s, c, o>>
    BY <1>1, SlotNumbers
  <1>4. KnownSlots(V) = KnownSlots(view[t]) \cup {x}
    <2>1. KnownSlots({w}) = {x}
      BY <1>1, KnownLen
    <2>2. KnownSlots(V) = KnownSlots(view[t]) \cup KnownSlots({w})
      BY KnownUnion
    <2> QED BY <2>1, <2>2
  <1>5. Pending(t) = {} /\ (fresh[t] => Pending(t)' = {i}) /\ Pending(t)' \subseteq {i}
    BY <1>1, <1>2 DEF Pending, TypeOK
  <1>6. OrderedView(view[t], Published) /\ LinkedView(view[t])
    <2>1. \A Z : Z \cup {} = Z
      OBVIOUS
    <2> QED BY <1>5, <2>1 DEF OrderInv
  <1>7. ASSUME NEW a \in Slots, Before(a, x)
        PROVE  a \in KnownSlots(view[t])
    <2>1. a \in Published
      BY <1>1, <1>7, PublishedBefore
    <2>2. a[1] = s /\ mutex[s] = t
      BY <1>1, <1>7 DEF Before, LockInv, Registering
    <2>3. OwnerView(s) = view[t]
      BY <2>2, ConstantFacts DEF OwnerView
    <2>4. a \in KnownSlots(OwnerView(a[1]))
      BY <2>1, OwnerKnows
    <2> QED BY <2>2, <2>3, <2>4
  <1>8. o = 0 \/ i \in view[t]
    <2> SUFFICES ASSUME o # 0 PROVE i \in view[t]
      OBVIOUS
    <2>1. o - 1 \in Offsets /\ o - 1 < o
      BY <1>3, ConstantFacts DEF Offsets
    <2>2. <<s, c, o - 1>> \in Slots
      BY <1>3, <2>1 DEF Slots
    <2>3. Before(<<s, c, o - 1>>, x)
      BY <1>3, <2>1, BeforeFacts
    <2>4. <<s, c, o - 1>> \in KnownSlots(view[t])
      BY <1>7, <2>2, <2>3
    <2> QED BY <1>6, <2>4 DEF LinkedView
  <1>9. o = 0 => fresh[t]
    BY <1>1 DEF IndexInv
  <1>10. OrderedView(V, Published')
    <2>1. \A d \in Shards, b \in ChunkIds : IndexStore(d, b) \in V => IndexStore(d, b) \in view[t]
      BY DEF IndexStore, LenStore
    <2> HIDE DEF x, V
    <2> QED BY <1>1, <1>4, <1>6, <1>7, <2>1 DEF OrderedView
  <1>11. LinkedView(V \cup {i}) /\ (i \in view[t] => LinkedView(V))
    <2>1. KnownSlots(V \cup {i}) = KnownSlots(V)
      <3>1. KnownSlots({i}) = {}
        BY KnownIndex
      <3>2. KnownSlots(V \cup {i}) = KnownSlots(V) \cup KnownSlots({i})
        BY KnownUnion
      <3> QED BY <3>1, <3>2
    <2> HIDE DEF x
    <2> QED BY <1>4, <1>6, <2>1 DEF LinkedView
  <1>12. view'[t] = V /\ \A u \in Threads \ {t} :
            view'[u] = view[u] /\ pc'[u] = pc[u] /\ item'[u] = item[u]
    BY <1>2 DEF TypeOK
  <1>13. /\ lenView'[x] = V
         /\ \A y \in Slots \ {x} : lenView'[y] = lenView[y]
    BY <1>1, <1>2 DEF TypeOK
  <1>14. LinkedView(view'[t] \cup Pending(t)')
    <2>1. CASE fresh[t]
      BY <1>5, <1>11, <1>12, <2>1
    <2>2. CASE ~ fresh[t]
      <3>1. i \in V /\ V \cup Pending(t)' = V
        BY <1>5, <1>8, <1>9, <2>2
      <3> QED BY <1>8, <1>9, <1>11, <1>12, <2>2, <3>1
    <2> QED BY <2>1, <2>2
  <1> HIDE DEF V, x
  <1>15. \A u \in Threads :
           OrderedView(view'[u], Published') /\ LinkedView(view'[u] \cup Pending(u)')
    <2> TAKE u \in Threads
    <2>1. CASE u = t
      BY <1>10, <1>12, <1>14, <2>1
    <2>2. CASE u # t
      <3>1. Pending(u)' = Pending(u) /\ view'[u] = view[u]
        BY <1>12, <2>2 DEF Pending
      <3>2. OrderedView(view[u], Published) /\ LinkedView(view[u] \cup Pending(u))
        BY DEF OrderInv
      <3> QED BY <1>1, <3>1, <3>2, OrderedMore
    <2> QED BY <2>1, <2>2
  <1>16. \A y \in Slots :
           /\ OrderedView(lenView'[y], Published')
           /\ LinkedView(lenView'[y] \cup {IndexStore(y[1], y[2])})
    <2> TAKE y \in Slots
    <2>1. CASE y = x
      BY <1>10, <1>11, <1>13, <2>1
    <2>2. CASE y # x
      <3>1. /\ OrderedView(lenView[y], Published)
            /\ LinkedView(lenView[y] \cup {IndexStore(y[1], y[2])})
        BY DEF OrderInv
      <3> QED BY <1>1, <1>13, <2>2, <3>1, OrderedMore
    <2> QED BY <2>1, <2>2
  <1>17. /\ \A y \in Shards : OrderedView(lockView[y], Published')
         /\ \A y \in Shards \X ChunkIds : OrderedView(indexView[y], Published')
    BY <1>1, OrderedMore DEF OrderInv
  <1> QED BY <1>2, <1>15, <1>16, <1>17 DEF OrderInv

(* The index store follows the publication it reaches. *)
LEMMA OrderIndex ==
  ASSUME InductiveInv, OrderInv, IndexInv, NEW t \in Threads, StoreIndex(t)
  PROVE  OrderInv'
  <1> DEFINE x == item[t]
             s == x[1]
             c == x[2]
             i == IndexStore(s, c)
             V == view[t] \cup {i}
  <1> USE DEF InductiveInv
  <1>1. /\ pc[t] = "index" /\ x \in Slots /\ x \in KnownSlots(view[t])
        /\ <<s, c>> \in Shards \X ChunkIds
    BY SlotFacts DEF StoreIndex, SlotInv, IndexInv
  <1>2. /\ indexView' = [indexView EXCEPT ![<<s, c>>] = view[t] \cup {i}]
        /\ view' = [view EXCEPT ![t] = @ \cup {i}]
        /\ pc' = [pc EXCEPT ![t] = "insert"]
        /\ UNCHANGED <<published_len, lenView, lockView, item>>
    BY DEF StoreIndex, Released, Acquire, Goto, callVars
  <1>3. Pending(t) = {i} /\ Pending(t)' = {}
    BY <1>1, <1>2 DEF Pending, TypeOK
  <1>4. OrderedView(view[t], Published) /\ LinkedView(V)
    BY <1>3 DEF OrderInv
  <1>5. KnownSlots(V) = KnownSlots(view[t])
    <2>1. KnownSlots({i}) = {}
      BY KnownIndex
    <2>2. KnownSlots(V) = KnownSlots(view[t]) \cup KnownSlots({i})
      BY KnownUnion
    <2> QED BY <2>1, <2>2
  <1>6. OrderedView(V, Published)
    <2>1. <<s, c, 0>> \in KnownSlots(view[t])
      <3>1. s \in Shards /\ c \in ChunkIds /\ x[3] \in Offsets /\ 0 <= x[3] /\ x = <<s, c, x[3]>>
        BY <1>1, SlotNumbers
      <3> QED BY <1>1, <1>4, <3>1, ConstantFacts, OrderedBelow
    <2>2. \A d \in Shards, b \in ChunkIds :
            IndexStore(d, b) \in V => IndexStore(d, b) \in view[t] \/ (d = s /\ b = c)
      BY DEF IndexStore
    <2> HIDE DEF x, V
    <2> QED BY <1>4, <1>5, <2>1, <2>2 DEF OrderedView
  <1>7. /\ view'[t] = V /\ indexView'[<<s, c>>] = V
        /\ \A u \in Threads \ {t} : view'[u] = view[u] /\ pc'[u] = pc[u] /\ item'[u] = item[u]
        /\ \A y \in (Shards \X ChunkIds) \ {<<s, c>>} : indexView'[y] = indexView[y]
    BY <1>1, <1>2 DEF TypeOK
  <1> HIDE DEF V, x
  <1>8. Published' = Published
    BY <1>2 DEF Published
  <1>9. \A u \in Threads :
          OrderedView(view'[u], Published) /\ LinkedView(view'[u] \cup Pending(u)')
    <2> TAKE u \in Threads
    <2>1. CASE u = t
      <3>1. V \cup {} = V
        OBVIOUS
      <3> QED BY <1>3, <1>4, <1>6, <1>7, <2>1, <3>1
    <2>2. CASE u # t
      BY <1>7, <2>2 DEF Pending, OrderInv
    <2> QED BY <2>1, <2>2
  <1>10. \A y \in Shards \X ChunkIds :
           OrderedView(indexView'[y], Published) /\ LinkedView(indexView'[y])
    BY <1>4, <1>6, <1>7 DEF OrderInv
  <1> QED BY <1>2, <1>8, <1>9, <1>10 DEF OrderInv

(* The unlock passes the view of the registration on. *)
LEMMA OrderReturn ==
  ASSUME InductiveInv, OrderInv, NEW t \in Threads, ReturnExisting(t) \/ ReturnInserted(t)
  PROVE  OrderInv'
  <1> DEFINE s == ShardLocked(t)
  <1> USE DEF InductiveInv
  <1>1. Return(t) /\ pc[t] \in {"existing", "insert"}
    BY DEF ReturnExisting, ReturnInserted
  <1>2. s \in Shards
    BY <1>1, RequestFacts DEF LockInv, Registering, ShardLocked
  <1>3. /\ lockView' = [lockView EXCEPT ![s] = view[t]]
        /\ pc' = [pc EXCEPT ![t] = "idle"]
        /\ item' = [item EXCEPT ![t] = None]
        /\ UNCHANGED <<published_len, lenView, indexView, view>>
    BY <1>1 DEF Return, Goto, memoryVars
  <1> HIDE DEF s
  <1>4. /\ \A u \in Threads : Pending(u)' = Pending(u)
        /\ Pending(t) = {}
    BY <1>1, <1>3 DEF Pending, TypeOK
  <1>5. Published' = Published
    BY <1>3 DEF Published
  <1>6. OrderedView(view[t], Published) /\ LinkedView(view[t])
    <2>1. view[t] \cup {} = view[t]
      OBVIOUS
    <2> QED BY <1>4, <2>1 DEF OrderInv
  <1>7. \A y \in Shards : OrderedView(lockView'[y], Published) /\ LinkedView(lockView'[y])
    BY <1>2, <1>3, <1>6 DEF OrderInv, TypeOK
  <1> QED BY <1>3, <1>4, <1>5, <1>7 DEF OrderInv

----------------------------------------------------------------------------
(***************************************************************************)
(* Every action preserves IndexInv.                                        *)
(***************************************************************************)

(* Steps that add no chunk and publish nothing. *)
LEMMA IndexFrame ==
  ASSUME IndexInv, UNCHANGED <<len, chunks, published_index, indexView>>,
         \A u \in Threads : view[u] \subseteq view'[u],
         \A u \in Threads :
           pc[u] \in {"publish", "index"} \/ pc'[u] \in {"publish", "index", "insert"} =>
             /\ pc'[u] = pc[u] /\ item'[u] = item[u] /\ fresh'[u] = fresh[u]
             /\ ShardLocked(u)' = ShardLocked(u)
  PROVE  IndexInv'
  <1>1. \A u \in Threads, s \in Shards : Adding(u, s)' <=> Adding(u, s)
    BY DEF Adding
  <1>2. \A u \in Threads : KnownSlots(view[u]) \subseteq KnownSlots(view'[u])
    BY KnownGrows
  <1>3. ASSUME NEW s \in Shards PROVE IndexInv!1!(s)'
    BY <1>1 DEF IndexInv
  <1>4. ASSUME NEW u \in Threads PROVE IndexInv!2!(u)'
    <2>1. \A s \in Shards : Adding(u, s)' => pc[u] \in {"publish", "index"} /\ Adding(u, s)
      BY <1>1 DEF Adding
    <2> QED BY <1>2, <2>1 DEF IndexInv
  <1> QED BY <1>3, <1>4 DEF IndexInv

(* A chunk is added exactly when the next entry starts one. *)
LEMMA IndexAllocate ==
  ASSUME InductiveInv, IndexInv, NEW t \in Threads, Allocate(t)
  PROVE  IndexInv'
  <1> DEFINE s == ShardLocked(t)
             c == len[s] \div ChunkSize
             o == len[s] % ChunkSize
             isNew == chunks[s] <= c
  <1> USE DEF InductiveInv
  <1>1. pc[t] = "allocate" /\ pc[t] \in Registering /\ s \in Shards
    BY CallFacts DEF Allocate, Registering
  <1>2. /\ NextSlot(s) = <<s, c, o>> /\ NextSlot(s)[2] = c
        /\ c \in Nat /\ o \in Nat
    BY <1>1, LengthFacts DEF NextSlot
  <1>3. /\ chunks' = [chunks EXCEPT ![s] = IF isNew THEN @ + 1 ELSE @]
        /\ fresh' = [fresh EXCEPT ![t] = isNew]
        /\ item' = [item EXCEPT ![t] = <<s, c, o>>]
        /\ pc' = [pc EXCEPT ![t] = "publish"]
        /\ UNCHANGED <<len, published_index, indexView, req>>
        /\ view[t] \subseteq view'[t]
        /\ \A u \in Threads \ {t} : view'[u] = view[u]
    BY <1>2 DEF Allocate, Goto, TypeOK
  <1>4. \A u \in Threads : pc[u] \in {"publish", "index"} => u # t /\ ShardLocked(u) # s
    BY <1>1, OneRegistration DEF Registering
  <1>5. /\ chunks[s] \in Nat /\ c <= chunks[s] /\ chunks[s] <= c + 1
        /\ o # 0 => chunks[s] = c + 1
        /\ published_index[s] = chunks[s]
        /\ o = 0 => chunks[s] <= c
    <2>1. ~ \E u \in Threads : Adding(u, s)
      BY <1>4 DEF Adding
    <2>2. chunks[s] \in Nat
      BY <1>1, ConstantFacts DEF TypeOK
    <2>3. ~ \E u \in Threads : pc[u] = "publish" /\ ShardLocked(u) = s
      BY <1>4
    <2> QED BY <1>1, <2>1, <2>2, <2>3 DEF IndexInv, ChunkInv
  <1> HIDE DEF c, o
  <1>6. /\ chunks'[s] = c + 1
        /\ isNew => chunks[s] = c
        /\ ~ isNew => chunks[s] = c + 1
        /\ isNew <=> o = 0
        /\ \A y \in Shards \ {s} : chunks'[y] = chunks[y]
    <2>1. /\ isNew => chunks[s] = c
          /\ ~ isNew => chunks[s] = c + 1
          /\ isNew <=> o = 0
      BY <1>2, <1>5
    <2> QED BY <1>1, <1>2, <1>3, <2>1 DEF TypeOK
  <1>7. /\ pc'[t] = "publish" /\ item'[t] = <<s, c, o>> /\ fresh'[t] = isNew
        /\ \A u \in Threads \ {t} : pc'[u] = pc[u] /\ item'[u] = item[u] /\ fresh'[u] = fresh[u]
        /\ \A u \in Threads : ShardLocked(u)' = ShardLocked(u)
    BY <1>3 DEF TypeOK, ShardLocked
  <1> HIDE DEF isNew
  <1>8. /\ \A u \in Threads \ {t}, y \in Shards : Adding(u, y)' <=> Adding(u, y)
        /\ \A y \in Shards : Adding(t, y)' <=> (y = s /\ isNew)
        /\ \A y \in Shards : ~ Adding(t, y)
        /\ \A u \in Threads : ~ Adding(u, s)
    BY <1>1, <1>4, <1>7 DEF Adding
  <1>9. ASSUME NEW y \in Shards PROVE IndexInv!1!(y)'
    <2>1. CASE y = s
      <3>1. len'[y] \div ChunkSize <= chunks'[y]
        BY <1>2, <1>3, <1>6, <2>1 DEF c
      <3>2. len'[y] % ChunkSize # 0 => chunks'[y] = (len'[y] \div ChunkSize) + 1
        BY <1>3, <1>6, <2>1 DEF c
      <3>3. published_index'[y] = chunks'[y] \/ \E u \in Threads : Adding(u, y)'
        BY <1>1, <1>3, <1>5, <1>6, <1>8, <2>1
      <3> QED BY <1>1, <1>3, <2>1, <3>1, <3>2, <3>3 DEF IndexInv
    <2>2. CASE y # s
      BY <1>3, <1>6, <1>8, <2>2 DEF IndexInv
    <2> QED BY <2>1, <2>2
  <1>10. ASSUME NEW u \in Threads PROVE IndexInv!2!(u)'
    <2>1. CASE u = t
      <3>1. item'[t][1] = s /\ item'[t][2] = c /\ item'[t][3] = o
        BY <1>7
      <3>2. \A y \in Shards : Adding(t, y)' => published_index'[y] = item'[t][2]
        BY <1>3, <1>5, <1>6, <1>8, <3>1
      <3> QED BY <1>1, <1>6, <1>7, <2>1, <3>1, <3>2
    <2>2. CASE u # t
      <3>1. pc[u] \in {"publish", "index"} => item[u][1] \in Shards \ {s}
        BY <1>4, <1>8, SlotFacts DEF IndexInv, SlotInv
      <3>2. KnownSlots(view'[u]) = KnownSlots(view[u])
        BY <1>3, <2>2
      <3> QED BY <1>3, <1>6, <1>7, <1>8, <2>2, <3>1, <3>2 DEF IndexInv
    <2> QED BY <2>1, <2>2
  <1> QED BY <1>9, <1>10 DEF IndexInv

(* The length grows within the chunks the shard has. *)
LEMMA IndexPublish ==
  ASSUME InductiveInv, IndexInv, NEW t \in Threads, Publish(t)
  PROVE  IndexInv'
  <1> DEFINE s == ShardLocked(t)
             c == len[s] \div ChunkSize
             o == len[s] % ChunkSize
  <1> USE DEF InductiveInv
  <1>1. /\ pc[t] = "publish" /\ pc[t] \in Registering /\ s \in Shards
    BY CallFacts DEF Publish, Registering
  <1>2. /\ item[t] = <<s, c, o>> /\ item[t] \in Slots
        /\ item[t][1] = s /\ item[t][2] = c /\ item[t][3] = o
        /\ c \in Nat /\ o \in Nat /\ len[s] \in Nat
        /\ chunks[s] = c + 1
    BY <1>1, LengthFacts DEF SlotInv, NextSlot, IndexInv
  <1>3. /\ len' = [len EXCEPT ![s] = @ + 1]
        /\ view' = [view EXCEPT ![t] = @ \cup {LenStore(s, c, o)}]
        /\ pc' = [pc EXCEPT ![t] = IF fresh[t] THEN "index" ELSE "insert"]
        /\ UNCHANGED <<chunks, published_index, indexView, callVars>>
    BY <1>2 DEF Publish, Acquire, Goto, AfterPublish
  <1>4. len'[s] = len[s] + 1 /\ \A y \in Shards \ {s} : len'[y] = len[y]
    BY <1>1, <1>3 DEF TypeOK
  <1>5. /\ len'[s] \div ChunkSize <= chunks[s]
        /\ len'[s] % ChunkSize # 0 => chunks[s] = (len'[s] \div ChunkSize) + 1
    <2>1. /\ o = ChunkSize - 1 => (len[s] + 1) \div ChunkSize = c + 1 /\ (len[s] + 1) % ChunkSize = 0
          /\ o # ChunkSize - 1 => (len[s] + 1) \div ChunkSize = c
      BY <1>2, ConstantFacts, NextPositionArith
    <2> HIDE DEF c, o
    <2> QED BY <1>2, <1>4, <2>1
  <1> HIDE DEF c, o
  <1>6. /\ pc'[t] = IF fresh[t] THEN "index" ELSE "insert"
        /\ view'[t] = view[t] \cup {LenStore(s, c, o)}
        /\ \A u \in Threads \ {t} : pc'[u] = pc[u] /\ view'[u] = view[u]
        /\ \A u \in Threads : ShardLocked(u)' = ShardLocked(u)
        /\ UNCHANGED <<item, fresh>>
    BY <1>3 DEF TypeOK, ShardLocked, callVars
  <1>7. \A u \in Threads, y \in Shards : Adding(u, y)' <=> Adding(u, y)
    BY <1>1, <1>6 DEF Adding
  <1>8. ASSUME NEW y \in Shards PROVE IndexInv!1!(y)'
    <2>1. CASE y = s
      BY <1>1, <1>3, <1>5, <1>7, <2>1 DEF IndexInv
    <2>2. CASE y # s
      BY <1>3, <1>4, <1>7, <2>2 DEF IndexInv
    <2> QED BY <2>1, <2>2
  <1>9. ASSUME NEW u \in Threads PROVE IndexInv!2!(u)'
    <2>1. CASE u = t
      <3>1. item[t] \in KnownSlots(view'[t])
        BY <1>2, <1>6 DEF KnownSlots
      <3> QED BY <1>1, <1>3, <1>6, <1>7, <2>1, <3>1 DEF IndexInv
    <2>2. CASE u # t
      BY <1>3, <1>6, <1>7, <2>2 DEF IndexInv
    <2> QED BY <2>1, <2>2
  <1> QED BY <1>8, <1>9 DEF IndexInv

(* The stored index reaches the chunk that was added, and no further. *)
LEMMA IndexStoreIndex ==
  ASSUME InductiveInv, IndexInv, NEW t \in Threads, StoreIndex(t)
  PROVE  IndexInv'
  <1> DEFINE s == item[t][1]
             c == item[t][2]
             i == IndexStore(s, c)
  <1> USE DEF InductiveInv
  <1>1. /\ pc[t] = "index" /\ pc[t] \in Registering /\ s \in Shards /\ s = ShardLocked(t)
        /\ c \in ChunkIds /\ <<s, c>> \in Shards \X ChunkIds
        /\ chunks[s] = c + 1
    BY SlotFacts DEF StoreIndex, Registering, SlotInv, IndexInv
  <1>2. c \in Nat
    BY <1>1, ConstantFacts DEF ChunkIds
  <1>3. /\ published_index' = [published_index EXCEPT ![s] = chunks[s]]
        /\ indexView' = [indexView EXCEPT ![<<s, c>>] = view[t] \cup {i}]
        /\ view' = [view EXCEPT ![t] = @ \cup {i}]
        /\ pc' = [pc EXCEPT ![t] = "insert"]
        /\ UNCHANGED <<len, chunks, callVars>>
    BY DEF StoreIndex, Released, Acquire, Goto, shardVars
  <1>4. published_index[s] = c
    <2>1. Adding(t, s)
      BY <1>1 DEF Adding
    <2> QED BY <1>1, <2>1 DEF IndexInv
  <1> HIDE DEF s, c, i
  <1>5. /\ pc'[t] = "insert"
        /\ \A u \in Threads \ {t} : pc'[u] = pc[u] /\ view'[u] = view[u]
        /\ view[t] \subseteq view'[t]
        /\ \A u \in Threads : ShardLocked(u)' = ShardLocked(u)
        /\ UNCHANGED <<item, fresh>>
    BY <1>3 DEF TypeOK, ShardLocked, callVars
  <1>6. /\ published_index'[s] = chunks[s]
        /\ \A y \in Shards \ {s} : published_index'[y] = published_index[y]
        /\ i \in indexView'[<<s, c>>]
        /\ \A z \in (Shards \X ChunkIds) \ {<<s, c>>} : indexView'[z] = indexView[z]
    BY <1>1, <1>3 DEF TypeOK
  <1>7. /\ \A u \in Threads \ {t}, y \in Shards : Adding(u, y)' <=> Adding(u, y)
        /\ \A y \in Shards : ~ Adding(t, y)'
        /\ \A u \in Threads \ {t} : ~ Adding(u, s)
        /\ \A y \in Shards \ {s} : ~ Adding(t, y)
    BY <1>1, <1>5, OneRegistration DEF Adding, Registering
  <1>8. ASSUME NEW y \in Shards PROVE IndexInv!1!(y)'
    <2>1. CASE y = s
      <3>1. ASSUME NEW d \in ChunkIds, d < published_index'[s]
            PROVE  IndexStore(s, d) \in indexView'[<<s, d>>]
        <4>1. d \in Nat /\ (d = c \/ d < c)
          BY <1>1, <1>2, <1>6, <3>1, ConstantFacts DEF ChunkIds
        <4>2. CASE d = c
          BY <1>6, <4>2 DEF i
        <4>3. CASE d # c
          BY <1>1, <1>4, <1>6, <4>1, <4>3 DEF IndexInv
        <4> QED BY <4>2, <4>3
      <3> QED BY <1>1, <1>3, <1>6, <2>1, <3>1 DEF IndexInv
    <2>2. CASE y # s
      <3>1. \A d \in ChunkIds : indexView'[<<y, d>>] = indexView[<<y, d>>]
        BY <1>6, <2>2
      <3>2. (\E u \in Threads : Adding(u, y)) => \E u \in Threads : Adding(u, y)'
        BY <1>7, <2>2
      <3> QED BY <1>3, <1>6, <2>2, <3>1, <3>2 DEF IndexInv
    <2> QED BY <2>1, <2>2
  <1>9. ASSUME NEW u \in Threads PROVE IndexInv!2!(u)'
    <2>1. CASE u = t
      <3>1. item[t] \in KnownSlots(view'[t])
        BY <1>1, <1>5, KnownGrows DEF IndexInv
      <3> QED BY <1>5, <1>7, <2>1, <3>1
    <2>2. CASE u # t
      <3>1. \A y \in Shards : Adding(u, y)' => published_index'[y] = item[u][2]
        BY <1>6, <1>7, <2>2 DEF IndexInv
      <3> QED BY <1>3, <1>5, <2>2, <3>1 DEF IndexInv
    <2> QED BY <2>1, <2>2
  <1> QED BY <1>8, <1>9 DEF IndexInv

----------------------------------------------------------------------------
(***************************************************************************)
(* The position of a traversal.                                            *)
(***************************************************************************)

(* Where a traversal goes when it leaves the chunk `cur` stands on. *)
Leaves(cur, label, nxt) ==
  /\ nxt.op = cur.op
  /\ \/ /\ label = "load_len" /\ cur.chunk + 1 < cur.chunks
        /\ nxt.shard = cur.shard /\ nxt.chunk = cur.chunk + 1 /\ nxt.chunks = cur.chunks
     \/ /\ label = "load_index" /\ ~ (cur.chunk + 1 < cur.chunks)
        /\ nxt.shard = cur.shard + 1 /\ nxt.chunk = 0 /\ nxt.chunks = 0
     \/ /\ label = "walked" /\ ~ (cur.chunk + 1 < cur.chunks)
        /\ cur.shard = NumShards /\ nxt = cur

(* NextPosition moves the thread's own cursor there. *)
LEMMA NextPositionLeaves ==
  ASSUME TypeOK, NEW t \in Threads, NextPosition(t, cursor[t])
  PROVE  Leaves(cursor[t], pc'[t], cursor'[t])
  <1>1. cursor[t] \in Cursors /\ cursor \in [Threads -> Cursors] /\ pc \in [Threads -> Labels]
    BY DEF TypeOK
  <1> DEFINE cur == cursor[t]
  <1>2. CASE cur.chunk + 1 < cur.chunks
    <2> DEFINE nxt == [cur EXCEPT !.chunk = @ + 1, !.len = 0, !.offset = 0]
    <2>1. /\ nxt.op = cur.op /\ nxt.shard = cur.shard
          /\ nxt.chunk = cur.chunk + 1 /\ nxt.chunks = cur.chunks
      BY <1>1 DEF Cursors
    <2>2. cursor' = [cursor EXCEPT ![t] = nxt] /\ pc' = [pc EXCEPT ![t] = "load_len"]
      BY <1>2 DEF NextPosition, Goto
    <2> HIDE DEF nxt
    <2> QED BY <1>1, <1>2, <2>1, <2>2 DEF Leaves
  <1>3. CASE ~(cur.chunk + 1 < cur.chunks) /\ cur.shard < NumShards
    <2> DEFINE nxt == [StartCursor(cur.op) EXCEPT !.shard = cur.shard + 1]
    <2>1. nxt.op = cur.op /\ nxt.shard = cur.shard + 1 /\ nxt.chunk = 0 /\ nxt.chunks = 0
      BY DEF StartCursor
    <2>2. cursor' = [cursor EXCEPT ![t] = nxt] /\ pc' = [pc EXCEPT ![t] = "load_index"]
      BY <1>3 DEF NextPosition, Goto
    <2> HIDE DEF nxt
    <2> QED BY <1>1, <1>3, <2>1, <2>2 DEF Leaves
  <1>4. CASE ~(cur.chunk + 1 < cur.chunks) /\ ~(cur.shard < NumShards)
    <2>1. cur.shard = NumShards
      BY <1>1, <1>4, ConstantFacts DEF Cursors, Shards
    <2>2. cursor'[t] = cur /\ pc'[t] = "walked"
      BY <1>1, <1>4 DEF NextPosition, Goto
    <2> QED BY <1>4, <2>1, <2>2 DEF Leaves
  <1> QED BY <1>2, <1>3, <1>4

(* A traversal whose view grows has counted what it had counted. *)
LEMMA TourGrows ==
  ASSUME NEW C, NEW K, NEW V, NEW W, NEW label, NEW cur, V \subseteq W
  PROVE  /\ Tour(C, K, V, label, cur) => Tour(C, K, W, label, cur)
         /\ Position(K, V, label, cur) => Position(K, W, label, cur)
  <1>1. KnownSlots(V) \subseteq KnownSlots(W)
    BY KnownGrows
  <1>2. Tour(C, K, V, label, cur) => Tour(C, K, W, label, cur)
    BY <1>1 DEF Tour
  <1>3. Position(K, V, label, cur) => Position(K, W, label, cur)
    BY <1>1 DEF Position
  <1> QED BY <1>2, <1>3

(* A traversal that has counted the first n entries of a chunk, which are   *)
(* all of the chunk unless it is the last, may leave it.                    *)
LEMMA TourLeave ==
  ASSUME NEW cur \in Cursors, NEW label, NEW nxt, Leaves(cur, label, nxt),
         NEW n \in 0..ChunkSize, NEW C \in SUBSET Slots, NEW K \in SUBSET Slots, NEW V,
         C \subseteq KnownSlots(V), K \subseteq KnownSlots(V),
         \A x \in C : x[1] < cur.shard \/ (x[1] = cur.shard /\ x[2] <= cur.chunk),
         \A x \in K : x[1] < cur.shard => x \in C,
         \A x \in K : x[1] = cur.shard => x[2] < cur.chunks,
         \A x \in K : x[1] = cur.shard /\ x[2] = cur.chunk => x[3] < n,
         \A x \in Slots :
           x[1] = cur.shard /\ (x[2] < cur.chunk \/ (x[2] = cur.chunk /\ x[3] < n)) => x \in C,
         cur.chunk + 1 < cur.chunks =>
           n = ChunkSize /\ <<cur.shard, cur.chunks - 1, 0>> \in KnownSlots(V),
         \A a \in Slots, b \in C : Before(a, b) => a \in C
  PROVE  Tour(C, K, V, label, nxt) /\ Position(K, V, label, nxt)
  <1> DEFINE s == cur.shard
             c == cur.chunk
             k == cur.chunks
  <1>1. /\ s \in Nat /\ c \in Nat /\ k \in Nat /\ s \in 1..NumShards
    BY ConstantFacts DEF Cursors, Shards, ChunkIds
  <1>2. \A x \in Slots :
          /\ x[1] \in Nat /\ x[2] \in Nat /\ x[3] \in Nat /\ x[3] < ChunkSize
          /\ x[1] \in 1..NumShards
    BY SlotNumbers DEF Shards
  <1>3. CASE label = "load_len"
    <2>1. /\ c + 1 < k /\ nxt.shard = s /\ nxt.chunk = c + 1 /\ nxt.chunks = k
          /\ n = ChunkSize /\ <<s, k - 1, 0>> \in KnownSlots(V)
      BY <1>3 DEF Leaves
    <2>2. \A x \in Slots : x \in Passed(label, nxt) <=> x[1] < s \/ (x[1] = s /\ x[2] < c + 1)
      BY <1>3, <2>1 DEF Passed
    <2>3. \A x \in Slots : x[2] < c + 1 <=> x[2] < c \/ x[2] = c
      BY <1>1, <1>2
    <2>4. C \subseteq Passed(label, nxt)
      BY <1>1, <1>2, <2>2
    <2>5. \A x \in Passed(label, nxt) : x[1] = s => x \in C
      <3> TAKE x \in Passed(label, nxt)
      <3>1. x \in Slots
        BY DEF Passed
      <3> QED BY <1>1, <1>2, <2>1, <2>2, <2>3, <3>1
    <2>6. K \cap Passed(label, nxt) \subseteq C
      BY <2>2, <2>5
    <2>7. Tour(C, K, V, label, nxt)
      BY <1>3, <2>1, <2>4, <2>5, <2>6 DEF Tour
    <2>8. Position(K, V, label, nxt)
      BY <1>3, <2>1 DEF Position
    <2> QED BY <2>7, <2>8
  <1>4. ASSUME label \in {"load_index", "walked"}
        PROVE  Tour(C, K, V, label, nxt) /\ Position(K, V, label, nxt)
    <2>1. ~ (c + 1 < k)
      BY <1>4 DEF Leaves
    <2>2. K \subseteq C \cup {x \in Slots : x[1] > s}
      <3> SUFFICES ASSUME NEW x \in K, ~ (x[1] > s) PROVE x \in C
        OBVIOUS
      <3>1. CASE x[1] < s
        BY <3>1
      <3>2. CASE x[1] = s
        <4>1. x[2] < k /\ (x[2] = c => x[3] < n)
          BY <3>2
        <4>2. x[2] < c \/ x[2] = c
          BY <1>1, <1>2, <2>1, <4>1
        <4> QED BY <3>2, <4>1, <4>2
      <3> QED BY <1>1, <1>2, <3>1, <3>2
    <2>3. \A x \in Slots : x \in Passed(label, nxt) <=> x[1] <= s
      <3>1. CASE label = "load_index"
        <4>1. nxt.shard = s + 1
          BY <3>1 DEF Leaves
        <4>2. \A x \in Slots : x \in Passed(label, nxt) <=> x[1] < s + 1
          BY <3>1, <4>1 DEF Passed
        <4> QED BY <1>1, <1>2, <4>2
      <3>2. CASE label = "walked"
        <4>1. s = NumShards
          BY <3>2 DEF Leaves
        <4> QED BY <1>1, <1>2, <3>2, <4>1 DEF Passed
      <3> QED BY <1>4, <3>1, <3>2
    <2>4. C \subseteq Passed(label, nxt)
      BY <1>1, <1>2, <2>3
    <2>5. K \cap Passed(label, nxt) \subseteq C
      BY <1>1, <1>2, <2>2, <2>3
    <2>6. label # "walked" => \A x \in Passed(label, nxt) : x[1] # nxt.shard
      <3> SUFFICES ASSUME label = "load_index", NEW x \in Passed(label, nxt) PROVE x[1] # nxt.shard
        BY <1>4
      <3>1. nxt.shard = s + 1
        BY DEF Leaves
      <3>2. x \in Slots
        BY DEF Passed
      <3> QED BY <1>1, <1>2, <2>3, <3>1, <3>2
    <2>7. Tour(C, K, V, label, nxt)
      BY <2>4, <2>5, <2>6 DEF Tour
    <2>8. Position(K, V, label, nxt)
      BY <1>4 DEF Position, Leaves
    <2> QED BY <2>7, <2>8
  <1>5. label \in {"load_len", "load_index", "walked"}
    BY DEF Leaves
  <1> QED BY <1>3, <1>4, <1>5

----------------------------------------------------------------------------
(***************************************************************************)
(* Every action preserves TourInv.                                         *)
(***************************************************************************)

(* What TourInv says of one thread. *)
Touring(t) == TourInv!(t)

(* A thread whose traversal does not move keeps it while views grow. *)
LEMMA TourSame ==
  ASSUME NEW u \in Threads, Touring(u), view[u] \subseteq view'[u],
         pc'[u] = pc[u]
           \/ (pc[u] \notin Walking \cup {"walked"} /\ pc'[u] \notin Walking \cup {"walked"}),
         cursor'[u] = cursor[u], known'[u] = known[u], seen'[u] = seen[u], total'[u] = total[u]
  PROVE  Touring(u)'
  <1>1. Visited(u)' = Visited(u)
    BY DEF Visited
  <1>2. ASSUME pc'[u] \in Walking \cup {"walked"}
        PROVE  /\ Position(known'[u], view'[u], pc'[u], cursor'[u])
               /\ \E C \in SUBSET Slots : Counted(u, C)'
    <2>1. pc'[u] = pc[u]
      BY <1>2
    <2>2. PICK C \in SUBSET Slots : Counted(u, C)
      BY <1>2, <2>1 DEF Touring
    <2>3. Position(known[u], view[u], pc[u], cursor[u])
      BY <1>2, <2>1 DEF Touring
    <2>4. Counted(u, C)'
      BY <1>1, <2>1, <2>2, TourGrows DEF Counted
    <2>5. Position(known[u], view'[u], pc[u], cursor[u])
      BY <2>3, TourGrows
    <2> QED BY <2>1, <2>4, <2>5
  <1>3. pc'[u] \notin Walking \cup {"walked"} \/ cursor'[u].op = "len" => seen'[u] = {}
    BY DEF Touring
  <1> QED BY <1>2, <1>3 DEF Touring

(* A traversal sets out before the first slot. *)
LEMMA TourBegin ==
  ASSUME TypeOK, NEW t \in Threads, NEW op \in {"visit", "len"}, BeginWalk(t, op)
  PROVE  Touring(t)'
  <1>1. /\ pc'[t] = "load_index" /\ cursor'[t] = StartCursor(op)
        /\ known'[t] = KnownSlots(view[t]) /\ seen'[t] = {} /\ total'[t] = 0
        /\ UNCHANGED view
    BY DEF BeginWalk, Goto, TypeOK
  <1>2. /\ StartCursor(op).shard = 1 /\ StartCursor(op).chunk = 0
        /\ StartCursor(op).chunks = 0 /\ StartCursor(op).op = op
    BY DEF StartCursor
  <1>3. Passed("load_index", StartCursor(op)) = {}
    <2>1. \A x \in Slots : ~(x[1] < 1)
      <3> TAKE x \in Slots
      <3>1. x[1] \in Shards
        BY SlotFacts
      <3> QED BY <3>1, ConstantFacts DEF Shards
    <2> QED BY <1>2, <2>1 DEF Passed
  <1>4. Visited(t)' = {}
    BY <1>1 DEF Visited
  <1>5. Counted(t, {})'
    <2>1. Tour({}, KnownSlots(view[t]), view[t], "load_index", StartCursor(op))
      BY <1>3 DEF Tour
    <2> QED BY <1>1, <1>4, <2>1, FS_EmptySet DEF Counted
  <1>6. Position(known'[t], view'[t], pc'[t], cursor'[t])
    BY <1>1, <1>2 DEF Position
  <1> QED BY <1>1, <1>5, <1>6 DEF Touring

(* The index a traversal loads reaches every slot the thread knows. *)
LEMMA TourLoadIndex ==
  ASSUME InductiveInv, VisitInv, NEW t \in Threads, LoadIndex(t)
  PROVE  Touring(t)' /\ view[t] \subseteq view'[t]
  <1> DEFINE cur == cursor[t]
             s == cur.shard
             K == known[t]
  <1> USE DEF InductiveInv, VisitInv
  <1>1. PICK k \in LoadableIndex(view[t], s) : WithIndex(t, s, k)
    BY DEF LoadIndex
  <1>2. /\ pc[t] = "load_index" /\ cur \in Cursors /\ s \in Shards /\ K \subseteq Slots
        /\ UNCHANGED <<known, seen, total>>
    BY <1>1 DEF LoadIndex, WithIndex, TypeOK, Cursors
  <1>3. Touring(t)
    BY DEF TourInv, Touring
  <1>4. PICK C \in SUBSET Slots : Counted(t, C)
    BY <1>2, <1>3 DEF Touring, Walking
  <1>5. /\ cur.chunks = 0 /\ cur.chunk = 0
    BY <1>2, <1>3 DEF Touring, Walking, Position
  <1>6. Tour(C, K, view[t], "load_index", cur)
    BY <1>2, <1>4 DEF Counted
  <1>7. /\ C \subseteq KnownSlots(view[t]) /\ K \subseteq KnownSlots(view[t])
        /\ \A x \in C : x[1] < s
        /\ \A x \in K : x[1] < s => x \in C
        /\ \A a \in Slots, b \in C : Before(a, b) => a \in C
    BY <1>2, <1>6 DEF Tour, Passed
  <1>8. k \in Nat /\ k <= published_index[s] /\ k <= MaxChunks
        /\ \A c \in ChunkIds : IndexStore(s, c) \in view[t] => c < k
    <2>1. published_index[s] \in 0..MaxChunks
      BY <1>2 DEF TypeOK
    <2> QED BY <2>1, ConstantFacts DEF LoadableIndex
  <1>9. \A x \in K : x[1] = s => x[2] < k
    <2> SUFFICES ASSUME NEW x \in K, x[1] = s PROVE x[2] < k
      OBVIOUS
    <2>1. Pending(t) = {} /\ view[t] \cup {} = view[t]
      BY <1>2 DEF Pending
    <2>2. LinkedView(view[t])
      BY <2>1 DEF OrderInv
    <2>3. IndexStore(x[1], x[2]) \in view[t]
      BY <1>7, <2>2 DEF LinkedView
    <2> QED BY <1>2, <1>8, <2>3, SlotFacts
  <1>10. Visited(t)' = Visited(t)
    BY <1>2 DEF Visited
  <1>11. CASE k = 0
    <2>1. NextPosition(t, cur) /\ UNCHANGED view
      BY <1>1, <1>11 DEF WithIndex
    <2>2. Leaves(cur, pc'[t], cursor'[t])
      BY <2>1, NextPositionLeaves
    <2>3. /\ ~ (cur.chunk + 1 < cur.chunks)
          /\ \A x \in K : x[1] # s
      <3>1. \A x \in K : ~ (x[2] < 0)
        BY <1>2, SlotNumbers
      <3> QED BY <1>5, <1>9, <1>11, <3>1
    <2>4. \A x \in Slots : ~ (x[2] < cur.chunk) /\ ~ (x[3] < 0)
      BY <1>5, SlotNumbers
    <2>5. 0 \in 0..ChunkSize
      BY ConstantFacts
    <2>6. Tour(C, K, view[t], pc'[t], cursor'[t]) /\ Position(K, view[t], pc'[t], cursor'[t])
      <3> HIDE DEF cur, s, K
      <3>1. /\ \A x \in C : x[1] < cur.shard \/ (x[1] = cur.shard /\ x[2] <= cur.chunk)
            /\ \A x \in K : x[1] < cur.shard => x \in C
        BY <1>7 DEF s
      <3>2. /\ \A x \in K : x[1] = cur.shard => x[2] < cur.chunks
            /\ \A x \in K : x[1] = cur.shard /\ x[2] = cur.chunk => x[3] < 0
        BY <2>3 DEF s
      <3>3. \A x \in Slots :
              x[1] = cur.shard /\ (x[2] < cur.chunk \/ (x[2] = cur.chunk /\ x[3] < 0)) => x \in C
        BY <2>4
      <3>4. cur.chunk + 1 < cur.chunks =>
              0 = ChunkSize /\ <<cur.shard, cur.chunks - 1, 0>> \in KnownSlots(view[t])
        BY <2>3
      <3>5. cur \in Cursors /\ C \in SUBSET Slots /\ K \in SUBSET Slots
        BY <1>2
      <3> QED BY ONLY <1>7, <2>2, <2>5, <3>1, <3>2, <3>3, <3>4, <3>5, TourLeave
    <2>7. cursor'[t].op = cur.op /\ pc'[t] \in Walking \cup {"walked"}
      BY <2>2 DEF Leaves, Walking
    <2>8. Counted(t, C)'
      BY <1>2, <1>4, <1>10, <2>1, <2>6, <2>7 DEF Counted
    <2>9. Position(known'[t], view'[t], pc'[t], cursor'[t])
      BY <1>2, <2>1, <2>6
    <2> QED BY <1>2, <1>3, <2>1, <2>7, <2>8, <2>9 DEF Touring
  <1>12. CASE k # 0
    <2>1. /\ view'[t] = view[t] \cup indexView[<<s, k - 1>>]
          /\ cursor'[t] = [cur EXCEPT !.chunks = k]
          /\ pc'[t] = "load_len"
      BY <1>1, <1>12 DEF WithIndex, Acquire, Goto, TypeOK
    <2> DEFINE nxt == [cur EXCEPT !.chunks = k]
    <2>2. /\ nxt.shard = s /\ nxt.chunk = 0 /\ nxt.chunks = k /\ nxt.op = cur.op
      BY <1>2, <1>5 DEF Cursors
    <2> HIDE DEF nxt
    <2>3. k - 1 \in ChunkIds /\ k - 1 < published_index[s] /\ 0 < k
      <3>1. published_index[s] \in 0..MaxChunks
        BY <1>2 DEF TypeOK
      <3> QED BY <1>8, <1>12, <3>1, ConstantFacts DEF ChunkIds
    <2>4. <<s, k - 1, 0>> \in KnownSlots(view'[t])
      <3>1. IndexStore(s, k - 1) \in indexView[<<s, k - 1>>]
        BY <1>2, <2>3 DEF IndexInv
      <3>2. <<s, k - 1, 0>> \in KnownSlots(indexView[<<s, k - 1>>])
        BY <1>2, <2>3, <3>1 DEF OrderInv, OrderedView
      <3> QED BY <2>1, <3>2, KnownUnion
    <2>5. Passed("load_len", nxt) = Passed("load_index", cur)
      <3>1. \A x \in Slots : ~ (x[2] < 0)
        BY SlotNumbers
      <3> QED BY <2>2, <3>1 DEF Passed
    <2>6. Tour(C, K, view[t], "load_len", nxt)
      BY <1>6, <2>2, <2>5 DEF Tour
    <2>7. Tour(C, K, view'[t], "load_len", nxt)
      BY <2>1, <2>6, TourGrows
    <2>8. Position(K, view'[t], "load_len", nxt)
      BY <1>9, <2>2, <2>3, <2>4 DEF Position
    <2>9. Counted(t, C)'
      BY <1>2, <1>4, <1>10, <2>1, <2>2, <2>7 DEF Counted, nxt
    <2>10. Position(known'[t], view'[t], pc'[t], cursor'[t])
      BY <1>2, <2>1, <2>8 DEF nxt
    <2>11. cursor'[t].op = cur.op
      BY <2>1, <2>2 DEF nxt
    <2> QED BY <1>2, <1>3, <2>1, <2>9, <2>10, <2>11 DEF Touring, Walking
  <1> QED BY <1>11, <1>12

(* The first n entries of a chunk are n slots. *)
ChunkSlots(s, c, n) == {x \in Slots : x[1] = s /\ x[2] = c /\ x[3] < n}

LEMMA ChunkPrefix ==
  ASSUME NEW s \in Shards, NEW c \in ChunkIds, NEW n \in 0..ChunkSize
  PROVE  IsFiniteSet(ChunkSlots(s, c, n)) /\ Cardinality(ChunkSlots(s, c, n)) = n
  <1> DEFINE I == 0..(n - 1)
             f == [o \in I |-> <<s, c, o>>]
             T == ChunkSlots(s, c, n)
  <1>1. n \in Nat /\ \A o \in I : o \in Offsets /\ o < n
    BY ConstantFacts DEF Offsets
  <1>2. IsFiniteSet(I) /\ Cardinality(I) = n
    <2>1. 0 \in Int /\ n - 1 \in Int /\ n = IF 0 > n - 1 THEN 0 ELSE (n - 1) - 0 + 1
      BY <1>1
    <2> QED BY <2>1, FS_Interval
  <1>3. f \in [I -> T]
    BY <1>1 DEF ChunkSlots, Slots
  <1>4. \A a, b \in I : f[a] = f[b] => a = b
    OBVIOUS
  <1>5. ASSUME NEW x \in T PROVE \E o \in I : f[o] = x
    <2>1. /\ x[3] \in Nat /\ x = <<x[1], x[2], x[3]>>
          /\ x[1] = s /\ x[2] = c /\ x[3] < n
      BY SlotNumbers DEF ChunkSlots
    <2>2. x[3] \in I
      BY <1>1, <2>1
    <2> QED BY <2>1, <2>2
  <1> HIDE DEF f, T, I
  <1>6. f \in Bijection(I, T)
    BY <1>3, <1>4, <1>5, Fun_IsBij
  <1>7. IsFiniteSet(T) /\ Cardinality(T) = n
    <2>1. ExistsBijection(I, T)
      BY <1>6 DEF ExistsBijection
    <2> QED BY <1>2, <2>1, FS_Bijection
  <1> QED BY <1>7 DEF T

(* Two disjoint finite sets have the sum of their sizes. *)
LEMMA DisjointSum ==
  ASSUME NEW S, NEW T, IsFiniteSet(S), IsFiniteSet(T), S \cap T = {}
  PROVE  /\ IsFiniteSet(S \cup T)
         /\ Cardinality(S \cup T) = Cardinality(S) + Cardinality(T)
  <1>1. Cardinality(S) \in Nat /\ Cardinality(T) \in Nat
    BY FS_CardinalityType
  <1>2. Cardinality(S \cap T) = 0
    BY FS_EmptySet
  <1>3. /\ IsFiniteSet(S \cup T)
        /\ Cardinality(S \cup T) = Cardinality(S) + Cardinality(T) - Cardinality(S \cap T)
    BY FS_Union
  <1> QED BY <1>1, <1>2, <1>3

(* What an acquire load of a length in the loaded index returns: a length   *)
(* past every entry the thread knows, so all of a chunk that is not the     *)
(* last, and never nothing.                                                 *)
LEMMA LoadedLength ==
  ASSUME InductiveInv, VisitInv, NEW t \in Threads, pc[t] = "load_len",
         NEW n \in LoadableLen(view[t], cursor[t].shard, cursor[t].chunk)
  PROVE  /\ n \in 1..ChunkSize
         /\ cursor[t].chunk + 1 < cursor[t].chunks => n = ChunkSize
         /\ \A x \in KnownSlots(view[t]) :
              x[1] = cursor[t].shard /\ x[2] = cursor[t].chunk => x[3] < n
         /\ IndexStore(cursor[t].shard, cursor[t].chunk) \in view[t]
         /\ LenStore(cursor[t].shard, cursor[t].chunk, n - 1)
              \in lenView[<<cursor[t].shard, cursor[t].chunk, n - 1>>]
         /\ <<cursor[t].shard, cursor[t].chunk, n - 1>> \in Slots
  <1> DEFINE s == cursor[t].shard
             c == cursor[t].chunk
             k == cursor[t].chunks
             V == view[t]
  <1> USE DEF InductiveInv, VisitInv
  <1>1. /\ cursor[t] \in Cursors /\ s \in Shards /\ c \in ChunkIds /\ k \in 0..MaxChunks
        /\ <<s, c>> \in Shards \X ChunkIds
    BY DEF TypeOK, Cursors
  <1>2. c < k /\ <<s, k - 1, 0>> \in KnownSlots(V)
    BY DEF TourInv, Walking, Position
  <1>3. c \in Nat /\ k \in Nat /\ k - 1 \in ChunkIds /\ 0 \in Offsets /\ ChunkSize - 1 \in Offsets
        /\ ChunkSize \in Nat \ {0}
    BY <1>1, <1>2, ConstantFacts DEF ChunkIds, Offsets
  <1>4. OrderedView(V, Published) /\ LinkedView(V)
    <2>1. Pending(t) = {} /\ V \cup {} = V
      BY DEF Pending
    <2> QED BY <2>1 DEF OrderInv
  <1>5. /\ n \in 0..published_len[<<s, c>>] /\ published_len[<<s, c>>] \in 0..ChunkSize
        /\ \A o \in Offsets : LenStore(s, c, o) \in V => o < n
    BY <1>1 DEF LoadableLen, TypeOK
  <1>6. <<s, c, 0>> \in KnownSlots(V)
    <2>1. c = k - 1 \/ c < k - 1
      BY <1>2, <1>3
    <2> QED BY <1>1, <1>2, <1>3, <1>4, <2>1, OrderedBelow
  <1>7. 0 < n
    BY <1>1, <1>3, <1>5, <1>6, KnownSlot
  <1>8. ASSUME c + 1 < k PROVE n = ChunkSize
    <2>1. c < k - 1
      BY <1>3, <1>8
    <2>2. <<s, c, ChunkSize - 1>> \in KnownSlots(V)
      BY <1>1, <1>2, <1>3, <1>4, <2>1, OrderedBelow
    <2>3. ChunkSize - 1 < n
      BY <1>1, <1>3, <1>5, <2>2, KnownSlot
    <2> QED BY <1>3, <1>5, <2>3
  <1>9. \A x \in KnownSlots(V) : x[1] = s /\ x[2] = c => x[3] < n
    BY <1>5, SlotFacts DEF KnownSlots
  <1>10. IndexStore(s, c) \in V
    BY <1>4, <1>6 DEF LinkedView
  <1>11. n - 1 \in Offsets /\ n - 1 < published_len[<<s, c>>] /\ n \in 1..ChunkSize
    BY <1>3, <1>5, <1>7 DEF Offsets
  <1>12. LenStore(s, c, n - 1) \in lenView[<<s, c, n - 1>>]
    BY <1>1, <1>11 DEF ReleaseInv
  <1>13. <<s, c, n - 1>> \in Slots
    BY <1>1, <1>11 DEF Slots
  <1> QED BY <1>8, <1>9, <1>10, <1>11, <1>12, <1>13

(* Loading the length of a chunk: `len` counts the chunk and leaves it,     *)
(* `visit` turns to its entries.                                            *)
LEMMA TourLoadLen ==
  ASSUME InductiveInv, VisitInv, NEW t \in Threads, LoadLen(t)
  PROVE  Touring(t)' /\ view[t] \subseteq view'[t]
  <1> DEFINE cur == cursor[t]
             s == cur.shard
             c == cur.chunk
             K == known[t]
  <1> USE DEF InductiveInv, VisitInv
  <1>1. PICK n \in LoadableLen(view[t], s, c) :
          /\ Acquire(t, IF n = 0 THEN {} ELSE lenView[<<s, c, n - 1>>])
          /\ IF cursor[t].op = "len" \/ n = 0
               THEN /\ NextPosition(t, cursor[t])
                    /\ total' = [total EXCEPT ![t] = @ + n]
               ELSE /\ cursor' = [cursor EXCEPT ![t].len = n]
                    /\ Goto(t, "get")
                    /\ UNCHANGED total
    BY DEF LoadLen
  <1>2. /\ pc[t] = "load_len" /\ cur \in Cursors /\ s \in Shards /\ c \in ChunkIds
        /\ K \subseteq Slots /\ cur.op \in {"visit", "len"} /\ total[t] \in Nat
        /\ UNCHANGED <<known, seen>>
    BY DEF LoadLen, TypeOK, Cursors
  <1>3. /\ n \in 1..ChunkSize
        /\ c + 1 < cur.chunks => n = ChunkSize
        /\ \A x \in KnownSlots(view[t]) : x[1] = s /\ x[2] = c => x[3] < n
        /\ LenStore(s, c, n - 1) \in lenView[<<s, c, n - 1>>]
        /\ <<s, c, n - 1>> \in Slots
    BY <1>2, LoadedLength
  <1>4. view'[t] = view[t] \cup lenView[<<s, c, n - 1>>]
    BY <1>1, <1>3 DEF Acquire, TypeOK
  <1>5. n \in Nat /\ n # 0 /\ n \in 0..ChunkSize /\ n - 1 \in Offsets
    BY <1>3, ConstantFacts DEF Offsets
  <1>6. <<s, c, n - 1>> \in KnownSlots(view'[t])
    BY <1>2, <1>3, <1>4, <1>5, KnownSlot
  <1>7. OrderedView(view'[t], Published)
    <2>1. OrderedView(view[t], Published) /\ OrderedView(lenView[<<s, c, n - 1>>], Published)
      BY <1>3 DEF OrderInv
    <2> QED BY <1>4, <2>1, OrderedUnion
  <1>8. Touring(t)
    BY DEF TourInv, Touring
  <1>9. PICK C \in SUBSET Slots : Counted(t, C)
    BY <1>2, <1>8 DEF Touring, Walking
  <1>10. Tour(C, K, view[t], "load_len", cur) /\ Position(K, view[t], "load_len", cur)
    BY <1>2, <1>8, <1>9 DEF Counted, Touring, Walking
  <1>11. view[t] \subseteq view'[t]
    BY <1>4
  <1>12. Tour(C, K, view'[t], "load_len", cur) /\ Position(K, view'[t], "load_len", cur)
    BY <1>10, <1>11, TourGrows
  <1>13. Visited(t)' = Visited(t)
    BY <1>2 DEF Visited
  <1>14. \A x \in K : x[1] = s /\ x[2] = c => x[3] < n
    BY <1>3, <1>10 DEF Tour
  <1>15. CASE cur.op = "visit"
    <2> DEFINE nxt == [cur EXCEPT !.len = n]
    <2>1. cursor'[t] = nxt /\ pc'[t] = "get" /\ total'[t] = total[t]
      BY <1>1, <1>5, <1>15 DEF Goto, TypeOK
    <2>2. /\ nxt.shard = s /\ nxt.chunk = c /\ nxt.chunks = cur.chunks /\ nxt.op = cur.op
          /\ nxt.len = n /\ nxt.offset = cur.offset
      BY <1>2 DEF Cursors
    <2>3. cur.offset = 0
      BY <1>2 DEF WalkInv
    <2> HIDE DEF nxt
    <2>4. Passed("get", nxt) = Passed("load_len", cur)
      <3>1. \A x \in Slots : ~ (x[3] < 0)
        BY SlotNumbers
      <3> QED BY <2>2, <2>3, <3>1 DEF Passed
    <2>5. Tour(C, K, view'[t], "get", nxt)
      BY <1>12, <2>2, <2>4 DEF Tour
    <2>6. Position(K, view'[t], "get", nxt)
      <3>1. /\ nxt.chunk < nxt.chunks /\ nxt.op = "visit"
            /\ <<nxt.shard, nxt.chunks - 1, 0>> \in KnownSlots(view'[t])
            /\ \A x \in K : x[1] = nxt.shard => x[2] < nxt.chunks
        BY <1>12, <1>15, <2>2 DEF Position
      <3>2. nxt.chunk + 1 < nxt.chunks => nxt.len = ChunkSize
        BY <1>3, <2>2
      <3>3. \A x \in K : x[1] = nxt.shard /\ x[2] = nxt.chunk => x[3] < nxt.len
        BY <1>14, <2>2
      <3> QED BY <3>1, <3>2, <3>3 DEF Position
    <2>7. Counted(t, C)'
      BY <1>2, <1>9, <1>13, <2>1, <2>2, <2>5 DEF Counted
    <2>8. Position(known'[t], view'[t], pc'[t], cursor'[t])
      BY <1>2, <2>1, <2>6
    <2>9. cursor'[t].op = cur.op
      BY <2>1, <2>2
    <2> QED BY <1>2, <1>8, <1>11, <2>1, <2>7, <2>8, <2>9 DEF Touring, Walking
  <1>16. CASE cur.op = "len"
    <2>0. PICK T : T = ChunkSlots(s, c, n)
      OBVIOUS
    <2> PICK D : D = C \cup T
      OBVIOUS
    <2>1. NextPosition(t, cur) /\ total'[t] = total[t] + n
      BY <1>1, <1>16 DEF TypeOK
    <2>2. Leaves(cur, pc'[t], cursor'[t])
      BY <2>1, NextPositionLeaves
    <2>3. /\ T \subseteq Slots /\ IsFiniteSet(T) /\ Cardinality(T) = n
          /\ \A x \in Slots : x \in T <=> x[1] = s /\ x[2] = c /\ x[3] < n
      <3>1. IsFiniteSet(ChunkSlots(s, c, n)) /\ Cardinality(ChunkSlots(s, c, n)) = n
        BY <1>2, <1>5, ChunkPrefix
      <3> QED BY <2>0, <3>1 DEF ChunkSlots
    <2>4. T \subseteq KnownSlots(view'[t])
      <3> SUFFICES ASSUME NEW x \in T PROVE x \in KnownSlots(view'[t])
        OBVIOUS
      <3>1. x \in Slots /\ x[1] = s /\ x[2] = c /\ x[3] < n
        BY <2>3
      <3>2. x[3] \in Offsets /\ x[3] \in Nat /\ x = <<s, c, x[3]>>
        BY <3>1, SlotNumbers
      <3>3. x[3] <= n - 1
        BY <1>5, <3>1, <3>2
      <3> QED BY <1>2, <1>5, <1>6, <1>7, <3>2, <3>3, OrderedBelow
    <2>5. \A x \in C : x[1] < s \/ (x[1] = s /\ x[2] < c)
      BY <1>10 DEF Tour, Passed
    <2>6. /\ s \in Nat /\ c \in Nat
          /\ \A x \in Slots : x[1] \in Nat /\ x[2] \in Nat /\ x[3] \in Nat
      BY <1>2, SlotNumbers, ConstantFacts DEF Shards, ChunkIds
    <2>7. C \cap T = {}
      <3> SUFFICES ASSUME NEW x \in C, x \in T PROVE FALSE
        OBVIOUS
      <3>1. x[1] = s /\ x[2] = c
        BY <2>3
      <3> QED BY <2>5, <2>6, <3>1
    <2>8. IsFiniteSet(D) /\ Cardinality(D) = total'[t]
      <3>1. IsFiniteSet(C) /\ Cardinality(C) = total[t]
        BY <1>9 DEF Counted
      <3>2. IsFiniteSet(C \cup T) /\ Cardinality(C \cup T) = Cardinality(C) + Cardinality(T)
        BY <2>3, <2>7, <3>1, DisjointSum
      <3> QED BY <2>1, <2>3, <3>1, <3>2
    <2>9. D \in SUBSET Slots /\ D \subseteq KnownSlots(view'[t]) /\ K \subseteq KnownSlots(view'[t])
      BY <1>12, <2>3, <2>4 DEF Tour
    <2>10. /\ \A x \in D : x[1] < cur.shard \/ (x[1] = cur.shard /\ x[2] <= cur.chunk)
           /\ \A x \in K : x[1] < cur.shard => x \in D
      <3>1. \A x \in K : x[1] < s => x \in C
        BY <1>2, <1>10 DEF Tour, Passed
      <3>2. \A x \in D : x[1] < s \/ (x[1] = s /\ x[2] <= c)
        BY <2>3, <2>5, <2>6
      <3> QED BY <3>1, <3>2
    <2>11. /\ \A x \in K : x[1] = cur.shard => x[2] < cur.chunks
           /\ \A x \in K : x[1] = cur.shard /\ x[2] = cur.chunk => x[3] < n
      BY <1>10, <1>14 DEF Position
    <2>12. \A x \in Slots :
             x[1] = cur.shard /\ (x[2] < cur.chunk \/ (x[2] = cur.chunk /\ x[3] < n)) => x \in D
      <3>1. \A x \in Slots : x[1] = s /\ x[2] < c => x \in C
        BY <1>10 DEF Tour, Passed
      <3> QED BY <2>3, <3>1
    <2>13. cur.chunk + 1 < cur.chunks =>
             n = ChunkSize /\ <<cur.shard, cur.chunks - 1, 0>> \in KnownSlots(view'[t])
      BY <1>3, <1>12 DEF Position
    <2>14. \A a \in Slots, b \in D : Before(a, b) => a \in D
      <3> SUFFICES ASSUME NEW a \in Slots, NEW b \in D, Before(a, b) PROVE a \in D
        OBVIOUS
      <3>1. CASE b \in C
        BY <1>10, <3>1 DEF Tour
      <3>2. CASE b \in T
        <4>1. b \in Slots /\ b[1] = s /\ b[2] = c /\ b[3] < n
          BY <2>3, <3>2
        <4>2. a[1] = s /\ (a[2] < c \/ (a[2] = c /\ a[3] < b[3]))
          BY <4>1 DEF Before
        <4>3. a[3] < b[3] => a[3] < n
          BY <1>5, <2>6, <4>1
        <4> QED BY <2>12, <4>2, <4>3
      <3> QED BY <3>1, <3>2
    <2>15. Tour(D, K, view'[t], pc'[t], cursor'[t]) /\ Position(K, view'[t], pc'[t], cursor'[t])
      <3> HIDE DEF cur, s, c, K
      <3>1. cur \in Cursors /\ K \in SUBSET Slots
        BY <1>2
      <3> QED BY ONLY <1>5, <2>2, <2>9, <2>10, <2>11, <2>12, <2>13, <2>14, <3>1, TourLeave
    <2>16. cursor'[t].op = cur.op /\ pc'[t] \in Walking \cup {"walked"}
      BY <2>2 DEF Leaves, Walking
    <2>17. Counted(t, D)'
      BY <1>2, <1>16, <2>8, <2>15, <2>16 DEF Counted
    <2>18. Position(known'[t], view'[t], pc'[t], cursor'[t])
      BY <1>2, <2>15
    <2> QED BY <1>2, <1>8, <1>11, <1>16, <2>9, <2>16, <2>17, <2>18 DEF Touring
  <1> QED BY <1>2, <1>15, <1>16

(* The callback gets the entry the traversal stands on, which it knows. *)
LEMMA EntryGiven ==
  ASSUME InductiveInv, KeyInv, VisitInv, NEW t \in Threads, GetEntry(t),
         NEW x, x = <<cursor[t].shard, cursor[t].chunk, cursor[t].offset>>
  PROVE  /\ x \in Slots /\ x \in KnownSlots(view[t])
         /\ Visited(t)' = Visited(t) \cup {x}
  <1> DEFINE cur == cursor[t]
             s == cur.shard
             c == cur.chunk
             o == cur.offset
  <1> USE DEF InductiveInv, VisitInv
  <1>1. /\ pc[t] = "get" /\ cur \in Cursors /\ s \in Shards /\ c \in ChunkIds /\ o \in Offsets
        /\ cur.len \in 0..ChunkSize
    BY DEF GetEntry, TypeOK, Cursors
  <1>2. o < cur.len /\ LenStore(s, c, cur.len - 1) \in view[t]
    BY <1>1 DEF WalkInv
  <1>3. cur.len - 1 \in Offsets /\ o <= cur.len - 1
    BY <1>1, <1>2, ConstantFacts DEF Offsets
  <1>4. OrderedView(view[t], Published) /\ Closed(view[t], entries)
    BY DEF OrderInv, ClosedInv
  <1>5. <<s, c, cur.len - 1>> \in KnownSlots(view[t])
    BY <1>1, <1>2, <1>3, KnownSlot
  <1>6. x \in Slots /\ x \in KnownSlots(view[t])
    BY <1>1, <1>3, <1>4, <1>5, OrderedBelow DEF Slots
  <1>7. entries[x] \in Metas /\ entries[x].item = x
    BY <1>4, <1>6 DEF OrderedView, KeyInv, LogInv
  <1>8. EntryRead(view[t], s, c, o) = {entries[x]}
    <2>1. LenStore(s, c, o) \in view[t]
      BY <1>1, <1>6, KnownSlot
    <2>2. o \in 0..o
      BY <1>1, ConstantFacts DEF Offsets
    <2>3. EntryWrite(s, c, o) \in view[t] /\ SlotsWrite(s, c) \in view[t]
      BY <1>1, <1>4, <2>1, <2>2 DEF Closed
    <2> QED BY <2>3 DEF EntryRead
  <1>9. seen'[t] = seen[t] \cup {entries[x]}
    BY <1>8 DEF GetEntry, TypeOK
  <1>10. entries[x] # Uninit
    BY <1>7, NoneAssumption
  <1>11. Visited(t)' = Visited(t) \cup {x}
    BY <1>7, <1>9, <1>10 DEF Visited
  <1> QED BY <1>6, <1>11

(* The callback of a visit counts the entry it is given. *)
LEMMA TourGetEntry ==
  ASSUME InductiveInv, KeyInv, VisitInv, NEW t \in Threads, GetEntry(t)
  PROVE  Touring(t)'
  <1> DEFINE cur == cursor[t]
             s == cur.shard
             c == cur.chunk
             o == cur.offset
             K == known[t]
             V == view[t]
  <1> USE DEF InductiveInv, VisitInv
  <1>1. /\ pc[t] = "get" /\ cur \in Cursors /\ s \in Shards /\ c \in ChunkIds /\ o \in Offsets
        /\ cur.len \in 0..ChunkSize /\ K \subseteq Slots /\ total[t] \in Nat
        /\ UNCHANGED <<known, view>>
        /\ total'[t] = total[t] + 1
    BY DEF GetEntry, TypeOK, Cursors
  <1>2. PICK x : x = <<s, c, o>>
    OBVIOUS
  <1>3. x \in Slots /\ x \in KnownSlots(V) /\ Visited(t)' = Visited(t) \cup {x}
    BY <1>2, EntryGiven
  <1>4. x[1] = s /\ x[2] = c /\ x[3] = o /\ o < cur.len
    BY <1>1, <1>2 DEF WalkInv
  <1>5. Touring(t)
    BY DEF TourInv, Touring
  <1>6. PICK C \in SUBSET Slots : Counted(t, C)
    BY <1>1, <1>5 DEF Touring, Walking
  <1>7. Tour(C, K, V, "get", cur) /\ Position(K, V, "get", cur)
    BY <1>1, <1>5, <1>6 DEF Counted, Touring, Walking
  <1>8. cur.op = "visit" /\ C = Visited(t) /\ IsFiniteSet(C) /\ Cardinality(C) = total[t]
    BY <1>6, <1>7 DEF Counted, Position
  <1>9. /\ s \in Nat /\ c \in Nat /\ o \in Nat
        /\ \A y \in Slots : y[1] \in Nat /\ y[2] \in Nat /\ y[3] \in Nat
    BY <1>1, SlotNumbers, ConstantFacts DEF Shards, ChunkIds, Offsets
  <1>10. \A y \in Slots :
           y \in Passed("get", cur) <=>
             \/ y[1] < s
             \/ y[1] = s /\ y[2] < c
             \/ y[1] = s /\ y[2] = c /\ y[3] < o
    BY DEF Passed
  <1>11. x \notin C
    <2>1. ~ (x \in Passed("get", cur))
      BY <1>3, <1>4, <1>9, <1>10
    <2> QED BY <1>7, <2>1 DEF Tour
  <1> PICK D : D = C \cup {x}
    OBVIOUS
  <1>12. /\ D \in SUBSET Slots /\ D = Visited(t)'
         /\ IsFiniteSet(D) /\ Cardinality(D) = total'[t]
    BY <1>1, <1>3, <1>8, <1>11, FS_AddElement
  <1>13. D \subseteq KnownSlots(V) /\ K \subseteq KnownSlots(V)
    BY <1>3, <1>7 DEF Tour
  <1>14. \A y \in Slots : y[1] = s /\ (y[2] < c \/ (y[2] = c /\ y[3] < o + 1)) => y \in D
    <2> SUFFICES ASSUME NEW y \in Slots, y[1] = s, y[2] < c \/ (y[2] = c /\ y[3] < o + 1)
                 PROVE  y \in D
      OBVIOUS
    <2>1. CASE y[2] < c \/ (y[2] = c /\ y[3] < o)
      BY <1>7, <1>10, <2>1 DEF Tour
    <2>2. CASE y[2] = c /\ y[3] = o
      <3>1. y = <<y[1], y[2], y[3]>>
        BY SlotNumbers
      <3> QED BY <1>2, <2>2, <3>1
    <2> QED BY <1>9, <2>1, <2>2
  <1>15. \A a \in Slots, b \in D : Before(a, b) => a \in D
    <2> SUFFICES ASSUME NEW a \in Slots, NEW b \in D, Before(a, b) PROVE a \in D
      OBVIOUS
    <2>1. CASE b \in C
      BY <1>7, <2>1 DEF Tour
    <2>2. CASE b = x
      <3>1. a[1] = s /\ (a[2] < c \/ (a[2] = c /\ a[3] < o))
        BY <1>4, <2>2 DEF Before
      <3> QED BY <1>9, <1>14, <3>1
    <2> QED BY <2>1, <2>2
  <1>16. /\ \A y \in K : y[1] < s => y \in D
         /\ \A y \in D : y[1] < s \/ (y[1] = s /\ y[2] <= c)
    <2>1. \A y \in K : y[1] < s => y \in C
      BY <1>1, <1>7, <1>10 DEF Tour
    <2>2. \A y \in C : y[1] < s \/ (y[1] = s /\ y[2] <= c)
      BY <1>7, <1>9, <1>10 DEF Tour
    <2> QED BY <1>4, <1>9, <2>1, <2>2
  <1>17. CASE MoreEntries(cur)
    <2> DEFINE nxt == [cur EXCEPT !.offset = @ + 1]
    <2>1. cursor'[t] = nxt /\ pc'[t] = "get"
      BY <1>1, <1>17 DEF GetEntry, TypeOK
    <2>2. /\ nxt.shard = s /\ nxt.chunk = c /\ nxt.chunks = cur.chunks /\ nxt.op = cur.op
          /\ nxt.len = cur.len /\ nxt.offset = o + 1
      BY <1>1 DEF Cursors
    <2> HIDE DEF nxt
    <2>3. \A y \in Slots :
            y \in Passed("get", nxt) <=>
              \/ y[1] < s
              \/ y[1] = s /\ (y[2] < c \/ (y[2] = c /\ y[3] < o + 1))
      BY <2>2 DEF Passed
    <2>4. D \subseteq Passed("get", nxt)
      <3>1. C \subseteq Passed("get", nxt)
        <4> SUFFICES ASSUME NEW y \in C PROVE y \in Passed("get", nxt)
          OBVIOUS
        <4>1. y \in Passed("get", cur)
          BY <1>7 DEF Tour
        <4> QED BY <1>9, <1>10, <2>3, <4>1
      <3>2. x \in Passed("get", nxt)
        BY <1>3, <1>4, <1>9, <2>3
      <3> QED BY <3>1, <3>2
    <2>5. K \cap Passed("get", nxt) \subseteq D
      BY <1>1, <1>14, <1>16, <2>3
    <2>6. \A y \in Passed("get", nxt) : y[1] = nxt.shard => y \in D
      <3> TAKE y \in Passed("get", nxt)
      <3>1. y \in Slots
        BY DEF Passed
      <3> QED BY <1>9, <1>14, <2>2, <2>3, <3>1
    <2>7. Tour(D, K, V, "get", nxt)
      BY <1>13, <1>15, <2>4, <2>5, <2>6 DEF Tour
    <2>8. Position(K, V, "get", nxt)
      BY <1>7, <2>2 DEF Position
    <2>9. Counted(t, D)'
      BY <1>1, <1>12, <2>1, <2>7 DEF Counted
    <2>10. Position(known'[t], view'[t], pc'[t], cursor'[t])
      BY <1>1, <2>1, <2>8
    <2>11. cursor'[t].op = "visit"
      BY <1>8, <2>1, <2>2
    <2> QED BY <1>12, <2>1, <2>9, <2>10, <2>11 DEF Touring, Walking
  <1>18. CASE ~ MoreEntries(cur)
    <2>1. NextPosition(t, cur)
      BY <1>18 DEF GetEntry
    <2>2. Leaves(cur, pc'[t], cursor'[t])
      BY <2>1, NextPositionLeaves
    <2>3. cur.len = o + 1
      BY <1>1, <1>4, <1>9, <1>18, ConstantFacts DEF MoreEntries
    <2>4. /\ \A y \in K : y[1] = cur.shard => y[2] < cur.chunks
          /\ \A y \in K : y[1] = cur.shard /\ y[2] = cur.chunk => y[3] < cur.len
          /\ cur.chunk + 1 < cur.chunks =>
               cur.len = ChunkSize /\ <<cur.shard, cur.chunks - 1, 0>> \in KnownSlots(V)
      BY <1>7 DEF Position
    <2>5. \A y \in Slots :
            y[1] = cur.shard /\ (y[2] < cur.chunk \/ (y[2] = cur.chunk /\ y[3] < cur.len)) => y \in D
      BY <1>14, <2>3
    <2>6. Tour(D, K, V, pc'[t], cursor'[t]) /\ Position(K, V, pc'[t], cursor'[t])
      <3>1. cur \in Cursors /\ K \in SUBSET Slots /\ cur.len \in 0..ChunkSize
        BY <1>1
      <3>2. /\ \A y \in K : y[1] < cur.shard => y \in D
            /\ \A y \in D : y[1] < cur.shard \/ (y[1] = cur.shard /\ y[2] <= cur.chunk)
        BY <1>16
      <3> HIDE DEF cur, s, c, o, K, V
      <3> QED BY ONLY <1>12, <1>13, <1>15, <2>2, <2>4, <2>5, <3>1, <3>2, TourLeave
    <2>7. cursor'[t].op = "visit" /\ pc'[t] \in Walking \cup {"walked"}
      BY <1>8, <2>2 DEF Leaves, Walking
    <2>8. Counted(t, D)'
      BY <1>1, <1>12, <2>6 DEF Counted
    <2>9. Position(known'[t], view'[t], pc'[t], cursor'[t])
      BY <1>1, <2>6
    <2> QED BY <1>12, <2>7, <2>8, <2>9 DEF Touring
  <1> QED BY <1>17, <1>18

(* A finished traversal leaves nothing behind. *)
LEMMA TourEnd ==
  ASSUME TypeOK, NEW t \in Threads, EndWalk(t)
  PROVE  Touring(t)'
  BY DEF EndWalk, Goto, TypeOK, Touring, Walking

----------------------------------------------------------------------------
(***************************************************************************)
(* Every step preserves VisitInv.                                          *)
(***************************************************************************)

(* A traversal's loads bring ordered and linked views. *)
LEMMA WalkViews ==
  ASSUME InductiveInv, VisitInv, NEW t \in Threads,
         WalkStep(t) \/ \E op \in {"visit", "len"} : BeginWalk(t, op)
  PROVE  /\ OrderedView(view'[t], Published) /\ LinkedView(view'[t])
         /\ view[t] \subseteq view'[t]
         /\ \A u \in Threads \ {t} :
              /\ view'[u] = view[u] /\ known'[u] = known[u]
              /\ seen'[u] = seen[u] /\ total'[u] = total[u]
  <1> USE DEF InductiveInv, VisitInv
  <1>1. OrderedView(view[t], Published) /\ LinkedView(view[t])
    <2>1. pc[t] # "index"
      BY DEF WalkStep, LoadIndex, LoadLen, GetEntry, EndWalk, BeginWalk
    <2>2. Pending(t) = {} /\ view[t] \cup {} = view[t]
      BY <2>1 DEF Pending
    <2> QED BY <2>2 DEF OrderInv
  <1>2. CASE LoadIndex(t)
    <2> DEFINE s == cursor[t].shard
    <2>1. PICK k \in LoadableIndex(view[t], s) : WithIndex(t, s, k)
      BY <1>2 DEF LoadIndex
    <2>2. s \in Shards /\ UNCHANGED <<known, seen, total>>
      BY <2>1 DEF WithIndex, TypeOK, Cursors
    <2>3. CASE k = 0
      BY <1>1, <2>1, <2>2, <2>3 DEF WithIndex
    <2>4. CASE k # 0
      <3>1. view' = [view EXCEPT ![t] = @ \cup indexView[<<s, k - 1>>]]
        BY <2>1, <2>4 DEF WithIndex, Acquire
      <3>2. published_index[s] \in 0..MaxChunks
        BY <2>2 DEF TypeOK
      <3>3. k - 1 \in ChunkIds
        BY <2>4, <3>2, ConstantFacts DEF LoadableIndex, ChunkIds
      <3>4. OrderedView(indexView[<<s, k - 1>>], Published) /\ LinkedView(indexView[<<s, k - 1>>])
        BY <2>2, <3>3 DEF OrderInv
      <3>5. view'[t] = view[t] \cup indexView[<<s, k - 1>>]
            /\ \A u \in Threads \ {t} : view'[u] = view[u]
        BY <3>1 DEF TypeOK
      <3> QED BY <1>1, <2>2, <3>4, <3>5, OrderedUnion, LinkedUnion
    <2> QED BY <2>3, <2>4
  <1>3. CASE LoadLen(t)
    <2> DEFINE s == cursor[t].shard
               c == cursor[t].chunk
    <2>1. pc[t] = "load_len" /\ UNCHANGED <<known, seen>>
      BY <1>3 DEF LoadLen
    <2>2. PICK n \in LoadableLen(view[t], s, c) :
            /\ Acquire(t, IF n = 0 THEN {} ELSE lenView[<<s, c, n - 1>>])
            /\ IF cursor[t].op = "len" \/ n = 0
                 THEN total' = [total EXCEPT ![t] = @ + n]
                 ELSE UNCHANGED total
      BY <1>3 DEF LoadLen
    <2>3. n # 0 /\ <<s, c, n - 1>> \in Slots /\ IndexStore(s, c) \in view[t]
      BY <2>1, LoadedLength
    <2> DEFINE W == lenView[<<s, c, n - 1>>]
    <2>4. /\ view'[t] = view[t] \cup W
          /\ \A u \in Threads \ {t} : view'[u] = view[u] /\ total'[u] = total[u]
      BY <2>2, <2>3 DEF Acquire, TypeOK
    <2>5. OrderedView(W, Published) /\ LinkedView(W \cup {IndexStore(s, c)})
      BY <2>3 DEF OrderInv
    <2> HIDE DEF W
    <2>6. LinkedView(view[t] \cup (W \cup {IndexStore(s, c)}))
      BY <1>1, <2>5, LinkedUnion
    <2>7. view[t] \cup (W \cup {IndexStore(s, c)}) = view[t] \cup W
      BY <2>3
    <2> QED BY <1>1, <2>1, <2>4, <2>5, <2>6, <2>7, OrderedUnion
  <1>4. CASE GetEntry(t)
    BY <1>1, <1>4 DEF GetEntry, TypeOK
  <1>5. CASE EndWalk(t) \/ \E op \in {"visit", "len"} : BeginWalk(t, op)
    BY <1>1, <1>5 DEF EndWalk, BeginWalk, TypeOK
  <1> QED BY <1>2, <1>3, <1>4, <1>5 DEF WalkStep

(* A traversal keeps VisitInv. *)
LEMMA VisitWalk ==
  ASSUME InductiveInv, KeyInv, VisitInv, NEW t \in Threads,
         WalkStep(t) \/ \E op \in {"visit", "len"} : BeginWalk(t, op)
  PROVE  VisitInv'
  <1>1. TypeOK
    BY DEF InductiveInv
  <1>2. /\ UNCHANGED <<shardVars, memoryVars, lockView, callVars, handles>>
        /\ \A u \in Threads : pc[u] \in Registering \/ pc'[u] \in Registering => pc'[u] = pc[u]
        /\ \A u \in Threads \ {t} : pc'[u] = pc[u] /\ cursor'[u] = cursor[u]
    BY <1>1, WalkPc
  <1>3. UNCHANGED <<len, chunks, published_index, indexView, published_len, lenView, lockView,
                    req, item, fresh>>
    BY <1>2 DEF shardVars, memoryVars, callVars
  <1>4. /\ OrderedView(view'[t], Published) /\ LinkedView(view'[t])
        /\ view[t] \subseteq view'[t]
        /\ \A u \in Threads \ {t} :
             /\ view'[u] = view[u] /\ known'[u] = known[u]
             /\ seen'[u] = seen[u] /\ total'[u] = total[u]
    BY WalkViews
  <1>5. OrderInv'
    <2>1. Published' = Published
      BY <1>3 DEF Published
    <2>2. \A u \in Threads : Pending(u)' = Pending(u)
      BY <1>2, <1>3 DEF Pending, Registering
    <2>3. Pending(t) = {} /\ view'[t] \cup {} = view'[t]
      BY DEF Pending, WalkStep, LoadIndex, LoadLen, GetEntry, EndWalk, BeginWalk
    <2>4. OrderedView(view'[t], Published') /\ LinkedView(view'[t] \cup Pending(t)')
      BY <1>4, <2>1, <2>2, <2>3
    <2>5. \A u \in Threads \ {t} :
            OrderedView(view'[u], Published') /\ LinkedView(view'[u] \cup Pending(u)')
      BY <1>4, <2>1, <2>2 DEF VisitInv, OrderInv
    <2> QED BY <1>3, <2>1, <2>4, <2>5, OrderFrame DEF VisitInv
  <1>6. IndexInv'
    BY <1>2, <1>3, <1>4, IndexFrame DEF VisitInv, Registering, ShardLocked
  <1>7. Touring(t)'
    BY <1>1, TourBegin, TourLoadIndex, TourLoadLen, TourGetEntry, TourEnd DEF WalkStep
  <1>8. \A u \in Threads \ {t} : Touring(u)'
    <2> TAKE u \in Threads \ {t}
    <2>1. Touring(u)
      BY DEF VisitInv, TourInv, Touring
    <2>2. /\ pc'[u] = pc[u] /\ cursor'[u] = cursor[u] /\ view[u] \subseteq view'[u]
          /\ known'[u] = known[u] /\ seen'[u] = seen[u] /\ total'[u] = total[u]
      BY <1>2, <1>4
    <2> QED BY <2>1, <2>2, TourSame
  <1>9. TourInv'
    BY <1>7, <1>8 DEF TourInv, Touring
  <1> QED BY <1>5, <1>6, <1>9 DEF VisitInv

(* A step outside traversals moves none. *)
LEMMA TourFrame ==
  ASSUME TourInv, UNCHANGED walkVars,
         \A u \in Threads :
           /\ view[u] \subseteq view'[u]
           /\ pc'[u] = pc[u]
                \/ (pc[u] \notin Walking \cup {"walked"} /\ pc'[u] \notin Walking \cup {"walked"})
  PROVE  TourInv'
  <1>1. ASSUME NEW u \in Threads PROVE Touring(u)'
    <2>1. Touring(u)
      BY DEF TourInv, Touring
    <2>2. cursor'[u] = cursor[u] /\ known'[u] = known[u] /\ seen'[u] = seen[u] /\ total'[u] = total[u]
      BY DEF walkVars
    <2> QED BY <2>1, <2>2, TourSame
  <1> QED BY <1>1 DEF TourInv, Touring

(* A registration keeps VisitInv. *)
LEMMA VisitRegister ==
  ASSUME InductiveInv, VisitInv, NEW t \in Threads, Register(t)
  PROVE  VisitInv'
  <1> USE DEF InductiveInv
  <1>1. TourInv'
    <2>1. /\ UNCHANGED walkVars
          /\ pc[t] \in Registering \cup {"idle"} /\ pc'[t] \in Registering \cup {"idle"}
          /\ \A u \in Threads \ {t} : pc'[u] = pc[u]
      BY DEF Register, Lock, Allocate, Publish, StoreIndex, ReturnExisting, ReturnInserted,
             Return, Goto, AfterPublish, TypeOK, Registering
    <2>2. \A u \in Threads : view[u] \subseteq view'[u]
      <3>1. ASSUME NEW W, view' = [view EXCEPT ![t] = @ \cup W]
            PROVE  \A u \in Threads : view[u] \subseteq view'[u]
        BY <3>1 DEF TypeOK
      <3>2. ASSUME NEW U, NEW W, view' = [view EXCEPT ![t] = @ \cup U \cup W]
            PROVE  \A u \in Threads : view[u] \subseteq view'[u]
        BY <3>2 DEF TypeOK
      <3>3. CASE \E r \in Requests : Lock(t, r)
        BY <3>1, <3>3 DEF Lock, Acquire
      <3>4. CASE Allocate(t)
        BY <3>2, <3>4 DEF Allocate
      <3>5. CASE Publish(t) \/ StoreIndex(t)
        BY <3>1, <3>5 DEF Publish, StoreIndex, Acquire
      <3>6. CASE ReturnExisting(t) \/ ReturnInserted(t)
        BY <3>6 DEF ReturnExisting, ReturnInserted, Return
      <3> QED BY <3>3, <3>4, <3>5, <3>6 DEF Register
    <2> QED BY <2>1, <2>2, TourFrame DEF VisitInv, Registering, Walking
  <1>2. CASE \E r \in Requests : Lock(t, r)
    <2>1. PICK r \in Requests : Lock(t, r)
      BY <1>2
    <2>2. OrderInv'
      BY <2>1, OrderLock DEF VisitInv
    <2>3. UNCHANGED <<len, chunks, published_index, indexView, fresh>>
      BY <2>1 DEF Lock, memoryVars
    <2>4. pc[t] = "idle" /\ pc'[t] \in {"allocate", "existing"}
      BY <2>1 DEF Lock, Goto, TypeOK
    <2>5. \A u \in Threads \ {t} :
            pc'[u] = pc[u] /\ item'[u] = item[u] /\ ShardLocked(u)' = ShardLocked(u)
      BY <2>1 DEF Lock, Goto, TypeOK, ShardLocked
    <2>6. \A u \in Threads : view[u] \subseteq view'[u]
      BY <2>1 DEF Lock, Acquire, TypeOK
    <2>7. IndexInv'
      BY <2>3, <2>4, <2>5, <2>6, IndexFrame DEF VisitInv
    <2> QED BY <1>1, <2>2, <2>7 DEF VisitInv
  <1>3. CASE ReturnExisting(t) \/ ReturnInserted(t)
    <2>1. OrderInv'
      BY <1>3, OrderReturn DEF VisitInv
    <2>2. Return(t) /\ pc[t] \in {"existing", "insert"}
      BY <1>3 DEF ReturnExisting, ReturnInserted
    <2>3. UNCHANGED <<len, chunks, published_index, indexView, view>>
      BY <2>2 DEF Return, memoryVars
    <2>4. pc'[t] = "idle"
      BY <2>2 DEF Return, Goto, TypeOK
    <2>5. \A u \in Threads \ {t} :
            /\ pc'[u] = pc[u] /\ item'[u] = item[u] /\ fresh'[u] = fresh[u]
            /\ ShardLocked(u)' = ShardLocked(u)
      BY <2>2 DEF Return, Goto, TypeOK, ShardLocked
    <2>6. IndexInv'
      BY <2>2, <2>3, <2>4, <2>5, IndexFrame DEF VisitInv
    <2> QED BY <1>1, <2>1, <2>6 DEF VisitInv
  <1>4. CASE Allocate(t)
    BY <1>1, <1>4, OrderAllocate, IndexAllocate DEF VisitInv
  <1>5. CASE Publish(t)
    BY <1>1, <1>5, OrderPublish, IndexPublish DEF VisitInv
  <1>6. CASE StoreIndex(t)
    BY <1>1, <1>6, OrderIndex, IndexStoreIndex DEF VisitInv
  <1> QED BY <1>2, <1>3, <1>4, <1>5, <1>6 DEF Register

(* Synchronisation elsewhere makes one ordered view of two. *)
LEMMA VisitSynchronize ==
  ASSUME InductiveInv, VisitInv, NEW a \in Threads, NEW b \in Threads, Synchronize(a, b)
  PROVE  VisitInv'
  <1> USE DEF InductiveInv
  <1>1. /\ pc[a] = "idle" /\ pc[b] = "idle"
        /\ view'[b] = view[b] \cup view[a]
        /\ \A u \in Threads \ {b} : view'[u] = view[u]
        /\ UNCHANGED <<pc, walkVars, len, chunks, published_index, indexView, published_len,
                       lenView, lockView, req, item, fresh>>
    BY DEF Synchronize, Acquire, TypeOK, shardVars, memoryVars, callVars
  <1>2. \A u \in Threads : view[u] \subseteq view'[u]
    BY <1>1
  <1>3. TourInv'
    BY <1>1, <1>2, TourFrame DEF VisitInv
  <1>4. IndexInv'
    BY <1>1, <1>2, IndexFrame DEF VisitInv, ShardLocked
  <1>5. OrderInv'
    <2>1. Published' = Published /\ \A u \in Threads : Pending(u)' = Pending(u)
      BY <1>1 DEF Published, Pending
    <2>2. Pending(a) = {} /\ Pending(b) = {} /\ \A V : V \cup {} = V
      BY <1>1 DEF Pending
    <2>3. /\ OrderedView(view[a], Published) /\ LinkedView(view[a])
          /\ OrderedView(view[b], Published) /\ LinkedView(view[b])
      BY <2>2 DEF VisitInv, OrderInv
    <2>4. OrderedView(view'[b], Published') /\ LinkedView(view'[b] \cup Pending(b)')
      BY <1>1, <2>1, <2>2, <2>3, OrderedUnion, LinkedUnion
    <2>5. \A u \in Threads \ {b} :
            OrderedView(view'[u], Published') /\ LinkedView(view'[u] \cup Pending(u)')
      BY <1>1, <2>1 DEF VisitInv, OrderInv
    <2> QED BY <1>1, <2>1, <2>4, <2>5, OrderFrame DEF VisitInv
  <1> QED BY <1>3, <1>4, <1>5 DEF VisitInv

(* A step that changes nothing keeps VisitInv. *)
LEMMA VisitStutter == VisitInv /\ UNCHANGED vars => VisitInv'
  <1> SUFFICES ASSUME VisitInv, UNCHANGED vars PROVE VisitInv'
    OBVIOUS
  <1>1. UNCHANGED <<pc, walkVars, len, chunks, published_index, indexView, published_len, view,
                    lenView, lockView, req, item, fresh>>
    BY DEF vars, shardVars, memoryVars, callVars
  <1>2. TourInv'
    BY <1>1, TourFrame DEF VisitInv
  <1>3. IndexInv'
    BY <1>1, IndexFrame DEF VisitInv, ShardLocked
  <1>4. OrderInv'
    <2>1. Published' = Published /\ \A u \in Threads : Pending(u)' = Pending(u)
      BY <1>1 DEF Published, Pending
    <2>2. \A u \in Threads :
            OrderedView(view'[u], Published') /\ LinkedView(view'[u] \cup Pending(u)')
      BY <1>1, <2>1 DEF VisitInv, OrderInv
    <2> QED BY <1>1, <2>1, <2>2, OrderFrame DEF VisitInv
  <1> QED BY <1>2, <1>3, <1>4 DEF VisitInv

(* The empty registry is in order. *)
LEMMA VisitInit == Init => VisitInv
  <1> SUFFICES ASSUME Init PROVE VisitInv
    OBVIOUS
  <1>1. \A V : V = {} => OrderedView(V, Published) /\ LinkedView(V)
    BY OrderedEmpty
  <1>2. OrderInv
    <2>1. \A t \in Threads : view[t] = {} /\ view[t] \cup Pending(t) = {}
      BY DEF Init, Pending
    <2>2. ASSUME NEW x \in Slots PROVE LinkedView(lenView[x] \cup {IndexStore(x[1], x[2])})
      <3>1. lenView[x] = {} /\ {} \cup {IndexStore(x[1], x[2])} = {IndexStore(x[1], x[2])}
        BY DEF Init
      <3> QED BY <3>1, KnownIndex DEF LinkedView
    <2> QED BY <1>1, <2>1, <2>2 DEF OrderInv, Init
  <1>3. IndexInv
    <2>1. 0 \div ChunkSize = 0 /\ 0 % ChunkSize = 0
      <3>1. 0 = ChunkSize * 0 + 0 /\ 0 \in 0..(ChunkSize - 1)
        BY ConstantFacts
      <3> QED BY <3>1, ConstantFacts, DivModUnique
    <2>2. \A c \in ChunkIds : ~ (c < 0)
      BY ConstantFacts DEF ChunkIds
    <2> QED BY <2>1, <2>2 DEF IndexInv, Init, Adding
  <1>4. TourInv
    BY DEF TourInv, Init, Walking
  <1> QED BY <1>2, <1>3, <1>4 DEF VisitInv

(* Every step keeps VisitInv. *)
LEMMA VisitNext == InductiveInv /\ KeyInv /\ VisitInv /\ [Next]_vars => VisitInv'
  BY VisitRegister, VisitWalk, VisitSynchronize, VisitStutter DEF Next

----------------------------------------------------------------------------
(***************************************************************************)
(* Theorems.                                                               *)
(***************************************************************************)

(* Views are ordered, indices reach what is known, and traversals have      *)
(* counted what they passed, in every reachable state.                      *)
THEOREM VisitInvariance == Spec => []VisitInv
  BY VisitInit, VisitNext, Invariance, KeyInvariance, PTL DEF Spec

(* What a visit has handed to its callback of a shard is always a prefix of *)
(* the shard's allocation order: for_each_meta loads the lengths one after  *)
(* the other, and no chunk after a partial one has entries it knows.        *)
THEOREM PrefixSeen == Spec => []VisitSeesPrefix
  <1>1. ASSUME TypeOK, VisitInv PROVE VisitSeesPrefix
    <2> SUFFICES ASSUME NEW t \in Threads, NEW b \in Visited(t), NEW a \in Slots, Before(a, b)
                 PROVE  a \in Visited(t)
      BY DEF VisitSeesPrefix
    <2>1. seen[t] # {}
      BY DEF Visited
    <2>2. /\ pc[t] \in Walking \cup {"walked"} /\ cursor[t].op # "len"
      BY <1>1, <2>1 DEF VisitInv, TourInv
    <2>3. cursor[t].op = "visit"
      BY <1>1, <2>2 DEF TypeOK, Cursors
    <2>4. PICK C \in SUBSET Slots : Counted(t, C)
      BY <1>1, <2>2 DEF VisitInv, TourInv
    <2> QED BY <2>3, <2>4 DEF Counted, Tour
  <1> QED BY <1>1, TypeCorrect, VisitInvariance, PTL

(* A finished visit has handed every slot to its callback whose publication *)
(* happened before it began.                                                *)
THEOREM CompleteVisits == Spec => []VisitComplete
  <1>1. ASSUME TypeOK, VisitInv PROVE VisitComplete
    <2> SUFFICES ASSUME NEW t \in Threads, Finished(t, "visit") PROVE known[t] \subseteq Visited(t)
      BY DEF VisitComplete
    <2>1. pc[t] = "walked" /\ cursor[t].op = "visit" /\ known[t] \subseteq Slots
      BY <1>1 DEF Finished, TypeOK
    <2>2. PICK C \in SUBSET Slots : Counted(t, C)
      BY <1>1, <2>1 DEF VisitInv, TourInv
    <2> QED BY <2>1, <2>2 DEF Counted, Tour, Passed
  <1> QED BY <1>1, TypeCorrect, VisitInvariance, PTL

(* A registry has finitely many slots in the bound of the model. *)
LEMMA FiniteSlots == IsFiniteSet(Slots)
  <1>1. IsFiniteSet(Shards) /\ IsFiniteSet(ChunkIds) /\ IsFiniteSet(Offsets)
    BY ConstantFacts, FS_Interval DEF Shards, ChunkIds, Offsets
  <1>2. IsFiniteSet(ChunkIds \X Offsets)
    BY <1>1, FS_Product
  <1>3. IsFiniteSet(Shards \X (ChunkIds \X Offsets))
    BY <1>1, <1>2, FS_Product
  <1> DEFINE T == Shards \X (ChunkIds \X Offsets)
             f == [x \in Slots |-> <<x[1], <<x[2], x[3]>>>>]
  <1>4. f \in [Slots -> T]
    BY SlotFacts
  <1>5. \A x, y \in Slots : f[x] = f[y] => x = y
    <2> SUFFICES ASSUME NEW x \in Slots, NEW y \in Slots, f[x] = f[y] PROVE x = y
      OBVIOUS
    <2>1. x[1] = y[1] /\ x[2] = y[2] /\ x[3] = y[3]
      OBVIOUS
    <2> QED BY <2>1, SlotFacts
  <1>6. f \in Injection(Slots, T)
    <2> HIDE DEF f, T
    <2> QED BY <1>4, <1>5 DEF Injection, IsInjective
  <1> HIDE DEF f
  <1> QED BY <1>3, <1>6, FS_Injection

(* `len` counts no less than was known published when it began and no more  *)
(* than is published when it returns, whatever is registered meanwhile.     *)
THEOREM LenBounds == Spec => []LenWithinBounds
  <1>1. ASSUME TypeOK, VisitInv PROVE LenWithinBounds
    <2> SUFFICES ASSUME NEW t \in Threads, Finished(t, "len")
                 PROVE  Cardinality(known[t]) <= total[t] /\ total[t] <= Cardinality(Published)
      BY DEF LenWithinBounds
    <2>1. pc[t] = "walked" /\ known[t] \subseteq Slots
      BY <1>1 DEF Finished, TypeOK
    <2>2. PICK C \in SUBSET Slots : Counted(t, C)
      BY <1>1, <2>1 DEF VisitInv, TourInv
    <2>3. known[t] \subseteq C /\ C \subseteq KnownSlots(view[t])
      BY <2>1, <2>2 DEF Counted, Tour, Passed
    <2>4. KnownSlots(view[t]) \subseteq Published
      BY <1>1 DEF VisitInv, OrderInv, OrderedView
    <2>5. IsFiniteSet(C) /\ Cardinality(C) = total[t]
      BY <2>2 DEF Counted
    <2>6. Cardinality(known[t]) <= Cardinality(C)
      BY <2>3, <2>5, FS_Subset
    <2>7. IsFiniteSet(Published)
      <3>1. Published \in SUBSET Slots
        BY DEF Published
      <3> QED BY <3>1, FiniteSlots, FS_Subset
    <2>8. C \in SUBSET Published
      BY <2>3, <2>4
    <2>9. Cardinality(C) <= Cardinality(Published)
      BY <2>7, <2>8, FS_Subset
    <2> QED BY <2>5, <2>6, <2>9
  <1> QED BY <1>1, TypeCorrect, VisitInvariance, PTL

----------------------------------------------------------------------------
(***************************************************************************)
(* Registry implements AbstractRegistry, for every value of the constants. *)
(*                                                                         *)
(* The argument: slots and places of a shard's log correspond one to one   *)
(* and in order, so prefixes are prefixes; Publish inserts, the returns    *)
(* return, the steps of a visit are Visit, and every other step lets its   *)
(* thread learn of metrics, or of none.  The invariants above and those of *)
(* RegistryProofs give the abstract guards: no key twice (KeyInv), a       *)
(* returned slot known to its thread, a visit of a prefix that misses      *)
(* nothing (VisitInv).                                                     *)
(***************************************************************************)

(***************************************************************************)
(* Slots and places.                                                       *)
(***************************************************************************)

(* Chunk by chunk, then offset by offset, is the order of the places. *)
LEMMA PlaceOrder ==
  ASSUME NEW C \in Nat \ {0}, NEW c \in Nat, NEW o \in 0..(C - 1),
         NEW q \in Nat, NEW r \in 0..(C - 1)
  PROVE  /\ C * c + o \in Nat
         /\ C * c + o < C * q + r <=> c < q \/ (c = q /\ o < r)
  <1>1. C * c \in Nat /\ C * q \in Nat
    OBVIOUS
  <1>2. ASSUME NEW a \in Nat, NEW b \in Nat, NEW i \in 0..(C - 1), NEW j \in 0..(C - 1), a < b
        PROVE  C * a + i < C * b + j
    <2>1. PICK d \in Nat : b = a + 1 + d
      <3>1. b - a - 1 \in Nat
        BY <1>2
      <3> QED BY <1>2, <3>1
    <2>2. C * b = C * a + C + C * d
      BY <2>1
    <2>3. C * d \in Nat /\ C * a \in Nat
      BY <2>1
    <2> QED BY <2>2, <2>3
  <1>3. CASE c < q
    BY <1>1, <1>2, <1>3
  <1>4. CASE q < c
    <2>1. C * q + r < C * c + o
      BY <1>2, <1>4
    <2> QED BY <1>1, <1>4, <2>1
  <1>5. CASE c = q
    BY <1>1, <1>5
  <1> QED BY <1>3, <1>4, <1>5

(* The place of a slot is a number, and leads back to the slot. *)
LEMMA PlaceFacts ==
  ASSUME NEW x \in Slots
  PROVE  /\ Place(x)[1] = x[1] /\ Place(x)[2] \in Nat \ {0}
         /\ Place(x)[2] - 1 = ChunkSize * x[2] + x[3]
         /\ Place(x) = <<Place(x)[1], Place(x)[2]>>
         /\ SlotAt(x[1], Place(x)[2]) = x
  <1> DEFINE n == ChunkSize * x[2] + x[3]
  <1>1. /\ x[2] \in Nat /\ x[3] \in 0..(ChunkSize - 1) /\ ChunkSize \in Nat \ {0}
        /\ x = <<x[1], x[2], x[3]>>
    BY SlotNumbers, ConstantFacts DEF Offsets
  <1>2. n \in Nat /\ x[2] * ChunkSize + x[3] = n
    BY <1>1
  <1>3. n \div ChunkSize = x[2] /\ n % ChunkSize = x[3]
    BY <1>1, <1>2, DivModUnique
  <1> HIDE DEF n
  <1>4. Place(x) = <<x[1], n + 1>> /\ (n + 1) - 1 = n
    BY <1>2 DEF Place
  <1>5. SlotAt(x[1], n + 1) = x
    BY <1>1, <1>3, <1>4 DEF SlotAt
  <1> QED BY <1>2, <1>4, <1>5 DEF n

(* Different slots have different places. *)
LEMMA PlaceUnique ==
  ASSUME NEW x \in Slots, NEW y \in Slots, Place(x) = Place(y)
  PROVE  x = y
  BY PlaceFacts

(* The place of a slot is in the log exactly when the slot is published. *)
LEMMA PlaceInLog ==
  ASSUME InductiveInv, NEW x \in Slots
  PROVE  x \in Published <=> Place(x)[2] \in 1..len[x[1]]
  <1> DEFINE l == len[x[1]]
             q == l \div ChunkSize
             r == l % ChunkSize
  <1>1. /\ x[2] \in Nat /\ x[3] \in 0..(ChunkSize - 1) /\ ChunkSize \in Nat \ {0}
        /\ x[1] \in Shards
    BY SlotNumbers, ConstantFacts DEF Offsets
  <1>2. l \in Nat
    BY <1>1, LengthFacts DEF InductiveInv
  <1>3. x \in Published <=> x[2] < q \/ (x[2] = q /\ x[3] < r)
    BY PublishedPlace
  <1> HIDE DEF l
  <1>4. q \in Nat /\ r \in 0..(ChunkSize - 1) /\ l = ChunkSize * q + r
    BY <1>1, <1>2
  <1> HIDE DEF q, r
  <1>5. x \in Published <=> ChunkSize * x[2] + x[3] < l
    BY <1>1, <1>3, <1>4, PlaceOrder
  <1>6. Place(x)[2] \in Nat \ {0} /\ Place(x)[2] - 1 = ChunkSize * x[2] + x[3]
    BY PlaceFacts
  <1>7. x \in Published <=> Place(x)[2] \in 1..l
    BY <1>2, <1>5, <1>6
  <1> QED BY <1>7 DEF l

(* Every place of a log is the place of a published slot. *)
LEMMA SlotOfPlace ==
  ASSUME InductiveInv, IndexInv, NEW s \in Shards, NEW i \in 1..len[s]
  PROVE  /\ SlotAt(s, i) \in Published /\ SlotAt(s, i) \in Slots
         /\ SlotAt(s, i)[1] = s
         /\ Place(SlotAt(s, i)) = <<s, i>>
  <1> DEFINE n == i - 1
             c == n \div ChunkSize
             o == n % ChunkSize
             q == len[s] \div ChunkSize
             r == len[s] % ChunkSize
  <1>1. /\ len[s] \in Nat /\ ChunkSize \in Nat \ {0} /\ MaxChunks \in Nat
        /\ chunks[s] \in 0..MaxChunks
    BY LengthFacts, ConstantFacts DEF InductiveInv, TypeOK
  <1>2. n \in Nat /\ i = n + 1 /\ n < len[s]
    BY <1>1
  <1>3. q <= chunks[s] /\ (r # 0 => chunks[s] = q + 1)
    BY DEF IndexInv
  <1>4. q \in Nat /\ r \in 0..(ChunkSize - 1) /\ len[s] = ChunkSize * q + r
    BY <1>1
  <1> HIDE DEF n
  <1>5. c \in Nat /\ o \in 0..(ChunkSize - 1) /\ n = ChunkSize * c + o
    BY <1>1, <1>2
  <1> HIDE DEF c, o, q, r
  <1>6. c < q \/ (c = q /\ o < r)
    BY <1>1, <1>2, <1>4, <1>5, PlaceOrder
  <1>7. c \in ChunkIds /\ o \in Offsets
    <2>1. c < MaxChunks
      BY <1>1, <1>3, <1>4, <1>5, <1>6
    <2> QED BY <1>1, <1>5, <2>1 DEF ChunkIds, Offsets
  <1>8. SlotAt(s, i) = <<s, c, o>>
    BY DEF SlotAt, n, c, o
  <1>9. <<s, c, o>> \in Slots
    BY <1>7 DEF Slots
  <1>10. ChunkSize * c + o + 1 = i /\ c * ChunkSize + o + 1 = i
    BY <1>1, <1>2, <1>5
  <1>11. Place(<<s, c, o>>) = <<s, i>>
    BY <1>10 DEF Place
  <1>12. <<s, c, o>> \in Published
    BY <1>9, <1>11, PlaceInLog
  <1> QED BY <1>8, <1>9, <1>11, <1>12

(* The places of a prefix are a prefix. *)
LEMMA PrefixPlaces ==
  ASSUME InductiveInv, IndexInv, NEW X \in SUBSET Published,
         \A a \in Slots, b \in X : Before(a, b) => a \in X
  PROVE  /\ \A p \in PlacesOf(X) : \A i \in 1..p[2] : <<p[1], i>> \in PlacesOf(X)
         /\ \A p \in PlacesOf(X) : p[1] \in Shards /\ p[2] \in 1..len[p[1]] /\ p = <<p[1], p[2]>>
  <1> SUFFICES ASSUME NEW x \in X
               PROVE  /\ \A i \in 1..Place(x)[2] : <<Place(x)[1], i>> \in PlacesOf(X)
                      /\ Place(x)[1] \in Shards /\ Place(x)[2] \in 1..len[Place(x)[1]]
                      /\ Place(x) = <<Place(x)[1], Place(x)[2]>>
    BY DEF PlacesOf
  <1> DEFINE s == x[1]
  <1>1. x \in Slots /\ x \in Published /\ s \in Shards /\ Place(x)[1] = s
    BY SlotFacts, PlaceFacts DEF Published
  <1>2. Place(x)[2] \in 1..len[s] /\ len[s] \in Nat
    BY <1>1, PlaceInLog, LengthFacts DEF InductiveInv
  <1>3. ASSUME NEW i \in 1..Place(x)[2] PROVE <<s, i>> \in PlacesOf(X)
    <2>1. i \in 1..len[s]
      BY <1>2
    <2>2. PICK y : y = SlotAt(s, i)
      OBVIOUS
    <2>3. y \in Slots /\ y[1] = s /\ Place(y) = <<s, i>>
      BY <1>1, <2>1, <2>2, SlotOfPlace
    <2>4. /\ x[2] \in Nat /\ x[3] \in 0..(ChunkSize - 1) /\ ChunkSize \in Nat \ {0}
          /\ y[2] \in Nat /\ y[3] \in 0..(ChunkSize - 1)
          /\ x = <<x[1], x[2], x[3]>> /\ y = <<y[1], y[2], y[3]>>
      BY <1>1, <2>3, SlotNumbers, ConstantFacts DEF Offsets
    <2>5. Place(x)[2] - 1 = ChunkSize * x[2] + x[3] /\ i - 1 = ChunkSize * y[2] + y[3]
      BY <1>1, <2>3, PlaceFacts
    <2>6. CASE i < Place(x)[2]
      <3>1. ChunkSize * y[2] + y[3] < ChunkSize * x[2] + x[3]
        BY <1>2, <2>5, <2>6
      <3>2. y[2] < x[2] \/ (y[2] = x[2] /\ y[3] < x[3])
        BY <2>4, <3>1, PlaceOrder
      <3>3. Before(y, x)
        BY <2>3, <3>2 DEF Before
      <3> QED BY <2>3, <3>3 DEF PlacesOf
    <2>7. CASE i = Place(x)[2]
      BY <1>1, <2>7, PlaceFacts DEF PlacesOf
    <2> QED BY <1>2, <2>6, <2>7
  <1> QED BY <1>1, <1>2, <1>3, PlaceFacts

----------------------------------------------------------------------------
(***************************************************************************)
(* The abstract state.                                                     *)
(***************************************************************************)

(* The log of a shard is the requests of its published slots. *)
LEMMA LogFacts ==
  ASSUME InductiveInv, KeyInv, VisitInv, NEW s \in Shards
  PROVE  /\ len[s] \in Nat
         /\ Log[s] \in [1..len[s] -> Requests]
         /\ Log[s] \in Seq(Requests) /\ Len(Log[s]) = len[s] /\ DOMAIN Log[s] = 1..len[s]
         /\ \A i \in 1..len[s] : Log[s][i] = entries[SlotAt(s, i)].profile
  <1>1. len[s] \in Nat
    BY LengthFacts DEF InductiveInv
  <1>2. Log[s] = [i \in 1..len[s] |-> entries[SlotAt(s, i)].profile]
    BY DEF Log
  <1>3. \A i \in 1..len[s] : entries[SlotAt(s, i)].profile \in Requests
    <2> TAKE i \in 1..len[s]
    <2>1. SlotAt(s, i) \in Published
      BY SlotOfPlace DEF VisitInv
    <2>2. entries[SlotAt(s, i)] \in Metas
      BY <2>1 DEF KeyInv, LogInv
    <2> QED BY <2>2 DEF Metas
  <1>4. Log[s] \in [1..len[s] -> Requests]
    BY <1>2, <1>3
  <1> QED BY <1>1, <1>2, <1>4

(* The places of the abstract registry. *)
LEMMA LogPlaces ==
  ASSUME InductiveInv, KeyInv, VisitInv, NEW s \in Shards, NEW i \in 1..len[s]
  PROVE  <<s, i>> \in Abstract!Places
  BY LogFacts DEF Abstract!Places

(* A log changes only with the length or a published entry. *)
LEMMA LogSame ==
  ASSUME InductiveInv, VisitInv, UNCHANGED len,
         \A x \in Published : entries'[x] = entries[x]
  PROVE  Log' = Log
  <1>1. \A s \in Shards : \A i \in 1..len[s] : entries'[SlotAt(s, i)] = entries[SlotAt(s, i)]
    BY SlotOfPlace DEF VisitInv
  <1>2. \A s \in Shards :
          [i \in 1..len'[s] |-> entries'[SlotAt(s, i)].profile] =
            [i \in 1..len[s] |-> entries[SlotAt(s, i)].profile]
    BY <1>1
  <1> QED BY <1>2 DEF Log, SlotAt

(* Threads that do not move in a visit look the same to the abstract state. *)
LEMMA VisitsSame ==
  ASSUME \A u \in Threads :
           \/ /\ pc'[u] = pc[u] /\ cursor'[u] = cursor[u]
              /\ known'[u] = known[u] /\ seen'[u] = seen[u]
           \/ Walk(u) = "none" /\ Walk(u)' = "none"
  PROVE  Walks' = Walks /\ Musts' = Musts /\ Seens' = Seens
  <1>1. ASSUME NEW u \in Threads
        PROVE  /\ Walk(u)' = Walk(u)
               /\ OfVisit(u, PlacesOf(known[u]))' = OfVisit(u, PlacesOf(known[u]))
               /\ OfVisit(u, PlacesOf(Visited(u)))' = OfVisit(u, PlacesOf(Visited(u)))
    <2>1. CASE Walk(u) = "none" /\ Walk(u)' = "none"
      BY <2>1 DEF OfVisit
    <2>2. CASE /\ pc'[u] = pc[u] /\ cursor'[u] = cursor[u]
               /\ known'[u] = known[u] /\ seen'[u] = seen[u]
      <3>1. Walk(u)' = Walk(u)
        BY <2>2 DEF Walk
      <3>2. Visited(u)' = Visited(u) /\ PlacesOf(known'[u]) = PlacesOf(known[u])
        BY <2>2 DEF Visited
      <3> QED BY <3>1, <3>2 DEF OfVisit, PlacesOf
    <2> QED BY <2>1, <2>2
  <1> QED BY <1>1 DEF Walks, Musts, Seens

(* A thread is in a visit only while it walks. *)
LEMMA NoVisit ==
  ASSUME NEW u \in Threads
  PROVE  /\ pc[u] \notin Walking \cup {"walked"} \/ cursor[u].op # "visit" => Walk(u) = "none"
         /\ cursor[u].op = "visit" /\ pc[u] \in Walking => Walk(u) = "running"
         /\ cursor[u].op = "visit" /\ pc[u] = "walked" => Walk(u) = "done"
  BY DEF Walk, Walking

(* What a thread learns with a larger view. *)
LEMMA Learning ==
  ASSUME InductiveInv, KeyInv, VisitInv, NEW t \in Threads,
         view[t] \subseteq view'[t], OrderedView(view'[t], Published),
         \A u \in Threads \ {t} : view'[u] = view[u]
  PROVE  /\ Knows'[t] \in SUBSET Abstract!Places
         /\ Abstract!Learns(t, Knows'[t])
  <1> DEFINE K == KnownSlots(view'[t])
  <1>1. Knows'[t] = PlacesOf(K) /\ Knows[t] = PlacesOf(KnownSlots(view[t]))
    BY DEF Knows, PlacesOf, Place, KnownSlots, LenStore
  <1>2. KnownSlots(view[t]) \subseteq K
    BY KnownGrows
  <1>3. Knows[t] \subseteq Knows'[t]
    BY <1>1, <1>2 DEF PlacesOf
  <1>4. Knows' = [Knows EXCEPT ![t] = Knows'[t]]
    <2>1. \A u \in Threads \ {t} : Knows'[u] = Knows[u]
      BY DEF Knows
    <2> QED BY <2>1 DEF Knows
  <1>5. \A p \in PlacesOf(K) : p[1] \in Shards /\ p[2] \in 1..len[p[1]] /\ p = <<p[1], p[2]>>
    <2>1. K \in SUBSET Published /\ \A a \in Slots, b \in K : Before(a, b) => a \in K
      BY DEF OrderedView
    <2> HIDE DEF K
    <2> QED BY <2>1, PrefixPlaces DEF VisitInv
  <1>6. Knows'[t] \in SUBSET Abstract!Places
    BY <1>1, <1>5, LogPlaces
  <1> QED BY <1>3, <1>4, <1>6 DEF Abstract!Learns

(* A step that only lets a thread learn. *)
LEMMA LearnStep ==
  ASSUME InductiveInv, KeyInv, VisitInv, NEW t \in Threads,
         view[t] \subseteq view'[t], OrderedView(view'[t], Published),
         \A u \in Threads \ {t} : view'[u] = view[u],
         Log' = Log, UNCHANGED handles, Walks' = Walks, Musts' = Musts, Seens' = Seens
  PROVE  Abstract!Next
  <1>1. Knows'[t] \in SUBSET Abstract!Places /\ Abstract!Learns(t, Knows'[t])
    BY Learning
  <1>2. HandlePlaces' = HandlePlaces
    BY DEF HandlePlaces, Place
  <1>3. Abstract!Learn(t, Knows'[t])
    BY <1>1, <1>2 DEF Abstract!Learn, Abstract!visitVars
  <1> QED BY <1>1, <1>3 DEF Abstract!Next

----------------------------------------------------------------------------
(***************************************************************************)
(* Registrations.                                                          *)
(***************************************************************************)

(* A registration is no part of a visit. *)
LEMMA RegisterVisits ==
  ASSUME InductiveInv, NEW t \in Threads, Register(t)
  PROVE  Walks' = Walks /\ Musts' = Musts /\ Seens' = Seens
  <1>1. /\ UNCHANGED <<cursor, known, seen>>
        /\ pc[t] \in Registering \cup {"idle"} /\ pc'[t] \in Registering \cup {"idle"}
        /\ \A u \in Threads \ {t} : pc'[u] = pc[u]
    BY DEF Register, Lock, Allocate, Publish, StoreIndex, ReturnExisting, ReturnInserted,
           Return, Goto, AfterPublish, InductiveInv, TypeOK, Registering, walkVars
  <1>2. Walk(t) = "none" /\ Walk(t)' = "none"
    BY <1>1 DEF Walk, Registering, Walking
  <1> QED BY <1>1, <1>2, VisitsSame

(* Lock, Allocate and StoreIndex publish nothing: the thread learns what    *)
(* the lock brings.                                                         *)
LEMMA QuietRegister ==
  ASSUME InductiveInv, KeyInv, VisitInv, VisitInv', NEW t \in Threads,
         (\E r \in Requests : Lock(t, r)) \/ Allocate(t) \/ StoreIndex(t)
  PROVE  Abstract!Next
  <1> USE DEF InductiveInv
  <1>1. Walks' = Walks /\ Musts' = Musts /\ Seens' = Seens
    BY RegisterVisits DEF Register
  <1>2. UNCHANGED <<len, published_len, handles>>
    BY DEF Lock, Allocate, StoreIndex, memoryVars, shardVars
  <1>3. Published' = Published
    BY <1>2 DEF Published
  <1>4. \A x \in Published : entries'[x] = entries[x]
    <2>1. CASE Allocate(t)
      BY <2>1, AllocateKeeps DEF KeepsPublished
    <2>2. CASE StoreIndex(t) \/ \E r \in Requests : Lock(t, r)
      BY <2>2 DEF StoreIndex, Lock, memoryVars
    <2> QED BY <2>1, <2>2
  <1>5. Log' = Log
    BY <1>2, <1>4, LogSame
  <1>6. view[t] \subseteq view'[t] /\ \A u \in Threads \ {t} : view'[u] = view[u]
    <2>1. CASE Allocate(t)
      BY <2>1 DEF Allocate, TypeOK
    <2>2. CASE StoreIndex(t) \/ \E r \in Requests : Lock(t, r)
      BY <2>2 DEF StoreIndex, Lock, Acquire, TypeOK
    <2> QED BY <2>1, <2>2
  <1>7. OrderedView(view'[t], Published)
    BY <1>3 DEF VisitInv, OrderInv
  <1> QED BY <1>1, <1>2, <1>5, <1>6, <1>7, LearnStep

(* No slot of the shard has the key of a registration that found nothing.   *)
LEMMA KeyIsNew ==
  ASSUME InductiveInv, KeyInv, NEW t \in Threads, pc[t] = "publish",
         NEW x \in Published, x[1] = ShardLocked(t)
  PROVE  LookupKey(entries[x].profile) # LookupKey(req[t])
  <1>1. items[x[1]][LookupKey(req[t])] = None /\ pc[t] \in Registering
    BY DEF KeyInv, CallInv, Found, Registering
  <1>2. x # None
    BY ConstantFacts DEF Published
  <1>3. ASSUME NEW u \in Threads, pc[u] \in {"index", "insert"}, item[u] = x PROVE FALSE
    <2>1. ShardLocked(u) = ShardLocked(t) /\ pc[u] \in Registering /\ u # t
      BY <1>3 DEF KeyInv, CallInv, Registering
    <2> QED BY <1>1, <2>1, OneRegistration
  <1> QED BY <1>1, <1>2, <1>3 DEF KeyInv, LogInv

(* A sequence with one more element. *)
LEMMA Appended ==
  ASSUME NEW S, NEW n \in Nat, NEW f \in [1..n -> S], NEW e \in S,
         NEW g, g = [i \in 1..(n + 1) |-> IF i = n + 1 THEN e ELSE f[i]]
  PROVE  Append(f, e) = g
  <1>1. f \in Seq(S) /\ Len(f) = n
    OBVIOUS
  <1> DEFINE a == Append(f, e)
  <1>2. /\ a \in Seq(S) /\ Len(a) = n + 1
        /\ \A i \in 1..n : a[i] = f[i]
        /\ a[n + 1] = e
    BY <1>1, AppendProperties
  <1> HIDE DEF a
  <1>3. a = [i \in 1..(n + 1) |-> a[i]]
    BY <1>2
  <1>4. \A i \in 1..(n + 1) : i = n + 1 \/ i \in 1..n
    OBVIOUS
  <1> QED BY <1>2, <1>3, <1>4 DEF a

(* The release store of published_len inserts the metric in the log. *)
LEMMA PublishInserts ==
  ASSUME InductiveInv, KeyInv, VisitInv, NEW t \in Threads, Publish(t)
  PROVE  Abstract!Next
  <1> DEFINE s == ShardLocked(t)
             r == req[t]
             x == item[t]
             n == len[s]
  <1> USE DEF InductiveInv
  <1>1. pc[t] = "publish" /\ pc[t] \in Registering
    BY DEF Publish, Registering
  <1>2. /\ r \in Requests /\ s \in Shards /\ s = ShardOf[LookupKey(r)]
        /\ KeyOf[r] = LookupKey(r)
    BY <1>1, CallFacts DEF KeyOf
  <1>3. /\ x \in Slots /\ x[1] = s /\ x \notin Published
        /\ x = NextSlot(s)
    BY <1>1, PublishAdds DEF SlotInv
  <1>4. entries[x].profile = r
    <2>1. entries[x] = MetaOf(x, r)
      BY <1>1 DEF KeyInv, CallInv
    <2> QED BY <2>1 DEF MetaOf
  <1>5. /\ view'[t] = view[t] \cup {LenStore(x[1], x[2], x[3])}
        /\ \A u \in Threads \ {t} : view'[u] = view[u]
        /\ len' = [len EXCEPT ![s] = n + 1]
        /\ UNCHANGED <<entries, handles>>
    BY <1>3 DEF Publish, Acquire, TypeOK
  <1>6. /\ n \in Nat /\ Log[s] \in [1..n -> Requests] /\ Len(Log[s]) = n
        /\ DOMAIN Log[s] = 1..n
        /\ \A i \in 1..n : Log[s][i] = entries[SlotAt(s, i)].profile
    BY <1>2, LogFacts
  <1>7. SlotAt(s, n + 1) = x /\ Place(x) = <<s, n + 1>>
    <2>1. (n + 1) - 1 = n
      BY <1>6
    <2>2. x = <<s, n \div ChunkSize, n % ChunkSize>>
      BY <1>3 DEF NextSlot
    <2>3. SlotAt(s, n + 1) = x
      BY <2>1, <2>2 DEF SlotAt
    <2> DEFINE q == n \div ChunkSize
               o == n % ChunkSize
    <2> HIDE DEF n, s
    <2>4. ChunkSize \in Nat \ {0} /\ n \in Nat
      BY <1>6, ConstantFacts
    <2>5. q \in Nat /\ o \in Nat /\ n = ChunkSize * q + o
      BY <2>4
    <2> HIDE DEF q, o
    <2>6. q * ChunkSize + o + 1 = n + 1
      BY <2>4, <2>5
    <2>7. Place(<<s, q, o>>) = <<s, n + 1>>
      BY <2>6 DEF Place
    <2> QED BY <2>2, <2>3, <2>7 DEF q, o
  <1>8. \A i \in 1..n : KeyOf[Log[s][i]] # KeyOf[r]
    <2> TAKE i \in 1..n
    <2>1. SlotAt(s, i) \in Published /\ SlotAt(s, i)[1] = s
      BY <1>2, SlotOfPlace DEF VisitInv
    <2>2. LookupKey(entries[SlotAt(s, i)].profile) # LookupKey(r)
      BY <1>1, <2>1, KeyIsNew
    <2>3. Log[s][i] \in Requests /\ Log[s][i] = entries[SlotAt(s, i)].profile
      BY <1>6
    <2> QED BY <1>2, <2>2, <2>3 DEF KeyOf
  <1>9. Log' = [Log EXCEPT ![s] = Append(@, r)]
    <2>1. Log'[s] = [i \in 1..(n + 1) |-> IF i = n + 1 THEN r ELSE Log[s][i]]
      <3>1. Log'[s] = [i \in 1..(n + 1) |-> entries[SlotAt(s, i)].profile]
        <4>1. len'[s] = n + 1
          BY <1>2, <1>5 DEF TypeOK
        <4> QED BY <1>2, <1>5, <4>1 DEF Log, SlotAt
      <3>2. \A i \in 1..(n + 1) : i = n + 1 \/ i \in 1..n
        BY <1>6
      <3> QED BY <1>4, <1>6, <1>7, <3>1, <3>2
    <2>2. Log'[s] = Append(Log[s], r)
      <3> HIDE DEF s, r, n
      <3> QED BY <1>2, <1>6, <2>1, Appended
    <2>3. \A y \in Shards \ {s} : Log'[y] = Log[y]
      BY <1>5 DEF Log, SlotAt, TypeOK
    <2>4. Log = [y \in Shards |-> Log[y]] /\ Log' = [y \in Shards |-> Log'[y]]
      BY DEF Log
    <2> HIDE DEF s, r
    <2> QED BY <1>2, <2>2, <2>3, <2>4
  <1>10. Knows' = [Knows EXCEPT ![t] = @ \cup {<<s, Len(Log[s]) + 1>>}]
    <2>1. KnownSlots(view'[t]) = KnownSlots(view[t]) \cup {x}
      <3> DEFINE W == {LenStore(x[1], x[2], x[3])}
      <3>1. KnownSlots(W) = {x}
        BY <1>3, KnownLen
      <3>2. KnownSlots(view[t] \cup W) = KnownSlots(view[t]) \cup KnownSlots(W)
        BY KnownUnion
      <3> QED BY <1>5, <3>1, <3>2
    <2>2. PlacesOf(KnownSlots(view'[t])) = PlacesOf(KnownSlots(view[t])) \cup {<<s, n + 1>>}
      BY <1>7, <2>1 DEF PlacesOf
    <2>3. Knows' = [u \in Threads |-> PlacesOf(KnownSlots(view'[u]))]
      BY DEF Knows, PlacesOf, KnownSlots, Place, LenStore
    <2>4. Knows'[t] = Knows[t] \cup {<<s, n + 1>>}
      BY <2>2, <2>3 DEF Knows
    <2>5. \A u \in Threads \ {t} : Knows'[u] = Knows[u]
      BY <1>5, <2>3 DEF Knows
    <2> QED BY <1>6, <2>3, <2>4, <2>5 DEF Knows
  <1>11. HandlePlaces' = HandlePlaces
    BY <1>5 DEF HandlePlaces, Place
  <1>12. Walks' = Walks /\ Musts' = Musts /\ Seens' = Seens
    BY RegisterVisits DEF Register
  <1>13. ShardOf[KeyOf[r]] = s
    BY <1>2
  <1>14. Abstract!Insert(t, r)
    <2> HIDE DEF s, r, n
    <2> QED BY <1>6, <1>8, <1>9, <1>10, <1>11, <1>12, <1>13 DEF Abstract!Insert, Abstract!visitVars
  <1> QED BY <1>2, <1>14 DEF Abstract!Next

(* The guard is dropped on a metric the thread knows, under its key. *)
LEMMA ReturnReturns ==
  ASSUME InductiveInv, KeyInv, VisitInv, NEW t \in Threads,
         ReturnExisting(t) \/ ReturnInserted(t)
  PROVE  Abstract!Next
  <1> DEFINE s == ShardLocked(t)
             r == req[t]
             x == item[t]
             p == Place(x)
  <1> USE DEF InductiveInv
  <1>1. Return(t) /\ pc[t] \in {"existing", "insert"} /\ pc[t] \in Registering
    BY DEF ReturnExisting, ReturnInserted, Registering
  <1>2. /\ r \in Requests /\ s \in Shards /\ s = ShardOf[LookupKey(r)]
        /\ LookupKey(r) \in Keys /\ KeyOf[r] = LookupKey(r) /\ Policies[r] = PolicyOf(r)
        /\ x \in Slots
    BY <1>1, CallFacts DEF KeyOf, Policies, SlotInv
  <1>3. /\ x \in Published /\ x[1] = s /\ x \in KnownSlots(view[t])
        /\ LookupKey(entries[x].profile) = LookupKey(r)
    <2>1. CASE pc[t] = "insert"
      <3>1. entries[x] = MetaOf(x, r) /\ x \in Published /\ x[1] = s
        BY <2>1 DEF KeyInv, CallInv
      <3>2. x \in KnownSlots(view[t])
        BY <2>1 DEF VisitInv, IndexInv
      <3> QED BY <3>1, <3>2 DEF MetaOf
    <2>2. CASE pc[t] = "existing"
      <3>1. items[s][LookupKey(r)] = x /\ x # None
        BY <1>2, <2>2, ConstantFacts DEF KeyInv, CallInv, Found
      <3>2. x \in Published /\ x[1] = s /\ LookupKey(entries[x].profile) = LookupKey(r)
        BY <1>2, <3>1 DEF KeyInv, MapInv
      <3>3. OwnerView(s) = view[t]
        BY <1>1, ConstantFacts, RegistryAssumption DEF LockInv, OwnerView
      <3> QED BY <3>2, <3>3, OwnerKnows DEF VisitInv
    <2> QED BY <1>1, <2>1, <2>2
  <1>4. p \in Knows[t]
    BY <1>3 DEF Knows, PlacesOf
  <1>5. p \in Abstract!Places /\ KeyOf[Abstract!At(p)] = KeyOf[r]
    <2>1. p = <<s, p[2]>> /\ p[1] = s /\ SlotAt(s, p[2]) = x /\ p[2] \in 1..len[s]
      BY <1>2, <1>3, PlaceFacts, PlaceInLog
    <2>2. Log[s][p[2]] = entries[x].profile /\ Log[s][p[2]] \in Requests
      BY <1>2, <2>1, LogFacts
    <2>3. p \in Abstract!Places
      BY <1>2, <2>1, LogPlaces
    <2>4. Abstract!At(p) = Log[s][p[2]]
      BY <2>1 DEF Abstract!At
    <2> QED BY <1>2, <1>3, <2>2, <2>3, <2>4 DEF KeyOf
  <1>6. HandlePlaces' = HandlePlaces \cup {[key |-> KeyOf[r], item |-> p, policy |-> Policies[r]]}
    <2> DEFINE h == [key |-> LookupKey(r), item |-> x, policy |-> PolicyOf(r)]
    <2>1. handles' = handles \cup {h}
      BY <1>1 DEF Return
    <2>2. [h EXCEPT !.item = Place(h.item)] = [key |-> KeyOf[r], item |-> p, policy |-> Policies[r]]
      BY <1>2
    <2>3. HandlePlaces' = {[g EXCEPT !.item = Place(g.item)] : g \in handles'}
      BY DEF HandlePlaces, Place
    <2> HIDE DEF h
    <2> QED BY <2>1, <2>2, <2>3 DEF HandlePlaces
  <1>7. Log' = Log
    <2>1. UNCHANGED <<len, entries>>
      BY <1>1 DEF Return, memoryVars
    <2> QED BY <2>1 DEF Log, SlotAt
  <1>8. Knows' = Knows
    BY <1>1 DEF Return, Knows, PlacesOf, KnownSlots, LenStore, Place
  <1>9. Walks' = Walks /\ Musts' = Musts /\ Seens' = Seens
    BY RegisterVisits DEF Register
  <1>10. Abstract!Return(t, r, p)
    <2> HIDE DEF r, p
    <2> QED BY <1>4, <1>5, <1>6, <1>7, <1>8, <1>9 DEF Abstract!Return, Abstract!visitVars
  <1> QED BY <1>2, <1>5, <1>10 DEF Abstract!Next

----------------------------------------------------------------------------
(***************************************************************************)
(* Traversals.                                                             *)
(***************************************************************************)

(* What every step of a traversal leaves alone, and what it brings. *)
LEMMA WalkKeeps ==
  ASSUME InductiveInv, VisitInv, NEW t \in Threads,
         WalkStep(t) \/ \E op \in {"visit", "len"} : BeginWalk(t, op)
  PROVE  /\ Log' = Log /\ UNCHANGED handles /\ HandlePlaces' = HandlePlaces
         /\ Published' = Published
         /\ view[t] \subseteq view'[t] /\ OrderedView(view'[t], Published)
         /\ \A u \in Threads \ {t} :
              /\ pc'[u] = pc[u] /\ cursor'[u] = cursor[u] /\ view'[u] = view[u]
              /\ known'[u] = known[u] /\ seen'[u] = seen[u]
  <1>1. /\ UNCHANGED <<shardVars, memoryVars, handles>>
        /\ \A u \in Threads \ {t} : pc'[u] = pc[u] /\ cursor'[u] = cursor[u]
    BY WalkPc DEF InductiveInv
  <1>2. UNCHANGED <<len, entries, published_len>>
    BY <1>1 DEF shardVars, memoryVars
  <1>3. Log' = Log /\ HandlePlaces' = HandlePlaces /\ Published' = Published
    BY <1>1, <1>2 DEF Log, SlotAt, HandlePlaces, Place, Published
  <1> QED BY <1>1, <1>3, WalkViews

(* The steps of `len`, and of nothing, teach the thread only. *)
LEMMA WalkLearns ==
  ASSUME InductiveInv, KeyInv, VisitInv, NEW t \in Threads,
         WalkStep(t) \/ \E op \in {"visit", "len"} : BeginWalk(t, op),
         Walk(t) = "none", Walk(t)' = "none"
  PROVE  Abstract!Next
  <1>1. Walks' = Walks /\ Musts' = Musts /\ Seens' = Seens
    BY WalkKeeps, VisitsSame
  <1> QED BY <1>1, WalkKeeps, LearnStep

(* Only the traversing thread's part of the abstract visits changes. *)
LEMMA VisitsOf ==
  ASSUME NEW t \in Threads,
         \A u \in Threads \ {t} :
           /\ pc'[u] = pc[u] /\ cursor'[u] = cursor[u]
           /\ known'[u] = known[u] /\ seen'[u] = seen[u]
  PROVE  /\ Walks' = [Walks EXCEPT ![t] = Walk(t)']
         /\ Musts' = [Musts EXCEPT ![t] = OfVisit(t, PlacesOf(known[t]))']
         /\ Seens' = [Seens EXCEPT ![t] = OfVisit(t, PlacesOf(Visited(t)))']
  <1>1. ASSUME NEW u \in Threads \ {t}
        PROVE  /\ Walk(u)' = Walk(u)
               /\ OfVisit(u, PlacesOf(known[u]))' = OfVisit(u, PlacesOf(known[u]))
               /\ OfVisit(u, PlacesOf(Visited(u)))' = OfVisit(u, PlacesOf(Visited(u)))
    <2>1. Walk(u)' = Walk(u)
      BY DEF Walk
    <2>2. Visited(u)' = Visited(u) /\ PlacesOf(known'[u]) = PlacesOf(known[u])
      BY DEF Visited
    <2> QED BY <2>1, <2>2 DEF OfVisit, PlacesOf
  <1>2. Walks' = [Walks EXCEPT ![t] = Walk(t)']
    BY <1>1 DEF Walks
  <1>3. Musts' = [Musts EXCEPT ![t] = OfVisit(t, PlacesOf(known[t]))']
    BY <1>1 DEF Musts
  <1>4. Seens' = [Seens EXCEPT ![t] = OfVisit(t, PlacesOf(Visited(t)))']
    BY <1>1 DEF Seens
  <1> QED BY <1>2, <1>3, <1>4

(* A visit begins with what its thread knows. *)
LEMMA BeginRefines ==
  ASSUME InductiveInv, KeyInv, VisitInv, NEW t \in Threads, NEW op \in {"visit", "len"},
         BeginWalk(t, op)
  PROVE  Abstract!Next
  <1> USE DEF InductiveInv
  <1>1. /\ pc[t] = "idle" /\ pc'[t] = "load_index" /\ cursor'[t] = StartCursor(op)
        /\ known'[t] = KnownSlots(view[t]) /\ seen'[t] = {} /\ UNCHANGED view
    BY DEF BeginWalk, Goto, TypeOK
  <1>2. cursor'[t].op = op
    BY <1>1 DEF StartCursor
  <1>3. Walk(t) = "none"
    BY <1>1 DEF Walk, Walking
  <1>4. CASE op = "len"
    <2>1. Walk(t)' = "none"
      BY <1>1, <1>2, <1>4 DEF Walk
    <2> QED BY <1>3, <2>1, WalkLearns
  <1>5. CASE op = "visit"
    <2>1. Walk(t)' = "running"
      BY <1>1, <1>2, <1>5 DEF Walk, Walking
    <2>2. OfVisit(t, PlacesOf(known[t]))' = Knows[t]
      BY <1>1, <2>1 DEF OfVisit, Knows, PlacesOf, Place
    <2>3. OfVisit(t, PlacesOf(Visited(t)))' = {} /\ Seens[t] = {}
      BY <1>1, <1>3, <2>1 DEF OfVisit, PlacesOf, Visited, Seens
    <2>4. /\ Walks' = [Walks EXCEPT ![t] = "running"]
          /\ Musts' = [Musts EXCEPT ![t] = Knows[t]]
          /\ Seens' = [Seens EXCEPT ![t] = {}]
      <3>1. \A u \in Threads \ {t} :
              /\ pc'[u] = pc[u] /\ cursor'[u] = cursor[u]
              /\ known'[u] = known[u] /\ seen'[u] = seen[u]
        BY WalkKeeps
      <3> QED BY <2>1, <2>2, <2>3, <3>1, VisitsOf
    <2>5. Seens' = Seens
      BY <2>3, <2>4 DEF Seens
    <2>6. Walks[t] = "none"
      BY <1>3 DEF Walks
    <2>7. Knows' = Knows
      BY <1>1 DEF Knows, PlacesOf, Place, KnownSlots, LenStore
    <2>8. Log' = Log /\ HandlePlaces' = HandlePlaces
      BY WalkKeeps
    <2>9. Abstract!BeginVisit(t)
      BY <2>4, <2>5, <2>6, <2>7, <2>8 DEF Abstract!BeginVisit
    <2> QED BY <2>9 DEF Abstract!Next
  <1> QED BY <1>4, <1>5

(* The end of a visit forgets it. *)
LEMMA EndRefines ==
  ASSUME InductiveInv, KeyInv, VisitInv, NEW t \in Threads, EndWalk(t)
  PROVE  Abstract!Next
  <1> USE DEF InductiveInv
  <1>1. /\ pc[t] = "walked" /\ pc'[t] = "idle" /\ cursor[t].op \in {"visit", "len"}
        /\ known'[t] = {} /\ seen'[t] = {} /\ UNCHANGED view
    BY DEF EndWalk, Goto, TypeOK, Cursors
  <1>2. Walk(t)' = "none"
    BY <1>1 DEF Walk, Walking
  <1>3. CASE cursor[t].op = "len"
    <2>1. Walk(t) = "none"
      BY <1>3 DEF Walk
    <2> QED BY <1>2, <2>1, WalkLearns DEF WalkStep
  <1>4. CASE cursor[t].op = "visit"
    <2>1. Walks[t] = "done"
      BY <1>1, <1>4 DEF Walks, Walk, Walking
    <2>2. OfVisit(t, PlacesOf(known[t]))' = {} /\ OfVisit(t, PlacesOf(Visited(t)))' = {}
      BY <1>2 DEF OfVisit
    <2>3. /\ Walks' = [Walks EXCEPT ![t] = "none"]
          /\ Musts' = [Musts EXCEPT ![t] = {}]
          /\ Seens' = [Seens EXCEPT ![t] = {}]
      <3>1. \A u \in Threads \ {t} :
              /\ pc'[u] = pc[u] /\ cursor'[u] = cursor[u]
              /\ known'[u] = known[u] /\ seen'[u] = seen[u]
        BY WalkKeeps DEF WalkStep
      <3> QED BY <1>2, <2>2, <3>1, VisitsOf
    <2>4. Knows' = Knows
      BY <1>1 DEF Knows, PlacesOf, Place, KnownSlots, LenStore
    <2>5. Log' = Log /\ HandlePlaces' = HandlePlaces
      BY WalkKeeps DEF WalkStep
    <2>6. Abstract!EndVisit(t)
      BY <2>1, <2>3, <2>4, <2>5 DEF Abstract!EndVisit
    <2> QED BY <2>6 DEF Abstract!Next
  <1> QED BY <1>1, <1>3, <1>4

(* A traversal loads and reads on without changing what it is. *)
LEMMA WalkGoesOn ==
  ASSUME InductiveInv, NEW t \in Threads, LoadIndex(t) \/ LoadLen(t) \/ GetEntry(t)
  PROVE  /\ pc[t] \in Walking /\ pc'[t] \in Walking \cup {"walked"}
         /\ cursor'[t].op = cursor[t].op /\ cursor[t].op \in {"visit", "len"}
         /\ known'[t] = known[t] /\ seen[t] \subseteq seen'[t]
  <1> USE DEF InductiveInv
  <1>1. cursor[t] \in Cursors /\ cursor[t].op \in {"visit", "len"} /\ pc[t] \in Walking
    BY DEF LoadIndex, LoadLen, GetEntry, Walking, TypeOK, Cursors
  <1>2. ASSUME NextPosition(t, cursor[t])
        PROVE  pc'[t] \in Walking \cup {"walked"} /\ cursor'[t].op = cursor[t].op
    BY <1>2, NextPositionLeaves DEF Leaves, Walking
  <1>3. ASSUME NEW k PROVE [cursor[t] EXCEPT !.chunks = k].op = cursor[t].op
                           /\ [cursor[t] EXCEPT !.len = k].op = cursor[t].op
                           /\ [cursor[t] EXCEPT !.offset = k].op = cursor[t].op
    BY <1>1 DEF Cursors
  <1>4. pc'[t] \in Walking \cup {"walked"} /\ cursor'[t].op = cursor[t].op
    <2>0. ASSUME NEW cur, cursor' = [cursor EXCEPT ![t] = cur], cur.op = cursor[t].op
          PROVE  cursor'[t].op = cursor[t].op
      BY <2>0 DEF TypeOK
    <2>1. CASE LoadIndex(t)
      <3>1. PICK k : WithIndex(t, cursor[t].shard, k)
        BY <2>1 DEF LoadIndex
      <3>2. CASE k = 0
        BY <1>2, <3>1, <3>2 DEF WithIndex
      <3>3. CASE k # 0
        <4>1. /\ cursor' = [cursor EXCEPT ![t] = [cursor[t] EXCEPT !.chunks = k]]
              /\ Goto(t, "load_len")
          BY <3>1, <3>3 DEF WithIndex
        <4> QED BY <1>3, <2>0, <4>1 DEF Goto, TypeOK, Walking
      <3> QED BY <3>2, <3>3
    <2>2. CASE LoadLen(t)
      <3>1. PICK n : IF cursor[t].op = "len" \/ n = 0
                       THEN NextPosition(t, cursor[t])
                       ELSE /\ cursor' = [cursor EXCEPT ![t] = [cursor[t] EXCEPT !.len = n]]
                            /\ Goto(t, "get")
        BY <2>2 DEF LoadLen
      <3>2. CASE NextPosition(t, cursor[t])
        BY <1>2, <3>2
      <3>3. CASE /\ cursor' = [cursor EXCEPT ![t] = [cursor[t] EXCEPT !.len = n]]
                 /\ Goto(t, "get")
        BY <1>3, <2>0, <3>3 DEF Goto, TypeOK, Walking
      <3> QED BY <3>1, <3>2, <3>3
    <2>3. CASE GetEntry(t)
      <3>1. CASE NextPosition(t, cursor[t])
        BY <1>2, <3>1
      <3>2. CASE /\ cursor' = [cursor EXCEPT ![t] = [cursor[t] EXCEPT !.offset = @ + 1]]
                 /\ UNCHANGED pc
        BY <1>1, <1>3, <2>0, <3>2
      <3> QED BY <2>3, <3>1, <3>2 DEF GetEntry
    <2> QED BY <2>1, <2>2, <2>3
  <1>5. known'[t] = known[t]
    BY DEF LoadIndex, WithIndex, LoadLen, GetEntry
  <1>6. seen[t] \subseteq seen'[t]
    <2>1. CASE GetEntry(t)
      BY <2>1 DEF GetEntry, TypeOK
    <2>2. CASE LoadIndex(t) \/ LoadLen(t)
      BY <2>2 DEF LoadIndex, WithIndex, LoadLen
    <2> QED BY <2>1, <2>2
  <1> QED BY <1>1, <1>4, <1>5, <1>6

(* A step of a visit goes on to a longer prefix, and ends with all of what  *)
(* its thread knew.                                                         *)
LEMMA VisitRefines ==
  ASSUME InductiveInv, KeyInv, VisitInv, InductiveInv', VisitInv', NEW t \in Threads,
         LoadIndex(t) \/ LoadLen(t) \/ GetEntry(t), cursor[t].op = "visit"
  PROVE  Abstract!Next
  <1> DEFINE next == Walk(t)'
             P == PlacesOf(Visited(t)')
  <1>1. /\ pc[t] \in Walking /\ pc'[t] \in Walking \cup {"walked"} /\ cursor'[t].op = "visit"
        /\ known'[t] = known[t] /\ seen[t] \subseteq seen'[t]
    BY WalkGoesOn
  <1>2. /\ Log' = Log /\ HandlePlaces' = HandlePlaces /\ Published' = Published
        /\ view[t] \subseteq view'[t] /\ OrderedView(view'[t], Published)
        /\ \A u \in Threads \ {t} :
             /\ pc'[u] = pc[u] /\ cursor'[u] = cursor[u] /\ view'[u] = view[u]
             /\ known'[u] = known[u] /\ seen'[u] = seen[u]
    BY WalkKeeps DEF WalkStep
  <1>3. Knows'[t] \in SUBSET Abstract!Places /\ Abstract!Learns(t, Knows'[t])
    BY <1>2, Learning
  <1>4. /\ Walk(t) = "running" /\ next \in {"running", "done"}
        /\ next = "done" => pc'[t] = "walked"
    BY <1>1 DEF Walk, Walking
  <1>5. PICK C \in SUBSET Slots : Counted(t, C)'
    BY <1>1 DEF VisitInv, TourInv
  <1>6. /\ C = Visited(t)' /\ C \subseteq KnownSlots(view'[t])
        /\ \A a \in Slots, b \in C : Before(a, b) => a \in C
    BY <1>1, <1>5 DEF Counted, Tour
  <1>7. C \in SUBSET Published
    BY <1>2, <1>6 DEF OrderedView
  <1>8. /\ \A p \in PlacesOf(C) : \A i \in 1..p[2] : <<p[1], i>> \in PlacesOf(C)
        /\ \A p \in PlacesOf(C) : p[1] \in Shards /\ p[2] \in 1..len[p[1]] /\ p = <<p[1], p[2]>>
    BY <1>6, <1>7, PrefixPlaces DEF VisitInv
  <1>9. P \in SUBSET Abstract!Places /\ Abstract!PrefixClosed(P)
    BY <1>6, <1>8, LogPlaces DEF Abstract!PrefixClosed
  <1>10. Seens[t] \subseteq P
    <2>1. Visited(t) \subseteq Visited(t)'
      BY <1>1 DEF Visited
    <2> QED BY <1>4, <2>1 DEF Seens, OfVisit, PlacesOf
  <1>11. next = "done" => Musts[t] \subseteq P
    <2> SUFFICES ASSUME next = "done" PROVE Musts[t] \subseteq P
      OBVIOUS
    <2>1. pc'[t] = "walked" /\ known[t] \subseteq Slots
      BY <1>4 DEF InductiveInv, TypeOK
    <2>2. known[t] \subseteq C
      BY <1>1, <1>5, <2>1 DEF Counted, Tour, Passed
    <2>3. Musts[t] = PlacesOf(known[t])
      BY <1>4 DEF Musts, OfVisit
    <2> QED BY <1>6, <2>2, <2>3 DEF PlacesOf
  <1>12. /\ Walks' = [Walks EXCEPT ![t] = Walk(t)']
         /\ Musts' = [Musts EXCEPT ![t] = OfVisit(t, PlacesOf(known[t]))']
         /\ Seens' = [Seens EXCEPT ![t] = OfVisit(t, PlacesOf(Visited(t)))']
    BY <1>2, VisitsOf
  <1>13. Musts' = Musts
    <2>1. OfVisit(t, PlacesOf(known[t]))' = Musts[t]
      BY <1>1, <1>4 DEF Musts, OfVisit, PlacesOf, Place
    <2> QED BY <1>12, <2>1 DEF Musts
  <1>14. Seens' = [Seens EXCEPT ![t] = P]
    <2>1. OfVisit(t, PlacesOf(Visited(t)))' = P
      BY <1>4 DEF OfVisit, PlacesOf, Place
    <2> QED BY <1>12, <2>1
  <1>15. Walks[t] = "running"
    BY <1>4 DEF Walks
  <1> HIDE DEF P
  <1>16. Walks' = [Walks EXCEPT ![t] = next]
    BY <1>12
  <1> HIDE DEF next
  <1>17. Abstract!Visit(t, Knows'[t], P, next)
    BY <1>2, <1>3, <1>9, <1>10, <1>11, <1>13, <1>14, <1>15, <1>16 DEF Abstract!Visit
  <1> QED BY <1>3, <1>4, <1>9, <1>17 DEF Abstract!Next

(* A step of a traversal. *)
LEMMA WalkRefines ==
  ASSUME InductiveInv, KeyInv, VisitInv, InductiveInv', VisitInv', NEW t \in Threads, WalkStep(t)
  PROVE  Abstract!Next
  <1>1. CASE EndWalk(t)
    BY <1>1, EndRefines
  <1>2. CASE LoadIndex(t) \/ LoadLen(t) \/ GetEntry(t)
    <2>1. CASE cursor[t].op = "visit"
      BY <1>2, <2>1, VisitRefines
    <2>2. CASE cursor[t].op = "len"
      <3>1. cursor'[t].op = "len"
        BY <1>2, <2>2, WalkGoesOn
      <3>2. Walk(t) = "none" /\ Walk(t)' = "none"
        BY <2>2, <3>1 DEF Walk
      <3> QED BY <3>2, WalkLearns
    <2>3. cursor[t].op \in {"visit", "len"}
      BY <1>2, WalkGoesOn
    <2> QED BY <2>1, <2>2, <2>3
  <1> QED BY <1>1, <1>2 DEF WalkStep

----------------------------------------------------------------------------
(* Synchronisation elsewhere lets one thread learn what the other knows. *)
LEMMA SynchronizeRefines ==
  ASSUME InductiveInv, KeyInv, VisitInv, VisitInv', NEW a \in Threads, NEW b \in Threads,
         Synchronize(a, b)
  PROVE  Abstract!Next
  <1>1. /\ UNCHANGED <<pc, cursor, known, seen, len, entries, published_len, handles>>
        /\ view[b] \subseteq view'[b]
        /\ \A u \in Threads \ {b} : view'[u] = view[u]
    BY DEF Synchronize, Acquire, InductiveInv, TypeOK, shardVars, memoryVars, walkVars
  <1>2. Walks' = Walks /\ Musts' = Musts /\ Seens' = Seens
    BY <1>1, VisitsSame
  <1>3. Log' = Log /\ Published' = Published
    BY <1>1 DEF Log, SlotAt, Published
  <1>4. OrderedView(view'[b], Published)
    BY <1>3 DEF VisitInv, OrderInv
  <1> QED BY <1>1, <1>2, <1>3, <1>4, LearnStep

(* The empty registry stands for empty logs. *)
LEMMA InitRefines == Init => Abstract!Init
  <1> SUFFICES ASSUME Init PROVE Abstract!Init
    OBVIOUS
  <1>1. Log = [s \in Shards |-> <<>>]
    <2>1. \A s \in Shards : [i \in 1..len[s] |-> entries[SlotAt(s, i)].profile] = <<>>
      BY DEF Init
    <2> QED BY <2>1 DEF Log
  <1>2. HandlePlaces = {}
    BY DEF Init, HandlePlaces
  <1>3. Knows = [t \in Threads |-> {}]
    BY DEF Init, Knows, PlacesOf, KnownSlots
  <1>4. \A t \in Threads : Walk(t) = "none"
    BY DEF Init, Walk, Walking
  <1>5. /\ Walks = [t \in Threads |-> "none"]
        /\ Musts = [t \in Threads |-> {}]
        /\ Seens = [t \in Threads |-> {}]
    BY <1>4 DEF Walks, Musts, Seens, OfVisit
  <1> QED BY <1>1, <1>2, <1>3, <1>5 DEF Abstract!Init

(* Every step of the registry is a step of the abstract one, or none. *)
LEMMA NextRefines ==
  InductiveInv /\ KeyInv /\ VisitInv /\ InductiveInv' /\ VisitInv' /\ [Next]_vars
    => [Abstract!Next]_(Abstract!vars)
  <1> SUFFICES ASSUME InductiveInv, KeyInv, VisitInv, InductiveInv', VisitInv', [Next]_vars
               PROVE  [Abstract!Next]_(Abstract!vars)
    OBVIOUS
  <1>1. CASE \E t \in Threads : Register(t)
    BY <1>1, QuietRegister, PublishInserts, ReturnReturns DEF Register
  <1>2. CASE \E t \in Threads, op \in {"visit", "len"} : BeginWalk(t, op)
    BY <1>2, BeginRefines
  <1>3. CASE \E t \in Threads : WalkStep(t)
    BY <1>3, WalkRefines
  <1>4. CASE \E a, b \in Threads : Synchronize(a, b)
    BY <1>4, SynchronizeRefines
  <1>5. CASE UNCHANGED vars
    <2>1. UNCHANGED <<pc, cursor, known, seen, len, entries, handles, view>>
      BY <1>5 DEF vars, shardVars, memoryVars, walkVars
    <2>2. Walks' = Walks /\ Musts' = Musts /\ Seens' = Seens
      BY <2>1, VisitsSame
    <2>3. Log' = Log /\ HandlePlaces' = HandlePlaces /\ Knows' = Knows
      BY <2>1 DEF Log, SlotAt, HandlePlaces, Place, Knows, PlacesOf, KnownSlots, LenStore
    <2> QED BY <2>2, <2>3 DEF Abstract!vars, Abstract!visitVars
  <1> QED BY <1>1, <1>2, <1>3, <1>4, <1>5 DEF Next

(* The registry of registry.rs and scalar.rs, with its mutexes, chunks,     *)
(* indices and memory order, keeps the whole promise of AbstractRegistry,   *)
(* for any number of threads, shards and requests and any chunk size.       *)
THEOREM Refinement == Spec => ImplementsAbstract
  <1>1. Spec => Abstract!Spec
    BY InitRefines, NextRefines, Invariance, KeyInvariance, VisitInvariance, PTL
    DEF Spec, Abstract!Spec
  <1> QED BY <1>1 DEF ImplementsAbstract

============================================================================
