# Verification of the metrics crate

`metrics` is a process-wide, in-memory metrics library. Application threads
register metrics (rarely), update counters (constantly) and a scrape traverses
everything while both go on. Registration takes a mutex per shard; recording and
traversal take none. What is hard about the crate is therefore memory ordering
and interleaving; that is modelled first, then what a visit and a scrape make of it,
and last how a version of the crate gets published.

Paths are relative to the repository (`src/registry.rs`); `PROJECT.json` gives the
lines each definition models.

## Inventory

| Part | State | Operations | Interacts with |
|---|---|---|---|
| timing registry (`registry.rs`) | 64 shards: a mutex over three maps, `len`, slot chunks and metadata chunks; per chunk a `published_len`; per shard an `ArcSwap` chunk index | `register`, `register_resource`, `register_profile`, `visit`, `len` | called by the constructors of `Metric`; traversed by `visit` and by the reader |
| metric slot (`metric.rs`) | six relaxed atomics per slot | `record`, `increment`, `snapshot` | shared by every copy of a handle; read by traversals |
| metric identities (`metric.rs`, `plan.rs`) | none | validation, policy of a kind, slow threshold | used by registration and recording |
| scalar registry (`scalar.rs`) | like the timing registry with two maps and one atomic per slot | counters, gauges, connection guards | traversed by the reader |
| RPC state (`state.rs`) | one mutex over the last values of each resource | `record`, `snapshot` | read by the reader |
| Prometheus reader (`prometheus.rs`) | captured sources, position in the families, the current line | capture, `Read`, `AsyncRead` | traverses both registries and the RPC state |
| plans and labels (`plan.rs`, `resource.rs`) | none | builders, identity of a plan | key of `register_profile`, rows of `visit`, labels of the reader |
| facade (`lib.rs`) | the `OnceLock` registry | typed constructors, `visit`, `len`, `record_rpc_state` | all of the above |
| release automation (`.github/`) | branch and tags of the repository, crates.io | prepare, check, atomic push, upload, retry | none of the above |

Hard behaviours, and what correctness means for each part:

- **timing registry.** Plain writes of metadata are read by threads that never
  take the mutex; safety rests on one release store per entry and one per new
  chunk. Correct means: no traversal reads an uninitialized entry; published
  entries never change; a key has one slot however many threads race for it; a
  visit sees a prefix of each shard that holds everything registered before it
  began; a traversal ends even if registrations stall.
- **metric slot.** Six counters are updated and read one by one, all relaxed.
  Correct means: a completed record is in every later snapshot, a snapshot at
  rest is exact, successive snapshots do not go backwards, counters read at
  different moments do not produce nonsense.
- **scalar registry.** The same publication protocol with the map insert before
  the index store; the gauge and the total of a connection are two atomics.
- **reader.** Sources are captured at different times, sorted and grouped by
  adjacency; sums saturate, values are rounded, output is cut at arbitrary
  buffer boundaries.
- **facade.** From a record to a row of a visit there are a handle, a slot, a
  registry that grows and a plan with several views: correct means that no record is
  lost on the way, and that the views of one plan agree.
- **release automation.** A run can die after any of its steps, is retried weeks
  later or is started again on an old commit, while developers push.

## Modules

| Module | Models |
|---|---|
| `MetricTypes` | `MetricType`, its validation and policy, the slow thresholds |
| `Requests` | the registrations an application can ask for: constructors, plans, labels, the lookup key and the policy of each, which are admitted |
| `Registry` | the timing and the scalar registry: registrations and traversals of any number of threads on a weak memory; properties and inductive invariant |
| `AbstractRegistry` | what a registry promises, as an abstract specification |
| `RegistryRefinement` | the mapping under which `Registry` implements `AbstractRegistry` |
| `MCRegistry` | instances of `Registry` for TLC |
| `RegistryProofs`, `RegistryVisitProofs` | the theorems about `Registry` and their proofs: publication, keys, traversals, and that it implements `AbstractRegistry` |
| `Slot`, `MCSlot` | one timing slot: `record`, `increment`, `snapshot` on relaxed atomics |
| `Scalars`, `MCScalars` | the values behind counters, gauges and connection metrics, and the connection guards |
| `Reader`, `MCReader` | one scrape: the three captures, the sorted sources, the families, the sums, reads into buffers; the RPC state it captures |
| `Facade`, `MCFacade` | registration, recording and visits composed |
| `Release` | runs of the Publish workflow, the repository and crates.io |
| `ReleaseProofs`, `SlotProofs`, `ScalarsProofs`, `ReaderProofs`, `FacadeProofs` | the theorems about those components and their proofs |
| `SumProofs` | lemmas about sums over finite sets and about remainders, used by `SlotProofs`, `ScalarsProofs` and `ReaderProofs` |

How they are composed: `Requests` EXTENDS `MetricTypes`, and `Registry`, `Reader` and
`Facade` EXTEND `Requests`. `Facade` uses `AbstractRegistry` through INSTANCE and its
actions are conjunctions with the actions of that module; since `Registry` implements
`AbstractRegistry`, what `Facade` shows holds of the crate with the detailed registry in
its place. `Facade` takes from `Slot` what `NoRecordLost` says of a snapshot. `Reader` takes from
the registry what `VisitComplete` and `VisitSeesPrefix` say of a traversal (all that was
registered when it began, and some of what was registered since).

### Requests

A request is a record: the entry point (`api`) and its arguments. `NewLabels`, `with_access`,
`with_role`, `Output`, `NewPlan`, `alias` and `aggregate` are the builders, in the code's names.
`LookupKey` says which requests are the same metric: the map (`by_type`, `by_resource`,
`by_profile`, and those of the scalar registry with the mode, counter or gauge, in the key) and the
key in it. An optional field is the empty sequence or a sequence of one.

### Registry: state, actions and memory model

A shard's mutex-protected state is `mutex`, `items` (the maps as one
function from lookup keys, since the map is part of the key), `len` and `chunks`.
Shared memory is `entries`, `published_len` and `published_index`. The hash is the
constant `ShardOf`; nothing depends on which function it is.

A registration is `Lock` (acquire the mutex and look the key up), then either
`ReturnExisting`, or `Allocate` (choose the slot, add a chunk if needed, write the
entry), `Publish` (the release store of `published_len`, `len += 1`), `StoreIndex`
(only when a chunk was added) and `ReturnInserted` (insert the key, unlock, return a
handle). Other threads can take steps between any two of these. A traversal is
`BeginWalk`, `LoadIndex` per shard, `LoadLen` per chunk, `GetEntry` per entry, and
`EndWalk`; `len` skips the `GetEntry`s.

The two registries are the same protocol twice. A request says which one it goes to
(`register`, `register_resource`, `register_profile`; `scalar`, `scalar_resource`). They differ in the
key and in when the map learns the slot: the timing
registry inserts it last, in `ReturnInserted`, the scalar registry together with the length, in
`Publish`, before the index is stored. `Remember` is that insert. Both happen inside the
critical section. Since a definition has one place in the map, those that translate the same
statements of both files point at either one. In an instance, `ShardOf` gives each registry shards
of its own; the proofs hold for any mix.

The memory is the release/acquire fragment of the C11 model the code uses. A
thread's `view` is the set of writes that happen before its next step. A release
store keeps the storing thread's view with the value; an acquire load may return
any value not older than one in the thread's view (coherence) and adds the view
kept with it. A plain read is defined only if its write is in the view; otherwise it
is a data race and returns the stored value or `Uninit`. `Synchronize` is an edge the
application makes between two of its threads (a join, a channel), without which
"registered before the visit began" would mean nothing across threads. The `ArcSwap`
is external: its `store` is a release and its `load` an acquire.

A poisoned mutex does not occur: nothing inside the critical section panics except
allocation failure and the debug assertions, and the latter are proved never to fail.
Slot chunks are never freed, so addresses are `<<shard, chunk, offset>>`.

### AbstractRegistry and the refinement

The abstract registry has no mutex, chunk, index or memory order. Each shard is a `log` of requests that
only grows; `Insert` adds a key the shard does not hold; `Return` hands out a handle on a
metric its thread knows and whose key is the request's; a visit goes to prefixes of the
logs and can end only when it has everything its thread knew when it began.

Under the mapping of `RegistryRefinement`, a metric joins its shard's log with the release store of
`published_len`, not with the insert into the map and not with the index: that is the
first moment another thread can see it. A thread `knows` a metric when that store is in its view. The
mutex passes views on, so whoever finds a key in a map knows its metric: that
is why `ReturnExisting` is an abstract `Return`. A traversal by `len` is no visit.

### Slot: state, actions and memory model

A counter is its modification order, a sequence of values, each with the set of
calls added into it (a history that the properties use). `FetchAdd` extends the
newest value; `Load` may return any value at or after the position the thread knows.
`processor` says what the program runs on: on `relaxed` only coherence is kept; on
`in_order` a load returns the newest value, which is what a processor gives that
keeps loads and atomic updates in program order (the x86 family). Counter width is
the constant `Modulus`.

### Scalars: state and actions

Each of the four atomics is its modification order, as in `Slot`. A `set` of a gauge is
put last in the order: a store that another thread's unseen store overtakes cannot be told from
one that came first. `connected()` and `connection()` are two steps, `Connect` (the gauge) and
`Establish` (the total); `Disconnect` is `disconnected()` or the drop of a guard.
`Synchronize` passes guards to another thread, since a guard is `Send`; `owner` says who may end
a connection. The application calls `disconnected()` once per connection it reported; calling it
without a connection gives a negative gauge. `AsU64` and `AsI64` are the casts. `Get` is any load: `get`, `current()`,
`total()`, and those of a scrape, which loads `total` (`brz_conn_total`) two families before `current` (`brz_conn`); the history
`scraped` keeps what a thread's last load of `total` showed and which connections it knew then. `known` and `gone` are the
connections whose establishment, and whose end, happen before a thread's next step.

### Reader: state and actions

`CaptureTiming`, `CaptureScalars` and `CaptureStates` are the three captures, with registrations and
updates between them; the metrics of `Early` exist before. `registered` holds the registrations the reader's thread knows of, so that what
was registered at the start must be captured is what `VisitComplete` says; a registration concurrent with the reader is one whose `Register` comes when the thread gets to know. What is captured are requests, and `TimingSources`
and `ScalarSource` make sources of them: a plan gives one per output and one for its
aggregate. Sources have the derived order of `Source` (`Rank`); sort and
dedup of a list is the sorted sequence of its set. `CaptureStates` takes the `Recorded` fields in the order of
`StateOrder`, which is the order by name and field that `snapshot` sorts them into. `Header`, `BeginSeries`, `Sum` (one
load per step), `EndSeries`, `NextFamily`, `NextState` and `EndOfFile` are the pieces of `next_sample`;
`Read` and `Copy` are `Read::read`, and `AsyncRead::poll_read`, which is the same loop. A sample's labels are the set
`LabelSet` of the labels the code prints, optional ones only when they are there. A line is `LineLen`
bytes and a byte is known by its line and place. `Top` and `Limit` stand for `u64::MAX` and `i64::MAX`.
Loads return the newest value, stale ones being `Slot`'s subject. The two-level map of the RPC state is one
function of name and field: both levels are guarded by one mutex. Escaping of labels and
decimal printing are left out; escaping is injective, so equal lines are equal labels.

### Facade: state and actions

The variables of `AbstractRegistry`, and per metric the set of records completed in its slot. `Register` and
`Return` are a constructor, `Record` a call through any handle on a metric its thread knows (handles are
`Copy`). A visit is `BeginVisit`, one `VisitMetric` per metric, which takes one snapshot, one
`Callback` per direct output, `EndVisit` and `Returned`; other threads take steps between any two
of them. A snapshot is any set of the slot's records that has all those the visiting
thread is `aware` of.

### Release: state and actions

`branch`, `tags` and `crates` are the remote side; `waiting`, `active`, `pc` and `target` are the runs
of the workflow, of which the concurrency group lets one be active and keeps one waiting. A run
is `Start` (check its commit out), `PrepareNew` or `PrepareRetry` (`prepare-release.py`), `Check`, `Push` and `Upload`; `End` may
follow any step: a failed command, a lost runner, the timeout. An upload that is accepted and whose
answer is lost is `Upload` followed by `End`. `Dispatch` starts a run on any commit the branch ever
had, since GitHub lets an old run be started again on its own commit. `Develop` is a push by somebody
else, whose sources may fail the checks. Git and crates.io are external: a push with `--atomic` takes both
refs or neither, no tag that exists and no branch that moved; crates.io takes a version once. Two things are assumed of the people: a push
of theirs leaves the version in `Cargo.toml` alone, and tags are made by hand only before the first run (`FirstTags`). A push that sets the next version would leave `git commit`
(`prepare-release.py:60`) nothing to commit, and every new run would end there until the version is changed; the scripts leave versions to the workflow. A version
`0.0.x` is the number `x`; the version of the manifest before the first release is none of them.

## Runs

| Run | Instance | Shows |
|---|---|---|
| `registry_publish` | 3 threads, 1 shard, chunks of 2, 3 metrics | no uninitialized read, publication extends the prefix, visits are complete prefixes, `len` bounds, immutability, and that the inductive invariant holds before it is proved |
| `registry_keys` | 2 threads that register only, a shard of timings and one of scalars, 8 requests with equal names: plans of one identity that differ in outputs or policy, a gauge and a counter of one kind, rejected kinds | one slot, one policy and one export per key |
| `registry_process` | 2 threads, a shard of timings and one of scalars, chunks of 1 | the registry implements the abstract one; traversals end while registrations may stall |
| `scalars` | 2 threads, 2 connections, a gauge and a counter of 4 bits | the gauge counts live connections wherever guards are dropped, the total lags only by calls in progress, no load of either misses a connection its thread knows, what a scrape reads of the two at different times is bounded, no update is lost over the wrap |
| `slot_records` | 2 recorders, 2 calls, durations a nanosecond under and on the threshold; `relaxed` with a recorder as reader, `in_order` with a third thread | no completed record is lost, quiet snapshots are exact, snapshots never decrease; `in_order`: every counted call is complete in the snapshot, success is never overstated |
| `slot_wrap` | 16-bit counters, a duration that is clamped | **violation**: see Findings |
| `reader_series` | 8 metrics of different kinds that share labels, 3 of them registered during the capture, one an alias twice in a plan; RPC state | no series twice, each captured metric in exactly its families, families in one block |
| `reader_sums` | 2 slots and 3 gauges under shared labels, updates at the ends of their ranges | samples are saturated sums of the distinct slots, rounded after the sum, except where the order of the gauges matters (below) |
| `reader_bytes` | lines of 3 bytes, buffers of 0, 2 and 4, RPC state recorded during the scrape | no byte lost or repeated, end of file is stable and is reached |
| `reader_doc` | one status code metric | **violation**: see Findings |
| `facade` | 2 threads, two plans of one identity, a single metric of the same name, 2 records, rejected kinds | a record is in every row of its metric in every later visit and in no other, views agree, rows are those of the plan registered first |
| `release` | 5 commits, 2 tags made by hand | what is published is tagged, checked and on the branch; a tag stays retriable; the next version stays available; nothing is overwritten |

Bounds. Two chunks of two entries with three metrics contain each position that
matters: the first entry of a shard, the last of a chunk, the first of a new chunk
while the earlier one is full, a partial last chunk. A third thread lets a traversal
race with a registration while another waits for the mutex. `MaxChunks` only
bounds `Allocate`. `registry_keys` uses `RegistrationSpec`, without traversals, which change no lock, map,
entry or handle. In `Slot`, `MaxCalls` = 2 gives two half-done calls at once; each
property is about one call or a pair. `Modulus` is 10^6 in `slot_records`, which
is never reached, and 2^16 in `slot_wrap` so that a clamp and a wrap happen with
numbers TLC can hold; the code's 2^64 differs only in size. In `Scalars`, 16 values and two
updates of at most 9 reach the wrap of the counter and both ends of the signed range; two connections let one be
handed over, or be closed elsewhere, while the other is between its two updates. In
`Reader`, the metrics of `reader_series` contain each pair of kinds that share a type label, and
connections that differ only in their role or their access; a
buffer is smaller than, or larger than and no multiple of, a line, so reads end inside a line,
at its end and beyond it; `Top` is above one rounding step and below the sum of two updates.
The families, the kinds and their order are the code's own and not bounded. In `Facade`, two records
are one the visitor knows of and one made while it visits; two metrics let a visit be between them. In `Release`, five
commits are room for two releases with pushes before, between and after them, so a tag can be retried
after a newer version is out; with two tags made by hand a retry can name one the scripts
did not make.

Deadlock is checked in every run. Fairness appears in two specifications. `FairSpec` of `Reader` says that
the caller constructs the reader and goes on reading into buffers that are not empty, as
`read_to_string` does, and that a read that has begun is executed; the application may update for
as long as it likes or stop. `WalkSpec` of `Registry` is weak fairness
of each thread's traversal steps. A traversal's step is enabled whenever the thread is
inside a traversal, so this says only that the operating system keeps scheduling
it. Registrations have no fairness; they may stop inside the critical section
and `TraversalEnds` must hold all the same. The number of metrics is bounded, as is
the number of chunks a loaded index can name, so a traversal is finite. `Release` states no liveness: a run
is started by hand, and nothing in the repository retries one.

`CountedCallsComplete` and `SuccessNotOverstated` hold because `record` updates `count`
last and `snapshot` loads it first. They do not hold when loads may be
reordered, since every access is relaxed; no doc of the crate promises them. The
README says only that snapshots "are eventually consistent rather than atomic across fields".

`SamplesAreSums` is exact except in one case: gauges of both signs under one series, those of one of which overflow
together. `saturating_add` then gives a result that depends on the order of the slots' addresses.

## Findings

`slot_wrap`: `Metric::record` clamps a duration to `u64::MAX` (`src/metric.rs:204`) and then
adds it with a wrapping `fetch_add` (line 211). After such a record the next one makes
`elapsed_us` smaller. The README (line 75) says "Counters accumulate for the process
lifetime", and the test at `src/metric.rs:374` asserts that `elapsed_us` never decreases
between two snapshots. The counterexample is two records by one thread, a snapshot
after each.

`reader_doc`: the comments on `Metric::api_status` (`src/lib.rs:100`) and on the timeout constructor (line
130) say that they are exported as `brz_api_resp_total` and `brz_api_timeout_total`. `SourceKind::supports`
(`src/prometheus.rs:45`) puts both in `brz_req_total` with a `status_code` label, and the README (line 205) says that
the two families are no longer exported: the comments are out of date.

## Proofs

### Publication

`RegistryProofs` proves, for every set of threads and requests and every number of
shards, chunk size and number of chunks:

| Theorem | States |
|---|---|
| `Invariance` | `Spec => []InductiveInv` |
| `TypeCorrect` | `Spec => []TypeOK` |
| `InitializedReads` | `Spec => []NoUninitializedRead`: the `unsafe` reads of `MetaChunk::get` are defined |
| `PublishAssertions` | `Spec => []PublishExtendsPrefix`: the debug assertions of `publish` hold |
| `Immutability` | `Spec => PublishedForever`: an action property |

Assumptions: `RegistryAssumption` (at least one shard, entry and chunk; `None` is not a
thread; the hash gives every key a shard) and `NoneAssumption` (`Uninit` is not
metadata, `None` not a slot). TLC evaluates both in every run of `Registry`.

`NoUninitializedRead` is not inductive: a state in which a thread knows a length but not
the entries below it satisfies it and the next read breaks it. `InductiveInv` adds:

1. `LockInv`, `SlotInv`: who is inside the critical section holds the mutex, and the slot
   it works on is the shard's next and already written in its own view.
2. `PrefixInv`, `ChunkInv`: the lengths of the chunks are determined by the shard's `len`
   (full chunks, one partial, then empty), and a chunk is added exactly when
   its first entry is. This is the quotient and remainder arithmetic of `NextPositionArith`.
3. `ClosedInv`: every view, a thread's or one kept with a mutex, a length or an index, is
   closed: with a length store it holds the entry writes below it and the zeroing of
   the counters they point to, and an entry write in a view has happened.
4. `ReleaseInv`: whoever owns a shard next knows its last publication, so its release
   carries the whole prefix and not only its own entry; and each store of a length
   is in the view kept with it.
5. `WalkInv`: a traversal that reads entries has the store of the length it loaded in
   its view.

3 and 5 give the theorem; 1, 2 and 4 are what makes 3 survive `Publish`. There is one
lemma per action, and each has one step per conjunct the action can disturb.

### Keys

`RegistryProofs` also proves, from the same assumptions:

| Theorem | States |
|---|---|
| `SlotPerKey` | `Spec => []OneSlotPerKey` |
| `PolicyPerSlot` | `Spec => []OnePolicyPerSlot` |
| `ExportedUnderItsKey` | `Spec => []HandleExportedUnderItsKey` |

They speak of handles only, which forget how they came about. `KeyInv` relates the three copies of an identity: an
entry of the map is a published slot under its own key (`MapInv`); every published slot is in the map, or
the registration that published it holds the mutex and inserts it next (`LogInv`, where the timing and the scalar registry
differ in their order); a handle is what the map holds (`HandleInv`); and what a registration in progress found in the map is
still true, since it has held the mutex since (`CallInv`). Equal keys have equal policies because a key has the policy in it, or the kind and mode that determine it.

### Traversals

| Theorem of `RegistryVisitProofs` | States |
|---|---|
| `VisitInvariance` | `Spec => []VisitInv` |
| `PrefixSeen` | `Spec => []VisitSeesPrefix` |
| `CompleteVisits` | `Spec => []VisitComplete` |
| `LenBounds` | `Spec => []LenWithinBounds` |

`VisitInv` is about what a thread may conclude from a store it has seen. `OrderInv`: every view, with an entry, has all the
entries before it in the shard, and the index store of each chunk it knows a slot of; so a chunk whose successor is in a loaded index is full.
`IndexInv`: a shard has exactly the chunks its length needs, and the published index lags only inside a registration.
`TourInv`: there is a set of slots, of the size that has been counted, that has everything the traversal set out knowing and has
passed and everything it has passed of its current shard, and with every slot the ones before. `len` and `visit` share it; for a
visit the set is what has been seen.

### The refinement

`RegistryVisitProofs` proves `Refinement`: `Spec => ImplementsAbstract`. A registration takes effect at the publication (`Publish` is
`Insert`), a traversal's acquire loads are `Learn` and `Visit`, and all other steps stutter. A log is the published
slots of a shard in order, and the place of a slot in it the quotient and remainder arithmetic of `PlaceOrder`. The proof uses
`InductiveInv`, `KeyInv` and `VisitInv`: that no key is inserted twice is `KeyInv`, that a visit's prefixes are closed and
complete is `VisitInv`.

### Slot

| Theorem of `SlotProofs` | States |
|---|---|
| `SlotInvariance` | `Spec => []SlotInv` |
| `SlotTypes` | `Spec => []TypeOK` |
| `RecordsKept` | `Spec => []NoRecordLost` |
| `CountedComplete` | `Spec => []CountedCallsComplete` |
| `SuccessHonest` | `Spec => []SuccessNotOverstated` |
| `SnapshotsRise` | `Spec => SnapshotsNeverDecrease`, if `DurationsFit(D)` for some `D` |
| `QuietExact` | `Spec => []QuietSnapshotExact` |

Assumptions: `SlotAssumption`, and `CallsAssumption` (fewer calls than 2^64). The hypothesis of `SnapshotsRise` is that all the calls
together last less than 2^64 microseconds: without it the property is false, which is what run `slot_wrap` shows.
`SlotInv` says of every value of a counter which calls it has: they only grow (`OrderInv`), belong to
the counter (`AddsInv`), and number as many as an operation counter shows (`CountsInv`); a counted call is in all its counters (`CountLastInv`); a thread inside a call has updated
exactly the counters before its place (`PathInv`); and what a snapshot has loaded so far holds what is complete for its
thread and, in order, what its count counted (`SnapInv`). `MonotoneInv` adds that values do not fall and that what a thread was last shown is behind what it loads.

`QuietExact` adds `ValuesInv`: every value a counter has had is the sum, modulo its width, of what the calls in it add. A `fetch_add` keeps it, because the
call it stands for is in no earlier value (`OrderInv`) and adds its amount to the sum (`SharesAdd`, `ModAdd`). A snapshot
that began with all calls complete for its thread loads values with all of them (`SnapInv`) and none that does not belong (`AddsInv`), so the sum is over all calls. No bound on
the durations is needed: the equation is between remainders.

### Scalars

| Theorem of `ScalarsProofs` | States |
|---|---|
| `ScalarsInvariance` | `Spec => []ScalarsInv` |
| `GuardsBalanced` | `Spec => []GuardsBalance` |
| `SkewIsBounded` | `Spec => []SkewBounded` |
| `KnownCounted` | `Spec => []KnownConnectionsCounted` |
| `LoadsShowConnections` | `Spec => []ConnectionsShown` |
| `NoUpdateLost` | `Spec => []UpdatesNotLost` |

Assumptions: `ScalarsAssumption`, and `ConnectionsAssumption` (fewer connections than 2^63, so that the gauge is not
negative and the total does not wrap). `KnownConnectionsCounted` needs the order of the establishments, which no variable keeps: `OrderInv` says that there is one, and that a thread that knows a
connection has seen the value of the total that counts it. `GuardsBalance`, `SkewBounded` and `UpdatesNotLost` are equations modulo the width (`SumInv`).

`ConnectionsShown` is about loads, which may be stale, while `GuardsBalance` is about the newest value only. `CurrentInv` says that each value `current` has had is
the size of a set of connections, and that the sets of the values a thread can still load have every live connection the thread knows or is making (`Held`)
and none it knows to be closed. A write appends the set of the live connections (`CurrentWrite`); every other step only moves views on, and whoever learns of a connection
takes the view of somebody who knew (`CurrentFrame`). `ScrapedInv` adds that a total once shown is not below what its thread knew. The types (`TypeOK`) are part of `ScalarsInv` and
no run checks them: an `AtomicU64` cannot hold more than its width, whatever the code does.

### Reader

| Theorem of `ReaderProofs` | States |
|---|---|
| `ReaderInvariance` | `Spec => []ReaderInv` |
| `ReaderTypes` | `Spec => []TypeOK` |
| `SeriesAppearOnce` | `Spec => []SeriesOnce` |
| `ScrapesComplete` | `Spec => []ScrapeComplete` |
| `FamiliesGrouped` | `Spec => []Grouped` |
| `BytesDelivered` | `Spec => []BytesInOrder` |
| `EndIsFinal` | `Spec => EofStable`: an action property |
| `SamplesExact` | `Spec => []SamplesAreSums` |

They hold for any finite set of metrics and any requests the public entry points can make, any sizes of buffers and any
length of a line. Assumptions: `ReaderAssumption`; `MetasAssumption` (metrics have slots of their own; requests are `WellFormed`, as the constructors and builders make them:
the labels of a resource come from its builder and the direct outputs of a plan have no resource labels); `ValuesAssumption` (`StateOrder` lists each field once).

Two facts carry `SeriesOnce` and `ScrapeComplete`. The sources of a series are neighbours in the order of `Source`
(`LessFacts`; `SortedFacts` shows that `Sorted` lists a finite set in order, each element once, by the bijection between
elements and the number of elements before them), so `next_sample`, which stops at the first source of another series, has
summed all of one when it emits it (`BoundaryInv`). And within a family the labels that are printed determine output and kind (`LabelsIdentify`), which depends on
which kinds share a family (`SupportTable`): two kinds of one output print the same labels, but never in the same family. `SampleInv` and
`CoverInv` then say that the samples are those of the sources that are done with; `StateInv` says the same of the RPC rows. `BytesInOrder` is inductive with the type of the buffer, by the arithmetic of `DivMod`.
`EofStable` needs that the end of file leaves an empty buffer and the index past the last row (`PlaceInv`).

`SamplesExact` holds while updates go on, for any width of the counters and any values of the gauges. Two invariants carry it. `HeldInv`: what a counter holds is among what it has held since the
construction began, and only gauges have been negative. `SumInv`: while a series is summed, `acc` is the clamped sum of one reading of each metric in `Summed`,
those whose source has been passed, or the order of the readings matters. `NextAddend` shows that the next source is of a
metric not in `Summed` yet, because the sources are strictly ordered and a metric has at most one source in a series; `SumGoesOn`
shows that `saturating_add` carries the clamped sum on. That needs more than the sum itself. A gauge that has saturated may leave the exact
sum only if a value of the other sign follows, and then one sign overflows by itself and both occur, which is `OrderMatters`; that
stays true whatever else is added, since the sum of each sign only moves away from zero (`OneMore`). When the series
ends, `Summed` is every captured metric behind the labels (`SummedAll`: again `LessFacts` and `LabelsIdentify`), and the value is rounded
once (`HundredthsFacts`). A sample already emitted stays a sum of readings because histories only grow.

### Facade

| Theorem of `FacadeProofs` | States |
|---|---|
| `FacadeInvariance` | `Spec => []FacadeInv` |
| `Reach` | `Spec => []RecordsReachVisit` |
| `Agree` | `Spec => []AliasesAgree` |
| `PlanFollowed` | `Spec => []RowsFollowPlan` |

They hold for any threads, shards and number of records and any finite set of timing requests. The one assumption is `FacadeAssumption`: the
hash gives every key a shard, and a plan has at least one view (`ProfilePlan::new` takes the first). Together with `Refinement` they speak of
the crate with the detailed registry in place of `AbstractRegistry`.

The properties say nothing of a visit that is still running, nor of where a record is. `FacadeInv` does. `LogInv`: a key has one place in the logs, in its own
shard, so there are never more places than keys (`FewPlaces`, by an injection of places into keys), and a handle is on the metric of its key. `SlotInv`: a record is in the slot
of the key it was made under and nowhere else, and a thread that is aware of it knows that slot; this is what makes `Synchronize` pass both on together. `VisitOf`: what a visit
is expected to show is in slots it must visit. `RowsOf`: the rows made, followed by those due, have one block per visited metric,
in the order of its outputs and with one snapshot that has all that was expected. A `Callback` moves a row from one part to the other and so leaves their
concatenation alone (`MoveHead`), a `VisitMetric` appends a block (`RowsAdded`), and a record made meanwhile is new and so not expected of any visit in progress (`SlotsGrow`, `RowsKept`).

### Release

`ReleaseProofs` proves, for every number of commits and every finite set of tags made by
hand:

| Theorem | States |
|---|---|
| `InvariantHolds` | `Spec => []InductiveInv` |
| `TypeCorrect` | `Spec => []TypeOK` |
| `UploadsAreTagged` | `Spec => []PublishedIsTagged` |
| `TagsStayRetriable` | `Spec => []TaggedStaysRetriable` |
| `RemotesOnlyGrow` | `Spec => NothingOverwritten`: an action property |
| `ReleasesGoOn` | `Spec => []NextReleasePossible` |

Assumptions: `ReleaseAssumption` and `NoneAssumption` (`None` is none of the values it stands in for). The
properties are not inductive: they say nothing of the commit a run is about to upload. `TargetInv` does:
its version is its tag's; once checked it is good; and from the push on, or from the start of a retry, it
is the commit of its tag and on the branch. The step that needs all of this is `Upload`; the one that
establishes it is `Push`, through `PushAppends` (what an atomic push does to a branch that has not moved is to
append one commit) and `Appended` (commits stay where they are).

`ReleasesGoOn` rests on `VersionsTagged`, that every version on the branch has its tag, and on `NextPatchIsFree`, that the maximum `NextPatch` takes exists because the
tags are finite.

### Sums

`SumProofs` holds what the proofs about counters and samples need of `SumFunctionOnSet` and of `%`. The folds of the community modules take a set apart in an order of their
own, so every fact about them is an induction, and the induction theorems of the library take a predicate, which the provers cannot instantiate.
`SubsetsInduction` and `ElementsInduction` state the induction with a set in the place of the predicate: a well-founded order has a minimal element
outside the set (`WFMin`). With them, `SumsExist` shows that there is a function that gives every subset its sum, whatever the order, and `SumIs` that `SumFunctionOnSet`
computes it. From these follow `SumAdd`, `SumSame`, `SumGrows`, `SumFalls` and `SignedSums` (a sum is between those of its positive and of its negative
terms). `ModSum` and `ModAdd` say that wrapping the parts and then the sum wraps the sum.

### Only model-checked

- `TraversalEnds` and `ScrapeEnds`: liveness under fairness, which the prover does not reach.

## Not modelled

- Escaping of label values and decimal printing: the layout of a line.
- The quality of the hash, allocation failure, the cost of operations.
- The `Drop` of a `MetaChunk`: the registry is a static and is never dropped outside tests.
- A callback of `visit` that registers or records itself: no lock is held there, so to the registry it is a
  call by another thread between two steps of the visit.
- Benchmarks and CI checks measure and build the library and hold no logic of it.
- The checks of the manifest in `prepare-release.py` are among the failures after which a run ends.

## Plan

Every part is modelled, and every safety property and action property a passing run checks is a theorem. What is left is to keep
the models, the map and the proofs in step with the source.
