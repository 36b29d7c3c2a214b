------------------------------- MODULE Reader -------------------------------
(***************************************************************************)
(* One scrape by a PrometheusReader, while metrics are registered and      *)
(* updated and RPC state is recorded: the capture of the timing registry,  *)
(* then of the scalars, then of the RPC state, the sorted sources, the     *)
(* loop over the families, the sum of the sources of a series, and reads   *)
(* into buffers of any size.                                               *)
(*                                                                         *)
(* A traversal of a registry is what Registry shows of it: it returns all  *)
(* that was registered when it began and some of what was registered since. *)
(* A line is LineLen bytes; its k-th byte is known by the line and k.      *)
(* Loads return the newest value; Slot has the stale ones.                 *)
(***************************************************************************)
EXTENDS Integers, Sequences, FiniteSetsExt, Functions, Requests

CONSTANTS
  Metas,        \* the metrics the application registers: [item, profile]
  Early,        \* those that it registered before it made any reader
  OutputOrder,  \* all outputs, in the order of ProfileOutput
  StateOrder,   \* all <<name, field>> of RPC states, in the order of snapshot
  StateValues,  \* values of RPC fields
  NotNumeric,   \* a text that does not parse to a finite number
  Updates,      \* updates of metrics: [item, counter, amount]
  MaxUpdates,   \* bound: updates, and records of RPC state
  Top,          \* u64::MAX
  Limit,        \* i64::MAX
  LineLen,      \* bytes of an encoded line
  Sizes,        \* sizes of the buffers passed to read
  None

ASSUME ReaderAssumption ==
  /\ Top \in Nat /\ Limit \in Nat
  /\ LineLen \in Nat \ {0}
  /\ Sizes \subseteq Nat
  /\ MaxUpdates \in Nat

Fields == Range(StateOrder)
Items  == {m.item : m \in Metas}

----------------------------------------------------------------------------
(***************************************************************************)
(* Sources: what a metric exports, and under which kind.                   *)
(***************************************************************************)
Kind(k)     == <<k, 0>>
ApiCode(c)  == <<"Api", c>>

KindOrder == <<"Full", "ApiSummary", "Api", "Timeout", "ConnCounter", "Count",
               "ConnGauge", "Gauge">>

FAMILIES ==
  <<[name |-> "brz_req_total",                counter |-> "count",              seconds |-> FALSE],
    [name |-> "brz_err_total",                counter |-> "failure_count",      seconds |-> FALSE],
    [name |-> "brz_slow_total",               counter |-> "slow_count",         seconds |-> FALSE],
    [name |-> "brz_req_duration_secs_total",  counter |-> "elapsed_us",         seconds |-> TRUE],
    [name |-> "brz_err_duration_secs_total",  counter |-> "failure_elapsed_us", seconds |-> TRUE],
    [name |-> "brz_slow_duration_secs_total", counter |-> "slow_elapsed_us",    seconds |-> TRUE],
    [name |-> "brz_conn_total",               counter |-> "value",              seconds |-> FALSE],
    [name |-> "brz_count_total",              counter |-> "value",              seconds |-> FALSE],
    [name |-> "brz_conn",                     counter |-> "value",              seconds |-> FALSE],
    [name |-> "brz_value",                    counter |-> "value",              seconds |-> FALSE]>>

Counters == {FAMILIES[f].counter : f \in DOMAIN FAMILIES}

(* SourceKind::supports, with families counted from 1. *)
supports(k, f) ==
  CASE k[1] = "Full"               -> f \in 1..6
    [] k[1] = "ApiSummary"         -> f \in 2..6
    [] k[1] \in {"Api", "Timeout"} -> f = 1
    [] k[1] = "ConnCounter"        -> f = 7
    [] k[1] = "Count"              -> f = 8
    [] k[1] = "ConnGauge"          -> f = 9
    [] k[1] = "Gauge"              -> f = 10

TypeLabel(kind) == IF kind.variant \in {"Api", "ApiTimeout"} THEN "API" ELSE output(kind)

TimingKind(kind) ==
  CASE kind.variant = "Api"        -> ApiCode(kind.code)
    [] kind.variant = "ApiTimeout" -> Kind("Timeout")
    [] kind.variant = "ApiAll"     -> Kind("ApiSummary")
    [] OTHER                       -> Kind("Full")

FanoutKind(out) == Kind(IF out.type = "API" THEN "ApiSummary" ELSE "Full")

ScalarKind(mode, kind) ==
  CASE mode = "Counter" /\ kind.variant = "Api"        -> ApiCode(kind.code)
    [] mode = "Counter" /\ kind.variant = "ApiTimeout" -> Kind("Timeout")
    [] mode = "Counter" /\ is_conn(kind)               -> Kind("ConnCounter")
    [] mode = "Gauge" /\ is_conn(kind)                 -> Kind("ConnGauge")
    [] OTHER -> Kind(IF mode = "Counter" THEN "Count" ELSE "Gauge")

Source(out, kind, tag, m) == [output |-> out, kind |-> kind, item |-> <<tag, m.item>>]

(* The output of a metric of one kind, with its resource labels if any. *)
KindOutput(r) ==
  IF r.api \in {"register", "scalar"} THEN Output(TypeLabel(r.kind), r.name)
  ELSE [Output(TypeLabel(r.kind), r.labels.name) EXCEPT !.resource = <<r.labels>>]

(* A plan exports its direct outputs and its aggregate. *)
TimingSources(m) ==
  LET r == m.profile IN
  IF r.api = "register_profile"
    THEN {Source(out, FanoutKind(out), "Timing", m) : out \in Range(r.outputs \o r.aggregate)}
    ELSE {Source(KindOutput(r), TimingKind(r.kind), "Timing", m)}

ScalarSource(m) ==
  Source(KindOutput(m.profile), ScalarKind(m.profile.mode, m.profile.kind), m.profile.mode, m)

IsTiming(m) == ~IsScalar(m.profile)

(* What a metric exports. *)
SourcesOf(m) == IF IsTiming(m) THEN TimingSources(m) ELSE {ScalarSource(m)}

(* A request as the public entry points make it. *)
WellFormed(r) ==
  /\ r.api \in Apis
  /\ IF r.api = "register_profile"
       THEN /\ r.policy \in MetricPolicy
            /\ {r.outputs, r.aggregate} \subseteq Seq(Range(OutputOrder))
            /\ \A out \in Range(r.outputs \o r.aggregate) : out = Output(out.type, out.name)
       ELSE r.kind \in MetricType(100..599) /\ KindOutput(r) \in Range(OutputOrder)
  /\ IsScalar(r) => r.mode \in {"Counter", "Gauge"}
  /\ r.api \in {"register_resource", "scalar_resource"} =>
       r.labels = with_role(with_access(NewLabels(r.labels.name, r.labels.endpoint),
                                        r.labels.access), r.labels.role)

(* Metrics have slots of their own, at some addresses; no output and no     *)
(* field is missing from its order.                                         *)
ASSUME MetasAssumption ==
  /\ IsFiniteSet(Metas) /\ Early \subseteq Metas
  /\ \A m, n \in Metas : m.item = n.item => m = n
  /\ \A m \in Metas : m.item \in Nat /\ WellFormed(m.profile)
  /\ OutputOrder \in Seq(Range(OutputOrder))

ASSUME ValuesAssumption ==
  /\ StateOrder \in Seq(Fields) /\ IsInjective(StateOrder)
  /\ None \notin StateValues
  /\ \A u \in Updates : u.counter \in Counters /\ u.amount \in Int

Index(seq, x) == CHOOSE i \in DOMAIN seq : seq[i] = x

(* The derived order of Source. *)
ItemOrder == <<"Timing", "Counter", "Gauge">>

MutRank(s) ==
  <<Index(OutputOrder, s.output), Index(ItemOrder, s.item[1]), s.item[2],
    Index(KindOrder, s.kind[1]), s.kind[2]>>
Rank(s) ==
  <<Index(OutputOrder, s.output), Index(KindOrder, s.kind[1]), s.kind[2],
    Index(ItemOrder, s.item[1]), s.item[2]>>

Less(a, b) ==
  \E i \in 1..5 : Rank(a)[i] < Rank(b)[i] /\ \A j \in 1..(i - 1) : Rank(a)[j] = Rank(b)[j]

(* sort_unstable and dedup: the elements of S in order, each once. *)
Sorted(S) ==
  [i \in 1..Cardinality(S) |->
     CHOOSE s \in S : Cardinality({r \in S : Less(r, s)}) = i - 1]

----------------------------------------------------------------------------
VARIABLES
  registered,  \* metrics registered so far
  value,       \* their counters
  states,      \* StateRegistry: the last value of each field
  updates,     \* updates and records so far
  pc,          \* construction, or the reader's place in read
  captured,    \* metrics found by the capture
  sources,     \* PrometheusReader.sources
  rows,        \* PrometheusReader.states, one row per field
  family, source, header, state,
  acc,         \* value and gauge: the sum so far
  first,       \* the first source of the series
  buffer,      \* the line being delivered, as its number, or none
  offset,
  room,        \* space left in the caller's buffer
  lines,       \* history: the lines encoded
  out,         \* history: the bytes delivered
  eof,         \* history: a read has found the end
  atStart,     \* history: what was registered when construction began
  atReady,     \* history: what was registered when it ended
  held         \* history: the values each counter had since construction began

appVars    == <<registered, value, states, updates, held>>
scrapeVars == <<captured, sources, rows, atStart, atReady>>
placeVars  == <<family, source, header, state>>
readVars   == <<buffer, offset, room, lines, out, eof>>
vars == <<appVars, scrapeVars, placeVars, acc, first, readVars, pc>>

Init ==
  /\ registered = Early
  /\ value = [x \in Items |-> [c \in Counters |-> 0]]
  /\ states = [x \in Fields |-> None]
  /\ updates = 0
  /\ held = [x \in Items |-> [c \in Counters |-> {0}]]
  /\ pc = "new"
  /\ captured = {} /\ sources = <<>> /\ rows = <<>>
  /\ atStart = {} /\ atReady = {}
  /\ family = 1 /\ source = 1 /\ header = FALSE /\ state = 1
  /\ acc = 0 /\ first = 1
  /\ buffer = 0 /\ offset = 0 /\ room = 0
  /\ lines = <<>> /\ out = <<>> /\ eof = FALSE

(***************************************************************************)
(* The application.                                                        *)
(***************************************************************************)
Register(m) ==
  /\ m \notin registered
  /\ registered' = registered \cup {m}
  /\ UNCHANGED <<value, states, updates, held, scrapeVars, placeVars, acc, first, readVars, pc>>

(* A record, increment, add or set; what a counter holds is Slot's and      *)
(* Scalars' business.                                                       *)
Update(u) ==
  LET new == IF \E m \in registered : m.item = u.item /\ PolicyOf(m.profile) = "Gauge"
               THEN u.amount
               ELSE (value[u.item][u.counter] + u.amount) % (Top + 1)
  IN
  /\ updates < MaxUpdates
  /\ \E m \in registered : m.item = u.item
  /\ value' = [value EXCEPT ![u.item][u.counter] = new]
  /\ held' = [held EXCEPT ![u.item][u.counter] = IF pc = "new" THEN {new} ELSE @ \cup {new}]
  /\ updates' = updates + 1
  /\ UNCHANGED <<registered, states, scrapeVars, placeVars, acc, first, readVars, pc>>

(* StateRegistry::record, under its mutex; an equal value changes nothing. *)
RecordState(x, v) ==
  /\ updates < MaxUpdates
  /\ states[x] # v
  /\ states' = [states EXCEPT ![x] = v]
  /\ updates' = updates + 1
  /\ UNCHANGED <<registered, value, held, scrapeVars, placeVars, acc, first, readVars, pc>>

(***************************************************************************)
(* PrometheusReader::from_registry                                         *)
(***************************************************************************)
BeginCapture ==
  /\ pc = "new"
  /\ atStart' = registered
  /\ pc' = "timing"
  /\ UNCHANGED <<appVars, captured, sources, rows, atReady, placeVars, acc, first, readVars>>

(* for_each_meta, then the scalars' for_each, which starts after it.  In     *)
(* `registered` are the registrations the reader's thread knows of: of one   *)
(* that is concurrent with it, Register is the moment it gets to know, which *)
(* may come after the capture.                                              *)
CaptureTiming ==
  /\ pc = "timing"
  /\ \E S \in SUBSET {m \in registered : IsTiming(m)} :
       /\ {m \in atStart : IsTiming(m)} \subseteq S
       /\ captured' = S
  /\ atReady' = registered
  /\ pc' = "scalars"
  /\ UNCHANGED <<appVars, sources, rows, atStart, placeVars, acc, first, readVars>>

(* The scalars, the sort and the dedup. *)
CaptureScalars ==
  /\ pc = "scalars"
  /\ \E S \in SUBSET {m \in registered : ~IsTiming(m)} :
       /\ {m \in atReady : ~IsTiming(m)} \subseteq S
       /\ captured' = captured \cup S
       /\ sources' = Sorted((UNION {TimingSources(m) : m \in captured})
                            \cup {ScalarSource(m) : m \in S})
  /\ atReady' = registered
  /\ pc' = "states"
  /\ UNCHANGED <<appVars, rows, atStart, placeVars, acc, first, readVars>>

(* StateRegistry::snapshot, sorted by name and field. *)
Recorded == {i \in DOMAIN StateOrder : states[StateOrder[i]] # None}
Nth(S, n) == CHOOSE i \in S : Cardinality({j \in S : j < i}) = n - 1

CaptureStates ==
  /\ pc = "states"
  /\ rows' = [n \in 1..Cardinality(Recorded) |->
                <<StateOrder[Nth(Recorded, n)], states[StateOrder[Nth(Recorded, n)]]>>]
  /\ pc' = "idle"
  /\ UNCHANGED <<appVars, captured, sources, atStart, atReady, placeVars, acc, first, readVars>>

(***************************************************************************)
(* Read::read and AsyncRead::poll_read                                     *)
(***************************************************************************)
Read(n) ==
  /\ pc = "idle"
  /\ room' = n
  /\ pc' = IF n = 0 THEN "idle" ELSE "fill"
  /\ UNCHANGED <<appVars, scrapeVars, placeVars, acc, first, buffer, offset, lines, out, eof>>

BufferLen == IF buffer = 0 THEN 0 ELSE LineLen
Min2(a, b) == IF a < b THEN a ELSE b

(* How many bytes of the line fit into the caller's buffer. *)
MutCopied == room
MutShortCopied == Min2(room, BufferLen - offset - 1)
Copied == Min2(room, BufferLen - offset)

Copy ==
  /\ pc = "fill"
  /\ offset < BufferLen
  /\ out' = out \o [k \in 1..Copied |-> <<buffer, offset + k>>]
  /\ offset' = offset + Copied
  /\ room' = room - Copied
  /\ pc' = IF room = Copied THEN "idle" ELSE "fill"
  /\ UNCHANGED <<appVars, scrapeVars, placeVars, acc, first, buffer, lines, eof>>

(***************************************************************************)
(* PrometheusReader::next_sample                                           *)
(***************************************************************************)
NeedsSample == pc = "fill" /\ offset = BufferLen

Encode(line) ==
  /\ lines' = Append(lines, line)
  /\ buffer' = Len(lines) + 1
  /\ offset' = 0

StateFamily == Len(FAMILIES) + 1

(* A TYPE line, of a family or of the RPC state. *)
Header ==
  /\ NeedsSample
  /\ ~header
  /\ header' = TRUE
  /\ Encode([header |-> TRUE, family |-> family])
  /\ UNCHANGED <<appVars, scrapeVars, family, source, state, acc, first, room, out, eof, pc>>

MutSupported == {i \in (source + 1)..Len(sources) : supports(sources[i].kind, family)}
Supported == {i \in source..Len(sources) : supports(sources[i].kind, family)}
LeastOf(S) == CHOOSE i \in S : \A j \in S : i <= j

BeginSeries ==
  /\ NeedsSample
  /\ header /\ family < StateFamily /\ Supported # {}
  /\ source' = LeastOf(Supported)
  /\ first' = LeastOf(Supported)
  /\ acc' = 0
  /\ buffer' = 0 /\ offset' = 0
  /\ pc' = "sum"
  /\ UNCHANGED <<appVars, scrapeVars, family, header, state, room, lines, out, eof>>

SameSeries ==
  /\ source <= Len(sources)
  /\ sources[source].output = sources[first].output
  /\ sources[source].kind = sources[first].kind

IsGauge(f) == f \in {9, 10}

(* saturating_add of u64, or of i64 for the gauges. *)
MutSaturatingAdd(a, b) ==
  IF IsGauge(family) THEN a + b ELSE (a + b) % (Top + 1)
SaturatingAdd(a, b) ==
  IF IsGauge(family)
    THEN CASE a + b > Limit -> Limit [] a + b < -Limit - 1 -> -Limit - 1 [] OTHER -> a + b
    ELSE Min2(a + b, Top)

(* The counter a source reads: its own if it is a scalar. *)
CounterOf(s, f) == IF s.item[1] = "Timing" THEN FAMILIES[f].counter ELSE "value"

Sum ==
  /\ pc = "sum"
  /\ SameSeries
  /\ acc' = SaturatingAdd(acc, value[sources[source].item[2]][CounterOf(sources[source], family)])
  /\ source' = source + 1
  /\ UNCHANGED <<appVars, scrapeVars, family, header, state, first, readVars, pc>>

(* Microseconds to hundredths of a second, half up. *)
MutHundredths(v) == v \div 10000
Hundredths(v) == (v \div 10000) + (IF v % 10000 >= 5000 THEN 1 ELSE 0)

(* The labels of a sample, as <<label, value>>. *)
Optional(label, v) == IF v = "None" THEN {} ELSE {<<label, v>>}

ResourceLabelSet(labels) ==
  {<<"endpoint", labels.endpoint>>} \cup Optional("access", labels.access)
                                   \cup Optional("role", labels.role)

StatusCode(k) == IF k[1] \in {"Api", "Timeout"} THEN {<<"status_code", k>>} ELSE {}

LabelSet(s) ==
  {<<"type", s.output.type>>, <<"name", s.output.name>>} \cup StatusCode(s.kind)
  \cup UNION {ResourceLabelSet(labels) : labels \in Range(s.output.resource)}

EndSeries ==
  /\ pc = "sum"
  /\ ~SameSeries
  /\ Encode([header |-> FALSE, family |-> family,
             labels |-> LabelSet(sources[first]),
             value |-> IF FAMILIES[family].seconds THEN Hundredths(acc) ELSE acc])
  /\ pc' = "fill"
  /\ UNCHANGED <<appVars, scrapeVars, placeVars, acc, first, room, out, eof>>

(* No source is left for the family. *)
MutNextFamily ==
  /\ NeedsSample
  /\ header /\ family < StateFamily /\ Supported = {}
  /\ family' = family + 1
  /\ source' = 1
  /\ buffer' = 0 /\ offset' = 0
  /\ UNCHANGED <<appVars, scrapeVars, header, state, acc, first, room, lines, out, eof, pc>>
NextFamily ==
  /\ NeedsSample
  /\ header /\ family < StateFamily /\ Supported = {}
  /\ family' = family + 1
  /\ source' = 1
  /\ header' = FALSE
  /\ buffer' = 0 /\ offset' = 0
  /\ UNCHANGED <<appVars, scrapeVars, state, acc, first, room, lines, out, eof, pc>>

(* Rows that parse to a finite number. *)
MutNumeric == state..Len(rows)
Numeric == {i \in state..Len(rows) : rows[i][2] # NotNumeric}

NextState ==
  /\ NeedsSample
  /\ header /\ family = StateFamily /\ Numeric # {}
  /\ state' = LeastOf(Numeric) + 1
  /\ Encode([header |-> FALSE, family |-> family,
             labels |-> rows[LeastOf(Numeric)][1], value |-> rows[LeastOf(Numeric)][2]])
  /\ UNCHANGED <<appVars, scrapeVars, family, source, header, acc, first, room, out, eof, pc>>

(* next_sample returns false and read what it has filled. *)
AtEnd == family = StateFamily /\ header /\ Numeric = {}

(* Where the end of file leaves the index of the states. *)
MutPastLast == 1
PastLast == Len(rows) + 1

EndOfFile ==
  /\ NeedsSample
  /\ AtEnd
  /\ state' = PastLast
  /\ buffer' = 0 /\ offset' = 0
  /\ room' = 0
  /\ eof' = TRUE
  /\ pc' = "idle"
  /\ UNCHANGED <<appVars, scrapeVars, family, source, header, acc, first, lines, out>>

Construct == BeginCapture \/ CaptureTiming \/ CaptureScalars \/ CaptureStates

NextSample ==
  Header \/ BeginSeries \/ Sum \/ EndSeries \/ NextFamily \/ NextState \/ EndOfFile

Application ==
  \/ \E m \in Metas : Register(m)
  \/ \E u \in Updates : Update(u)
  \/ \E x \in Fields, v \in StateValues : RecordState(x, v)

Next == Application \/ Construct \/ (\E n \in Sizes : Read(n)) \/ Copy \/ NextSample

Spec == Init /\ [][Next]_vars

(* The caller constructs the reader and reads on, as read_to_string does.   *)
FairSpec ==
  /\ Spec
  /\ WF_vars(Construct)
  /\ WF_vars(\E n \in Sizes \ {0} : Read(n))
  /\ WF_vars(Copy \/ NextSample)

----------------------------------------------------------------------------
(***************************************************************************)
(* Properties.                                                             *)
(***************************************************************************)
SampleLines == {i \in DOMAIN lines : ~lines[i].header}

(* The reader's variables keep their types, and its indices their ranges.   *)
TypeOK ==
  /\ registered \subseteq Metas /\ captured \subseteq registered
  /\ pc \in {"new", "timing", "scalars", "states", "idle", "fill", "sum"}
  /\ family \in 1..StateFamily
  /\ source \in 1..(Len(sources) + 1) /\ first \in 1..(Len(sources) + 1)
  /\ state \in 1..(Len(rows) + 1)
  /\ header \in BOOLEAN
  /\ buffer \in 0..Len(lines)
  /\ offset \in 0..LineLen
  /\ room \in Nat
  /\ updates \in 0..MaxUpdates
  /\ pc = "sum" => acc \in IF IsGauge(family) THEN (-Limit - 1)..Limit ELSE 0..Top

(* No series is emitted twice in one scrape: no two samples have the same   *)
(* family and labels, whatever kinds, aliases and aggregates export them    *)
(* (the helper `samples` of the tests asserts it).                          *)
SeriesOnce ==
  \A i, j \in SampleLines :
    lines[i].family = lines[j].family /\ lines[i].labels = lines[j].labels => i = j

(* What a metric exports in family f. *)
Exports(m, f) ==
  {LabelSet(s) : s \in {s \in SourcesOf(m) : supports(s.kind, f)}}

Exporters(f, labels) == {m \in captured : labels \in Exports(m, f)}

CounterIn(m, f) == IF IsTiming(m) THEN FAMILIES[f].counter ELSE "value"

(* An integer sum clamped to the width of the family. *)
Clamp(f, n) ==
  IF IsGauge(f) THEN (CASE n > Limit -> Limit [] n < -Limit - 1 -> -Limit - 1 [] OTHER -> n)
  ELSE Min2(n, Top)

(* The values the slots of S may have had when they were read. *)
Readings(f, S) ==
  {v \in [S -> UNION {held[m.item][CounterIn(m, f)] : m \in S}] :
     \A m \in S : v[m] \in held[m.item][CounterIn(m, f)]}

SumOver(v, S) == SumFunctionOnSet(v, S)

(* Gauges of both signs, some of which alone overflow: a sum that saturates *)
(* on its way depends on the order of their addresses.                      *)
OrderMatters(f, v) ==
  LET up   == {m \in DOMAIN v : v[m] > 0}
      down == {m \in DOMAIN v : v[m] < 0}
  IN /\ up # {} /\ down # {}
     /\ \E S \in {up, down} : Clamp(f, SumOver(v, S)) # SumOver(v, S)

(* Every sample is the sum of all the distinct slots behind its labels, each *)
(* read once during the scrape, clamped to its width and rounded to the      *)
(* nearest hundredth only after the sum (README, "distinct slots with        *)
(* identical type/name are summed").  Gauges may saturate on the way, but    *)
(* only when those of one sign overflow and there are some of the other.     *)
SamplesAreSums ==
  \A i \in SampleLines : lines[i].family < StateFamily =>
    LET f == lines[i].family
        S == Exporters(f, lines[i].labels)
    IN \E v \in Readings(f, S) :
         LET n == Clamp(f, SumOver(v, S)) IN
         IF FAMILIES[f].seconds
           THEN 10000 * lines[i].value - 5000 <= n /\ n < 10000 * lines[i].value + 5000
           ELSE lines[i].value = n \/ OrderMatters(f, v)

(* When a scrape has ended, the samples of each family are exactly the      *)
(* series of the captured metrics: all that were registered before the      *)
(* reader was constructed, none that was registered after, zeros included;  *)
(* and the RPC fields are the numeric ones of the snapshot.                 *)
ScrapeComplete ==
  eof =>
    /\ atStart \subseteq captured /\ captured \subseteq atReady
    /\ \A f \in DOMAIN FAMILIES :
         {lines[i].labels : i \in {i \in SampleLines : lines[i].family = f}} =
         UNION {Exports(m, f) : m \in captured}
    /\ {<<lines[i].labels, lines[i].value>> : i \in {i \in SampleLines : lines[i].family = StateFamily}}
         = {rows[i] : i \in {i \in DOMAIN rows : rows[i][2] # NotNumeric}}

(* The lines of a family are one block that its only TYPE line leads.       *)
Grouped ==
  \A i \in DOMAIN lines :
    IF i = 1 THEN lines[i].header
    ELSE lines[i].family = lines[i - 1].family + (IF lines[i].header THEN 1 ELSE 0)

(* The bytes delivered are the bytes of the lines in order, none lost and   *)
(* none twice, whatever the sizes of the caller's buffers.                  *)
BytesInOrder ==
  /\ \A k \in DOMAIN out : out[k] = <<((k - 1) \div LineLen) + 1, ((k - 1) % LineLen) + 1>>
  /\ Len(out) = LineLen * Len(lines) - (BufferLen - offset)

(* After the end of file every read returns nothing.                        *)
EofStable == [][eof => out' = out /\ lines' = lines]_vars

(* A scrape ends while metrics go on being registered and updated.          *)
ScrapeEnds == <>eof

(* What the comment on Metric::api_status says (lib.rs:100): "Exposition    *)
(* emits only `brz_api_resp_total`" for a status code metric.               *)
ApiStatusFamily ==
  \A i \in SampleLines :
    lines[i].family < StateFamily /\ (\E l \in lines[i].labels : l[1] = "status_code") =>
      FAMILIES[lines[i].family].name = "brz_api_resp_total"

============================================================================
