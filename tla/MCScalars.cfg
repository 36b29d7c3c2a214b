\* Two threads make two connections and pass their guards on, and update a gauge
\* and a counter of four bits until they wrap.
CONSTANTS
  Threads = {t1, t2}
  Connections = {x1, x2}
  Amounts = {1, 9}
  Deltas <- SignedDeltas
  MaxUpdates = 2
  Modulus = 16
SYMMETRY Symmetry
SPECIFICATION Spec
INVARIANTS
  GuardsBalance
  SkewBounded
  KnownConnectionsCounted
  ConnectionsShown
  UpdatesNotLost
