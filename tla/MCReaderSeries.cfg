\* Metrics of many kinds that share labels, some of them registered while the reader
\* is built, and RPC state recorded at any time.
CONSTANTS
  Metas <- ManyMetrics
  Early <- EarlyMetrics
  OutputOrder <- AllOutputs
  StateOrder <- TwoStates
  StateValues <- TwoValues
  Updates <- NoUpdates
  MaxUpdates = 2
  Top = 100000
  Limit = 100000
  LineLen = 1
  Sizes = {1}
  None = None
  NotNumeric = NotNumeric
SPECIFICATION Spec
INVARIANTS
  SeriesOnce
  ScrapeComplete
  Grouped
