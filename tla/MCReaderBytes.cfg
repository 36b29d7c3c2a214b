\* Three-byte lines read into buffers of none, two and four bytes, with RPC state.
CONSTANTS
  Metas <- TwoScalars
  Early <- NoMetas
  OutputOrder <- AllOutputs
  StateOrder <- TwoStates
  StateValues <- SomeValues
  Updates <- OneUpdate
  MaxUpdates = 2
  Top = 100000
  Limit = 100000
  LineLen = 3
  Sizes = {0, 2, 4}
  None = None
  NotNumeric = NotNumeric
SPECIFICATION FairSpec
INVARIANTS
  BytesInOrder
PROPERTIES
  EofStable
  ScrapeEnds
