\* One status code metric, scraped.
CONSTANTS
  Metas <- StatusMetric
  Early <- NoMetas
  OutputOrder <- AllOutputs
  StateOrder <- NoStates
  StateValues <- SomeValues
  Updates <- NoUpdates
  MaxUpdates = 0
  Top = 100000
  Limit = 100000
  LineLen = 1
  Sizes = {1}
  None = None
  NotNumeric = NotNumeric
SPECIFICATION Spec
INVARIANTS
  ApiStatusFamily
