\* Two slots and three gauges under shared labels, updated to the ends of their range.
CONSTANTS
  Metas <- SummedSlots
  Early <- SummedSlots
  OutputOrder <- AllOutputs
  StateOrder <- NoStates
  StateValues <- SomeValues
  Updates <- EdgeUpdates
  MaxUpdates = 3
  Top = 100000
  Limit = 100000
  LineLen = 1
  Sizes = {1}
  None = None
  NotNumeric = NotNumeric
SPECIFICATION Spec
INVARIANTS
  TypeOK
  SamplesAreSums
