SPECIFICATION Spec
CONSTANTS
  Rates <- SomeRates
  Samples <- SomeSamples
  MaxBatch = 3
  Block = 3
  Room = 4
  MaxInput = 6
INVARIANTS AsOneStream LossEndsBlock RatesKeepStep
CHECK_DEADLOCK FALSE
