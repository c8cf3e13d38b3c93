CONSTANTS
  Workers = {w1, w2}
  Nobody = Nobody
  MaxGeneration = 3
  MaxOperations = 3
  MaxFaults = 2
  StopRetryLimit = 1
  FenceRetryLimit = 1
SPECIFICATION Spec
SYMMETRY WorkerSymmetry
INVARIANTS TypeOK GenerationNotAhead OneWriter EffectsAwaited NoLostWakeup
PROPERTIES RetiredByReceipt DeleteDominates
CONSTRAINT ShortHistories
CHECK_DEADLOCK FALSE
