CONSTANTS
  Workers = {w1}
  Nobody = Nobody
  MaxGeneration = 2
  MaxOperations = 2
  MaxFaults = 2
  StopRetryLimit = 1
  FenceRetryLimit = 1
SPECIFICATION LiveSpec
PROPERTIES IntentsSettle
CHECK_DEADLOCK FALSE
