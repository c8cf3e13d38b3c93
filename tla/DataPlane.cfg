SPECIFICATION FairSpec
CONSTANTS
  s1 = s1
  r1 = r1
  r2 = r2
  Nobody = Nobody
  Sessions = {s1}
  Requests = {r1, r2}
  Scenarios <- MCScenarios
INVARIANTS
  TypeOK
  RunsOnce
  EndedMeansStopped
  NothingOutlivesItsHandler
PROPERTIES
  OutcomeSettled
  SessionsSettle
CHECK_DEADLOCK FALSE
