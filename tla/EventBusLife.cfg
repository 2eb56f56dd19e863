SPECIFICATION FairSpec
CONSTANTS
  crash = crash
  poll = poll
  Key = {crash, poll}
  High = {crash}
  Control = {c1}
  TelemetryCapacity = 1
  ExactReserve = 1
  MaxOpenRuns = 1
  FingerprintCapacity = 1
  MaxPublish = 3
  MaxFlushes = 1
  MaxFailures = 1
INVARIANT CountsExact
INVARIANT ExactLogged
PROPERTY CallReturns
CHECK_DEADLOCK FALSE
