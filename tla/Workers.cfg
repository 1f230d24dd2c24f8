CONSTANTS
  Start = 1
  Buffer = 2
  MaxRestarts = 1
  MaxLag = 3
  Modes = {"direct", "loopback", "handoff", "ahead", "packet"}
  LinkedBuffer = 4
  Chunks = 2
  QueuePeriods = 2
  Guard = 1
  Handoff = 1
  MaxAttempts = 2
  Warmup = 2
  Target = 4
  Paths = {1, 2, 3}
  MaxTries = 2
  Limit = 3
  MaxXruns = 2
SPECIFICATION WorkersSpec
INVARIANTS ReadyIsEarned StreamsAgree
PROPERTY EnginesEnd
CHECK_DEADLOCK FALSE
