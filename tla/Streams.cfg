CONSTANTS
  None = None
  c1 = c1
  c2 = c2
  w1 = w1
  w2 = w2
  r1 = r1
  Modes = {"pro", "shared"}
  P = 2
  Buffer = 4
  Latency = 1
  MaxCycle = 4
  MaxFrames = 7
  MaxExtra = 1
  MaxPeriods = 4
  Kinds = {"calibration", "timing", "miss", "position"}
  Writers = {w1, w2}
  Readers = {r1}
  Fields = {1, 2}
  MaxEpoch = 5
  Connections = {c1, c2}
  Raw = {c2}
  RawRequests = {"hello", "unknown", "close"}
  Timed = {c1}
  Forking = {}
  UidOf <- TwoUsers
  MaxClients = 2
  MaxPerUid = 1
  MaxQueue = 2
  Profiles <- SmallProfiles
SPECIFICATION Spec
INVARIANTS FifoFollowsAlsa PlayedIsTaken CaptureIsExact SnapshotsAreWhole EndsAgree ValidProfilesRun
PROPERTIES LatencyIsKept OnlyTheCreatorCloses
CHECK_DEADLOCK FALSE
