CONSTANTS
  pro = pro
  port = port
  a = a
  b = b
  None = None
  Pro = pro
  Ports = {port}
  Inputs = {}
  Sessions = {a, b}
  Modes = {"direct", "handoff", "ahead", "packet", "split"}
  CaptureRuns = FALSE
  MaxStarts = 2
  Bridges = {"shared", "pro"}
  MaxSessions = 2
  MaxGeneration = 2
  MaxHardware = 2
  MaxRepeats = 1
SPECIFICATION BridgesSpec
INVARIANTS StoppedIsSilent ArmedIsLive RepeatsWhatWasHeard MissesAreCounted
SYMMETRY Alike
