CONSTANTS
  pro = pro
  port = port
  input = input
  a = a
  b = b
  None = None
  Pro = pro
  Ports = {port}
  Inputs = {input}
  Sessions = {a}
  Modes = {"direct", "handoff", "ahead", "packet", "split"}
  CaptureRuns = TRUE
  MaxStarts = 2
INVARIANTS ResetIsExclusive
SPECIFICATION FairSpec
PROPERTY OperationsReturn
