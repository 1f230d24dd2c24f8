CONSTANTS
  pro = pro
  port = port
  input = input
  a = a
  b = b
  None = None
  Pro = pro
  Ports = {port}
  Inputs = {input}
  Sessions = {a}
  Modes = {"ahead"}
  CaptureRuns = TRUE
  MaxStarts = 1
SPECIFICATION Spec
INVARIANT RecoveryReleasesCommit
