CONSTANTS
  a = a
  b = b
  p = p
  q = q
  Connections = {a, b}
  Processes = {p}
  Peers <- OneProcess
  Tokens = {0, 1}
  ZeroToken = 0
  None = None
  MaxSessions = 2
  MaxStarts <- CaptureTwice
  MaxGeneration = 1
  MaxEvents = 3
SPECIFICATION Spec
SYMMETRY Alike
INVARIANTS OwnersAndRequestsAgree PairStartsTogether
PROPERTIES RequestsAreServed
