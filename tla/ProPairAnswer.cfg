CONSTANTS
  a = a
  b = b
  p = p
  q = q
  Connections = {a, b}
  Processes = {p, q}
  Peers <- OneOrTwoProcesses
  Tokens = {0, 1}
  ZeroToken = 0
  None = None
  MaxSessions = 2
  MaxStarts <- StartOnce
  MaxGeneration = 0
  MaxEvents = 2
SPECIFICATION FairSpec
INVARIANT OneProcessOwnsPro
PROPERTIES RequestsAreAnswered
