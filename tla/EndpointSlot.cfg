CONSTANTS
  s1 = s1
  s2 = s2
  r1 = r1
  d1 = d1
  e1 = e1
  e2 = e2
  e3 = e3
  None = None
  Sessions = {s1, s2}
  RtReaders = {r1}
  DiagReaders = {d1}
  Endpoints = {e1, e2, e3}
  EpochModulus = 4
SPECIFICATION FairSpec
INVARIANTS NoUseAfterFree
PROPERTIES ImplementsGracePeriod DrainEnds
