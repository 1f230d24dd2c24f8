CONSTANTS
  s1 = s1
  s2 = s2
  h1 = h1
  Half = 4
  Sessions = {s1, s2}
  Kinds = {"wait", "poll", "playback"}
  Slots = 2
  Old = 2
  Hosts = {h1}
  MaxGeneration = 1
  None = None
SPECIFICATION CyclesSpec
INVARIANTS WakesAreKept HostIsLeftAlone StreamStops
PROPERTIES ImplementsCommitWait WaitsEnd
CHECK_DEADLOCK FALSE
