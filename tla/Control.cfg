CONSTANTS
  Nobody = Nobody
  c1 = c1
  card = card
  Daemons = {d1, d2}
  Service = d1
  MaxFaults = 3
  MaxClients = 2
  MaxPerUid = 1
  MaxQueue = 2
  Admins = {a1, a2}
  Broken = Broken
  MaxApplyFaults = 2
  Rounds = 2
  MaxChanges = 2
  MaxDaemons = 2
  MaxFailures = 2
SPECIFICATION ControlSpec
INVARIANTS EndsAgree ReportsAreTrue
PROPERTIES ConnectionsLeave OnlyTheCreatorCloses OthersAreLeftAlone ServiceReturns
CHECK_DEADLOCK FALSE
