SPECIFICATION FairSpec
CONSTANTS
  StartPort = 1
  LastPort = 2
  ProxyPorts = {3}
  MaxTroubles = 2
INVARIANTS TypeOK ListensWhereRegistered ProgramIsCurrent
PROPERTY Connects
CHECK_DEADLOCK FALSE
