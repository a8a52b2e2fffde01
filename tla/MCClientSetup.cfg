SPECIFICATION FairSpec
CONSTANTS
  s1 = s1  s2 = s2
  Privates <- MCPrivates  DeviceKeys <- MCPrivates
  FirstFiles <- MCFirstFiles
  Ports = {2}
  DefaultPort = 1
  NoPort = 0
  Client = Client  Editor = Editor
  NoKey = None  None = None  NoFile = NoFile  Torn = Torn
  Modules <- MCModules
  Needs <- MCNeeds
  Listed <- MCListed
  Hosts <- MCHosts
  Keys = {k1, k2}  Nets = {n1, n2}  Endpoints = {e1}
  Threads = {t1}
  MaxTroubles = 2
INVARIANTS TypeOK FileIsWhole DeviceKeyIsSaved KernelWhenThere StatsOfItsPeer
PROPERTIES KeyIsForever DisabledIsLeftAlone ImplementsPeerTable GetsInterface
CHECK_DEADLOCK FALSE
