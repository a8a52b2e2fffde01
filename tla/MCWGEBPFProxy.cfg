SPECIFICATION ProxySpec
CONSTANTS
  MaxPort = 3
  Turns = {t1, t2, t3, t4}
  None = None
INVARIANTS ProxyTypeOK PortsAreOwned
PROPERTY PortRests
