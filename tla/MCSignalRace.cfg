SPECIFICATION Spec
CONSTANTS
  t = t  A = A  B = B  ka = ka  kb = kb   a1 = a1  b1 = b1
  h1 = h1  h2 = h2
  Token <- MCToken  Client <- MCClient  Key <- MCKey  AllowedIP <- MCIP  Addr <- MCAddr
  EmptyKey = EmptyKey  Mangled = Mangled  NoOne = NoOne
  Packets <- MCPackets
  Handlers <- MCHandlers2
  DbFaults = FALSE
  MaxRows = 2  MaxReceived = 2
SYMMETRY Symmetry
INVARIANT KeyAtItsEndpoint
