SPECIFICATION FairSpec
CONSTANTS
  t = t  A = A  B = B  ka = ka  kb = kb   a1 = a1  b1 = b1
  h1 = h1  h2 = h2
  Token <- MCToken  Client <- MCClient  Key <- MCKey  AllowedIP <- MCIP  Addr <- MCAddr
  EmptyKey = EmptyKey  Mangled = Mangled  NoOne = NoOne
  Packets <- MCLengthsDiffer
  Handlers <- MCHandlers2
  DbFaults = TRUE
  MaxRows = 2  MaxReceived = 3
INVARIANT UndisturbedKeys
PROPERTY HandlersReturn
