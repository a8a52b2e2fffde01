SPECIFICATION FairSpec
CONSTANTS
  A = A  B = B  k1 = k1  k2 = k2  e1 = e1  e2 = e2  e3 = e3
  i1 = i1  i2 = i2  i3 = i3  None = None
  Keys = {k1, k2}  Endpoints = {e1, e2, e3}
  Clients = {A, B}
  Listings <- MCMoving
  Conns = {i1, i2, i3}
  Short <- MCShort
  MaxMoves = 1
INVARIANT RouteIsARegistration
PROPERTIES SettledStays Converges
CHECK_DEADLOCK FALSE
