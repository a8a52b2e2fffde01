SPECIFICATION FairSpec
CONSTANTS
  u1 = u1  u2 = u2  a1 = a1  a2 = a2  c1 = c1  c2 = c2  w1 = w1  h1 = h1
  None = None
  Ufrags = {u1, u2}
  Addrs = {a1, a2}
  V6Addrs = {a2}
  Families = {"v4", "v6"}
  Conns = {c1, c2}
  Writers = {w1}
  Handlers = {h1}
INVARIANTS TypeOK RoutesAreRemembered ClosedMuxIsEmpty ClosedConnIsOnItsWayOut
PROPERTY ClosedConnLeaves
