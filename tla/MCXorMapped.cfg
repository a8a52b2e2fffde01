SPECIFICATION FairSpec
CONSTANTS
  c1 = c1  c2 = c2  r1 = r1  s1 = s1  s2 = s2  m1 = m1  o1 = o1  o2 = o2  o3 = o3
  Servers = {s1, s2}
  Mapped = {m1}
  Callers = {c1, c2}
  Readers = {r1}
  Objects = {o1, o2, o3}
  None = None
INVARIANTS NoForgottenWaiter ReturnedWasReported
PROPERTY AnsweredWaiterReturns
