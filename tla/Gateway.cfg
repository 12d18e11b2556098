CONSTANTS
  c1 = c1
  c2 = c2
  c3 = c3
  s1 = s1
  s2 = s2
  w1 = w1
  w2 = w2
  Conns = {c1, c2, c3}
  SessionIds = {s1, s2}
  SessionOf <- MCSessionOf
  Workers = {w1, w2}
  MaxSessions = 1
  MaxStamp = 2
  None = None
SPECIFICATION Spec
INVARIANTS SessionsOwned
PROPERTIES ReadyIsGenuine StartsAnswered
