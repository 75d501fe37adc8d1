CONSTANTS
  c1 = c1
  c2 = c2
  c3 = c3
  u1 = u1
  u2 = u2
  d1 = d1
  d2 = d2
  Profiles = {u1, u2}
  Connections = {c1, c2, c3}
  Owner <- OwnerDef
  Domains = {d1, d2}
  DefaultDomain = d1
  MaxLives = 2
  Limits <- LimitsDef
SPECIFICATION Spec
CHECK_DEADLOCK FALSE
INVARIANTS OneOwner NothingLost ShutdownSaves
