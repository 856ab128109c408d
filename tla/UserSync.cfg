SPECIFICATION SyncSpec
CONSTANTS
  c1 = c1
  c2 = c2
  t1 = t1
  t2 = t2
  u1 = u1
  u2 = u2
  Null = Null
  Callers = {c1, c2}
  Tenants = {t1, t2}
  Members = {u1, u2}
SYMMETRY Symmetry
PROPERTIES ActiveStaysMember MembershipsStand
