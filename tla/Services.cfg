SPECIFICATION ServicesSpec
CONSTANTS
  c1 = c1
  c2 = c2
  t1 = t1
  t2 = t2
  u1 = u1
  o1 = o1
  o2 = o2
  s1 = s1
  s2 = s2
  a1 = a1
  g1 = g1
  g2 = g2
  x1 = x1
  x2 = x2
  Null = Null
  Callers = {c1, c2}
  Tenants = {t1, t2}
  Users = {u1}
  OpenIds = {o1, o2}
  Members = {u1}
  AuthStates = {s1, s2}
  MaxRows = 2
  Accounts = {a1}
  Pages = {g1, g2}
  AccountTenant <- OneTenant
  MaxPageToken = 2
  MaxPageRows = 2
  Contents = {x1, x2}
  MaxKeys = 2
  MaxAssets = 3
  Limit = 2
  MaxDirect = 1
SYMMETRY Symmetry
INVARIANTS ServicesTypeOK StateAdmitsOnce OneTikTokAccount OneRowPerPage
  AnsweredIsStored OneKeyPerContent RateIsBounded
PROPERTY TokenStands
