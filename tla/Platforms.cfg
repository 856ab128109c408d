SPECIFICATION PlatformSpec
CONSTANTS
  c1 = c1
  c2 = c2
  x1 = x1
  x2 = x2
  Null = Null
  Clients = {c1, c2}
  Posts = {x1, x2}
  MaxToken = 2
  MaxTries = 2
  MaxAccounts = 1

INVARIANTS PlatformTypeOK OkMeansPublished RowIsNotAhead Recorded
PROPERTY CallsEnd
