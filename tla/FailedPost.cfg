SPECIFICATION PlatformSpec
CONSTANTS
  c1 = c1
  x1 = x1
  Null = Null
  Clients = {c1}
  Posts = {x1}
  MaxToken = 2
  MaxTries = 1
  MaxAccounts = 1
INVARIANT FailedMeansNotPosted
