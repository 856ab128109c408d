\* A cancellation that decides while the post is PENDING and writes later.
SPECIFICATION Spec
CONSTANTS
  Posts = {p1}
  Runs = {w1}
  Clients = {c1}
  Contents = {a}
  Targets = {facebook}
  MaxTime = 1
  MaxFaults = 0
  Null = Null
PROPERTY OnlyPendingIsCancelled
CHECK_DEADLOCK FALSE
