\* One run at a time over two posts: the list has an order, and a failure in the
\* middle of it leaves the rest to a later tick.
SPECIFICATION FairSpec
CONSTANTS
  Posts = {p1, p2}
  Runs = {w1}
  Clients = {c1}
  Contents = {a}
  Targets = {facebook}
  MaxTime = 1
  MaxFaults = 2
  Null = Null
PROPERTIES CancelHolds OutcomeStands PendingIsTakenUp ProcessingEnds
\* A post is published once and time is bounded: the system may stop.
CHECK_DEADLOCK FALSE
