\* Two runs of the cron job that overlap, and a client that schedules, edits
\* and cancels.  One post is enough for runs to meet.
SPECIFICATION Spec
CONSTANTS
  Posts = {p1}
  Runs = {w1, w2}
  Clients = {c1}
  Contents = {a, b}
  Targets = {facebook, instagram}
  MaxTime = 1
  MaxFaults = 2
  Null = Null
SYMMETRY Interchangeable
INVARIANTS TypeOK OneAttemptPerRun StatusIsEarned PublishedAsShown
\* A post is published once and time is bounded: the system may stop.
CHECK_DEADLOCK FALSE
