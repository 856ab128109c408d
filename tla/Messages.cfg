\* One message with two users, of whom one is the sender, and two requests that
\* overlap on it: two that race, and one that reads what they leave.
SPECIFICATION FeedSpec
CONSTANTS
  Messages = {m1}
  Users = {u1, u2}
  a = a
  b = b
  rawA = rawA
  rawB = rawB
  Contents = {a, b, rawA, rawB}
  Sanitize <- SanitizeTexts
  Emojis = {heart}
  Clients = {c1, c2}
  MaxEdits = 1
  Null = Null
SYMMETRY Symmetry
INVARIANTS TypeOK FeedIsTrue
PROPERTIES DeletionHolds ActsLikeBoard
\* All messages may be deleted: the system may stop.
CHECK_DEADLOCK FALSE
