\* An edit that reads the message before it is deleted and writes after.
SPECIFICATION FeedSpec
CONSTANTS
  Messages = {m1}
  Users = {u1}
  a = a
  b = b
  rawA = rawA
  rawB = rawB
  Contents = {a, b, rawA, rawB}
  Sanitize <- SanitizeTexts
  Emojis = {heart}
  Clients = {c1, c2}
  MaxEdits = 1
  Null = Null
PROPERTY DeletedNotEdited
CHECK_DEADLOCK FALSE
