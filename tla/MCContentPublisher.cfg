\* One call to a target that needs media and to two that do not: three tasks
\* interleave their read-modify-writes of the record.
SPECIFICATION FairSpec
CONSTANTS
  Calls = {c1}
  Targets = {instagram, facebook, linkedin}
  NeedsMedia = {instagram}
  Accounts = {account}
  Readers = {r1}
  Null = Null
INVARIANTS TypeOK RecordTellsTruth PromisedRetryQueued AnswerMatches
PROPERTIES CancelYieldsToVerdict PendingResolved KeepsPromise
CHECK_DEADLOCK FALSE
