CONSTANTS
  Readers = {r1}
  Writers = {w1}
  Identities = {i1, i2}
  Docs = {d1}
  Kinds = {k1}
  Changes <- ChangesAll
  Purges <- PurgesAll
  AdminScopes <- AdminOne
  TTL <- TTLOne
  Timeout = 1
  MaxTime = 1
  MaxChanges = 1
SPECIFICATION FairSpec
INVARIANTS OwnAnswersOnly
PROPERTIES Implements ReadsReturn WritesReturn
