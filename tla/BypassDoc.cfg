CONSTANTS
  Readers = {r1}
  Writers = {w1}
  Identities = {i1}
  Docs = {d1}
  Kinds = {k1}
  Changes <- ChangesAll
  Purges <- PurgesAll
  AdminScopes <- AdminNone
  TTL <- TTLOne
  Timeout = 1
  MaxTime = 1
  MaxChanges = 1
SPECIFICATION Spec
INVARIANTS BypassSkipsCache
