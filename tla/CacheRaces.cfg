CONSTANTS
  Readers = {r1, r2}
  Writers = {w1}
  Identities = {i1}
  Docs <- ProductDocs
  Kinds <- ProductKinds
  Changes <- ProductChanges
  Purges <- ProductPurges
  AdminScopes <- AdminNone
  TTL <- TTLOne
  Timeout = 1
  MaxTime = 2
  MaxChanges = 1
SPECIFICATION Spec
INVARIANTS TypeOK FreshnessBound ReadYourWrites
SYMMETRY Symmetry
