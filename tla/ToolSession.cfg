CONSTANTS
  Characters = {"1"}
  Ids <- OneRecord
SPECIFICATION Spec
INVARIANTS TypeOK WrittenRecordPurged DealsPurged
