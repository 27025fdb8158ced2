CONSTANTS
  Calls = {b1, r1}
  Batches = {b1}
  Lists = {r1}
  Items = 2
CHECK_DEADLOCK FALSE
SPECIFICATION FairSpec
INVARIANTS TypeOK ResultsTrue ReportedItemsListed QuietStopCutsNobody
PROPERTIES SignalStops CallsEnd
