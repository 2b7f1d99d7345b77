SPECIFICATION Spec
CONSTANTS
  Null = Null
  Malformed = Malformed
  Events <- MCEvents
  Ev <- MCEv
  Lives <- MCLives
  MaxMissed = 1
INVARIANTS WellFormed AppendOnlyTablesComplete EmailKeepsBothHalves ReadExactlyWhenCovered OneLinkPerUser BookingIsLastWriter HistoryInOrder
PROPERTIES Atomic
