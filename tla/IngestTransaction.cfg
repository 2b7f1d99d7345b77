SPECIFICATION FairSpec
CONSTANTS
  Null = Null
  Malformed = Malformed
  Events <- MCEvents
  Ev <- MCEv
  MaxFaults = 1
INVARIANTS HistoryIsSerial BookingIsSerial RaceIsBenign IInv
PROPERTIES NoLostUpdate EveryTransactionEnds Atomic
