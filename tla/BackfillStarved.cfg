SPECIFICATION FairSpec
CONSTANTS
  Null = Null
  Cycle = Cycle
  NoEmail = NoEmail
  Bookings <- MCBookings
  Events <- Two
  Ev <- MCEv
  Batch = 1
  Broken = {}
  MaxFaults = 0
PROPERTIES EventuallyResolved
