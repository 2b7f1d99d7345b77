SPECIFICATION FairSpec
CONSTANTS
  Null = Null
  Cycle = Cycle
  NoEmail = NoEmail
  Bookings <- MCBookings
  Events <- Two
  Ev <- MCEv
  Batch = 2
  Broken = {}
  MaxFaults = 1
PROPERTIES EventuallyResolved
