SPECIFICATION Spec
CONSTANTS
  Null = Null
  Cycle = Cycle
  NoEmail = NoEmail
  Bookings <- MCBookings
  Events <- Reassigned
  Ev <- MCEv
  Batch = 2
  Broken = {}
  MaxFaults = 1
INVARIANTS IInv OnlyNamedParticipants
PROPERTIES NeverOverwritten Resolves
