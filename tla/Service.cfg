SPECIFICATION FairSpec
CONSTANTS
  m1 = m1
  m2 = m2
  m3 = m3
  q1 = q1
  q2 = q2
  b1 = b1
  b2 = b2
  Cycle = Cycle
  Probe = Probe
  Null = Null
  Messages <- MCMessages
  Queues <- MCQueues
  QueueOf <- MCQueueOf
  Bookings <- MCBookings
  RowsOf <- MCRowsOf
  Poison <- MCPoison
  Prefetch = 1
  PoolLimit = 2
  MaxAttempts = 2
  MaxFaults = 3
INVARIANTS NoHoldAndWait SomeoneGoesOn ClosedLast IInv
PROPERTIES LostOnlyBeforeFirstStart EveryMessageSettles StopEnds
