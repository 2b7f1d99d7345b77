SPECIFICATION MeteredSpec
CONSTANTS
  m1 = m1
  m2 = m2
  m3 = m3
  m4 = m4
  h1 = h1
  h2 = h2
  h3 = h3
  NoKey = NoKey
  NoMsg = NoMsg
  Messages <- MCMessages3
  Handlers <- MCHandlers2
  EventId <- MCEventId
  IdemKey <- MCIdemKey
  Kind <- MCKind
  Lifecycle <- MCLifecycle
  Prefetch = 2
  MaxAttempts = 2
  MaxFaults = 0
INVARIANTS EventsTotalCountsRows
