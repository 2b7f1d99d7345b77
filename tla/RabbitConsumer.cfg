SPECIFICATION FairSpec
CONSTANTS
  m1 = m1
  m2 = m2
  m3 = m3
  m4 = m4
  h1 = h1
  h2 = h2
  h3 = h3
  NoKey = NoKey
  NoMsg = NoMsg
  Messages <- MCMessages4
  Handlers <- MCHandlers3
  EventId <- MCEventId
  IdemKey <- MCIdemKey
  Kind <- MCKind
  Prefetch = 2
  MaxAttempts = 2
  MaxFaults = 2

INVARIANTS UniqueRows AppliedOnce AckedIsStored DeadHasCause IInv
PROPERTIES SettledForever Abstract EveryMessageSettles
