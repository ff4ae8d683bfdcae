SPECIFICATION FairSpec
CONSTANTS
  Jobs = {j1, j2}
  Runners = {r1, r2}
  NoLock = NoLock
  DeadPid = DeadPid
  MaxAge = 1
  MaxKills = 1
  FaultSets <- AllFaults
INVARIANTS NoOverlap MadeUp
PROPERTY JobsGoOn
