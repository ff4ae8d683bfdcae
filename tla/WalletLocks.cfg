SPECIFICATION FairSpec
CONSTANTS
  b = b
  c1 = c1
  m1 = m1
  m2 = m2
  Bot = b
  Cleanups = {c1}
  Manuals = {m1, m2}
  Reopen = {m2}
  NoFile = NoFile
  Orphan = Orphan
  TornSets <- SomeTorn
  SlowSets <- SomeSlow
INVARIANTS BlockedOnlyByWork BotYieldsToManual CleanupExcludesExit
PROPERTY ExitStarts
