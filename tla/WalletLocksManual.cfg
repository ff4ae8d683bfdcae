SPECIFICATION Spec
CONSTANTS
  b = b
  c1 = c1
  m1 = m1
  m2 = m2
  Bot = b
  Cleanups = {c1}
  Manuals = {m1}
  Reopen = {}
  NoFile = NoFile
  Orphan = Orphan
  TornSets <- NobodyTorn
  SlowSets <- NoneSlow
INVARIANT NobodyElseWorks
