SPECIFICATION Spec
CONSTANTS
  Configs <- SendingCoins
  Circumstances <- JustCalm
  Principal <- TwoAndOne
  Foreign = 2
  CapShare = 2
INVARIANT NeverSentTwice
CHECK_DEADLOCK FALSE
