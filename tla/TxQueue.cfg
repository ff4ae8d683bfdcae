SPECIFICATION Spec
CONSTANTS
  Tickets = {t1, t2, t3}
  NoLoop = NoLoop
  Between = Between
  ConfirmTimeout = 1
  ClientTimeout = 2
  ResultTTL = 3
  BlockhashTTL = 2
  Faults = {}
SYMMETRY Symmetry
INVARIANTS FailedIsFinal PlainErrorIsSafe PollFindsTicket FifoOrder
PROPERTY KeepsPromise
