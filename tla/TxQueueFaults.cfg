SPECIFICATION FairSpec
CONSTANTS
  Tickets = {t1, t2}
  NoLoop = NoLoop
  Between = Between
  ConfirmTimeout = 1
  ClientTimeout = 1
  ResultTTL = 2
  BlockhashTTL = 1
  Faults = {"pollThrow", "sendLost", "slowSend", "httpError", "restart"}
INVARIANTS SingleFlight OpenTicketTracked
PROPERTIES CallEnds TicketDone ResultFreed
