SPECIFICATION FairSpec
CONSTANTS
  Configs <- AllConfigs
  Circumstances <- AllCircumstances
  Principal <- TwoAndOne
  Foreign = 2
  CapShare = 2
INVARIANTS NeverKnownBeforeOut CapitalKnown ProceedsBooked SaleCapped DeliveredOnce LogMeansNothingMoved
PROPERTIES RecordStands Completes
CHECK_DEADLOCK FALSE
