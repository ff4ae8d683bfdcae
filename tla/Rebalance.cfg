SPECIFICATION FairSpec
CONSTANTS
  Circumstances <- AllCircumstances
  Principal = 3
  Foreign = 1
  Cap = 5
  Threshold = 2
  MaxFails = 3
INVARIANTS ShiftCovered BooksExact
PROPERTIES RefusedOnlyLate Reopened
CHECK_DEADLOCK FALSE
