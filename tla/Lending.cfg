SPECIFICATION FairSpec
CONSTANTS
  Setups <- AllSetups
  MaxJobs = 1
  MaxRestarts = 1
INVARIANT BooksFollow
PROPERTIES EndangeredEmptied BooksCatchUp FundsInvested
