SPECIFICATION Spec
CONSTANTS
  MaxClock = 1
  MaxWrites = 2
  Accounts <- SomeAccounts
  TimedRows <- SomeTimedRows
INVARIANTS TypeOK LastingRestrictionHonoured NoRestrictionInvented NothingGuessed
