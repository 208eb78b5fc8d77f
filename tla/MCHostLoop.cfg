SPECIFICATION FairSpec
CONSTANTS
  Tickets = {f1, f2}
  MaxStep = 3
  MaxCalls = 2
  Fallbacks = 2
  Attempts = 3
INVARIANTS TypeOK FollowUpsSettled FollowUpsTold HookMatchesEnd StopIsAnswered
PROPERTIES ImplementsRunContract StopEndsRun
CHECK_DEADLOCK FALSE
