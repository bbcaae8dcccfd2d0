CONSTANTS
  IdWidth = 3
  MaxCalls = 5
SPECIFICATION FairSpec
CHECK_DEADLOCK FALSE
INVARIANT OwnOutcome
PROPERTIES IdsDistinct CallReturns
