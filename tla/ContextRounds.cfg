SPECIFICATION ContextSpec
CONSTANTS MaxMessages = 6 MaxSummaries = 2 MaxUpsets = 1
INVARIANT RoundsAreWhole
CHECK_DEADLOCK FALSE
