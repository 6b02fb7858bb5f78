SPECIFICATION FairSpec
CONSTANTS
  Endpoints <- GoodEndpoint
  Masks <- SomeMask
  Timeouts = {TRUE, FALSE}
  MaxCalls = 2
  MaxFlight = 4
  Faults <- OnlyRestart
  MaxFaults = 1
CHECK_DEADLOCK FALSE
PROPERTY Reconnects
