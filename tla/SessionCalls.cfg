SPECIFICATION FairSpec
CONSTANTS
  Endpoints <- AnyEndpoint
  Masks <- AnyMask
  Timeouts = {TRUE, FALSE}
  MaxCalls = 3
  MaxFlight = 4
  Faults <- AllFaults
  MaxFaults = 2
CHECK_DEADLOCK FALSE
INVARIANTS TypeOK OneOutstanding RetriesUnanswered
PROPERTY ResultIsOwn
PROPERTY EveryCallReturns
