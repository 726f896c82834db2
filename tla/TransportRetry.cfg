\* Until main serves, nothing is sent and nothing arrives.
CONSTANTS
  MainMethods <- Nothing
  LoopMethods <- Nothing
  Arrivals <- Nothing
  MaxCalls = 0
  MaxArrivals = 0
SPECIFICATION Spec
\* std::terminate stops the process.
CHECK_DEADLOCK FALSE
INVARIANTS KeepsTrying
