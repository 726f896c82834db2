\* The connection opens, fails or takes long, and may close at any time.
CONSTANTS
  MainMethods <- Startup
  LoopMethods <- Serving
  Arrivals <- SomeArrivals
  MaxCalls = 2
  MaxArrivals = 2
SPECIFICATION Spec
\* The bounds run out, and std::terminate stops the process.
CHECK_DEADLOCK FALSE
INVARIANTS TypeOK HandleStored StaleOnlyAfterClose HonestSuccess
PROPERTIES SafeOnceReported ImplementsLink
