CONSTANTS
  dial = dial
  state = state
  Events <- TwoEvents
  MaxEvents = 3
SPECIFICATION Spec
\* The process ends after shutdown.
CHECK_DEADLOCK FALSE
INVARIANTS TypeOK Fifo QuietAfterShutdown
PROPERTIES ShutdownReturns ImplementsEventOrder
