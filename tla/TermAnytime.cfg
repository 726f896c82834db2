\* The signal arrives at any time.
CONSTANTS
  SignalAt <- AnyStage
  MaxEvents = 3
  MaxSignals = 2
SPECIFICATION Spec
\* The process ends, or waits for a signal.
CHECK_DEADLOCK FALSE
INVARIANTS TypeOK ExitsOrderly
PROPERTIES LeavesOrFails SleeperLeaves
