\* The signal arrives when main is waiting for it.
CONSTANTS
  SignalAt = {"join"}
  MaxEvents = 0
  MaxSignals = 1
SPECIFICATION Spec
\* The process ends, or waits for a signal.
CHECK_DEADLOCK FALSE
PROPERTIES ExitsOnTerm
