\* A first run: main has built its last request when the event loop builds its
\* first, but may still wait for the response.
CONSTANTS
  main = main
  loop = loop
  Empty = Empty
  Unset = Unset
  Broken = Broken
  Callers <- StartupCallers
  MaxCalls <- StartupCalls
  Subscribers <- StartupSubscribers
  FirstId = 1001
SPECIFICATION InTurnSpec
\* The bounded calls run out.
CHECK_DEADLOCK FALSE
INVARIANTS NoCollision
PROPERTIES ImplementsRpc TableDrains
