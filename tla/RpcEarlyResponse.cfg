\* One caller is enough: the response overtakes its registration.
CONSTANTS
  main = main
  loop = loop
  Empty = Empty
  Unset = Unset
  Broken = Broken
  Callers <- SteadyCallers
  Subscribers <- SteadySubscribers
  MaxCalls <- SteadyCalls
  FirstId = 1001
SPECIFICATION Spec
\* The bounded calls run out.
CHECK_DEADLOCK FALSE

PROPERTIES DroppedOnlyWhenLate
