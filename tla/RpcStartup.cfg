\* Two threads issue requests at the same time.
CONSTANTS
  main = main
  loop = loop
  Empty = Empty
  Unset = Unset
  Broken = Broken
  Callers <- StartupCallers
  MaxCalls <- StartupCalls
  Subscribers <- StartupSubscribers
  FirstId = 1001
SPECIFICATION Spec
\* The bounded calls run out, and std::terminate stops the process.
CHECK_DEADLOCK FALSE
INVARIANTS TypeOK OwnResponse NoAbort NoAbandonedEntry
PROPERTIES AnswerSurvivesCleanup CallReturns
