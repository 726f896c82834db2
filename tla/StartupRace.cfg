\* One change of state while main fetches the state.
CONSTANTS
  Apps = {"YouTube"}
  Strangers = {"YouTubeTV"}
  States <- MCStates
  ShellNames <- MCShellNames
  StatusState <- LowerCase
  MaxChanges = 1
  MaxRequests = 0
  EnabledApps <- YouTubeOnly
  Leftovers <- FirstRun
  MaxRefusals <- OneInFirstRun
SPECIFICATION StartupSpec
\* The bounded changes and requests run out.
CHECK_DEADLOCK FALSE
INVARIANTS FreshAfterStartup
