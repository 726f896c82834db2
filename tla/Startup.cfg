\* A first run of the program, in which one call is refused, or a restart: XCast
\* then forwards requests from the start.  One change of state, and those that
\* DIAL requests bring about, of an application that is not suspended.
CONSTANTS
  Apps = {"YouTube"}
  Strangers = {"YouTubeTV"}
  States <- TwoStates
  ShellNames <- TwoShellNames
  StatusState <- LowerCase
  MaxChanges = 1
  MaxRequests = 1
  EnabledApps <- YouTubeOnly
  Leftovers <- FirstRunOrAgain
  MaxRefusals <- OneInFirstRun
SPECIFICATION StartupSpec
\* The bounded changes and requests run out.
CHECK_DEADLOCK FALSE
INVARIANTS StartupTypeOK Serving EventWins
PROPERTIES LoopServesAfterMain StartupCompletes
