CONSTANTS
  Apps = {"YouTube"}
  Strangers = {"YouTubeTV"}
  States <- MCStates
  ShellNames <- MCShellNames
  StatusState <- LowerCase
  MaxChanges = 2
  MaxRequests = 2
SPECIFICATION Spec
\* The bounded changes and requests run out.
CHECK_DEADLOCK FALSE
INVARIANTS TypeOK
PROPERTIES KeepsTracking RedundantOnlyWhenLagging CacheConverges
