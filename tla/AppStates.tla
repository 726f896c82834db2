----------------------------- MODULE AppStates -----------------------------
(***************************************************************************)
(* The states of an application as Thunder names them and as DIAL names    *)
(* them, and the conversions between the two (SmartMonitor.cpp,            *)
(* ThunderInterface.cpp).                                                  *)
(***************************************************************************)

(* The states of a Thunder plugin, in lower case, by what they mean for    *)
(* DIAL.                                                                   *)
StoppedStates == {"deactivated", "deactivation", "destroyed", "unavailable",
                  "activation", "precondition"}
RunningStates == {"activated", "resumed"}
SuspendedStates == {"suspended", "hibernated"}
PluginStates == StoppedStates \cup RunningStates \cup SuspendedStates

DialStates == {"running", "stopped", "suspended", "hidden"}

(* convertPluginStateToDIALState: the DIAL state, or "none" (status false) *)
(* for a name it does not know; a capitalised name is one of those.        *)
ConvertPluginStateToDIALState(s) ==
  CASE s \in StoppedStates   -> "stopped"
    [] s \in RunningStates   -> "running"
    [] s \in SuspendedStates -> "suspended"
    [] s \in DialStates \ SuspendedStates -> s
    [] OTHER -> "none"

(* dialState after convertPluginStateToDIALState(s, dialState): it is left *)
(* alone when the conversion fails.                                        *)
Converted(s, dialState) ==
  IF ConvertPluginStateToDIALState(s) = "none"
  THEN dialState
  ELSE ConvertPluginStateToDIALState(s)

(* The notifications of RDKShell that onRDKShellEvent monitors, and the    *)
(* state it derives from each.                                             *)
ShellEvents == {"onApplicationActivated", "onApplicationLaunched",
                "onApplicationResumed", "onApplicationSuspended",
                "onApplicationTerminated", "onDestroyed", "onLaunched",
                "onSuspended", "onPluginSuspended"}

ShellEventState(e) ==
  CASE e \in {"onLaunched", "onApplicationActivated", "onApplicationLaunched",
              "onApplicationResumed"} -> "running"
    [] e \in {"onSuspended", "onApplicationSuspended", "onPluginSuspended"}
         -> "suspended"
    [] OTHER -> "stopped"

(* reportDIALAppState: the state put into setApplicationState, or "none"   *)
(* when nothing is sent.                                                   *)
ReportableState(s) ==
  LET converted == Converted(s, s)
  IN IF converted \in DialStates THEN converted ELSE "none"
=============================================================================
