--------------------------- MODULE MCSmartMonitor ---------------------------
(***************************************************************************)
(* SmartMonitor for TLC: one plugin state and one RDKShell notification of *)
(* each kind.                                                              *)
(***************************************************************************)
EXTENDS SmartMonitor

MCStates == {"activated", "suspended", "deactivated"}
MCShellNames == {"onLaunched", "onSuspended", "onDestroyed"}

LowerCase(s) == s

(* The spelling in the comments of the code. *)
Capitalised(s) ==
  CASE s = "activated"   -> "Activated"
    [] s = "suspended"   -> "Suspended"
    [] s = "deactivated" -> "Deactivated"
=============================================================================
