----------------------------- MODULE MCStartup -----------------------------
(***************************************************************************)
(* Startup for TLC, with the spellings of MCSmartMonitor.                  *)
(***************************************************************************)
EXTENDS Startup, MCSmartMonitor

YouTubeOnly == <<"YouTube">>

(* An application that is not suspended, and its notifications. *)
TwoStates == {"activated", "deactivated"}
TwoShellNames == {"onLaunched", "onDestroyed"}

(* What XCast may know from a run of the program for YouTube. *)
FirstRun == {{}}
FirstRunOrAgain == {{}, {"YouTube", "YouTubeTV"}}

(* One call is refused in a first run. *)
OneInFirstRun == [first \in BOOLEAN |-> IF first THEN 1 ELSE 0]
=============================================================================
