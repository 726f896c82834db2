-------------------------- MODULE MCResponseHandler --------------------------
(***************************************************************************)
(* Instances of ResponseHandler for TLC: the main thread together with the *)
(* event-loop thread (start-up, and the SIGTERM handler), and the          *)
(* event-loop thread alone (once main waits for SIGTERM).                  *)
(***************************************************************************)
EXTENDS ResponseHandler

CONSTANTS main, loop

SteadyCallers == {loop}
SteadySubscribers == {}
SteadyCalls == [t \in SteadyCallers |-> 4]

StartupCallers == {main, loop}
StartupSubscribers == {main}
StartupCalls == [t \in StartupCallers |-> IF t = main THEN 1 ELSE 2]
=============================================================================
