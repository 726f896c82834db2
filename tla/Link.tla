-------------------------------- MODULE Link --------------------------------
(***************************************************************************)
(* What the rest of the program relies on of the connection to Thunder: it *)
(* is up once, for a while, messages are handed over only while it is up,  *)
(* and it never comes back.                                                *)
(***************************************************************************)
EXTENDS Naturals

VARIABLES phase,      \* "before", "up" or "down"
          handedOver  \* the messages handed over

vars == <<phase, handedOver>>

Init == phase = "before" /\ handedOver = 0

Open == phase = "before" /\ phase' = "up" /\ UNCHANGED handedOver
Close == phase = "up" /\ phase' = "down" /\ UNCHANGED handedOver
HandOver == phase = "up" /\ handedOver' = handedOver + 1 /\ UNCHANGED phase

Next == Open \/ Close \/ HandOver

Spec == Init /\ [][Next]_vars
=============================================================================
