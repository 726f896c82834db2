---------------------------- MODULE MCEventLoop ----------------------------
(***************************************************************************)
(* EventLoop for TLC: two kinds of notifications are enough to tell one    *)
(* order from another, and three arrivals to have one handled, one in the  *)
(* batch and one in the queue.                                             *)
(***************************************************************************)
EXTENDS EventLoop

CONSTANTS dial, state

TwoEvents == {dial, state}
=============================================================================
