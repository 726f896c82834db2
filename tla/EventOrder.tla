----------------------------- MODULE EventOrder -----------------------------
(***************************************************************************)
(* What the handlers of Thunder's notifications are promised: every        *)
(* notification is handled once, in the order in which the notifications   *)
(* arrived, and eventually, as long as the program is not shutting down.   *)
(***************************************************************************)
EXTENDS Sequences, Naturals

CONSTANTS Events, MaxEvents

VARIABLES sent,  \* notifications that arrived
          got,   \* notifications whose handler was started
          open   \* FALSE once shutdown has begun

vars == <<sent, got, open>>

Init == sent = <<>> /\ got = <<>> /\ open = TRUE

Arrive ==
  /\ Len(sent) < MaxEvents
  /\ \E e \in Events : sent' = Append(sent, e)
  /\ UNCHANGED <<got, open>>

Handle ==
  /\ Len(got) < Len(sent)
  /\ got' = Append(got, sent[Len(got) + 1])
  /\ UNCHANGED <<sent, open>>

Close == open /\ open' = FALSE /\ UNCHANGED <<sent, got>>

Next == Arrive \/ Handle \/ Close

Spec == Init /\ [][Next]_vars /\ WF_vars(open /\ Handle)
=============================================================================
