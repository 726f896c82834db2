------------------------------ MODULE RpcCalls ------------------------------
(***************************************************************************)
(* What the callers of ThunderInterface are promised: a remote call is     *)
(* outstanding for a while and then returns, either with the response to   *)
(* that very call or with nothing (Empty).  Timeouts, lost and late        *)
(* responses and the table of pending requests do not show.                *)
(***************************************************************************)
EXTENDS Integers

CONSTANTS Callers, MaxCalls, Empty

VARIABLES busy,    \* [Callers -> BOOLEAN]: a call is outstanding
          count,   \* [Callers -> Nat]: calls begun
          answer   \* [Callers -> ...]: what the last call returned

vars == <<busy, count, answer>>

Init ==
  /\ busy = [t \in Callers |-> FALSE]
  /\ count = [t \in Callers |-> 0]
  /\ answer = [t \in Callers |-> Empty]

Begin(t) ==
  /\ ~busy[t]
  /\ count[t] < MaxCalls[t]
  /\ busy' = [busy EXCEPT ![t] = TRUE]
  /\ count' = [count EXCEPT ![t] = @ + 1]
  /\ UNCHANGED answer

Return(t) ==
  /\ busy[t]
  /\ \E a \in {<<t, count[t]>>, Empty} : answer' = [answer EXCEPT ![t] = a]
  /\ busy' = [busy EXCEPT ![t] = FALSE]
  /\ UNCHANGED count

Next == \E t \in Callers : Begin(t) \/ Return(t)

Spec == Init /\ [][Next]_vars /\ \A t \in Callers : WF_vars(Return(t))
=============================================================================
