----------------------------- MODULE RequestIds -----------------------------
(***************************************************************************)
(* How a request gets its message id (ProtocolHandler.cpp).                *)
(*                                                                         *)
(* Every request builder calls addVersion, which copies the file-static    *)
(* counter event_id into the caller's id and then increments the counter.  *)
(* The counter is a plain int: neither the copy nor the increment is       *)
(* protected, and builders run on the main thread (start-up, the SIGTERM   *)
(* handler) and on the event-loop thread (handlers of DIAL requests).  The *)
(* increment is therefore two steps of its own, a load and a store.  The   *)
(* builder of a (un)subscription increments the counter a second time for  *)
(* the id it puts in the parameters.                                       *)
(*                                                                         *)
(* A request is identified here by its caller and the caller's call        *)
(* number.  Which id each request took is remembered in issued, a history  *)
(* variable the properties use.                                            *)
(***************************************************************************)
EXTENDS Integers

CONSTANTS Callers,      \* threads that issue requests
          Subscribers,  \* those of them that also (un)subscribe to events
          MaxCalls,     \* bound: requests issued by each caller
          FirstId       \* initial value of the counter (1001 in the code)

ASSUME RequestIdsAssumption ==
  /\ Subscribers \subseteq Callers
  /\ MaxCalls \in [Callers -> Nat]
  /\ FirstId \in Int

(* The n-th request of caller t is <<t, n>>. *)
Requests == {r \in Callers \X (Nat \ {0}) : r[2] <= MaxCalls[r[1]]}

VARIABLES
  event_id,   \* the shared counter
  pc,         \* [Callers -> STRING]: where each thread is in its call
  msgId,      \* [Callers -> Int]: the id the current call took
  loaded,     \* [Callers -> Int]: the counter value event_id++ has loaded, or 0
  calls,      \* [Callers -> Nat]: calls begun
  issued      \* history: the records [id, req] of all ids taken

idVars == <<event_id, msgId, loaded, calls, issued>>

Current(t) == <<t, calls[t]>>

(* "load2"/"store2" are the first increment of a subscription, "load"/     *)
(* "store" the increment of a plain request or the second of a             *)
(* subscription; in "built" the message is ready to be sent.               *)
Allocating == {"load2", "store2", "load", "store"}

IdsTypeOK ==
  /\ event_id \in Int
  /\ msgId \in [Callers -> Int]
  /\ loaded \in [Callers -> Int]
  /\ calls \in [Callers -> Nat]
  /\ \A t \in Callers : calls[t] <= MaxCalls[t]
  /\ issued \subseteq [id : Int, req : Requests]

IdsInit ==
  /\ event_id = FirstId
  /\ pc = [t \in Callers |-> "idle"]
  /\ msgId = [t \in Callers |-> 0]
  /\ loaded = [t \in Callers |-> 0]
  /\ calls = [t \in Callers |-> 0]
  /\ issued = {}

(* id = event_id, for a plain request or for a subscription. *)
TakeId(t) ==
  /\ pc[t] = "idle"
  /\ calls[t] < MaxCalls[t]
  /\ \/ pc' = [pc EXCEPT ![t] = "load"]
     \/ t \in Subscribers /\ pc' = [pc EXCEPT ![t] = "load2"]
  /\ msgId' = [msgId EXCEPT ![t] = event_id]
  /\ calls' = [calls EXCEPT ![t] = @ + 1]
  /\ issued' = issued \cup {[id |-> event_id, req |-> <<t, calls[t] + 1>>]}
  /\ UNCHANGED <<event_id, loaded>>

(* The load half of event_id++. *)
LoadCounter(t) ==
  /\ \/ pc[t] = "load" /\ pc' = [pc EXCEPT ![t] = "store"]
     \/ pc[t] = "load2" /\ pc' = [pc EXCEPT ![t] = "store2"]
  /\ loaded' = [loaded EXCEPT ![t] = event_id]
  /\ UNCHANGED <<event_id, msgId, calls, issued>>

(* Fault: the counter is written back without being incremented. *)
StoreCounter_NoIncrement(t) ==
  /\ \/ pc[t] = "store" /\ pc' = [pc EXCEPT ![t] = "built"]
     \/ pc[t] = "store2" /\ pc' = [pc EXCEPT ![t] = "load"]
  /\ event_id' = loaded[t]
  /\ loaded' = [loaded EXCEPT ![t] = 0]
  /\ UNCHANGED <<msgId, calls, issued>>

(* The store half of event_id++. *)
StoreCounter(t) ==
  /\ \/ pc[t] = "store" /\ pc' = [pc EXCEPT ![t] = "built"]
     \/ pc[t] = "store2" /\ pc' = [pc EXCEPT ![t] = "load"]
  /\ event_id' = loaded[t] + 1
  /\ loaded' = [loaded EXCEPT ![t] = 0]
  /\ UNCHANGED <<msgId, calls, issued>>

(* No two requests took the same message id: what the request table keyed  *)
(* by id (ResponseHandler::m_pendingRequests) relies on.  It takes two     *)
(* threads in the copy and increment of addVersion to violate it, or, as   *)
(* long as they take turns, an increment that is lost.                     *)
NoCollision == \A a, b \in issued : a.id = b.id => a.req = b.req
=============================================================================
