--------------------------- MODULE ResponseHandler ---------------------------
(***************************************************************************)
(* A remote call on Thunder, from building the message to the return of    *)
(* getRequestStatus (ResponseHandler.cpp, ThunderInterface.cpp).           *)
(*                                                                         *)
(* Every method of ThunderInterface that asks Thunder for something does   *)
(* the same three things on the calling thread: build a message with a     *)
(* fresh id, hand it to the transport, and wait in getRequestStatus for    *)
(* the response.  The websocket thread delivers responses with             *)
(* addMessageToResponseQueue, and a clean-up thread sweeps the table of    *)
(* pending requests.  The critical sections under m_requestMutex are       *)
(* single steps; what happens outside the mutex (sending, waiting on the   *)
(* future) is a step of its own.                                           *)
(*                                                                         *)
(* The text of a response is abstracted to the request it answers.         *)
(***************************************************************************)
EXTENDS RequestIds, Functions

CONSTANTS Empty,    \* the empty string getRequestStatus returns on failure
          Unset,    \* a future whose promise has no value yet
          Broken    \* a future whose promise was destroyed without a value

ASSUME ResponseHandlerAssumption ==
  /\ Empty # Unset /\ Empty # Broken /\ Unset # Broken
  /\ {Empty, Unset, Broken} \cap Requests = {}

VARIABLES
  pending,     \* m_pendingRequests: message id -> RequestContext
  future,      \* [Callers -> ...]: shared state of the future a caller holds
  outcome,     \* [Callers -> ...]: what the caller's last call returned
  wire,        \* requests sent whose response is not delivered yet
  connected,   \* the transport state is CONNECTED
  terminated   \* std::terminate was called

tableVars == <<pending, future, outcome>>
vars == <<event_id, pc, msgId, loaded, calls, issued,
          pending, future, outcome, wire, connected, terminated>>

Waiting == {"waiting", "ready", "expired"}
Stages == {"idle", "built", "sent"} \cup Allocating \cup Waiting

(* A RequestContext; owner is the request that created it and so holds its *)
(* future.  CANCELLED is missing: nothing calls cancelRequest.             *)
Context == [state : {"PENDING", "COMPLETED", "TIMEOUT"},
            response : Requests \cup {Empty},
            owner : Requests]

TypeOK ==
  /\ IdsTypeOK
  /\ pc \in [Callers -> Stages]
  /\ DOMAIN pending \subseteq Int
  /\ \A id \in DOMAIN pending : pending[id] \in Context
  /\ future \in [Callers -> Requests \cup {Empty, Unset, Broken}]
  /\ outcome \in [Callers -> Requests \cup {Empty}]
  /\ wire \subseteq [id : Int, req : Requests]
  /\ connected \in BOOLEAN
  /\ terminated \in BOOLEAN

Init ==
  /\ IdsInit
  /\ pending = [id \in {} |-> Empty]
  /\ future = [t \in Callers |-> Unset]
  /\ outcome = [t \in Callers |-> Empty]
  /\ wire = {}
  /\ connected = TRUE
  /\ terminated = FALSE

With(id, c) ==
  [i \in DOMAIN pending \cup {id} |-> IF i = id THEN c ELSE pending[i]]

Without(ids) == Restrict(pending, DOMAIN pending \ ids)

(* The caller waits on the still unset future of an entry among ids. *)
HoldsUnset(t, ids) ==
  /\ pc[t] \in {"waiting", "expired"}
  /\ future[t] = Unset
  /\ \E id \in ids \cap DOMAIN pending : pending[id].owner = Current(t)

(* Destroying a context breaks its promise if it has no value. *)
FuturesWithout(ids) ==
  [t \in Callers |-> IF HoldsUnset(t, ids) THEN Broken ELSE future[t]]

-----------------------------------------------------------------------------
(* The calling thread. *)

(* addVersion and the builder around it. *)
Build(t) ==
  /\ TakeId(t) \/ LoadCounter(t) \/ StoreCounter(t)
  /\ UNCHANGED <<pending, future, outcome, wire, connected, terminated>>

(* Fault: the request is entered in the table before it is sent, with its  *)
(* future retrieved, and getRequestStatus is left as it is.                *)
Send_Preregisters(t) ==
  /\ pc[t] = "built"
  /\ connected
  /\ wire' = wire \cup {[id |-> msgId[t], req |-> Current(t)]}
  /\ pending' = With(msgId[t], [state |-> "PENDING", response |-> Empty,
                               owner |-> Current(t)])
  /\ pc' = [pc EXCEPT ![t] = "sent"]
  /\ UNCHANGED <<idVars, future, outcome, connected, terminated>>

(* sendMessage returned 1: the message is with the websocket thread. *)
Send(t) ==
  /\ pc[t] = "built"
  /\ connected
  /\ wire' = wire \cup {[id |-> msgId[t], req |-> Current(t)]}
  /\ pc' = [pc EXCEPT ![t] = "sent"]
  /\ UNCHANGED <<idVars, tableVars, connected, terminated>>

(* sendMessage returned -1: the method gives up without waiting. *)
SendRefused(t) ==
  /\ pc[t] = "built"
  /\ ~connected
  /\ outcome' = [outcome EXCEPT ![t] = Empty]
  /\ pc' = [pc EXCEPT ![t] = "idle"]
  /\ UNCHANGED <<idVars, pending, future, wire, connected, terminated>>

(* getRequestStatus, no context for the id: create one and wait on it. *)
RegisterRequest(t) ==
  /\ pc[t] = "sent"
  /\ msgId[t] \notin DOMAIN pending
  /\ pending' = With(msgId[t], [state |-> "PENDING", response |-> Empty,
                               owner |-> Current(t)])
  /\ future' = [future EXCEPT ![t] = Unset]
  /\ pc' = [pc EXCEPT ![t] = "waiting"]
  /\ UNCHANGED <<idVars, outcome, wire, connected, terminated>>

(* getRequestStatus, a completed context: take its response. *)
TakeCompleted(t) ==
  /\ pc[t] = "sent"
  /\ msgId[t] \in DOMAIN pending
  /\ pending[msgId[t]].state = "COMPLETED"
  /\ outcome' = [outcome EXCEPT ![t] = pending[msgId[t]].response]
  /\ pending' = Without({msgId[t]})
  /\ future' = FuturesWithout({msgId[t]})
  /\ pc' = [pc EXCEPT ![t] = "idle"]
  /\ UNCHANGED <<idVars, wire, connected, terminated>>

(* getRequestStatus, any other context: its future was retrieved when it   *)
(* was created, so promise.get_future() throws, and nothing catches it.    *)
FutureAlreadyRetrieved(t) ==
  /\ pc[t] = "sent"
  /\ msgId[t] \in DOMAIN pending
  /\ pending[msgId[t]].state # "COMPLETED"
  /\ terminated' = TRUE
  /\ UNCHANGED <<idVars, pc, tableVars, wire, connected>>

(* wait_for returns future_status::ready. *)
WakeReady(t) ==
  /\ pc[t] = "waiting"
  /\ future[t] # Unset
  /\ pc' = [pc EXCEPT ![t] = "ready"]
  /\ UNCHANGED <<idVars, tableVars, wire, connected, terminated>>

(* wait_for returns future_status::timeout. *)
WakeTimeout(t) ==
  /\ pc[t] = "waiting"
  /\ future[t] = Unset
  /\ pc' = [pc EXCEPT ![t] = "expired"]
  /\ UNCHANGED <<idVars, tableVars, wire, connected, terminated>>

(* Fault: the response is read from the table entry, not from the future. *)
ReturnResponse_FromTable(t) ==
  /\ pc[t] = "ready"
  /\ IF msgId[t] \in DOMAIN pending
     THEN /\ outcome' = [outcome EXCEPT ![t] = pending[msgId[t]].response]
          /\ pending' = Without({msgId[t]})
          /\ future' = FuturesWithout({msgId[t]})
     ELSE /\ outcome' = [outcome EXCEPT ![t] = Empty]
          /\ UNCHANGED <<pending, future>>
  /\ pc' = [pc EXCEPT ![t] = "idle"]
  /\ UNCHANGED <<idVars, wire, connected, terminated>>

(* Fault: an empty response, which clean-up sets, is taken for a spurious  *)
(* wake-up.                                                                *)
ReturnResponse_WaitsAgain(t) ==
  /\ pc[t] = "ready"
  /\ \/ /\ future[t] \notin {Broken, Empty}
        /\ outcome' = [outcome EXCEPT ![t] = future[t]]
        /\ pending' = Without({msgId[t]})
        /\ future' = FuturesWithout({msgId[t]})
        /\ pc' = [pc EXCEPT ![t] = "idle"]
     \/ /\ future[t] \in {Broken, Empty}
        /\ pc' = [pc EXCEPT ![t] = "waiting"]
        /\ UNCHANGED tableVars
  /\ UNCHANGED <<idVars, wire, connected, terminated>>

(* The ready branch after re-locking: future.get() yields the response and *)
(* the entry is erased, or throws (broken promise) and "" is returned.     *)
ReturnResponse(t) ==
  /\ pc[t] = "ready"
  /\ \/ /\ future[t] # Broken
        /\ outcome' = [outcome EXCEPT ![t] = future[t]]
        /\ pending' = Without({msgId[t]})
        /\ future' = FuturesWithout({msgId[t]})
     \/ /\ future[t] = Broken
        /\ outcome' = [outcome EXCEPT ![t] = Empty]
        /\ UNCHANGED <<pending, future>>
  /\ pc' = [pc EXCEPT ![t] = "idle"]
  /\ UNCHANGED <<idVars, wire, connected, terminated>>

(* Fault: the abandoned entry is not marked. *)
ReturnTimeout_Unmarked(t) ==
  /\ pc[t] = "expired"
  /\ outcome' = [outcome EXCEPT ![t] = Empty]
  /\ pc' = [pc EXCEPT ![t] = "idle"]
  /\ UNCHANGED <<idVars, pending, future, wire, connected, terminated>>

(* Fault: the abandoned entry is marked with a state clean-up never saw. *)
ReturnTimeout_Cancels(t) ==
  /\ pc[t] = "expired"
  /\ pending' = [id \in DOMAIN pending |->
                   IF id = msgId[t] THEN [pending[id] EXCEPT !.state = "CANCELLED"]
                                    ELSE pending[id]]
  /\ outcome' = [outcome EXCEPT ![t] = Empty]
  /\ pc' = [pc EXCEPT ![t] = "idle"]
  /\ UNCHANGED <<idVars, future, wire, connected, terminated>>

(* The timeout branch after re-locking: mark the entry, whatever its state *)
(* has become since the wait ended, and return "".                         *)
ReturnTimeout(t) ==
  /\ pc[t] = "expired"
  /\ pending' = [id \in DOMAIN pending |->
                   IF id = msgId[t] THEN [pending[id] EXCEPT !.state = "TIMEOUT"]
                                    ELSE pending[id]]
  /\ outcome' = [outcome EXCEPT ![t] = Empty]
  /\ pc' = [pc EXCEPT ![t] = "idle"]
  /\ UNCHANGED <<idVars, future, wire, connected, terminated>>

CallerStep(t) ==
  \/ Build(t)
  \/ Send(t) \/ SendRefused(t)
  \/ RegisterRequest(t) \/ TakeCompleted(t) \/ FutureAlreadyRetrieved(t)
  \/ WakeReady(t) \/ WakeTimeout(t)
  \/ ReturnResponse(t) \/ ReturnTimeout(t)

-----------------------------------------------------------------------------
(* The websocket thread. *)

Complete(id, response) ==
  /\ pending' = [pending EXCEPT ![id].response = response,
                                ![id].state = "COMPLETED"]
  /\ future' = [t \in Callers |->
                  IF HoldsUnset(t, {id}) THEN response ELSE future[t]]

(* Fault: responses are taken to arrive in the order of the requests, so   *)
(* any pending request is given the next one.                              *)
DeliverResponse_AnyPending(m) ==
  /\ wire' = wire \ {m}
  /\ \/ \E id \in DOMAIN pending :
          pending[id].state = "PENDING" /\ Complete(id, m.req)
     \/ /\ \A id \in DOMAIN pending : pending[id].state # "PENDING"
        /\ UNCHANGED <<pending, future>>
  /\ UNCHANGED <<idVars, pc, outcome, connected, terminated>>

(* Thunder answers m and addMessageToResponseQueue runs: the response      *)
(* completes a pending request and is dropped when the request has another *)
(* state or is not in the table.  Thunder answers in any order, or never.  *)
DeliverResponse(m) ==
  /\ wire' = wire \ {m}
  /\ \/ /\ m.id \in DOMAIN pending
        /\ pending[m.id].state = "PENDING"
        /\ Complete(m.id, m.req)
     \/ /\ m.id \in DOMAIN pending
        /\ pending[m.id].state # "PENDING"
        /\ UNCHANGED <<pending, future>>
     \/ /\ m.id \notin DOMAIN pending
        /\ UNCHANGED <<pending, future>>
  /\ UNCHANGED <<idVars, pc, outcome, connected, terminated>>

(* The connection closes; nothing opens it again (see TransportHandler::   *)
(* disconnected and main), and the responses still owed never come.        *)
Disconnect ==
  /\ connected
  /\ connected' = FALSE
  /\ wire' = {}
  /\ UNCHANGED <<idVars, pc, tableVars, terminated>>

-----------------------------------------------------------------------------
(* The clean-up thread. *)

Settled == {id \in DOMAIN pending : pending[id].state # "PENDING"}

(* Fault: only answered requests are swept. *)
CleanupExpiredRequests_KeepsTimeouts ==
  /\ \E id \in Settled : pending[id].state = "COMPLETED"
  /\ pending' = Without({id \in Settled : pending[id].state = "COMPLETED"})
  /\ UNCHANGED <<idVars, pc, future, outcome, wire, connected, terminated>>

(* One sweep of cleanupExpiredRequests.  Every entry that is not PENDING   *)
(* goes.  A PENDING entry goes, its future set to "", when it is older     *)
(* than MAX_REQUEST_AGE; that takes a process stopped for minutes, as no   *)
(* wait is longer than 5 s, so any set of pending entries may be old.      *)
CleanupExpiredRequests ==
  \E old \in SUBSET (DOMAIN pending \ Settled) :
    /\ Settled \cup old # {}
    /\ pending' = Without(Settled \cup old)
    /\ future' = [t \in Callers |-> IF HoldsUnset(t, old) THEN Empty
                                    ELSE FuturesWithout(Settled)[t]]
    /\ UNCHANGED <<idVars, pc, outcome, wire, connected, terminated>>

Next ==
  /\ ~terminated
  /\ \/ \E t \in Callers : CallerStep(t)
     \/ \E m \in wire : DeliverResponse(m)
     \/ Disconnect
     \/ CleanupExpiredRequests

(* A thread that has begun a call goes on with it, and the clean-up thread *)
(* sweeps every CLEANUP_INTERVAL.  No fairness on beginning a call, on     *)
(* Thunder's answers, or on the connection closing.                        *)
Fairness ==
  /\ \A t \in Callers :
       WF_vars(~terminated /\ pc[t] # "idle" /\ CallerStep(t))
  /\ WF_vars(~terminated /\ CleanupExpiredRequests)

Spec == Init /\ [][Next]_vars /\ Fairness

(* A thread begins to build a request only while no other is building one. *)
(* So it is in a first run until SIGTERM: the event loop makes no call     *)
(* before main has built its last request (LoopServesAfterMain in Startup),*)
(* and main builds none after that.  Calls may still be outstanding on     *)
(* both.                                                                   *)
BuildsAlone ==
  \A t \in Callers : calls'[t] # calls[t] =>
    \A u \in Callers \ {t} : pc[u] \notin Allocating

InTurnSpec == Init /\ [][Next /\ BuildsAlone]_vars /\ Fairness

-----------------------------------------------------------------------------
(* Safety.  The first three are about runs in which the ids are distinct;  *)
(* NoCollision says when they are.                                         *)

(* getRequestStatus returns the response to the caller's own request or "" *)
(* and never another caller's response, nor the late response to an        *)
(* earlier request of the same caller.                                     *)
OwnResponse ==
  NoCollision =>
    \A t \in Callers : pc[t] = "idle" => outcome[t] \in {Current(t), Empty}

(* No request brings the process down: get_future() in getRequestStatus is *)
(* reached once for every context.                                         *)
NoAbort == NoCollision => ~terminated

(* An entry that clean-up would take for live (PENDING) or that holds a    *)
(* response (COMPLETED) belongs to a caller still in getRequestStatus: a   *)
(* timed-out call leaves nothing behind that could block its id or hold a  *)
(* response nobody fetches.                                                *)
NoAbandonedEntry ==
  NoCollision =>
    \A id \in DOMAIN pending : pending[id].state # "TIMEOUT" =>
      \E t \in Callers : /\ pending[id].owner = Current(t)
                         /\ msgId[t] = id
                         /\ pc[t] \in Waiting

(* Once the promise of a waiting caller holds its response, the call       *)
(* returns that response: neither a sweep of the clean-up thread nor       *)
(* another caller can take it away between set_value and the moment the    *)
(* caller has re-locked the mutex.                                         *)
AnswerSurvivesCleanup ==
  [][\A t \in Callers :
       (pc[t] \in {"waiting", "ready"} /\ future[t] = Current(t)) =>
         \/ pc'[t] \in {"waiting", "ready"} /\ future'[t] = Current(t)
         \/ pc'[t] = "idle" /\ outcome'[t] = Current(t)]_vars

(* A response is found to have no pending request only when it is late,    *)
(* that is when its caller has stopped waiting for it, as the message      *)
(* logged by addMessageToResponseQueue says.                               *)
DroppedOnlyWhenLate ==
  [][\A m \in wire \ wire' :
       (connected' /\ m.id \notin DOMAIN pending)
         => \A t \in Callers : m.req = Current(t) => pc[t] = "idle"]_vars

(* The mutexes of the table are for "thread safety", its header says, so   *)
(* that requests of several threads, built at the same time as well, end   *)
(* neither in std::terminate nor with the response to another one.  Unlike *)
(* the three above this does not presume that ids are distinct.            *)
ThreadSafe ==
  /\ ~terminated
  /\ \A t \in Callers : pc[t] = "idle" => outcome[t] \in {Current(t), Empty}

-----------------------------------------------------------------------------
(* The inductive invariant behind OwnResponse, NoAbort and                 *)
(* NoAbandonedEntry.                                                       *)

(* What is unconditional: ids are remembered in issued. *)
IssuedInv ==
  /\ \A t \in Callers : pc[t] # "idle" =>
       [id |-> msgId[t], req |-> Current(t)] \in issued
  /\ \A a \in issued : a.req[2] <= calls[a.req[1]]
  /\ wire \subseteq issued
  /\ \A id \in DOMAIN pending : [id |-> id, req |-> pending[id].owner] \in issued

(* A context, the call that created it and the future that call holds. *)
EntryInv(id) ==
  LET c == pending[id]
      t == c.owner[1]
  IN /\ c.owner = Current(t) => msgId[t] = id
     /\ c.state = "PENDING" =>
          /\ c.owner = Current(t)
          /\ pc[t] \in {"waiting", "expired"}
          /\ future[t] = Unset
     /\ c.state = "COMPLETED" =>
          /\ c.owner = Current(t)
          /\ c.response = c.owner
          /\ pc[t] \in Waiting
          /\ future[t] = c.owner
     /\ c.state = "TIMEOUT" /\ c.owner = Current(t) => pc[t] = "idle"

CallerInv(t) ==
  /\ pc[t] = "idle" => outcome[t] \in {Current(t), Empty}
  /\ pc[t] \in {"waiting", "expired"} => future[t] \in {Unset, Current(t), Empty}
  /\ pc[t] = "ready" => future[t] \in {Current(t), Empty}

TableInv ==
  /\ ~terminated
  /\ \A id \in DOMAIN pending : EntryInv(id)
  /\ \A t \in Callers : CallerInv(t)

IInv == IssuedInv /\ (NoCollision => TableInv)

-----------------------------------------------------------------------------
(* Liveness. *)

(* Whatever Thunder, the connection and the other threads do, every call   *)
(* of getRequestStatus returns: the event loop and the start-up sequence,  *)
(* which issue their calls one after the other, are never stuck in one.    *)
CallReturns ==
  \A t \in Callers : (pc[t] # "idle") ~> (pc[t] = "idle" \/ terminated)

InTable(r) == \E id \in DOMAIN pending : pending[id].owner = r

(* Entries of calls that timed out are swept: the table does not grow with *)
(* the number of unanswered requests.                                      *)
TableDrains ==
  \A t \in Callers : \A n \in 1 .. MaxCalls[t] :
    InTable(<<t, n>>) ~> (~InTable(<<t, n>>) \/ terminated)

-----------------------------------------------------------------------------
(* What a method of ThunderInterface sees of all this: a call that returns *)
(* its own answer or nothing.                                              *)
Rpc == INSTANCE RpcCalls WITH
           busy <- [t \in Callers |-> pc[t] # "idle"],
           count <- calls,
           answer <- outcome

ImplementsRpc == Rpc!Spec

(* Its part without fairness. *)
StepsAsRpc == Rpc!Init /\ [][Rpc!Next]_(Rpc!vars)
=============================================================================
