------------------------ MODULE ResponseHandlerProofs ------------------------
(***************************************************************************)
(* Theorems about ResponseHandler, for any set of callers and any number   *)
(* of calls.                                                               *)
(***************************************************************************)
EXTENDS ResponseHandler, TLAPS

(* What erasing entries does to the table and to the futures.              *)
LEMMA WithoutFacts ==
  ASSUME NEW ids
  PROVE  /\ DOMAIN Without(ids) = DOMAIN pending \ ids
         /\ \A id \in DOMAIN Without(ids) : Without(ids)[id] = pending[id]
BY DEF Without, Restrict

(* The current call of a caller that is in one is a request. *)
LEMMA CurrentIsRequest ==
  ASSUME TypeOK, NEW t \in Callers, calls[t] # 0
  PROVE  Current(t) \in Requests
BY RequestIdsAssumption DEF TypeOK, IdsTypeOK, Current, Requests

-----------------------------------------------------------------------------
(* Types. *)

(* Besides the types: a caller in a call has begun one, and a future that  *)
(* was ready still is.                                                     *)
TypeInv ==
  /\ TypeOK
  /\ \A t \in Callers : /\ pc[t] # "idle" => calls[t] # 0
                        /\ pc[t] = "ready" => future[t] # Unset

LEMMA InitType == Init => TypeInv
<1> SUFFICES ASSUME Init PROVE TypeInv
  OBVIOUS
<1>1. IdsTypeOK
  BY RequestIdsAssumption DEF Init, IdsInit, IdsTypeOK
<1>2. pc = [t \in Callers |-> "idle"]
  BY DEF Init, IdsInit
<1>3. /\ DOMAIN pending = {}
      /\ connected \in BOOLEAN
      /\ terminated \in BOOLEAN
  BY DEF Init
<1>. QED
  BY <1>1, <1>2, <1>3 DEF Init, TypeInv, TypeOK, Stages

LEMMA BuildType ==
  ASSUME TypeInv, NEW t \in Callers, Build(t)
  PROVE  TypeInv'
<1> USE RequestIdsAssumption
    DEF TypeInv, TypeOK, IdsTypeOK, Stages, Waiting, Allocating
<1>1. CASE TakeId(t)
  <2>1. <<t, calls[t] + 1>> \in Requests
    BY <1>1 DEF TakeId, Requests
  <2>2. [id |-> event_id, req |-> <<t, calls[t] + 1>>] \in [id : Int, req : Requests]
    BY <2>1
  <2>. QED
    BY <1>1, <2>2 DEF Build, TakeId
<1>2. CASE LoadCounter(t)
  BY <1>2 DEF Build, LoadCounter
<1>3. CASE StoreCounter(t)
  BY <1>3 DEF Build, StoreCounter
<1>. QED
  BY <1>1, <1>2, <1>3 DEF Build

LEMMA EraseType ==
  ASSUME TypeOK, NEW ids
  PROVE  /\ DOMAIN Without(ids) \subseteq Int
         /\ \A id \in DOMAIN Without(ids) : Without(ids)[id] \in Context
         /\ FuturesWithout(ids) \in [Callers -> Requests \cup {Empty, Unset, Broken}]
         /\ \A t \in Callers :
              future[t] # Unset => FuturesWithout(ids)[t] # Unset
BY WithoutFacts, ResponseHandlerAssumption DEF TypeOK, FuturesWithout

LEMMA CallerStepType ==
  ASSUME TypeInv, NEW t \in Callers, CallerStep(t)
  PROVE  TypeInv'
<1> USE DEF TypeInv, TypeOK, IdsTypeOK, idVars, tableVars,
            Stages, Waiting, Allocating
<1>1. CASE Build(t)
  BY <1>1, BuildType
<1>2. CASE Send(t)
  BY <1>2, CurrentIsRequest DEF Send
<1>3. CASE SendRefused(t)
  BY <1>3 DEF SendRefused
<1>4. CASE RegisterRequest(t)
  <2> DEFINE c == [state |-> "PENDING", response |-> Empty, owner |-> Current(t)]
  <2>1. c \in Context
    BY <1>4, CurrentIsRequest DEF RegisterRequest, Context
  <2>2. pending' = With(msgId[t], c)
    BY <1>4 DEF RegisterRequest
  <2> HIDE DEF c
  <2>3. /\ DOMAIN pending' \subseteq Int
        /\ \A id \in DOMAIN pending' : pending'[id] \in Context
    BY <2>1, <2>2 DEF With
  <2>. QED
    BY <1>4, <2>3 DEF RegisterRequest
<1>5. CASE TakeCompleted(t)
  <2>1. pending[msgId[t]].response \in Requests \cup {Empty}
    BY <1>5 DEF TakeCompleted, Context
  <2>. QED
    BY <1>5, <2>1, EraseType DEF TakeCompleted
<1>6. CASE FutureAlreadyRetrieved(t)
  BY <1>6 DEF FutureAlreadyRetrieved
<1>7. CASE WakeReady(t)
  BY <1>7 DEF WakeReady
<1>8. CASE WakeTimeout(t)
  BY <1>8 DEF WakeTimeout
<1>9. CASE ReturnResponse(t)
  <2>1. future[t] \in Requests \cup {Empty, Broken}
    BY <1>9 DEF ReturnResponse
  <2>. QED
    BY <1>9, <2>1, EraseType DEF ReturnResponse
<1>10. CASE ReturnTimeout(t)
  <2>1. \A id \in DOMAIN pending :
          [pending[id] EXCEPT !.state = "TIMEOUT"] \in Context
    BY DEF Context
  <2>2. /\ DOMAIN pending' = DOMAIN pending
        /\ \A id \in DOMAIN pending' : pending'[id] \in Context
    BY <1>10, <2>1 DEF ReturnTimeout
  <2>. QED
    BY <1>10, <2>2 DEF ReturnTimeout
<1>. QED
  BY <1>1, <1>2, <1>3, <1>4, <1>5, <1>6, <1>7, <1>8, <1>9, <1>10 DEF CallerStep

LEMMA DeliverType ==
  ASSUME TypeInv, NEW m \in wire, DeliverResponse(m)
  PROVE  TypeInv'
<1> USE DEF TypeInv, TypeOK, IdsTypeOK, idVars
<1>1. m.req \in Requests
  OBVIOUS
<1>2. ASSUME NEW id \in DOMAIN pending, Complete(id, m.req)
      PROVE  /\ DOMAIN pending' \subseteq Int
             /\ \A i \in DOMAIN pending' : pending'[i] \in Context
             /\ future' \in [Callers -> Requests \cup {Empty, Unset, Broken}]
             /\ \A t \in Callers : future[t] # Unset => future'[t] # Unset
  <2>1. /\ DOMAIN pending' = DOMAIN pending
        /\ \A i \in DOMAIN pending' : pending'[i] \in Context
    BY <1>1, <1>2 DEF Complete, Context
  <2>2. m.req # Unset
    BY <1>1, ResponseHandlerAssumption
  <2>. QED
    BY <1>1, <1>2, <2>1, <2>2 DEF Complete
<1>. QED
  BY <1>2 DEF DeliverResponse

LEMMA CleanupType ==
  ASSUME TypeInv, CleanupExpiredRequests
  PROVE  TypeInv'
<1> USE DEF TypeInv, TypeOK, IdsTypeOK, idVars
<1>1. PICK old \in SUBSET (DOMAIN pending \ Settled) :
        /\ pending' = Without(Settled \cup old)
        /\ future' = [t \in Callers |-> IF HoldsUnset(t, old) THEN Empty
                                        ELSE FuturesWithout(Settled)[t]]
        /\ UNCHANGED <<idVars, pc, outcome, wire, connected, terminated>>
  BY DEF CleanupExpiredRequests
<1>2. /\ future' \in [Callers -> Requests \cup {Empty, Unset, Broken}]
      /\ \A t \in Callers : future[t] # Unset => future'[t] # Unset
  BY <1>1, EraseType, ResponseHandlerAssumption
<1>. QED
  BY <1>1, <1>2, EraseType

LEMMA StepType == TypeInv /\ [Next]_vars => TypeInv'
<1> SUFFICES ASSUME TypeInv, [Next]_vars PROVE TypeInv'
  OBVIOUS
<1>1. CASE UNCHANGED vars
  BY <1>1 DEF vars, TypeInv, TypeOK, IdsTypeOK
<1>2. CASE Disconnect
  BY <1>2 DEF Disconnect, TypeInv, TypeOK, IdsTypeOK, idVars, tableVars
<1>. QED
  BY <1>1, <1>2, CallerStepType, DeliverType, CleanupType DEF Next

(* Every variable keeps its type. *)
THEOREM TypeCorrect == Spec => []TypeOK
<1>1. TypeInv => TypeOK
  BY DEF TypeInv
<1>. QED
  BY InitType, StepType, <1>1, PTL DEF Spec

-----------------------------------------------------------------------------
(* The inductive invariant.                                                *)

LEMMA InitIInv == Init => IInv
<1> SUFFICES ASSUME Init PROVE IInv
  OBVIOUS
<1>1. /\ \A t \in Callers : pc[t] = "idle" /\ outcome[t] = Empty
      /\ issued = {} /\ wire = {} /\ DOMAIN pending = {}
      /\ ~terminated
  BY DEF Init, IdsInit
<1>. QED
  BY <1>1 DEF IInv, IssuedInv, TableInv, CallerInv

(* Ids, once taken, stay in the history. *)
LEMMA NoCollisionBefore ==
  ASSUME issued \subseteq issued', NoCollision'
  PROVE  NoCollision
BY DEF NoCollision

(* With distinct ids, the entry under a caller's id is the caller's own. *)
LEMMA OwnEntry ==
  ASSUME IssuedInv, NoCollision, NEW t \in Callers, pc[t] # "idle",
         msgId[t] \in DOMAIN pending
  PROVE  pending[msgId[t]].owner = Current(t)
<1>1. /\ [id |-> msgId[t], req |-> Current(t)] \in issued
      /\ [id |-> msgId[t], req |-> pending[msgId[t]].owner] \in issued
  BY DEF IssuedInv
<1>. QED
  BY <1>1 DEF NoCollision

(* A caller that waits on an unset future has a pending entry. *)
LEMMA UnsetIsPending ==
  ASSUME TypeOK, TableInv, NEW t \in Callers, NEW ids, HoldsUnset(t, ids)
  PROVE  \E id \in ids \cap DOMAIN pending :
           /\ pending[id].owner = Current(t)
           /\ pending[id].state = "PENDING"
<1>1. PICK id \in ids \cap DOMAIN pending : pending[id].owner = Current(t)
  BY DEF HoldsUnset
<1>2. pending[id] \in Context /\ EntryInv(id)
  BY DEF TypeOK, TableInv
<1>3. pending[id].owner[1] = t /\ pending[id].owner \in Requests
  BY <1>1, <1>2 DEF Current, Context
<1>4. pc[t] \in {"waiting", "expired"} /\ future[t] = Unset /\ Unset \notin Requests
  BY ResponseHandlerAssumption DEF HoldsUnset
<1>5. pending[id].state \notin {"COMPLETED", "TIMEOUT"}
  BY <1>1, <1>2, <1>3, <1>4 DEF EntryInv
<1>. QED
  BY <1>1, <1>2, <1>5 DEF Context

(* Sweeping settled entries breaks no future. *)
LEMMA SettledUnheld ==
  ASSUME TypeOK, TableInv, NEW ids,
         \A id \in ids \cap DOMAIN pending : pending[id].state # "PENDING"
  PROVE  FuturesWithout(ids) = future
<1>1. \A t \in Callers : ~HoldsUnset(t, ids)
  BY UnsetIsPending
<1>. QED
  BY <1>1 DEF FuturesWithout, TypeOK

LEMMA BuildIInv ==
  ASSUME TypeInv, IInv, NEW t \in Callers, Build(t)
  PROVE  IInv'
<1> USE DEF IInv, Build
<1>1. CASE TakeId(t)
  <2>1. /\ pc[t] = "idle" /\ pc'[t] # "idle" /\ pc'[t] \notin Waiting
        /\ \A u \in Callers \ {t} : /\ pc'[u] = pc[u] /\ msgId'[u] = msgId[u]
                                    /\ calls'[u] = calls[u]
        /\ msgId'[t] = event_id /\ calls'[t] = calls[t] + 1
        /\ issued' = issued \cup {[id |-> event_id, req |-> <<t, calls[t] + 1>>]}
        /\ \A u \in Callers : calls[u] \in Nat
    BY <1>1 DEF TakeId, TypeInv, TypeOK, IdsTypeOK, Waiting
  <2>2. \A a \in issued : a.req \in Requests
    BY DEF TypeInv, TypeOK, IdsTypeOK
  <2>3. IssuedInv'
    <3>1. \A u \in Callers : (pc[u] # "idle" =>
            [id |-> msgId[u], req |-> Current(u)] \in issued)'
      BY <2>1 DEF IssuedInv, Current
    <3>2. \A a \in issued' : a.req[2] <= calls'[a.req[1]]
      BY <2>1, <2>2 DEF IssuedInv, Requests
    <3>. QED
      BY <1>1, <2>1, <3>1, <3>2 DEF IssuedInv
  <2>4. ASSUME NoCollision' PROVE TableInv'
    <3>1. TableInv
      BY <2>1, <2>4, NoCollisionBefore
    <3>2. ASSUME NEW id \in DOMAIN pending PROVE EntryInv(id)'
      <4>1. /\ EntryInv(id)
            /\ pending[id].owner \in Requests
            /\ pending[id].owner[2] <= calls[pending[id].owner[1]]
        BY <3>1 DEF TableInv, IssuedInv, TypeInv, TypeOK, Context
      <4>2. CASE pending[id].owner[1] = t
        <5>1. pending[id].state \notin {"PENDING", "COMPLETED"}
          BY <2>1, <4>1, <4>2 DEF EntryInv, Waiting
        <5>2. pending[id].owner # <<t, calls[t] + 1>>
          BY <2>1, <4>1, <4>2 DEF Requests
        <5>. QED
          BY <2>1, <4>2, <5>1, <5>2 DEF EntryInv, Current
      <4>3. CASE pending[id].owner[1] # t
        BY <2>1, <4>1, <4>3 DEF EntryInv, Current, Requests
      <4>. QED
        BY <4>2, <4>3
    <3>3. ASSUME NEW u \in Callers PROVE CallerInv(u)'
      BY <2>1, <3>1 DEF TableInv, CallerInv, Current, Waiting
    <3>. QED
      BY <3>1, <3>2, <3>3 DEF TableInv
  <2>. QED
    BY <2>3, <2>4
<1>2. CASE LoadCounter(t) \/ StoreCounter(t)
  <2>1. /\ UNCHANGED <<msgId, calls, issued, pending, future, outcome, wire, terminated>>
        /\ pc[t] \notin Waiting \cup {"idle"}
        /\ pc'[t] \notin Waiting \cup {"idle"}
        /\ \A u \in Callers \ {t} : pc'[u] = pc[u]
    BY <1>2 DEF LoadCounter, StoreCounter, TypeInv, TypeOK, Waiting
  <2>2. IssuedInv'
    BY <2>1 DEF IssuedInv, Current
  <2>3. ASSUME NoCollision' PROVE TableInv'
    <3>1. TableInv
      BY <2>1, <2>3, NoCollisionBefore
    <3>2. ASSUME NEW id \in DOMAIN pending PROVE EntryInv(id)'
      <4>1. EntryInv(id) /\ pending[id].owner \in Requests
        BY <3>1 DEF TableInv, TypeInv, TypeOK, Context
      <4>. QED
        BY <2>1, <4>1 DEF EntryInv, Current, Requests, Waiting
    <3>3. ASSUME NEW u \in Callers PROVE CallerInv(u)'
      BY <2>1, <3>1 DEF TableInv, CallerInv, Current, Waiting
    <3>. QED
      BY <2>1, <3>1, <3>2, <3>3 DEF TableInv
  <2>. QED
    BY <2>2, <2>3
<1>. QED
  BY <1>1, <1>2

LEMMA SendIInv ==
  ASSUME TypeInv, IInv, NEW t \in Callers, Send(t) \/ SendRefused(t)
  PROVE  IInv'
<1>1. /\ UNCHANGED <<msgId, calls, issued, pending, future, terminated>>
      /\ pc[t] = "built"
      /\ pc'[t] \notin Waiting \cup {"built"}
      /\ \A u \in Callers \ {t} : pc'[u] = pc[u] /\ outcome'[u] = outcome[u]
      /\ pc'[t] = "idle" => outcome'[t] = Empty
      /\ wire' \subseteq wire \cup {[id |-> msgId[t], req |-> Current(t)]}
  BY DEF Send, SendRefused, TypeInv, TypeOK, idVars, tableVars, Waiting
<1>2. IssuedInv'
  BY <1>1 DEF IInv, IssuedInv, Current
<1>3. ASSUME NoCollision' PROVE TableInv'
  <2>1. TableInv
    BY <1>1, <1>3 DEF IInv, NoCollision
  <2>2. ASSUME NEW id \in DOMAIN pending PROVE EntryInv(id)'
    <3>1. EntryInv(id) /\ pending[id].owner \in Requests
      BY <2>1 DEF TableInv, TypeInv, TypeOK, Context
    <3>. QED
      BY <1>1, <3>1 DEF EntryInv, Current, Requests, Waiting
  <2>3. ASSUME NEW u \in Callers PROVE CallerInv(u)'
    BY <1>1, <2>1 DEF TableInv, CallerInv, Current, Waiting
  <2>. QED
    BY <1>1, <2>1, <2>2, <2>3 DEF TableInv
<1>. QED
  BY <1>2, <1>3 DEF IInv

(* The entry a call of getRequestStatus creates. *)
LEMMA RegisterIInv ==
  ASSUME TypeInv, IInv, NEW t \in Callers, RegisterRequest(t)
  PROVE  IInv'
<1> DEFINE c == [state |-> "PENDING", response |-> Empty, owner |-> Current(t)]
<1>1. /\ UNCHANGED <<msgId, calls, issued, outcome, wire, terminated>>
      /\ pc[t] = "sent" /\ pc'[t] = "waiting" /\ future'[t] = Unset
      /\ \A u \in Callers \ {t} : pc'[u] = pc[u] /\ future'[u] = future[u]
      /\ Current(t)' = Current(t)
  BY DEF RegisterRequest, TypeInv, TypeOK, idVars, Current
<1>2. /\ DOMAIN pending' = DOMAIN pending \cup {msgId[t]}
      /\ pending'[msgId[t]] = c
      /\ \A id \in DOMAIN pending : pending'[id] = pending[id]
  BY DEF RegisterRequest, With
<1>3. c.state = "PENDING" /\ c.owner = Current(t) /\ c.owner[1] = t
  BY DEF Current
<1> HIDE DEF c
<1>4. IssuedInv'
  BY <1>1, <1>2, <1>3 DEF IInv, IssuedInv, Current
<1>5. ASSUME NoCollision' PROVE TableInv'
  <2>1. TableInv
    BY <1>1, <1>5 DEF IInv, NoCollision
  <2>2. ASSUME NEW id \in DOMAIN pending PROVE EntryInv(id)'
    <3>1. EntryInv(id) /\ pending[id].owner \in Requests
      BY <2>1 DEF TableInv, TypeInv, TypeOK, Context
    <3>. QED
      BY <1>1, <1>2, <3>1 DEF EntryInv, Current, Requests, Waiting
  <2>3. EntryInv(msgId[t])'
    BY <1>1, <1>2, <1>3 DEF EntryInv, Current, Waiting
  <2>4. ASSUME NEW u \in Callers PROVE CallerInv(u)'
    BY <1>1, <2>1 DEF TableInv, CallerInv, Current, Waiting
  <2>. QED
    BY <1>1, <1>2, <2>1, <2>2, <2>3, <2>4 DEF TableInv
<1>. QED
  BY <1>4, <1>5 DEF IInv

(* With distinct ids a request that was just sent has no entry yet, so the *)
(* two branches of getRequestStatus for an existing entry are not taken.   *)
LEMMA SentHasNoEntry ==
  ASSUME TypeInv, IInv, NoCollision, NEW t \in Callers, pc[t] = "sent"
  PROVE  msgId[t] \notin DOMAIN pending
<1> SUFFICES ASSUME msgId[t] \in DOMAIN pending PROVE FALSE
  OBVIOUS
<1>1. pending[msgId[t]].owner = Current(t)
  BY OwnEntry DEF IInv
<1>2. EntryInv(msgId[t]) /\ pending[msgId[t]] \in Context
  BY DEF IInv, TableInv, TypeInv, TypeOK
<1>. QED
  BY <1>1, <1>2 DEF EntryInv, Current, Context, Waiting

LEMMA ExistingEntryIInv ==
  ASSUME TypeInv, IInv, NEW t \in Callers,
         TakeCompleted(t) \/ FutureAlreadyRetrieved(t)
  PROVE  IInv'
<1>1. /\ UNCHANGED <<msgId, calls, issued, wire>>
      /\ pc[t] = "sent" /\ msgId[t] \in DOMAIN pending
      /\ \A u \in Callers : pc'[u] \in {pc[u], "idle"}
      /\ DOMAIN pending' \subseteq DOMAIN pending
      /\ \A id \in DOMAIN pending' : pending'[id] = pending[id]
  <2>1. CASE TakeCompleted(t)
    <3>1. pending' = Without({msgId[t]})
      BY <2>1 DEF TakeCompleted
    <3>2. /\ DOMAIN pending' = DOMAIN pending \ {msgId[t]}
          /\ \A id \in DOMAIN pending' : pending'[id] = pending[id]
      BY ONLY <3>1, WithoutFacts
    <3>3. /\ UNCHANGED <<msgId, calls, issued, wire>>
          /\ pc[t] = "sent" /\ msgId[t] \in DOMAIN pending
          /\ \A u \in Callers : pc'[u] \in {pc[u], "idle"}
      BY <2>1 DEF TakeCompleted, TypeInv, TypeOK, idVars
    <3>. QED
      BY <3>2, <3>3
  <2>2. CASE FutureAlreadyRetrieved(t)
    BY <2>2 DEF FutureAlreadyRetrieved, idVars, tableVars
  <2>. QED
    BY <2>1, <2>2
<1>2. IssuedInv'
  BY <1>1 DEF IInv, IssuedInv, Current
<1>3. ~NoCollision'
  BY <1>1, SentHasNoEntry DEF NoCollision
<1>. QED
  BY <1>2, <1>3 DEF IInv

LEMMA WakeIInv ==
  ASSUME TypeInv, IInv, NEW t \in Callers, WakeReady(t) \/ WakeTimeout(t)
  PROVE  IInv'
<1>1. /\ UNCHANGED <<msgId, calls, issued, pending, future, outcome, wire, terminated>>
      /\ pc[t] = "waiting"
      /\ \/ pc'[t] = "ready" /\ future[t] # Unset
         \/ pc'[t] = "expired"
      /\ \A u \in Callers \ {t} : pc'[u] = pc[u]
  BY DEF WakeReady, WakeTimeout, TypeInv, TypeOK, idVars, tableVars
<1>2. IssuedInv'
  BY <1>1 DEF IInv, IssuedInv, Current
<1>3. ASSUME NoCollision' PROVE TableInv'
  <2>1. TableInv
    BY <1>1, <1>3 DEF IInv, NoCollision
  <2>2. ASSUME NEW id \in DOMAIN pending PROVE EntryInv(id)'
    <3>1. EntryInv(id) /\ pending[id].owner \in Requests
      BY <2>1 DEF TableInv, TypeInv, TypeOK, Context
    <3>. QED
      BY <1>1, <3>1 DEF EntryInv, Current, Requests, Waiting
  <2>3. ASSUME NEW u \in Callers PROVE CallerInv(u)'
    BY <1>1, <2>1 DEF TableInv, CallerInv, Current, Waiting
  <2>. QED
    BY <1>1, <2>1, <2>2, <2>3 DEF TableInv
<1>. QED
  BY <1>2, <1>3 DEF IInv


(* The ready branch erases the caller's own entry, or none. *)
LEMMA ReturnResponseIInv ==
  ASSUME TypeInv, IInv, NEW t \in Callers, ReturnResponse(t)
  PROVE  IInv'
<1>1. /\ UNCHANGED <<msgId, calls, issued, wire, terminated>>
      /\ pc[t] = "ready" /\ pc'[t] = "idle"
      /\ \A u \in Callers \ {t} : pc'[u] = pc[u] /\ outcome'[u] = outcome[u]
      /\ outcome'[t] \in {future[t], Empty}
      /\ future[t] = Broken => outcome'[t] = Empty
  BY DEF ReturnResponse, TypeInv, TypeOK, idVars
<1>2. \/ pending' = Without({msgId[t]}) /\ future' = FuturesWithout({msgId[t]})
      \/ UNCHANGED <<pending, future>> /\ future[t] = Broken
  BY DEF ReturnResponse
<1>3. /\ DOMAIN pending' \subseteq DOMAIN pending
      /\ \A id \in DOMAIN pending' : pending'[id] = pending[id]
  BY <1>2, WithoutFacts
<1>4. IssuedInv'
  BY <1>1, <1>3 DEF IInv, IssuedInv, Current
<1>5. ASSUME NoCollision' PROVE TableInv'
  <2>1. TableInv /\ NoCollision
    BY <1>1, <1>5 DEF IInv, NoCollision
  <2>2. future' = future
    <3>1. ASSUME msgId[t] \in DOMAIN pending
          PROVE  pending[msgId[t]].state # "PENDING"
      <4>1. pending[msgId[t]].owner = Current(t)
        BY <1>1, <2>1, <3>1, OwnEntry DEF IInv
      <4>2. EntryInv(msgId[t])
        BY <2>1, <3>1 DEF TableInv
      <4>. QED
        BY <1>1, <4>1, <4>2 DEF EntryInv, Current
    <3>. QED
      BY <1>2, <2>1, <3>1, SettledUnheld DEF TypeInv
  <2>3. future[t] \in {Current(t), Empty}
    BY <1>1, <2>1 DEF TableInv, CallerInv
  <2>4. ASSUME NEW id \in DOMAIN pending' PROVE EntryInv(id)'
    <3>1. /\ EntryInv(id) /\ pending[id].owner \in Requests
          /\ pending'[id] = pending[id]
      BY <1>3, <2>1 DEF TableInv, TypeInv, TypeOK, Context
    <3>2. future[t] # Broken
      <4>1. Current(t) \in Requests
        BY <1>1, CurrentIsRequest DEF TypeInv
      <4>. QED
        BY <2>3, <4>1, ResponseHandlerAssumption
    <3>3. id # msgId[t]
      <4>1. pending' = Without({msgId[t]})
        BY <1>2, <3>2
      <4>2. DOMAIN pending' = DOMAIN pending \ {msgId[t]}
        BY ONLY <4>1, WithoutFacts
      <4>. QED
        BY <4>2
    <3>4. CASE pending[id].owner[1] = t
      <4>1. pending[id].owner # Current(t)
        BY <3>1, <3>3, <3>4 DEF EntryInv
      <4>. QED
        BY <1>1, <3>1, <3>4, <4>1 DEF EntryInv, Current
    <3>5. CASE pending[id].owner[1] # t
      BY <1>1, <2>2, <3>1, <3>5 DEF EntryInv, Current, Requests
    <3>. QED
      BY <3>4, <3>5
  <2>5. ASSUME NEW u \in Callers PROVE CallerInv(u)'
    BY <1>1, <2>1, <2>2, <2>3 DEF TableInv, CallerInv, Current
  <2>. QED
    BY <1>1, <1>3, <2>1, <2>4, <2>5 DEF TableInv
<1>. QED
  BY <1>4, <1>5 DEF IInv

(* The timeout branch marks the caller's own entry, if it is still there. *)
LEMMA ReturnTimeoutIInv ==
  ASSUME TypeInv, IInv, NEW t \in Callers, ReturnTimeout(t)
  PROVE  IInv'
<1>1. /\ UNCHANGED <<msgId, calls, issued, future, wire, terminated>>
      /\ pc[t] = "expired" /\ pc'[t] = "idle" /\ outcome'[t] = Empty
      /\ \A u \in Callers \ {t} : pc'[u] = pc[u] /\ outcome'[u] = outcome[u]
  BY DEF ReturnTimeout, TypeInv, TypeOK, idVars
<1>2. /\ DOMAIN pending' = DOMAIN pending
      /\ \A id \in DOMAIN pending :
           /\ pending'[id].owner = pending[id].owner
           /\ id # msgId[t] => pending'[id] = pending[id]
           /\ id = msgId[t] => pending'[id].state = "TIMEOUT"
  BY DEF ReturnTimeout, TypeInv, TypeOK, Context
<1>3. IssuedInv'
  BY <1>1, <1>2 DEF IInv, IssuedInv, Current
<1>4. ASSUME NoCollision' PROVE TableInv'
  <2>1. TableInv /\ NoCollision
    BY <1>1, <1>4 DEF IInv, NoCollision
  <2>2. ASSUME NEW id \in DOMAIN pending PROVE EntryInv(id)'
    <3>1. /\ EntryInv(id) /\ pending[id].owner \in Requests
      BY <2>1 DEF TableInv, TypeInv, TypeOK, Context
    <3>2. CASE id = msgId[t]
      <4>1. pending[id].owner = Current(t)
        BY <1>1, <2>1, <3>2, OwnEntry DEF IInv
      <4>2. pending'[id].owner[1] = t
        BY <1>2, <4>1 DEF Current
      <4>. QED
        BY <1>1, <1>2, <3>2, <4>2 DEF EntryInv
    <3>3. CASE id # msgId[t]
      <4>1. pending'[id] = pending[id]
        BY <1>2, <3>3
      <4>2. CASE pending[id].owner[1] = t
        <5>1. pending[id].owner # Current(t)
          BY <3>1, <3>3, <4>2 DEF EntryInv
        <5>. QED
          BY <1>1, <3>1, <4>1, <4>2, <5>1 DEF EntryInv, Current
      <4>3. CASE pending[id].owner[1] # t
        BY <1>1, <3>1, <4>1, <4>3 DEF EntryInv, Current, Requests
      <4>. QED
        BY <4>2, <4>3
    <3>. QED
      BY <3>2, <3>3
  <2>3. ASSUME NEW u \in Callers PROVE CallerInv(u)'
    BY <1>1, <2>1 DEF TableInv, CallerInv, Current
  <2>. QED
    BY <1>1, <1>2, <2>1, <2>2, <2>3 DEF TableInv
<1>. QED
  BY <1>3, <1>4 DEF IInv


LEMMA DeliverIInv ==
  ASSUME TypeInv, IInv, NEW m \in wire, DeliverResponse(m)
  PROVE  IInv'
<1>1. /\ UNCHANGED <<pc, msgId, calls, issued, outcome, terminated>>
      /\ wire' \subseteq wire
  BY DEF DeliverResponse, idVars
<1>2. ASSUME UNCHANGED <<pending, future>> PROVE IInv'
  <2>1. IssuedInv'
    BY <1>1, <1>2 DEF IInv, IssuedInv, Current
  <2>2. ASSUME NoCollision' PROVE TableInv'
    <3>1. TableInv
      BY <1>1, <2>2 DEF IInv, NoCollision
    <3>. QED
      BY <1>1, <1>2, <3>1 DEF TableInv, EntryInv, CallerInv, Current
  <2>. QED
    BY <2>1, <2>2 DEF IInv
<1>3. ASSUME m.id \in DOMAIN pending, pending[m.id].state = "PENDING",
             Complete(m.id, m.req)
      PROVE  IInv'
  <2>1. /\ DOMAIN pending' = DOMAIN pending
        /\ \A id \in DOMAIN pending :
             /\ pending'[id].owner = pending[id].owner
             /\ id # m.id => pending'[id] = pending[id]
             /\ id = m.id => /\ pending'[id].state = "COMPLETED"
                             /\ pending'[id].response = m.req
    BY <1>3 DEF Complete, TypeInv, TypeOK, Context
  <2>2. IssuedInv'
    BY <1>1, <2>1 DEF IInv, IssuedInv, Current
  <2>3. ASSUME NoCollision' PROVE TableInv'
    <3>1. TableInv /\ NoCollision
      BY <1>1, <2>3 DEF IInv, NoCollision
    <3>2. pending[m.id].owner = m.req
      <4>1. /\ m \in issued
            /\ [id |-> m.id, req |-> pending[m.id].owner] \in issued
        BY <1>3 DEF IInv, IssuedInv
      <4>. QED
        BY <3>1, <4>1 DEF NoCollision
    <3> DEFINE t == m.req[1]
    <3>3. t \in Callers
      BY DEF TypeInv, TypeOK, Requests
    <3>4. /\ m.req = Current(t) /\ msgId[t] = m.id
          /\ pc[t] \in {"waiting", "expired"} /\ future[t] = Unset
      BY <1>3, <3>1, <3>2 DEF TableInv, EntryInv
    <3> HIDE DEF t
    <3>5. future'[t] = m.req
      BY <1>3, <3>2, <3>3, <3>4 DEF Complete, HoldsUnset
    <3>6. \A u \in Callers \ {t} : future'[u] = future[u]
      <4>1. \A u \in Callers \ {t} : ~HoldsUnset(u, {m.id})
        BY <3>2, <3>4 DEF HoldsUnset, Current
      <4>. QED
        BY <1>3, <4>1 DEF Complete
    <3>7. ASSUME NEW id \in DOMAIN pending PROVE EntryInv(id)'
      <4>1. /\ EntryInv(id) /\ pending[id].owner \in Requests
        BY <3>1 DEF TableInv, TypeInv, TypeOK, Context
      <4>2. CASE id = m.id
        <5>1. /\ pending'[id].owner = Current(t)
              /\ pending'[id].response = Current(t)
              /\ pending'[id].state = "COMPLETED"
              /\ Current(t)[1] = t /\ Current(t)' = Current(t)
          BY <1>1, <2>1, <3>2, <3>4, <4>2 DEF Current
        <5>. QED
          BY <1>1, <3>4, <3>5, <4>2, <5>1 DEF EntryInv, Waiting
      <4>3. CASE id # m.id /\ pending[id].owner[1] = t
        <5>1. pending[id].owner # Current(t)
          BY <3>4, <4>1, <4>3 DEF EntryInv
        <5>. QED
          BY <1>1, <2>1, <4>1, <4>3, <5>1 DEF EntryInv, Current
      <4>4. CASE id # m.id /\ pending[id].owner[1] # t
        BY <1>1, <2>1, <3>6, <4>1, <4>4 DEF EntryInv, Current, Requests
      <4>. QED
        BY <4>2, <4>3, <4>4
    <3>8. ASSUME NEW u \in Callers PROVE CallerInv(u)'
      BY <1>1, <3>1, <3>4, <3>5, <3>6 DEF TableInv, CallerInv, Current
    <3>. QED
      BY <1>1, <2>1, <3>1, <3>7, <3>8 DEF TableInv
  <2>. QED
    BY <2>2, <2>3 DEF IInv
<1>. QED
  BY <1>2, <1>3 DEF DeliverResponse

LEMMA CleanupIInv ==
  ASSUME TypeInv, IInv, CleanupExpiredRequests
  PROVE  IInv'
<1>1. PICK old \in SUBSET (DOMAIN pending \ Settled) :
        /\ pending' = Without(Settled \cup old)
        /\ future' = [t \in Callers |-> IF HoldsUnset(t, old) THEN Empty
                                        ELSE FuturesWithout(Settled)[t]]
        /\ UNCHANGED <<idVars, pc, outcome, wire, connected, terminated>>
  BY DEF CleanupExpiredRequests
<1>2. UNCHANGED <<pc, msgId, calls, issued, outcome, wire, terminated>>
  BY <1>1 DEF idVars
<1>3. /\ DOMAIN pending' = DOMAIN pending \ (Settled \cup old)
      /\ \A id \in DOMAIN pending' : pending'[id] = pending[id]
  BY ONLY <1>1, WithoutFacts
<1>4. IssuedInv'
  BY <1>2, <1>3 DEF IInv, IssuedInv, Current
<1>5. ASSUME NoCollision' PROVE TableInv'
  <2>1. TableInv
    BY <1>2, <1>5 DEF IInv, NoCollision
  <2>2. FuturesWithout(Settled) = future
    BY <2>1, SettledUnheld DEF TypeInv, Settled
  <2>3. \A u \in Callers :
          future'[u] = IF HoldsUnset(u, old) THEN Empty ELSE future[u]
    BY <1>1, <2>2
  <2>4. ASSUME NEW id \in DOMAIN pending' PROVE EntryInv(id)'
    <3> DEFINE t == pending[id].owner[1]
    <3>1. /\ id \in DOMAIN pending /\ id \notin old
          /\ pending[id].state = "PENDING"
          /\ pending'[id] = pending[id]
      BY <1>3 DEF Settled
    <3>2. EntryInv(id) /\ t \in Callers
      BY <2>1, <3>1 DEF TableInv, TypeInv, TypeOK, Context, Requests
    <3>3. /\ pending[id].owner = Current(t) /\ msgId[t] = id
          /\ pc[t] \in {"waiting", "expired"} /\ future[t] = Unset
      BY <3>1, <3>2 DEF EntryInv
    <3>4. ~HoldsUnset(t, old)
      <4>1. \A j \in old \cap DOMAIN pending :
              EntryInv(j) /\ pending[j].owner[1] = t => pending[j].owner # Current(t)
        BY <3>1, <3>3 DEF EntryInv
      <4>. QED
        BY <2>1, <4>1 DEF HoldsUnset, TableInv, Current
    <3>5. future'[t] = Unset
      BY <2>3, <3>2, <3>3, <3>4
    <3>. QED
      BY <1>2, <3>1, <3>3, <3>5 DEF EntryInv, Current
  <2>5. ASSUME NEW u \in Callers PROVE CallerInv(u)'
    BY <1>2, <2>1, <2>3 DEF TableInv, CallerInv, Current, HoldsUnset
  <2>. QED
    BY <1>2, <2>1, <2>4, <2>5 DEF TableInv
<1>. QED
  BY <1>4, <1>5 DEF IInv

LEMMA UnchangedIInv ==
  ASSUME IInv, UNCHANGED <<pc, msgId, calls, issued, pending, future, outcome,
                           terminated>>, wire' \subseteq wire
  PROVE  IInv'
<1>1. IssuedInv'
  BY DEF IInv, IssuedInv, Current
<1>2. ASSUME NoCollision' PROVE TableInv'
  BY <1>2 DEF IInv, NoCollision, TableInv, EntryInv, CallerInv, Current
<1>. QED
  BY <1>1, <1>2 DEF IInv

LEMMA StepIInv == TypeInv /\ IInv /\ [Next]_vars => IInv'
<1> SUFFICES ASSUME TypeInv, IInv, [Next]_vars PROVE IInv'
  OBVIOUS
<1>1. ASSUME NEW t \in Callers, CallerStep(t) PROVE IInv'
  BY <1>1, BuildIInv, SendIInv, RegisterIInv, ExistingEntryIInv, WakeIInv,
     ReturnResponseIInv, ReturnTimeoutIInv DEF CallerStep
<1>2. CASE Disconnect
  BY <1>2, UnchangedIInv DEF Disconnect, idVars, tableVars
<1>3. CASE UNCHANGED vars
  BY <1>3, UnchangedIInv DEF vars
<1>. QED
  BY <1>1, <1>2, <1>3, DeliverIInv, CleanupIInv DEF Next

LEMMA Invariant == Spec => [](TypeInv /\ IInv)
<1>1. Init => TypeInv /\ IInv
  BY InitType, InitIInv
<1>2. TypeInv /\ IInv /\ [Next]_vars => (TypeInv /\ IInv)'
  BY StepType, StepIInv
<1>. QED
  BY <1>1, <1>2, PTL DEF Spec

-----------------------------------------------------------------------------
(* What follows from it, for any number of threads that issue any number   *)
(* of calls, whatever Thunder answers.                                     *)

(* A caller of getRequestStatus gets the response to its own request or    *)
(* "", as long as ids are distinct.                                        *)
THEOREM OwnResponseAlways == Spec => []OwnResponse
<1>1. IInv => OwnResponse
  BY DEF IInv, TableInv, CallerInv, OwnResponse
<1>. QED
  BY <1>1, Invariant, PTL

(* get_future() is never called twice on one promise, as long as ids are   *)
(* distinct: no request ends in std::terminate.                            *)
THEOREM NoAbortAlways == Spec => []NoAbort
<1>1. IInv => NoAbort
  BY DEF IInv, TableInv, NoAbort
<1>. QED
  BY <1>1, Invariant, PTL

(* An entry that is not marked TIMEOUT has a caller in getRequestStatus,   *)
(* as long as ids are distinct.                                            *)
THEOREM NoAbandonedEntryAlways == Spec => []NoAbandonedEntry
<1>1. TypeInv /\ IInv => NoAbandonedEntry
  <2> SUFFICES ASSUME TypeInv, TableInv, NEW id \in DOMAIN pending,
                      pending[id].state # "TIMEOUT"
               PROVE  \E t \in Callers : /\ pending[id].owner = Current(t)
                                         /\ msgId[t] = id
                                         /\ pc[t] \in Waiting
    BY DEF IInv, NoAbandonedEntry
  <2>1. /\ EntryInv(id)
        /\ pending[id].state \in {"PENDING", "COMPLETED"}
        /\ pending[id].owner[1] \in Callers
    BY DEF TableInv, TypeInv, TypeOK, Context, Requests
  <2>. QED
    BY <2>1 DEF EntryInv, Waiting
<1>. QED
  BY <1>1, Invariant, PTL


(* A response in the promise of a waiting caller is the response that its  *)
(* call of getRequestStatus returns.                                       *)
THEOREM AnswerSurvives == Spec => AnswerSurvivesCleanup
<1> DEFINE A(t) == (pc[t] \in {"waiting", "ready"} /\ future[t] = Current(t)) =>
                     \/ pc'[t] \in {"waiting", "ready"} /\ future'[t] = Current(t)
                     \/ pc'[t] = "idle" /\ outcome'[t] = Current(t)
<1>1. ASSUME TypeInv, [Next]_vars, NEW t \in Callers PROVE A(t)
  <2> SUFFICES ASSUME pc[t] \in {"waiting", "ready"}, future[t] = Current(t)
               PROVE  \/ pc'[t] \in {"waiting", "ready"} /\ future'[t] = Current(t)
                      \/ pc'[t] = "idle" /\ outcome'[t] = Current(t)
    OBVIOUS
  <2>1. future[t] \notin {Unset, Broken}
    BY <1>1, CurrentIsRequest, ResponseHandlerAssumption DEF TypeInv
  <2>2. \A ids : ~HoldsUnset(t, ids) /\ FuturesWithout(ids)[t] = future[t]
    BY <2>1 DEF HoldsUnset, FuturesWithout
  <2>3. ASSUME NEW u \in Callers, CallerStep(u)
        PROVE  (pc'[t] = pc[t] /\ future'[t] = future[t]) \/ u = t
    <3> SUFFICES ASSUME u # t
                 PROVE  pc'[t] = pc[t] /\ future'[t] = future[t]
      OBVIOUS
    <3> USE <1>1, <2>2 DEF TypeInv, TypeOK, tableVars
    <3>1. CASE Build(u)
      BY <3>1 DEF Build, TakeId, LoadCounter, StoreCounter
    <3>2. CASE Send(u) \/ SendRefused(u)
      BY <3>2 DEF Send, SendRefused
    <3>3. CASE RegisterRequest(u)
      BY <3>3 DEF RegisterRequest
    <3>4. CASE TakeCompleted(u) \/ FutureAlreadyRetrieved(u)
      BY <3>4 DEF TakeCompleted, FutureAlreadyRetrieved
    <3>5. CASE WakeReady(u) \/ WakeTimeout(u)
      BY <3>5 DEF WakeReady, WakeTimeout
    <3>6. CASE ReturnResponse(u)
      BY <3>6 DEF ReturnResponse
    <3>7. CASE ReturnTimeout(u)
      BY <3>7 DEF ReturnTimeout
    <3>. QED
      BY <2>3, <3>1, <3>2, <3>3, <3>4, <3>5, <3>6, <3>7 DEF CallerStep
  <2>4. ASSUME CallerStep(t)
        PROVE  WakeReady(t) \/ (ReturnResponse(t) /\ pc[t] = "ready")
    BY <2>1, <2>4
       DEF CallerStep, Build, TakeId, LoadCounter, StoreCounter, Send,
           SendRefused, RegisterRequest, TakeCompleted, FutureAlreadyRetrieved,
           WakeTimeout, ReturnResponse, ReturnTimeout
  <2>5. ASSUME CallerStep(t)
        PROVE  \/ pc'[t] \in {"waiting", "ready"} /\ future'[t] = Current(t)
               \/ pc'[t] = "idle" /\ outcome'[t] = Current(t)
    <3>1. CASE WakeReady(t)
      BY <1>1, <3>1 DEF WakeReady, TypeInv, TypeOK, tableVars
    <3>2. CASE ReturnResponse(t)
      BY <1>1, <2>1, <3>2 DEF ReturnResponse, TypeInv, TypeOK
    <3>. QED
      BY <2>4, <2>5, <3>1, <3>2
  <2>6. ASSUME NEW m \in wire, DeliverResponse(m)
        PROVE  pc'[t] = pc[t] /\ future'[t] = future[t]
    BY <2>2, <2>6 DEF DeliverResponse, Complete, idVars
  <2>7. ASSUME CleanupExpiredRequests
        PROVE  pc'[t] = pc[t] /\ future'[t] = future[t]
    BY <2>2, <2>7 DEF CleanupExpiredRequests, idVars
  <2>8. CASE Disconnect \/ UNCHANGED vars
    BY <2>8 DEF Disconnect, vars, tableVars
  <2>. QED
    BY <2>3, <2>5, <2>6, <2>7, <2>8, <1>1 DEF Next
<1>2. TypeInv /\ [Next]_vars => [\A t \in Callers : A(t)]_vars
  BY <1>1
<1>. QED
  BY <1>2, Invariant, PTL DEF Spec, AnswerSurvivesCleanup

-----------------------------------------------------------------------------
(* Threads that build their requests in turn (InTurnSpec).                  *)

(* The counter is above every id taken, except that of the one request     *)
(* being built.                                                            *)
CounterInv ==
  /\ \A a \in issued : a.id <= event_id
  /\ (\A t \in Callers : pc[t] \notin Allocating) => \A a \in issued : a.id < event_id
  /\ \A t \in Callers : pc[t] \in {"store", "store2"} => loaded[t] = event_id
  /\ \A t, u \in Callers : pc[t] \in Allocating /\ pc[u] \in Allocating => t = u
  /\ NoCollision

LEMMA CounterStep ==
  ASSUME TypeInv, CounterInv, [Next /\ BuildsAlone]_vars
  PROVE  CounterInv'
<1> USE DEF CounterInv, TypeInv, TypeOK, IdsTypeOK
<1>1. ASSUME NEW t \in Callers, TakeId(t), BuildsAlone PROVE CounterInv'
  <2>1. /\ pc[t] = "idle" /\ pc' \in {[pc EXCEPT ![t] = "load"], [pc EXCEPT ![t] = "load2"]}
        /\ calls'[t] # calls[t]
        /\ event_id' = event_id /\ loaded' = loaded
        /\ issued' = issued \cup {[id |-> event_id, req |-> <<t, calls[t] + 1>>]}
    BY <1>1 DEF TakeId
  <2>2. \A u \in Callers : pc[u] \notin Allocating
    BY <1>1, <2>1 DEF Allocating, BuildsAlone
  <2>3. \A a \in issued : a.id < event_id
    BY <2>2
  <2>4. NoCollision'
    BY <2>1, <2>3 DEF NoCollision
  <2>5. \A a \in issued' : a.id <= event_id'
    BY <2>1
  <2>6. /\ pc'[t] \in {"load", "load2"}
        /\ \A u \in Callers \ {t} : pc'[u] = pc[u]
    BY <2>1
  <2>. QED
    BY <2>1, <2>2, <2>4, <2>5, <2>6 DEF Allocating
<1>2. ASSUME NEW t \in Callers, LoadCounter(t) PROVE CounterInv'
  <2>1. /\ pc[t] \in Allocating /\ pc'[t] \in {"store", "store2"}
        /\ loaded'[t] = event_id
        /\ \A u \in Callers \ {t} : pc'[u] = pc[u] /\ loaded'[u] = loaded[u]
        /\ UNCHANGED <<event_id, issued>>
    BY <1>2 DEF LoadCounter, Allocating
  <2>. QED
    BY <2>1 DEF Allocating, NoCollision
<1>3. ASSUME NEW t \in Callers, StoreCounter(t) PROVE CounterInv'
  <2>1. /\ pc[t] \in {"store", "store2"} /\ pc'[t] \in {"built", "load"}
        /\ event_id' = event_id + 1
        /\ \A u \in Callers \ {t} : pc'[u] = pc[u] /\ loaded'[u] = loaded[u]
        /\ issued' = issued
    BY <1>3 DEF StoreCounter
  <2>2. \A u \in Callers \ {t} : pc[u] \notin Allocating
    BY <2>1 DEF Allocating
  <2>. QED
    BY <2>1, <2>2 DEF Allocating, NoCollision
<1>4. ASSUME UNCHANGED <<event_id, issued, loaded>>,
             \A t \in Callers : pc'[t] = pc[t] \/ (pc[t] \notin Allocating /\ pc'[t] \notin Allocating)
      PROVE  CounterInv'
  BY <1>4 DEF Allocating, NoCollision
<1>5. ASSUME NEW t \in Callers, CallerStep(t), ~Build(t) PROVE CounterInv'
  BY <1>4, <1>5
     DEF CallerStep, Send, SendRefused, RegisterRequest, TakeCompleted,
         FutureAlreadyRetrieved, WakeReady, WakeTimeout, ReturnResponse,
         ReturnTimeout, Allocating, idVars
<1>6. ASSUME NEW m \in wire, DeliverResponse(m) PROVE CounterInv'
  BY <1>4, <1>6 DEF DeliverResponse, idVars
<1>7. CASE CleanupExpiredRequests \/ Disconnect \/ UNCHANGED vars
  BY <1>4, <1>7 DEF CleanupExpiredRequests, Disconnect, idVars, vars
<1>. QED
  BY <1>1, <1>2, <1>3, <1>5, <1>6, <1>7 DEF Next, Build

LEMMA InTurnInvariant == InTurnSpec => [](TypeInv /\ IInv /\ CounterInv)
<1>1. Init => TypeInv /\ IInv
  BY InitType, InitIInv
<1>2. Init => CounterInv
  BY DEF Init, IdsInit, CounterInv, NoCollision, Allocating
<1>3. TypeInv /\ IInv /\ [Next /\ BuildsAlone]_vars => TypeInv' /\ IInv'
  BY StepType, StepIInv
<1>4. TypeInv /\ CounterInv /\ [Next /\ BuildsAlone]_vars => CounterInv'
  BY CounterStep
<1>. QED
  BY <1>1, <1>2, <1>3, <1>4, PTL DEF InTurnSpec

(* Threads that build their requests in turn never take the same id twice, *)
(* however their calls overlap.                                            *)
THEOREM InTurnDistinctIds == InTurnSpec => []NoCollision
<1>1. CounterInv => NoCollision
  BY DEF CounterInv
<1>. QED
  BY <1>1, InTurnInvariant, PTL

(* So the table is safe for them without any proviso.                      *)
THEOREM InTurnThreadSafe == InTurnSpec => []ThreadSafe
<1>1. IInv /\ CounterInv => ThreadSafe
  BY DEF IInv, TableInv, CallerInv, CounterInv, ThreadSafe
<1>. QED
  BY <1>1, InTurnInvariant, PTL

LEMMA RpcStep ==
  ASSUME TypeInv, IInv, NoCollision, [Next]_vars
  PROVE  [Rpc!Next]_(Rpc!vars)
<1> DEFINE Busy == [u \in Callers |-> pc[u] # "idle"]
<1>1. Busy' = [u \in Callers |-> pc'[u] # "idle"]
  OBVIOUS
<1>2. ASSUME Busy' = Busy, UNCHANGED <<calls, outcome>>
      PROVE  UNCHANGED Rpc!vars
  BY <1>2 DEF Rpc!vars
<1>3. ASSUME UNCHANGED <<pc, calls, outcome>> PROVE UNCHANGED Rpc!vars
  BY <1>3, <1>2
<1>4. ASSUME NEW t \in Callers, TakeId(t), UNCHANGED outcome
      PROVE  Rpc!Next
  <2>1. Rpc!Begin(t)
    <3>1. pc[t] = "idle" /\ pc' \in {[pc EXCEPT ![t] = "load"], [pc EXCEPT ![t] = "load2"]}
      BY <1>4 DEF TakeId
    <3>2. Busy' = [Busy EXCEPT ![t] = TRUE]
      BY <1>1, <3>1 DEF TypeInv, TypeOK
    <3>. QED
      BY <1>4, <3>1, <3>2 DEF TakeId, Rpc!Begin
  <2>. QED
    BY <2>1 DEF Rpc!Next
<1>5. ASSUME NEW t \in Callers, pc[t] # "idle", pc'[t] # "idle",
             \A u \in Callers \ {t} : pc'[u] = pc[u], UNCHANGED <<calls, outcome>>
      PROVE  UNCHANGED Rpc!vars
  <2>1. Busy' = Busy
    BY <1>1, <1>5
  <2>. QED
    BY <1>2, <1>5, <2>1
<1>6. ASSUME NEW t \in Callers, NEW r \in {Current(t), Empty}, pc[t] # "idle",
             pc' = [pc EXCEPT ![t] = "idle"],
             outcome' = [outcome EXCEPT ![t] = r], UNCHANGED calls
      PROVE  Rpc!Next
  <2>1. Busy' = [Busy EXCEPT ![t] = FALSE]
    BY <1>1, <1>6 DEF TypeInv, TypeOK
  <2>2. Rpc!Return(t)
    BY <1>6, <2>1 DEF Rpc!Return, Current
  <2>. QED
    BY <2>2 DEF Rpc!Next
<1> HIDE DEF Busy
<1>7. ASSUME NEW t \in Callers, CallerStep(t) PROVE [Rpc!Next]_(Rpc!vars)
  <2> USE DEF TypeInv, TypeOK, idVars, tableVars
  <2>1. CASE Build(t)
    <3>1. CASE TakeId(t)
      BY <1>4, <2>1, <3>1 DEF Build
    <3>2. CASE LoadCounter(t) \/ StoreCounter(t)
      BY <1>5, <2>1, <3>2 DEF Build, LoadCounter, StoreCounter
    <3>. QED
      BY <2>1, <3>1, <3>2 DEF Build
  <2>2. CASE Send(t) \/ RegisterRequest(t) \/ WakeReady(t) \/ WakeTimeout(t)
    BY <1>5, <2>2 DEF Send, RegisterRequest, WakeReady, WakeTimeout
  <2>3. CASE SendRefused(t) \/ ReturnTimeout(t)
    BY <1>6, <2>3 DEF SendRefused, ReturnTimeout
  <2>4. CASE ReturnResponse(t)
    <3>1. pc[t] = "ready" => future[t] \in {Current(t), Empty}
      BY DEF IInv, TableInv, CallerInv
    <3>. QED
      BY <1>6, <2>4, <3>1 DEF ReturnResponse
  <2>5. ~TakeCompleted(t) /\ ~FutureAlreadyRetrieved(t)
    BY SentHasNoEntry DEF TakeCompleted, FutureAlreadyRetrieved
  <2>. QED
    BY <1>7, <2>1, <2>2, <2>3, <2>4, <2>5 DEF CallerStep
<1>8. ASSUME NEW m \in wire, DeliverResponse(m) PROVE UNCHANGED Rpc!vars
  BY <1>3, <1>8 DEF DeliverResponse, idVars
<1>9. CASE CleanupExpiredRequests \/ Disconnect \/ UNCHANGED vars
  BY <1>3, <1>9 DEF CleanupExpiredRequests, Disconnect, idVars, tableVars, vars
<1>. QED
  BY <1>7, <1>8, <1>9 DEF Next

(* Every step of the detailed call maps to a step of RpcCalls or to a      *)
(* stutter, for threads that build their requests in turn.                 *)
THEOREM InTurnRefinesRpc == InTurnSpec => StepsAsRpc
<1>1. Init => Rpc!Init
  <2> SUFFICES ASSUME Init PROVE Rpc!Init
    OBVIOUS
  <2>1. pc = [u \in Callers |-> "idle"]
    BY DEF Init, IdsInit
  <2>2. [u \in Callers |-> pc[u] # "idle"] = [u \in Callers |-> FALSE]
    BY <2>1
  <2>. QED
    BY <2>2 DEF Init, IdsInit, Rpc!Init
<1>2. TypeInv /\ IInv /\ CounterInv /\ [Next /\ BuildsAlone]_vars => [Rpc!Next]_(Rpc!vars)
  BY RpcStep DEF CounterInv
<1>. QED
  BY <1>1, <1>2, InTurnInvariant, PTL DEF InTurnSpec, StepsAsRpc

=============================================================================
