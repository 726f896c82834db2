------------------------------ MODULE Transport ------------------------------
(***************************************************************************)
(* The connection to Thunder (TransportHandler.cpp), the loop of main that *)
(* opens it (XdialTester.cpp), and the methods of ThunderInterface that    *)
(* send over it, on the main thread and on the event loop.                 *)
(*                                                                         *)
(* main starts a websocket thread, sleeps, and starts again unless it has  *)
(* been told meanwhile that the connection is open.  The websocket thread  *)
(* calls the handlers of TransportHandler one after the other; the stores  *)
(* to m_wsHdl, m_connectionState and isConnected are steps of their own,   *)
(* for the other threads read these without a common lock.                 *)
(*                                                                         *)
(* The request table is abstracted to its promise (RpcCalls): a call gets  *)
(* the response to its own request, or nothing.                            *)
(***************************************************************************)
EXTENDS Messages, Naturals, Sequences

CONSTANTS
  MainMethods,  \* the methods main calls once it is connected
  LoopMethods,  \* the methods the handlers of DIAL requests call
  Arrivals,     \* the messages of Thunder that answer no request
  MaxCalls,     \* bound: calls of each thread
  MaxArrivals   \* bound: messages that answer no request

ASSUME TransportAssumption ==
  /\ MainMethods \cup LoopMethods \subseteq Methods
  /\ \A m \in Arrivals : ~IsResponse(m)
  /\ MaxCalls \in Nat
  /\ MaxArrivals \in Nat

VARIABLES
  main,               \* "begin", "sleep" or "serve"
  mp_thThread,        \* connectToThunder has made a thread
  ws,                 \* what the websocket thread does next
  socket,             \* websocketpp's own state of the connection
  m_wsHdl,            \* the handle of the open connection is stored
  m_connectionState,
  isConnected,        \* what SmartMonitor was told last
  events,             \* the event queue
  handling,           \* the event loop is in the handler of a DIAL request
  stage,              \* by thread: where it is in a method of ThunderInterface
  method,             \* by thread: which one
  response,           \* by thread: the response it has, Unparsable before that
  result,             \* by thread: what its last method returned
  granted,            \* history: by thread, Thunder did what was asked
  handedOver,         \* history: messages websocketpp accepted
  calls, arrived,     \* counters for the bounds
  terminated          \* std::terminate was called

mainVars == <<main, mp_thThread>>
socketVars == <<ws, socket>>
stateVars == <<m_wsHdl, m_connectionState, isConnected>>
eventVars == <<events, handling, arrived>>
callVars == <<stage, method, response, result, granted, handedOver, calls>>
vars == <<mainVars, socketVars, stateVars, eventVars, callVars, terminated>>

Threads == {"main", "loop"}

TypeOK ==
  /\ main \in {"begin", "sleep", "serve"}
  /\ ws \in {"none", "connect", "run", "opened", "storeOpen", "tellOpen",
             "failed", "tellFailed", "closed", "ended"}
  /\ socket \in {"none", "connecting", "open", "failed", "closed"}
  /\ m_connectionState \in {"DISCONNECTED", "CONNECTING", "CONNECTED", "ERROR_STATE"}
  /\ mp_thThread \in BOOLEAN /\ terminated \in BOOLEAN
  /\ m_wsHdl \in BOOLEAN /\ isConnected \in BOOLEAN
  /\ handling \in BOOLEAN
  /\ events \in Seq(Arrivals)
  /\ stage \in [Threads -> {"idle", "send", "sendEmpty", "wait", "waitEmpty"}]
  /\ method \in [Threads -> Methods \cup {"none"}]
  /\ result \in [Threads -> BOOLEAN]
  /\ granted \in [Threads -> BOOLEAN]
  /\ \A t \in Threads : stage[t] = "idle" <=> method[t] = "none"
  /\ \A t \in Threads : calls[t] \in 0 .. MaxCalls
  /\ arrived \in 0 .. MaxArrivals

Init ==
  /\ main = "begin"
  /\ mp_thThread = FALSE
  /\ ws = "none"
  /\ socket = "none"
  /\ m_wsHdl = FALSE
  /\ m_connectionState = "DISCONNECTED"
  /\ isConnected = FALSE
  /\ events = <<>>
  /\ handling = FALSE
  /\ stage = [t \in Threads |-> "idle"]
  /\ method = [t \in Threads |-> "none"]
  /\ response = [t \in Threads |-> Unparsable]
  /\ result = [t \in Threads |-> FALSE]
  /\ granted = [t \in Threads |-> FALSE]
  /\ handedOver = 0
  /\ calls = [t \in Threads |-> 0]
  /\ arrived = 0
  /\ terminated = FALSE

-----------------------------------------------------------------------------
(* The main thread until it is connected. *)

(* The thread of an earlier attempt is deleted without having been joined, *)
(* which is std::terminate even when its function has returned.            *)
ConnectToThunder ==
  /\ main = "begin"
  /\ \/ /\ ~mp_thThread
        /\ mp_thThread' = TRUE
        /\ ws' = "connect"
        /\ main' = "sleep"
        /\ UNCHANGED terminated
     \/ /\ mp_thThread
        /\ terminated' = TRUE
        /\ UNCHANGED <<mainVars, ws>>
  /\ UNCHANGED <<socket, stateVars, eventVars, callVars>>

(* The 5 s have passed: getConnectStatus ends the loop or does not. *)
GetConnectStatus ==
  /\ main = "sleep"
  /\ main' = IF isConnected THEN "serve" ELSE "begin"
  /\ UNCHANGED <<mp_thThread, socketVars, stateVars, eventVars, callVars, terminated>>

-----------------------------------------------------------------------------
(* The websocket thread, and the network. *)

WsStep(from, to) == ws = from /\ ws' = to

Connect ==
  /\ WsStep("connect", "run")
  /\ m_connectionState' = "CONNECTING"
  /\ socket' = "connecting"
  /\ UNCHANGED <<mainVars, m_wsHdl, isConnected, eventVars, callVars, terminated>>

(* The connection is opened, refused or, later, closed; websocketpp calls  *)
(* the handler.                                                            *)
ConnectionChanges ==
  /\ \/ WsStep("run", "opened") /\ socket = "connecting" /\ socket' = "open"
     \/ WsStep("run", "failed") /\ socket = "connecting" /\ socket' = "failed"
     \/ WsStep("run", "closed") /\ socket = "open" /\ socket' = "closed"
  /\ UNCHANGED <<mainVars, stateVars, eventVars, callVars, terminated>>

(* Fault: the handle is not kept. *)
StoreHandle_Not ==
  /\ WsStep("opened", "storeOpen")
  /\ UNCHANGED <<mainVars, socket, stateVars, eventVars, callVars, terminated>>

(* connected(): the handle, then the state, then SmartMonitor. *)
StoreHandle ==
  /\ WsStep("opened", "storeOpen")
  /\ m_wsHdl' = TRUE
  /\ UNCHANGED <<mainVars, socket, m_connectionState, isConnected, eventVars,
                 callVars, terminated>>

(* Fault: the connection is "disconnecting" for good. *)
StoreState_Disconnecting ==
  /\ \/ WsStep("storeOpen", "tellOpen") /\ m_connectionState' = "CONNECTED"
     \/ WsStep("failed", "tellFailed") /\ m_connectionState' = "ERROR_STATE"
     \/ WsStep("closed", "ended") /\ m_connectionState' = "DISCONNECTING"
  /\ UNCHANGED <<mainVars, socket, m_wsHdl, isConnected, eventVars, callVars, terminated>>

StoreState ==
  /\ \/ WsStep("storeOpen", "tellOpen") /\ m_connectionState' = "CONNECTED"
     \/ WsStep("failed", "tellFailed") /\ m_connectionState' = "ERROR_STATE"
     \/ WsStep("closed", "ended") /\ m_connectionState' = "DISCONNECTED"
  /\ UNCHANGED <<mainVars, socket, m_wsHdl, isConnected, eventVars, callVars, terminated>>

(* Fault: the handler of a failed connection is the one of an open one. *)
TellSmartMonitor_Always ==
  /\ \/ WsStep("tellOpen", "run")
     \/ WsStep("tellFailed", "ended")
  /\ isConnected' = TRUE
  /\ UNCHANGED <<mainVars, socket, m_wsHdl, m_connectionState, eventVars,
                 callVars, terminated>>

(* m_conHandler.  disconnected() does not call it. *)
TellSmartMonitor ==
  /\ \/ WsStep("tellOpen", "run") /\ isConnected' = TRUE
     \/ WsStep("tellFailed", "ended") /\ isConnected' = FALSE
  /\ UNCHANGED <<mainVars, socket, m_wsHdl, m_connectionState, eventVars,
                 callVars, terminated>>

(* A message arrives that answers no request: a notification, for which    *)
(* main has subscribed with a call, or what routing makes of anything else. *)
Arrive(m) ==
  /\ ws = "run" /\ socket = "open"
  /\ arrived < MaxArrivals
  /\ m.method # "" => handedOver > 0
  /\ arrived' = arrived + 1
  /\ events' = IF IsQueued(m) THEN Append(events, m) ELSE events
  /\ terminated' = (terminated \/ IsFatal(m))
  /\ UNCHANGED <<mainVars, socketVars, stateVars, handling, callVars>>

Flags(flag) ==
  {Value("object", [k \in keys |-> flag]) :
     keys \in SUBSET {"success", "status"} \ {{}}}

(* With what Thunder may respond when it has done what was asked. *)
Grants(op) ==
  {Response(FALSE, v) : v \in
     CASE op \in SuccessMethods \cup StatusMethods -> Flags("true") \cup {Number}
       [] op = "sendDeepLinkRequest" -> {Null}
       [] op = "getPluginState" -> {Value("array", [callsign |-> "state"])}
       [] op \in OtherMethods -> {Value("object", <<>>)}}

(* With what it may respond when it has not. *)
Refusals(op) ==
  {Response(TRUE, v) : v \in {Missing, Null}}
    \cup {Response(FALSE, v) : v \in
            CASE op \in SuccessMethods \cup StatusMethods -> Flags("false")
              [] op = "getPluginState" -> {Value("array", <<>>)}
              [] OTHER -> {}}

(* The response to the request of t arrives, in time. *)
Respond(t) ==
  /\ ws = "run" /\ socket = "open"
  /\ stage[t] = "wait"
  /\ response[t] = Unparsable
  /\ \E ok \in BOOLEAN : \E m \in IF ok THEN Grants(method[t]) ELSE Refusals(method[t]) :
       /\ response' = [response EXCEPT ![t] = IF IsResponse(m) THEN m ELSE @]
       /\ granted' = [granted EXCEPT ![t] = ok]
  /\ UNCHANGED <<mainVars, socketVars, stateVars, eventVars, stage, method,
                 result, handedOver, calls, terminated>>

-----------------------------------------------------------------------------
(* The event loop, between the calls its handlers make. *)
ProcessEvent ==
  /\ ~handling
  /\ events # <<>>
  /\ events' = Tail(events)
  /\ handling' = (Listener(Head(events)) = "dial")
  /\ UNCHANGED <<mainVars, socketVars, stateVars, arrived, callVars, terminated>>

HandlerReturns ==
  /\ handling
  /\ stage["loop"] = "idle"
  /\ handling' = FALSE
  /\ UNCHANGED <<mainVars, socketVars, stateVars, events, arrived, callVars, terminated>>

-----------------------------------------------------------------------------
(* A method of ThunderInterface on thread t. *)

MayCall(t, op) ==
  /\ stage[t] = "idle"
  /\ calls[t] < MaxCalls
  /\ \/ t = "main" /\ main = "serve" /\ op \in MainMethods
     \/ t = "loop" /\ handling /\ op \in LoopMethods

(* Fault: SmartMonitor's idea of the connection is tested. *)
TestState_IsConnected(t, op) ==
  /\ MayCall(t, op)
  /\ isConnected
  /\ \/ stage' = [stage EXCEPT ![t] = "send"]
     \/ op \in MayBeEmpty /\ stage' = [stage EXCEPT ![t] = "sendEmpty"]
  /\ method' = [method EXCEPT ![t] = op]
  /\ calls' = [calls EXCEPT ![t] = @ + 1]
  /\ granted' = [granted EXCEPT ![t] = FALSE]
  /\ UNCHANGED <<mainVars, socketVars, stateVars, eventVars, response, result,
                 handedOver, terminated>>

(* sendMessage finds the connection open; the message may be "". *)
TestState(t, op) ==
  /\ MayCall(t, op)
  /\ m_connectionState = "CONNECTED"
  /\ \/ stage' = [stage EXCEPT ![t] = "send"]
     \/ op \in MayBeEmpty /\ stage' = [stage EXCEPT ![t] = "sendEmpty"]
  /\ method' = [method EXCEPT ![t] = op]
  /\ calls' = [calls EXCEPT ![t] = @ + 1]
  /\ granted' = [granted EXCEPT ![t] = FALSE]
  /\ UNCHANGED <<mainVars, socketVars, stateVars, eventVars, response, result,
                 handedOver, terminated>>

(* sendMessage does not, and the method gives up. *)
Refused(t, op) ==
  /\ MayCall(t, op)
  /\ m_connectionState # "CONNECTED"
  /\ calls' = [calls EXCEPT ![t] = @ + 1]
  /\ result' = [result EXCEPT ![t] = FALSE]
  /\ granted' = [granted EXCEPT ![t] = FALSE]
  /\ UNCHANGED <<mainVars, socketVars, stateVars, eventVars, stage, method,
                 response, handedOver, terminated>>

(* Fault: the error of m_client.send is ignored. *)
Send_IgnoresError(t) ==
  /\ stage[t] \in {"send", "sendEmpty"}
  /\ handedOver' = handedOver + 1
  /\ stage' = [stage EXCEPT ![t] = IF @ = "send" THEN "wait" ELSE "waitEmpty"]
  /\ UNCHANGED <<mainVars, socketVars, stateVars, eventVars, method, response,
                 result, granted, calls, terminated>>

(* m_client.send throws when the connection is not open, and nothing       *)
(* catches it.                                                             *)
Send(t) ==
  /\ stage[t] \in {"send", "sendEmpty"}
  /\ \/ /\ socket = "open"
        /\ handedOver' = handedOver + 1
        /\ stage' = [stage EXCEPT ![t] = IF @ = "send" THEN "wait" ELSE "waitEmpty"]
        /\ UNCHANGED terminated
     \/ /\ socket # "open"
        /\ terminated' = TRUE
        /\ UNCHANGED <<handedOver, stage>>
  /\ UNCHANGED <<mainVars, socketVars, stateVars, eventVars, method, response,
                 result, granted, calls>>

(* getRequestStatus returns the response or, after a while, "". *)
Return(t) ==
  /\ stage[t] \in {"wait", "waitEmpty"}
  /\ result' = [result EXCEPT ![t] = Reports(method[t], response[t])]
  /\ stage' = [stage EXCEPT ![t] = "idle"]
  /\ method' = [method EXCEPT ![t] = "none"]
  /\ response' = [response EXCEPT ![t] = Unparsable]
  /\ UNCHANGED <<mainVars, socketVars, stateVars, eventVars, granted,
                 handedOver, calls, terminated>>

Main == ConnectToThunder \/ GetConnectStatus

Handlers == Connect \/ StoreHandle \/ StoreState \/ TellSmartMonitor

Next ==
  /\ ~terminated
  /\ \/ Main
     \/ Handlers \/ ConnectionChanges
     \/ (\E m \in Arrivals : Arrive(m)) \/ ProcessEvent \/ HandlerReturns
     \/ \E t \in Threads :
          \/ Respond(t) \/ Send(t) \/ Return(t)
          \/ \E op \in Methods : TestState(t, op) \/ Refused(t, op)

(* No fairness: what is claimed of the connection is safety.  That calls   *)
(* return is in ResponseHandler.                                           *)
Spec == Init /\ [][Next]_vars

-----------------------------------------------------------------------------
(* A thread that has found the connection open uses a handle that is       *)
(* there, for connected() stores it first.                                 *)
HandleStored ==
  \A t \in Threads : stage[t] \in {"send", "sendEmpty"} => m_wsHdl

(* What SmartMonitor believes is wrong only because a connection that was  *)
(* open is being closed or has closed: main never leaves its loop for a    *)
(* connection that is not open yet or has failed, and TransportHandler     *)
(* knows of the connection before SmartMonitor does.                       *)
StaleOnlyAfterClose ==
  /\ isConnected /\ m_connectionState # "CONNECTED" => socket = "closed"
  /\ main = "serve" => isConnected

(* A connection that has closed can end the process only through a call    *)
(* that was past the test in sendMessage: once disconnected() has run and  *)
(* no such call is left, methods give up and nothing throws.               *)
CloseReported ==
  /\ main = "serve"
  /\ ws = "ended"
  /\ \A t \in Threads : stage[t] \notin {"send", "sendEmpty"}

SafeOnceReported == [](CloseReported => []~terminated)

(* A method that reports success does so for a request Thunder has carried *)
(* out: not for an error, a refusal, no answer at all, or a deep link that *)
(* was never sent for want of a configuration.                             *)
HonestSuccess == \A t \in Threads : result[t] => granted[t] \/ stage[t] # "idle"

(* Waiting for Thunder, main tries again until the connection is open, as  *)
(* its loop and the message it logs ("Waiting for connection status") say: *)
(* an attempt that fails or takes longer is no reason to end.              *)
KeepsTrying == terminated => main = "serve"

-----------------------------------------------------------------------------
(* ResponseHandler, and with it the rest of the models, relies on Link: up *)
(* once, then down for good.                                               *)
Phase ==
  CASE m_connectionState = "CONNECTED" -> "up"
    [] m_connectionState = "DISCONNECTED" /\ m_wsHdl -> "down"
    [] OTHER -> "before"

ConnectedOnce == INSTANCE Link WITH phase <- Phase

ImplementsLink == ConnectedOnce!Spec
=============================================================================
