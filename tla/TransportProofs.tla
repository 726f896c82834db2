--------------------------- MODULE TransportProofs ---------------------------
(***************************************************************************)
(* Theorems about Transport, for any methods, any messages and any number  *)
(* of calls.                                                               *)
(***************************************************************************)
EXTENDS Transport, SequenceTheorems, TLAPS

Sending == {"send", "sendEmpty"}

(* What the websocket thread has stored, by the step it takes next. *)
Known(handle, state, connected) ==
  m_wsHdl = handle /\ m_connectionState = state /\ isConnected = connected

Failed == socket = "failed" /\ Known(FALSE, "ERROR_STATE", FALSE)
Closed == socket = "closed" /\ Known(TRUE, "DISCONNECTED", TRUE)

WsInv ==
  /\ ws \in {"none", "connect"} =>
       socket = "none" /\ Known(FALSE, "DISCONNECTED", FALSE)
  /\ ws = "run" =>
       \/ socket = "connecting" /\ Known(FALSE, "CONNECTING", FALSE)
       \/ socket = "open" /\ Known(TRUE, "CONNECTED", TRUE)
  /\ ws = "opened" => socket = "open" /\ Known(FALSE, "CONNECTING", FALSE)
  /\ ws = "storeOpen" => socket = "open" /\ Known(TRUE, "CONNECTING", FALSE)
  /\ ws = "tellOpen" => socket = "open" /\ Known(TRUE, "CONNECTED", FALSE)
  /\ ws = "failed" => socket = "failed" /\ Known(FALSE, "CONNECTING", FALSE)
  /\ ws = "tellFailed" => Failed
  /\ ws = "closed" => socket = "closed" /\ Known(TRUE, "CONNECTED", TRUE)
  /\ ws = "ended" => Failed \/ Closed

(* There is one websocket thread, and main serves once it was told. *)
MainInv ==
  /\ mp_thThread <=> ws # "none"
  /\ main # "begin" => mp_thThread
  /\ main = "serve" => isConnected

(* A thread in a call has seen the connection open. *)
BusyInv == \A t \in Threads : stage[t] # "idle" => Phase # "before"

(* A thread has a response only while it waits for one, and one that makes *)
(* its method report success is to a request that was carried out.         *)
AnswerInv ==
  \A t \in Threads :
    /\ stage[t] # "wait" => response[t] = Unparsable
    /\ Reports(method[t], response[t]) => granted[t]

(* What ends the process is a second attempt to connect, a message on the  *)
(* open connection, or a call past its test.                               *)
TerminatedInv ==
  terminated => \/ main = "begin"
                \/ ws = "run"
                \/ \E t \in Threads : stage[t] \in Sending

(* TypeOK in parts, by who disturbs them. *)
ControlTypes ==
  /\ main \in {"begin", "sleep", "serve"}
  /\ ws \in {"none", "connect", "run", "opened", "storeOpen", "tellOpen",
             "failed", "tellFailed", "closed", "ended"}
  /\ socket \in {"none", "connecting", "open", "failed", "closed"}
  /\ m_connectionState \in {"DISCONNECTED", "CONNECTING", "CONNECTED", "ERROR_STATE"}
FlagTypes ==
  /\ mp_thThread \in BOOLEAN /\ terminated \in BOOLEAN
  /\ m_wsHdl \in BOOLEAN /\ isConnected \in BOOLEAN
  /\ handling \in BOOLEAN
EventTypes == events \in Seq(Arrivals) /\ arrived \in 0 .. MaxArrivals
CallTypes ==
  /\ stage \in [Threads -> {"idle", "send", "sendEmpty", "wait", "waitEmpty"}]
  /\ method \in [Threads -> Methods \cup {"none"}]
  /\ \A t \in Threads : stage[t] = "idle" <=> method[t] = "none"
CountTypes ==
  /\ calls \in [Threads -> Nat]
  /\ \A t \in Threads : calls[t] \in 0 .. MaxCalls
ResultTypes ==
  /\ result \in [Threads -> BOOLEAN]
  /\ granted \in [Threads -> BOOLEAN]
  /\ response = [t \in Threads |-> response[t]]

Types ==
  /\ ControlTypes /\ FlagTypes /\ EventTypes
  /\ CallTypes /\ CountTypes /\ ResultTypes

IInv ==
  /\ Types
  /\ WsInv
  /\ MainInv
  /\ BusyInv
  /\ AnswerInv
  /\ HonestSuccess
  /\ TerminatedInv

-----------------------------------------------------------------------------
(* What methods report (Messages).                                         *)

(* Without an answer no method reports success. *)
LEMMA NothingReported ==
  ASSUME NEW op
  PROVE  ~Reports(op, Unparsable)
BY DEF Reports, Unparsable, ConvertResultStringToBool, IsJsonRpcResultNull,
       IsValidJsonResponse, CheckForThunderErrorResponse

(* Nor does one when Thunder has not done what was asked. *)
LEMMA RefusalNotReported ==
  ASSUME NEW op \in Methods, NEW m \in Refusals(op)
  PROVE  ~Reports(op, m)
<1> USE DEF Response, Unparsable, Value
<1>1. CASE \E v : m = Response(TRUE, v)
  <2>1. CheckForThunderErrorResponse(m)
    BY <1>1 DEF CheckForThunderErrorResponse
  <2>. QED
    BY <2>1 DEF Reports, IsValidJsonResponse
<1>2. CASE op \in SuccessMethods \cup StatusMethods /\ \E v \in Flags("false") : m = Response(FALSE, v)
  <2>1. PICK keys \in SUBSET {"success", "status"} :
          m = Response(FALSE, Value("object", [k \in keys |-> "false"]))
    BY <1>2 DEF Flags
  <2>2. ~ConvertResultStringToBool(m, "success") /\ ~ConvertResultStringToBool(m, "status")
    BY <2>1 DEF ConvertResultStringToBool
  <2>3. op # "sendDeepLinkRequest" /\ op # "getPluginState"
    BY <1>2 DEF SuccessMethods, StatusMethods
  <2>. QED
    BY <2>2, <2>3 DEF Reports
<1>3. CASE op = "getPluginState" /\ m = Response(FALSE, Value("array", <<>>))
  <2>1. ~HasStateOf(m, "callsign")
    BY <1>3 DEF HasStateOf
  <2>. QED
    BY <1>3, <2>1 DEF Reports, SuccessMethods, StatusMethods
<1>. QED
  BY <1>1, <1>2, <1>3 DEF Refusals, SuccessMethods, StatusMethods

-----------------------------------------------------------------------------
(* The invariant.                                                          *)

LEMMA TypesAreTypeOK == Types => TypeOK
BY Zenon DEF Types, TypeOK, ControlTypes, FlagTypes, EventTypes, CallTypes,
             CountTypes, ResultTypes

LEMMA InitIInv == Init => IInv
<1> SUFFICES ASSUME Init PROVE IInv
  OBVIOUS
<1> USE TransportAssumption DEF Init, Threads
<1>1. ControlTypes /\ FlagTypes
  BY DEF ControlTypes, FlagTypes
<1>2. EventTypes
  BY DEF EventTypes
<1>3. CallTypes
  <2>1. stage \in [Threads -> {"idle", "send", "sendEmpty", "wait", "waitEmpty"}]
    OBVIOUS
  <2>2. method \in [Threads -> Methods \cup {"none"}]
    OBVIOUS
  <2>3. \A t \in Threads : stage[t] = "idle" <=> method[t] = "none"
    OBVIOUS
  <2>. QED
    BY <2>1, <2>2, <2>3, Zenon DEF CallTypes
<1>4. CountTypes /\ ResultTypes
  BY DEF CountTypes, ResultTypes
<1>5. WsInv /\ MainInv /\ BusyInv
  BY DEF WsInv, Known, MainInv, BusyInv
<1>6. AnswerInv
  BY NothingReported DEF AnswerInv
<1>7. HonestSuccess /\ TerminatedInv
  BY DEF HonestSuccess, TerminatedInv
<1>. QED
  BY <1>1, <1>2, <1>4, <1>5, <1>6, <1>7, <1>3, Zenon DEF IInv, Types

(* The steps of each thread, and what they leave alone. *)
WsStepOf == Handlers \/ ConnectionChanges
EventStep == (\E m \in Arrivals : Arrive(m)) \/ ProcessEvent \/ HandlerReturns
CallStep ==
  \E t \in Threads :
    \/ Respond(t) \/ Send(t) \/ Return(t)
    \/ \E op \in Methods : TestState(t, op) \/ Refused(t, op)

LEMMA Frames ==
  ASSUME [Next]_vars
  PROVE  \/ Main /\ UNCHANGED <<socket, stateVars, eventVars, callVars>>
         \/ WsStepOf /\ UNCHANGED <<mainVars, eventVars, callVars, terminated>>
         \/ EventStep /\ UNCHANGED <<mainVars, socketVars, stateVars, callVars>>
         \/ CallStep /\ UNCHANGED <<mainVars, socketVars, stateVars, eventVars>>
         \/ UNCHANGED vars
<1>1. Main => UNCHANGED <<socket, stateVars, eventVars, callVars>>
  BY DEF Main, ConnectToThunder, GetConnectStatus, socketVars
<1>2. WsStepOf => UNCHANGED <<mainVars, eventVars, callVars, terminated>>
  BY DEF WsStepOf, Handlers, Connect, StoreHandle, StoreState, TellSmartMonitor,
         ConnectionChanges
<1>3. EventStep => UNCHANGED <<mainVars, socketVars, stateVars, callVars>>
  BY DEF EventStep, Arrive, ProcessEvent, HandlerReturns
<1>4. CallStep => UNCHANGED <<mainVars, socketVars, stateVars, eventVars>>
  BY DEF CallStep, Respond, Send, Return, TestState, Refused
<1>. QED
  BY <1>1, <1>2, <1>3, <1>4 DEF Next, WsStepOf, EventStep, CallStep

-----------------------------------------------------------------------------
(* Types, part by part.                                                    *)

LEMMA ControlTypesStep ==
  ASSUME IInv, [Next]_vars
  PROVE  ControlTypes'
<1> USE DEF IInv, Types, ControlTypes
<1>1. CASE Main /\ UNCHANGED <<socket, stateVars, eventVars, callVars>>
  BY <1>1 DEF Main, ConnectToThunder, GetConnectStatus, stateVars, mainVars, socketVars
<1>2. CASE WsStepOf /\ UNCHANGED <<mainVars, eventVars, callVars, terminated>>
  BY <1>2 DEF WsStepOf, Handlers, Connect, StoreHandle, StoreState, TellSmartMonitor,
              ConnectionChanges, WsStep, stateVars, mainVars
<1>3. CASE UNCHANGED <<mainVars, socketVars, stateVars>>
  BY <1>3 DEF mainVars, socketVars, stateVars
<1>. QED
  BY <1>1, <1>2, <1>3, Frames DEF vars

LEMMA FlagTypesStep ==
  ASSUME IInv, [Next]_vars
  PROVE  FlagTypes'
<1> USE DEF IInv, Types, FlagTypes
<1>1. CASE Main /\ UNCHANGED <<socket, stateVars, eventVars, callVars>>
  BY <1>1, Zenon DEF Main, ConnectToThunder, GetConnectStatus, stateVars, mainVars, eventVars
<1>2. CASE WsStepOf /\ UNCHANGED <<mainVars, eventVars, callVars, terminated>>
  BY <1>2, Zenon DEF WsStepOf, Handlers, Connect, StoreHandle, StoreState, TellSmartMonitor,
              ConnectionChanges, WsStep, stateVars, mainVars, eventVars
<1>3. CASE EventStep /\ UNCHANGED <<mainVars, socketVars, stateVars, callVars>>
  BY <1>3, Zenon DEF EventStep, Arrive, ProcessEvent, HandlerReturns, mainVars, stateVars
<1>4. CASE CallStep /\ UNCHANGED <<mainVars, socketVars, stateVars, eventVars>>
  BY <1>4, Zenon DEF CallStep, Respond, Send, Return, TestState, Refused,
                     mainVars, stateVars, eventVars
<1>5. CASE UNCHANGED vars
  BY <1>5 DEF vars, mainVars, stateVars, eventVars
<1>. QED
  BY <1>1, <1>2, <1>3, <1>4, <1>5, Frames

LEMMA EventTypesStep ==
  ASSUME IInv, [Next]_vars
  PROVE  EventTypes'
<1> USE DEF IInv, Types, EventTypes
<1>1. CASE UNCHANGED eventVars
  BY <1>1 DEF eventVars
<1>2. ASSUME NEW m \in Arrivals, Arrive(m)
      PROVE  EventTypes'
  <2>1. events' \in Seq(Arrivals)
    <3>1. events' = Append(events, m) \/ events' = events
      BY <1>2, Zenon DEF Arrive
    <3>. QED
      BY <3>1
  <2>2. arrived' \in 0 .. MaxArrivals
    <3>1. arrived < MaxArrivals /\ arrived' = arrived + 1
      BY <1>2 DEF Arrive
    <3>2. MaxArrivals \in Nat
      BY TransportAssumption
    <3>. QED
      BY <3>1, <3>2
  <2>. QED
    BY <2>1, <2>2
<1>3. CASE ProcessEvent
  BY <1>3, HeadTailProperties DEF ProcessEvent
<1>4. CASE HandlerReturns
  BY <1>4 DEF HandlerReturns
<1>. QED
  BY <1>1, <1>2, <1>3, <1>4, Frames DEF EventStep, vars

LEMMA CallTypesStep ==
  ASSUME IInv, [Next]_vars
  PROVE  CallTypes'
<1> USE DEF IInv, Types, CallTypes
<1>1. CASE UNCHANGED <<stage, method>>
  BY <1>1
<1>2. ASSUME NEW t \in Threads, Send(t), stage' # stage
      PROVE  CallTypes'
  BY <1>2 DEF Send
<1>3. ASSUME NEW t \in Threads, Return(t)
      PROVE  CallTypes'
  BY <1>3 DEF Return
<1>4. ASSUME NEW t \in Threads, NEW op \in Methods, TestState(t, op)
      PROVE  CallTypes'
  <2>1. op # "none"
    BY DEF Methods, SuccessMethods, StatusMethods, OtherMethods
  <2>. QED
    BY <1>4, <2>1 DEF TestState
<1>. QED
  BY <1>1, <1>2, <1>3, <1>4, Frames
     DEF CallStep, Respond, Send, Refused, vars, callVars

LEMMA CountTypesStep ==
  ASSUME IInv, [Next]_vars
  PROVE  CountTypes'
<1> USE TransportAssumption DEF IInv, Types, CountTypes
<1>1. CASE UNCHANGED calls
  BY <1>1
<1>2. ASSUME NEW t \in Threads, NEW op \in Methods, TestState(t, op) \/ Refused(t, op)
      PROVE  CountTypes'
  BY <1>2 DEF TestState, Refused, MayCall
<1>. QED
  BY <1>1, <1>2, Frames DEF CallStep, Respond, Send, Return, vars, callVars

LEMMA ResultTypesStep ==
  ASSUME IInv, [Next]_vars
  PROVE  ResultTypes'
<1> USE DEF IInv, Types, ResultTypes
<1>1. CASE UNCHANGED <<result, granted, response>>
  BY <1>1
<1>2. ASSUME NEW t \in Threads, Respond(t)
      PROVE  ResultTypes'
  BY <1>2 DEF Respond
<1>3. ASSUME NEW t \in Threads, Return(t)
      PROVE  ResultTypes'
  <2>1. Reports(method[t], response[t]) \in BOOLEAN
    BY Zenon DEF Reports
  <2>. HIDE DEF Reports
  <2>. QED
    BY <1>3, <2>1 DEF Return
<1>4. ASSUME NEW t \in Threads, NEW op \in Methods, TestState(t, op) \/ Refused(t, op)
      PROVE  ResultTypes'
  BY <1>4 DEF TestState, Refused
<1>. QED
  BY <1>1, <1>2, <1>3, <1>4, Frames DEF CallStep, Send, vars, callVars

-----------------------------------------------------------------------------
(* The other parts.                                                        *)

LEMMA WsInvStep ==
  ASSUME IInv, [Next]_vars
  PROVE  WsInv'
<1> USE DEF IInv, WsInv, Known, Failed, Closed
<1>1. CASE UNCHANGED <<socketVars, stateVars>>
  BY <1>1 DEF socketVars, stateVars
<1>2. CASE ConnectToThunder
  <2>1. CASE UNCHANGED <<mainVars, ws>>
    BY <1>1, <1>2, <2>1 DEF ConnectToThunder, socketVars
  <2>2. CASE ~mp_thThread /\ ws' = "connect"
    <3>1. ws = "none"
      BY <2>2 DEF MainInv
    <3>. QED
      BY <1>2, <2>2, <3>1 DEF ConnectToThunder, stateVars
  <2>. QED
    BY <1>2, <2>1, <2>2 DEF ConnectToThunder
<1>3. CASE GetConnectStatus
  BY <1>1, <1>3 DEF GetConnectStatus
<1>4. CASE Connect
  BY <1>4 DEF Connect, WsStep
<1>5. CASE ConnectionChanges
  BY <1>5 DEF ConnectionChanges, WsStep, stateVars
<1>6. CASE StoreHandle
  BY <1>6 DEF StoreHandle, WsStep
<1>7. CASE StoreState
  BY <1>7 DEF StoreState, WsStep
<1>8. CASE TellSmartMonitor
  BY <1>8 DEF TellSmartMonitor, WsStep
<1>. QED
  BY <1>1, <1>2, <1>3, <1>4, <1>5, <1>6, <1>7, <1>8, Frames
     DEF vars, Main, WsStepOf, Handlers

LEMMA MainStep ==
  ASSUME IInv, [Next]_vars
  PROVE  MainInv'
<1> USE DEF IInv, MainInv
<1>1. CASE UNCHANGED <<mainVars, socketVars, stateVars>>
  BY <1>1 DEF mainVars, socketVars, stateVars
<1>2. CASE ConnectToThunder
  BY <1>2 DEF ConnectToThunder, stateVars, mainVars
<1>3. CASE GetConnectStatus
  BY <1>3 DEF GetConnectStatus, stateVars, socketVars
<1>4. CASE WsStepOf /\ UNCHANGED mainVars
  <2>1. ws # "none" /\ ws' # "none"
    BY <1>4 DEF WsStepOf, Handlers, Connect, StoreHandle, StoreState, TellSmartMonitor,
                ConnectionChanges, WsStep
  <2>2. isConnected' \/ ~isConnected
    BY <1>4 DEF WsStepOf, Handlers, Connect, StoreHandle, StoreState, TellSmartMonitor,
                ConnectionChanges, WsStep, stateVars, WsInv, Failed, Known
  <2>. QED
    BY <1>4, <2>1, <2>2 DEF mainVars
<1>. QED
  BY <1>1, <1>2, <1>3, <1>4, Frames DEF vars, Main

(* Once the connection was open, its phase stays after "before". *)
LEMMA PhaseStep ==
  ASSUME IInv, [Next]_vars, Phase # "before"
  PROVE  Phase' # "before"
<1> USE DEF Phase
<1>1. CASE UNCHANGED stateVars
  BY <1>1 DEF stateVars
<1>2. CASE WsStepOf
  BY <1>2 DEF WsStepOf, Handlers, Connect, StoreHandle, StoreState, TellSmartMonitor,
              ConnectionChanges, WsStep, stateVars, IInv, WsInv, Known
<1>. QED
  BY <1>1, <1>2, Frames DEF vars

LEMMA BusyStep ==
  ASSUME IInv, [Next]_vars
  PROVE  BusyInv'
<1> SUFFICES ASSUME NEW u \in Threads, stage'[u] # "idle"
             PROVE  Phase' # "before"
  BY DEF BusyInv
<1>1. CASE stage[u] # "idle"
  BY <1>1, PhaseStep DEF IInv, BusyInv
<1>2. CASE stage[u] = "idle"
  <2>1. PICK t \in Threads, op \in Methods : TestState(t, op)
    BY <1>2, Frames
       DEF CallStep, Respond, Send, Return, Refused, vars, callVars, IInv, Types, CallTypes
  <2>. QED
    BY <2>1, PhaseStep DEF TestState, Phase
<1>. QED
  BY <1>1, <1>2

LEMMA AnswerStep ==
  ASSUME IInv, [Next]_vars
  PROVE  AnswerInv'
<1> USE DEF IInv, AnswerInv
<1>1. CASE UNCHANGED <<stage, method, response, granted>>
  BY <1>1
<1>2. ASSUME NEW t \in Threads, Respond(t)
      PROVE  AnswerInv'
  <2>1. PICK ok \in BOOLEAN :
          \E m \in IF ok THEN Grants(method[t]) ELSE Refusals(method[t]) :
            /\ response' = [response EXCEPT ![t] = IF IsResponse(m) THEN m ELSE @]
            /\ granted' = [granted EXCEPT ![t] = ok]
    BY <1>2 DEF Respond
  <2>2. PICK m \in IF ok THEN Grants(method[t]) ELSE Refusals(method[t]) :
          /\ response' = [response EXCEPT ![t] = IF IsResponse(m) THEN m ELSE @]
          /\ granted' = [granted EXCEPT ![t] = ok]
    BY <2>1
  <2>3. stage[t] = "wait" /\ response[t] = Unparsable /\ UNCHANGED <<stage, method>>
    BY <1>2 DEF Respond
  <2>4. method[t] \in Methods
    BY <2>3 DEF Types, CallTypes
  <2>5. Reports(method[t], response'[t]) => ok
    <3>1. response'[t] = m \/ response'[t] = Unparsable
      BY <2>2, <2>3, Zenon DEF Types, ResultTypes
    <3>2. ~ok => ~Reports(method[t], m)
      BY <2>2, <2>4, RefusalNotReported
    <3>. QED
      BY <3>1, <3>2, NothingReported
  <2>6. granted'[t] = ok
    BY <2>2 DEF Types, ResultTypes
  <2>7. \A u \in Threads \ {t} : response'[u] = response[u] /\ granted'[u] = granted[u]
    BY <2>2 DEF Types, ResultTypes
  <2>. QED
    BY <2>3, <2>5, <2>6, <2>7
<1>3. ASSUME NEW t \in Threads, Send(t)
      PROVE  AnswerInv'
  BY <1>3 DEF Send, Sending, Types, CallTypes
<1>4. ASSUME NEW t \in Threads, Return(t)
      PROVE  AnswerInv'
  BY <1>4, NothingReported DEF Return, Types, CallTypes, ResultTypes
<1>5. ASSUME NEW t \in Threads, NEW op \in Methods, TestState(t, op)
      PROVE  AnswerInv'
  BY <1>5, NothingReported DEF TestState, MayCall, Types, CallTypes, ResultTypes
<1>6. ASSUME NEW t \in Threads, NEW op \in Methods, Refused(t, op)
      PROVE  AnswerInv'
  BY <1>6, NothingReported DEF Refused, MayCall, Types, CallTypes, ResultTypes
<1>. QED
  BY <1>1, <1>2, <1>3, <1>4, <1>5, <1>6, Frames DEF CallStep, vars, callVars

LEMMA HonestStep ==
  ASSUME IInv, [Next]_vars
  PROVE  HonestSuccess'
<1> USE DEF IInv, HonestSuccess
<1>1. CASE UNCHANGED <<stage, result, granted>>
  BY <1>1
<1>2. ASSUME NEW t \in Threads, Respond(t)
      PROVE  HonestSuccess'
  BY <1>2 DEF Respond, Types, ResultTypes
<1>3. ASSUME NEW t \in Threads, Send(t)
      PROVE  HonestSuccess'
  BY <1>3 DEF Send, Types, CallTypes
<1>4. ASSUME NEW t \in Threads, Return(t)
      PROVE  HonestSuccess'
  <2>1. result'[t] => granted'[t]
    BY <1>4 DEF Return, Types, ResultTypes, AnswerInv
  <2>2. \A u \in Threads \ {t} :
          result'[u] = result[u] /\ granted'[u] = granted[u] /\ stage'[u] = stage[u]
    BY <1>4 DEF Return, Types, ResultTypes, CallTypes
  <2>. QED
    BY <2>1, <2>2
<1>5. ASSUME NEW t \in Threads, NEW op \in Methods, TestState(t, op)
      PROVE  HonestSuccess'
  BY <1>5 DEF TestState, Types, CallTypes, ResultTypes
<1>6. ASSUME NEW t \in Threads, NEW op \in Methods, Refused(t, op)
      PROVE  HonestSuccess'
  BY <1>6 DEF Refused, Types, ResultTypes
<1>. QED
  BY <1>1, <1>2, <1>3, <1>4, <1>5, <1>6, Frames DEF CallStep, vars, callVars

LEMMA TerminatedStep ==
  ASSUME IInv, [Next]_vars
  PROVE  TerminatedInv'
<1> USE DEF IInv, TerminatedInv
<1>1. CASE UNCHANGED vars
  BY <1>1 DEF vars, mainVars, socketVars, callVars
<1>2. CASE ~terminated /\ UNCHANGED terminated
  BY <1>2
<1>3. CASE ConnectToThunder
  BY <1>3, <1>2 DEF ConnectToThunder, mainVars, Next, vars
<1>4. ASSUME NEW t \in Threads, Send(t), ~terminated
      PROVE  TerminatedInv'
  BY <1>4, <1>2 DEF Send, Sending
<1>5. CASE ~terminated /\ GetConnectStatus
  BY <1>2, <1>5 DEF GetConnectStatus
<1>6. CASE ws = "run" /\ ws' = ws
  BY <1>6
<1>7. CASE EventStep /\ UNCHANGED socketVars /\ ~terminated
  BY <1>2, <1>6, <1>7 DEF EventStep, Arrive, ProcessEvent, HandlerReturns, socketVars
<1>8. Next => ~terminated
  BY DEF Next
<1>9. CASE CallStep /\ ~terminated
  BY <1>2, <1>4, <1>9 DEF CallStep, Respond, Return, TestState, Refused
<1>10. CASE Main /\ ~terminated
  BY <1>3, <1>5, <1>10 DEF Main
<1>11. CASE WsStepOf /\ UNCHANGED <<mainVars, eventVars, callVars, terminated>> /\ ~terminated
  BY <1>2, <1>11
<1>12. CASE Next
  <2>1. ~terminated
    BY <1>8, <1>12
  <2>2. CASE EventStep /\ UNCHANGED <<mainVars, socketVars, stateVars, callVars>>
    BY <1>7, <2>1, <2>2
  <2>. QED
    BY <1>1, <1>9, <1>10, <1>11, <2>1, <2>2, Frames, Zenon
<1>. QED
  BY <1>1, <1>12

LEMMA StepIInv ==
  ASSUME IInv, [Next]_vars
  PROVE  IInv'
BY ControlTypesStep, FlagTypesStep, EventTypesStep, CallTypesStep, CountTypesStep,
   ResultTypesStep, WsInvStep, MainStep, BusyStep, AnswerStep, HonestStep,
   TerminatedStep, Zenon
   DEF IInv, Types

(* The invariant holds in every state of every behaviour.                  *)
THEOREM Invariant == Spec => []IInv
BY InitIInv, StepIInv, PTL DEF Spec

-----------------------------------------------------------------------------
(* The theorems.                                                           *)

(* Every variable keeps its type: in particular no step of the three       *)
(* threads leaves the states TransportHandler.cpp knows.                   *)
THEOREM TypeCorrect == Spec => []TypeOK
BY Invariant, TypesAreTypeOK, PTL DEF IInv

(* A thread that has found the connection open uses a handle that          *)
(* connected() has stored.                                                 *)
THEOREM HandleStoredAlways == Spec => []HandleStored
<1>1. IInv => HandleStored
  BY DEF IInv, HandleStored, BusyInv, WsInv, Phase, Known, Failed, Closed,
         Types, ControlTypes
<1>. QED
  BY <1>1, Invariant, PTL

(* SmartMonitor is wrong about the connection only because it is closing   *)
(* or has closed.                                                          *)
THEOREM StaleOnlyAfterCloseAlways == Spec => []StaleOnlyAfterClose
<1>1. IInv => StaleOnlyAfterClose
  BY DEF IInv, StaleOnlyAfterClose, MainInv, WsInv, Known, Failed, Closed,
         Types, ControlTypes
<1>. QED
  BY <1>1, Invariant, PTL

(* A method that reports success does so for a request Thunder has carried *)
(* out.                                                                    *)
THEOREM HonestSuccessAlways == Spec => []HonestSuccess
BY Invariant, PTL DEF IInv

(* Once disconnected() has run and no call is past its test, no step gets  *)
(* past it again, and so nothing throws.                                   *)
LEMMA ReportedStep ==
  ASSUME IInv, [Next]_vars, CloseReported
  PROVE  CloseReported'
<1> USE DEF CloseReported
<1>1. m_connectionState # "CONNECTED"
  BY DEF IInv, WsInv, Failed, Closed, Known
<1>2. main' = main /\ ws' = ws
  BY Frames DEF Main, ConnectToThunder, GetConnectStatus, WsStepOf, Handlers, Connect,
                StoreHandle, StoreState, TellSmartMonitor, ConnectionChanges, WsStep,
                mainVars, socketVars, vars
<1>3. \A t \in Threads : stage'[t] \notin {"send", "sendEmpty"}
  BY <1>1, Frames
     DEF CallStep, Respond, Send, Return, TestState, Refused, vars, callVars,
         IInv, Types, CallTypes
<1>. QED
  BY <1>2, <1>3

(* A connection whose end is reported and that no call is past the test of *)
(* never ends the process.                                                 *)
THEOREM SafeOnceReportedAlways == Spec => SafeOnceReported
<1>1. IInv /\ CloseReported => ~terminated
  BY DEF IInv, TerminatedInv, CloseReported, Sending
<1>2. IInv /\ [Next]_vars /\ CloseReported => CloseReported'
  BY ReportedStep
<1>. QED
  BY <1>1, <1>2, Invariant, PTL DEF Spec, SafeOnceReported

(* Every step of the three threads is one that Link allows, or none.       *)
LEMMA LinkStep ==
  ASSUME IInv, [Next]_vars
  PROVE  [ConnectedOnce!Next]_(ConnectedOnce!vars)
<1> USE DEF ConnectedOnce!vars
<1>1. CASE UNCHANGED <<stateVars, handedOver>>
  BY <1>1 DEF stateVars, Phase
<1>2. CASE WsStepOf /\ UNCHANGED handedOver
  <2>1. CASE Connect \/ ConnectionChanges \/ StoreHandle \/ TellSmartMonitor
    <3>1. Phase' = Phase
      BY <2>1 DEF Connect, ConnectionChanges, StoreHandle, TellSmartMonitor, WsStep,
                  stateVars, Phase, IInv, WsInv, Known
    <3>. QED
      BY <1>2, <3>1
  <2>2. CASE StoreState
    <3>1. CASE WsStep("storeOpen", "tellOpen") /\ m_connectionState' = "CONNECTED"
      <4>1. Phase = "before" /\ Phase' = "up"
        BY <3>1 DEF WsStep, Phase, IInv, WsInv, Known
      <4>. QED
        BY <1>2, <4>1 DEF ConnectedOnce!Next, ConnectedOnce!Open
    <3>2. CASE WsStep("failed", "tellFailed") /\ m_connectionState' = "ERROR_STATE"
      <4>1. Phase = "before" /\ Phase' = "before"
        BY <3>2 DEF WsStep, Phase, IInv, WsInv, Known
      <4>. QED
        BY <1>2, <4>1
    <3>3. CASE WsStep("closed", "ended") /\ m_connectionState' = "DISCONNECTED"
      <4>1. Phase = "up" /\ Phase' = "down"
        BY <2>2, <3>3 DEF StoreState, WsStep, Phase, IInv, WsInv, Known
      <4>. QED
        BY <1>2, <4>1 DEF ConnectedOnce!Next, ConnectedOnce!Close
    <3>. QED
      BY <2>2, <3>1, <3>2, <3>3 DEF StoreState
  <2>. QED
    BY <1>2, <2>1, <2>2 DEF WsStepOf, Handlers
<1>3. ASSUME NEW t \in Threads, Send(t), UNCHANGED stateVars, socket = "open"
      PROVE  [ConnectedOnce!Next]_(ConnectedOnce!vars)
  <2>1. Phase # "before"
    BY <1>3 DEF Send, IInv, BusyInv
  <2>2. Phase = "up"
    BY <1>3, <2>1 DEF Phase, IInv, WsInv, Known, Failed, Closed, Types, ControlTypes
  <2>3. Phase' = Phase
    BY <1>3 DEF stateVars, Phase
  <2>. QED
    BY <1>3, <2>2, <2>3 DEF Send, ConnectedOnce!Next, ConnectedOnce!HandOver
<1>4. ASSUME NEW t \in Threads, Send(t), UNCHANGED stateVars, socket # "open"
      PROVE  UNCHANGED handedOver
  BY <1>4 DEF Send
<1>. QED
  BY <1>1, <1>2, <1>3, <1>4, Frames
     DEF CallStep, Respond, Return, TestState, Refused, vars, callVars

(* The connection is up once, and messages are handed over only while it   *)
(* is: what ResponseHandler and the models of the rest rely on.            *)
THEOREM TransportRefinesLink == Spec => ImplementsLink
<1>1. Init => ConnectedOnce!Init
  BY DEF Init, ConnectedOnce!Init, Phase
<1>2. IInv /\ [Next]_vars => [ConnectedOnce!Next]_(ConnectedOnce!vars)
  BY LinkStep
<1>. QED
  BY <1>1, <1>2, Invariant, PTL DEF Spec, ImplementsLink, ConnectedOnce!Spec

=============================================================================
