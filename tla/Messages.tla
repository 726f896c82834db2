------------------------------ MODULE Messages ------------------------------
(***************************************************************************)
(* What the program makes of a message of Thunder: where it is routed      *)
(* (TransportHandler::processResponse, ThunderInterface), which listener   *)
(* an event is for (ResponseHandler::processEvent), and what a method of   *)
(* ThunderInterface reports for a response (ProtocolHandler.cpp).          *)
(*                                                                         *)
(* A message has the members the code looks at; their text is left out.    *)
(***************************************************************************)

(* The value of a member: its JSON type and, for an object or an array,    *)
(* what can be found in it under which key.                                *)
Value(type, members) == [type |-> type, members |-> members]
Missing == Value("missing", <<>>)
Null == Value("null", <<>>)
Number == Value("number", <<>>)
String == Value("string", <<>>)

DialEvents == {"onApplicationHideRequest", "onApplicationLaunchRequest",
               "onApplicationResumeRequest", "onApplicationStopRequest",
               "onApplicationStateRequest"}
ShellEvents == {"onApplicationActivated", "onApplicationLaunched",
                "onApplicationResumed", "onApplicationSuspended",
                "onApplicationTerminated", "onDestroyed", "onLaunched",
                "onSuspended", "onPluginSuspended"}

(* Text that is not JSON; "" is one such, and getRequestStatus returns it  *)
(* when there is no answer.                                                *)
Unparsable == [parses |-> FALSE, id |-> Missing, method |-> "", params |-> FALSE,
               error |-> FALSE, result |-> Missing]

(* A response with the number of a request. *)
Response(error, result) ==
  [Unparsable EXCEPT !.parses = TRUE, !.id = Number, !.error = error, !.result = result]

(* A notification, with an object under "params" or without. *)
Event(method, params) ==
  [Unparsable EXCEPT !.parses = TRUE, !.method = method, !.params = params]

(* The answer to a message the other side could not parse. *)
NullIdError == [Response(TRUE, Missing) EXCEPT !.id = Null]

(* A response whose id is a string, as it is in the request. *)
StringIdResponse == [Response(FALSE, Null) EXCEPT !.id = String]

-----------------------------------------------------------------------------
(* processResponse: to m_msgHandler, m_eventHandler or nowhere. *)
ToMsgHandler(m) == ~m.parses \/ m.id # Missing
ToEventHandler(m) == ~ToMsgHandler(m) /\ m.method # ""

(* getMessageId: null is empty() for jsoncpp, and asInt() throws on a      *)
(* string.                                                                 *)
GetMessageId(m) == m.parses /\ m.id.type = "number"
GetMessageIdThrows(m) == m.parses /\ m.id.type = "string"

(* onMsgReceived and onEventReceived: for the request table, for the queue *)
(* or, as nothing on the websocket thread catches the exception, the end.  *)
IsResponse(m) == ToMsgHandler(m) /\ GetMessageId(m)
IsFatal(m) == ToMsgHandler(m) /\ GetMessageIdThrows(m)
IsQueued(m) ==
  \/ ToEventHandler(m)
  \/ ToMsgHandler(m) /\ ~GetMessageId(m) /\ ~GetMessageIdThrows(m)

(* processEvent: the listener called for a queued message, or "none". *)
Listener(m) ==
  CASE m.method \in DialEvents -> IF m.params THEN "dial" ELSE "none"
    [] m.method \in ShellEvents -> "shell"
    [] m.method = "statechange" -> "controller"
    [] OTHER -> "none"

-----------------------------------------------------------------------------
(* getResultObject and convertResultStringToBool, whose callers initialise *)
(* the value to false.                                                     *)
ConvertResultStringToBool(m, key) ==
  /\ m.parses
  /\ m.result.type = "object"
  /\ key \in DOMAIN m.result.members
  /\ m.result.members[key] = "true"

(* Fault: no response is an error. *)
CheckForThunderErrorResponse_Never(m) == FALSE

CheckForThunderErrorResponse(m) == m.parses /\ m.error

IsJsonRpcResultNull(m) == m.parses /\ m.result.type = "null"

IsValidJsonResponse(m) == m.parses /\ ~CheckForThunderErrorResponse(m)

(* The loop of getPluginState over the array: an element for the callsign  *)
(* that has a state.                                                       *)
HasStateOf(m, callsign) == m.result.type = "array" /\ callsign \in DOMAIN m.result.members

(* The methods by the key they look for in the result.  Others return      *)
(* false whatever the response.                                            *)
SuccessMethods == {"enableCasting", "setFriendlyName", "launchPremiumApp"}
StatusMethods == {"registerEvent", "registerXcastApps", "setStandbyBehaviour",
                  "setAppState", "suspendPremiumApp", "shutdownPremiumApp"}
OtherMethods == {"isCastingEnabled", "getFriendlyName"}
Methods == SuccessMethods \cup StatusMethods \cup OtherMethods
             \cup {"sendDeepLinkRequest", "getPluginState"}

(* A deep link's message is "" when the application is not configured or   *)
(* has no method; the id taken for it is then waited for in vain.          *)
MayBeEmpty == {"sendDeepLinkRequest"}

(* What method op returns on response m. *)
Reports(op, m) ==
  \/ /\ op \in SuccessMethods
     /\ ~CheckForThunderErrorResponse(m)
     /\ ConvertResultStringToBool(m, "success")
  \/ /\ op \in StatusMethods
     /\ ~CheckForThunderErrorResponse(m)
     /\ ConvertResultStringToBool(m, "status")
  \/ /\ op = "sendDeepLinkRequest"
     /\ ~CheckForThunderErrorResponse(m)
     /\ IsJsonRpcResultNull(m)
  \/ /\ op = "getPluginState"
     /\ IsValidJsonResponse(m)
     /\ HasStateOf(m, "callsign")
=============================================================================
