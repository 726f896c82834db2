---------------------------- MODULE SmartMonitor ----------------------------
(***************************************************************************)
(* Serving DIAL requests from a cache of application states                *)
(* (SmartMonitor.cpp, ThunderInterface.cpp).                               *)
(*                                                                         *)
(* The event loop handles Thunder's notifications in order of arrival      *)
(* (EventLoop): a state notification updates the cache m_dialApps, a DIAL  *)
(* request is decided on the cached state, or on the answer of Thunder     *)
(* when the cache has none.  Its remote calls return their own answer or   *)
(* nothing (RpcCalls); while the loop waits for one, notifications pile    *)
(* up, and a request whose call has timed out may still be executed.       *)
(*                                                                         *)
(* Thunder is modelled by what the program relies on: it executes requests *)
(* in order, and notifies every change of a plugin's state.                *)
(*                                                                         *)
(* This module is the program after start-up; Startup adds the main thread *)
(* until then.                                                             *)
(***************************************************************************)
EXTENDS AppStates, Sequences, Naturals

CONSTANTS
  Apps,            \* the applications with an entry in m_dialApps
  Strangers,       \* other names in DIAL requests
  States,          \* the plugin states Thunder goes through
  ShellNames,      \* the RDKShell notifications Thunder sends
  StatusState(_),  \* how Thunder's status answer spells a plugin state
  MaxChanges,      \* bound: changes of state nobody asked for
  MaxRequests      \* bound: DIAL requests

ASSUME SmartMonitorAssumption ==
  /\ Apps \cap Strangers = {}
  /\ States \subseteq PluginStates
  /\ ShellNames \subseteq ShellEvents
  /\ \A s \in States : StatusState(s) \notin {"", "success", "error", "unknown"}
  /\ MaxChanges \in Nat
  /\ MaxRequests \in Nat

VARIABLES
  truth,       \* Thunder: the state of each application's plugin
  subscribed,  \* Thunder: the events that are notified
  registered,  \* XCast: the applications DIAL requests are forwarded for
  notifs,      \* notifications that are not handled yet, in order
  sent,        \* requests that Thunder has not executed yet, in order
  answer,      \* by thread: Thunder's answer to its call, "" before it is there
  m_dialApps,  \* by application: the cached plugin state and DIAL state
  step,        \* the call the event loop waits in, or "idle"
  current,     \* the DIAL request it is serving
  changes, requests  \* counters for the bounds

xcastVars == <<subscribed, registered>>
vars == <<truth, subscribed, registered, notifs, sent, answer, m_dialApps,
          step, current, changes, requests>>

DialRequests == {"state", "launch", "hide", "stop", "resume"}
Commands == {"launch", "suspend", "destroy"}
Operations == Commands \cup {"status", "deeplink", "report"}

DialRequest(a, r) == [type |-> "dial", app |-> a, request |-> r]
StateChange(a, s) == [type |-> "controller", app |-> a, state |-> s]
ShellEvent(a, e) == [type |-> "shell", app |-> a, event |-> e]

(* What is notified to those who subscribe: XCast has an event for each    *)
(* DIAL request, RDKShell one of each name, and the Controller one.        *)
Events == DialRequests \cup ShellNames \cup {"statechange"}
EventOf(n) ==
  CASE n.type = "dial"       -> n.request
    [] n.type = "shell"      -> n.event
    [] n.type = "controller" -> "statechange"

Names == Apps \cup Strangers
Notification ==
  [type : {"dial"}, app : Names, request : DialRequests]
    \cup [type : {"controller"}, app : Apps, state : States]
    \cup [type : {"shell"}, app : Apps, event : ShellNames]

Unknown == [plugin |-> "unknown", dial |-> "unknown"]
Nothing == [app |-> "", request |-> ""]

Answers == {"", "success", "error"} \cup {StatusState(s) : s \in States}
CachedStates == {"unknown"} \cup DialStates \cup States
                  \cup {StatusState(s) : s \in States}

TypeOK ==
  /\ truth \in [Apps -> States]
  /\ subscribed \subseteq Events
  /\ registered \subseteq Names
  /\ notifs \in Seq(Notification)
  /\ \A i \in DOMAIN sent : sent[i].caller \in {"loop", "main", "nobody"}
  /\ answer["loop"] \in Answers
  /\ m_dialApps \in [Apps -> [plugin : CachedStates, dial : DialStates \cup {"unknown"}]]
  /\ step \in {"idle"} \cup Operations
  /\ step # "idle" => current \in [app : Names, request : DialRequests]
  /\ changes \in 0 .. MaxChanges
  /\ requests \in 0 .. MaxRequests

InitCommon ==
  /\ truth \in [Apps -> States]
  /\ notifs = <<>>
  /\ sent = <<>>
  /\ answer = [c \in {"loop", "main"} |-> ""]
  /\ step = "idle"
  /\ current = Nothing
  /\ changes = 0
  /\ requests = 0

(* An entry that was filled from a status answer for plugin state s. *)
Fetched(s) == [plugin |-> StatusState(s), dial |-> Converted(StatusState(s), "unknown")]

(* After start-up: the state of each application was fetched, or was not.  *)
(* What was fetched need not be the state it is in: registerDIALApps may   *)
(* have stored an older one (Startup), or that of another application.     *)
Init ==
  /\ InitCommon
  /\ subscribed = Events
  /\ registered = Names
  /\ m_dialApps \in [Apps -> {Unknown} \cup {Fetched(s) : s \in States}]

-----------------------------------------------------------------------------
(* Thunder. *)

(* How a change to state s may be notified: by the Controller, or by       *)
(* RDKShell with an event that means the same.                             *)
Notifications(a, s) ==
  {n \in {StateChange(a, s)} \cup {ShellEvent(a, e) : e \in ShellNames} :
     /\ EventOf(n) \in subscribed
     /\ n.type = "shell" =>
          ShellEventState(n.event) = ConvertPluginStateToDIALState(s)}

ChangeState(a, s) ==
  /\ truth' = [truth EXCEPT ![a] = s]
  /\ IF Notifications(a, s) = {}
     THEN UNCHANGED notifs
     ELSE \E n \in Notifications(a, s) : notifs' = Append(notifs, n)

(* A user, the application or another client changes the state. *)
Change(a) ==
  /\ changes < MaxChanges
  /\ changes' = changes + 1
  /\ \E s \in States \ {truth[a]} : ChangeState(a, s)
  /\ UNCHANGED <<xcastVars, sent, answer, m_dialApps, step, current, requests>>

(* XCast forwards a DIAL request. *)
Request ==
  /\ requests < MaxRequests
  /\ requests' = requests + 1
  /\ \E a \in registered, r \in DialRequests \cap subscribed :
       notifs' = Append(notifs, DialRequest(a, r))
  /\ UNCHANGED <<truth, xcastVars, sent, answer, m_dialApps, step, current, changes>>

StatesAfter(op) ==
  States \cap (CASE op = "launch"  -> RunningStates
                 [] op = "suspend" -> SuspendedStates
                 [] op = "destroy" -> StoppedStates)

Answered(caller, a) ==
  answer' = IF caller = "nobody" THEN answer ELSE [answer EXCEPT ![caller] = a]

(* Execute the oldest request, or refuse to, and answer it. *)
Execute ==
  /\ sent # <<>>
  /\ sent' = Tail(sent)
  /\ LET r == Head(sent)
     IN \/ /\ r.op \in Commands /\ r.app \in Apps
           /\ \/ truth[r.app] \in StatesAfter(r.op) /\ UNCHANGED <<truth, notifs>>
              \/ /\ truth[r.app] \notin StatesAfter(r.op)
                 /\ \E s \in StatesAfter(r.op) : ChangeState(r.app, s)
           /\ Answered(r.caller, "success")
        \/ /\ r.op \in {"deeplink", "report"}
           /\ Answered(r.caller, "success")
           /\ UNCHANGED <<truth, notifs>>
        \/ /\ r.op = "status" /\ r.app \in Apps
           /\ Answered(r.caller, StatusState(truth[r.app]))
           /\ UNCHANGED <<truth, notifs>>
        \/ /\ r.op \in Operations
           /\ Answered(r.caller, "error")
           /\ UNCHANGED <<truth, notifs>>
  /\ UNCHANGED <<xcastVars, m_dialApps, step, current, changes, requests>>

-----------------------------------------------------------------------------
(* The event loop. *)

Begin(caller, op, a) ==
  /\ sent' = Append(sent, [op |-> op, app |-> a, caller |-> caller])
  /\ answer' = [answer EXCEPT ![caller] = ""]

Call(op, a) ==
  /\ step' = op
  /\ Begin("loop", op, a)

Done ==
  /\ step' = "idle"
  /\ current' = Nothing
  /\ answer' = [answer EXCEPT !["loop"] = ""]

(* What becomes of the request of a call that has timed out: Thunder may   *)
(* still execute it, but its answer goes nowhere.                          *)
Abandoned(caller) ==
  [i \in DOMAIN sent |-> IF sent[i].caller = caller
                         THEN [sent[i] EXCEPT !.caller = "nobody"]
                         ELSE sent[i]]

Update(a, plugin, dial) ==
  m_dialApps' = [m_dialApps EXCEPT ![a] = [plugin |-> plugin, dial |-> dial]]

NextOfType(type) ==
  /\ step = "idle"
  /\ notifs # <<>>
  /\ Head(notifs).type = type
  /\ notifs' = Tail(notifs)

(* Fault: the name Cobalt is not converted to YouTube. *)
OnRDKShellEvent_NoCallsign ==
  /\ NextOfType("shell")
  /\ UNCHANGED <<truth, xcastVars, sent, answer, m_dialApps, step, current,
                 changes, requests>>

OnRDKShellEvent ==
  /\ NextOfType("shell")
  /\ LET n == Head(notifs)
         s == ShellEventState(n.event)
     IN Update(n.app, s, Converted(s, m_dialApps[n.app].dial))
  /\ UNCHANGED <<truth, xcastVars, sent, answer, step, current, changes, requests>>

(* The state is put in lower case before it is converted, so it converts.  *)
OnControllerStateChangeEvent ==
  /\ NextOfType("controller")
  /\ LET n == Head(notifs)
     IN Update(n.app, n.state, ConvertPluginStateToDIALState(n.state))
  /\ UNCHANGED <<truth, xcastVars, sent, answer, step, current, changes, requests>>

(* The rest of onDialEvent once the state s of the application is known:   *)
(* it makes a call, or there is nothing to do.                             *)
ServeOn(a, request, s) ==
  LET dialState == Converted(s, "unknown")
      call == CASE request = "state" -> "report"
                [] request = "launch" /\ dialState = "running" -> "deeplink"
                [] request = "launch" /\ dialState # "running" -> "launch"
                [] request = "resume" -> "launch"
                [] request = "hide" -> "suspend"
                [] request = "stop" -> "destroy"
      nothing == \/ request = "state" /\ ReportableState(dialState) = "none"
                 \/ request = "hide" /\ dialState = "suspended"
                 \/ request = "stop" /\ dialState = "stopped"
                 \/ request = "resume" /\ dialState = "running"
  IN \/ /\ ~nothing
        /\ Call(call, a)
        /\ current' = [app |-> a, request |-> request]
     \/ nothing /\ Done /\ UNCHANGED sent

Cached(a) == a \in Apps /\ m_dialApps[a].plugin # "unknown"

(* onDialEvent up to its first call. *)
OnDialEvent ==
  /\ NextOfType("dial")
  /\ LET n == Head(notifs)
     IN \/ Cached(n.app) /\ ServeOn(n.app, n.request, m_dialApps[n.app].dial)
        \/ /\ ~Cached(n.app)
           /\ Call("status", n.app)
           /\ current' = [app |-> n.app, request |-> n.request]
  /\ UNCHANGED <<truth, xcastVars, m_dialApps, changes, requests>>

GotState == answer["loop"] \notin {"", "success", "error"}

(* Fault: the DIAL state in the cache is not refreshed with the plugin     *)
(* state.                                                                  *)
StatusReturns_KeepsDial ==
  /\ step = "status"
  /\ GotState
  /\ Update(current.app, answer["loop"], m_dialApps[current.app].dial)
  /\ ServeOn(current.app, current.request, answer["loop"])
  /\ UNCHANGED <<truth, xcastVars, notifs, changes, requests>>

(* Fault: the plugin state is copied to the DIAL state as it is. *)
StatusReturns_Unconverted ==
  /\ step = "status"
  /\ GotState
  /\ Update(current.app, answer["loop"], answer["loop"])
  /\ ServeOn(current.app, current.request, answer["loop"])
  /\ UNCHANGED <<truth, xcastVars, notifs, changes, requests>>

(* getPluginState got an answer: fill the cache and go on. *)
StatusReturns ==
  /\ step = "status"
  /\ GotState
  /\ Update(current.app, answer["loop"],
            Converted(answer["loop"], m_dialApps[current.app].dial))
  /\ ServeOn(current.app, current.request, answer["loop"])
  /\ UNCHANGED <<truth, xcastVars, notifs, changes, requests>>

(* launchPremiumApp succeeded for a launch request: send the deep link. *)
LaunchReturns ==
  /\ step = "launch"
  /\ current.request = "launch"
  /\ answer["loop"] = "success"
  /\ Call("deeplink", current.app)
  /\ UNCHANGED <<truth, xcastVars, notifs, m_dialApps, current, changes, requests>>

(* Any other answer ends the DIAL request. *)
LastCallReturns ==
  /\ answer["loop"] \in {"success", "error"}
  /\ ~(step = "launch" /\ current.request = "launch" /\ answer["loop"] = "success")
  /\ Done
  /\ UNCHANGED <<truth, xcastVars, notifs, sent, m_dialApps, changes, requests>>

(* The call times out, whether or not Thunder has executed the request,    *)
(* and the DIAL request is given up.                                       *)
CallTimesOut ==
  /\ step # "idle"
  /\ sent' = Abandoned("loop")
  /\ Done
  /\ UNCHANGED <<truth, xcastVars, notifs, m_dialApps, changes, requests>>

Loop ==
  \/ OnRDKShellEvent \/ OnControllerStateChangeEvent \/ OnDialEvent
  \/ StatusReturns \/ LaunchReturns \/ LastCallReturns \/ CallTimesOut

Next ==
  \/ \E a \in Apps : Change(a)
  \/ Request
  \/ Execute
  \/ Loop

(* The loop goes on, as every call returns (CallReturns in                 *)
(* ResponseHandler).  Thunder need not execute anything.                   *)
Spec == Init /\ [][Next]_vars /\ WF_vars(Loop)

-----------------------------------------------------------------------------
Current(a) == m_dialApps[a].dial = ConvertPluginStateToDIALState(truth[a])

About(n, a) == n.type # "dial" /\ n.app = a
Notified(a) == \E i \in DOMAIN notifs : About(notifs[i], a)

(* The entry of an application is right, or a notification that will       *)
(* correct it is on its way.                                               *)
Tracked(a) == Cached(a) => Current(a) \/ Notified(a)

(* In service no entry becomes wrong with nothing on its way: an answer of *)
(* Thunder that was overtaken by a change of state does not stay in the    *)
(* cache, whatever main left there.                                        *)
KeepsTracking == [][\A a \in Apps : Tracked(a) => Tracked(a)']_vars

(* A command waits to be executed that brings an application into the      *)
(* state it is in already.                                                 *)
Redundant(a) ==
  \E i \in DOMAIN sent :
    /\ sent[i].caller = "loop" /\ sent[i].app = a
    /\ sent[i].op \in Commands /\ truth[a] \in StatesAfter(sent[i].op)

(* Unless main left the entry wrong, there is a redundant command only     *)
(* while the notification of the state is on its way; so an application    *)
(* that runs is not launched again, as onDialEvent intends.                *)
RedundantOnlyWhenLagging ==
  \A a \in Apps : Tracked(a) => [](Redundant(a) => Notified(a))

(* When the states stop changing, an entry that is tracked becomes right   *)
(* and stays right.                                                        *)
CacheConverges == \A a \in Apps : Tracked(a) ~> [](Cached(a) => Current(a))
=============================================================================
