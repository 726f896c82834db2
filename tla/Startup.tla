------------------------------ MODULE Startup ------------------------------
(***************************************************************************)
(* The main thread from the open connection to waitForTermSignal (main in  *)
(* XdialTester.cpp, registerForEvents, checkAndEnableCasting and           *)
(* registerDIALApps in SmartMonitor.cpp), beside the event loop of         *)
(* SmartMonitor, which handles notifications from the first subscription   *)
(* on.                                                                     *)
(*                                                                         *)
(* Main makes its remote calls one after the other and goes on whatever    *)
(* becomes of them.  Both threads write m_dialApps, and there is no mutex: *)
(* a string main is writing is Torn, and when the event loop has written   *)
(* it meanwhile, either value or Torn may come out.                        *)
(***************************************************************************)
EXTENDS SmartMonitor, Functions

CONSTANTS
  EnabledApps,  \* the applications of --enable-apps, in the order of m_dialApps
  Leftovers,    \* what XCast may have kept registered from an earlier run of
                \* the program: {} in a first run
  MaxRefusals   \* bound: calls only main makes that are refused, in a first
                \* run (TRUE) or a later one

Torn == "torn"

(* The names getRegisterAppToJson registers for an enabled application. *)
RegisteredAs(a) ==
  CASE a = "YouTube" -> {"YouTube", "YouTubeTV"}
    [] a = "Netflix" -> {"Netflix"}
    [] a = "Amazon"  -> {"AmazonInstantVideo"}

RegisteredNames == UNION {RegisteredAs(a) : a \in Range(EnabledApps)}

ASSUME StartupAssumption ==
  /\ EnabledApps \in Seq({"YouTube", "Netflix", "Amazon"} \cap Apps)
  /\ RegisteredNames \subseteq Names
  /\ Leftovers \subseteq SUBSET Names
  /\ MaxRefusals \in [BOOLEAN -> Nat]

VARIABLES
  todo,       \* the calls main has to make still, the current one included
  mainStep,   \* what main does about the first of them
  casting,    \* XCast: casting is "on" or "off"
  firstRun,   \* XCast had kept no registrations
  lost,       \* history: a call of main was refused or timed out
  refusals,   \* counter for the bound
  lastWriter, \* history: by application, who wrote the cache entry last: main,
              \* or the event loop on a notification ("event") or an answer
              \* of Thunder ("fetch")
  unheard     \* history: the applications whose last change of state was not
              \* notified, as none of its events was subscribed to

mainVars == <<todo, mainStep, lost>>
startupVars == <<vars, mainVars, casting, firstRun, refusals, lastWriter, unheard>>

(* registerDIALApps asks for the state of YouTube to fill in Netflix. *)
AskedFor(a) == IF a = "Netflix" THEN "YouTube" ELSE a

MainCall(op, arg) == [op |-> op, arg |-> arg]

(* The subscriptions of registerForEvents, each a call of its own.         *)
Subscriptions ==
  <<"hide", "launch", "resume", "state", "stop",
    "onApplicationActivated", "onApplicationLaunched", "onApplicationResumed",
    "onApplicationSuspended", "onApplicationTerminated", "onDestroyed",
    "onLaunched", "onSuspended", "onPluginSuspended",
    "statechange">>

Subscribing == [i \in DOMAIN Subscriptions |-> MainCall("subscribe", Subscriptions[i])]
Fetches == [i \in DOMAIN EnabledApps |-> MainCall("status", EnabledApps[i])]

(* Fault: the applications are registered before their states are known. *)
Script_RegisterFirst ==
  Subscribing
    \o <<MainCall("setStandby", ""), MainCall("getEnabled", ""), MainCall("getName", ""),
         MainCall("register", "")>>
    \o Fetches

(* The calls of main, in order. *)
Script ==
  Subscribing
    \o <<MainCall("setStandby", ""), MainCall("getEnabled", ""), MainCall("getName", "")>>
    \o Fetches
    \o <<MainCall("register", "")>>

(* The calls whose answer makes no difference to what main does.           *)
Indifferent == {"subscribe", "setStandby", "setName", "enable", "getName", "register"}

(* What main does first if casting is not enabled. *)
Enabling == <<MainCall("setName", ""), MainCall("enable", "")>>

MainDone == todo = <<>>
Writing == {"plugin", "plugin2", "dial", "dial2"}

StartupTypeOK ==
  /\ truth \in [Apps -> States]
  /\ m_dialApps \in [Apps -> [plugin : CachedStates \cup {Torn},
                              dial : DialStates \cup {"unknown", Torn}]]
  /\ subscribed \subseteq Events
  /\ registered \subseteq Names
  /\ notifs \in Seq(Notification)
  /\ answer["loop"] \in Answers
  /\ answer["main"] \in Answers \cup {"on", "off"}
  /\ todo \in Seq([op : Indifferent \cup {"getEnabled", "status"},
                   arg : Names \cup Range(Subscriptions) \cup {""}])
  /\ mainStep \in {"begin", "wait"} \cup Writing
  /\ mainStep \in Writing => todo # <<>> /\ Head(todo).op = "status"
  /\ casting \in {"on", "off"}
  /\ firstRun \in BOOLEAN
  /\ lost \in BOOLEAN
  /\ refusals \in 0 .. MaxRefusals[firstRun]
  /\ lastWriter \in [Apps -> {"none", "main", "event", "fetch"}]
  /\ unheard \subseteq Apps

StartupInit ==
  /\ InitCommon
  /\ subscribed = {}
  /\ registered \in Leftovers
  /\ firstRun = (registered = {})
  /\ m_dialApps = [a \in Apps |-> Unknown]
  /\ todo = Script
  /\ mainStep = "begin"
  /\ casting \in {"on", "off"}
  /\ lost = FALSE
  /\ refusals = 0
  /\ lastWriter = [a \in Apps |-> "none"]
  /\ unheard = {}

-----------------------------------------------------------------------------
(* The main thread. *)

BeginCall ==
  /\ mainStep = "begin"
  /\ todo # <<>>
  /\ LET c == Head(todo)
     IN Begin("main", c.op, IF c.op = "status" THEN AskedFor(c.arg) ELSE c.arg)
  /\ mainStep' = "wait"
  /\ UNCHANGED <<truth, xcastVars, notifs, m_dialApps, step, current, changes,
                 requests, todo, casting, lost, lastWriter>>

MainWaits(op) == mainStep = "wait" /\ Head(todo).op = op

NextCall ==
  /\ mainStep' = "begin"
  /\ todo' = Tail(todo)

MainCallReturns ==
  /\ \E op \in Indifferent : MainWaits(op)
  /\ answer["main"] # ""
  /\ lost' = (lost \/ answer["main"] = "error")
  /\ NextCall
  /\ UNCHANGED <<vars, casting, lastWriter>>

(* Fault: casting is enabled when it is enabled already. *)
GetEnabledReturns_Inverted ==
  /\ MainWaits("getEnabled")
  /\ answer["main"] # ""
  /\ lost' = (lost \/ answer["main"] = "error")
  /\ mainStep' = "begin"
  /\ todo' = IF answer["main"] = "on" THEN Enabling \o Tail(todo) ELSE Tail(todo)
  /\ UNCHANGED <<vars, casting, lastWriter>>

(* checkAndEnableCasting: casting is enabled if XCast says it is not. *)
GetEnabledReturns ==
  /\ MainWaits("getEnabled")
  /\ answer["main"] # ""
  /\ lost' = (lost \/ answer["main"] = "error")
  /\ mainStep' = "begin"
  /\ todo' = IF answer["main"] = "off" THEN Enabling \o Tail(todo) ELSE Tail(todo)
  /\ UNCHANGED <<vars, casting, lastWriter>>

(* getPluginState got a state, to be stored in the cache, or none. *)
FetchReturns ==
  /\ MainWaits("status")
  /\ answer["main"] # ""
  /\ \/ /\ answer["main"] = "error"
        /\ lost' = TRUE
        /\ NextCall
     \/ /\ answer["main"] # "error"
        /\ mainStep' = "plugin"
        /\ UNCHANGED <<todo, lost>>
  /\ UNCHANGED <<vars, casting, lastWriter>>

(* Fault: main waits for an answer without a time limit. *)
MainTimesOut_Never ==
  /\ FALSE
  /\ UNCHANGED startupVars

(* A call of main times out; main goes on with the next. *)
MainTimesOut ==
  /\ mainStep = "wait"
  /\ sent' = Abandoned("main")
  /\ answer' = [answer EXCEPT !["main"] = ""]
  /\ lost' = TRUE
  /\ NextCall
  /\ UNCHANGED <<truth, xcastVars, notifs, m_dialApps, step, current, changes,
                 requests, casting, lastWriter>>

(* What can become of a string that holds now when main completes writing  *)
(* new to it: if it is not Torn, the event loop has written it meanwhile.  *)
Written(now, new) == IF now = Torn THEN {new} ELSE {now, new, Torn}

cacheFrame == <<truth, xcastVars, notifs, sent, answer, step, current, changes,
                requests, casting, lost>>

(* m_dialApps[a].pluginState = state, begun and completed. *)
StorePlugin ==
  /\ mainStep = "plugin"
  /\ m_dialApps' = [m_dialApps EXCEPT ![Head(todo).arg].plugin = Torn]
  /\ mainStep' = "plugin2"
  /\ UNCHANGED <<cacheFrame, todo, lastWriter>>

Converts == ConvertPluginStateToDIALState(answer["main"]) # "none"

PluginStored ==
  /\ mainStep = "plugin2"
  /\ \E s \in Written(m_dialApps[Head(todo).arg].plugin, answer["main"]) :
       m_dialApps' = [m_dialApps EXCEPT ![Head(todo).arg].plugin = s]
  /\ \/ Converts /\ mainStep' = "dial" /\ UNCHANGED todo
     \/ ~Converts /\ NextCall
  /\ lastWriter' = [lastWriter EXCEPT ![Head(todo).arg] = "main"]
  /\ UNCHANGED cacheFrame

(* convertPluginStateToDIALState(state, m_dialApps[a].dialState). *)
StoreDial ==
  /\ mainStep = "dial"
  /\ m_dialApps' = [m_dialApps EXCEPT ![Head(todo).arg].dial = Torn]
  /\ mainStep' = "dial2"
  /\ UNCHANGED <<cacheFrame, todo, lastWriter>>

(* Fault: the plugin state is copied to the DIAL state as it is. *)
DialStored_Unconverted ==
  /\ mainStep = "dial2"
  /\ m_dialApps' = [m_dialApps EXCEPT ![Head(todo).arg].dial = answer["main"]]
  /\ NextCall
  /\ lastWriter' = [lastWriter EXCEPT ![Head(todo).arg] = "main"]
  /\ UNCHANGED cacheFrame

DialStored ==
  /\ mainStep = "dial2"
  /\ \E s \in Written(m_dialApps[Head(todo).arg].dial,
                      ConvertPluginStateToDIALState(answer["main"])) :
       m_dialApps' = [m_dialApps EXCEPT ![Head(todo).arg].dial = s]
  /\ NextCall
  /\ lastWriter' = [lastWriter EXCEPT ![Head(todo).arg] = "main"]
  /\ UNCHANGED cacheFrame

Main ==
  \/ BeginCall
  \/ MainCallReturns \/ GetEnabledReturns \/ FetchReturns \/ MainTimesOut
  \/ StorePlugin \/ PluginStored \/ StoreDial \/ DialStored

-----------------------------------------------------------------------------
(* Thunder and XCast execute a call that only main makes, or refuse to.    *)
ServeMain ==
  /\ sent # <<>>
  /\ sent' = Tail(sent)
  /\ LET r == Head(sent)
     IN \/ /\ r.op = "subscribe"
           /\ subscribed' = subscribed \cup ({r.app} \cap Events)
           /\ Answered(r.caller, "success")
           /\ UNCHANGED <<registered, casting>>
        \/ /\ r.op = "register"
           /\ registered' = RegisteredNames
           /\ Answered(r.caller, "success")
           /\ UNCHANGED <<subscribed, casting>>
        \/ /\ r.op = "getEnabled"
           /\ Answered(r.caller, casting)
           /\ UNCHANGED <<xcastVars, casting>>
        \/ /\ r.op = "enable"
           /\ casting' = "on"
           /\ Answered(r.caller, "success")
           /\ UNCHANGED xcastVars
        \/ /\ r.op \in {"setStandby", "setName", "getName"}
           /\ Answered(r.caller, "success")
           /\ UNCHANGED <<xcastVars, casting>>
  /\ UNCHANGED <<truth, notifs, m_dialApps, step, current, changes, requests,
                 mainVars, refusals, lastWriter>>

RefuseMain ==
  /\ sent # <<>>
  /\ sent' = Tail(sent)
  /\ Head(sent).op \notin Operations
  /\ refusals < MaxRefusals[firstRun]
  /\ refusals' = refusals + 1
  /\ Answered(Head(sent).caller, "error")
  /\ UNCHANGED <<truth, xcastVars, notifs, m_dialApps, step, current, changes, requests,
                 mainVars, casting, lastWriter>>

ExecuteStartup == ServeMain \/ RefuseMain

LoopStep ==
  \/ /\ OnRDKShellEvent \/ OnControllerStateChangeEvent
     /\ lastWriter' = [lastWriter EXCEPT ![Head(notifs).app] = "event"]
  \/ /\ StatusReturns
     /\ lastWriter' = [lastWriter EXCEPT ![current.app] = "fetch"]
  \/ /\ OnDialEvent \/ LaunchReturns \/ LastCallReturns \/ CallTimesOut
     /\ UNCHANGED lastWriter

(* A change of state is notified to the program, or it goes unheard. *)
RecordUnheard ==
  unheard' = {a \in Apps : IF truth'[a] = truth[a] THEN a \in unheard ELSE notifs' = notifs}

StartupNext ==
  /\ \/ Main /\ UNCHANGED refusals
     \/ ExecuteStartup
     \/ LoopStep /\ UNCHANGED <<mainVars, casting, refusals>>
     \/ /\ (\E a \in Apps : Change(a)) \/ Request \/ Execute
        /\ UNCHANGED <<mainVars, casting, refusals, lastWriter>>
  /\ UNCHANGED firstRun
  /\ RecordUnheard

(* Main goes on as its calls return.  Nothing is asked of Thunder, nor of  *)
(* the event loop.                                                         *)
StartupSpec ==
  /\ StartupInit /\ [][StartupNext]_startupVars
  /\ WF_startupVars(Main /\ UNCHANGED <<firstRun, refusals, unheard>>)

-----------------------------------------------------------------------------
(* Whatever Thunder refuses or does not answer, main gets to               *)
(* waitForTermSignal.                                                      *)
StartupCompletes == <>[]MainDone

(* Once main has made its calls with success, XCast casts and forwards     *)
(* requests for the enabled applications, and every notification the event *)
(* loop relies on is subscribed to.                                        *)
Serving ==
  MainDone /\ ~lost =>
    casting = "on" /\ registered = RegisteredNames /\ subscribed = Events

(* In a first run, the event loop makes its calls and reads the cache for  *)
(* a DIAL request only after main has built its last request of start-up   *)
(* and has left the cache: nothing else keeps the two threads from sharing *)
(* the message id counter and the strings of the cache, neither of which   *)
(* is protected.  (The handler of SIGTERM builds requests on main later.)  *)
LoopServesAfterMain ==
  [][firstRun /\ Len(notifs') < Len(notifs) /\ Head(notifs).type = "dial"
       => MainDone \/ (Head(todo).op = "register" /\ mainStep = "wait")]_startupVars

(* A notification repairs the cache for good: when the event loop wrote an *)
(* entry last, on a notification, nothing main did before or meanwhile,    *)
(* nor a change since then, makes it wrong, except for as long as another  *)
(* notification is on its way.  A change of state to which no event was    *)
(* subscribed yet is past repair, until the next.                          *)
EventWins ==
  \A a \in Apps \ unheard :
    lastWriter[a] = "event" /\ ~(mainStep \in Writing /\ Head(todo).arg = a)
      => Current(a) \/ Notified(a)

(* After a start-up in which every call succeeded, the cache tracks the    *)
(* states of the applications, as README.md promises ("Tracks application  *)
(* lifecycle events"); strings left Torn by the two threads aside.         *)
FreshAfterStartup ==
  MainDone /\ ~lost =>
    \A a \in Apps :
      Cached(a) /\ m_dialApps[a].dial # Torn => Current(a) \/ Notified(a)
=============================================================================
