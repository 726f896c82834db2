---------------------------- MODULE StartupProofs ----------------------------
(***************************************************************************)
(* Theorems about Startup, for any applications, plugin states and         *)
(* notifications of RDKShell, and whatever Thunder refuses.                *)
(***************************************************************************)
EXTENDS Startup, SmartMonitorProofs

(* StartupTypeOK in parts, and the types it says nothing of. *)
Spelled == {StatusState(s) : s \in States}
MainOps == Indifferent \cup {"getEnabled", "status"}
MainArgs == Names \cup Range(Subscriptions) \cup {""}
MainCalls == [op : MainOps, arg : MainArgs]
AllRequests ==
  [op : Operations \cup MainOps, app : MainArgs \cup {"YouTube"},
   caller : {"loop", "main", "nobody"}]
SharedEntries == [plugin : CachedStates \cup {Torn}, dial : DialStates \cup {"unknown", Torn}]

XcastTypes == subscribed \subseteq Events /\ registered \subseteq Names
CallTypes ==
  /\ sent \in Seq(AllRequests)
  /\ \A i \in DOMAIN sent : sent[i].caller = "loop" => sent[i].op \in Operations
AnswersTypes ==
  /\ DOMAIN answer = {"loop", "main"}
  /\ answer["loop"] \in Answers
  /\ answer["main"] \in Answers \cup {"on", "off"}
SharedTypes == m_dialApps \in [Apps -> SharedEntries]
ScriptTypes ==
  /\ todo \in Seq(MainCalls)
  /\ mainStep \in {"begin", "wait"} \cup Writing
  /\ mainStep # "begin" => todo # <<>>
  /\ mainStep \in Writing => Head(todo).op = "status"
FlagTypes == firstRun \in BOOLEAN /\ lost \in BOOLEAN
CounterTypes == refusals \in 0 .. MaxRefusals[firstRun]
CastingTypes == casting \in {"on", "off"}
WriterTypes == lastWriter \in [Apps -> {"none", "main", "event", "fetch"}]
HeardTypes == unheard \subseteq Apps

StartupTypes ==
  /\ TruthTypes /\ NotifTypes /\ StepTypes
  /\ XcastTypes /\ CallTypes /\ AnswersTypes /\ SharedTypes /\ ScriptTypes
  /\ FlagTypes /\ CounterTypes /\ CastingTypes /\ WriterTypes /\ HeardTypes

(* A request of main that was not executed yet is its current call, which  *)
(* it waits for.                                                           *)
Subject(c) == IF c.op = "status" THEN AskedFor(c.arg) ELSE c.arg
MainRequest(i) ==
  /\ mainStep = "wait"
  /\ sent[i].op = Head(todo).op
  /\ sent[i].app = Subject(Head(todo))
  /\ answer["main"] = ""
  /\ \A j \in DOMAIN sent : sent[j].caller = "main" => j = i
MainSentInv == \A i \in DOMAIN sent : sent[i].caller = "main" => MainRequest(i)

(* What main stores is a state that Thunder answered, and one that it      *)
(* converts before it stores the conversion.                               *)
FetchInv ==
  /\ mainStep \in Writing => answer["main"] \in Spelled
  /\ mainStep \in {"dial", "dial2"} => Converts
  /\ mainStep = "wait" /\ Head(todo).op = "status" /\ answer["main"] \notin {"", "error"}
       => answer["main"] \in Spelled

(* What main has a call for was done, or the call is still to be made; and *)
(* a call that was answered was done.                                      *)
Pending(op, arg) == \E i \in DOMAIN todo : todo[i] = MainCall(op, arg)

HasAnswer(op) == mainStep = "wait" /\ Head(todo).op = op /\ answer["main"] \notin {"", "error"}

DoneInv ==
  /\ HasAnswer("subscribe") /\ Head(todo).arg \in Events => Head(todo).arg \in subscribed
  /\ HasAnswer("register") => registered = RegisteredNames
  /\ HasAnswer("enable") => casting = "on"
  /\ HasAnswer("getEnabled") =>
       answer["main"] \in {"on", "off"} /\ (answer["main"] = "on" => casting = "on")

ProgressInv ==
  ~lost =>
    /\ \A e \in Events : e \in subscribed \/ Pending("subscribe", e)
    /\ casting = "on" \/ Pending("getEnabled", "") \/ Pending("enable", "")
    /\ registered = RegisteredNames \/ Pending("register", "")

ServeInv == DoneInv /\ ProgressInv

(* Main registers last; until then nothing is registered in a first run,   *)
(* and no DIAL request is forwarded.                                       *)
AtRegister == MainDone \/ (Head(todo).op = "register" /\ mainStep = "wait")
RegisterLast == \A i \in DOMAIN todo : todo[i].op = "register" => i = Len(todo)
NoDial == \A i \in DOMAIN notifs : notifs[i].type # "dial"
RegisterInv ==
  /\ RegisterLast
  /\ \A i \in DOMAIN sent : sent[i].op = "register" => AtRegister
  /\ firstRun /\ ~AtRegister => registered = {} /\ NoDial

StartupBase ==
  /\ StartupTypes
  /\ MainSentInv
  /\ FetchInv

(* Where the last change of state was notified, the last notification      *)
(* tells it.                                                               *)
HeardInv == \A a \in Apps \ unheard : Tells(a)
EventInv == HeardInv /\ EventWins

-----------------------------------------------------------------------------
(* Who changes what.                                                       *)

EnvironmentStep == (\E a \in Apps : Change(a)) \/ Request

LEMMA Frames ==
  ASSUME [StartupNext]_startupVars
  PROVE  /\ UNCHANGED firstRun
         /\ UNCHANGED startupVars \/ RecordUnheard
         /\ \/ UNCHANGED refusals
            \/ refusals' = refusals + 1 /\ refusals < MaxRefusals[firstRun]
         /\ \/ Main /\ UNCHANGED <<truth, xcastVars, notifs, step, current, casting>>
            \/ ExecuteStartup /\ UNCHANGED <<truth, notifs, m_dialApps, step, current,
                                             mainVars, lastWriter>>
            \/ LoopStep /\ UNCHANGED <<truth, xcastVars, mainVars, casting>>
            \/ EnvironmentStep /\ UNCHANGED <<xcastVars, sent, answer, m_dialApps, step,
                                              current, mainVars, casting, lastWriter>>
            \/ Execute /\ UNCHANGED <<xcastVars, m_dialApps, step, current, mainVars,
                                      casting, lastWriter>>
            \/ UNCHANGED startupVars
<1>1. Main => UNCHANGED <<truth, xcastVars, notifs, step, current, casting>>
  BY DEF Main, BeginCall, MainCallReturns, GetEnabledReturns, FetchReturns, MainTimesOut,
         StorePlugin, PluginStored, StoreDial, DialStored, cacheFrame, vars, xcastVars
<1>2. ExecuteStartup => UNCHANGED <<truth, notifs, m_dialApps, step, current, mainVars, lastWriter>>
  BY DEF ExecuteStartup, ServeMain, RefuseMain
<1>3. LoopStep => UNCHANGED <<truth, xcastVars>>
  BY DEF LoopStep, OnRDKShellEvent, OnControllerStateChangeEvent, StatusReturns,
         OnDialEvent, LaunchReturns, LastCallReturns, CallTimesOut
<1>4. EnvironmentStep => UNCHANGED <<xcastVars, sent, answer, m_dialApps, step, current>>
  BY DEF EnvironmentStep, Change, Request
<1>5. Execute => UNCHANGED <<xcastVars, m_dialApps, step, current>>
  BY DEF Execute
<1>6. ExecuteStartup => \/ UNCHANGED refusals
                        \/ refusals' = refusals + 1 /\ refusals < MaxRefusals[firstRun]
  <2>1. ServeMain => UNCHANGED refusals
    BY DEF ServeMain
  <2>2. RefuseMain => refusals' = refusals + 1 /\ refusals < MaxRefusals[firstRun]
    BY DEF RefuseMain
  <2>. QED
    BY <2>1, <2>2 DEF ExecuteStartup
<1>7. CASE UNCHANGED startupVars
  BY <1>7 DEF startupVars
<1>8. CASE StartupNext
  BY <1>1, <1>2, <1>3, <1>4, <1>5, <1>6, <1>8 DEF StartupNext, EnvironmentStep
<1>. QED
  BY <1>7, <1>8

(* Of the variables of SmartMonitor main changes only these. *)
LEMMA MainSends ==
  ASSUME Main
  PROVE  BeginCall \/ MainTimesOut \/ UNCHANGED <<sent, answer>>
BY DEF Main, MainCallReturns, GetEnabledReturns, FetchReturns,
       StorePlugin, PluginStored, StoreDial, DialStored, cacheFrame, vars

LEMMA LoopSteps ==
  ASSUME LoopStep
  PROVE  Loop
BY DEF LoopStep, Loop

(* What becomes of the answers when a request is executed or refused.      *)
LEMMA Executed ==
  ASSUME CallTypes, Execute \/ ExecuteStartup
  PROVE  /\ sent # <<>> /\ sent' = Tail(sent) /\ Head(sent) \in AllRequests
         /\ \/ Head(sent).caller = "nobody" /\ UNCHANGED answer
            \/ /\ Head(sent).caller \in {"loop", "main"}
               /\ \E x : /\ answer' = [answer EXCEPT ![Head(sent).caller] = x]
                         /\ \/ x = "error"
                            \/ x = "success" /\ Head(sent).op \notin {"status", "getEnabled"}
                            \/ Head(sent).op = "status" /\ Head(sent).app \in Apps
                                 /\ x = StatusState(truth[Head(sent).app])
                            \/ Head(sent).op = "getEnabled" /\ x = casting
<1> DEFINE r == Head(sent)
<1>1. sent # <<>> /\ sent' = Tail(sent)
  BY DEF Execute, ExecuteStartup, ServeMain, RefuseMain
<1>2. r \in AllRequests
  BY <1>1, HeadTailProperties DEF CallTypes
<1>3. r.caller \in {"loop", "main", "nobody"}
  BY <1>2 DEF AllRequests
<1>4. ASSUME NEW x, Answered(r.caller, x)
      PROVE  \/ r.caller = "nobody" /\ UNCHANGED answer
             \/ r.caller \in {"loop", "main"} /\ answer' = [answer EXCEPT ![r.caller] = x]
  BY <1>3, <1>4 DEF Answered
<1>5. \E x : /\ Answered(r.caller, x)
             /\ \/ x = "error"
                \/ x = "success" /\ r.op \notin {"status", "getEnabled"}
                \/ r.op = "status" /\ r.app \in Apps /\ x = StatusState(truth[r.app])
                \/ r.op = "getEnabled" /\ x = casting
  <2>1. CASE Execute
    <3>1. CASE r.op \in Commands /\ Answered(r.caller, "success")
      <4>1. r.op \notin {"status", "getEnabled"}
        BY <3>1 DEF Commands
      <4>. QED
        BY <3>1, <4>1, Zenon
    <3>2. CASE r.op \in {"deeplink", "report"} /\ Answered(r.caller, "success")
      <4>1. r.op \notin {"status", "getEnabled"}
        BY <3>2
      <4>. QED
        BY <3>2, <4>1, Zenon
    <3>. QED
      BY <2>1, <3>1, <3>2, Zenon DEF Execute
  <2>2. CASE ExecuteStartup
    <3>1. CASE r.op \in {"subscribe", "register", "enable", "setStandby", "setName", "getName"}
               /\ Answered(r.caller, "success")
      <4>1. r.op \notin {"status", "getEnabled"}
        BY <3>1
      <4>. QED
        BY <3>1, <4>1, Zenon
    <3>2. CASE r.op = "getEnabled" /\ Answered(r.caller, casting)
      BY <3>2, Zenon
    <3>3. CASE Answered(r.caller, "error")
      BY <3>3, Zenon
    <3>. QED
      BY <2>2, <3>1, <3>2, <3>3, Zenon DEF ExecuteStartup, ServeMain, RefuseMain
  <2>. QED
    BY <2>1, <2>2
<1> HIDE DEF r
<1>6. PICK x : /\ Answered(r.caller, x)
               /\ \/ x = "error"
                  \/ x = "success" /\ r.op \notin {"status", "getEnabled"}
                  \/ r.op = "status" /\ r.app \in Apps /\ x = StatusState(truth[r.app])
                  \/ r.op = "getEnabled" /\ x = casting
  BY <1>5
<1>7. \/ r.caller = "nobody" /\ UNCHANGED answer
      \/ r.caller \in {"loop", "main"} /\ answer' = [answer EXCEPT ![r.caller] = x]
  BY <1>4, <1>6
<1>. QED
  BY <1>1, <1>2, <1>6, <1>7, Zenon DEF r

-----------------------------------------------------------------------------
(* The script of main.                                                     *)

LEMMA MainCallTypes ==
  ASSUME NEW op \in MainOps, NEW arg \in MainArgs
  PROVE  MainCall(op, arg) \in MainCalls
BY DEF MainCall, MainCalls

LEMMA MainCallParts ==
  ASSUME NEW c, NEW op, NEW arg, c = MainCall(op, arg)
  PROVE  c.op = op /\ c.arg = arg
BY DEF MainCall

LEMMA Literals ==
  ASSUME NEW S, NEW a \in S, NEW b \in S, NEW c \in S
  PROVE  /\ <<a, b>> \in Seq(S)
         /\ <<a, b, c>> \in Seq(S)
OBVIOUS

LEMMA EnablingTypes ==
  /\ Enabling \in Seq(MainCalls) /\ Len(Enabling) = 2
  /\ Enabling[1] = MainCall("setName", "") /\ Enabling[2] = MainCall("enable", "")
<1>1. "setName" \in MainOps /\ "enable" \in MainOps /\ "" \in MainArgs
  BY DEF MainOps, Indifferent, MainArgs
<1>2. MainCall("setName", "") \in MainCalls /\ MainCall("enable", "") \in MainCalls
  BY <1>1, MainCallTypes
<1>3. Enabling \in Seq(MainCalls)
  BY <1>2, Literals, Zenon DEF Enabling
<1>4. /\ Len(Enabling) = 2
      /\ Enabling[1] = MainCall("setName", "") /\ Enabling[2] = MainCall("enable", "")
  BY DEF Enabling
<1>. QED
  BY <1>3, <1>4

(* Main subscribes to all that is notified. *)
LEMMA EventsSubscribed ==
  /\ DOMAIN Subscriptions = 1 .. 15
  /\ Events \subseteq Range(Subscriptions)
<1>1. DOMAIN Subscriptions = 1 .. 15
  BY DEF Subscriptions
<1>2. /\ Subscriptions[1] = "hide" /\ Subscriptions[2] = "launch"
      /\ Subscriptions[3] = "resume" /\ Subscriptions[4] = "state"
      /\ Subscriptions[5] = "stop" /\ Subscriptions[6] = "onApplicationActivated"
      /\ Subscriptions[7] = "onApplicationLaunched"
      /\ Subscriptions[8] = "onApplicationResumed"
      /\ Subscriptions[9] = "onApplicationSuspended"
      /\ Subscriptions[10] = "onApplicationTerminated"
      /\ Subscriptions[11] = "onDestroyed" /\ Subscriptions[12] = "onLaunched"
      /\ Subscriptions[13] = "onSuspended" /\ Subscriptions[14] = "onPluginSuspended"
      /\ Subscriptions[15] = "statechange"
  BY DEF Subscriptions
<1>3. \A i \in 1 .. 15 : Subscriptions[i] \in Range(Subscriptions)
  BY <1>1 DEF Range
<1>4. /\ 1 \in 1 .. 15 /\ 2 \in 1 .. 15 /\ 3 \in 1 .. 15 /\ 4 \in 1 .. 15 /\ 5 \in 1 .. 15
      /\ 6 \in 1 .. 15 /\ 7 \in 1 .. 15 /\ 8 \in 1 .. 15 /\ 9 \in 1 .. 15 /\ 10 \in 1 .. 15
      /\ 11 \in 1 .. 15 /\ 12 \in 1 .. 15 /\ 13 \in 1 .. 15 /\ 14 \in 1 .. 15
      /\ 15 \in 1 .. 15
  OBVIOUS
<1>5. DialRequests \cup ShellEvents \cup {"statechange"} \subseteq Range(Subscriptions)
  <2>1. /\ "hide" \in Range(Subscriptions) /\ "launch" \in Range(Subscriptions)
        /\ "resume" \in Range(Subscriptions) /\ "state" \in Range(Subscriptions)
        /\ "stop" \in Range(Subscriptions)
        /\ "onApplicationActivated" \in Range(Subscriptions)
        /\ "onApplicationLaunched" \in Range(Subscriptions)
        /\ "onApplicationResumed" \in Range(Subscriptions)
        /\ "onApplicationSuspended" \in Range(Subscriptions)
        /\ "onApplicationTerminated" \in Range(Subscriptions)
        /\ "onDestroyed" \in Range(Subscriptions) /\ "onLaunched" \in Range(Subscriptions)
        /\ "onSuspended" \in Range(Subscriptions)
        /\ "onPluginSuspended" \in Range(Subscriptions)
        /\ "statechange" \in Range(Subscriptions)
    BY <1>2, <1>3, <1>4
  <2>. QED
    BY <2>1 DEF DialRequests, ShellEvents
<1>6. ShellNames \subseteq ShellEvents
  BY SmartMonitorAssumption
<1>. QED
  BY <1>1, <1>5, <1>6 DEF Events

(* The calls before and after those for the states. *)
Settings == <<MainCall("setStandby", ""), MainCall("getEnabled", ""), MainCall("getName", "")>>
Before == Subscribing \o Settings

LEMMA SettingsParts ==
  /\ Settings \in Seq(MainCalls) /\ Len(Settings) = 3
  /\ Settings[1].op = "setStandby" /\ Settings[3].op = "getName"
  /\ Settings[2] = MainCall("getEnabled", "") /\ Settings[2].op = "getEnabled"
<1>1. /\ MainCall("setStandby", "") \in MainCalls
      /\ MainCall("getEnabled", "") \in MainCalls
      /\ MainCall("getName", "") \in MainCalls
  <2>1. {"setStandby", "getEnabled", "getName"} \subseteq MainOps /\ "" \in MainArgs
    BY DEF MainOps, Indifferent, MainArgs
  <2>. QED
    BY <2>1, MainCallTypes
<1>2. Settings \in Seq(MainCalls)
  BY <1>1, Literals, Zenon DEF Settings
<1>3. /\ Len(Settings) = 3
      /\ Settings[1] = MainCall("setStandby", "")
      /\ Settings[2] = MainCall("getEnabled", "")
      /\ Settings[3] = MainCall("getName", "")
  BY DEF Settings
<1>4. /\ MainCall("setStandby", "").op = "setStandby"
      /\ MainCall("getEnabled", "").op = "getEnabled"
      /\ MainCall("getName", "").op = "getName"
  BY DEF MainCall
<1>. QED
  BY <1>2, <1>3, <1>4, Zenon

LEMMA BeforeParts ==
  /\ Before \in Seq(MainCalls) /\ Len(Before) = 18
  /\ \A i \in 1 .. 15 : Before[i] = MainCall("subscribe", Subscriptions[i])
  /\ Before[17] = MainCall("getEnabled", "")
  /\ \A i \in DOMAIN Before : Before[i].op # "register"
<1>1. \A i \in 1 .. 15 : MainCall("subscribe", Subscriptions[i]) \in MainCalls
  <2>1. "subscribe" \in MainOps
    BY DEF MainOps, Indifferent
  <2>2. \A i \in 1 .. 15 : Subscriptions[i] \in MainArgs
    BY EventsSubscribed DEF MainArgs, Range
  <2>. QED
    BY <2>1, <2>2, MainCallTypes
<1>2. /\ DOMAIN Subscribing = 1 .. 15
      /\ \A i \in 1 .. 15 : Subscribing[i] = MainCall("subscribe", Subscriptions[i])
  BY EventsSubscribed DEF Subscribing
<1>3. Subscribing \in Seq(MainCalls)
  BY <1>1, EventsSubscribed DEF Subscribing
<1>4. Subscribing \in Seq(MainCalls) /\ Len(Subscribing) = 15
  <2>1. DOMAIN Subscribing = 1 .. Len(Subscribing) /\ Len(Subscribing) \in Nat
    BY <1>3, LenProperties
  <2>. QED
    BY <1>2, <1>3, <2>1
<1>5. /\ Len(Before) = Len(Subscribing) + Len(Settings) /\ Before \in Seq(MainCalls)
      /\ \A i \in 1 .. Len(Subscribing) + Len(Settings) :
           Before[i] = IF i <= Len(Subscribing) THEN Subscribing[i]
                                               ELSE Settings[i - Len(Subscribing)]
  BY <1>4, SettingsParts, ConcatProperties DEF Before
<1>6. /\ Len(Before) = 18 /\ Before \in Seq(MainCalls)
      /\ \A i \in 1 .. 18 : Before[i] = IF i <= 15 THEN Subscribing[i] ELSE Settings[i - 15]
  <2>1. Len(Subscribing) = 15 /\ Len(Settings) = 3
    BY <1>4, SettingsParts
  <2>. QED
    BY ONLY <1>5, <2>1
<1>7. /\ \A i \in 1 .. 15 : Before[i] = Subscribing[i]
      /\ Before[16] = Settings[1] /\ Before[17] = Settings[2] /\ Before[18] = Settings[3]
      /\ \A i \in DOMAIN Before : i \in 1 .. 15 \/ i = 16 \/ i = 17 \/ i = 18
  BY ONLY <1>6
<1>8. \A i \in 1 .. 15 : Subscribing[i].op = "subscribe"
  BY <1>2, MainCallParts
<1>9. \A i \in DOMAIN Before : Before[i].op # "register"
  <2>1. /\ Before[16].op = "setStandby" /\ Before[17].op = "getEnabled"
        /\ Before[18].op = "getName"
    BY <1>7, SettingsParts, Zenon
  <2>2. \A i \in 1 .. 15 : Before[i].op = "subscribe"
    BY <1>7, <1>8, Zenon
  <2>. QED
    BY <1>7, <2>1, <2>2
<1>. QED
  BY <1>2, <1>6, <1>7, <1>9, SettingsParts, Zenon

LEMMA ScriptParts ==
  /\ Fetches \in Seq(MainCalls)
  /\ \A i \in DOMAIN Fetches : Fetches[i].op = "status"
  /\ <<MainCall("register", "")>> \in Seq(MainCalls)
  /\ Script = (Before \o Fetches) \o <<MainCall("register", "")>>
<1>1. "register" \in MainOps /\ "status" \in MainOps /\ "" \in MainArgs
  BY DEF MainOps, Indifferent, MainArgs
<1>2. <<MainCall("register", "")>> \in Seq(MainCalls)
  <2> DEFINE c == MainCall("register", "")
  <2>1. c \in MainCalls
    BY <1>1, MainCallTypes
  <2> HIDE DEF c
  <2>2. <<c>> \in Seq(MainCalls)
    BY <2>1
  <2>. QED
    BY <2>2 DEF c
<1>3. EnabledApps \in Seq(Apps)
  BY StartupAssumption
<1>4. \A i \in DOMAIN EnabledApps : EnabledApps[i] \in MainArgs
  <2>1. \A i \in DOMAIN EnabledApps : EnabledApps[i] \in Apps
    BY <1>3
  <2>. QED
    BY <2>1 DEF MainArgs, Names
<1>5. \A i \in DOMAIN EnabledApps : MainCall("status", EnabledApps[i]) \in MainCalls
  BY <1>1, <1>4, MainCallTypes
<1>6. DOMAIN EnabledApps = 1 .. Len(EnabledApps) /\ Len(EnabledApps) \in Nat
  BY <1>3
<1>7. Fetches \in Seq(MainCalls)
  BY <1>5, <1>6 DEF Fetches
<1>8. \A i \in DOMAIN Fetches : Fetches[i].op = "status"
  BY DEF Fetches, MainCall
<1>9. Script = (Before \o Fetches) \o <<MainCall("register", "")>>
  BY Zenon DEF Script, Before, Settings
<1>. QED
  BY <1>2, <1>7, <1>8, <1>9

LEMMA ScriptIsMainCalls == Script \in Seq(MainCalls)
BY ScriptParts, BeforeParts, ConcatProperties

(* What main does to its script: it keeps it, drops the first call, or     *)
(* puts the two that enable casting in the place of that.                  *)
LEMMA ScriptChanges ==
  ASSUME ScriptTypes, Main
  PROVE  /\ \/ UNCHANGED todo
            \/ todo # <<>> /\ todo' = Tail(todo) /\ mainStep' = "begin"
            \/ todo # <<>> /\ todo' = Enabling \o Tail(todo) /\ mainStep' = "begin"
         /\ todo' \in Seq(MainCalls)
<1>1. \/ UNCHANGED todo
      \/ todo # <<>> /\ todo' = Tail(todo) /\ mainStep' = "begin"
      \/ todo # <<>> /\ todo' = Enabling \o Tail(todo) /\ mainStep' = "begin"
  BY DEF ScriptTypes, Main, BeginCall, MainCallReturns, GetEnabledReturns, FetchReturns,
         MainTimesOut, StorePlugin, PluginStored, StoreDial, DialStored, NextCall,
         MainWaits, Writing
<1>2. todo # <<>> => Tail(todo) \in Seq(MainCalls)
  BY DEF ScriptTypes
<1>3. todo # <<>> => Enabling \o Tail(todo) \in Seq(MainCalls)
  BY <1>2, EnablingTypes, ConcatProperties
<1>. QED
  BY <1>1, <1>2, <1>3 DEF ScriptTypes

LEMMA ScriptTypesStep ==
  ASSUME StartupBase, [StartupNext]_startupVars
  PROVE  ScriptTypes'
<1> USE DEF StartupBase, StartupTypes
<1>1. CASE UNCHANGED mainVars
  BY <1>1 DEF ScriptTypes, mainVars
<1>2. CASE Main
  <2>1. todo' \in Seq(MainCalls)
    BY <1>2, ScriptChanges
  <2>2. /\ mainStep' \in {"begin", "wait"} \cup Writing
        /\ mainStep' # "begin" => UNCHANGED todo /\ todo # <<>>
        /\ mainStep' \in Writing => Head(todo).op = "status"
    BY <1>2
       DEF Main, BeginCall, MainCallReturns, GetEnabledReturns, FetchReturns,
           MainTimesOut, StorePlugin, PluginStored, StoreDial, DialStored, NextCall,
           MainWaits, Writing, ScriptTypes
  <2>. QED
    BY <2>1, <2>2 DEF ScriptTypes, Writing
<1>. QED
  BY <1>1, <1>2, Frames DEF startupVars

-----------------------------------------------------------------------------
(* The requests.                                                           *)

LEMMA AbandonedAll ==
  ASSUME CallTypes, NEW c \in {"loop", "main"}
  PROVE  /\ Abandoned(c) \in Seq(AllRequests)
         /\ DOMAIN Abandoned(c) = DOMAIN sent
         /\ \A i \in DOMAIN sent :
              /\ Abandoned(c)[i].op = sent[i].op
              /\ Abandoned(c)[i].app = sent[i].app
              /\ Abandoned(c)[i].caller = IF sent[i].caller = c THEN "nobody" ELSE sent[i].caller
<1> DEFINE Result(i) == IF sent[i].caller = c
                        THEN [sent[i] EXCEPT !.caller = "nobody"] ELSE sent[i]
<1>1. \A i \in DOMAIN sent : sent[i] \in AllRequests
  BY DEF CallTypes
<1>2. \A i \in DOMAIN sent :
        /\ Result(i) \in AllRequests
        /\ Result(i).op = sent[i].op
        /\ Result(i).app = sent[i].app
        /\ Result(i).caller = IF sent[i].caller = c THEN "nobody" ELSE sent[i].caller
  BY <1>1 DEF AllRequests
<1>3. Abandoned(c) = [i \in DOMAIN sent |-> Result(i)]
  BY DEF Abandoned
<1>4. DOMAIN sent = 1 .. Len(sent) /\ Len(sent) \in Nat
  BY DEF CallTypes
<1> HIDE DEF Result
<1>5. Abandoned(c) \in Seq(AllRequests)
  BY <1>2, <1>3, <1>4
<1>. QED
  BY <1>2, <1>3, <1>5

(* How the queue of requests can change. *)
NewRequest(caller) ==
  \E e \in AllRequests :
    /\ e.caller = caller
    /\ sent' = Append(sent, e)
    /\ caller = "loop" => e.op \in Operations
    /\ caller = "main" => /\ mainStep = "begin" /\ mainStep' = "wait"
                          /\ todo # <<>> /\ UNCHANGED todo
                          /\ e.op = Head(todo).op
                          /\ e.app = Subject(Head(todo))

LEMMA BeginCallSends ==
  ASSUME StartupBase, BeginCall
  PROVE  NewRequest("main") /\ answer' = [answer EXCEPT !["main"] = ""]
<1> DEFINE c == Head(todo)
           e == [op |-> c.op, app |-> Subject(c), caller |-> "main"]
<1>1. c \in MainCalls
  BY HeadTailProperties DEF StartupBase, StartupTypes, ScriptTypes, BeginCall
<1>2. c.op \in MainOps /\ Subject(c) \in MainArgs \cup {"YouTube"}
  BY <1>1 DEF MainCalls, Subject, AskedFor
<1>3. e \in AllRequests /\ e.caller = "main" /\ e.op = c.op /\ e.app = Subject(c)
  BY <1>2 DEF AllRequests
<1>4. sent' = Append(sent, e) /\ answer' = [answer EXCEPT !["main"] = ""]
  BY Zenon DEF BeginCall, Begin, Subject
<1>5. mainStep = "begin" /\ mainStep' = "wait" /\ todo # <<>> /\ UNCHANGED todo
  BY DEF BeginCall
<1> HIDE DEF e, c
<1>. QED
  BY <1>3, <1>4, <1>5 DEF NewRequest, c

LEMMA LoopSends ==
  ASSUME StartupBase, LoopStep
  PROVE  /\ \/ UNCHANGED sent \/ NewRequest("loop") \/ sent' = Abandoned("loop")
         /\ StepTypes'
         /\ UNCHANGED answer \/ answer' = [answer EXCEPT !["loop"] = ""]
<1> USE DEF StartupBase, StartupTypes
<1>1. Loop
  BY LoopSteps
<1>2. CASE CallMade
  <2>1. PICK op \in Operations, a \in Names, r \in DialRequests :
          /\ step' = op
          /\ current' = [app |-> a, request |-> r]
          /\ sent' = Append(sent, [op |-> op, app |-> a, caller |-> "loop"])
          /\ answer' = [answer EXCEPT !["loop"] = ""]
    BY <1>2 DEF CallMade
  <2> DEFINE e == [op |-> op, app |-> a, caller |-> "loop"]
  <2>2. e \in AllRequests /\ e.caller = "loop" /\ e.op = op
    BY DEF AllRequests, MainArgs, Operations, Commands
  <2>3. sent' = Append(sent, e)
    BY <2>1
  <2> HIDE DEF e
  <2>4. NewRequest("loop")
    BY <2>2, <2>3 DEF NewRequest
  <2>5. StepTypes'
    BY <2>1 DEF StepTypes
  <2>. QED
    BY <2>1, <2>4, <2>5
<1>3. CASE CallsOver
  BY <1>1, <1>3, LoopStepCalls, <1>2 DEF CallsOver, StepTypes
<1>4. CASE UNCHANGED <<sent, step, current, answer>>
  BY <1>4 DEF StepTypes
<1>. QED
  BY <1>1, <1>2, <1>3, <1>4, LoopStepCalls

LEMMA SentChanges ==
  ASSUME StartupBase, [StartupNext]_startupVars
  PROVE  \/ UNCHANGED sent
         \/ NewRequest("main") /\ BeginCall
         \/ NewRequest("loop") /\ LoopStep
         \/ sent' = Abandoned("main") /\ MainTimesOut
         \/ sent' = Abandoned("loop") /\ LoopStep
         \/ (Execute \/ ExecuteStartup) /\ sent # <<>> /\ sent' = Tail(sent)
<1>1. CASE Main
  BY <1>1, MainSends, BeginCallSends DEF MainTimesOut
<1>2. CASE LoopStep
  BY <1>2, LoopSends
<1>3. CASE Execute \/ ExecuteStartup
  BY <1>3 DEF Execute, ExecuteStartup, ServeMain, RefuseMain
<1>. QED
  BY <1>1, <1>2, <1>3, Frames DEF startupVars, vars

LEMMA CallTypesStep ==
  ASSUME StartupBase, [StartupNext]_startupVars
  PROVE  CallTypes'
<1>1. CallTypes
  BY DEF StartupBase, StartupTypes
<1>2. CASE UNCHANGED sent
  BY <1>1, <1>2 DEF CallTypes
<1>3. ASSUME NEW e \in AllRequests, sent' = Append(sent, e), e.caller = "loop" => e.op \in Operations
      PROVE  CallTypes'
  <2>1. sent' \in Seq(AllRequests)
    BY <1>1, <1>3 DEF CallTypes
  <2>2. /\ DOMAIN sent' = DOMAIN sent \cup {Len(sent) + 1}
        /\ \A i \in DOMAIN sent : sent'[i] = sent[i]
        /\ sent'[Len(sent) + 1] = e
    <3>1. sent \in Seq(AllRequests)
      BY <1>1 DEF CallTypes
    <3>. QED
      BY ONLY <1>3, <3>1
  <2>. QED
    BY <1>1, <1>3, <2>1, <2>2 DEF CallTypes
<1>4. ASSUME NEW c \in {"loop", "main"}, sent' = Abandoned(c)
      PROVE  CallTypes'
  BY <1>1, <1>4, AbandonedAll DEF CallTypes
<1>5. CASE sent # <<>> /\ sent' = Tail(sent)
  <2>1. sent' \in Seq(AllRequests)
    BY <1>1, <1>5 DEF CallTypes
  <2>2. \A i \in DOMAIN sent' : i + 1 \in DOMAIN sent /\ sent'[i] = sent[i + 1]
    <3>1. sent \in Seq(AllRequests)
      BY <1>1 DEF CallTypes
    <3>. QED
      BY ONLY <1>5, <3>1
  <2>. QED
    BY <1>1, <2>1, <2>2 DEF CallTypes
<1>6. ASSUME NEW c \in {"loop", "main"}, NewRequest(c)
      PROVE  CallTypes'
  BY <1>3, <1>6 DEF NewRequest
<1>. QED
  BY <1>2, <1>4, <1>5, <1>6, SentChanges

(* While main does not wait, or has its answer, none of its requests is    *)
(* to be executed still.                                                   *)
NoneOfMain == \A i \in DOMAIN sent : sent[i].caller # "main"

LEMMA MainHasNone ==
  ASSUME MainSentInv, mainStep # "wait" \/ answer["main"] # ""
  PROVE  NoneOfMain
BY DEF MainSentInv, MainRequest, NoneOfMain

(* All that main does but to begin a call or to give it up, it does when   *)
(* none of its requests is to be executed still.                           *)
LEMMA MainGoesOn ==
  ASSUME MainSentInv, Main, ~BeginCall, ~MainTimesOut
  PROVE  NoneOfMain /\ UNCHANGED <<sent, answer>>
<1>1. mainStep # "wait" \/ answer["main"] # ""
  BY DEF Main, MainCallReturns, GetEnabledReturns, FetchReturns, StorePlugin,
         PluginStored, StoreDial, DialStored
<1>. QED
  BY <1>1, MainHasNone, MainSends

LEMMA MainSentStep ==
  ASSUME StartupBase, [StartupNext]_startupVars
  PROVE  MainSentInv'
<1>1. CallTypes /\ MainSentInv /\ sent \in Seq(AllRequests)
  BY DEF StartupBase, StartupTypes, CallTypes
<1>2. CASE UNCHANGED <<sent, mainStep, todo>> /\ answer'["main"] = answer["main"]
  BY <1>1, <1>2 DEF MainSentInv, MainRequest
<1>3. CASE NoneOfMain /\ UNCHANGED sent
  BY <1>1, <1>3 DEF MainSentInv, NoneOfMain
<1>4. CASE BeginCall
  <2>1. PICK e \in AllRequests :
          /\ e.caller = "main" /\ sent' = Append(sent, e)
          /\ mainStep = "begin" /\ mainStep' = "wait" /\ UNCHANGED todo
          /\ e.op = Head(todo).op /\ e.app = Subject(Head(todo))
    BY <1>4, BeginCallSends DEF NewRequest
  <2>2. answer'["main"] = ""
    BY <1>4, BeginCallSends DEF StartupBase, StartupTypes, AnswersTypes
  <2>3. NoneOfMain
    BY <1>1, <2>1, MainHasNone
  <2>4. /\ DOMAIN sent' = DOMAIN sent \cup {Len(sent) + 1}
        /\ \A i \in DOMAIN sent : sent'[i] = sent[i]
        /\ sent'[Len(sent) + 1] = e
    BY ONLY <1>1, <2>1
  <2>5. \A i \in DOMAIN sent' : sent'[i].caller = "main" => i = Len(sent) + 1
    BY <2>3, <2>4 DEF NoneOfMain
  <2>6. ASSUME NEW i \in DOMAIN sent', sent'[i].caller = "main"
        PROVE  MainRequest(i)'
    <3>1. sent'[i] = e
      BY <2>4, <2>5, <2>6
    <3>2. Head(todo') = Head(todo)
      BY <2>1
    <3>3. \A j \in DOMAIN sent' : sent'[j].caller = "main" => j = i
      BY <2>5, <2>6
    <3>. QED
      BY <2>1, <2>2, <3>1, <3>2, <3>3 DEF MainRequest
  <2>. QED
    BY <2>6 DEF MainSentInv
<1>5. CASE sent' = Abandoned("main")
  BY <1>1, <1>5, AbandonedAll DEF MainSentInv
<1>6. CASE LoopStep /\ UNCHANGED mainVars
  <2>1. UNCHANGED <<mainStep, todo>>
    BY <1>6 DEF mainVars
  <2>2. answer'["main"] = answer["main"]
    BY <1>6, LoopSends DEF StartupBase, StartupTypes, AnswersTypes
  <2>3. CASE NewRequest("loop")
    <3>1. PICK e \in AllRequests : e.caller = "loop" /\ sent' = Append(sent, e)
      BY <2>3 DEF NewRequest
    <3>2. /\ DOMAIN sent' = DOMAIN sent \cup {Len(sent) + 1}
          /\ \A i \in DOMAIN sent : sent'[i] = sent[i]
          /\ sent'[Len(sent) + 1] = e
      BY ONLY <1>1, <3>1
    <3>3. \A i \in DOMAIN sent' : sent'[i].caller = "main" => i \in DOMAIN sent /\ sent'[i] = sent[i]
      BY <3>1, <3>2
    <3>. QED
      BY <1>1, <2>1, <2>2, <3>3 DEF MainSentInv, MainRequest
  <2>4. CASE sent' = Abandoned("loop")
    <3>1. /\ DOMAIN sent' = DOMAIN sent
          /\ \A i \in DOMAIN sent :
               /\ sent'[i].op = sent[i].op
               /\ sent'[i].app = sent[i].app
               /\ sent'[i].caller = "main" <=> sent[i].caller = "main"
      BY <1>1, <2>4, AbandonedAll
    <3>. QED
      BY <1>1, <2>1, <2>2, <3>1 DEF MainSentInv, MainRequest
  <2>. QED
    BY <1>2, <1>6, <2>1, <2>2, <2>3, <2>4, LoopSends
<1>7. CASE (Execute \/ ExecuteStartup) /\ UNCHANGED <<mainStep, todo>>
  <2>1. sent # <<>> /\ sent' = Tail(sent)
    BY <1>1, <1>7, Executed
  <2>2. /\ DOMAIN sent' = 1 .. Len(sent) - 1 /\ Len(sent) \in Nat /\ DOMAIN sent = 1 .. Len(sent)
        /\ \A i \in DOMAIN sent' : i + 1 \in DOMAIN sent /\ sent'[i] = sent[i + 1]
        /\ Head(sent) = sent[1] /\ 1 \in DOMAIN sent
    BY ONLY <1>1, <2>1
  <2>3. ASSUME NEW i \in DOMAIN sent', sent'[i].caller = "main"
        PROVE  MainRequest(i)'
    <3>1. i + 1 \in DOMAIN sent /\ sent[i + 1].caller = "main" /\ i + 1 # 1
      BY <2>2, <2>3
    <3>2. MainRequest(i + 1)
      BY <1>1, <3>1 DEF MainSentInv
    <3>3. Head(sent).caller # "main"
      BY <2>2, <3>1, <3>2 DEF MainRequest
    <3>4. answer'["main"] = answer["main"]
      BY <1>1, <1>7, <3>3, Executed DEF StartupBase, StartupTypes, AnswersTypes
    <3>5. ASSUME NEW j \in DOMAIN sent', sent'[j].caller = "main"
          PROVE  j = i
      <4>1. j + 1 \in DOMAIN sent /\ sent[j + 1].caller = "main"
        BY <2>2, <3>5
      <4>2. j + 1 = i + 1
        BY <3>2, <4>1 DEF MainRequest
      <4>. QED
        BY <2>2, <4>2
    <3>. QED
      BY <1>7, <2>2, <3>2, <3>4, <3>5 DEF MainRequest
  <2>. QED
    BY <2>3 DEF MainSentInv
<1>8. CASE Main
  BY <1>1, <1>3, <1>4, <1>5, <1>8, MainGoesOn DEF MainTimesOut
<1>. QED
  BY <1>2, <1>6, <1>7, <1>8, Frames DEF mainVars, startupVars, vars

(* Answers are names of states and results; the event loop gets no answer  *)
(* about casting, for it does not ask.                                     *)
LEMMA AnswersTypesStep ==
  ASSUME StartupBase, [StartupNext]_startupVars
  PROVE  AnswersTypes'
<1>1. AnswersTypes /\ CallTypes
  BY DEF StartupBase, StartupTypes
<1>2. CASE UNCHANGED answer
  BY <1>1, <1>2 DEF AnswersTypes
<1>3. ASSUME NEW c \in {"loop", "main"}, answer' = [answer EXCEPT ![c] = ""]
      PROVE  AnswersTypes'
  BY <1>1, <1>3 DEF AnswersTypes, Answers
<1>4. CASE Execute \/ ExecuteStartup
  <2>1. CASE Head(sent).caller \in {"loop", "main"}
    <3>1. PICK x :
            /\ answer' = [answer EXCEPT ![Head(sent).caller] = x]
            /\ \/ x = "error"
               \/ x = "success" /\ Head(sent).op \notin {"status", "getEnabled"}
               \/ Head(sent).op = "status" /\ Head(sent).app \in Apps
                    /\ x = StatusState(truth[Head(sent).app])
               \/ Head(sent).op = "getEnabled" /\ x = casting
      BY <1>1, <1>4, <2>1, Executed
    <3>2. Head(sent).caller = "loop" => Head(sent).op # "getEnabled"
      <4>1. Head(sent) = sent[1] /\ 1 \in DOMAIN sent
        BY <1>1, <1>4, Executed DEF CallTypes
      <4>2. "getEnabled" \notin Operations
        BY DEF Operations, Commands
      <4>. QED
        BY <1>1, <4>1, <4>2 DEF CallTypes
    <3>3. x \in Answers \/ (Head(sent).caller = "main" /\ x \in {"on", "off"})
      BY <2>1, <3>1, <3>2
         DEF Answers, StartupBase, StartupTypes, TruthTypes, CastingTypes
    <3>. QED
      BY <1>1, <2>1, <3>1, <3>3 DEF AnswersTypes
  <2>. QED
    BY <1>1, <1>2, <1>4, <2>1, Executed
<1>5. CASE LoopStep
  BY <1>2, <1>3, <1>5, LoopSends
<1>6. CASE Main
  BY <1>2, <1>3, <1>6, MainSends, BeginCallSends DEF MainTimesOut
<1>. QED
  BY <1>2, <1>4, <1>5, <1>6, Frames DEF startupVars, vars

(* What a call of main is answered with.                                   *)
LEMMA MainAnswered ==
  ASSUME StartupBase, Execute \/ ExecuteStartup, answer'["main"] # answer["main"]
  PROVE  /\ MainRequest(1) /\ Head(sent) = sent[1]
         /\ \/ answer'["main"] = "error"
            \/ answer'["main"] = "success" /\ Head(todo).op \notin {"status", "getEnabled"}
            \/ answer'["main"] \in Spelled /\ Head(todo).op = "status"
            \/ answer'["main"] = casting /\ Head(todo).op = "getEnabled"
<1> USE DEF StartupBase, StartupTypes
<1>1. sent # <<>> /\ sent \in Seq(AllRequests) /\ DOMAIN answer = {"loop", "main"}
  BY Executed DEF CallTypes, AnswersTypes
<1>2. Head(sent) = sent[1] /\ 1 \in DOMAIN sent
  BY <1>1
<1>3. Head(sent).caller = "main"
  BY <1>1, Executed
<1>4. MainRequest(1)
  BY <1>2, <1>3 DEF MainSentInv
<1>5. PICK x :
        /\ answer' = [answer EXCEPT !["main"] = x]
        /\ \/ x = "error"
           \/ x = "success" /\ Head(sent).op \notin {"status", "getEnabled"}
           \/ Head(sent).op = "status" /\ Head(sent).app \in Apps
                /\ x = StatusState(truth[Head(sent).app])
           \/ Head(sent).op = "getEnabled" /\ x = casting
  BY <1>3, Executed
<1>6. Head(sent).app \in Apps => StatusState(truth[Head(sent).app]) \in Spelled
  BY DEF Spelled, TruthTypes
<1>7. answer'["main"] = x
  BY <1>1, <1>5
<1>8. Head(sent).op = Head(todo).op
  BY <1>2, <1>4 DEF MainRequest
<1>. QED
  BY <1>2, <1>4, <1>5, <1>6, <1>7, <1>8

LEMMA FetchStep ==
  ASSUME StartupBase, [StartupNext]_startupVars
  PROVE  FetchInv'
<1>1. FetchInv /\ AnswersTypes
  BY DEF StartupBase, StartupTypes
<1>2. CASE UNCHANGED <<mainStep, todo>> /\ answer'["main"] = answer["main"]
  BY <1>1, <1>2 DEF FetchInv, Converts
<1>3. CASE mainStep' = "begin"
  BY <1>3 DEF FetchInv, Writing
<1>4. CASE BeginCall
  <2>1. answer'["main"] = "" /\ mainStep' = "wait"
    BY <1>1, <1>4, BeginCallSends DEF AnswersTypes, BeginCall
  <2>. QED
    BY <2>1 DEF FetchInv, Writing
<1>5. CASE MainTimesOut \/ MainCallReturns \/ GetEnabledReturns
  BY <1>3, <1>5 DEF MainTimesOut, MainCallReturns, GetEnabledReturns, NextCall
<1>6. CASE FetchReturns
  <2>1. UNCHANGED answer
    BY <1>6 DEF FetchReturns, vars
  <2>2. CASE mainStep' = "plugin"
    BY <1>1, <1>6, <2>1, <2>2 DEF FetchReturns, NextCall, MainWaits, FetchInv
  <2>. QED
    BY <1>3, <1>6, <2>2 DEF FetchReturns, NextCall
<1>7. CASE StorePlugin \/ PluginStored \/ StoreDial \/ DialStored
  <2>1. UNCHANGED answer
    BY <1>7 DEF StorePlugin, PluginStored, StoreDial, DialStored, cacheFrame
  <2>2. mainStep \in Writing
    BY <1>7 DEF StorePlugin, PluginStored, StoreDial, DialStored, Writing
  <2>3. \/ mainStep' = "begin" \/ mainStep' = "plugin2"
        \/ mainStep' = "dial" /\ Converts
        \/ mainStep' = "dial2" /\ mainStep = "dial"
    BY <1>7 DEF StorePlugin, PluginStored, StoreDial, DialStored, NextCall
  <2>. QED
    BY <1>1, <1>3, <2>1, <2>2, <2>3 DEF FetchInv, Converts
<1>8. CASE LoopStep /\ UNCHANGED mainVars
  <2>1. answer'["main"] = answer["main"]
    BY <1>1, <1>8, LoopSends DEF AnswersTypes
  <2>. QED
    BY <1>2, <1>8, <2>1 DEF mainVars
<1>9. CASE (Execute \/ ExecuteStartup) /\ UNCHANGED mainVars
  <2>1. CASE answer'["main"] = answer["main"]
    BY <1>2, <1>9, <2>1 DEF mainVars
  <2>2. CASE answer'["main"] # answer["main"]
    <3>1. /\ mainStep = "wait"
          /\ \/ answer'["main"] = "error"
             \/ Head(todo).op # "status"
             \/ answer'["main"] \in Spelled
      BY <1>9, <2>2, MainAnswered DEF MainRequest
    <3>2. UNCHANGED <<mainStep, todo>>
      BY <1>9 DEF mainVars
    <3>. QED
      BY <3>1, <3>2 DEF FetchInv, Writing
  <2>. QED
    BY <2>1, <2>2
<1>. QED
  BY <1>2, <1>4, <1>5, <1>6, <1>7, <1>8, <1>9, Frames
     DEF Main, mainVars, startupVars, vars

(* The cache, which both threads write.                                    *)
LEMMA SharedTypesStep ==
  ASSUME StartupBase, [StartupNext]_startupVars
  PROVE  SharedTypes'
<1> USE DEF StartupBase, StartupTypes
<1>1. CASE UNCHANGED m_dialApps
  BY <1>1 DEF SharedTypes
<1>2. ASSUME NEW a, NEW e \in SharedEntries, m_dialApps' = [m_dialApps EXCEPT ![a] = e]
      PROVE  SharedTypes'
  BY <1>2 DEF SharedTypes
<1>3. ASSUME NEW a, NEW s, m_dialApps' = [m_dialApps EXCEPT ![a].plugin = s],
             a \in Apps => s \in CachedStates \cup {Torn}
      PROVE  SharedTypes'
  <2>1. CASE a \in Apps
    <3>1. m_dialApps[a] \in SharedEntries
      BY <2>1 DEF SharedTypes
    <3>2. [m_dialApps[a] EXCEPT !.plugin = s] \in SharedEntries
      BY <1>3, <2>1, <3>1 DEF SharedEntries
    <3>. QED
      BY <1>2, <1>3, <3>2
  <2>2. CASE a \notin Apps
    BY <1>3, <2>2 DEF SharedTypes
  <2>. QED
    BY <2>1, <2>2
<1>4. ASSUME NEW a, NEW s, m_dialApps' = [m_dialApps EXCEPT ![a].dial = s],
             a \in Apps => s \in DialStates \cup {"unknown", Torn}
      PROVE  SharedTypes'
  <2>1. CASE a \in Apps
    <3>1. m_dialApps[a] \in SharedEntries
      BY <2>1 DEF SharedTypes
    <3>2. [m_dialApps[a] EXCEPT !.dial = s] \in SharedEntries
      BY <1>4, <2>1, <3>1 DEF SharedEntries
    <3>. QED
      BY <1>2, <1>4, <3>2
  <2>2. CASE a \notin Apps
    BY <1>4, <2>2 DEF SharedTypes
  <2>. QED
    BY <2>1, <2>2
<1>5. CASE OnRDKShellEvent \/ OnControllerStateChangeEvent
  <2>1. IsFunctionOnApps
    BY DEF IsFunctionOnApps, SharedTypes
  <2>2. PICK plugin \in DialStates \cup States :
          m_dialApps' = [m_dialApps EXCEPT ![Oldest.app] =
                           [plugin |-> plugin, dial |-> Means(Oldest)]]
    BY <1>5, <2>1, SmartMonitorAssumption, EventCached
  <2>3. Means(Oldest) \in DialStates
    BY <1>5, <2>1, SmartMonitorAssumption, EventCached DEF DialStates
  <2>4. [plugin |-> plugin, dial |-> Means(Oldest)] \in SharedEntries
    BY <2>3 DEF SharedEntries, CachedStates
  <2>. QED
    BY <1>2, <2>2, <2>4
<1>6. CASE StatusReturns
  <2>1. answer["loop"] \in CachedStates
    BY <1>6 DEF StatusReturns, GotState, AnswersTypes, Answers, CachedStates
  <2>2. CASE current.app \in Apps
    <3>1. m_dialApps[current.app].dial \in DialStates \cup {"unknown", Torn}
      BY <2>2 DEF SharedTypes, SharedEntries
    <3>2. Converted(answer["loop"], m_dialApps[current.app].dial) \in DialStates \cup {"unknown", Torn}
      BY <3>1, ConversionRange DEF Converted
    <3>3. [plugin |-> answer["loop"],
           dial |-> Converted(answer["loop"], m_dialApps[current.app].dial)] \in SharedEntries
      BY <2>1, <3>2 DEF SharedEntries
    <3>. QED
      BY <1>2, <1>6, <3>3 DEF StatusReturns, Update
  <2>3. CASE current.app \notin Apps
    BY <1>6, <2>3 DEF StatusReturns, Update, SharedTypes
  <2>. QED
    BY <2>2, <2>3
<1>7. CASE StorePlugin
  BY <1>3, <1>7 DEF StorePlugin
<1>8. CASE PluginStored
  <2> DEFINE a == Head(todo).arg
  <2>1. answer["main"] \in CachedStates
    BY <1>8 DEF PluginStored, FetchInv, Writing, Spelled, CachedStates
  <2>2. PICK s \in Written(m_dialApps[a].plugin, answer["main"]) :
          m_dialApps' = [m_dialApps EXCEPT ![a].plugin = s]
    BY <1>8 DEF PluginStored
  <2>3. a \in Apps => m_dialApps[a].plugin \in CachedStates \cup {Torn}
    BY DEF SharedTypes, SharedEntries
  <2>4. a \in Apps => s \in CachedStates \cup {Torn}
    BY <2>1, <2>3 DEF Written
  <2> HIDE DEF a
  <2>. QED
    BY <1>3, <2>2, <2>4
<1>9. CASE StoreDial
  BY <1>4, <1>9 DEF StoreDial
<1>10. CASE DialStored
  <2> DEFINE a == Head(todo).arg
             d == ConvertPluginStateToDIALState(answer["main"])
  <2>1. d \in DialStates
    BY <1>10, ConversionRange DEF DialStored, FetchInv, Converts
  <2>2. PICK s \in Written(m_dialApps[a].dial, d) :
          m_dialApps' = [m_dialApps EXCEPT ![a].dial = s]
    BY <1>10 DEF DialStored
  <2>3. a \in Apps => m_dialApps[a].dial \in DialStates \cup {"unknown", Torn}
    BY DEF SharedTypes, SharedEntries
  <2> HIDE DEF d
  <2>4. a \in Apps => s \in DialStates \cup {"unknown", Torn}
    BY <2>1, <2>3 DEF Written
  <2> HIDE DEF a
  <2>. QED
    BY <1>4, <2>2, <2>4
<1>11. CASE BeginCall \/ MainCallReturns \/ GetEnabledReturns \/ FetchReturns \/ MainTimesOut
  BY <1>1, <1>11
     DEF BeginCall, MainCallReturns, GetEnabledReturns, FetchReturns, MainTimesOut, vars
<1>12. CASE OnDialEvent \/ LaunchReturns \/ LastCallReturns \/ CallTimesOut
  BY <1>1, <1>12 DEF OnDialEvent, LaunchReturns, LastCallReturns, CallTimesOut
<1>. QED
  BY <1>1, <1>5, <1>6, <1>7, <1>8, <1>9, <1>10, <1>11, <1>12, Frames
     DEF Main, LoopStep, startupVars, vars

(* What Thunder and XCast know.                                            *)
LEMMA NotifTypesStep ==
  ASSUME StartupBase, [StartupNext]_startupVars
  PROVE  TruthTypes' /\ NotifTypes'
<1>1. TruthTypes /\ NotifTypes /\ XcastTypes
  BY DEF StartupBase, StartupTypes
<1>2. CASE UNCHANGED <<truth, notifs>>
  BY <1>1, <1>2 DEF TruthTypes, NotifTypes
<1>3. CASE EnvironmentStep
  <2>1. CASE \E a \in Apps : Change(a)
    <3>1. PICK a \in Apps : Change(a)
      BY <2>1
    <3>2. PICK s \in States : ChangeState(a, s)
      BY <3>1 DEF Change
    <3>. QED
      BY <1>1, <3>2, ChangeStateTypes
  <2>2. CASE Request
    <3>1. PICK a \in registered, q \in DialRequests : notifs' = Append(notifs, DialRequest(a, q))
      BY <2>2 DEF Request
    <3> DEFINE n == DialRequest(a, q)
    <3>2. n \in Notification
      BY <1>1, <3>1 DEF XcastTypes, Notification, DialRequest
    <3> HIDE DEF n
    <3>3. notifs' \in Seq(Notification)
      BY <1>1, <3>1, <3>2 DEF NotifTypes, n
    <3>4. UNCHANGED truth
      BY <2>2 DEF Request
    <3>. QED
      BY <1>1, <3>3, <3>4 DEF NotifTypes, TruthTypes
  <2>. QED
    BY <1>3, <2>1, <2>2 DEF EnvironmentStep
<1>4. CASE Execute
  <2>1. CASE UNCHANGED <<truth, notifs>>
    BY <1>2, <2>1
  <2>2. CASE \E a \in Apps, s \in States : ChangeState(a, s)
    BY <1>1, <2>2, ChangeStateTypes
  <2>. QED
    BY <1>4, <2>1, <2>2 DEF Execute, StatesAfter
<1>5. CASE LoopStep
  <2>1. UNCHANGED truth /\ (UNCHANGED notifs \/ (notifs # <<>> /\ notifs' = Tail(notifs)))
    BY <1>5 DEF LoopStep, OnRDKShellEvent, OnControllerStateChangeEvent, OnDialEvent,
                StatusReturns, LaunchReturns, LastCallReturns, CallTimesOut, NextOfType
  <2>. QED
    BY <1>1, <2>1 DEF TruthTypes, NotifTypes
<1>. QED
  BY <1>2, <1>3, <1>4, <1>5, Frames DEF startupVars, vars

LEMMA XcastTypesStep ==
  ASSUME StartupBase, [StartupNext]_startupVars
  PROVE  XcastTypes' /\ CastingTypes'
<1>1. XcastTypes /\ CastingTypes /\ CallTypes
  BY DEF StartupBase, StartupTypes
<1>2. CASE UNCHANGED <<xcastVars, casting>>
  BY <1>1, <1>2 DEF XcastTypes, CastingTypes, xcastVars
<1>3. CASE ExecuteStartup
  <2>3. RegisteredNames \subseteq Names
    BY StartupAssumption
  <2>4. subscribed' \subseteq Events /\ registered' \subseteq Names
    BY <1>1, <1>3, <2>3 DEF XcastTypes, ExecuteStartup, ServeMain, RefuseMain, xcastVars
  <2>5. casting' \in {"on", "off"}
    BY <1>1, <1>3 DEF CastingTypes, ExecuteStartup, ServeMain, RefuseMain
  <2>. QED
    BY <2>4, <2>5 DEF XcastTypes, CastingTypes
<1>. QED
  BY <1>2, <1>3, Frames DEF startupVars, vars, xcastVars

LEMMA StepTypesStep ==
  ASSUME StartupBase, [StartupNext]_startupVars
  PROVE  StepTypes'
<1>1. StepTypes
  BY DEF StartupBase, StartupTypes
<1>2. CASE UNCHANGED <<step, current>>
  BY <1>1, <1>2 DEF StepTypes
<1>. QED
  BY <1>2, LoopSends, Frames DEF startupVars, vars

(* The histories.                                                          *)
LEMMA HistoryTypesStep ==
  ASSUME StartupBase, [StartupNext]_startupVars
  PROVE  FlagTypes' /\ CounterTypes' /\ WriterTypes' /\ HeardTypes'
<1>1. FlagTypes /\ CounterTypes /\ WriterTypes /\ HeardTypes
  BY DEF StartupBase, StartupTypes
<1>2. firstRun' \in BOOLEAN
  BY <1>1, Frames, Zenon DEF FlagTypes
<1>3. lost' = lost \/ lost' = TRUE \/ lost' = (lost \/ answer["main"] = "error")
  <2>1. Main => \/ lost' = lost \/ lost' = TRUE \/ lost' = (lost \/ answer["main"] = "error")
    BY Zenon DEF Main, BeginCall, MainCallReturns, GetEnabledReturns, FetchReturns,
           MainTimesOut, StorePlugin, PluginStored, StoreDial, DialStored, cacheFrame
  <2>2. Main \/ UNCHANGED lost
    BY Frames DEF mainVars, startupVars
  <2>. QED
    BY <2>1, <2>2, Zenon
<1>4. lost' \in BOOLEAN
  BY <1>1, <1>3, Zenon DEF FlagTypes
<1>5. \/ UNCHANGED lastWriter
      \/ \E a, w : w \in {"main", "event", "fetch"} /\ lastWriter' = [lastWriter EXCEPT ![a] = w]
  <2>1. Main => \/ UNCHANGED lastWriter
                \/ lastWriter' = [lastWriter EXCEPT ![Head(todo).arg] = "main"]
    BY Zenon DEF Main, BeginCall, MainCallReturns, GetEnabledReturns, FetchReturns,
           MainTimesOut, StorePlugin, PluginStored, StoreDial, DialStored
  <2>2. LoopStep => \/ UNCHANGED lastWriter
                    \/ lastWriter' = [lastWriter EXCEPT ![Head(notifs).app] = "event"]
                    \/ lastWriter' = [lastWriter EXCEPT ![current.app] = "fetch"]
    BY Zenon DEF LoopStep
  <2>3. Main \/ LoopStep \/ UNCHANGED lastWriter
    BY Frames DEF startupVars
  <2>4. "main" \in {"main", "event", "fetch"} /\ "event" \in {"main", "event", "fetch"}
        /\ "fetch" \in {"main", "event", "fetch"}
    OBVIOUS
  <2>. QED
    BY <2>1, <2>2, <2>3, <2>4, Zenon
<1>6. lastWriter' \in [Apps -> {"none", "main", "event", "fetch"}]
  BY <1>1, <1>5 DEF WriterTypes
<1>7. CounterTypes'
  <2>1. /\ UNCHANGED firstRun
        /\ \/ UNCHANGED refusals
           \/ refusals' = refusals + 1 /\ refusals < MaxRefusals[firstRun]
    BY Frames
  <2>2. MaxRefusals[firstRun] \in Nat
    BY <1>1, StartupAssumption DEF FlagTypes
  <2>. QED
    BY <1>1, <2>1, <2>2 DEF CounterTypes
<1>8. HeardTypes'
  BY <1>1, Frames DEF HeardTypes, RecordUnheard, startupVars
<1>. QED
  BY <1>2, <1>4, <1>6, <1>7, <1>8, Zenon DEF FlagTypes, WriterTypes

LEMMA InitStartupBase ==
  ASSUME StartupInit
  PROVE  StartupBase
<1> USE DEF StartupInit, InitCommon
<1>1. TruthTypes /\ StepTypes
  BY DEF TruthTypes, StepTypes
<1>2. NotifTypes
  BY EmptySeq DEF NotifTypes
<1>3. XcastTypes
  <2>1. registered \in SUBSET Names
    BY StartupAssumption
  <2>. QED
    BY <2>1 DEF XcastTypes
<1>4. CallTypes /\ MainSentInv
  <2>1. sent = <<>>
    OBVIOUS
  <2>2. sent \in Seq(AllRequests) /\ Len(sent) = 0
    BY ONLY <2>1, EmptySeq
  <2>3. DOMAIN sent = {}
    BY ONLY <2>2, LenProperties
  <2>. QED
    BY <2>2, <2>3 DEF CallTypes, MainSentInv
<1>5. AnswersTypes
  BY DEF AnswersTypes, Answers
<1>6. SharedTypes
  <2>1. Unknown \in SharedEntries
    BY DEF Unknown, SharedEntries, CachedStates
  <2>. QED
    BY <2>1 DEF SharedTypes
<1>7. ScriptTypes
  <2>1. todo \in Seq(MainCalls) /\ mainStep = "begin"
    BY ScriptIsMainCalls
  <2>. QED
    BY <2>1 DEF ScriptTypes, Writing
<1>8. FlagTypes
  BY Zenon DEF FlagTypes
<1>9. CastingTypes /\ WriterTypes /\ HeardTypes
  BY DEF CastingTypes, WriterTypes, HeardTypes
<1>11. CounterTypes
  <2>1. MaxRefusals[firstRun] \in Nat /\ refusals = 0
    BY <1>8, StartupAssumption DEF FlagTypes
  <2>. QED
    BY ONLY <2>1 DEF CounterTypes
<1>10. FetchInv
  BY DEF FetchInv, Writing
<1>. QED
  BY <1>1, <1>3, <1>4, <1>5, <1>6, <1>7, <1>8, <1>9, <1>10, <1>11, <1>2, Zenon
  DEF StartupBase, StartupTypes

LEMMA StartupBaseStep ==
  ASSUME StartupBase, [StartupNext]_startupVars
  PROVE  StartupBase'
BY NotifTypesStep, XcastTypesStep, StepTypesStep, HistoryTypesStep, CallTypesStep,
   AnswersTypesStep, SharedTypesStep, ScriptTypesStep, MainSentStep, FetchStep, Zenon
   DEF StartupBase, StartupTypes

(* What always holds of the two threads: the types, that a request of main *)
(* that is still to be executed is the call it waits for, and that main    *)
(* stores nothing but a state Thunder answered.                            *)
THEOREM StartupInvariant == StartupSpec => []StartupBase
BY InitStartupBase, StartupBaseStep, PTL DEF StartupSpec

(* Type correctness: main writes to the cache only for the application it  *)
(* asked about (convertPluginStateToDIALState in registerDIALApps), and    *)
(* however the event loop writes meanwhile the strings are states or Torn. *)
THEOREM StartupTypeCorrect == StartupSpec => []StartupTypeOK
<1>1. ASSUME StartupBase
      PROVE  StartupTypeOK
  <2>1. StartupTypes
    BY <1>1 DEF StartupBase
  <2>2. /\ truth \in [Apps -> States]
        /\ subscribed \subseteq Events
        /\ registered \subseteq Names
        /\ notifs \in Seq(Notification)
        /\ answer["loop"] \in Answers
        /\ answer["main"] \in Answers \cup {"on", "off"}
        /\ casting \in {"on", "off"}
        /\ lastWriter \in [Apps -> {"none", "main", "event", "fetch"}]
        /\ unheard \subseteq Apps
    BY <2>1 DEF StartupTypes, TruthTypes, XcastTypes, NotifTypes, AnswersTypes,
                CastingTypes, WriterTypes, HeardTypes
  <2>3. m_dialApps \in [Apps -> [plugin : CachedStates \cup {Torn},
                                 dial : DialStates \cup {"unknown", Torn}]]
    BY <2>1 DEF StartupTypes, SharedTypes, SharedEntries
  <2>4. todo \in Seq([op : Indifferent \cup {"getEnabled", "status"},
                      arg : Names \cup Range(Subscriptions) \cup {""}])
    BY <2>1, Zenon DEF StartupTypes, ScriptTypes, MainCalls, MainOps, MainArgs
  <2>5. /\ mainStep \in {"begin", "wait"} \cup Writing
        /\ mainStep \in Writing => todo # <<>> /\ Head(todo).op = "status"
    BY <2>1 DEF StartupTypes, ScriptTypes, Writing
  <2>6. /\ firstRun \in BOOLEAN /\ lost \in BOOLEAN
        /\ refusals \in 0 .. MaxRefusals[firstRun]
    BY <2>1, Zenon DEF StartupTypes, FlagTypes, CounterTypes
  <2>. QED
    BY <2>2, <2>3, <2>4, <2>5, <2>6, Zenon DEF StartupTypeOK
<1>. QED
  BY <1>1, StartupInvariant, PTL

-----------------------------------------------------------------------------
(* What main has done when it is done.                                     *)

LEMMA ConcatAt ==
  ASSUME NEW S, NEW p \in Seq(S), NEW q \in Seq(S)
  PROVE  /\ \A i \in DOMAIN p : i \in DOMAIN (p \o q) /\ (p \o q)[i] = p[i]
         /\ \A i \in DOMAIN q : Len(p) + i \in DOMAIN (p \o q) /\ (p \o q)[Len(p) + i] = q[i]
<1> DEFINE r == p \o q
<1>1. /\ r \in Seq(S) /\ Len(r) = Len(p) + Len(q)
      /\ \A i \in 1 .. Len(p) + Len(q) : r[i] = IF i <= Len(p) THEN p[i] ELSE q[i - Len(p)]
  BY ConcatProperties
<1>2. /\ DOMAIN r = 1 .. Len(r) /\ DOMAIN p = 1 .. Len(p) /\ DOMAIN q = 1 .. Len(q)
      /\ Len(p) \in Nat /\ Len(q) \in Nat
  BY <1>1, LenProperties
<1> HIDE DEF r
<1>3. /\ \A i \in DOMAIN p : i \in DOMAIN r /\ r[i] = p[i]
      /\ \A i \in DOMAIN q : Len(p) + i \in DOMAIN r /\ r[Len(p) + i] = q[i]
  BY ONLY <1>1, <1>2
<1>. QED
  BY <1>3 DEF r

(* What a script keeps when its first call is dropped, or replaced by the  *)
(* two that enable casting.                                                *)
LEMMA PendingKept ==
  ASSUME ScriptTypes, todo # <<>>, NEW op, NEW arg,
         Pending(op, arg), Head(todo) # MainCall(op, arg),
         todo' = Tail(todo) \/ todo' = Enabling \o Tail(todo)
  PROVE  Pending(op, arg)'
<1>1. todo \in Seq(MainCalls) /\ Tail(todo) \in Seq(MainCalls)
  BY DEF ScriptTypes
<1>2. PICK i \in DOMAIN todo : todo[i] = MainCall(op, arg)
  BY DEF Pending
<1>3. i \in 2 .. Len(todo) /\ Len(Tail(todo)) = Len(todo) - 1
      /\ i - 1 \in 1 .. Len(Tail(todo)) /\ Tail(todo)[i - 1] = todo[i]
  BY <1>1, <1>2
<1>4. CASE todo' = Tail(todo)
  BY <1>1, <1>2, <1>3, <1>4 DEF Pending
<1>5. CASE todo' = Enabling \o Tail(todo)
  <2>1. Enabling \in Seq(MainCalls) /\ Len(Enabling) = 2
    BY EnablingTypes, Zenon
  <2>2. i + 1 \in DOMAIN todo' /\ todo'[i + 1] = Tail(todo)[i - 1]
    <3>1. i - 1 \in DOMAIN Tail(todo) /\ i \in Int
      BY <1>1, <1>3
    <3>2. Len(Enabling) + (i - 1) \in DOMAIN todo'
          /\ todo'[Len(Enabling) + (i - 1)] = Tail(todo)[i - 1]
      <4>1. \A k \in DOMAIN Tail(todo) :
              /\ Len(Enabling) + k \in DOMAIN todo'
              /\ todo'[Len(Enabling) + k] = Tail(todo)[k]
        <5> DEFINE r == Enabling \o Tail(todo)
        <5>3. Tail(todo) \in Seq(MainCalls) /\ Enabling \in Seq(MainCalls)
          BY <1>1, <2>1
        <5>1. \A k \in DOMAIN Tail(todo) :
                /\ Len(Enabling) + k \in DOMAIN r
                /\ r[Len(Enabling) + k] = Tail(todo)[k]
          BY ONLY <5>3, ConcatAt
        <5>2. todo' = r
          BY <1>5
        <5> HIDE DEF r
        <5>. QED
          BY <5>1, <5>2
      <4>. QED
        BY <3>1, <4>1, Zenon
    <3>3. Len(Enabling) + (i - 1) = i + 1
      BY <2>1, <3>1
    <3>. QED
      BY <3>2, <3>3
  <2>. QED
    BY <1>2, <1>3, <2>2 DEF Pending
<1>. QED
  BY <1>4, <1>5

LEMMA EnablingPends ==
  ASSUME ScriptTypes, todo # <<>>, todo' = Enabling \o Tail(todo)
  PROVE  Pending("enable", "")'
<1>1. Tail(todo) \in Seq(MainCalls)
  BY DEF ScriptTypes
<1>2. Enabling \in Seq(MainCalls) /\ Len(Enabling) = 2
  BY EnablingTypes, Zenon
<1>3. Enabling[2] = MainCall("enable", "")
  BY EnablingTypes, Zenon
<1>4. 2 \in DOMAIN todo' /\ todo'[2] = Enabling[2]
  <2>1. 2 \in DOMAIN Enabling
    BY <1>2, LenProperties
  <2>2. \A i \in DOMAIN Enabling : i \in DOMAIN todo' /\ todo'[i] = Enabling[i]
    <3> DEFINE r == Enabling \o Tail(todo)
    <3>1. \A i \in DOMAIN Enabling : i \in DOMAIN r /\ r[i] = Enabling[i]
      BY <1>1, <1>2, ConcatAt
    <3>2. todo' = r
      OBVIOUS
    <3> HIDE DEF r
    <3>. QED
      BY <3>1, <3>2
  <2>. QED
    BY <2>1, <2>2
<1>. QED
  BY <1>4, <1>3, Zenon DEF Pending

(* XCast and Thunder only ever serve more.                                 *)
LEMMA ServesMore ==
  ASSUME [StartupNext]_startupVars
  PROVE  /\ subscribed \subseteq subscribed'
         /\ registered = RegisteredNames => registered' = RegisteredNames
         /\ casting = "on" => casting' = "on"
<1>1. ExecuteStartup => /\ subscribed' = subscribed \/ \E X : subscribed' = subscribed \cup X
                        /\ registered' = registered \/ registered' = RegisteredNames
                        /\ casting' = casting \/ casting' = "on"
  BY Zenon DEF ExecuteStartup, ServeMain, RefuseMain, xcastVars
<1>. QED
  BY <1>1, Frames DEF startupVars, vars, xcastVars

(* Whoever made a call that is answered with success, it was executed.     *)
LEMMA MainServed ==
  ASSUME StartupBase, [StartupNext]_startupVars, Execute \/ ExecuteStartup,
         answer'["main"] # answer["main"], answer'["main"] # "error"
  PROVE  /\ Head(todo).op = "subscribe" /\ Head(todo).arg \in Events =>
              Head(todo).arg \in subscribed'
         /\ Head(todo).op = "register" => registered' = RegisteredNames
         /\ Head(todo).op = "enable" => casting' = "on"
         /\ Head(todo).op = "getEnabled" =>
              answer'["main"] = casting /\ casting' = casting
<1> DEFINE r == Head(sent)
<1>1. r = sent[1] /\ MainRequest(1) /\ (Head(todo).op = "getEnabled" => answer'["main"] = casting)
  BY MainAnswered DEF Spelled
<1>2. r.op = Head(todo).op /\ r.app = Subject(Head(todo))
  BY <1>1 DEF MainRequest
<1>3. r.caller = "main"
  <2>1. DOMAIN answer = {"loop", "main"}
    BY DEF StartupBase, StartupTypes, AnswersTypes
  <2>. QED
    BY <2>1, Executed DEF StartupBase, StartupTypes
<1>4. ~Answered(r.caller, "error")
  <2>1. DOMAIN answer = {"loop", "main"}
    BY DEF StartupBase, StartupTypes, AnswersTypes
  <2>. QED
    BY <1>3, <2>1 DEF Answered
<1>5. CASE Execute
  <2>1. r.op \in Operations
    BY <1>5, Zenon DEF Execute, Operations
  <2>2. r.op \notin {"subscribe", "register", "enable", "getEnabled"}
    BY <2>1 DEF Operations, Commands
  <2>. QED
    BY <1>2, <2>2
<1>6. CASE ExecuteStartup
  <2>1. /\ r.op = "subscribe" => subscribed' = subscribed \cup ({r.app} \cap Events)
        /\ r.op = "register" => registered' = RegisteredNames
        /\ r.op = "enable" => casting' = "on"
        /\ r.op = "getEnabled" => casting' = casting
    BY <1>4, <1>6 DEF ExecuteStartup, ServeMain, RefuseMain
  <2>. QED
    BY <1>1, <1>2, <2>1 DEF Subject
<1>. QED
  BY <1>5, <1>6

LEMMA DoneStep ==
  ASSUME StartupBase, DoneInv, [StartupNext]_startupVars
  PROVE  DoneInv'
<1>1. CASE UNCHANGED <<mainStep, todo>> /\ answer'["main"] = answer["main"]
  BY <1>1, ServesMore DEF DoneInv, HasAnswer
<1>2. CASE (Execute \/ ExecuteStartup) /\ UNCHANGED <<mainStep, todo>>
            /\ answer'["main"] # answer["main"]
  <2>1. CASE answer'["main"] = "error"
    BY <2>1 DEF DoneInv, HasAnswer
  <2>2. CASE answer'["main"] # "error"
    BY <1>2, <2>2, MainServed
       DEF DoneInv, HasAnswer, StartupBase, StartupTypes, CastingTypes
  <2>. QED
    BY <2>1, <2>2
<1>3. CASE Main
  <2>1. CASE BeginCall
    <3>1. answer'["main"] = ""
      BY <2>1, BeginCallSends DEF StartupBase, StartupTypes, AnswersTypes
    <3>. QED
      BY <3>1 DEF DoneInv, HasAnswer
  <2>2. CASE ~BeginCall
    <3>1. mainStep' # "wait"
      BY <1>3, <2>2
         DEF Main, MainCallReturns, GetEnabledReturns, FetchReturns, MainTimesOut,
             StorePlugin, PluginStored, StoreDial, DialStored, NextCall
    <3>. QED
      BY <3>1 DEF DoneInv, HasAnswer
  <2>. QED
    BY <2>1, <2>2
<1>4. CASE LoopStep /\ UNCHANGED mainVars
  <2>1. answer'["main"] = answer["main"]
    BY <1>4, LoopSends DEF StartupBase, StartupTypes, AnswersTypes
  <2>. QED
    BY <1>1, <1>4, <2>1 DEF mainVars
<1>. QED
  BY <1>1, <1>2, <1>3, <1>4, Frames DEF mainVars, startupVars, vars

(* Main makes its next call without having lost the one before only when   *)
(* it got an answer.                                                       *)
LEMMA MainAdvances ==
  ASSUME StartupBase, Main, ~lost'
  PROVE  /\ ~lost
         /\ \/ UNCHANGED todo
            \/ /\ todo # <<>> /\ todo' = Tail(todo)
               /\ Head(todo).op # "status" => HasAnswer(Head(todo).op)
               /\ Head(todo).op = "getEnabled" => answer["main"] # "off"
            \/ /\ todo # <<>> /\ todo' = Enabling \o Tail(todo)
               /\ Head(todo).op = "getEnabled"
<1>1. ScriptTypes /\ FlagTypes
  BY DEF StartupBase, StartupTypes
<1>2. /\ ~MainTimesOut
      /\ ~lost
      /\ MainCallReturns \/ GetEnabledReturns => answer["main"] # "error"
      /\ FetchReturns => UNCHANGED todo
  <2>1. lost' = lost \/ lost' = TRUE \/ lost' = (lost \/ answer["main"] = "error")
    BY Zenon DEF Main, BeginCall, MainCallReturns, GetEnabledReturns, FetchReturns,
           MainTimesOut, StorePlugin, PluginStored, StoreDial, DialStored, cacheFrame
  <2>2. ~lost
    BY <1>1, <2>1, Zenon DEF FlagTypes
  <2>3. ~MainTimesOut
    BY Zenon DEF MainTimesOut
  <2>4. MainCallReturns \/ GetEnabledReturns => answer["main"] # "error"
    BY Zenon DEF MainCallReturns, GetEnabledReturns
  <2>5. FetchReturns => UNCHANGED todo
    BY Zenon DEF FetchReturns
  <2>. QED
    BY <2>2, <2>3, <2>4, <2>5, Zenon
<1>3. CASE BeginCall \/ StorePlugin \/ StoreDial
  BY <1>2, <1>3, Zenon DEF BeginCall, StorePlugin, StoreDial
<1>4. CASE MainCallReturns
  <2>1. /\ mainStep = "wait" /\ Head(todo).op \in Indifferent
        /\ answer["main"] # "" /\ todo' = Tail(todo)
    BY <1>4 DEF MainCallReturns, MainWaits, NextCall
  <2>2. todo # <<>>
    BY <1>1, <2>1 DEF ScriptTypes
  <2>3. Head(todo).op # "getEnabled"
    BY <2>1 DEF Indifferent
  <2>4. HasAnswer(Head(todo).op)
    BY <1>2, <1>4, <2>1 DEF HasAnswer
  <2>. QED
    BY <1>2, <2>1, <2>2, <2>3, <2>4, Zenon
<1>5. CASE GetEnabledReturns
  <2>1. /\ mainStep = "wait" /\ Head(todo).op = "getEnabled" /\ answer["main"] # ""
        /\ \/ answer["main"] = "off" /\ todo' = Enabling \o Tail(todo)
           \/ answer["main"] # "off" /\ todo' = Tail(todo)
    BY <1>5, Zenon DEF GetEnabledReturns, MainWaits
  <2>2. todo # <<>>
    BY <1>1, <2>1 DEF ScriptTypes
  <2>3. HasAnswer(Head(todo).op)
    BY <1>2, <1>5, <2>1 DEF HasAnswer
  <2>. QED
    BY <1>2, <2>1, <2>2, <2>3, Zenon
<1>6. CASE PluginStored \/ DialStored
  <2>1. mainStep \in Writing /\ (UNCHANGED todo \/ todo' = Tail(todo))
    BY <1>6 DEF PluginStored, DialStored, NextCall, Writing
  <2>2. todo # <<>> /\ Head(todo).op = "status"
    BY <1>1, <2>1 DEF ScriptTypes, Writing
  <2>3. Head(todo).op # "getEnabled"
    BY <2>2
  <2>. QED
    BY <1>2, <2>1, <2>2, <2>3, Zenon
<1>7. CASE FetchReturns
  BY <1>2, <1>7, Zenon
<1>. QED
  BY <1>2, <1>3, <1>4, <1>5, <1>6, <1>7, Zenon DEF Main

LEMMA ProgressStep ==
  ASSUME StartupBase, ServeInv, [StartupNext]_startupVars
  PROVE  ProgressInv'
<1>1. ScriptTypes /\ DoneInv /\ ProgressInv
  BY DEF StartupBase, StartupTypes, ServeInv
<1>2. CASE UNCHANGED <<todo, lost>>
  BY <1>1, <1>2, ServesMore DEF ProgressInv, Pending
<1>3. CASE Main /\ UNCHANGED <<xcastVars, casting>>
  <2> SUFFICES ASSUME ~lost' PROVE ProgressInv'
    BY DEF ProgressInv
  <2>1. ~lost
    BY <1>3, MainAdvances
  <2>2. CASE UNCHANGED todo
    BY <1>1, <1>3, <2>1, <2>2 DEF ProgressInv, Pending, xcastVars
  <2>3. CASE ~UNCHANGED todo
    <3>1. /\ todo # <<>>
          /\ todo' = Tail(todo) \/ todo' = Enabling \o Tail(todo)
          /\ Head(todo).op \notin {"status", "getEnabled"} => HasAnswer(Head(todo).op)
          /\ Head(todo).op = "getEnabled" =>
               \/ HasAnswer("getEnabled") /\ answer["main"] # "off"
               \/ todo' = Enabling \o Tail(todo)
      BY <1>3, <2>3, MainAdvances
    <3>2. \A e \in Events : e \in subscribed' \/ Pending("subscribe", e)'
      <4> TAKE e \in Events
      <4>1. CASE Head(todo) = MainCall("subscribe", e)
        BY <1>1, <1>3, <3>1, <4>1 DEF DoneInv, MainCall, xcastVars
      <4>2. CASE Head(todo) # MainCall("subscribe", e)
        BY <1>1, <1>3, <2>1, <3>1, <4>2, PendingKept DEF ProgressInv, xcastVars
      <4>. QED
        BY <4>1, <4>2
    <3>3. casting' = "on" \/ Pending("getEnabled", "")' \/ Pending("enable", "")'
      <4>1. CASE casting = "on"
        BY <1>3, <4>1
      <4>2. CASE Pending("getEnabled", "")
        <5>1. CASE Head(todo) = MainCall("getEnabled", "")
          <6>1. Head(todo).op = "getEnabled"
            BY <5>1, MainCallParts
          <6>2. CASE HasAnswer("getEnabled") /\ answer["main"] # "off"
            BY <1>1, <1>3, <6>2 DEF DoneInv
          <6>3. CASE todo' = Enabling \o Tail(todo)
            BY <1>1, <3>1, <6>3, EnablingPends
          <6>. QED
            BY <3>1, <6>1, <6>2, <6>3
        <5>2. CASE Head(todo) # MainCall("getEnabled", "")
          BY <1>1, <3>1, <4>2, <5>2, PendingKept
        <5>. QED
          BY <5>1, <5>2
      <4>3. CASE Pending("enable", "")
        <5>1. CASE Head(todo) = MainCall("enable", "")
          <6>1. Head(todo).op = "enable"
            BY <5>1, MainCallParts
          <6>2. HasAnswer("enable")
            BY <3>1, <6>1
          <6>. QED
            BY <1>1, <1>3, <6>2 DEF DoneInv
        <5>2. CASE Head(todo) # MainCall("enable", "")
          BY <1>1, <3>1, <4>3, <5>2, PendingKept
        <5>. QED
          BY <5>1, <5>2
      <4>. QED
        BY <1>1, <2>1, <4>1, <4>2, <4>3 DEF ProgressInv
    <3>4. registered' = RegisteredNames \/ Pending("register", "")'
      <4>1. CASE Head(todo) = MainCall("register", "")
        <5>1. Head(todo).op = "register"
          BY <4>1, MainCallParts
        <5>2. HasAnswer("register")
          BY <3>1, <5>1
        <5>. QED
          BY <1>1, <1>3, <5>2 DEF DoneInv, xcastVars
      <4>2. CASE Head(todo) # MainCall("register", "")
        <5>1. registered = RegisteredNames \/ Pending("register", "")
          BY <1>1, <2>1 DEF ProgressInv
        <5>2. Pending("register", "") => Pending("register", "")'
          BY <1>1, <3>1, <4>2, PendingKept
        <5>. QED
          BY <1>3, <5>1, <5>2 DEF xcastVars
      <4>. QED
        BY <4>1, <4>2
    <3>. QED
      BY <3>2, <3>3, <3>4 DEF ProgressInv
  <2>. QED
    BY <2>2, <2>3
<1>. QED
  BY <1>2, <1>3, Frames DEF mainVars, startupVars

LEMMA InitServe ==
  ASSUME StartupInit
  PROVE  ServeInv
<1>1. todo = Script /\ mainStep = "begin"
  BY DEF StartupInit
<1>2. DoneInv
  BY <1>1 DEF DoneInv, HasAnswer
<1> DEFINE R == <<MainCall("register", "")>>
<1>3. /\ Before \in Seq(MainCalls) /\ Len(Before) = 18
      /\ Fetches \in Seq(MainCalls) /\ R \in Seq(MainCalls)
      /\ todo = (Before \o Fetches) \o R
  BY <1>1, BeforeParts, ScriptParts, Zenon
<1>4. Len(R) = 1 /\ R[1] = MainCall("register", "")
  OBVIOUS
<1> HIDE DEF R
<1>5. /\ \A i \in 1 .. 18 : i \in DOMAIN todo /\ todo[i] = Before[i]
      /\ Len(Fetches) + 19 \in DOMAIN todo /\ todo[Len(Fetches) + 19] = R[1]
  <2>1. Before \o Fetches \in Seq(MainCalls)
    BY <1>3, ConcatProperties
  <2>2. /\ Len(Before \o Fetches) = 18 + Len(Fetches)
        /\ DOMAIN Before = 1 .. 18 /\ DOMAIN R = 1 .. 1 /\ Len(Fetches) \in Nat
    <3>1. Len(Before \o Fetches) = Len(Before) + Len(Fetches)
      BY <1>3, ConcatProperties
    <3>2. DOMAIN Before = 1 .. Len(Before) /\ DOMAIN R = 1 .. Len(R) /\ Len(Fetches) \in Nat
      BY <1>3, LenProperties
    <3>. QED
      BY <1>3, <1>4, <3>1, <3>2
  <2>3. \A i \in 1 .. 18 : i \in DOMAIN (Before \o Fetches) /\ (Before \o Fetches)[i] = Before[i]
    BY <1>3, <2>2, ConcatAt
  <2>4. \A i \in 1 .. 18 : i \in DOMAIN todo /\ todo[i] = Before[i]
    <3>1. \A i \in DOMAIN (Before \o Fetches) :
            i \in DOMAIN todo /\ todo[i] = (Before \o Fetches)[i]
      BY <1>3, <2>1, ConcatAt
    <3>. QED
      BY <2>3, <3>1
  <2>5. 1 \in DOMAIN R
    BY <2>2
  <2>6. /\ Len(Before \o Fetches) + 1 \in DOMAIN todo
        /\ todo[Len(Before \o Fetches) + 1] = R[1]
    BY <1>3, <2>1, <2>5, ConcatAt
  <2>7. Len(Before \o Fetches) + 1 = Len(Fetches) + 19
    BY <2>2
  <2>. QED
    BY <2>4, <2>6, <2>7
<1>6. Pending("getEnabled", "") /\ \A e \in Events : Pending("subscribe", e)
  <2>1. 17 \in 1 .. 18 /\ \A i \in 1 .. 15 : i \in 1 .. 18
    OBVIOUS
  <2>2. Pending("getEnabled", "")
    BY <1>5, <2>1, BeforeParts, Zenon DEF Pending
  <2>3. ASSUME NEW e \in Events
        PROVE  Pending("subscribe", e)
    <3>1. PICK i \in 1 .. 15 : Subscriptions[i] = e
      BY EventsSubscribed DEF Range
    <3>2. i \in DOMAIN todo /\ todo[i] = MainCall("subscribe", e)
      BY <1>5, <2>1, <3>1, BeforeParts, Zenon
    <3>. QED
      BY <3>2, Zenon DEF Pending
  <2>. QED
    BY <2>2, <2>3
<1>7. Pending("register", "")
  BY <1>4, <1>5 DEF Pending
<1>. QED
  BY <1>2, <1>6, <1>7 DEF ServeInv, ProgressInv

(* The promise to the user of the program: if none of its start-up calls   *)
(* was refused or timed out, the device casts, XCast knows the enabled     *)
(* applications, and every notification is subscribed to.                  *)
THEOREM ServingAlways == StartupSpec => []Serving
<1>1. ASSUME StartupBase, ServeInv, [StartupNext]_startupVars
      PROVE  ServeInv'
  BY <1>1, DoneStep, ProgressStep DEF ServeInv
<1>2. ASSUME StartupBase, ServeInv
      PROVE  Serving
  <2>1. MainDone => ~Pending("getEnabled", "") /\ ~Pending("enable", "")
                    /\ ~Pending("register", "") /\ \A e \in Events : ~Pending("subscribe", e)
    BY DEF MainDone, Pending
  <2>2. subscribed \subseteq Events
    BY <1>2 DEF StartupBase, StartupTypes, XcastTypes
  <2>. QED
    BY <1>2, <2>1, <2>2 DEF ServeInv, ProgressInv, Serving
<1>. QED
  BY <1>1, <1>2, InitServe, StartupInvariant, PTL DEF StartupSpec

-----------------------------------------------------------------------------
(* The two threads, in a first run.                                        *)

LEMMA InitRegister ==
  ASSUME StartupInit
  PROVE  RegisterInv
<1>1. todo = Script /\ sent = <<>> /\ notifs = <<>> /\ firstRun = (registered = {})
  BY DEF StartupInit, InitCommon
<1> DEFINE R == <<MainCall("register", "")>>
           F == Before \o Fetches
<1>2. /\ Before \in Seq(MainCalls) /\ Len(Before) = 18
      /\ Fetches \in Seq(MainCalls) /\ R \in Seq(MainCalls)
      /\ todo = F \o R
  BY <1>1, BeforeParts, ScriptParts, Zenon
<1>3. Len(R) = 1
  OBVIOUS
<1> HIDE DEF R
<1>4. F \in Seq(MainCalls)
  BY <1>2, ConcatProperties
<1>5. \A i \in DOMAIN Before : Before[i].op # "register"
  BY BeforeParts
<1>6. \A i \in DOMAIN Fetches : Fetches[i].op # "register"
  BY ScriptParts
<1>7. \A i \in DOMAIN F : F[i].op # "register"
  <2>1. /\ Len(F) = Len(Before) + Len(Fetches)
        /\ \A i \in 1 .. Len(Before) + Len(Fetches) :
             F[i] = IF i <= Len(Before) THEN Before[i] ELSE Fetches[i - Len(Before)]
    BY <1>2, ConcatProperties
  <2>2. /\ DOMAIN F = 1 .. Len(F) /\ DOMAIN Before = 1 .. Len(Before)
        /\ DOMAIN Fetches = 1 .. Len(Fetches)
        /\ Len(Before) \in Nat /\ Len(Fetches) \in Nat
    BY <1>2, <1>4, LenProperties
  <2> HIDE DEF F
  <2>3. \A i \in DOMAIN F : \/ i \in DOMAIN Before /\ F[i] = Before[i]
                            \/ i - Len(Before) \in DOMAIN Fetches /\ F[i] = Fetches[i - Len(Before)]
    BY ONLY <2>1, <2>2
  <2>. QED
    BY <1>5, <1>6, <2>3, Zenon
<1> HIDE DEF F
<1>8. RegisterLast
  <2>1. /\ Len(todo) = Len(F) + 1
        /\ \A i \in 1 .. Len(F) + 1 :
             todo[i] = IF i <= Len(F) THEN F[i] ELSE R[i - Len(F)]
        /\ todo \in Seq(MainCalls)
    <3>1. /\ Len(todo) = Len(F) + Len(R) /\ todo \in Seq(MainCalls)
          /\ \A i \in 1 .. Len(F) + Len(R) :
               todo[i] = IF i <= Len(F) THEN F[i] ELSE R[i - Len(F)]
      BY <1>2, <1>4, ConcatProperties
    <3>. QED
      BY <1>3, <3>1
  <2>2. DOMAIN F = 1 .. Len(F) /\ Len(F) \in Nat /\ DOMAIN todo = 1 .. Len(todo)
    BY <1>4, <2>1, LenProperties
  <2>3. \A i \in DOMAIN todo : i = Len(todo) \/ (i \in DOMAIN F /\ todo[i] = F[i])
    BY ONLY <2>1, <2>2
  <2>. QED
    BY <1>7, <2>3 DEF RegisterLast
<1>9. DOMAIN sent = {} /\ DOMAIN notifs = {}
  BY <1>1
<1>10. firstRun => registered = {}
  BY <1>1, Zenon
<1>. QED
  BY <1>8, <1>9, <1>10 DEF RegisterInv, NoDial

LEMMA RegisterLastStep ==
  ASSUME StartupBase, RegisterLast, [StartupNext]_startupVars
  PROVE  RegisterLast'
<1>1. ScriptTypes /\ todo \in Seq(MainCalls)
  BY DEF StartupBase, StartupTypes, ScriptTypes
<1>2. CASE UNCHANGED todo
  BY <1>2 DEF RegisterLast
<1>3. CASE todo # <<>> /\ todo' = Tail(todo)
  <2>1. /\ Len(todo) \in Nat /\ Len(todo') = Len(todo) - 1
        /\ \A i \in DOMAIN todo' : i \in Int /\ i + 1 \in DOMAIN todo /\ todo'[i] = todo[i + 1]
    BY ONLY <1>1, <1>3
  <2>. QED
    BY <2>1 DEF RegisterLast
<1>4. CASE todo # <<>> /\ todo' = Enabling \o Tail(todo)
  <2> DEFINE t == Tail(todo)
             r == Enabling \o t
  <2>1. t \in Seq(MainCalls) /\ Len(t) = Len(todo) - 1 /\ Len(todo) \in Nat
        /\ \A i \in DOMAIN t : i \in Int /\ i + 1 \in DOMAIN todo /\ t[i] = todo[i + 1]
    BY ONLY <1>1, <1>4
  <2>2. Enabling \in Seq(MainCalls) /\ Len(Enabling) = 2
    BY EnablingTypes, Zenon
  <2>3. Enabling[1].op = "setName" /\ Enabling[2].op = "enable"
    BY DEF Enabling, MainCall
  <2> HIDE DEF t
  <2>4. /\ Len(r) = 2 + Len(t) /\ r \in Seq(MainCalls)
        /\ \A i \in 1 .. 2 + Len(t) : r[i] = IF i <= 2 THEN Enabling[i] ELSE t[i - 2]
    <3>1. /\ Len(r) = Len(Enabling) + Len(t) /\ r \in Seq(MainCalls)
          /\ \A i \in 1 .. Len(Enabling) + Len(t) :
               r[i] = IF i <= Len(Enabling) THEN Enabling[i] ELSE t[i - Len(Enabling)]
      BY <2>1, <2>2, ConcatProperties
    <3> HIDE DEF r
    <3>. QED
      BY <2>2, <3>1
  <2>5. DOMAIN r = 1 .. Len(r) /\ DOMAIN t = 1 .. Len(t) /\ Len(t) \in Nat
    BY <2>1, <2>4, LenProperties
  <2>6. todo' = r
    BY <1>4 DEF t
  <2> HIDE DEF r
  <2>7. \A i \in DOMAIN r : \/ i = 1 /\ r[i] = Enabling[1]
                            \/ i = 2 /\ r[i] = Enabling[2]
                            \/ i - 2 \in DOMAIN t /\ r[i] = t[i - 2] /\ i \in Int
    BY ONLY <2>4, <2>5
  <2>8. ASSUME NEW i \in DOMAIN r, r[i].op = "register"
        PROVE  i = Len(r)
    <3>1. i - 2 \in DOMAIN t /\ r[i] = t[i - 2] /\ i \in Int
      BY <2>3, <2>7, <2>8
    <3>2. (i - 2) + 1 \in DOMAIN todo /\ todo[(i - 2) + 1].op = "register"
      BY <2>1, <2>8, <3>1
    <3>3. (i - 2) + 1 = Len(todo)
      BY <3>2 DEF RegisterLast
    <3>. QED
      BY <2>1, <2>4, <3>1, <3>3
  <2>. QED
    BY <2>6, <2>8 DEF RegisterLast
<1>5. CASE Main
  BY <1>1, <1>2, <1>3, <1>4, <1>5, ScriptChanges
<1>. QED
  BY <1>2, <1>5, Frames DEF mainVars, startupVars

(* Once main waits for its last call it makes no other.                    *)
LEMMA AtRegisterStays ==
  ASSUME StartupBase, RegisterLast, [StartupNext]_startupVars, AtRegister
  PROVE  AtRegister'
<1>1. ScriptTypes /\ todo \in Seq(MainCalls)
  BY DEF StartupBase, StartupTypes, ScriptTypes
<1>2. CASE UNCHANGED mainVars
  BY <1>2 DEF AtRegister, MainDone, mainVars
<1>3. CASE Main
  <2>1. todo # <<>>
    BY <1>1, <1>3
       DEF ScriptTypes, Main, BeginCall, MainCallReturns, GetEnabledReturns, FetchReturns,
           MainTimesOut, StorePlugin, PluginStored, StoreDial, DialStored, MainWaits
  <2>2. mainStep = "wait" /\ Head(todo).op = "register"
    BY <2>1 DEF AtRegister, MainDone
  <2>3. MainCallReturns \/ MainTimesOut
    BY <1>3, <2>2
       DEF Main, BeginCall, GetEnabledReturns, FetchReturns,
           StorePlugin, PluginStored, StoreDial, DialStored, MainWaits
  <2>4. todo' = Tail(todo)
    BY <2>3 DEF MainCallReturns, MainTimesOut, NextCall
  <2>5. Len(todo) = 1
    <3>1. 1 \in DOMAIN todo /\ Head(todo) = todo[1]
      BY <1>1, <2>1
    <3>. QED
      BY <2>2, <3>1 DEF RegisterLast
  <2>6. todo' = <<>>
    BY ONLY <1>1, <2>4, <2>5
  <2>. QED
    BY <2>6 DEF AtRegister, MainDone
<1>. QED
  BY <1>2, <1>3, Frames DEF startupVars

LEMMA RegisterSentStep ==
  ASSUME StartupBase, RegisterInv, [StartupNext]_startupVars
  PROVE  \A i \in DOMAIN sent' : sent'[i].op = "register" => AtRegister'
<1>1. sent \in Seq(AllRequests) /\ CallTypes
  BY DEF StartupBase, StartupTypes, CallTypes
<1>2. AtRegister => AtRegister'
  BY AtRegisterStays DEF RegisterInv
<1>3. \A i \in DOMAIN sent : sent[i].op = "register" => AtRegister'
  BY <1>2 DEF RegisterInv
<1>4. ASSUME NEW e \in AllRequests, sent' = Append(sent, e), e.op = "register" => AtRegister'
      PROVE  \A i \in DOMAIN sent' : sent'[i].op = "register" => AtRegister'
  <2>1. /\ DOMAIN sent' = DOMAIN sent \cup {Len(sent) + 1}
        /\ \A i \in DOMAIN sent : sent'[i] = sent[i]
        /\ sent'[Len(sent) + 1] = e
    BY ONLY <1>1, <1>4
  <2>. QED
    BY <1>3, <1>4, <2>1
<1>5. CASE UNCHANGED sent
  BY <1>3, <1>5
<1>6. CASE NewRequest("main")
  <2>1. PICK e \in AllRequests :
          /\ sent' = Append(sent, e)
          /\ mainStep' = "wait" /\ UNCHANGED todo /\ e.op = Head(todo).op
    BY <1>6 DEF NewRequest
  <2>2. e.op = "register" => AtRegister'
    BY <2>1 DEF AtRegister
  <2>. QED
    BY <1>4, <2>1, <2>2
<1>7. CASE NewRequest("loop")
  <2>1. PICK e \in AllRequests : sent' = Append(sent, e) /\ e.op \in Operations
    BY <1>7 DEF NewRequest
  <2>2. e.op # "register"
    BY <2>1 DEF Operations, Commands
  <2>. QED
    BY <1>4, <2>1, <2>2
<1>8. ASSUME NEW c \in {"loop", "main"}, sent' = Abandoned(c)
      PROVE  \A i \in DOMAIN sent' : sent'[i].op = "register" => AtRegister'
  BY <1>1, <1>3, <1>8, AbandonedAll
<1>9. CASE sent # <<>> /\ sent' = Tail(sent)
  <2>1. \A i \in DOMAIN sent' : i + 1 \in DOMAIN sent /\ sent'[i] = sent[i + 1]
    BY ONLY <1>1, <1>9
  <2>. QED
    BY <1>3, <2>1
<1>. QED
  BY <1>5, <1>6, <1>7, <1>8, <1>9, SentChanges

LEMMA NoDialStep ==
  ASSUME StartupBase, registered = {}, NoDial, [StartupNext]_startupVars
  PROVE  NoDial'
<1>1. notifs \in Seq(Notification)
  BY DEF StartupBase, StartupTypes, NotifTypes
<1>2. CASE UNCHANGED notifs
  BY <1>2 DEF NoDial
<1>3. ASSUME NEW n \in Notification, notifs' = Append(notifs, n), n.type \in {"controller", "shell"}
      PROVE  NoDial'
  <2>1. /\ DOMAIN notifs' = DOMAIN notifs \cup {Len(notifs) + 1}
        /\ \A i \in DOMAIN notifs : notifs'[i] = notifs[i]
        /\ notifs'[Len(notifs) + 1] = n
    BY ONLY <1>1, <1>3
  <2>. QED
    BY <1>3, <2>1 DEF NoDial
<1>4. ASSUME NEW a \in Apps, NEW s \in States, ChangeState(a, s)
      PROVE  NoDial'
  BY <1>2, <1>3, <1>4, ChangeStateNotifies
<1>5. CASE EnvironmentStep
  <2>1. ~Request
    BY DEF Request
  <2>2. PICK a \in Apps : Change(a)
    BY <1>5, <2>1 DEF EnvironmentStep
  <2>. QED
    BY <1>4, <2>2 DEF Change
<1>6. CASE Execute
  BY <1>2, <1>4, <1>6 DEF Execute, StatesAfter
<1>7. CASE LoopStep
  <2>1. UNCHANGED notifs \/ (notifs # <<>> /\ notifs' = Tail(notifs))
    BY <1>7 DEF LoopStep, OnRDKShellEvent, OnControllerStateChangeEvent, OnDialEvent,
                StatusReturns, LaunchReturns, LastCallReturns, CallTimesOut, NextOfType
  <2>2. CASE notifs # <<>> /\ notifs' = Tail(notifs)
    <3>1. \A i \in DOMAIN notifs' : i + 1 \in DOMAIN notifs /\ notifs'[i] = notifs[i + 1]
      BY ONLY <1>1, <2>2
    <3>. QED
      BY <3>1 DEF NoDial
  <2>. QED
    BY <1>2, <2>1, <2>2
<1>. QED
  BY <1>2, <1>5, <1>6, <1>7, Frames DEF startupVars, vars

LEMMA RegisterStep ==
  ASSUME StartupBase, RegisterInv, [StartupNext]_startupVars
  PROVE  RegisterInv'
<1>1. RegisterLast
  BY DEF RegisterInv
<1>2. RegisterLast'
  BY <1>1, RegisterLastStep
<1>3. AtRegister => AtRegister'
  BY <1>1, AtRegisterStays
<1>4. ASSUME firstRun', ~AtRegister'
      PROVE  registered' = {} /\ NoDial'
  <2>1. firstRun /\ ~AtRegister
    BY <1>3, <1>4, Frames, Zenon
  <2>2. registered = {} /\ NoDial
    BY <2>1 DEF RegisterInv
  <2>3. registered' = {}
    <3>1. ExecuteStartup => UNCHANGED registered \/ Head(sent).op = "register"
      BY Zenon DEF ExecuteStartup, ServeMain, RefuseMain, xcastVars
    <3>2. ExecuteStartup => Head(sent).op # "register"
      <4> SUFFICES ASSUME ExecuteStartup PROVE Head(sent).op # "register"
        OBVIOUS
      <4>1. sent # <<>> /\ sent \in Seq(AllRequests)
        BY DEF ExecuteStartup, ServeMain, RefuseMain, StartupBase, StartupTypes, CallTypes
      <4>2. Head(sent) = sent[1] /\ 1 \in DOMAIN sent
        BY ONLY <4>1
      <4>. QED
        BY <2>1, <4>2 DEF RegisterInv
    <3>3. UNCHANGED registered
      BY <3>1, <3>2, Frames DEF startupVars, vars, xcastVars
    <3>. QED
      BY <2>2, <3>3
  <2>. QED
    BY <2>2, <2>3, NoDialStep
<1>. QED
  BY <1>2, <1>4, RegisterSentStep DEF RegisterInv

(* In a first run no DIAL request is handled before main has written the   *)
(* last entry of the cache and built its last request: the order of the    *)
(* calls in main is what keeps the two threads apart, not a lock.          *)
THEOREM LoopServesAfterMainAlways == StartupSpec => LoopServesAfterMain
<1>1. ASSUME StartupBase, StartupBase', RegisterInv,
             firstRun, Len(notifs') < Len(notifs), Head(notifs).type = "dial"
      PROVE  AtRegister
  <2>1. notifs \in Seq(Notification) /\ notifs' \in Seq(Notification)
    BY <1>1 DEF StartupBase, StartupTypes, NotifTypes
  <2>2. 1 \in DOMAIN notifs /\ Head(notifs) = notifs[1]
    BY <1>1, <2>1
  <2>. QED
    BY <1>1, <2>2 DEF RegisterInv, NoDial
<1>2. ASSUME StartupBase, StartupBase', RegisterInv, [StartupNext]_startupVars
      PROVE  [firstRun /\ Len(notifs') < Len(notifs) /\ Head(notifs).type = "dial"
               => MainDone \/ (Head(todo).op = "register" /\ mainStep = "wait")]_startupVars
  BY <1>1, <1>2, Zenon DEF AtRegister
<1>. QED
  BY <1>2, InitRegister, RegisterStep, StartupInvariant, PTL DEF StartupSpec, LoopServesAfterMain

-----------------------------------------------------------------------------
(* The cache, once a notification has repaired it.                         *)

Busy(a) == mainStep \in Writing /\ Head(todo).arg = a

LEMMA NotifiedAboutIn ==
  ASSUME NEW a
  PROVE  (Notified(a) <=> AboutIn(notifs, a)) /\ (Notified(a)' <=> AboutIn(notifs', a))
BY DEF Notified, AboutIn

(* What Thunder and XCast do to the states and to what is told of them.    *)
Telling ==
  /\ HeardInv'
  /\ \A b \in Apps : Notified(b) => Notified(b)'
  /\ \A b \in Apps \ unheard' : (b \notin unheard /\ truth'[b] = truth[b]) \/ Notified(b)'

LEMMA ChangeStateTelling ==
  ASSUME TruthTypes, NotifTypes, HeardInv, RecordUnheard,
         NEW a \in Apps, NEW s \in States, ChangeState(a, s)
  PROVE  Telling
<1>1. /\ \A b \in Apps \ {a} : truth'[b] = truth[b]
      /\ \A b \in Apps : Notified(b) => Notified(b)'
      /\ \A b \in Apps \ {a} : Tells(b) => Tells(b)'
      /\ UNCHANGED notifs \/ (Notified(a)' /\ Tells(a)')
  BY ChangeStateTells
<1>2. ASSUME NEW b \in Apps, b \notin unheard'
      PROVE  Tells(b)' /\ ((b \notin unheard /\ truth'[b] = truth[b]) \/ Notified(b)')
  <2>1. IF truth'[b] = truth[b] THEN b \notin unheard ELSE notifs' # notifs
    BY <1>2 DEF RecordUnheard
  <2>2. CASE b # a
    BY <1>1, <2>1, <2>2 DEF HeardInv
  <2>3. CASE b = a
    <3>1. CASE UNCHANGED notifs
      <4>1. b \notin unheard /\ truth'[b] = truth[b]
        BY <2>1, <3>1
      <4>2. Tells(b)
        BY <4>1 DEF HeardInv
      <4>. QED
        BY <3>1, <4>1, <4>2 DEF Tells
    <3>. QED
      BY <1>1, <2>3, <3>1
  <2>. QED
    BY <2>2, <2>3
<1>. QED
  BY <1>1, <1>2 DEF Telling, HeardInv

(* Without a change of state, what went unheard stays as it is. *)
LEMMA StillUnheard ==
  ASSUME StartupBase, [StartupNext]_startupVars, UNCHANGED truth
  PROVE  UNCHANGED unheard
<1>1. CASE UNCHANGED startupVars
  BY <1>1 DEF startupVars
<1>2. CASE RecordUnheard
  <2>1. unheard \subseteq Apps
    BY DEF StartupBase, StartupTypes, HeardTypes
  <2>. QED
    BY <1>2, <2>1 DEF RecordUnheard
<1>. QED
  BY <1>1, <1>2, Frames

LEMMA ThunderTelling ==
  ASSUME StartupBase, HeardInv, [StartupNext]_startupVars, RecordUnheard,
         EnvironmentStep \/ Execute
  PROVE  Telling
<1>1. TruthTypes /\ NotifTypes /\ XcastTypes
  BY DEF StartupBase, StartupTypes
<1>2. CASE UNCHANGED <<truth, notifs>>
  <2>1. UNCHANGED unheard
    BY <1>2, StillUnheard
  <2>. QED
    BY <1>2, <2>1 DEF Telling, HeardInv, Tells, Notified
<1>3. CASE \E a \in Apps : Change(a)
  BY <1>1, <1>3, ChangeStateTelling DEF Change
<1>4. CASE Request
  <2>1. PICK a \in registered, q \in DialRequests : notifs' = Append(notifs, DialRequest(a, q))
    BY <1>4 DEF Request
  <2> DEFINE n == DialRequest(a, q)
  <2>2. n \in Notification /\ n.type = "dial"
    BY <1>1, <2>1 DEF XcastTypes, Notification, DialRequest
  <2> HIDE DEF n
  <2>3. \A b : ~About(n, b)
    BY <2>2 DEF About
  <2>4. UNCHANGED truth
    BY <1>4 DEF Request
  <2>5. notifs \in Seq(Notification) /\ notifs' = Append(notifs, n)
    BY <1>1, <2>1 DEF NotifTypes, n
  <2>6. UNCHANGED unheard
    BY <2>4, StillUnheard
  <2>7. ASSUME NEW b \in Apps
        PROVE  (Notified(b)' <=> Notified(b)) /\ (Tells(b) => Tells(b)')
    BY <2>2, <2>3, <2>4, <2>5, AppendOther, NotifiedAboutIn DEF Tells
  <2>. QED
    BY <2>4, <2>6, <2>7 DEF Telling, HeardInv
<1>5. CASE Execute
  <2>1. CASE \E a \in Apps, s \in States : ChangeState(a, s)
    BY <1>1, <2>1, ChangeStateTelling
  <2>. QED
    BY <1>2, <1>5, <2>1 DEF Execute, StatesAfter
<1>. QED
  BY <1>3, <1>4, <1>5 DEF EnvironmentStep

LEMMA ThunderEventStep ==
  ASSUME StartupBase, EventInv, [StartupNext]_startupVars, RecordUnheard,
         EnvironmentStep \/ Execute,
         UNCHANGED <<m_dialApps, mainVars, lastWriter>>
  PROVE  EventInv'
<1>1. Telling
  BY ThunderTelling DEF EventInv
<1>2. UNCHANGED <<m_dialApps, mainStep, todo, lastWriter>>
  BY DEF mainVars
<1>3. ASSUME NEW b \in Apps, b \notin unheard', lastWriter'[b] = "event", ~Busy(b)'
      PROVE  Current(b)' \/ Notified(b)'
  <2>1. CASE b \notin unheard /\ truth'[b] = truth[b]
    <3>1. Current(b) \/ Notified(b)
      BY <1>2, <1>3, <2>1 DEF EventInv, EventWins, Busy
    <3>. QED
      BY <1>1, <1>2, <2>1, <3>1 DEF Current, Telling
  <2>. QED
    BY <1>1, <1>3, <2>1 DEF Telling
<1>. QED
  BY <1>1, <1>3 DEF EventInv, EventWins, Busy, Telling

(* A step that tells nothing new, by what it does to the cache.            *)
LEMMA QuietEventStep ==
  ASSUME StartupBase, EventInv, [StartupNext]_startupVars, UNCHANGED <<truth, notifs>>,
         \A b \in Apps :
           \/ lastWriter'[b] # "event"
           \/ lastWriter[b] = "event" /\ Busy(b)'
           \/ lastWriter[b] = "event" /\ ~Busy(b) /\ m_dialApps'[b] = m_dialApps[b]
  PROVE  EventInv'
<1>1. \A b \in Apps : Notified(b)' <=> Notified(b)
  BY DEF Notified
<1>2. UNCHANGED unheard
  BY StillUnheard
<1>3. HeardInv'
  BY <1>2 DEF EventInv, HeardInv, Tells
<1>4. EventWins'
  BY <1>1, <1>2 DEF EventInv, EventWins, Current, Busy
<1>. QED
  BY <1>3, <1>4 DEF EventInv

LEMMA MainEventStep ==
  ASSUME StartupBase, EventInv, [StartupNext]_startupVars,
         Main, UNCHANGED <<truth, notifs>>
  PROVE  EventInv'
<1>1. WriterTypes
  BY DEF StartupBase, StartupTypes
<1>3. ASSUME NEW b \in Apps
      PROVE  \/ lastWriter'[b] # "event"
             \/ lastWriter[b] = "event" /\ Busy(b)'
             \/ lastWriter[b] = "event" /\ ~Busy(b) /\ m_dialApps'[b] = m_dialApps[b]
  <2>1. CASE StorePlugin \/ StoreDial
    <3>1. UNCHANGED <<todo, lastWriter>> /\ mainStep' \in Writing
      BY <2>1 DEF StorePlugin, StoreDial, Writing
    <3>2. b # Head(todo).arg => m_dialApps'[b] = m_dialApps[b]
      BY <2>1, <1>3 DEF StorePlugin, StoreDial, StartupBase, StartupTypes, SharedTypes
    <3>. QED
      BY <3>1, <3>2 DEF Busy
  <2>2. CASE PluginStored \/ DialStored
    <3>1. lastWriter' = [lastWriter EXCEPT ![Head(todo).arg] = "main"]
      BY <2>2 DEF PluginStored, DialStored
    <3>2. b = Head(todo).arg => lastWriter'[b] = "main"
      BY <1>1, <3>1 DEF WriterTypes
    <3>3. b # Head(todo).arg => lastWriter'[b] = lastWriter[b]
      BY <1>1, <3>1 DEF WriterTypes
    <3>4. b # Head(todo).arg => m_dialApps'[b] = m_dialApps[b]
      BY <2>2 DEF PluginStored, DialStored, StartupBase, StartupTypes, SharedTypes
    <3>. QED
      BY <3>2, <3>3, <3>4 DEF Busy
  <2>3. CASE BeginCall \/ MainCallReturns \/ GetEnabledReturns \/ FetchReturns \/ MainTimesOut
    <3>1. UNCHANGED <<m_dialApps, lastWriter>>
      BY <2>3 DEF BeginCall, MainCallReturns, GetEnabledReturns, FetchReturns, MainTimesOut, vars
    <3>2. mainStep \notin Writing
      BY <2>3 DEF BeginCall, MainCallReturns, GetEnabledReturns, FetchReturns, MainTimesOut,
                  MainWaits, Writing
    <3>. QED
      BY <3>1, <3>2 DEF Busy
  <2>. QED
    BY <2>1, <2>2, <2>3 DEF Main
<1>. QED
  BY <1>3, QuietEventStep

LEMMA LoopEventStep ==
  ASSUME StartupBase, EventInv, [StartupNext]_startupVars,
         LoopStep, UNCHANGED <<truth, mainVars>>
  PROVE  EventInv'
<1>1. NotifTypes /\ WriterTypes /\ HeardInv
  BY DEF StartupBase, StartupTypes, EventInv
<1>2. IsFunctionOnApps
  BY DEF StartupBase, StartupTypes, SharedTypes, IsFunctionOnApps
<1>3. UNCHANGED <<mainStep, todo, unheard>>
  BY StillUnheard DEF mainVars
<1>4. \A b \in Apps : Busy(b)' <=> Busy(b)
  BY <1>3 DEF Busy
<1>5. CASE /\ OnRDKShellEvent \/ OnControllerStateChangeEvent
           /\ lastWriter' = [lastWriter EXCEPT ![Head(notifs).app] = "event"]
  <2>1. /\ notifs # <<>> /\ notifs' = Tail(notifs)
        /\ Oldest.app \in Apps /\ About(Oldest, Oldest.app)
    BY <1>1, <1>2, <1>5, SmartMonitorAssumption, EventCached
  <2>2. HeardInv'
    BY <1>1, <1>3, <2>1, TailLast DEF HeardInv
  <2>3. \A b \in Apps : b # Oldest.app => lastWriter'[b] = lastWriter[b]
    BY <1>1, <1>5 DEF WriterTypes, Oldest
  <2>4. ASSUME NEW b \in Apps, b \notin unheard', lastWriter'[b] = "event", ~Busy(b)'
        PROVE  Current(b)' \/ Notified(b)'
    <3>1. CASE b = Oldest.app
      <4>1. Tells(b)
        BY <1>1, <1>3, <2>4 DEF HeardInv
      <4>. QED
        BY <1>1, <1>2, <1>5, <3>1, <4>1, SmartMonitorAssumption, EventCorrects
    <3>2. CASE b # Oldest.app
      <4>1. Current(b) \/ Notified(b)
        BY <1>3, <1>4, <2>3, <2>4, <3>2 DEF EventInv, EventWins, Busy
      <4>2. m_dialApps'[b] = m_dialApps[b] /\ (Notified(b)' <=> Notified(b))
        BY <1>1, <1>2, <1>5, <3>2, SmartMonitorAssumption, EventCorrects
      <4>3. Current(b) => Current(b)'
        BY <4>2 DEF Current
      <4>. QED
        BY <4>1, <4>2, <4>3
    <3>. QED
      BY <3>1, <3>2
  <2>. QED
    BY <2>2, <2>4 DEF EventInv, EventWins, Busy
<1>6. CASE StatusReturns /\ lastWriter' = [lastWriter EXCEPT ![current.app] = "fetch"]
  <2>1. UNCHANGED notifs
    BY <1>6 DEF StatusReturns
  <2>2. \A b \in Apps : b = current.app => lastWriter'[b] = "fetch"
    BY <1>1, <1>6 DEF WriterTypes
  <2>3. \A b \in Apps : b # current.app =>
          lastWriter'[b] = lastWriter[b] /\ m_dialApps'[b] = m_dialApps[b]
    BY <1>1, <1>2, <1>6 DEF WriterTypes, StatusReturns, Update, IsFunctionOnApps
  <2>. QED
    BY <1>4, <2>1, <2>2, <2>3, QuietEventStep
<1>7. CASE OnDialEvent /\ UNCHANGED lastWriter
  <2>1. NextOfType("dial") /\ UNCHANGED m_dialApps
    BY <1>7 DEF OnDialEvent
  <2>2. \A b \in Apps : Notified(b)' <=> Notified(b)
    BY <1>1, <2>1, DialHead
  <2>3. HeardInv'
    BY <1>1, <1>3, <2>1, TailLast DEF NextOfType, HeardInv
  <2>4. EventWins'
    BY <1>3, <1>7, <2>1, <2>2 DEF EventInv, EventWins, Current
  <2>. QED
    BY <2>3, <2>4 DEF EventInv
<1>8. CASE (LaunchReturns \/ LastCallReturns \/ CallTimesOut) /\ UNCHANGED lastWriter
  <2>1. UNCHANGED <<notifs, m_dialApps>>
    BY <1>8 DEF LaunchReturns, LastCallReturns, CallTimesOut
  <2>. QED
    BY <1>4, <1>8, <2>1, QuietEventStep
<1>. QED
  BY <1>5, <1>6, <1>7, <1>8 DEF LoopStep

LEMMA EventStep ==
  ASSUME StartupBase, EventInv, [StartupNext]_startupVars
  PROVE  EventInv'
<1>1. CASE ExecuteStartup /\ UNCHANGED <<truth, notifs, m_dialApps, step, current, mainVars, lastWriter>>
  <2>1. \A b \in Apps : Busy(b)' <=> Busy(b)
    BY <1>1 DEF Busy, mainVars
  <2>. QED
    BY <1>1, <2>1, QuietEventStep
<1>2. CASE UNCHANGED startupVars
  <2>1. \A b \in Apps : Busy(b)' <=> Busy(b)
    BY <1>2 DEF Busy, mainVars, startupVars
  <2>. QED
    BY <1>2, <2>1, QuietEventStep DEF startupVars, vars
<1>. QED
  BY <1>1, <1>2, ThunderEventStep, MainEventStep, LoopEventStep, Frames

LEMMA InitEvent ==
  ASSUME StartupInit
  PROVE  EventInv
<1>1. notifs = <<>> /\ lastWriter = [a \in Apps |-> "none"]
  BY DEF StartupInit, InitCommon
<1>2. DOMAIN notifs = {}
  BY <1>1
<1>3. \A a \in Apps : lastWriter[a] # "event"
  BY <1>1
<1>4. HeardInv
  BY <1>2 DEF HeardInv, Tells, LastTells
<1>. QED
  BY <1>3, <1>4 DEF EventInv, EventWins

(* Whatever main and late answers of Thunder do to an entry, and whichever *)
(* subscriptions were made or lost, a notification that is handled repairs *)
(* it: it stays right, or the next notification is under way, until main   *)
(* or an answer writes it again, or a change of state is not notified.     *)
THEOREM EventWinsAlways == StartupSpec => []EventWins
<1>1. ASSUME StartupBase, EventInv, [StartupNext]_startupVars
      PROVE  EventInv'
  BY <1>1, EventStep
<1>2. EventInv => EventWins
  BY DEF EventInv
<1>. QED
  BY <1>1, <1>2, InitEvent, StartupInvariant, PTL DEF StartupSpec

=============================================================================
