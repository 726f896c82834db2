------------------------- MODULE SmartMonitorProofs -------------------------
(***************************************************************************)
(* Theorems about SmartMonitor, for any applications, plugin states and    *)
(* notifications of RDKShell, and any number of changes and requests.      *)
(***************************************************************************)
EXTENDS SmartMonitor, SequenceTheorems, TLAPS

(* The hypothesis on Thunder: its status answer spells every state in a    *)
(* way that convertPluginStateToDIALState knows.  (With the capitalised    *)
(* spelling of the comments it is false, and so is KeepsTracking.)         *)
StatusConverts ==
  \A s \in States :
    ConvertPluginStateToDIALState(StatusState(s)) = ConvertPluginStateToDIALState(s)

(* The DIAL state a notification leaves in the cache. *)
Means(n) ==
  IF n.type = "controller" THEN ConvertPluginStateToDIALState(n.state)
                           ELSE ShellEventState(n.event)

(* A queue has a notification about a; the last one about a means d. *)
AboutIn(q, a) == \E i \in DOMAIN q : About(q[i], a)
LastTells(q, a, d) ==
  \A i \in DOMAIN q :
    About(q[i], a) /\ (\A j \in DOMAIN q : j > i => ~About(q[j], a)) => Means(q[i]) = d

(* The last notification about an application tells its state. *)
Tells(a) == LastTells(notifs, a, ConvertPluginStateToDIALState(truth[a]))
LastInv == \A a \in Apps : Tells(a)

(* A request of the event loop that was not executed yet is the one it     *)
(* waits for.                                                              *)
OwnRequest(i) ==
  /\ step = sent[i].op
  /\ current.app = sent[i].app
  /\ answer["loop"] = ""
  /\ \A j \in DOMAIN sent : sent[j].caller = "loop" => j = i
SentInv == \A i \in DOMAIN sent : sent[i].caller = "loop" => OwnRequest(i)

(* Only for an application with an entry is there a state to be had.       *)
AskedInv == step = "status" /\ GotState => current.app \in Apps

(* The answer to a status request was right when it was given. *)
AnswerInv ==
  step = "status" /\ GotState =>
    \/ ConvertPluginStateToDIALState(answer["loop"])
          = ConvertPluginStateToDIALState(truth[current.app])
    \/ Notified(current.app)

(* TypeOK in parts. *)
Requests == [op : Operations, app : Names, caller : {"loop", "nobody"}]
CacheEntries == [plugin : CachedStates, dial : DialStates \cup {"unknown"}]
TruthTypes == truth \in [Apps -> States]
SubscribedTypes == subscribed = Events /\ registered = Names
NotifTypes == notifs \in Seq(Notification)
SentTypes == sent \in Seq(Requests)
AnswerTypes == answer \in [{"loop", "main"} -> Answers]
StepTypes ==
  /\ step \in {"idle"} \cup Operations
  /\ step # "idle" => current \in [app : Names, request : DialRequests]
CacheTypes == m_dialApps \in [Apps -> CacheEntries]
CountTypes == changes \in 0 .. MaxChanges /\ requests \in 0 .. MaxRequests

Types ==
  /\ TruthTypes /\ SubscribedTypes /\ NotifTypes /\ SentTypes
  /\ AnswerTypes /\ StepTypes /\ CacheTypes /\ CountTypes

(* What is inductive whatever Thunder's spelling. *)
BaseInv == Types /\ SentInv /\ AskedInv /\ LastInv

-----------------------------------------------------------------------------
(* The conversions (AppStates).                                            *)

LEMMA PluginStateConverts ==
  ASSUME NEW s \in PluginStates
  PROVE  ConvertPluginStateToDIALState(s) \in {"stopped", "running", "suspended"}
BY DEF PluginStates, StoppedStates, RunningStates, SuspendedStates, DialStates,
       ConvertPluginStateToDIALState

(* The conversion knows the DIAL states, and leaves them as they are. *)
LEMMA DialStateConverts ==
  ASSUME NEW s \in {"stopped", "running", "suspended"}
  PROVE  ConvertPluginStateToDIALState(s) = s
BY DEF StoppedStates, RunningStates, SuspendedStates, DialStates,
       ConvertPluginStateToDIALState

LEMMA ConversionRange ==
  ASSUME NEW s
  PROVE  ConvertPluginStateToDIALState(s) \in DialStates \cup {"none"}
BY DEF StoppedStates, RunningStates, SuspendedStates, DialStates,
       ConvertPluginStateToDIALState

LEMMA ConvertedRange ==
  ASSUME NEW s, NEW d \in DialStates \cup {"unknown"}
  PROVE  Converted(s, d) \in DialStates \cup {"unknown"}
BY ConversionRange DEF Converted

LEMMA ShellStates ==
  ASSUME NEW e
  PROVE  ShellEventState(e) \in {"stopped", "running", "suspended"}
BY DEF ShellEventState

-----------------------------------------------------------------------------
(* Queues of notifications.                                                *)

(* A new notification about a is the last one about a. *)
LEMMA AppendAbout ==
  ASSUME NEW S, NEW q \in Seq(S), NEW n \in S, NEW a, About(n, a)
  PROVE  AboutIn(Append(q, n), a) /\ LastTells(Append(q, n), a, Means(n))
<1> DEFINE r == Append(q, n)
<1>1. /\ Len(q) \in Nat /\ DOMAIN q = 1 .. Len(q)
      /\ DOMAIN r = 1 .. Len(q) + 1
      /\ r[Len(q) + 1] = n
  OBVIOUS
<1>2. Len(q) + 1 \in DOMAIN r /\ \A i \in DOMAIN r : i = Len(q) + 1 \/ Len(q) + 1 > i
  BY <1>1
<1> HIDE DEF r
<1>. QED
  BY <1>1, <1>2 DEF AboutIn, LastTells, r

(* One that is not changes nothing about a. *)
LEMMA AppendOther ==
  ASSUME NEW S, NEW q \in Seq(S), NEW n \in S, NEW a, NEW d, ~About(n, a)
  PROVE  /\ AboutIn(Append(q, n), a) <=> AboutIn(q, a)
         /\ LastTells(q, a, d) => LastTells(Append(q, n), a, d)
<1> DEFINE r == Append(q, n)
<1>1. /\ Len(q) \in Nat /\ DOMAIN q = 1 .. Len(q)
      /\ DOMAIN r = 1 .. Len(q) + 1
      /\ r[Len(q) + 1] = n
      /\ \A i \in DOMAIN q : r[i] = q[i]
  OBVIOUS
<1>2. DOMAIN r = DOMAIN q \cup {Len(q) + 1}
  BY <1>1
<1> HIDE DEF r
<1>3. AboutIn(r, a) <=> AboutIn(q, a)
  BY <1>1, <1>2 DEF AboutIn
<1>4. LastTells(q, a, d) => LastTells(r, a, d)
  BY <1>1, <1>2 DEF LastTells
<1>. QED
  BY <1>3, <1>4 DEF r

(* The queue without the oldest. *)
LEMMA TailAt ==
  ASSUME NEW S, NEW q \in Seq(S), q # <<>>
  PROVE  /\ Head(q) = q[1] /\ 1 \in DOMAIN q
         /\ \A i \in DOMAIN Tail(q) : /\ i \in Int /\ i + 1 \in DOMAIN q
                                      /\ Tail(q)[i] = q[i + 1]
         /\ \A i \in DOMAIN q : i \in Int /\ (i = 1 \/ (i - 1 \in DOMAIN Tail(q)
                                                     /\ q[i] = Tail(q)[i - 1]))
<1>1. /\ Len(q) \in Nat \ {0} /\ DOMAIN q = 1 .. Len(q)
      /\ DOMAIN Tail(q) = 1 .. Len(q) - 1
      /\ \A i \in DOMAIN Tail(q) : Tail(q)[i] = q[i + 1]
      /\ Head(q) = q[1]
  OBVIOUS
<1>2. \A i \in DOMAIN q : i = 1 \/ i - 1 \in DOMAIN Tail(q)
  BY <1>1
<1>3. \A i \in DOMAIN q : i = 1 \/ q[i] = Tail(q)[i - 1]
  BY <1>1, <1>2
<1>. QED
  BY <1>1, <1>2, <1>3

(* It has no notification about a less, unless that was the oldest. *)
LEMMA TailAbout ==
  ASSUME NEW S, NEW q \in Seq(S), q # <<>>, NEW a
  PROVE  /\ AboutIn(Tail(q), a) => AboutIn(q, a)
         /\ ~About(Head(q), a) => (AboutIn(Tail(q), a) <=> AboutIn(q, a))
<1> DEFINE r == Tail(q)
<1>1. /\ Head(q) = q[1]
      /\ \A i \in DOMAIN r : i + 1 \in DOMAIN q /\ r[i] = q[i + 1]
      /\ \A i \in DOMAIN q : i = 1 \/ (i - 1 \in DOMAIN r /\ q[i] = r[i - 1])
  BY TailAt
<1> HIDE DEF r
<1>. QED
  BY <1>1 DEF AboutIn, r

(* The last one about a is still there, or it was the oldest.              *)
LEMMA TailTells ==
  ASSUME NEW S, NEW q \in Seq(S), q # <<>>, NEW a, NEW d, LastTells(q, a, d)
  PROVE  /\ LastTells(Tail(q), a, d)
         /\ About(Head(q), a) /\ ~AboutIn(Tail(q), a) => Means(Head(q)) = d
<1> DEFINE r == Tail(q)
<1>1. /\ Head(q) = q[1] /\ 1 \in DOMAIN q
      /\ \A i \in DOMAIN r : i \in Int /\ i + 1 \in DOMAIN q /\ r[i] = q[i + 1]
      /\ \A i \in DOMAIN q : i \in Int /\ (i = 1 \/ (i - 1 \in DOMAIN r /\ q[i] = r[i - 1]))
  BY TailAt
<1> HIDE DEF r
<1>2. LastTells(r, a, d)
  <2>1. ASSUME NEW i \in DOMAIN r, About(r[i], a), \A j \in DOMAIN r : j > i => ~About(r[j], a)
        PROVE  Means(r[i]) = d
    <3>1. i + 1 \in DOMAIN q /\ q[i + 1] = r[i]
      BY <1>1
    <3>2. ASSUME NEW j \in DOMAIN q, j > i + 1
          PROVE  ~About(q[j], a)
      <4>1. j - 1 \in DOMAIN r /\ q[j] = r[j - 1] /\ j - 1 > i
        BY <1>1, <3>2
      <4>. QED
        BY <2>1, <4>1
    <3>. QED
      BY <2>1, <3>1, <3>2 DEF LastTells
  <2>. QED
    BY <2>1 DEF LastTells
<1>3. ASSUME About(q[1], a), ~AboutIn(r, a)
      PROVE  Means(q[1]) = d
  <2>1. \A j \in DOMAIN q : j > 1 => ~About(q[j], a)
    <3>1. \A j \in DOMAIN q : j > 1 => j - 1 \in DOMAIN r /\ q[j] = r[j - 1]
      BY <1>1
    <3>. QED
      BY <1>3, <3>1 DEF AboutIn
  <2>. QED
    BY <1>1, <1>3, <2>1 DEF LastTells
<1>. QED
  BY <1>1, <1>2, <1>3 DEF r

(* A change of state is notified, if an event for it is subscribed to.     *)
LEMMA ChangeStateNotifies ==
  ASSUME NEW a \in Apps, NEW s \in States, ChangeState(a, s)
  PROVE  \/ Notifications(a, s) = {} /\ UNCHANGED notifs
         \/ \E n \in Notification :
              /\ Notifications(a, s) # {}
              /\ notifs' = Append(notifs, n)
              /\ EventOf(n) \in subscribed /\ n.type \in {"controller", "shell"}
              /\ n.app = a
              /\ Means(n) = ConvertPluginStateToDIALState(s)
<1>1. CASE Notifications(a, s) = {}
  BY <1>1 DEF ChangeState
<1>2. CASE Notifications(a, s) # {}
  <2>1. PICK n \in Notifications(a, s) : notifs' = Append(notifs, n)
    BY <1>2 DEF ChangeState
  <2>2. n = StateChange(a, s) \/ \E e \in ShellNames : n = ShellEvent(a, e)
    BY DEF Notifications
  <2>3. n \in Notification /\ n.type \in {"controller", "shell"} /\ n.app = a
    BY <2>2 DEF StateChange, ShellEvent, Notification
  <2>4. Means(n) = ConvertPluginStateToDIALState(s)
    <3>1. n = StateChange(a, s) \/ (n.type = "shell"
             /\ ShellEventState(n.event) = ConvertPluginStateToDIALState(s))
      BY DEF Notifications, ShellEvent
    <3>. QED
      BY <3>1 DEF Means, StateChange
  <2>5. EventOf(n) \in subscribed
    BY DEF Notifications
  <2>. QED
    BY <1>2, <2>1, <2>3, <2>4, <2>5
<1>. QED
  BY <1>1, <1>2

LEMMA ChangeStateTypes ==
  ASSUME TruthTypes, NotifTypes, NEW a \in Apps, NEW s \in States, ChangeState(a, s)
  PROVE  TruthTypes' /\ NotifTypes'
<1>1. TruthTypes'
  BY DEF TruthTypes, ChangeState
<1>2. notifs' \in Seq(Notification)
  BY ChangeStateNotifies DEF NotifTypes
<1>. QED
  BY <1>1, <1>2 DEF NotifTypes

(* A change of state that is notified is the last one told, and nothing    *)
(* else becomes of the notifications about another application.            *)
LEMMA ChangeStateTells ==
  ASSUME TruthTypes, NotifTypes, NEW a \in Apps, NEW s \in States, ChangeState(a, s)
  PROVE  /\ TruthTypes' /\ NotifTypes'
         /\ truth'[a] = s /\ \A b \in Apps \ {a} : truth'[b] = truth[b]
         /\ \A b \in Apps : Notified(b) => Notified(b)'
         /\ \A b \in Apps \ {a} : Tells(b) => Tells(b)'
         /\ \/ Notifications(a, s) = {} /\ UNCHANGED notifs
            \/ Notified(a)' /\ Tells(a)'
<1> USE DEF NotifTypes
<1>1. truth' \in [Apps -> States] /\ truth'[a] = s /\ \A b \in Apps \ {a} : truth'[b] = truth[b]
  BY DEF ChangeState, TruthTypes
<1>2. \A b : (Notified(b) <=> AboutIn(notifs, b)) /\ (Notified(b)' <=> AboutIn(notifs', b))
  BY DEF Notified, AboutIn
<1>3. CASE Notifications(a, s) = {}
  <2>1. notifs' = notifs
    BY <1>3 DEF ChangeState
  <2>2. \A b \in Apps \ {a} : Tells(b) => Tells(b)'
    BY <1>1, <2>1 DEF Tells
  <2>. QED
    BY <1>1, <1>2, <1>3, <2>1, <2>2 DEF TruthTypes
<1>4. CASE Notifications(a, s) # {}
  <2>1. PICK n \in Notification :
          /\ notifs' = Append(notifs, n)
          /\ n.type \in {"controller", "shell"} /\ n.app = a
          /\ Means(n) = ConvertPluginStateToDIALState(s)
    BY <1>4, ChangeStateNotifies
  <2>2. About(n, a) /\ \A b \in Apps \ {a} : ~About(n, b)
    BY <2>1 DEF About
  <2>3. notifs' \in Seq(Notification)
    BY <2>1
  <2>4. AboutIn(notifs', a) /\ LastTells(notifs', a, ConvertPluginStateToDIALState(s))
    BY <2>1, <2>2, AppendAbout
  <2>5. Tells(a)'
    BY <1>1, <2>4 DEF Tells
  <2>6. ASSUME NEW b \in Apps \ {a}
        PROVE  (AboutIn(notifs, b) => AboutIn(notifs', b)) /\ (Tells(b) => Tells(b)')
    BY <1>1, <2>1, <2>2, AppendOther DEF Tells
  <2>. QED
    BY <1>1, <1>2, <2>3, <2>4, <2>5, <2>6 DEF TruthTypes
<1>. QED
  BY <1>3, <1>4

-----------------------------------------------------------------------------
(* The event loop's handling of state notifications.                       *)

IsFunctionOnApps == m_dialApps = [a \in Apps |-> m_dialApps[a]]
Oldest == Head(notifs)

(* A state notification puts what it means into the entry it is about.     *)
LEMMA EventCached ==
  ASSUME SmartMonitorAssumption, NotifTypes, IsFunctionOnApps,
         OnRDKShellEvent \/ OnControllerStateChangeEvent
  PROVE  /\ notifs # <<>> /\ notifs' = Tail(notifs) /\ UNCHANGED truth
         /\ Oldest.app \in Apps /\ About(Oldest, Oldest.app)
         /\ \E plugin \in DialStates \cup States :
              m_dialApps' = [m_dialApps EXCEPT ![Oldest.app] =
                               [plugin |-> plugin, dial |-> Means(Oldest)]]
         /\ Means(Oldest) \in {"stopped", "running", "suspended"}
<1>1. notifs # <<>> /\ notifs' = Tail(notifs) /\ Oldest \in Notification /\ UNCHANGED truth
  BY HeadTailProperties
     DEF OnRDKShellEvent, OnControllerStateChangeEvent, NextOfType, NotifTypes, Oldest
<1>2. CASE OnRDKShellEvent
  <2>1. Oldest.type = "shell"
    BY <1>2 DEF OnRDKShellEvent, NextOfType, Oldest
  <2>2. Oldest.app \in Apps
    BY <1>1, <2>1 DEF Notification
  <2>3. /\ Means(Oldest) = ShellEventState(Oldest.event)
        /\ Means(Oldest) \in {"stopped", "running", "suspended"}
    BY <2>1, ShellStates DEF Means
  <2>4. Converted(Means(Oldest), m_dialApps[Oldest.app].dial) = Means(Oldest)
    BY <2>3, DialStateConverts DEF Converted
  <2>5. m_dialApps' = [m_dialApps EXCEPT ![Oldest.app] =
                         [plugin |-> Means(Oldest), dial |-> Means(Oldest)]]
    BY <1>2, <2>3, <2>4 DEF OnRDKShellEvent, Update, Oldest
  <2>6. Means(Oldest) \in DialStates
    BY <2>3 DEF DialStates
  <2>7. About(Oldest, Oldest.app)
    BY <2>1 DEF About
  <2>8. \E plugin \in DialStates \cup States :
          m_dialApps' = [m_dialApps EXCEPT ![Oldest.app] =
                           [plugin |-> plugin, dial |-> Means(Oldest)]]
    BY <2>5, <2>6, Zenon
  <2>. QED
    BY <1>1, <2>2, <2>3, <2>7, <2>8
<1>3. CASE OnControllerStateChangeEvent
  <2>1. Oldest.type = "controller"
    BY <1>3 DEF OnControllerStateChangeEvent, NextOfType, Oldest
  <2>2. Oldest.app \in Apps /\ Oldest.state \in States
    BY <1>1, <2>1 DEF Notification
  <2>3. /\ Means(Oldest) = ConvertPluginStateToDIALState(Oldest.state)
        /\ Means(Oldest) \in {"stopped", "running", "suspended"}
    BY <2>1, <2>2, PluginStateConverts, SmartMonitorAssumption DEF Means
  <2>4. m_dialApps' = [m_dialApps EXCEPT ![Oldest.app] =
                         [plugin |-> Oldest.state, dial |-> Means(Oldest)]]
    BY <1>3, <2>3 DEF OnControllerStateChangeEvent, Update, Oldest
  <2>5. About(Oldest, Oldest.app)
    BY <2>1 DEF About
  <2>6. \E plugin \in DialStates \cup States :
          m_dialApps' = [m_dialApps EXCEPT ![Oldest.app] =
                           [plugin |-> plugin, dial |-> Means(Oldest)]]
    BY <2>2, <2>4, Zenon
  <2>. QED
    BY <1>1, <2>2, <2>3, <2>5, <2>6
<1>. QED
  BY <1>2, <1>3

(* After it, the entry is right or another notification is on its way.     *)
LEMMA EventCorrects ==
  ASSUME SmartMonitorAssumption, NotifTypes, IsFunctionOnApps,
         OnRDKShellEvent \/ OnControllerStateChangeEvent,
         NEW b \in Apps
  PROVE  /\ b = Oldest.app /\ Tells(b) => Current(b)' \/ Notified(b)'
         /\ b # Oldest.app => m_dialApps'[b] = m_dialApps[b] /\ (Notified(b)' <=> Notified(b))
<1>1. /\ notifs # <<>> /\ notifs' = Tail(notifs) /\ UNCHANGED truth
      /\ Oldest.app \in Apps /\ About(Oldest, Oldest.app)
      /\ \E plugin \in DialStates \cup States :
           m_dialApps' = [m_dialApps EXCEPT ![Oldest.app] =
                            [plugin |-> plugin, dial |-> Means(Oldest)]]
  BY EventCached
<1>2. (Notified(b) <=> AboutIn(notifs, b)) /\ (Notified(b)' <=> AboutIn(notifs', b))
  BY DEF Notified, AboutIn
<1>3. m_dialApps'[Oldest.app].dial = Means(Oldest)
  <2>1. PICK plugin \in DialStates \cup States :
          m_dialApps' = [m_dialApps EXCEPT ![Oldest.app] =
                           [plugin |-> plugin, dial |-> Means(Oldest)]]
    BY <1>1
  <2>2. Oldest.app \in DOMAIN m_dialApps
    BY <1>1 DEF IsFunctionOnApps
  <2>3. m_dialApps'[Oldest.app] = [plugin |-> plugin, dial |-> Means(Oldest)]
    BY <2>1, <2>2
  <2>4. [plugin |-> plugin, dial |-> Means(Oldest)].dial = Means(Oldest)
    OBVIOUS
  <2>. QED
    BY <2>3, <2>4, Zenon
<1>4. notifs \in Seq(Notification)
  BY DEF NotifTypes
<1>5. ASSUME b = Oldest.app, Tells(b)
      PROVE  Current(b)' \/ Notified(b)'
  <2>1. LastTells(notifs, b, ConvertPluginStateToDIALState(truth[b]))
    BY <1>5 DEF Tells
  <2>2. ~AboutIn(notifs', b) => Means(Oldest) = ConvertPluginStateToDIALState(truth[b])
    BY <1>1, <1>4, <1>5, <2>1, TailTells DEF Oldest
  <2>. QED
    BY <1>1, <1>2, <1>3, <1>5, <2>2 DEF Current
<1>6. ASSUME b # Oldest.app
      PROVE  m_dialApps'[b] = m_dialApps[b] /\ (Notified(b)' <=> Notified(b))
  <2>1. ~About(Oldest, b)
    BY <1>6 DEF About
  <2>2. AboutIn(notifs', b) <=> AboutIn(notifs, b)
    BY <1>1, <1>4, <2>1, TailAbout DEF Oldest
  <2>3. m_dialApps'[b] = m_dialApps[b]
    BY <1>1, <1>6 DEF IsFunctionOnApps
  <2>. QED
    BY <1>2, <2>2, <2>3
<1>. QED
  BY <1>5, <1>6

(* A request of DIAL is about no state. *)
LEMMA DialNames ==
  ASSUME NotifTypes, NextOfType("dial")
  PROVE  /\ notifs # <<>> /\ notifs' = Tail(notifs)
         /\ Head(notifs).app \in Names /\ Head(notifs).request \in DialRequests
         /\ \A b : ~About(Head(notifs), b)
<1>1. notifs # <<>> /\ notifs' = Tail(notifs) /\ Head(notifs) \in Notification
      /\ Head(notifs).type = "dial"
  BY HeadTailProperties DEF NextOfType, NotifTypes
<1>2. Head(notifs).app \in Names /\ Head(notifs).request \in DialRequests
  BY <1>1 DEF Notification
<1>3. \A b : ~About(Head(notifs), b)
  BY <1>1 DEF About
<1>. QED
  BY <1>1, <1>2, <1>3

LEMMA DialHead ==
  ASSUME NotifTypes, NextOfType("dial")
  PROVE  \A b \in Apps : Notified(b)' <=> Notified(b)
<1>1. /\ notifs # <<>> /\ notifs' = Tail(notifs)
      /\ \A b : ~About(Head(notifs), b)
  BY DialNames
<1>2. \A b \in Apps : AboutIn(notifs', b) <=> AboutIn(notifs, b)
  BY <1>1, TailAbout DEF NotifTypes
<1>. QED
  BY <1>2 DEF Notified, AboutIn

(* Handling the oldest notification leaves the last ones right.            *)
LEMMA TailLast ==
  ASSUME NotifTypes, notifs # <<>>, notifs' = Tail(notifs), UNCHANGED truth
  PROVE  NotifTypes' /\ \A b \in Apps : Tells(b) => Tells(b)'
<1>1. \A b \in Apps : Tells(b) => Tells(b)'
  BY TailTells DEF Tells, NotifTypes
<1>2. notifs' \in Seq(Notification)
  BY HeadTailProperties DEF NotifTypes
<1>. QED
  BY <1>1, <1>2 DEF NotifTypes

-----------------------------------------------------------------------------
(* The calls of the event loop.                                            *)

NoneSent == \A i \in DOMAIN sent : sent[i].caller # "loop"

(* The loop makes a call, or is done with the DIAL request.                *)
CallMade ==
  \E op \in Operations, a \in Names, r \in DialRequests :
    /\ step' = op
    /\ current' = [app |-> a, request |-> r]
    /\ sent' = Append(sent, [op |-> op, app |-> a, caller |-> "loop"])
    /\ answer' = [answer EXCEPT !["loop"] = ""]
CallsOver ==
  /\ step' = "idle"
  /\ answer' = [answer EXCEPT !["loop"] = ""]

LEMMA ServeOnCalls ==
  ASSUME NEW a \in Names, NEW request \in DialRequests, NEW s, ServeOn(a, request, s)
  PROVE  CallMade \/ (CallsOver /\ UNCHANGED sent)
<1>1. CASE Done /\ UNCHANGED sent
  BY <1>1 DEF Done, CallsOver
<1>2. ASSUME NEW op \in Operations, Call(op, a), current' = [app |-> a, request |-> request]
      PROVE  CallMade
  BY <1>2 DEF Call, Begin, CallMade
<1>3. CASE ~(Done /\ UNCHANGED sent)
  <2> DEFINE call == CASE request = "state" -> "report"
                       [] request = "launch" /\ Converted(s, "unknown") = "running" -> "deeplink"
                       [] request = "launch" /\ Converted(s, "unknown") # "running" -> "launch"
                       [] request = "resume" -> "launch"
                       [] request = "hide" -> "suspend"
                       [] request = "stop" -> "destroy"
  <2>1. Call(call, a) /\ current' = [app |-> a, request |-> request]
    BY <1>3, Zenon DEF ServeOn
  <2>2. call \in Operations
    BY DEF DialRequests, Operations, Commands
  <2> HIDE DEF call
  <2>. QED
    BY <1>2, <2>1, <2>2
<1>. QED
  BY <1>1, <1>2, <1>3

(* What the loop does about calls: it makes one, or is done, when it is    *)
(* idle or has its answer, or else it has waited long enough.              *)
LEMMA LoopStepCalls ==
  ASSUME NotifTypes, StepTypes, Loop
  PROVE  \/ /\ step = "idle" \/ answer["loop"] # ""
            /\ CallMade \/ (CallsOver /\ UNCHANGED sent)
         \/ sent' = Abandoned("loop") /\ CallsOver
         \/ UNCHANGED <<sent, step, current, answer>>
<1>1. CASE OnRDKShellEvent \/ OnControllerStateChangeEvent
  BY <1>1 DEF OnRDKShellEvent, OnControllerStateChangeEvent
<1>2. CASE OnDialEvent
  <2>1. NextOfType("dial") /\ step = "idle"
    BY <1>2 DEF OnDialEvent, NextOfType
  <2>2. Head(notifs).app \in Names /\ Head(notifs).request \in DialRequests
    BY <2>1, DialNames
  <2>3. CASE ServeOn(Head(notifs).app, Head(notifs).request, m_dialApps[Head(notifs).app].dial)
    BY <2>1, <2>2, <2>3, ServeOnCalls
  <2>4. CASE /\ Call("status", Head(notifs).app)
             /\ current' = [app |-> Head(notifs).app, request |-> Head(notifs).request]
    <3>1. "status" \in Operations
      BY DEF Operations
    <3>. QED
      BY <2>1, <2>2, <2>4, <3>1, Zenon DEF Call, Begin, CallMade
  <2>. QED
    BY <1>2, <2>3, <2>4 DEF OnDialEvent
<1>3. CASE StatusReturns
  <2>1. current \in [app : Names, request : DialRequests]
    BY <1>3 DEF StatusReturns, StepTypes
  <2>2. answer["loop"] # "" /\ ServeOn(current.app, current.request, answer["loop"])
    BY <1>3 DEF StatusReturns, GotState
  <2>. QED
    BY <2>1, <2>2, ServeOnCalls
<1>4. CASE LaunchReturns
  <2>1. current \in [app : Names, request : DialRequests]
    BY <1>4 DEF LaunchReturns, StepTypes
  <2>2. answer["loop"] # "" /\ Call("deeplink", current.app) /\ current' = current
    BY <1>4 DEF LaunchReturns
  <2>3. "deeplink" \in Operations
    BY DEF Operations
  <2>4. current' = [app |-> current.app, request |-> current.request]
    BY <2>1, <2>2
  <2>. QED
    BY <2>1, <2>2, <2>3, <2>4 DEF Call, Begin, CallMade
<1>5. CASE LastCallReturns
  BY <1>5 DEF LastCallReturns, Done, CallsOver
<1>6. CASE CallTimesOut
  BY <1>6 DEF CallTimesOut, Done, CallsOver
<1>. QED
  BY <1>1, <1>2, <1>3, <1>4, <1>5, <1>6 DEF Loop

(* No call is made while another is under way.                             *)
LEMMA LoopCalls ==
  ASSUME BaseInv, Loop
  PROVE  \/ NoneSent /\ CallMade
         \/ NoneSent /\ CallsOver /\ UNCHANGED sent
         \/ sent' = Abandoned("loop") /\ CallsOver
         \/ UNCHANGED <<sent, step, current, answer>>
<1> USE DEF BaseInv
<1>1. step = "idle" \/ answer["loop"] # "" => NoneSent
  <2>1. \A i \in DOMAIN sent : sent[i].op \in Operations
    <3>1. \A i \in DOMAIN sent : sent[i] \in Requests
      BY DEF Types, SentTypes
    <3>. QED
      BY <3>1 DEF Requests
  <2>2. "idle" \notin Operations
    BY DEF Operations, Commands
  <2>3. ASSUME step = "idle" \/ answer["loop"] # "", NEW i \in DOMAIN sent, sent[i].caller = "loop"
        PROVE  FALSE
    <3>1. step = sent[i].op /\ answer["loop"] = ""
      BY <2>3, Zenon DEF SentInv, OwnRequest
    <3>. QED
      BY <2>1, <2>2, <2>3, <3>1
  <2>. QED
    BY <2>3 DEF NoneSent
<1>. QED
  BY <1>1, LoopStepCalls DEF Types

(* What becomes of the answer and of the applications when Thunder         *)
(* executes a request.                                                     *)
LEMMA ExecuteEffect ==
  ASSUME BaseInv, Execute
  PROVE  /\ sent # <<>> /\ sent' = Tail(sent) /\ Head(sent) \in Requests
         /\ \/ Head(sent).caller = "nobody" /\ UNCHANGED answer
            \/ /\ Head(sent).caller = "loop"
               /\ \E x \in {"success", "error"} : answer' = [answer EXCEPT !["loop"] = x]
            \/ /\ Head(sent).caller = "loop"
               /\ Head(sent).op = "status" /\ Head(sent).app \in Apps
               /\ answer' = [answer EXCEPT !["loop"] = StatusState(truth[Head(sent).app])]
               /\ UNCHANGED <<truth, notifs>>
         /\ \/ UNCHANGED <<truth, notifs>>
            \/ \E a \in Apps, t \in States : ChangeState(a, t)
<1> DEFINE r == Head(sent)
<1>1. sent # <<>> /\ sent' = Tail(sent)
  BY DEF Execute
<1>2. r \in Requests
  BY <1>1, HeadTailProperties DEF BaseInv, Types, SentTypes
<1>3. r.caller \in {"loop", "nobody"}
  BY <1>2 DEF Requests
<1>4. ASSUME NEW x, Answered(r.caller, x)
      PROVE  \/ r.caller = "nobody" /\ UNCHANGED answer
             \/ r.caller = "loop" /\ answer' = [answer EXCEPT !["loop"] = x]
  BY <1>3, <1>4 DEF Answered
<1>5. \/ /\ \E x \in {"success", "error"} : Answered(r.caller, x)
         /\ \/ UNCHANGED <<truth, notifs>>
            \/ \E a \in Apps, t \in States : ChangeState(a, t)
      \/ /\ r.op = "status" /\ r.app \in Apps
         /\ Answered(r.caller, StatusState(truth[r.app]))
         /\ UNCHANGED <<truth, notifs>>
  BY DEF Execute, StatesAfter
<1> HIDE DEF r
<1>6. CASE /\ \E x \in {"success", "error"} : Answered(r.caller, x)
           /\ \/ UNCHANGED <<truth, notifs>>
              \/ \E a \in Apps, t \in States : ChangeState(a, t)
  <2>1. PICK x \in {"success", "error"} : Answered(r.caller, x)
    BY <1>6
  <2>2. \/ r.caller = "nobody" /\ UNCHANGED answer
        \/ r.caller = "loop" /\ answer' = [answer EXCEPT !["loop"] = x]
    BY <1>4, <2>1
  <2>. QED
    BY <1>1, <1>2, <1>6, <2>2, Zenon DEF r
<1>7. CASE /\ r.op = "status" /\ r.app \in Apps
           /\ Answered(r.caller, StatusState(truth[r.app]))
           /\ UNCHANGED <<truth, notifs>>
  <2>1. \/ r.caller = "nobody" /\ UNCHANGED answer
        \/ r.caller = "loop" /\ answer' = [answer EXCEPT !["loop"] = StatusState(truth[r.app])]
    BY <1>4, <1>7
  <2>. QED
    BY <1>1, <1>2, <1>7, <2>1, Zenon DEF r
<1>. QED
  BY <1>5, <1>6, <1>7

-----------------------------------------------------------------------------
(* What is inductive whatever Thunder's spelling.                          *)

LEMMA TypesAreTypeOK == Types => TypeOK
<1> SUFFICES ASSUME Types PROVE TypeOK
  OBVIOUS
<1> USE DEF Types
<1>1. subscribed \subseteq Events /\ registered \subseteq Names
  BY DEF SubscribedTypes
<1>2. \A i \in DOMAIN sent : sent[i].caller \in {"loop", "main", "nobody"}
  <2>1. \A i \in DOMAIN sent : sent[i] \in Requests
    BY DEF SentTypes
  <2>. QED
    BY <2>1 DEF Requests
<1>3. answer["loop"] \in Answers
  BY DEF AnswerTypes
<1>. QED
  BY <1>1, <1>2, <1>3, Zenon
     DEF TypeOK, TruthTypes, NotifTypes, StepTypes, CacheTypes, CacheEntries, CountTypes

LEMMA FetchedEntry ==
  ASSUME NEW s \in States
  PROVE  Fetched(s) \in CacheEntries
<1>1. StatusState(s) \in CachedStates
  BY DEF CachedStates
<1>2. Converted(StatusState(s), "unknown") \in DialStates \cup {"unknown"}
  BY ConvertedRange
<1>. QED
  BY <1>1, <1>2 DEF Fetched, CacheEntries

LEMMA InitBaseInv == Init => BaseInv
<1> SUFFICES ASSUME Init PROVE BaseInv
  OBVIOUS
<1> USE DEF Init, InitCommon
<1>1. TruthTypes /\ SubscribedTypes
  BY Zenon DEF TruthTypes, SubscribedTypes
<1>2. notifs = <<>> /\ sent = <<>>
  BY Zenon
<1>3. NotifTypes /\ SentTypes
  BY ONLY <1>2 DEF NotifTypes, SentTypes
<1>4. AnswerTypes /\ StepTypes
  BY DEF AnswerTypes, StepTypes, Answers
<1>5. CacheTypes
  <2>1. Unknown \in CacheEntries
    BY DEF Unknown, CacheEntries, CachedStates
  <2>2. {Unknown} \cup {Fetched(s) : s \in States} \subseteq CacheEntries
    BY <2>1, FetchedEntry
  <2>. QED
    BY <2>2 DEF CacheTypes
<1>6. CountTypes
  <2>1. changes = 0 /\ requests = 0 /\ MaxChanges \in Nat /\ MaxRequests \in Nat
    BY SmartMonitorAssumption, Zenon
  <2>. QED
    BY ONLY <2>1 DEF CountTypes
<1>7. SentInv /\ AskedInv /\ LastInv
  <2>1. step # "status"
    BY Zenon
  <2>. QED
    BY ONLY <1>2, <2>1 DEF SentInv, AskedInv, LastInv, Tells, LastTells
<1>. QED
  BY ONLY <1>1, <1>4, <1>5, <1>6, <1>7, <1>3 DEF BaseInv, Types

(* A request to have been given up is nobody's.                            *)
LEMMA AbandonedRequests ==
  ASSUME sent \in Seq(Requests)
  PROVE  /\ Abandoned("loop") \in Seq(Requests)
         /\ \A i \in DOMAIN Abandoned("loop") : Abandoned("loop")[i].caller # "loop"
<1> DEFINE Result(i) == IF sent[i].caller = "loop"
                        THEN [sent[i] EXCEPT !.caller = "nobody"] ELSE sent[i]
<1>1. \A i \in DOMAIN sent : sent[i] \in Requests
  OBVIOUS
<1>2. \A i \in DOMAIN sent : Result(i) \in Requests /\ Result(i).caller # "loop"
  BY <1>1 DEF Requests
<1>3. Abandoned("loop") = [i \in DOMAIN sent |-> Result(i)]
  BY DEF Abandoned
<1>4. DOMAIN sent = 1 .. Len(sent) /\ Len(sent) \in Nat
  OBVIOUS
<1> HIDE DEF Result
<1>5. Abandoned("loop") \in Seq(Requests)
  BY <1>2, <1>3, <1>4
<1>. QED
  BY <1>2, <1>3, <1>5

LEMMA SentStep ==
  ASSUME BaseInv, [Next]_vars
  PROVE  SentTypes' /\ StepTypes' /\ SentInv'
<1> USE DEF BaseInv
<1>1. sent \in Seq(Requests)
  BY DEF Types, SentTypes
<1>2. CASE UNCHANGED <<sent, step, current, answer>>
  BY <1>2 DEF Types, SentTypes, StepTypes, SentInv, OwnRequest
<1>3. CASE NoneSent /\ CallMade
  <2>1. PICK op \in Operations, a \in Names, r \in DialRequests :
          /\ step' = op
          /\ current' = [app |-> a, request |-> r]
          /\ sent' = Append(sent, [op |-> op, app |-> a, caller |-> "loop"])
          /\ answer' = [answer EXCEPT !["loop"] = ""]
    BY <1>3 DEF CallMade
  <2> DEFINE e == [op |-> op, app |-> a, caller |-> "loop"]
  <2>2. e \in Requests /\ e.op = op /\ e.app = a /\ sent' = Append(sent, e)
    BY <2>1 DEF Requests
  <2> HIDE DEF e
  <2>3. sent' \in Seq(Requests)
    BY <1>1, <2>2
  <2>4. /\ DOMAIN sent' = 1 .. Len(sent) + 1 /\ Len(sent) \in Nat /\ DOMAIN sent = 1 .. Len(sent)
        /\ \A i \in 1 .. Len(sent) : sent'[i] = sent[i]
        /\ sent'[Len(sent) + 1] = e
    BY <1>1, <2>2
  <2>5. \A i \in DOMAIN sent' : sent'[i].caller = "loop" => i = Len(sent) + 1
    BY <1>1, <1>3, <2>4 DEF NoneSent
  <2>6. answer'["loop"] = ""
    BY <2>1 DEF Types, AnswerTypes
  <2>7. SentInv'
    <3>1. step' = op /\ current'.app = a
      BY <2>1
    <3>2. ASSUME NEW i \in DOMAIN sent', sent'[i].caller = "loop"
          PROVE  OwnRequest(i)'
      <4>1. sent'[i] = e
        BY <2>4, <2>5, <3>2
      <4>. QED
        BY <2>2, <2>5, <2>6, <3>1, <3>2, <4>1 DEF OwnRequest
    <3>. QED
      BY <3>2 DEF SentInv
  <2>8. StepTypes'
    BY <2>1 DEF StepTypes
  <2>. QED
    BY <2>3, <2>7, <2>8 DEF SentTypes
<1>4. CASE NoneSent /\ CallsOver /\ UNCHANGED sent
  BY <1>1, <1>4 DEF CallsOver, NoneSent, SentTypes, StepTypes, SentInv
<1>5. CASE sent' = Abandoned("loop") /\ CallsOver
  BY <1>1, <1>5, AbandonedRequests DEF CallsOver, SentTypes, StepTypes, SentInv
<1>6. CASE Execute
  <2>1. sent # <<>> /\ sent' = Tail(sent)
    BY <1>6, ExecuteEffect
  <2>2. UNCHANGED <<step, current>>
    BY <1>6 DEF Execute
  <2>3. /\ sent' \in Seq(Requests)
        /\ DOMAIN sent' = 1 .. Len(sent) - 1 /\ Len(sent) \in Nat /\ DOMAIN sent = 1 .. Len(sent)
        /\ \A i \in DOMAIN sent' : i + 1 \in DOMAIN sent /\ sent'[i] = sent[i + 1]
        /\ Head(sent) = sent[1] /\ 1 \in DOMAIN sent
    BY <1>1, <2>1
  <2>4. ASSUME NEW i \in DOMAIN sent', sent'[i].caller = "loop"
        PROVE  OwnRequest(i)'
    <3>1. i + 1 \in DOMAIN sent /\ sent[i + 1].caller = "loop" /\ i + 1 # 1
      BY <2>3, <2>4
    <3>2. OwnRequest(i + 1)
      BY <3>1 DEF SentInv
    <3>3. Head(sent).caller # "loop"
      BY <2>3, <3>1, <3>2 DEF OwnRequest
    <3>4. UNCHANGED answer
      BY <1>6, <3>3, ExecuteEffect
    <3>5. ASSUME NEW j \in DOMAIN sent', sent'[j].caller = "loop"
          PROVE  j = i
      <4>1. j + 1 \in DOMAIN sent /\ sent[j + 1].caller = "loop"
        BY <2>3, <3>5
      <4>2. j + 1 = i + 1
        BY <3>2, <4>1 DEF OwnRequest
      <4>. QED
        BY <2>3, <4>2
    <3>. QED
      BY <2>2, <2>3, <3>2, <3>4, <3>5 DEF OwnRequest
  <2>5. SentInv'
    BY <2>4 DEF SentInv
  <2>. QED
    BY <2>2, <2>3, <2>5 DEF SentTypes, StepTypes, Types
<1>7. CASE Loop
  BY <1>2, <1>3, <1>4, <1>5, <1>7, LoopCalls
<1>. QED
  BY <1>2, <1>6, <1>7 DEF Next, Change, Request, vars

(* Every change of state is notified, as every event is subscribed to. *)
LEMMA AllNotified ==
  ASSUME SubscribedTypes, NEW a \in Apps, NEW t \in States
  PROVE  Notifications(a, t) # {}
<1>1. StateChange(a, t).type = "controller"
  BY DEF StateChange
<1>2. EventOf(StateChange(a, t)) = "statechange"
  BY <1>1 DEF EventOf
<1>3. StateChange(a, t) \in Notifications(a, t)
  BY <1>1, <1>2 DEF Notifications, SubscribedTypes, Events
<1>. QED
  BY <1>3

(* What a step of anybody does to the states and to what is told of them.  *)
LEMMA TellingStep ==
  ASSUME BaseInv, [Next]_vars
  PROVE  /\ TruthTypes' /\ NotifTypes' /\ LastInv'
         /\ \/ UNCHANGED truth
            \/ /\ UNCHANGED <<m_dialApps, step, current>>
               /\ \A b \in Apps : (Notified(b) => Notified(b)') /\ (truth'[b] = truth[b] \/ Notified(b)')
         /\ \/ OnRDKShellEvent \/ OnControllerStateChangeEvent
            \/ \A b \in Apps : Notified(b) => Notified(b)'
<1> USE DEF BaseInv, Types
<1>1. CASE UNCHANGED <<truth, notifs>>
  BY <1>1 DEF TruthTypes, NotifTypes, LastInv, Tells, Notified
<1>2. ASSUME NEW a \in Apps, NEW t \in States, ChangeState(a, t)
      PROVE  /\ TruthTypes' /\ NotifTypes' /\ LastInv'
             /\ \A b \in Apps : (Notified(b) => Notified(b)') /\ (truth'[b] = truth[b] \/ Notified(b)')
  <2>1. Notifications(a, t) # {}
    BY AllNotified
  <2>2. /\ TruthTypes' /\ NotifTypes'
        /\ \A b \in Apps : Notified(b) => Notified(b)'
        /\ \A b \in Apps \ {a} : truth'[b] = truth[b] /\ (Tells(b) => Tells(b)')
        /\ Notified(a)' /\ Tells(a)'
    BY <1>2, <2>1, ChangeStateTells
  <2>3. LastInv'
    BY <2>2 DEF LastInv
  <2>4. \A b \in Apps : truth'[b] = truth[b] \/ Notified(b)'
    BY <2>2
  <2>. QED
    BY <2>2, <2>3, <2>4, Zenon
<1>3. ASSUME NEW a \in Apps, Change(a)
      PROVE  \E t \in States : ChangeState(a, t) /\ UNCHANGED <<m_dialApps, step, current>>
  BY <1>3 DEF Change
<1>4. CASE Request
  <2>1. PICK a \in registered, r \in DialRequests : notifs' = Append(notifs, DialRequest(a, r))
    BY <1>4 DEF Request
  <2> DEFINE n == DialRequest(a, r)
  <2>2. n \in Notification /\ \A b : ~About(n, b)
    <3>1. n.type = "dial" /\ n \in [type : {"dial"}, app : Names, request : DialRequests]
      BY DEF DialRequest, SubscribedTypes
    <3>. QED
      BY <3>1 DEF Notification, About
  <2> HIDE DEF n
  <2>3. notifs \in Seq(Notification) /\ notifs' = Append(notifs, n) /\ UNCHANGED truth
    BY <1>4, <2>1 DEF NotifTypes, Request, n
  <2>4. NotifTypes'
    BY <2>2, <2>3 DEF NotifTypes
  <2>5. ASSUME NEW b \in Apps
        PROVE  /\ AboutIn(notifs', b) <=> AboutIn(notifs, b)
               /\ Tells(b) => Tells(b)'
    BY <2>2, <2>3, AppendOther DEF Tells
  <2>6. LastInv' /\ \A b \in Apps : Notified(b) => Notified(b)'
    BY <2>5 DEF LastInv, Notified, AboutIn
  <2>. QED
    BY <2>3, <2>4, <2>6 DEF TruthTypes
<1>5. CASE Execute
  <2>1. \/ UNCHANGED <<truth, notifs>>
        \/ \E a \in Apps, t \in States : ChangeState(a, t)
    BY <1>5, ExecuteEffect
  <2>2. UNCHANGED <<m_dialApps, step, current>>
    BY <1>5 DEF Execute
  <2>. QED
    BY <1>1, <1>2, <2>1, <2>2
<1>6. CASE OnRDKShellEvent \/ OnControllerStateChangeEvent
  <2>1. notifs # <<>> /\ notifs' = Tail(notifs) /\ UNCHANGED truth
    BY <1>6 DEF OnRDKShellEvent, OnControllerStateChangeEvent, NextOfType
  <2>. QED
    BY <1>6, <2>1, TailLast DEF TruthTypes, LastInv
<1>7. CASE OnDialEvent
  <2>1. NextOfType("dial") /\ notifs # <<>> /\ notifs' = Tail(notifs) /\ UNCHANGED truth
    BY <1>7 DEF OnDialEvent, NextOfType
  <2>. QED
    BY <2>1, TailLast, DialHead DEF TruthTypes, LastInv
<1>8. CASE StatusReturns \/ LaunchReturns \/ LastCallReturns \/ CallTimesOut
  BY <1>1, <1>8 DEF StatusReturns, LaunchReturns, LastCallReturns, CallTimesOut
<1>9. CASE \E a \in Apps : Change(a)
  BY <1>2, <1>3, <1>9
<1>. QED
  BY <1>1, <1>4, <1>5, <1>6, <1>7, <1>8, <1>9 DEF Next, Loop, vars

LEMMA AnswerTypesStep ==
  ASSUME BaseInv, [Next]_vars
  PROVE  AnswerTypes' /\ AskedInv'
<1> USE DEF BaseInv, Types
<1>1. CASE UNCHANGED <<step, current, answer>>
  BY <1>1 DEF AnswerTypes, AskedInv, GotState
<1>2. CASE answer' = [answer EXCEPT !["loop"] = ""]
  <2>1. "" \in Answers
    BY DEF Answers
  <2>2. answer'["loop"] = ""
    BY <1>2 DEF AnswerTypes
  <2>. QED
    BY <1>2, <2>1, <2>2 DEF AnswerTypes, AskedInv, GotState
<1>3. CASE Execute
  <2>1. UNCHANGED <<step, current>>
    BY <1>3 DEF Execute
  <2>2. CASE UNCHANGED answer
    BY <1>1, <2>1, <2>2
  <2>3. ASSUME NEW x \in {"success", "error"}, answer' = [answer EXCEPT !["loop"] = x]
        PROVE  AnswerTypes' /\ AskedInv'
    <3>1. x \in Answers
      BY DEF Answers
    <3>2. answer'["loop"] = x
      BY <2>3 DEF AnswerTypes
    <3>. QED
      BY <2>3, <3>1, <3>2 DEF AnswerTypes, AskedInv, GotState
  <2>4. CASE /\ Head(sent).caller = "loop" /\ Head(sent).app \in Apps
             /\ answer' = [answer EXCEPT !["loop"] = StatusState(truth[Head(sent).app])]
    <3>1. StatusState(truth[Head(sent).app]) \in Answers
      BY <2>4 DEF Answers, TruthTypes
    <3>2. current.app = Head(sent).app
      <4>1. sent # <<>> /\ sent \in Seq(Requests)
        BY <1>3, ExecuteEffect DEF SentTypes
      <4>2. Head(sent) = sent[1] /\ 1 \in DOMAIN sent
        BY <4>1
      <4>. QED
        BY <2>4, <4>2 DEF SentInv, OwnRequest
    <3>. QED
      BY <2>1, <2>4, <3>1, <3>2 DEF AnswerTypes, AskedInv
  <2>. QED
    BY <1>3, <2>2, <2>3, <2>4, ExecuteEffect
<1>4. CASE Loop
  BY <1>1, <1>2, <1>4, LoopCalls DEF CallMade, CallsOver
<1>. QED
  BY <1>1, <1>3, <1>4 DEF Next, Change, Request, vars

LEMMA CacheTypesStep ==
  ASSUME BaseInv, [Next]_vars
  PROVE  CacheTypes'
<1> USE DEF BaseInv, Types
<1>1. CASE UNCHANGED m_dialApps
  BY <1>1 DEF CacheTypes
<1>2. ASSUME NEW a, NEW plugin \in CachedStates, NEW dial \in DialStates \cup {"unknown"},
             m_dialApps' = [m_dialApps EXCEPT ![a] = [plugin |-> plugin, dial |-> dial]]
      PROVE  CacheTypes'
  <2>1. [plugin |-> plugin, dial |-> dial] \in CacheEntries
    BY DEF CacheEntries
  <2>. QED
    BY <1>2, <2>1 DEF CacheTypes
<1>3. CASE OnRDKShellEvent \/ OnControllerStateChangeEvent
  <2>1. IsFunctionOnApps
    BY DEF IsFunctionOnApps, CacheTypes
  <2>2. PICK plugin \in DialStates \cup States :
          m_dialApps' = [m_dialApps EXCEPT ![Oldest.app] =
                           [plugin |-> plugin, dial |-> Means(Oldest)]]
    BY <1>3, <2>1, SmartMonitorAssumption, EventCached
  <2>3. Means(Oldest) \in DialStates
    BY <1>3, <2>1, SmartMonitorAssumption, EventCached DEF DialStates
  <2>. QED
    BY <1>2, <2>2, <2>3 DEF CachedStates
<1>4. CASE StatusReturns
  <2>1. current.app \in Apps /\ answer["loop"] \in Answers
    BY <1>4 DEF StatusReturns, AskedInv, AnswerTypes
  <2>2. answer["loop"] \in CachedStates
    BY <1>4, <2>1 DEF StatusReturns, GotState, Answers, CachedStates
  <2>3. Converted(answer["loop"], m_dialApps[current.app].dial) \in DialStates \cup {"unknown"}
    BY <2>1, ConvertedRange DEF CacheTypes, CacheEntries
  <2>. QED
    BY <1>2, <1>4, <2>2, <2>3 DEF StatusReturns, Update
<1>. QED
  BY <1>1, <1>3, <1>4
     DEF Next, Change, Request, Execute, Loop, OnDialEvent, LaunchReturns,
         LastCallReturns, CallTimesOut, vars

LEMMA OtherTypesStep ==
  ASSUME BaseInv, [Next]_vars
  PROVE  SubscribedTypes' /\ CountTypes'
<1> USE DEF BaseInv, Types
<1>1. UNCHANGED xcastVars
  BY DEF Next, Change, Request, Execute, Loop, OnRDKShellEvent,
         OnControllerStateChangeEvent, OnDialEvent, StatusReturns, LaunchReturns,
         LastCallReturns, CallTimesOut, vars, xcastVars
<1>2. \/ UNCHANGED <<changes, requests>>
      \/ changes < MaxChanges /\ changes' = changes + 1 /\ UNCHANGED requests
      \/ requests < MaxRequests /\ requests' = requests + 1 /\ UNCHANGED changes
  BY DEF Next, Change, Request, Execute, Loop, OnRDKShellEvent,
         OnControllerStateChangeEvent, OnDialEvent, StatusReturns, LaunchReturns,
         LastCallReturns, CallTimesOut, vars
<1>3. MaxChanges \in Nat /\ MaxRequests \in Nat
  BY SmartMonitorAssumption, Zenon
<1>4. CountTypes'
  BY <1>2, <1>3 DEF CountTypes
<1>. QED
  BY <1>1, <1>4 DEF SubscribedTypes, xcastVars

LEMMA StepBaseInv ==
  ASSUME BaseInv, [Next]_vars
  PROVE  BaseInv'
BY SentStep, TellingStep, AnswerTypesStep, CacheTypesStep, OtherTypesStep, Zenon
   DEF BaseInv, Types

(* The first part of the invariant, for any spelling.                      *)
THEOREM BaseInvariant == Spec => []BaseInv
BY InitBaseInv, StepBaseInv, PTL DEF Spec

(* Every variable keeps its type: the cache never holds but what one of    *)
(* its three writers can derive.                                           *)
THEOREM TypeCorrect == Spec => []TypeOK
<1>1. BaseInv => TypeOK
  BY TypesAreTypeOK DEF BaseInv
<1>. QED
  BY <1>1, BaseInvariant, PTL

-----------------------------------------------------------------------------
(* The cache, when Thunder's spelling converts.                            *)

LEMMA TruthConverts ==
  ASSUME BaseInv, NEW a \in Apps
  PROVE  ConvertPluginStateToDIALState(truth[a]) \in {"stopped", "running", "suspended"}
BY SmartMonitorAssumption, PluginStateConverts DEF BaseInv, Types, TruthTypes

LEMMA AnswerStep ==
  ASSUME StatusConverts, BaseInv, AnswerInv, [Next]_vars
  PROVE  AnswerInv'
<1>1. CASE answer' = [answer EXCEPT !["loop"] = ""]
  <2>1. answer'["loop"] = ""
    BY <1>1 DEF BaseInv, Types, AnswerTypes
  <2>. QED
    BY <2>1 DEF AnswerInv, GotState
<1>2. CASE UNCHANGED <<step, current, answer>>
  <2>1. SUFFICES ASSUME step = "status", GotState
                 PROVE  \/ ConvertPluginStateToDIALState(answer["loop"])
                             = ConvertPluginStateToDIALState(truth'[current.app])
                        \/ Notified(current.app)'
    BY <1>2 DEF AnswerInv, GotState, Notified
  <2>2. current.app \in Apps
    BY <2>1 DEF BaseInv, AskedInv
  <2>3. ~OnRDKShellEvent /\ ~OnControllerStateChangeEvent
    BY <2>1 DEF OnRDKShellEvent, OnControllerStateChangeEvent, NextOfType
  <2>4. \A b \in Apps : (Notified(b) => Notified(b)') /\ (truth'[b] = truth[b] \/ Notified(b)')
    BY <2>3, TellingStep
  <2>5. Notified(current.app) => Notified(current.app)'
    BY <1>2, <2>2, <2>4 DEF Notified
  <2>6. truth'[current.app] = truth[current.app] \/ Notified(current.app)'
    BY <1>2, <2>2, <2>4 DEF Notified
  <2>. QED
    BY <2>1, <2>5, <2>6 DEF AnswerInv
<1>3. CASE Execute
  <2>1. UNCHANGED <<step, current>> /\ sent # <<>>
    BY <1>3 DEF Execute
  <2>2. CASE UNCHANGED answer
    BY <1>2, <2>1, <2>2
  <2>3. ASSUME NEW x \in {"success", "error"}, answer' = [answer EXCEPT !["loop"] = x]
        PROVE  AnswerInv'
    <3>1. answer'["loop"] = x
      BY <2>3 DEF BaseInv, Types, AnswerTypes
    <3>. QED
      BY <3>1 DEF AnswerInv, GotState
  <2>4. CASE /\ Head(sent).caller = "loop"
             /\ Head(sent).app \in Apps
             /\ answer' = [answer EXCEPT !["loop"] = StatusState(truth[Head(sent).app])]
             /\ UNCHANGED <<truth, notifs>>
    <3>1. answer'["loop"] = StatusState(truth[Head(sent).app])
      BY <2>4 DEF BaseInv, Types, AnswerTypes
    <3>2. current.app = Head(sent).app
      <4>1. sent \in Seq(Requests)
        BY DEF BaseInv, Types, SentTypes
      <4>2. Head(sent) = sent[1] /\ 1 \in DOMAIN sent
        BY <2>1, <4>1
      <4>. QED
        BY <2>4, <4>2 DEF BaseInv, SentInv, OwnRequest
    <3>3. truth[Head(sent).app] \in States
      BY <2>4 DEF BaseInv, Types, TruthTypes
    <3>. QED
      BY <2>1, <2>4, <3>1, <3>2, <3>3 DEF AnswerInv, StatusConverts
  <2>. QED
    BY <1>3, <2>2, <2>3, <2>4, ExecuteEffect
<1>4. CASE Loop
  BY <1>1, <1>2, <1>4, LoopCalls DEF CallMade, CallsOver
<1>. QED
  BY <1>2, <1>3, <1>4 DEF Next, Change, Request, vars

(* A step of anybody keeps an entry tracked.                               *)
LEMMA TrackedStep ==
  ASSUME BaseInv, AnswerInv, [Next]_vars, NEW b \in Apps, Tracked(b)
  PROVE  Tracked(b)'
<1>1. IsFunctionOnApps
  BY DEF BaseInv, Types, CacheTypes, IsFunctionOnApps
<1>2. CASE OnRDKShellEvent \/ OnControllerStateChangeEvent
  <2>1. UNCHANGED truth
    BY <1>2 DEF OnRDKShellEvent, OnControllerStateChangeEvent
  <2>2. Tells(b) /\ NotifTypes
    BY DEF BaseInv, LastInv, Types
  <2>3. \/ Current(b)' \/ Notified(b)'
        \/ m_dialApps'[b] = m_dialApps[b] /\ (Notified(b) => Notified(b)')
    BY <1>1, <1>2, <2>2, SmartMonitorAssumption, EventCorrects
  <2>. QED
    BY <2>1, <2>3 DEF Tracked, Cached, Current
<1>3. CASE UNCHANGED m_dialApps /\ ~OnRDKShellEvent /\ ~OnControllerStateChangeEvent
  <2>1. (Notified(b) => Notified(b)') /\ (truth'[b] = truth[b] \/ Notified(b)')
    BY <1>3, TellingStep
  <2>. QED
    BY <1>3, <2>1 DEF Tracked, Cached, Current
<1>4. CASE StatusReturns
  <2> DEFINE a == current.app
             c == Converted(answer["loop"], m_dialApps[a].dial)
  <2>1. a \in Apps /\ UNCHANGED <<truth, notifs>>
        /\ m_dialApps' = [m_dialApps EXCEPT ![a] = [plugin |-> answer["loop"], dial |-> c]]
    BY <1>4 DEF StatusReturns, Update, BaseInv, AskedInv
  <2>2. \/ ConvertPluginStateToDIALState(answer["loop"]) = ConvertPluginStateToDIALState(truth[a])
        \/ Notified(a)
    BY <1>4 DEF StatusReturns, AnswerInv
  <2>3. ConvertPluginStateToDIALState(truth[a]) # "none"
    BY <2>1, TruthConverts
  <2>4. c = ConvertPluginStateToDIALState(truth[a]) \/ Notified(a)
    BY <2>2, <2>3 DEF Converted
  <2> HIDE DEF a, c
  <2>5. m_dialApps'[a].dial = c /\ \A e \in Apps \ {a} : m_dialApps'[e] = m_dialApps[e]
    BY <1>1, <2>1 DEF IsFunctionOnApps
  <2>6. CASE b = a
    BY <2>1, <2>4, <2>5, <2>6 DEF Tracked, Current, Notified
  <2>7. CASE b # a
    BY <2>1, <2>5, <2>7 DEF Tracked, Cached, Current, Notified
  <2>. QED
    BY <2>6, <2>7
<1>. QED
  BY <1>2, <1>3, <1>4
     DEF Next, Change, Request, Execute, Loop, OnDialEvent, LaunchReturns,
         LastCallReturns, CallTimesOut, vars

LEMMA InitAnswer == Init => AnswerInv
BY DEF Init, InitCommon, AnswerInv

(* Whatever entries start-up left, one that is right, or that a            *)
(* notification on its way will correct, stays so in service: the event    *)
(* loop makes no entry wrong with an answer that a change overtook.        *)
THEOREM KeepsTrackingAlways == StatusConverts => (Spec => KeepsTracking)
<1> SUFFICES ASSUME StatusConverts PROVE Spec => KeepsTracking
  OBVIOUS
<1>1. BaseInv /\ AnswerInv /\ [Next]_vars => AnswerInv'
  BY AnswerStep
<1>2. BaseInv /\ AnswerInv /\ [Next]_vars => [\A a \in Apps : Tracked(a) => Tracked(a)']_vars
  <2>1. ASSUME BaseInv, AnswerInv, [Next]_vars
        PROVE  \A a \in Apps : Tracked(a) => Tracked(a)'
    BY <2>1, TrackedStep
  <2>. QED
    BY <2>1
<1>. QED
  BY <1>1, <1>2, InitAnswer, BaseInvariant, PTL DEF Spec, KeepsTracking

-----------------------------------------------------------------------------
(* Redundant commands.                                                     *)

(* Decided on the state the application has, a DIAL request makes no       *)
(* command that brings it into that state.                                 *)
LEMMA NothingRedundant ==
  ASSUME NEW a, NEW request \in DialRequests, NEW s, ServeOn(a, request, s),
         NEW t \in PluginStates,
         ConvertPluginStateToDIALState(s) = ConvertPluginStateToDIALState(t)
  PROVE  step' \in Commands => t \notin StatesAfter(step')
<1>1. Converted(s, "unknown") = ConvertPluginStateToDIALState(t)
  BY PluginStateConverts DEF Converted
<1>2. t \in RunningStates => ConvertPluginStateToDIALState(t) = "running"
  BY DEF ConvertPluginStateToDIALState, StoppedStates, RunningStates, SuspendedStates, DialStates
<1>3. t \in SuspendedStates => ConvertPluginStateToDIALState(t) = "suspended"
  BY DEF ConvertPluginStateToDIALState, StoppedStates, RunningStates, SuspendedStates, DialStates
<1>4. t \in StoppedStates => ConvertPluginStateToDIALState(t) = "stopped"
  BY DEF ConvertPluginStateToDIALState, StoppedStates, RunningStates, SuspendedStates, DialStates
<1>5. /\ step' = "launch" =>
           \/ request = "launch" /\ Converted(s, "unknown") # "running"
           \/ request = "resume" /\ Converted(s, "unknown") # "running"
      /\ step' = "suspend" => request = "hide" /\ Converted(s, "unknown") # "suspended"
      /\ step' = "destroy" => request = "stop" /\ Converted(s, "unknown") # "stopped"
  <2> DEFINE dialState == Converted(s, "unknown")
             call == CASE request = "state" -> "report"
                       [] request = "launch" /\ dialState = "running" -> "deeplink"
                       [] request = "launch" /\ dialState # "running" -> "launch"
                       [] request = "resume" -> "launch"
                       [] request = "hide" -> "suspend"
                       [] request = "stop" -> "destroy"
  <2>1. \/ step' = "idle"
        \/ /\ step' = call
           /\ ~(request = "hide" /\ dialState = "suspended")
           /\ ~(request = "stop" /\ dialState = "stopped")
           /\ ~(request = "resume" /\ dialState = "running")
    BY Zenon DEF ServeOn, Done, Call
  <2> HIDE DEF dialState
  <2>2. /\ call = "launch" =>
             request = "resume" \/ (request = "launch" /\ dialState # "running")
        /\ call = "suspend" => request = "hide"
        /\ call = "destroy" => request = "stop"
    BY DEF DialRequests
  <2> HIDE DEF call
  <2>. QED
    BY <2>1, <2>2 DEF dialState
<1>. QED
  BY <1>1, <1>2, <1>3, <1>4, <1>5 DEF Commands, StatesAfter

(* Commands of the event loop that were sent are those it waits for. *)
LEMMA IdleNoneSent ==
  ASSUME BaseInv, step = "idle"
  PROVE  NoneSent
<1>1. \A i \in DOMAIN sent : sent[i] \in Requests
  BY DEF BaseInv, Types, SentTypes
<1>2. \A i \in DOMAIN sent : sent[i].op # "idle"
  BY <1>1 DEF Requests, Operations, Commands
<1>. QED
  BY <1>2 DEF BaseInv, SentInv, OwnRequest, NoneSent

(* A call that the loop makes for an application with a tracked entry is   *)
(* a redundant command only if a notification is on its way.               *)
LEMMA RedundantCall ==
  ASSUME BaseInv, AnswerInv, Loop, NEW b \in Apps, Tracked(b),
         step' \in Commands, current'.app = b, truth[b] \in StatesAfter(step')
  PROVE  Notified(b)
<1> SUFFICES ASSUME ~Notified(b)
             PROVE  FALSE
  OBVIOUS
<1>1. truth[b] \in PluginStates
  BY SmartMonitorAssumption DEF BaseInv, Types, TruthTypes
<1>2. "idle" \notin Commands /\ "status" \notin Commands /\ "deeplink" \notin Commands
  BY DEF Commands
<1>3. CASE OnDialEvent
  <2> DEFINE n == Head(notifs)
  <2>1. n.app \in Names /\ n.request \in DialRequests
    BY <1>3, DialNames DEF OnDialEvent, BaseInv, Types
  <2>2. Cached(n.app) /\ ServeOn(n.app, n.request, m_dialApps[n.app].dial)
    BY <1>2, <1>3 DEF OnDialEvent, Call
  <2>3. current' = [app |-> n.app, request |-> n.request]
    BY <1>2, <2>2 DEF ServeOn, Done
  <2> HIDE DEF n
  <2>4. n.app = b
    BY <2>3
  <2>5. m_dialApps[b].dial = ConvertPluginStateToDIALState(truth[b])
    BY <2>2, <2>4 DEF Tracked, Current
  <2>6. ConvertPluginStateToDIALState(m_dialApps[b].dial) = ConvertPluginStateToDIALState(truth[b])
    BY <2>5, TruthConverts, DialStateConverts
  <2>. QED
    BY <1>1, <2>1, <2>2, <2>4, <2>6, NothingRedundant
<1>4. CASE StatusReturns
  <2>1. current \in [app : Names, request : DialRequests]
    BY <1>4 DEF StatusReturns, BaseInv, Types, StepTypes
  <2>2. ServeOn(current.app, current.request, answer["loop"])
    BY <1>4 DEF StatusReturns
  <2>3. current.app = b
    <3>1. current' = [app |-> current.app, request |-> current.request]
      BY <1>2, <2>2 DEF ServeOn, Done
    <3>. QED
      BY <3>1
  <2>4. ConvertPluginStateToDIALState(answer["loop"]) = ConvertPluginStateToDIALState(truth[b])
    BY <1>4, <2>3 DEF StatusReturns, AnswerInv
  <2>. QED
    BY <1>1, <2>1, <2>2, <2>4, NothingRedundant
<1>5. CASE LaunchReturns
  BY <1>2, <1>5 DEF LaunchReturns, Call
<1>6. CASE LastCallReturns \/ CallTimesOut
  BY <1>2, <1>6 DEF LastCallReturns, CallTimesOut, Done
<1>7. CASE OnRDKShellEvent \/ OnControllerStateChangeEvent
  BY <1>2, <1>7 DEF OnRDKShellEvent, OnControllerStateChangeEvent, NextOfType
<1>. QED
  BY <1>3, <1>4, <1>5, <1>6, <1>7 DEF Loop

(* Redundant commands appear while a notification is on its way, and it    *)
(* is not handled before they are executed or given up.                    *)
LEMMA RedundantStep ==
  ASSUME BaseInv, AnswerInv, [Next]_vars,
         NEW b \in Apps, Tracked(b), Redundant(b) => Notified(b), Redundant(b)'
  PROVE  Notified(b)'
<1>1. sent \in Seq(Requests)
  BY DEF BaseInv, Types, SentTypes
<1>2. CASE truth'[b] # truth[b]
  BY <1>2, TellingStep
<1>3. CASE OnRDKShellEvent \/ OnControllerStateChangeEvent
  <2>1. UNCHANGED sent /\ step = "idle"
    BY <1>3 DEF OnRDKShellEvent, OnControllerStateChangeEvent, NextOfType
  <2>. QED
    BY <2>1, IdleNoneSent DEF NoneSent, Redundant
<1>4. CASE /\ truth'[b] = truth[b]
           /\ ~OnRDKShellEvent /\ ~OnControllerStateChangeEvent
  <2>1. Notified(b) => Notified(b)'
    BY <1>4, TellingStep
  <2>2. CASE UNCHANGED sent
    BY <1>4, <2>1, <2>2 DEF Redundant
  <2>3. CASE sent' = Tail(sent) /\ sent # <<>>
    <3>1. \A i \in DOMAIN sent' : i + 1 \in DOMAIN sent /\ sent'[i] = sent[i + 1]
      BY <1>1, <2>3
    <3>2. Redundant(b)
      BY <1>4, <3>1 DEF Redundant
    <3>. QED
      BY <2>1, <3>2
  <2>4. CASE sent' = Abandoned("loop")
    BY <1>1, <2>4, AbandonedRequests DEF Redundant
  <2>5. CASE Loop /\ CallMade
    <3>1. PICK op \in Operations, a \in Names, r \in DialRequests :
            /\ step' = op
            /\ current' = [app |-> a, request |-> r]
            /\ sent' = Append(sent, [op |-> op, app |-> a, caller |-> "loop"])
      BY <2>5 DEF CallMade
    <3> DEFINE e == [op |-> op, app |-> a, caller |-> "loop"]
    <3>2. e.op = op /\ e.app = a /\ e \in Requests /\ sent' = Append(sent, e)
      BY <3>1 DEF Requests
    <3>3. current'.app = a
      BY <3>1
    <3> HIDE DEF e
    <3>4. \A i \in DOMAIN sent' : (i \in DOMAIN sent /\ sent'[i] = sent[i]) \/ sent'[i] = e
      BY <1>1, <3>2
    <3>5. CASE Redundant(b)
      BY <2>1, <3>5
    <3>6. CASE ~Redundant(b)
      <4>1. e.app = b /\ e.op \in Commands /\ truth[b] \in StatesAfter(e.op)
        BY <1>4, <3>4, <3>6 DEF Redundant
      <4>2. Notified(b)
        BY <2>5, <3>1, <3>2, <3>3, <4>1, RedundantCall
      <4>. QED
        BY <2>1, <4>2
    <3>. QED
      BY <3>5, <3>6
  <2>6. CASE Loop
    BY <2>2, <2>4, <2>5, <2>6, LoopCalls
  <2>7. CASE Execute
    BY <2>3, <2>7, ExecuteEffect
  <2>. QED
    BY <2>2, <2>6, <2>7 DEF Next, Change, Request, vars
<1>. QED
  BY <1>2, <1>3, <1>4

(* For an application whose entry start-up did not leave wrong, a command  *)
(* to bring it into the state it is in already waits to be executed only   *)
(* while the notification of that state is on its way.                     *)
THEOREM RedundantOnlyWhenLaggingAlways == StatusConverts => (Spec => RedundantOnlyWhenLagging)
<1> SUFFICES ASSUME StatusConverts, NEW a \in Apps
             PROVE  Spec => (Tracked(a) => [](Redundant(a) => Notified(a)))
  BY DEF RedundantOnlyWhenLagging
<1>1. Init => ~Redundant(a)
  <2> SUFFICES ASSUME Init PROVE ~Redundant(a)
    OBVIOUS
  <2>1. sent = <<>>
    BY DEF Init, InitCommon
  <2>2. DOMAIN sent = {}
    BY ONLY <2>1
  <2>. QED
    BY <2>2 DEF Redundant
<1>2. BaseInv /\ AnswerInv /\ [Next]_vars => AnswerInv'
  BY AnswerStep
<1>3. BaseInv /\ AnswerInv /\ Tracked(a) /\ (Redundant(a) => Notified(a)) /\ [Next]_vars
        => Tracked(a)' /\ (Redundant(a) => Notified(a))'
  BY TrackedStep, RedundantStep
<1>. QED
  BY <1>1, <1>2, <1>3, InitAnswer, BaseInvariant, PTL DEF Spec

=============================================================================
