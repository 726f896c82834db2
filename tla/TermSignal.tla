----------------------------- MODULE TermSignal -----------------------------
(***************************************************************************)
(* Leaving on SIGTERM (SmartMonitor.cpp, ThunderInterface.cpp).            *)
(*                                                                         *)
(* main connects, registers its three listeners, and joins a thread that   *)
(* waits on m_act_cv for m_isActive to be false.  A signal may come at any *)
(* of these stages, and again.  Its handler runs on the main thread, on    *)
(* top of whatever main is doing (the kernel prefers the main thread for a *)
(* signal sent to the process): it clears m_isActive, removes the three    *)
(* listeners, with remote calls for each, and notifies.  The event loop    *)
(* goes on calling the listeners meanwhile.                                *)
(*                                                                         *)
(* The locks a remote call takes are modelled only where main holds them:  *)
(* other threads always release them.                                      *)
(***************************************************************************)
EXTENDS Naturals, Sequences

CONSTANTS
  SignalAt,  \* the stages of main in which the signal may arrive
  MaxEvents, \* bound: notifications handled by the event loop
  MaxSignals \* bound: signals sent

Stages == {"connect", "register", "calling", "spawn", "join"}

ASSUME TermSignalAssumption ==
  /\ SignalAt \subseteq Stages
  /\ MaxEvents \in Nat
  /\ MaxSignals \in Nat

VARIABLES
  m_isActive,
  m_lock,        \* holder of m_lock: "none", "term" or "handler"
  held,          \* the lock main holds that a remote call takes as well:
                 \* m_requestMutex ("request"), one inside a library, such as
                 \* websocketpp's in m_client.send or the allocator's, or "none"
  listeners,     \* the topics whose listener is set
  toRegister,    \* the topics main has to register still
  mainPc,        \* where main is
  handlerPc,     \* where the signal handler is
  toRemove,      \* the topics whose listener it has to remove still
  interrupted,   \* history: where main was when the last signal arrived, or "none"
  signals,       \* counter for the bound
  termPc,        \* where termThread is
  loopPc, loopTopic,  \* where the event loop is, and with which notification
  events,        \* counter for the bound
  aborted        \* std::terminate was called

mainVars == <<mainPc, toRegister, held>>
handlerVars == <<handlerPc, toRemove, interrupted, signals>>
loopVars == <<loopPc, loopTopic, events, aborted>>
vars == <<m_isActive, m_lock, listeners, mainVars, handlerVars, termPc, loopVars>>

(* The order of registerForEvents and of unRegisterForEvents. *)
InOrder == <<"dial", "shell", "controller">>
Topics == {"dial", "shell", "controller"}

Locks == {"request", "library"}

TypeOK ==
  /\ m_isActive \in BOOLEAN
  /\ m_lock \in {"none", "term", "handler"}
  /\ held \in Locks \cup {"none"}
  /\ listeners \subseteq Topics
  /\ mainPc \in Stages \cup {"exited"}
  /\ handlerPc \in {"none", "lock", "clear", "remove", "call", "notify", "returned"}
  /\ interrupted \in Stages \cup {"none"}
  /\ signals \in 0 .. MaxSignals
  /\ toRegister \in Seq(Topics) /\ toRemove \in Seq(Topics)
  /\ termPc \in {"none", "test", "lock", "wait", "asleep", "relock", "unlock", "done"}
  /\ loopPc \in {"idle", "tested", "calling"} /\ loopTopic \in Topics
  /\ aborted \in BOOLEAN

Init ==
  /\ m_isActive = TRUE
  /\ m_lock = "none"
  /\ held = "none"
  /\ listeners = {}
  /\ toRegister = InOrder
  /\ mainPc = "connect"
  /\ handlerPc = "none"
  /\ toRemove = <<>>
  /\ interrupted = "none"
  /\ signals = 0
  /\ termPc = "none"
  /\ loopPc = "idle" /\ loopTopic = "dial" /\ events = 0
  /\ aborted = FALSE

-----------------------------------------------------------------------------
(* The main thread, unless the handler runs on it.  From stage to stage it *)
(* goes without a lock.                                                    *)
MainRuns == handlerPc \in {"none", "returned"}
Unlocked == MainRuns /\ held = "none"

(* The loop of main that connects, which does not look at m_isActive: the  *)
(* connection opens in time, or trying again aborts (Transport).           *)
ConnectToThunder ==
  /\ Unlocked
  /\ mainPc = "connect"
  /\ \/ mainPc' = "register" /\ UNCHANGED aborted
     \/ aborted' = TRUE /\ UNCHANGED mainPc
  /\ UNCHANGED <<m_isActive, m_lock, held, listeners, toRegister,
                 handlerVars, termPc, loopPc, loopTopic, events>>

(* Set the listener of the next topic, then subscribe. *)
SetListener ==
  /\ Unlocked
  /\ mainPc = "register"
  /\ toRegister # <<>>
  /\ listeners' = listeners \cup {Head(toRegister)}
  /\ toRegister' = Tail(toRegister)
  /\ mainPc' = "calling"
  /\ UNCHANGED <<m_isActive, m_lock, held, handlerVars, termPc, loopVars>>

(* getRequestStatus locks m_requestMutex, and releases it to wait.  The    *)
(* locks of libraries are taken and released all the time, but for the     *)
(* join.  (Holding two is no different from holding one.)                  *)
TakeLock ==
  /\ Unlocked
  /\ mainPc # "join"
  /\ held' \in Locks
  /\ held' = "request" => mainPc = "calling"
  /\ UNCHANGED <<m_isActive, m_lock, listeners, mainPc, toRegister, handlerVars,
                 termPc, loopVars>>

ReleaseLock ==
  /\ MainRuns
  /\ held # "none"
  /\ held' = "none"
  /\ UNCHANGED <<m_isActive, m_lock, listeners, mainPc, toRegister, handlerVars,
                 termPc, loopVars>>

(* The call returns; the last one is followed by waitForTermSignal. *)
RegisterReturns ==
  /\ Unlocked
  /\ mainPc = "calling"
  /\ mainPc' = IF toRegister = <<>> THEN "spawn" ELSE "register"
  /\ UNCHANGED <<m_isActive, m_lock, held, listeners, toRegister,
                 handlerVars, termPc, loopVars>>

Spawn ==
  /\ Unlocked
  /\ mainPc = "spawn"
  /\ termPc' = "test"
  /\ mainPc' = "join"
  /\ UNCHANGED <<m_isActive, m_lock, held, listeners, toRegister,
                 handlerVars, loopVars>>

(* Fault: main does not join the thread. *)
Join_Detached ==
  /\ Unlocked
  /\ mainPc = "join"
  /\ mainPc' = "exited"
  /\ UNCHANGED <<m_isActive, m_lock, held, listeners, toRegister,
                 handlerVars, termPc, loopVars>>

(* termThread.join() returns, and main with it. *)
Join ==
  /\ Unlocked
  /\ mainPc = "join"
  /\ termPc = "done"
  /\ mainPc' = "exited"
  /\ UNCHANGED <<m_isActive, m_lock, held, listeners, toRegister,
                 handlerVars, termPc, loopVars>>

Main == ConnectToThunder \/ SetListener \/ RegisterReturns \/ Spawn \/ Join

-----------------------------------------------------------------------------
(* The signal handler. *)

(* SIGTERM is blocked while its handler runs, and may come again after.    *)
Signal ==
  /\ MainRuns
  /\ mainPc \in SignalAt
  /\ signals < MaxSignals
  /\ signals' = signals + 1
  /\ handlerPc' = "lock"
  /\ interrupted' = mainPc
  /\ UNCHANGED <<m_isActive, m_lock, listeners, mainVars, toRemove, termPc, loopVars>>

HandlerLocks ==
  /\ handlerPc = "lock"
  /\ m_lock = "none"
  /\ m_lock' = "handler"
  /\ handlerPc' = "clear"
  /\ UNCHANGED <<m_isActive, listeners, mainVars, toRemove, interrupted,
                 signals, termPc, loopVars>>

(* Fault: a listener that does not exist is to be removed as well. *)
ClearActive_UnknownTopic ==
  /\ handlerPc = "clear"
  /\ m_isActive' = FALSE
  /\ handlerPc' = "remove"
  /\ toRemove' = InOrder \o <<"standby">>
  /\ UNCHANGED <<m_lock, listeners, mainVars, interrupted, signals, termPc, loopVars>>

ClearActive ==
  /\ handlerPc = "clear"
  /\ m_isActive' = FALSE
  /\ handlerPc' = "remove"
  /\ toRemove' = InOrder
  /\ UNCHANGED <<m_lock, listeners, mainVars, interrupted, signals, termPc, loopVars>>

RemoveListener ==
  /\ handlerPc = "remove"
  /\ toRemove # <<>>
  /\ listeners' = listeners \ {Head(toRemove)}
  /\ toRemove' = Tail(toRemove)
  /\ handlerPc' = "call"
  /\ UNCHANGED <<m_isActive, m_lock, mainVars, interrupted, signals, termPc, loopVars>>

(* The calls that unsubscribe return, unless they wait for a lock that     *)
(* main held when it was interrupted.                                      *)
UnregisterReturns ==
  /\ handlerPc = "call"
  /\ held = "none"
  /\ handlerPc' = IF toRemove = <<>> THEN "notify" ELSE "remove"
  /\ UNCHANGED <<m_isActive, m_lock, listeners, mainVars, toRemove, interrupted,
                 signals, termPc, loopVars>>

(* Fault: nobody is notified. *)
NotifyTerm_Never ==
  /\ handlerPc = "notify"
  /\ m_lock' = "none"
  /\ handlerPc' = "returned"
  /\ UNCHANGED <<m_isActive, listeners, mainVars, toRemove, interrupted,
                 signals, termPc, loopVars>>

(* notify_one, and the lock is released on return. *)
NotifyTerm ==
  /\ handlerPc = "notify"
  /\ termPc' = IF termPc = "asleep" THEN "relock" ELSE termPc
  /\ m_lock' = "none"
  /\ handlerPc' = "returned"
  /\ UNCHANGED <<m_isActive, listeners, mainVars, toRemove, interrupted, signals, loopVars>>

HandleTermSignal ==
  \/ HandlerLocks \/ ClearActive \/ RemoveListener \/ UnregisterReturns \/ NotifyTerm

-----------------------------------------------------------------------------
(* termThread in waitForTermSignal. *)

(* while (m_isActive), read without m_lock. *)
TestActive ==
  /\ termPc = "test"
  /\ termPc' = IF m_isActive THEN "lock" ELSE "done"
  /\ UNCHANGED m_lock

TermLocks ==
  /\ termPc \in {"lock", "relock"}
  /\ m_lock = "none"
  /\ m_lock' = "term"
  /\ termPc' = IF termPc = "lock" THEN "wait" ELSE "unlock"

(* m_act_cv.wait(ulock): release m_lock and block, atomically. *)
Wait ==
  /\ termPc = "wait"
  /\ m_lock' = "none"
  /\ termPc' = "asleep"

(* Fault: m_lock is kept when the loop is repeated. *)
TermUnlocks_Keeps ==
  /\ termPc = "unlock"
  /\ termPc' = "test"
  /\ UNCHANGED m_lock

TermUnlocks ==
  /\ termPc = "unlock"
  /\ m_lock' = "none"
  /\ termPc' = "test"

WaitForTermSignal ==
  /\ TestActive \/ TermLocks \/ Wait \/ TermUnlocks
  /\ UNCHANGED <<m_isActive, listeners, mainVars, handlerVars, loopVars>>

SpuriousWakeup ==
  /\ termPc = "asleep"
  /\ termPc' = "relock"
  /\ UNCHANGED <<m_isActive, m_lock, listeners, mainVars, handlerVars, loopVars>>

-----------------------------------------------------------------------------
(* The event loop: test the listener of a notification, then call it; an   *)
(* empty std::function throws, and nothing catches it.                     *)

TestListener ==
  /\ loopPc = "idle"
  /\ events < MaxEvents
  /\ events' = events + 1
  /\ \E topic \in listeners : loopTopic' = topic
  /\ loopPc' = "tested"
  /\ UNCHANGED <<m_isActive, m_lock, listeners, mainVars, handlerVars, termPc, aborted>>

CallListener ==
  /\ loopPc = "tested"
  /\ IF loopTopic \in listeners
     THEN loopPc' = "calling" /\ UNCHANGED aborted
     ELSE aborted' = TRUE /\ UNCHANGED loopPc
  /\ UNCHANGED <<m_isActive, m_lock, listeners, mainVars, handlerVars, termPc,
                 loopTopic, events>>

ListenerReturns ==
  /\ loopPc = "calling"
  /\ loopPc' = "idle"
  /\ UNCHANGED <<m_isActive, m_lock, listeners, mainVars, handlerVars, termPc,
                 loopTopic, events, aborted>>

Loop == TestListener \/ CallListener \/ ListenerReturns

-----------------------------------------------------------------------------
Next ==
  /\ ~aborted
  /\ mainPc # "exited"
  /\ Main \/ TakeLock \/ ReleaseLock \/ Signal \/ HandleTermSignal \/ WaitForTermSignal
       \/ SpuriousWakeup \/ Loop

(* Every thread that can run does, and every remote call returns.  (Main   *)
(* takes and releases locks any number of times at a stage.)  The signal   *)
(* need not be sent, and no notification need arrive.                      *)
Fairness ==
  /\ SF_vars(~aborted /\ Main)
  /\ WF_vars(~aborted /\ ReleaseLock)
  /\ WF_vars(~aborted /\ HandleTermSignal)
  /\ SF_vars(~aborted /\ HandlerLocks)
  /\ WF_vars(~aborted /\ mainPc # "exited" /\ WaitForTermSignal)
  /\ WF_vars(~aborted /\ mainPc # "exited" /\ (CallListener \/ ListenerReturns))

Spec == Init /\ [][Next]_vars /\ Fairness

-----------------------------------------------------------------------------
(* Main leaves only after a signal was handled to its end, and, if main    *)
(* was joining termThread when it arrived, with no listener left that      *)
(* could be called while the process is torn down.  (After an earlier      *)
(* signal main goes on to set the remaining listeners.)                    *)
ExitsOrderly ==
  mainPc = "exited" =>
    /\ ~m_isActive
    /\ handlerPc = "returned"
    /\ interrupted = "join" => listeners = {}

(* A termThread that sleeps when the handler has the lock is woken and     *)
(* ends, and main leaves: m_isActive is cleared and the notification given *)
(* under the lock that the thread has to take to go on.                    *)
SleeperLeaves ==
  (m_lock = "handler" /\ termPc = "asleep" /\ mainPc = "join")
    ~> (mainPc = "exited" \/ aborted)

(* The ways in which a signal can fail to end the program. *)
SleepsOn == handlerPc = "returned" /\ termPc = "asleep"
SelfDeadlock == handlerPc = "call" /\ held # "none"
Signalled == handlerPc # "none"

(* There are no more than three of them: the process aborts, termThread    *)
(* sleeps through the notification, or the handler waits for a lock held   *)
(* by the thread it interrupted.                                           *)
LeavesOrFails ==
  Signalled ~> (mainPc = "exited" \/ aborted \/ SleepsOn \/ SelfDeadlock)

(* SIGTERM ends the program, which is what m_isActive and m_act_cv are     *)
(* there for (SmartMonitor.h).                                             *)
ExitsOnTerm == Signalled ~> (mainPc = "exited" \/ aborted)
=============================================================================
