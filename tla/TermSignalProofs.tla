-------------------------- MODULE TermSignalProofs --------------------------
(***************************************************************************)
(* Theorems about TermSignal, for signals at any stages of main, any       *)
(* number of them and any number of notifications.                         *)
(***************************************************************************)
EXTENDS TermSignal, SequenceTheorems, TLAPS

(* TypeOK in parts. *)
FlagTypes == m_isActive \in BOOLEAN /\ aborted \in BOOLEAN
ControlTypes ==
  /\ m_lock \in {"none", "term", "handler"}
  /\ held \in Locks \cup {"none"}
  /\ mainPc \in Stages \cup {"exited"}
  /\ handlerPc \in {"none", "lock", "clear", "remove", "call", "notify", "returned"}
  /\ interrupted \in Stages \cup {"none"}
  /\ termPc \in {"none", "test", "lock", "wait", "asleep", "relock", "unlock", "done"}
  /\ loopPc \in {"idle", "tested", "calling"}
TopicTypes ==
  /\ listeners \subseteq Topics
  /\ toRegister \in Seq(Topics)
  /\ toRemove \in Seq(Topics)
  /\ loopTopic \in Topics
CountTypes == signals \in 0 .. MaxSignals

(* termThread is made before main joins it, and ends only when it has seen *)
(* m_isActive cleared, which a signal handler does.                        *)
TermInv ==
  /\ termPc = "none" <=> mainPc \notin {"join", "exited"}
  /\ termPc = "done" => ~m_isActive
  /\ ~m_isActive => handlerPc # "none"

(* A handler that interrupted the join goes through all the listeners, and *)
(* main sets none after it.                                                *)
Remaining == {toRemove[i] : i \in 1 .. Len(toRemove)}

RemovalInv ==
  interrupted = "join" =>
    /\ mainPc \in {"join", "exited"}
    /\ handlerPc \in {"remove", "call"} => listeners \subseteq Remaining
    /\ handlerPc \in {"notify", "returned"} => listeners = {}

IInv ==
  /\ FlagTypes /\ ControlTypes /\ TopicTypes /\ CountTypes
  /\ TermInv
  /\ RemovalInv
  /\ ExitsOrderly

-----------------------------------------------------------------------------
LEMMA TypesAreTypeOK == FlagTypes /\ ControlTypes /\ TopicTypes /\ CountTypes => TypeOK
BY Zenon DEF TypeOK, FlagTypes, ControlTypes, TopicTypes, CountTypes

(* The topics of registerForEvents and of unRegisterForEvents are all.     *)
LEMMA InOrderIsComplete ==
  /\ InOrder \in Seq(Topics)
  /\ Topics \subseteq {InOrder[i] : i \in 1 .. Len(InOrder)}
<1>1. Len(InOrder) = 3 /\ InOrder[1] = "dial" /\ InOrder[2] = "shell" /\ InOrder[3] = "controller"
  BY DEF InOrder
<1>2. InOrder \in Seq(Topics)
  BY DEF InOrder, Topics
<1>. QED
  BY <1>1, <1>2 DEF Topics

LEMMA InitIInv == Init => IInv
<1> SUFFICES ASSUME Init PROVE IInv
  OBVIOUS
<1>1. FlagTypes
  BY Zenon DEF Init, FlagTypes
<1>2. ControlTypes
  BY DEF Init, ControlTypes, Stages
<1>3. TopicTypes
  BY InOrderIsComplete DEF Init, TopicTypes, Topics
<1>4. CountTypes
  BY TermSignalAssumption DEF Init, CountTypes
<1>5. TermInv /\ RemovalInv /\ ExitsOrderly
  BY DEF Init, TermInv, RemovalInv, ExitsOrderly
<1>. QED
  BY <1>1, <1>2, <1>3, <1>4, <1>5 DEF IInv

LEMMA FlagTypesStep ==
  ASSUME IInv, [Next]_vars
  PROVE  FlagTypes'
<1> USE DEF IInv, FlagTypes, mainVars, loopVars
<1>1. CASE UNCHANGED vars
  BY <1>1 DEF vars
<1>2. CASE Main \/ TakeLock \/ ReleaseLock
  BY <1>2, Zenon DEF Main, ConnectToThunder, SetListener, RegisterReturns, Spawn, Join,
                     TakeLock, ReleaseLock
<1>3. CASE Signal \/ HandleTermSignal
  BY <1>3, Zenon DEF Signal, HandleTermSignal, HandlerLocks, ClearActive, RemoveListener,
                     UnregisterReturns, NotifyTerm
<1>4. CASE WaitForTermSignal \/ SpuriousWakeup \/ Loop
  BY <1>4, Zenon DEF WaitForTermSignal, SpuriousWakeup, Loop, TestListener,
                     CallListener, ListenerReturns
<1>. QED
  BY <1>1, <1>2, <1>3, <1>4 DEF Next

LEMMA ControlTypesStep ==
  ASSUME IInv, [Next]_vars
  PROVE  ControlTypes'
<1> USE DEF IInv, ControlTypes, mainVars, loopVars, handlerVars
<1>1. CASE UNCHANGED vars
  BY <1>1 DEF vars
<1>2. CASE Main \/ TakeLock \/ ReleaseLock
  BY <1>2 DEF Main, ConnectToThunder, SetListener, RegisterReturns, Spawn, Join,
              TakeLock, ReleaseLock, Stages
<1>3. CASE Signal \/ HandleTermSignal
  BY <1>3, TermSignalAssumption
     DEF Signal, HandleTermSignal, HandlerLocks, ClearActive, RemoveListener,
         UnregisterReturns, NotifyTerm
<1>4. CASE WaitForTermSignal \/ SpuriousWakeup
  BY <1>4 DEF WaitForTermSignal, TestActive, TermLocks, Wait, TermUnlocks, SpuriousWakeup
<1>5. CASE Loop
  BY <1>5 DEF Loop, TestListener, CallListener, ListenerReturns
<1>. QED
  BY <1>1, <1>2, <1>3, <1>4, <1>5 DEF Next

LEMMA TopicTypesStep ==
  ASSUME IInv, [Next]_vars
  PROVE  TopicTypes'
<1> USE DEF IInv, TopicTypes, mainVars, loopVars, handlerVars
<1>1. CASE UNCHANGED <<listeners, toRegister, toRemove, loopTopic>>
  BY <1>1
<1>2. CASE SetListener
  BY <1>2, HeadTailProperties DEF SetListener
<1>3. CASE ClearActive
  BY <1>3, InOrderIsComplete DEF ClearActive
<1>4. CASE RemoveListener
  BY <1>4, HeadTailProperties DEF RemoveListener
<1>5. CASE TestListener
  BY <1>5 DEF TestListener
<1>. QED
  BY <1>1, <1>2, <1>3, <1>4, <1>5
     DEF Next, vars, Main, ConnectToThunder, RegisterReturns, Spawn, Join, TakeLock, ReleaseLock,
         Signal, HandleTermSignal, HandlerLocks, UnregisterReturns, NotifyTerm,
         WaitForTermSignal, SpuriousWakeup, Loop, CallListener, ListenerReturns

LEMMA CountTypesStep ==
  ASSUME IInv, [Next]_vars
  PROVE  CountTypes'
<1> USE TermSignalAssumption DEF IInv, CountTypes, handlerVars
<1>1. CASE UNCHANGED signals
  BY <1>1
<1>2. CASE Signal
  BY <1>2 DEF Signal
<1>. QED
  BY <1>1, <1>2
     DEF Next, vars, Main, ConnectToThunder, SetListener, RegisterReturns, Spawn, Join,
         TakeLock, ReleaseLock, HandleTermSignal, HandlerLocks, ClearActive, RemoveListener,
         UnregisterReturns, NotifyTerm, WaitForTermSignal, SpuriousWakeup,
         Loop, TestListener, CallListener, ListenerReturns

LEMMA TermStep ==
  ASSUME IInv, [Next]_vars
  PROVE  TermInv'
<1> USE DEF IInv, TermInv, mainVars, loopVars, handlerVars
<1>1. CASE UNCHANGED <<mainPc, termPc, handlerPc, m_isActive>>
  BY <1>1
<1>2. CASE Main
  BY <1>2 DEF Main, ConnectToThunder, SetListener, RegisterReturns, Spawn, Join,
              TakeLock, ReleaseLock
<1>3. CASE Signal
  BY <1>3 DEF Signal
<1>4. CASE HandleTermSignal
  BY <1>4 DEF HandleTermSignal, HandlerLocks, ClearActive, RemoveListener,
              UnregisterReturns, NotifyTerm
<1>5. CASE WaitForTermSignal \/ SpuriousWakeup
  BY <1>5 DEF WaitForTermSignal, TestActive, TermLocks, Wait, TermUnlocks, SpuriousWakeup
<1>. QED
  BY <1>1, <1>2, <1>3, <1>4, <1>5
     DEF Next, vars, TakeLock, ReleaseLock, Loop, TestListener, CallListener, ListenerReturns

LEMMA RemovalStep ==
  ASSUME IInv, [Next]_vars
  PROVE  RemovalInv'
<1> USE DEF IInv, RemovalInv, mainVars, loopVars, handlerVars
<1>1. CASE UNCHANGED <<mainPc, handlerPc, interrupted, listeners, toRemove>>
  BY <1>1 DEF Remaining
<1>2. CASE Main
  <2>1. UNCHANGED <<handlerPc, interrupted, toRemove>>
    BY <1>2 DEF Main, ConnectToThunder, SetListener, RegisterReturns, Spawn, Join,
                TakeLock, ReleaseLock
  <2>2. CASE interrupted = "join"
    <3>1. mainPc' \in {"join", "exited"} /\ UNCHANGED listeners
      BY <1>2, <2>2 DEF Main, ConnectToThunder, SetListener, RegisterReturns, Spawn, Join,
                        TakeLock, ReleaseLock
    <3>. QED
      BY <2>1, <3>1 DEF Remaining
  <2>. QED
    BY <2>1, <2>2
<1>3. CASE Signal
  BY <1>3 DEF Signal
<1>4. CASE HandlerLocks
  BY <1>4 DEF HandlerLocks
<1>5. CASE ClearActive
  <2>1. listeners' \subseteq Remaining'
    BY <1>5, InOrderIsComplete DEF ClearActive, Remaining, TopicTypes
  <2>. QED
    BY <1>5, <2>1 DEF ClearActive
<1>6. CASE RemoveListener
  <2>1. ASSUME listeners \subseteq Remaining
        PROVE  listeners' \subseteq Remaining'
    <3>1. toRemove \in Seq(Topics) /\ toRemove # <<>>
      BY <1>6 DEF RemoveListener, TopicTypes
    <3>2. Len(toRemove) \in Nat /\ Len(toRemove') = Len(toRemove) - 1
      BY <1>6, <3>1, HeadTailProperties DEF RemoveListener
    <3>3. \A i \in 1 .. Len(toRemove) : i = 1 \/ toRemove[i] = toRemove'[i - 1]
      BY <1>6, <3>1 DEF RemoveListener
    <3>4. Head(toRemove) = toRemove[1]
      BY <3>1
    <3>5. ASSUME NEW topic \in listeners'
          PROVE  topic \in Remaining'
      <4>1. topic \in listeners /\ topic # toRemove[1]
        BY <1>6, <3>4, <3>5 DEF RemoveListener
      <4>2. PICK i \in 1 .. Len(toRemove) : topic = toRemove[i]
        BY <2>1, <4>1 DEF Remaining
      <4>3. i - 1 \in 1 .. Len(toRemove') /\ topic = toRemove'[i - 1]
        BY <3>2, <3>3, <4>1, <4>2
      <4>. QED
        BY <4>3 DEF Remaining
    <3>. QED
      BY <3>5
  <2>. QED
    BY <1>6, <2>1 DEF RemoveListener
<1>7. CASE UnregisterReturns
  <2>1. toRemove = <<>> => Remaining = {}
    BY DEF Remaining
  <2>. QED
    BY <1>7, <2>1 DEF UnregisterReturns, Remaining
<1>8. CASE NotifyTerm
  BY <1>8 DEF NotifyTerm
<1>. QED
  BY <1>1, <1>2, <1>3, <1>4, <1>5, <1>6, <1>7, <1>8
     DEF Next, vars, TakeLock, ReleaseLock, HandleTermSignal, WaitForTermSignal, SpuriousWakeup,
         Loop, TestListener, CallListener, ListenerReturns

LEMMA ExitStep ==
  ASSUME IInv, [Next]_vars
  PROVE  ExitsOrderly'
<1> USE DEF IInv, ExitsOrderly
<1>1. CASE UNCHANGED vars
  BY <1>1 DEF vars, mainVars, handlerVars
<1>2. CASE Join
  BY <1>2 DEF Join, Unlocked, MainRuns, TermInv, RemovalInv, handlerVars
<1>3. CASE mainPc' # "exited"
  BY <1>3
<1>. QED
  BY <1>1, <1>2, <1>3
     DEF Next, Main, ConnectToThunder, SetListener, RegisterReturns, Spawn,
         TakeLock, ReleaseLock, Signal, HandleTermSignal, HandlerLocks, ClearActive,
         RemoveListener, UnregisterReturns, NotifyTerm, WaitForTermSignal,
         SpuriousWakeup, Loop, TestListener, CallListener, ListenerReturns, mainVars

LEMMA StepIInv ==
  ASSUME IInv, [Next]_vars
  PROVE  IInv'
BY FlagTypesStep, ControlTypesStep, TopicTypesStep, CountTypesStep, TermStep,
   RemovalStep, ExitStep, Zenon DEF IInv

-----------------------------------------------------------------------------
(* The invariant holds in every state of every behaviour.                  *)
THEOREM Invariant == Spec => []IInv
BY InitIInv, StepIInv, PTL DEF Spec

(* Every variable keeps its type; in particular the handler removes no     *)
(* listener but the three there are.                                       *)
THEOREM TypeCorrect == Spec => []TypeOK
BY Invariant, TypesAreTypeOK, PTL DEF IInv

(* Main leaves only after a signal was handled to its end, and, if it      *)
(* interrupted the join, with no listener left.                            *)
THEOREM ExitsOrderlyAlways == Spec => []ExitsOrderly
BY Invariant, PTL DEF IInv

=============================================================================
