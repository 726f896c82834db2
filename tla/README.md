# A TLA+ model of xdialtester

xdialtester answers DIAL requests (launch YouTube, stop Netflix, ...) on an RDK
set-top box. It talks JSON-RPC over one websocket to *Thunder*: it subscribes
to the notifications of three plugins (XCast for DIAL requests, Controller and
RDKShell for changes of an application's state), keeps a cache of the state of
each application, and serves every DIAL request with further remote calls.

The program is small, but five threads run in it (main, the websocket thread,
the event loop, the clean-up thread and the thread that waits for SIGTERM), a
signal handler makes remote calls, and most of the shared state has no lock.
This directory holds TLA+ modules of that behaviour, TLC configurations that
check them on small instances, and proofs checked by TLAPS.

Run a check with `tlc -config RpcStartup.cfg MCResponseHandler`, a proof with
`tlapm ResponseHandlerProofs.tla`. `PROJECT.json` lists the components, the runs,
for every property a mutation of the model that violates it, the source lines of
every definition, the findings, and the hazards of the code with the properties
that cover them. Paths below are relative to `src/src/`.

## 1. The system

| Component | State | Operations | Modules |
|---|---|---|---|
| Message ids (`thunder/ProtocolHandler.cpp`) | `event_id`, a plain static int | `addVersion` in every request builder: copy, then increment; a subscription increments twice | `RequestIds` |
| Request table (`thunder/ResponseHandler.cpp`) | `m_pendingRequests`: id -> context with promise and state | `getRequestStatus` (caller), `addMessageToResponseQueue` (websocket thread), `cleanupExpiredRequests` (clean-up thread) | `ResponseHandler`, abstractly `RpcCalls` |
| Event queue and loop (same file) | `m_eventQueue`, `m_runLoop`, `m_eventMutex`, `m_eventCV` | `addMessageToEventQueue`, `runEventLoop`, `runCleanupLoop`, `shutdown` | `EventLoop`, abstractly `EventOrder` |
| SmartMonitor (`SmartMonitor.cpp`) | `m_dialApps`: plugin state and DIAL state by application | `onRDKShellEvent`, `onControllerStateChangeEvent`, `onDialEvent`, `getPluginState` | `AppStates`, `SmartMonitor` |
| Start-up (`XdialTester.cpp`, `SmartMonitor.cpp`) | the same cache, written by main | `registerForEvents`, `setStandbyBehaviour`, `checkAndEnableCasting`, `registerDIALApps` | `Startup` |
| Termination (`SmartMonitor.cpp`, `thunder/ThunderInterface.cpp`) | `m_isActive`, `m_lock`, `m_act_cv`, the three listeners | `waitForTermSignal`, `handleTermSignal`, `unRegisterForEvents` | `TermSignal` |
| Transport and connection (`thunder/TransportHandler.cpp`, `ThunderInterface.cpp`, `XdialTester.cpp`) | `m_wsHdl`, `m_connectionState`, `isConnected`, `mp_thThread` | main's loop around `connectToThunder`, `connect`, `sendMessage`, the callbacks of websocketpp | `Transport`, abstractly `Link` |
| Decoding (`thunder/ProtocolHandler.cpp`, `processResponse`, `processEvent`) | none | where a message goes, what a method reports for a response | `Messages` (operators) |
| Configuration, command line, logging | read once at the start | | not modelled |

How they interact:

- Every method of `ThunderInterface` builds a message, hands it to the transport
  and then waits in `getRequestStatus`. Main does so during start-up (and in
  the SIGTERM handler), the event loop whenever it serves a DIAL request.
- The websocket thread sorts what arrives into responses, which complete
  an entry of the request table, and notifications, which are queued.
- The event loop takes the whole queue as a batch and runs the listeners of
  `ThunderInterface` and through them the handlers of `SmartMonitor`, without
  holding a lock. While a handler waits for a response, notifications pile up.
- Main and the event loop share `event_id`, `m_dialApps` and the listeners
  without a lock. Both read the connection's state and handle, which the
  websocket thread writes.

What is hard, and what each component has to get right:

- *Ids and requests*: two threads building requests; a response before the
  request is in the table, after its caller gave up, or never; the clean-up
  thread sweeping an entry whose caller has been signalled. A call must return
  its own response or nothing, must return, and must leave nothing behind.
- *Event loop*: the queue swapped away while it is appended to, a wake-up
  lost, a shutdown while handlers run. Notifications must be handled once and
  in order, and shutdown must return.
- *SmartMonitor*: cached states are never asked for again, and an answer may be
  older than a notification in the queue. An entry must not become wrong with no
  notification on its way that corrects it.
- *Start-up*: main fills the cache while the event loop updates it, and subscribes to
  fifteen events one by one, so that some changes are notified and others are not.
- *Termination*: the handler runs on main, on top of whatever main does.
- *Transport*: the connection opens after main has given up on it, fails, or
  closes between the test of the state and the send. A thread that finds
  the connection open must find its handle, main must not go on before messages
  can be sent, and a closed connection must not end the process once it is known
  to be closed.
- *Decoding*: a method must report success only for what Thunder has done.

## 2. The modules

`RequestIds`, `ResponseHandler`. The n-th request of thread `t` is `<<t, n>>`,
and the text of a response is abstracted to the request it answers. Each
critical section under `m_requestMutex` is one action, since nothing inside one
can be observed from outside: `RegisterRequest`, `TakeCompleted` and
`FutureAlreadyRetrieved` are the three ways through the first section of
`getRequestStatus`; `WakeReady` and `WakeTimeout` are `wait_for`, which is
outside the mutex; `ReturnResponse` and `ReturnTimeout` are the second section.
The increment of `event_id` is two actions, as nothing makes it atomic.
`CleanupExpiredRequests` may take any pending entry for expired: that needs a
request older than 300 s (`MAX_REQUEST_AGE`), and so a process that was stopped,
but the proofs do not need to exclude it. `Disconnect` is final: main does not
connect again once it has started up. There are two specifications. In `Spec` the
threads build requests at any time. In `InTurnSpec` a thread begins to build one only
while no other is building (`BuildsAlone`), though calls overlap: this is a first
run of the program until SIGTERM (section 3).

`RpcCalls` is what the callers rely on: a call is outstanding and then returns
its own answer or nothing. `ResponseHandler` refines it when requests are built in turn
(`ImplementsRpc`, with `busy`, `count` and `answer` computed from `pc`, `calls`
and `outcome`), and `SmartMonitor` and `Startup` are built on it: their threads
have at most one call outstanding, which is answered or times out.

`EventLoop`. The holder of `m_eventMutex` is a variable where a thread holds the
mutex over a test another thread can falsify (the predicate of the wait,
against `m_runLoop`, which is written without the mutex). `Block` releases the
mutex and sleeps in one step, as a condition variable does; wake-ups may be
spurious. A handler is a stage of its own, so that notifications, clean-up and
shutdown interleave with it. `EventOrder` is its abstract specification: FIFO,
exactly once, and eventually while the program is not shutting down.

`AppStates`, `SmartMonitor`. A DIAL request is served by `OnDialEvent` up to its
first remote call and by `StatusReturns`, `LaunchReturns`, `LastCallReturns` or
`CallTimesOut` from the return of a call to the next call. `ServeOn` is the
part of `onDialEvent` that decides on the state. A call that times out
stays in `sent` with caller "nobody": Thunder may execute it later. The initial
states are what start-up can leave: every entry is empty or filled with some fetched
state, right or not. That every subscription succeeded is assumed here; `Startup` does
without it.

Thunder and XCast are external and modelled by what the program relies on: they
execute requests in order (or refuse them), and every change of a plugin's state is
notified to the subscribers, by Controller or by an RDKShell event that means the
same, if such an event is subscribed to. Should Thunder not notify a change, the
program has no way to learn of it, because it never asks again for a state it has
cached. Applications named in no DIAL registration are `Strangers`: they have no cache
entry, and their state is asked for every time.

`Startup` EXTENDS `SmartMonitor` with the main thread until `waitForTermSignal`.
`Script` is the list of its calls. The two string assignments of
`registerDIALApps` are two actions each (`StorePlugin`/`PluginStored`,
`StoreDial`/`DialStored`): a string main is writing is `Torn`, and if the event
loop wrote it meanwhile, the old, the new or a torn value may come out. The
model leaves out reads of a torn string (their outcome is undefined);
`LoopServesAfterMain` says when there are none. The calls about standby
and the friendly name are made, may be lost, and change nothing else that is
modelled. Each of the fifteen `Subscriptions` is a call of its own: an event is
notified only from the moment its own call was executed (`ServeMain`), and the calls
may be refused (`RefuseMain`) or time out one by one. A change of state to which
nothing is subscribed is lost on the program; `unheard` records for which
applications the last change was such a one.

`TermSignal`. The signal handler runs on the main thread, so that main makes no
step while it does (`MainRuns`). POSIX lets the kernel choose any thread that
does not block the signal; Linux prefers the main thread, and this is what is
modelled. Locks that remote calls take are modelled only where main holds one
when it is interrupted (`held`), since other threads release them in any case:
`m_requestMutex`, and one that stands for those of the libraries (websocketpp's in
`m_client.send`, the allocator's). Main's loop that connects
is one stage, "connect", with the outcome that `Transport` gives it: main registers
its listeners, or the process has ended. The loop does not look at `m_isActive`,
so that a signal at this stage is acted on only after start-up, and a signal may
be sent again once its handler has returned (while it runs, it is blocked).

`Messages` has no state: a message is a record of the members the code looks
at, and an operator per function tells where the message is routed (`ToMsgHandler`,
`GetMessageId`, `IsQueued`) or that it ends the process (`IsFatal`: `asInt()` throws on
an id that is a string), which listener it is for (`Listener`) and what a
method of `ThunderInterface` reports for it (`Reports`, over
`ConvertResultStringToBool` and the other tests of `ProtocolHandler.cpp`).
`Unparsable` is also the empty string that `getRequestStatus` returns when it has
no answer.

`Transport`. Three threads: main in its loop (`ConnectToThunder`,
`GetConnectStatus`), the websocket thread (`Connect`, then the handlers of
`TransportHandler`), and the event loop, which calls methods as main does. The
handlers' stores to `m_wsHdl`, `m_connectionState` and `isConnected` are an action
each; so are the test of the state (`TestState`) and the send (`Send`) of
`sendMessage`. `socket` is what websocketpp knows and the program does not
yet. The 5 s main sleeps are not measured: the connection may open, fail or do
neither meanwhile. `std::terminate` sets `terminated`, after which nothing
happens. The request table is reduced to what `RpcCalls` promises of it.

`Link` is what the other modules rely on: the connection is up once, messages are
handed over only while it is, and it does not come back (`Disconnect` of
`ResponseHandler` is final for that reason). `Transport` refines it, with the phase
computed from `m_connectionState` and `m_wsHdl`.

The modules `MC...` instantiate these for TLC and hold nothing else. Definitions
named `X_Y` and introduced by "Fault:" are mutations of the definition `X`; no
specification uses them.

## 3. The runs

Passing runs:

| Run | Configuration | States | What it shows |
|---|---|---|---|
| `rpc_startup` | main (one call, perhaps a subscription) and the event loop (two calls) | 142,736 | `OwnResponse`, `NoAbort`, `NoAbandonedEntry` as long as ids are distinct; `AnswerSurvivesCleanup`; every call returns |
| `rpc_in_turn` | the same, requests built in turn | 35,828 | ids are distinct, the table implements `RpcCalls` and drains |
| `event_loop` | three notifications of two kinds, one shutdown | 4,903 | `Fifo`, `QuietAfterShutdown`, shutdown returns, implements `EventOrder` |
| `monitor_steady` | one application and one stranger, any entries to begin with, two spontaneous changes, two DIAL requests | 326,744 | `KeepsTracking`, `RedundantOnlyWhenLagging`, `CacheConverges` |
| `startup` | one application and one stranger, two states, one change and one request; a first run with one refused call, or a restart | 1,123,083 | `Serving`, `EventWins`, `LoopServesAfterMain`, start-up completes |
| `term_anytime` | two signals at any stages, three notifications | 17,709 | `ExitsOrderly`, `SleeperLeaves`, `LeavesOrFails` |
| `transport` | two method calls of each thread, two messages that answer none | 137,289 | `HandleStored`, `StaleOnlyAfterClose`, `HonestSuccess`, `SafeOnceReported`, implements `Link` |

Runs that TLC finds violated, each a finding of section 5: `rpc_early_response`,
`rpc_shared_ids`, `startup_race`, `term_lost_wakeup`, `transport_retry`.

Why the bounds are enough:

- *Calls.* A hazard of the table involves an entry, its caller and one other
  request: a late response to an earlier request of the same caller, or a
  request of the other thread. Two calls of one thread and one of the other
  have all of these, and leave room for several timed-out entries at once. The
  proofs have no bound at all.
- *Notifications.* With three, one can be handled, one be in the batch and one
  in the queue. The proofs have no bound.
- *Changes and requests.* The cache goes wrong when one change meets one fetch;
  a request brings about a further change (the application it launches or
  stops), and a second spontaneous change overtakes it. Applications do not
  interact, except for Netflix and YouTube (section 5).
- *States.* One plugin state for each of the three DIAL states. The others
  convert to the same three, which `AppStates` has in full. `startup` has two of
  them, running and stopped: suspension differs by its event only, and the script of
  fifteen subscriptions multiplies the states. There any call of main may time out,
  after it was executed or before; one refused call in a first run and
  none in a restart add the answers that are errors. Its proofs have no bound.
- *Events of the loop in `TermSignal`.* A listener can be in use or tested at the
  removal of each of the three. With two signals, the second comes after
  the first was handled without effect.
- *Methods in `Transport`.* The methods chosen have every kind of result, and
  Thunder answers each with every form of response that the code tells apart. A
  method that went wrong leaves its `result` behind for the next, and with two calls
  each, one thread can be at every point of a call while the other is between
  two. There is one connection, since a second attempt ends the process.

Deadlock is not checked: the bounds run out, and the program really ends in
`EventLoop` and `TermSignal`. That nobody is stuck is stated as liveness instead.

Fairness. A thread that can go on does (weak fairness on each thread's steps):
the code relies on nothing but the scheduler, and no thread polls for another
with a chance of missing it for ever. The clean-up thread sweeps every 30 s
(`CLEANUP_INTERVAL`) and removes what is older than 300 s, so that a call would
return even if its own time limit failed (`CallReturns` holds twice over). In
`TermSignal`, `HandlerLocks` needs strong fairness, as termThread takes and releases
`m_lock` after each spurious wake-up, and so does main, which may take and release
locks any number of times at a stage; a lock it has taken it releases, unless the
signal handler stands in its way. `Transport` has no fairness: its properties are
about what may not happen. Never assumed: that Thunder answers, that a
notification arrives, that the connection opens, stays or closes, that a signal is
sent, that a thread begins another call.

Remote calls return in `EventLoop`, `SmartMonitor`, `Startup` and `TermSignal`; that
is `CallReturns` of `ResponseHandler`. `SmartMonitor` and `Startup` further take
from it that a call returns its own answer, which `ResponseHandler` gives when
ids are distinct, and they are when requests are built in turn (`InTurnDistinctIds`).
What keeps main and the event loop apart in a first run is
`LoopServesAfterMain`: XCast forwards nothing before `registerApplications`, the last
request main builds during start-up. Two cases remain in which nothing keeps them
apart, and `rpc_shared_ids` shows what may come of it: a restart, in which XCast
forwards requests from the first subscription on, and SIGTERM, whose handler
unsubscribes on the main thread while the event loop serves requests.

## 4. The proofs

`ResponseHandlerProofs`, for any set of callers, any number of calls and any
first id, from the assumptions of `RequestIds` and `ResponseHandler` (the three
values `Empty`, `Unset` and `Broken` differ from each other and are no requests):

- `TypeCorrect`: the type invariant.
- `OwnResponseAlways`, `NoAbortAlways`, `NoAbandonedEntryAlways`: the safety
  invariants of `rpc_startup`. None is inductive alone: that a call returns its
  own response depends on what its future holds, which depends on the entry of
  the table, which depends on ids. The inductive invariant is `IInv ==
  IssuedInv /\ (NoCollision => TableInv)`. `IssuedInv` is unconditional: the
  id of every active call, undelivered request and table entry was issued
  to the request it is for. `TableInv` ties each entry to its owner's stage
  and future. The implication is inductive because `issued` only grows: if
  `NoCollision` holds after a step it held before it, so `TableInv` did too.
- `AnswerSurvives`: the action property `AnswerSurvivesCleanup`.
- `InTurnDistinctIds`, for threads that build requests in turn: `NoCollision`. Its
  invariant `CounterInv` says that ids issued are below the counter (the id just
  taken being equal to it until the counter is stored back), and that at most one
  thread is between the two.
- `InTurnThreadSafe`: then `ThreadSafe` holds, which `rpc_shared_ids` refutes
  for threads that do not take turns.
- `InTurnRefinesRpc`: then every step of `ResponseHandler` is a step of
  `RpcCalls` or a stutter.

`EventLoopProofs`, for any notifications in any number:

- `TypeCorrect`, `FifoAlways` and `QuietAfterShutdownAlways`. `Fifo` is inductive
  with the types and the fact that the batch is empty unless the loop is in
  it; `QuietAfterShutdown` with the stages shutdown has passed.
- `EventLoopRefinesOrder`: every step is a step of `EventOrder` or a stutter.

`TransportProofs`, for any methods, messages and number of calls:

- `TypeCorrect`, `HandleStoredAlways`, `StaleOnlyAfterCloseAlways`. The three
  variables a handler of the websocket thread stores are written one after the other
  and read without a lock, so no property of them is inductive alone. `WsInv` says,
  for every step the websocket thread can be at, what `socket`, `m_wsHdl`,
  `m_connectionState` and `isConnected` are; `MainInv` that there is one websocket
  thread (a second attempt has ended the process) and that main serves only when it
  was told; `BusyInv` that a thread in a call has seen the connection open.
- `SafeOnceReportedAlways` needs `TerminatedInv` besides: what ends the process is main's
  second attempt, a message on the open connection, or a call past its test.
- `HonestSuccessAlways`: `AnswerInv` keeps, with every response a thread holds, that
  one for which its method reports success is to a request that was carried out.
  What `Reports` makes of each form of response is in lemmas.
- `TransportRefinesLink`: `Spec => ImplementsLink`, the whole property, as `Link` states
  no fairness.

`TermSignalProofs`, for any number of signals and of notifications:

- `TypeCorrect`, and `ExitsOrderlyAlways` from two facts: termThread ends only after
  a handler has cleared `m_isActive` (`TermInv`), and a handler that interrupted the join
  has removed the listeners it is past, which nobody sets again (`RemovalInv`).

`SmartMonitorProofs`, for any applications, plugin states, RDKShell notifications,
and any number of changes and requests:

- `TypeCorrect`, for any spelling of states in Thunder's answers.
- `KeepsTrackingAlways`, under `StatusConverts`: a state is spelled in Thunder's answer so
  that it converts as the state does. The runs' `LowerCase` is such a spelling; with
  `Capitalised` the hypothesis is false and so is the property (section 5). It is
  about steps, so that nothing need be known of the entries start-up left. The
  invariant has three parts. `LastInv`: the last notification on its way about
  an application tells its state. `SentInv`: a request of the event loop not yet
  executed is the one it waits for; an answer to a request given up goes nowhere.
  `AnswerInv`: the answer to a status request was right when it was given, and if the
  state has changed since, a notification is on its way. Without it
  `StatusReturns`, which stores an answer that may be old, could make an entry wrong.
- `RedundantOnlyWhenLaggingAlways`, under the same hypothesis: once an entry is
  tracked it stays so, and the command is decided on it or on an answer, both of which
  are right or being corrected.

`StartupProofs`, for any enabled applications, registrations left in XCast and
refusals of Thunder:

- `StartupTypeCorrect`. That the strings of the cache are states or `Torn` needs what
  main is about to store: `FetchInv`, the answer to a status request spells a state,
  and converts when its conversion is stored. That needs `MainSentInv`: main has at most
  one request that is not executed, and it is the call it waits for (`StartupInvariant`).
- `ServingAlways`. `ProgressInv`: unless a call was lost, what has to be done is done
  or its call is still in the script, for each of the fifteen subscriptions.
  `DoneInv`: a call answered with success was executed.
- `LoopServesAfterMainAlways`. `RegisterInv`: the registration is the last call of the
  script, no request for it exists before main waits for it, and until then XCast
  knows no application and no DIAL request is in the queue.
- `EventWinsAlways`. The invariant: `HeardInv`, which is `LastInv` for every
  application whose last change was heard, and the property itself. It needs no
  hypothesis on the spelling, nor on which events are subscribed to: a change that
  nobody was told of makes the application one of `unheard`, until one that is
  notified.

Attempting these proofs showed two arms of the choice of a call in `ServeOn` to
overlap ("launch" while the application runs), of which TLC takes the first and a
proof may take neither for granted; the arms are now disjoint, as the `if`s of
`onDialEvent` are. Every invariant named above was first checked by TLC on the run of
its module.

Only model-checked, because the prover has no liveness: `CallReturns`, `TableDrains`,
`ShutdownReturns`, `CacheConverges`, `StartupCompletes`, `LeavesOrFails`, `SleeperLeaves`,
and the fairness in `ImplementsRpc` and `ImplementsEventOrder`, of which the
theorems give the steps. That requests are built in turn in a first run is an argument
across two modules (`LoopServesAfterMainAlways`, then `InTurnDistinctIds`), not a theorem.

## 5. Findings

1. `rpc_early_response`. A request is sent before it is in the table. A response
   that comes in between is dropped as "late", and the caller waits out its
   time-out for a request that was executed.
2. `rpc_shared_ids`. Two threads can take one message id. One gets the other's
   response, or `get_future` throws and the process ends.
3. `startup_race`. Main writes the state it fetched over a newer one that the
   event loop has stored; the cache stays wrong until the next change.
4. `term_lost_wakeup`. `m_isActive` is tested outside `m_lock`, and the wait has no
   predicate: SIGTERM between the two leaves termThread asleep for ever.
5. `transport_retry`. Main's loop is there to try again until Thunder is up, but
   `connectToThunder` deletes the thread of the attempt before, which was not
   joined: `std::terminate`.

Two defects of `registerDIALApps` need no interleaving and have no run. The cache entry of
Netflix is filled with the state of YouTube (`SmartMonitor.cpp` 440, which is what
`AskedFor` says). A state fetched by `getPluginState` is not put
in lower case, and with the spelling the comments of the code show ("Activated",
`thunder/ThunderInterface.cpp` 566) it is not converted (`StatusState <- Capitalised`), so
that the application counts as neither running nor stopped; whether this bites
depends on the version of Thunder. `Startup.cfg` with such constants,
`FreshAfterStartup` as its invariant and no changes or requests shows either.

The subscriptions come one by one (`thunder/ThunderInterface.cpp` 487-495). A launch
notified once its event is subscribed to, and a destroy before the later ones are, leave
an entry that says "running" with nothing on its way. This is why `EventWins` leaves
`unheard` applications out. Main's fetch, which comes later, repairs the entry, but not
when it is lost, and never that of Netflix.

A response whose id is a string makes `getMessageId` throw on the websocket thread, where
nothing catches it (`thunder/ProtocolHandler.cpp` 392), although requests carry their
ids as strings (39). How Thunder answers is not in the repository; `Transport` has such
a message among the arrivals, and it ends the process.

`LeavesOrFails` has two more ways for SIGTERM to go wrong: the handler, which makes
remote calls, waits for a lock that the main thread held when it was interrupted
(`SelfDeadlock`), and the event loop calls a listener the handler has
just removed, so that an empty `std::function` throws (`aborted`; a second
attempt to connect counts as well). In the model these and the lost wake-up are all there
is. It does not have objects that main was in the middle of changing when it was
interrupted, and which the handler uses: the request table, the strings of a
library, `event_id`.

`SafeOnceReported` bounds a defect: `m_client.send` throws when the connection closes
between the test of the state and the send, and nothing catches it
(`thunder/TransportHandler.cpp` 98-100). It can happen only to a call that was past
the test when `disconnected` ran.

The function that most methods use to read a result looks for the key "status", its
comment says "success" (`thunder/ProtocolHandler.cpp` 286-305). `HonestSuccess` holds
all the same, because a missed success is reported as failure; no caller looks at it.

## 6. Not modelled

- Functions that nothing calls: `getRequestAsync`, `cancelRequest`, the counts of
  `ResponseHandler`, `handleEvent`, `isAppRunning`, `getActiveApplications`.
- Reads of torn strings and of `m_runLoop`/`m_isActive` out of order: these are
  data races, and the models give them the outcomes of a store that is seen at
  some later time, in order.
- A signal delivered to another thread than main, and what its handler finds of
  objects that main was changing.
- `ThunderInterface::shutdown`: it is called by the destructor of `SmartMonitor`
  alone, which never runs. Of what it calls (`TransportHandler::disconnect` is the
  rest), `EventLoop` has `ResponseHandler::shutdown`.
- A listener that is still running when main returns, after which static objects
  are destroyed: `ExitsOrderly` does not look at it.
- `waitForConnection` and `generateRequestId` of `TransportHandler`,
  `sendSubscriptionMessage` and `convertEventSubResponseToInt`: nothing calls them,
  or their result.
- The text of requests and the URL of a deep link, the configuration file, the
  command line (parsed before there is a second thread), logging.

## 7. Plan

Done, in this order: request ids and table with their abstract specification
and proofs; event loop, likewise; SmartMonitor; start-up; termination; transport
with its abstract specification, and decoding; proofs of every safety invariant,
action property and refinement step that a passing run checks.

Next:

1. A module that composes `Startup` with the counter of `RequestIds`, so that `BuildsAlone`
   becomes a theorem about a first run.
2. The lower half of `LeavesOrFails` as an invariant: where the handler stands still, it
   is for a lock that main held.
3. An abstract specification of the cache (a register that lags behind the truth by
   the notifications on their way) that `SmartMonitor` refines.
