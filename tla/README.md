# SocketSpec in TLA+

Formal models of [SocketSpec](../src/README.md), a Python framework that serves
typed WebSocket events on top of FastAPI, model-checked with TLC on small instances
and proved with TLAPS for all of them.  All paths below are relative to
`src/src/socketspec/`.

## The system

SocketSpec runs on one asyncio event loop.  Every connection has

* the **adapter's endpoint** coroutine (`adapters/fastapi.py`), which accepts the
  socket, calls `SocketApp.handle_connect`, then receives messages one by one and
  awaits `handle_event` for each, and calls `handle_disconnect` when receiving fails;
* a **session task** (`session.py`), which pings, waits for the pong, and
  disconnects a connection that is dead, idle or too old;
* **handler tasks** (`router.py`), one for each unordered event, and one worker task
  for the queue of the ordered ones.

| Component | State | Operations | Depends on |
|---|---|---|---|
| `SocketApp` (`app.py`) | hooks, middlewares, the compiled chain, debug queues | `handle_connect`, `handle_event`, `handle_disconnect`, decorators, startup and shutdown | all below |
| `ConnectionManager` (`manager.py`, `connection.py`) | `_connections` | `connect`, `disconnect`, `send`, the bound `emit` and `disconnect` | backend, `handle_disconnect` as a callback |
| `RoomManager` (`rooms.py`) | guards, join hooks; `conn.rooms` of each connection | `join`, `leave`, `broadcast*`, `members` | backend, manager, user guards and hooks |
| `MemoryBackend` (`backends/memory.py`) | `_connections`, `_rooms`, `_conn_rooms`, `_subscribers` | store, remove, add, query, publish, close | – |
| `SessionManager` (`session.py`) | `_tasks`, `_pong_events`, `_auth_expiry_warned` | `start`, `stop`, `touch`, `signal_pong`, the loop | `conn.emit`, `conn.disconnect` |
| `EventRouter` (`router.py`) | `_queues`, `_tasks` | `dispatch`, `cleanup`, worker and handler tasks | registry, `DependencyResolver`, error hooks |
| `TokenBucket` (`security/ratelimit.py`) | `_buckets` | `consume`, `remove` | the monotonic clock |
| `EventRegistry`, `MiddlewareChain`, `DependencyResolver` | definitions; the compiled chain; an exit stack per call | `register`, `compile`, `resolve` | – |
| Debug stream (`docs/debug_router.py`, `app.py`) | one bounded queue per tab | `_debug_log`, subscribe, the SSE generator | shutdown event |
| Auth backends, `OriginValidator` (`security/`) | – | `authenticate`, `is_allowed`: who may connect | – |
| Test client (`testing.py`) | an outgoing queue, a receive buffer | `connect`, `emit`, `receive` | `handle_connect`, `handle_event`, `handle_disconnect` |
| Docs engine and UI | – | rendering of the registry | registry |

What makes it hard:

* **Interleaving.**  Tasks switch only where a coroutine suspends, but that is in
  every hook, guard, middleware, handler, send and close.  The locks in the code
  guard bodies without a suspension and are never contended, so a call of the
  backend, the manager or the limiter is one atomic step.
* **Teardown by anyone.**  `conn.disconnect()` may be called by any handler, by a
  connect hook and by the session task, and closes the socket, which makes the
  adapter tear down too.  Several `handle_disconnect` of one connection overlap.
* **Cancellation.**  `EventRouter.cleanup` cancels handler tasks wherever they are,
  including inside a `handle_disconnect` of their own; `SessionManager.stop` cancels
  the session task and waits for it.  `CancelledError` is not an `Exception`, so no
  `except Exception` of the code stops it.
* **Late events.**  The receive loop awaits the middleware chain; an event in it is
  dispatched after the connection has been torn down.
* **Failure in the middle.**  A dependency, a hook, a guard or a clean-up raises when
  others have already run: rooms are rolled back, exit stacks unwound, the client told.
* **Time.**  All limits are enforced by one loop that also sends and waits.

What has to be right: both room indexes and `conn.rooms` tell the same story; nothing
of a connection stays in any table once its tasks have ended, and a closed connection
gets there; ordered events are handled once and in order; limits are enforced with a
delay that can be stated; the limiter admits exactly what its rate allows; a handler is
called with the dependencies it declares, and they are closed after it, in reverse; a
client is admitted by its origin and credential and by nothing else, and hears of it
once if it is not.

## Modules

| Module | Models | |
|---|---|---|
| `PyDict` | dict operations on functions | absent key and empty set differ, as in the code |
| `RoomMembership` | what a backend promises | abstract: one relation |
| `MemoryBackend` | `backends/memory.py` without pub/sub | implements `RoomMembership` |
| `ConnectionLifecycle` | the adapter, session and handler tasks of a connection | extends `MemoryBackend`: its actions are the backend's |
| `EventRouter` | `router.py` | ordered queues, workers, cancellation |
| `SessionTimer` | `session.py` against the clock | what `ConnectionLifecycle` leaves out |
| `TokenBucket` | `security/ratelimit.py` | exact arithmetic |
| `Broadcast` | broadcasts and `emit`: `rooms.py`, `manager.py` | extends `MemoryBackend`: the members it sends to |
| `Admission` | the endpoint up to the first message, `handle_connect`, `security/auth.py`, `security/origins.py` | a handshake: admitted, refused, crashed |
| `EventPipeline` | `handle_event`, the registry, the middleware chain, `dispatch` | extends `Admission`: messages come from who has been admitted |
| `ScopedResources` | what an exit stack promises | abstract: a set of held resources |
| `DependencyResolver` | `di.py` inside `_run_handler` | implements `ScopedResources` |
| `TestClient` | `testing.py` | the queue, the buffer and the tasks that receive |
| `DebugFanout` | the debug stream, `app.py` and `docs/debug_router.py` | fan-out queues, races of the SSE generator |
| `MC*` | TLC instances | |
| `*Proofs` | theorems, see [Proofs](#proofs) | `LimitProofs` is about `SessionTimer` and `TokenBucket`, `QueueProofs` about `DebugFanout` and `TestClient` |

An operator preceded by `Mutant:` is a plausible mistake in the code that follows it.
No specification uses it; it exists to show that the property it names in
`PROJECT.json` notices the mistake.

### State and actions

`MemoryBackend` keeps `_connections`, `_rooms` and `_conn_rooms` as they are, and
`issued`, the ids handed out so far: ids are `uuid4` values and never repeat.  Each
method is one action.  `AddToRoom` does not ask whether the connection is stored,
because `add_to_room` does not.

`ConnectionLifecycle` has a label `pc[t]` for every task: where it is suspended.  An
action runs the task from there to its next suspension, with everything the code does
in between: `ReceiveFails` and `SocketClosed`, for example, go through `StopSession`
and, if `stop()` need not wait, on through the leaving of all rooms to the first
`room_leave` hook or to the deregistration and the first disconnect hook.  `stop()`
waits (label `stop`) for the session task it has taken off the list.  If the session
task disconnects the connection itself, it waits for itself there: it is off the list,
its pong event is not gone yet, and the others go on, until asyncio raises the error of
that await, one turn of the loop later, and `stop()` swallows it (`AwaitOver`).  Hooks,
guards, handlers and middleware are user code: a handler may join, leave and
disconnect in any order, return or raise.  `cancel` holds the tasks that
`Task.cancel()` has been called on; such a task takes no step of its own until the
`CancelledError` is raised where it is suspended (`Interrupted`).  `hookRuns` counts
the runs of the disconnect hooks up to `HookCap`.  `WaitForSwallows` says whether
`asyncio.wait_for` may drop a cancellation that meets a result: up to Python 3.11 it
does, from 3.12 on it does not.

`EventRouter` numbers the requests of one connection; a task, and a worker's queue, is
named by the request that created it.  What a task does between suspensions is one
action; whether a request is ordered, rejected or unordered is chosen when it is
dispatched.  `cleanup()` may come at any time, also from a task of the router itself
(`by`), and repeatedly.  `Faults` says what user code may do besides returning and
raising ordinary exceptions: let a `CancelledError` out, or raise while the exit stack
of its dependencies is unwound.

`SessionTimer` counts ticks from the start of the session.  The loop's suspension ends
at `until`; a timer fires in its tick, and a send or close takes up to `SendDelay`.

`TokenBucket` counts a token as `Period` units, so that refilling is exact.
`allowed` is a history of the allowed events, which the code does not keep: the
properties compare the two numbers of a bucket with it.

`Broadcast` has a caller for every task that broadcasts.  A call takes the snapshot of
its targets in one action (`get_room_members` and `all()` do not suspend in between),
hands over chunk after chunk, and within a chunk the sends go on independently: `ready`
are the sends whose task has not begun, `sending` those inside `websocket.send_text`.
`Send` looks the connection up again, as `ConnectionManager.send` does.  The order in a
snapshot is left open, because sets have none.  `author`, `wanted` and `completed` are
history: who sent a message, whom it was meant for, and which calls have returned.

`EventPipeline` follows one message after another through the adapter.  A message is an
envelope, malformed (an exception `handle_event` catches), or `nested` so deeply that
`json.loads` raises a `RecursionError`, which `handle_event` does not catch
(`ReceiveNested`).  `Compile` is the loop of `MiddlewareChain.compile`: it wraps from the
end of the list, and `Layers` says in which order what has been wrapped is entered.  A
middleware may be registered twice, up to `MaxMiddlewares` in all; `trace.entered` is
therefore a sequence of layers, told apart by their position.  The wrapped chain is a stack: `depth` is the middleware that is running and `calls` counts how often
each has called `next`, up to `MaxNext`; what `dispatch` starts is a job of its own.  The
limiter's answer is a choice, what it decides by is in `TokenBucket`.  Returning and
raising of a middleware are one action, since the adapter catches what a middleware
raises and both end the chain there.  `NoName` stands for an event name that is valid
JSON and no string: `_registry.get` raises on it if it cannot be hashed.  `trace` is the
history of the current message.

`Admission` is the handshake, in steps that end where the coroutine suspends: `accept`,
the `authenticate` of a backend, the sends and closes of a refusal, the connect hooks.
What a client offers is its origin and the credentials of its header and query string,
each good, bad, absent, or odd (a backend raises on it: `compare_digest` on a key that
is not ASCII, `fromtimestamp` on an `exp` out of range).  `Token` is the rule of both
backends for which of the two credentials counts.  `gone` is a client that has left: a
send or close then raises, and the endpoint ends with the exception.  `EventPipeline`
takes no message before `door = "serving"`.

`DependencyResolver` is one call of `_run_handler`.  `frames` is the stack of `resolve`
calls (the recursion), each with the arguments it has collected; what is made gets the
next number, and `built` remembers the call it was made by.  A generator is run to its
yield and pushed on `stack`; `CloseTop` is its `aclose()`, which may raise and then lets
the stack go on with the others.  `CancelRequested` may come at any time;
`Interrupted` raises it at the suspension the task is in, `Swallowed` is user code that
catches it.  In the refinement, `open` is what is held, and the scope is left where the
`try` statement is.

`TestClient` has a task of the test for every receiver.  `receive()` looks at the buffer
once (`ReceiveBuffered`), then waits on the queue (`ReceiveWaits`), and puts what it is
handed and does not want into the buffer (`GetOther`).  `disturbed` is history: the
receives that another one has run beside.

`DebugFanout` has one queue per debug tab and, for the generator of each tab, the two
tasks it races in every round.

## Runs

All bounds are constants of the configurations (`*.cfg`) unless named here.

| Run | Instance | Shows |
|---|---|---|
| `lifecycle` | 1 connection, 2 handlers, an open and a guarded room, fairness | nothing left behind, rooms agree, deregistration clears, the inductive invariant, every closed connection released |
| `router` | 3 requests, both faults, fairness | order, hand-over, queues and their sentinels (`QueueInv`); what is accepted is processed unless a fault kills the worker; all tasks end in any case |
| `session` | limits 20 / 6, interval 3, timeout 2, window 6, token 14, send 1 | enforcement in time, pongs |
| `rate_limit` | 2 connections, 2 events in 3 ticks, 7 ticks (`MaxTime`) | rate bound, decision by definition |
| `broadcast` | 3 connections, 1 room, 1 caller, chunks of 2, 2 messages | recipients, order, completeness; no send outlives a cancelled call; the indexes implement `RoomMembership` and keep no emptied room |
| `pipeline` | every offer of an origin (allowed, foreign, none) and credentials in header and query, by either entry; 2 messages (envelopes, malformed, nested), 2 middlewares, or one of them twice, calling `next` up to twice, 1 event, 2 handlers | who is admitted, what a refused client hears, order of the checks, of the middlewares, what becomes of a message |
| `dependencies` | a handler with 3 parameters over 4 dependencies (2 generators, a coroutine, a plain function), two of them shared | arguments, answers, refinement of `ScopedResources` |
| `test_client` | 2 receivers, 2 events, 4 messages | none lost, none missed, oldest first |
| `debug_fanout` | 2 tabs, queues of 2, 4 entries (`MaxEntries`), fairness | fan-out, eviction, every stream ends after a shutdown |

Why the bounds suffice.  Two handlers and the adapter and session tasks give every
pair and triple of overlapping teardowns; one room with a guard and one without, and
two rooms in a snapshot, give each join path and a leave hook to be cancelled in.
Connections share nothing but `_rooms`; that one connection's steps do not disturb
another's is part of the inductive invariant, which is proved for any number of
connections, rooms and handlers.  Three requests give a worker, an item waiting
behind it, and a successor after a clean-up or beside a dead worker.  The limits of
`session` let the idle limit, the token warning and the maximal duration each come first in some behaviour; the bounds
it checks are tight (each fails if lowered by one).  In 7 ticks a bucket of 2 tokens is
emptied, partly and wholly refilled, and capped.  Two entries fill a debug queue and
the other two overflow it.  Three connections make two chunks, the first of them with
concurrent sends; one caller is enough for TLC because callers share nothing but the
inboxes, and the proof has any number.  In the graph of `dependencies` one generator is
made three times and another twice, along chains of different depth, so that every
order of opening, failing and closing occurs; the proofs have any graph.  Two receivers
are the fewest that overlap; four messages fill the buffer with two of one event around
one of the other.  Two messages, two middlewares and two calls of
`next` give a handler task of an earlier message beside a later message, and every
nesting.

Runs that TLC must find violated, each a statement of the repository that the code does
not keep:

| Run | Statement | What happens |
|---|---|---|
| `ghost_members` | docs: removed from all rooms on disconnect, no manual cleanup | a join awaiting its guard enters the room after the teardown |
| `disconnect_twice` | docs: never call `handle_disconnect` twice | `conn.disconnect()` closes the socket, and the adapter tears down again |
| `router_starves` | docs: ordered events are processed sequentially | a dependency's clean-up raises, the worker dies, its queue stays listed |

Other disagreements, seen while modelling and not given a run of their own: "middleware
wraps every event handler" (`src/docs/how-to/middleware.md` 3), but `dispatch` starts a task
and returns, so that what a middleware does after `next` comes before the handler has
run (`router.py` 92); yield-dependencies are said to be "identical to FastAPI's"
(`src/docs/how-to/dependency-injection.md` 55), but they are closed by `aclose()`, so that
the code after a bare `yield` never runs and the handler's exception is never seen
(`di.py` 99); a clean-up that raises is not answered (`router.py` 170); with the
`handle_connect` of the package the second close of F-05 is never reached (`fastapi.py`
97); of two receives of one `TestConnection` that overlap, one may time out on a message
that the other has buffered (`testing.py` 122); room_leave
hooks are skipped when one is cancelled (`app.py` 317–326); two ordered handlers may
overlap after `cleanup()` (`router.py` 180); `__session_expiring__` is sent when the
limit has been reached, not before (`session.py` 160); `__auth_expiring__` may come
after the expiry if the refresh window is shorter than a round of the loop
(`session.py` 190); an event that arrives while the idle warning is sent does not stop
the disconnect (`session.py` 173); `validate()` announces that later registrations are
rejected, and `register` never looks at the flag (`registry.py` 118); an explicit
`rooms.leave()` runs no `room_leave` hook (`rooms.py` 127); up to Python 3.11 a pong
just before the cancellation keeps the session loop going for another round
(`session.py` 134, with `WaitForSwallows`); the documentation calls `next_handler` with
arguments, `call_next` takes none (`middleware.py` 73); `__refresh_auth__` goes through
the limiter and the middlewares and is then unknown (`app.py` 282); an exception a
middleware lets through is only logged, the client hears nothing (`fastapi.py` 119–128);
a message whose arrays are nested too deeply for `json.loads` (`app.py` 265, a few
kilobytes are enough) and an event name that cannot be hashed (`router.py` 74) are not
answered either, although "messages that do not conform to this structure receive a
`VALIDATION_ERROR` response" (`src/docs/concepts/wire-protocol.md` 23) and "at every
failure point, the client receives a structured error envelope"
(`src/docs/concepts/architecture.md` 122): `MessageAccounted` names both as `Unanswered`;
`src/docs/concepts/architecture.md` 97–109 parses a message before its size is looked at,
and has a `__pong__` charged by the limiter and counted as activity, while the code looks at
the size first (`app.py` 258) and, as its comment there says, at the pong before the limiter
(`app.py` 280), which is the order `ChecksInOrder` states; hence pongs, and messages that are
refused or malformed, do not move `last_active`, which "no inbound messages"
(`src/docs/reference/errors.md` 61) and "updated on every inbound message"
(`src/docs/reference/connection.md` 15) say otherwise, and a client that only answers pings
is idle; "all timeouts are optional.  Set a value to `0` to disable it"
(`src/docs/how-to/security.md` 137) holds of `max_duration` and `idle_timeout`
(`session.py` 155, 169; the constants of `SessionTimer` may be 0), but an interval of 0
makes the loop ping without a pause and a heartbeat timeout of 0 leaves no time for a pong,
which is why `SessionTimer` assumes both positive; middleware
added after startup never runs (`app.py` 352); the tasks of a debug stream outlive it if
the client leaves while it waits, although a comment says that the loser is always
cancelled (`debug_router.py` 269).

### Fairness

`ConnectionLifecycle!Fairness`: asyncio resumes a task that can run and delivers a
cancellation, timers fire, sends and closes return or raise (weak fairness), and user
code comes back (`SF_vars(UserReturns(t))`: strong, because a handler may do any number
of things in between, each of which disables the return for a while).  Nothing is
assumed of the client: it may stay silent, never answer a ping and never close.
`EventRouter!Fairness`: every task that can run does, and user code returns; nothing is
assumed of the adapter or the client.  `OrderedEventsProcessed` makes an exception of
queues whose worker a fault has killed (`faulted`); `router_starves` shows what becomes
of their events.
`DebugFanout!Fairness`: the generators and
their tasks run, and a send to a browser returns.

## Proofs

| Module | Theorem | |
|---|---|---|
| `MemoryBackendProofs` | `IndexesAlwaysAgree`, `RoomsNeverEmpty`, `BackendTypeCorrect`, `BackendRefines` | the invariant is the conjunction; `remove_connection` finds every membership through the other index, which is why the indexes must agree first |
| `ConnectionLifecycleProofs` | `LifecycleInvariant`, `TypeCorrect`, `RoomsAgree`, `NothingIsLeftBehind`, `DeregistrationClears` | see below |
| `LimitProofs` | `IdleAlwaysClosedInTime`, `MaxDurationAlwaysEnforced`, `DeadClientAlwaysClosed`, `AnsweredPingNeverTimesOut`, `TokenAlwaysWarnedInTime` | a limit not reached when the loop looks at it lies ahead; the bound of each suspension follows from the one before it |
| | `RateAlwaysBounded`, `BucketDecidesByDefinition` | a bucket holds exactly the smallest slack of any stretch of its history, or a full bucket |
| `BroadcastProofs` | `OnlyTheWantedAlways`, `CallersOrderAlwaysKept`, `CompletedAlwaysReachesAll`, `SendsAlwaysBelongToCalls`, `IndexesAgreeInUse`, `RoomsNeverEmptyInUse`, `MembershipImplementedInUse` | every connection wanted by a running call is pending, being sent to, has it, or cannot be reached (`CallInv`); what is asked of the backend is a behaviour of `BackendSpec`, whose theorems carry over |
| `DependencyResolverProofs` | `TypeCorrect`, `InUseAlwaysOpen`, `NothingStaysOpen`, `ScopesImplemented`, `ArgumentsAlwaysMatch`, `FailureAlwaysAnswered` | see below |
| `EventRouterProofs` | `RouterInvariant`, `QueuesHaveWorkers`, `OrderedEventsAlwaysAccounted`, `HandlersAlwaysStartOnce`, `WorkersAlwaysKeepOrder` | see below |
| `EventPipelineProofs` | `PipelineInvariant`, `PipelineTypesAreOK`, `ChecksAlwaysInOrder`, `MiddlewareAlwaysSeesFirst`, `MessagesAlwaysAccounted`, `JobsAlwaysRunTheirHandler`, `AdmittedAlwaysByDefinition`, `RefusalsAlwaysHeard` | see below |
| `QueueProofs` | `FanoutInvariant`, `FanoutTypeCorrect`, `FanoutInOrder`, `FanoutNewestKept`, `FanoutSubscribers` | see below |
| | `TestTypeCorrect`, `TestNoneLost`, `TestLoneReceive`, `TestOldestReturned` | see below |

Every invariant and every action property of the runs that pass is a theorem; where a run
checks a small instance, the theorem has any number of connections, rooms, requests,
middlewares, tabs or tasks.

`NothingLeftBehind` is not inductive: it speaks of the moment when all tasks have
ended.  `LifecycleInv` says why it will hold then.  For every piece of a connection's
state there is, until it is released, a task that cannot end before releasing it:
the adapter, once it serves the connection, ends only through a `handle_disconnect`
of its own and is never cancelled (`AdapterReleases`); a listed session task has not
been cancelled by `stop()`, and while there is a pong event the task is listed or is awaited
by the one that took it off the list, perhaps itself (`SessionReleases`); a connection registered but not
served is left to the session task or to a teardown in the adapter (`UnservedIsReaped`).
The proof has one lemma per action.

`DependencyResolverProofs` has three invariants, for any dependency graph.  `StackInv`:
the exit stack is strictly increasing and holds exactly the open generators, so the one
on top is the latest that is open, which is what a release of `ScopedResources` asks
for.  `ArgsInv`: every frame makes the argument the frame below it is waiting for, and
the numbers used by finished calls and by frames are disjoint; a frame that is finished
moves its numbers from one side to the other.  `AnswerInv`: phase by phase, what has been
decided and what has been answered.  A graph with a cycle, on which `resolve` recurses
for ever, is allowed: nothing is said of termination.

`EventRouterProofs` has any number of requests.  `OrderedEventsAccounted` says of an
accepted event that it is in a queue or has been begun; a step takes the first event of
one queue, so that the other queues matter, and the order inside each.  `EventsInv`
therefore says where an ordered event is: in one queue only, in the order of dispatch,
behind what the worker took last and before any sentinel, and in none once it has been
begun.  `WorkersInv` says who takes it: a worker that is alive and no longer listed has a
sentinel in its queue, the listed one has none and has not been cancelled, and the listed
queue has a worker unless a fault killed it.  The sentinel and the listing
change together, in `cleanup()` and when the worker ends, and it is only because both parts
hold that `dispatch` may put an event into the queue that is listed.  `TasksStartOnce` is
the same for unordered events.

`EventPipelineProofs` has any registry, any number of middlewares and any use of `next`.
`HandshakeInv` remembers at every suspension of the handshake what has been decided so
far; that the code's chain of `if`s over header and query string is the definition of
`Admissible` is a lemma (`ChecksDecide`).  `ChecksInv` says what has been paid for.
`ChainInv` orders the middlewares: the chain compiled at startup and the one a message runs
through are beginnings of the list (`CompiledInOrder` is the lemma that wrapping from the end
puts the first middleware outermost), what a message has entered is a beginning of the latter,
and it is no deeper than what it has entered, so that it makes no difference how often an
inner part is entered again.  `AccountInv` counts results: a message in the chain without a result
is with a middleware that has not called `next`, unless one has kept it or it is one of the
two the code leaves `Unanswered`; and there is a second result only after some middleware has called again.

`QueueProofs`, on the debug page, has any number of tabs and any queue size.  What makes
`StreamInOrder` and `NewestKept` inductive is `InTurn`: the queue of a tab is a gapless
end of the log, what the `get_task` has returned is older than the queue, and what has
been sent is older still; `put_nowait` into a full queue moves the beginning of that end by
one, and what it drops is no longer among the newest `Cap`.  `GeneratorInv` adds that
a subscribed generator holds an entry only within a round, so that no entry is fetched over
another.  An entry put back at shutdown would break the order, but its stream ends in the
same step, which is why the properties speak of subscribers.

On the test client it has any number of tasks and messages.  `MessagesInv`: the queue is the
gapless end of the messages, the buffer is sorted and older, and returned and buffered
messages add up to those handed out.  No message is twice in the three places because they
are as long, together, as the messages are many, and cover them all (`NoneLost` says it the
same way).  `AloneInv`: a task that waits undisturbed is the only one that waits.  Hence what
is buffered while it waits is what it has been handed and did not want, and the oldest match
is the one it returns.

The assumptions are those of the modules: a request without an `Origin` header is none
of the origins, and nobody can list it as allowed (`OriginAssumption`); the names of the roles are not handlers, a
guarded room is a room and `NoRoom` is none, intervals are positive, numbers are
naturals, plain functions and generators are dependencies.

The type invariant of `ConnectionLifecycle` is checked as a part of `LifecycleInv`, that of
`EventRouter` as a part of `QueueInv`; those of `SessionTimer`, `MemoryBackend`,
`Broadcast`, `TokenBucket`, `EventPipeline`, `DependencyResolver` and `TestClient` are proved
and not checked again, as are `InUseIsOpen` and `NothingLeftOpen`.  `IndexesAgree` is proved
of every use of the backend, and checked as a part of `LifecycleInv`.
`MemoryBackend!Close` occurs in the proofs only.

Only model-checked: liveness, which rests on fairness and is out of the provers' reach
(`ClosedIsReleased`, `OrderedEventsProcessed`, `TasksEndAfterDisconnect`,
`StreamsEndAfterShutdown`).  `TestClient` and `TokenBucket` have names of their own for what
the other modules call `Init`, `Next` and `Spec`, because the proofs extend them together
with another module.

## Not modelled

* Payload validation, envelope formats, logging; the decoding of a token and the
  identity made from it.
* A middleware that calls `next` from a task it has created; a handler that resolves
  dependencies by itself.
* Pub/sub (nothing in the package calls it), the query `members()`, the matching of room
  guards by pattern (which rooms are guarded is a constant), the documentation engine and
  UI, the example applications.
* Generators as dependencies that are not asynchronous: the code passes the generator
  object on, so they are plain functions here.
* Rounding of floats in the limiter; two events at the same instant are two steps.
* `conn.disconnect()` called inside a leave or disconnect hook (a teardown within a
  teardown), and the cancellation of endpoints when the server shuts down.
* That the shutdown event of the debug streams is set only when the lifespan ends, which a
  server may put off until its streams have ended: `StreamsEndAfterShutdown` begins there.
* `_graceful_shutdown` closes the backend under live connections; `Close` is an action
  of `MemoryBackend`, but of no module that extends it.
* `ConnectionLifecycle` begins and ends where `Admission` admits or refuses: it has one
  way to be refused (`Refuse`), and the two are not composed.

## Plan

1. (done) `MemoryBackend`, `ConnectionLifecycle`, `EventRouter`, `SessionTimer`,
   `TokenBucket`, `Broadcast`, `EventPipeline`, `DebugFanout`; proofs for the backend, the
   lifecycle, the session timer, the limiter and the broadcasts.
2. (done) `DependencyResolver` with `ScopedResources` and its proofs, `Admission` composed
   into `EventPipeline`, `TestClient`; the backend's refinement inside `Broadcast`.
3. (done) Theorems for what the runs check of `EventRouter`, `EventPipeline` with
   `Admission`, `DebugFanout` and `TestClient`, each from an inductive invariant.
4. `_graceful_shutdown` in `ConnectionLifecycle`.
5. `DependencyResolver` as the handler step of `EventRouter`; that it implements the
   abstract handler there, as a theorem.
6. Pure safety parts of the liveness properties as theorems: that the task a release waits
   for can take a step.
