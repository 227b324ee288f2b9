------------------------ MODULE ConnectionLifecycle ------------------------
(***************************************************************************)
(* The life of a WebSocket connection: the adapter's endpoint coroutine,   *)
(* the session task SessionManager starts for it, and the handler tasks    *)
(* EventRouter starts for its events, all of which can tear it down.       *)
(*                                                                         *)
(* asyncio runs one task at a time and switches only where a coroutine     *)
(* really suspends: in user code (hooks, guards, middleware, handlers), in *)
(* a socket send or close, in a sleep, and where SessionManager.stop       *)
(* awaits the session task, be it the caller itself.  pc[t] says where t   *)
(* is suspended, and an action runs t from there to its next suspension.   *)
(*                                                                         *)
(* The rooms and their backend are those of MemoryBackend.                 *)
(***************************************************************************)
EXTENDS MemoryBackend

CONSTANTS
    Handler,          \* handler tasks a connection may start
    Guarded,          \* rooms whose name matches a registered guard
    NoRoom,           \* "not joining"
    WaitForSwallows   \* asyncio.wait_for may drop a cancellation that meets a
                      \* result (Python 3.10 and 3.11: TRUE, from 3.12: FALSE)

ASSUME RoleAssumption == {"adapter", "session"} \cap Handler = {}
ASSUME RoomAssumption == Guarded \subseteq Room /\ NoRoom \notin Room
ASSUME SwallowAssumption == WaitForSwallows \in BOOLEAN

VARIABLES
    registered,   \* keys of ConnectionManager._connections
    sock,         \* the socket: open, gone (closed by the peer), closed (by us)
    joined,       \* conn.rooms
    serving,      \* connections handle_connect has returned to the adapter
    sessionTask,  \* keys of SessionManager._tasks
    pongEvent,    \* SessionManager._pong_events: is the event set?
    bucket,       \* keys of the rate limiter's buckets
    inflight,     \* EventRouter._tasks
    pc,           \* where each task is suspended
    snap,         \* rooms_snapshot: rooms whose room_leave hook is still to run
    target,       \* the room a task is joining
    cancel,       \* tasks with a CancelledError still to be delivered
    hookRuns      \* how often the disconnect hooks have run (up to HookCap)

lifeVars == <<registered, sock, joined, serving, sessionTask, pongEvent, bucket,
              inflight, pc, snap, target, cancel, hookRuns>>
vars == <<backendVars, lifeVars>>

HookCap == 2

Role == {"adapter", "session"} \cup Handler
Task == Conn \X Role
Adapter(c) == <<c, "adapter">>
Session(c) == <<c, "session">>
HandlerTasks == Conn \X Handler

\* Where conn.disconnect and handle_disconnect suspend.
Teardown == {"close", "stop", "leave_hook", "disconnect_hook"}

Label == {"none", "start", "done", "user", "guard", "join_hook", "receive",
          "middleware", "sleep", "warn", "expiry", "ping", "wait_pong"} \cup Teardown

Init ==
    /\ BackendInit
    /\ registered = {}
    /\ sock = [c \in Conn |-> "open"]
    /\ joined = [c \in Conn |-> {}]
    /\ serving = {}
    /\ sessionTask = {}
    /\ pongEvent = EmptyDict
    /\ bucket = {}
    /\ inflight = EmptyDict
    /\ pc = [t \in Task |-> IF t[2] = "adapter" THEN "start" ELSE "none"]
    /\ snap = [t \in Task |-> {}]
    /\ target = [t \in Task |-> NoRoom]
    /\ cancel = {}
    /\ hookRuns = [c \in Conn |-> 0]

-----------------------------------------------------------------------------
Goto(t, l) == pc' = [pc EXCEPT ![t] = l]

\* t resumes normally: a pending CancelledError would be raised here instead.
At(t, l) == pc[t] = l /\ t \notin cancel

\* Task.add_done_callback: a finished handler leaves EventRouter._tasks.
Discard(t) ==
    inflight' = IF t[1] \in DOMAIN inflight
                THEN [inflight EXCEPT ![t[1]] = @ \ {t[2]}]
                ELSE inflight

\* set() or clear() on the connection's pong event, if it is still listed.
MarkPong(c, seen) ==
    pongEvent' = IF c \in DOMAIN pongEvent THEN Put(pongEvent, c, seen) ELSE pongEvent

-----------------------------------------------------------------------------
(* Connecting.                                                             *)
Refuse(c) ==
    /\ At(Adapter(c), "start")
    /\ Goto(Adapter(c), "done")
    /\ sock' = [sock EXCEPT ![c] = "closed"]
    /\ UNCHANGED <<backendVars, registered, joined, serving, sessionTask, pongEvent,
                   bucket, inflight, snap, target, cancel, hookRuns>>

HandleConnect(c) ==
    /\ At(Adapter(c), "start")
    /\ StoreConnection(c)
    /\ registered' = registered \cup {c}
    /\ sessionTask' = sessionTask \cup {c}
    /\ pongEvent' = Put(pongEvent, c, FALSE)
    /\ pc' = [pc EXCEPT ![Adapter(c)] = "user", ![Session(c)] = "sleep"]
    /\ UNCHANGED <<sock, joined, serving, bucket, inflight, snap, target, cancel,
                   hookRuns>>

ConnectHooksReturn(c) ==
    /\ At(Adapter(c), "user")
    /\ Goto(Adapter(c), "receive")
    /\ serving' = serving \cup {c}
    /\ UNCHANGED <<backendVars, registered, sock, joined, sessionTask, pongEvent,
                   bucket, inflight, snap, target, cancel, hookRuns>>

\* Nothing catches the exception of a connect hook: the endpoint ends, the
\* server closes the socket, and only the session task still knows c.
ConnectHookRaises(c) ==
    /\ At(Adapter(c), "user")
    /\ Goto(Adapter(c), "done")
    /\ sock' = [sock EXCEPT ![c] = "closed"]
    /\ UNCHANGED <<backendVars, registered, joined, serving, sessionTask, pongEvent,
                   bucket, inflight, snap, target, cancel, hookRuns>>

-----------------------------------------------------------------------------
(* The receive loop.                                                       *)
ClientCloses(c) ==
    /\ sock[c] = "open"
    /\ pc[Adapter(c)] # "start"
    /\ sock' = [sock EXCEPT ![c] = "gone"]
    /\ UNCHANGED <<backendVars, registered, joined, serving, sessionTask, pongEvent,
                   bucket, inflight, pc, snap, target, cancel, hookRuns>>

ReceivePong(c) ==
    /\ At(Adapter(c), "receive")
    /\ sock[c] = "open"
    /\ MarkPong(c, TRUE)
    /\ UNCHANGED <<backendVars, registered, sock, joined, serving, sessionTask, bucket,
                   inflight, pc, snap, target, cancel, hookRuns>>

\* The limiter creates the bucket; then the chain of middlewares runs.
ReceiveEvent(c) ==
    /\ At(Adapter(c), "receive")
    /\ sock[c] = "open"
    /\ bucket' = bucket \cup {c}
    /\ Goto(Adapter(c), "middleware")
    /\ UNCHANGED <<backendVars, registered, sock, joined, serving, sessionTask,
                   pongEvent, inflight, snap, target, cancel, hookRuns>>

\* A middleware stops the event or raises, or the event has no valid handler.
DropEvent(c) ==
    /\ At(Adapter(c), "middleware")
    /\ Goto(Adapter(c), "receive")
    /\ UNCHANGED <<backendVars, registered, sock, joined, serving, sessionTask,
                   pongEvent, bucket, inflight, snap, target, cancel, hookRuns>>

Dispatch(c, h) ==
    /\ At(Adapter(c), "middleware")
    /\ pc[<<c, h>>] = "none"
    /\ pc' = [pc EXCEPT ![Adapter(c)] = "receive", ![<<c, h>>] = "user"]
    /\ inflight' = Put(inflight, c, GetSet(inflight, c) \cup {h})
    /\ UNCHANGED <<backendVars, registered, sock, joined, serving, sessionTask,
                   pongEvent, bucket, snap, target, cancel, hookRuns>>

-----------------------------------------------------------------------------
(* Teardown: conn.disconnect (socket close, then handle_disconnect) and    *)
(* handle_disconnect itself, which any task of the connection may be       *)
(* executing, several at a time.                                           *)

\* Mutant: the manager relies on the rooms having been left one by one.
DeregisterInManagerOnly(t) ==
    LET c == t[1] IN
    /\ connections' = connections \ {c}
    /\ registered' = registered \ {c}
    /\ hookRuns' = [hookRuns EXCEPT ![c] = IF @ = HookCap THEN @ ELSE @ + 1]
    /\ Goto(t, "disconnect_hook")
    /\ UNCHANGED <<issued, rooms, connRooms>>

\* manager.disconnect, then the first disconnect hook is called.
Deregister(t) ==
    LET c == t[1] IN
    /\ RemoveConnection(c)
    /\ registered' = registered \ {c}
    /\ hookRuns' = [hookRuns EXCEPT ![c] = IF @ = HookCap THEN @ ELSE @ + 1]
    /\ Goto(t, "disconnect_hook")

\* Leave every room of the snapshot, then call the first room_leave hook; with
\* no room to leave there is no hook, and no suspension, before Deregister.
LeaveRooms(t) ==
    LET c == t[1] IN
    \/ /\ joined[c] = {}
       /\ Deregister(t)
       /\ UNCHANGED <<joined, snap>>
    \/ \E r \in joined[c] :
       /\ RemoveFromRooms(c, joined[c])
       /\ joined' = [joined EXCEPT ![c] = {}]
       /\ snap' = [snap EXCEPT ![t] = joined[c] \ {r}]
       /\ Goto(t, "leave_hook")
       /\ UNCHANGED <<registered, hookRuns>>

\* stop() cancels and awaits the session task.  A session task that stops itself
\* gets the error of that at the await, where stop() swallows it, one turn of the
\* loop later: nothing of its own stays pending.
AwaitSession(t) ==
    /\ cancel' = IF t = Session(t[1]) THEN cancel ELSE cancel \cup {Session(t[1])}
    /\ Goto(t, "stop")
    /\ UNCHANGED <<backendVars, registered, joined, pongEvent, snap, hookRuns>>

\* Mutant: the session task is looked up, not popped, before it is awaited.
StopSessionKeepingTask(t) ==
    /\ UNCHANGED sessionTask
    /\ \/ t[1] \notin sessionTask /\ LeaveRooms(t) /\ UNCHANGED <<pongEvent, cancel>>
       \/ t[1] \in sessionTask /\ AwaitSession(t)

\* SessionManager.stop, and what handle_disconnect does next if somebody else has
\* popped the session task, so that there is nothing to await.
StopSession(t) ==
    LET c == t[1] IN
    \/ /\ c \notin sessionTask
       /\ LeaveRooms(t)
       /\ UNCHANGED <<sessionTask, pongEvent, cancel>>
    \/ /\ c \in sessionTask
       /\ sessionTask' = sessionTask \ {c}
       /\ AwaitSession(t)

\* receive_text raises once the socket is not open any more.
ReceiveFails(c) ==
    /\ At(Adapter(c), "receive")
    /\ sock[c] # "open"
    /\ StopSession(Adapter(c))
    /\ UNCHANGED <<sock, serving, bucket, inflight, target>>

\* conn.disconnect, once raw_socket.close has returned or raised.
SocketClosed(t) ==
    /\ At(t, "close")
    /\ sock' = [sock EXCEPT ![t[1]] = "closed"]
    /\ StopSession(t)
    /\ UNCHANGED <<serving, bucket, inflight, target>>

\* What t awaits in stop() has happened.
AwaitOver(t) == At(t, "stop") /\ (t = Session(t[1]) \/ pc[Session(t[1])] = "done")

\* Mutant: stop() leaves the pong event behind.
SessionStoppedKeepingPong(t) ==
    /\ AwaitOver(t)
    /\ LeaveRooms(t)
    /\ UNCHANGED <<sock, serving, sessionTask, pongEvent, bucket, inflight, target,
                   cancel>>

\* "await task" returns; a CancelledError of the caller would be taken for the
\* session task's own and swallowed (CancelRouterTasks passes it on instead).
SessionStopped(t) ==
    /\ AwaitOver(t)
    /\ pongEvent' = Pop(pongEvent, t[1])
    /\ LeaveRooms(t)
    /\ UNCHANGED <<sock, serving, sessionTask, bucket, inflight, target, cancel>>

\* A room_leave hook returns or raises: the next one, or on to Deregister.
LeaveHookReturns(t) ==
    /\ At(t, "leave_hook")
    /\ \/ \E r \in snap[t] :
          /\ snap' = [snap EXCEPT ![t] = @ \ {r}]
          /\ UNCHANGED <<backendVars, registered, hookRuns, pc>>
       \/ /\ snap[t] = {}
          /\ Deregister(t)
          /\ UNCHANGED snap
    /\ UNCHANGED <<sock, joined, serving, sessionTask, pongEvent, bucket, inflight,
                   target, cancel>>

\* EventRouter.cleanup.  Cancelling a task that awaits the session task cancels
\* the session task, and stop() swallows the error its caller then gets.
CancelRouterTasks(t) ==
    LET c == t[1]
        victims == {c} \X GetSet(inflight, c)
        stopping == {v \in victims : pc[v] = "stop"}
    IN  /\ inflight' = Pop(inflight, c)
        /\ cancel' = cancel \cup (victims \ stopping)
                            \cup (IF stopping = {} THEN {} ELSE {Session(c)} \ {t})

\* conn.disconnect returns into the user code that called it; the adapter's own
\* handle_disconnect and the session task's disconnect end their task.
AfterTeardown(t) ==
    IF t \in HandlerTasks \/ (t = Adapter(t[1]) /\ t[1] \notin serving)
    THEN "user" ELSE "done"

DisconnectHooksReturn(t) ==
    /\ At(t, "disconnect_hook")
    /\ bucket' = bucket \ {t[1]}
    /\ CancelRouterTasks(t)
    /\ Goto(t, AfterTeardown(t))
    /\ UNCHANGED <<backendVars, registered, sock, joined, serving, sessionTask,
                   pongEvent, snap, target, hookRuns>>

-----------------------------------------------------------------------------
(* What user code (a handler, or a connect hook) may do to its connection. *)
Disconnect(t) ==
    /\ At(t, "user")
    /\ Goto(t, "close")
    /\ UNCHANGED <<backendVars, registered, sock, joined, serving, sessionTask,
                   pongEvent, bucket, inflight, snap, target, cancel, hookRuns>>

RequestJoin(t, r) ==
    /\ At(t, "user")
    /\ r \in Guarded
    /\ Goto(t, "guard")
    /\ target' = [target EXCEPT ![t] = r]
    /\ UNCHANGED <<backendVars, registered, sock, joined, serving, sessionTask,
                   pongEvent, bucket, inflight, snap, cancel, hookRuns>>

GuardRejects(t) ==
    /\ At(t, "guard")
    /\ Goto(t, "user")
    /\ target' = [target EXCEPT ![t] = NoRoom]
    /\ UNCHANGED <<backendVars, registered, sock, joined, serving, sessionTask,
                   pongEvent, bucket, inflight, snap, cancel, hookRuns>>

\* The guard allows r, or there is none; nobody asks whether the connection
\* is still there.
EnterRoom(t, r) ==
    /\ \/ At(t, "user") /\ r \notin Guarded
       \/ At(t, "guard") /\ r = target[t]
    /\ AddToRoom(t[1], r)
    /\ joined' = [joined EXCEPT ![t[1]] = @ \cup {r}]
    /\ target' = [target EXCEPT ![t] = r]
    /\ Goto(t, "join_hook")
    /\ UNCHANGED <<registered, sock, serving, sessionTask, pongEvent, bucket,
                   inflight, snap, cancel, hookRuns>>

JoinHooksReturn(t) ==
    /\ At(t, "join_hook")
    /\ Goto(t, "user")
    /\ target' = [target EXCEPT ![t] = NoRoom]
    /\ UNCHANGED <<backendVars, registered, sock, joined, serving, sessionTask,
                   pongEvent, bucket, inflight, snap, cancel, hookRuns>>

\* Mutant: the rollback of a join forgets conn.rooms.
JoinHookRaisesHalfRollback(t) ==
    /\ At(t, "join_hook")
    /\ RemoveFromRoom(t[1], target[t])
    /\ target' = [target EXCEPT ![t] = NoRoom]
    /\ Goto(t, "user")
    /\ UNCHANGED <<registered, sock, joined, serving, sessionTask, pongEvent, bucket,
                   inflight, snap, cancel, hookRuns>>

JoinHookRaises(t) ==
    /\ At(t, "join_hook")
    /\ RemoveFromRoom(t[1], target[t])
    /\ joined' = [joined EXCEPT ![t[1]] = @ \ {target[t]}]
    /\ target' = [target EXCEPT ![t] = NoRoom]
    /\ Goto(t, "user")
    /\ UNCHANGED <<registered, sock, serving, sessionTask, pongEvent, bucket,
                   inflight, snap, cancel, hookRuns>>

Leave(t, r) ==
    /\ At(t, "user")
    /\ r \in joined[t[1]]      \* leaving another room changes nothing
    /\ RemoveFromRoom(t[1], r)
    /\ joined' = [joined EXCEPT ![t[1]] = @ \ {r}]
    /\ UNCHANGED <<registered, sock, serving, sessionTask, pongEvent, bucket,
                   inflight, pc, snap, target, cancel, hookRuns>>

HandlerReturns(t) ==
    /\ t \in HandlerTasks
    /\ At(t, "user")
    /\ Goto(t, "done")
    /\ Discard(t)
    /\ UNCHANGED <<backendVars, registered, sock, joined, serving, sessionTask,
                   pongEvent, bucket, snap, target, cancel, hookRuns>>

-----------------------------------------------------------------------------
(* The session task.                                                       *)

SessionMoves(c, from, to) ==
    /\ At(Session(c), from)
    /\ Goto(Session(c), to)
    /\ UNCHANGED <<backendVars, registered, sock, joined, serving, sessionTask,
                   pongEvent, bucket, inflight, snap, target, cancel, hookRuns>>

\* sleep() ends: the connection has outlived a limit, its token is about to
\* expire, or there is only the ping to send.
LimitPassed(c) == SessionMoves(c, "sleep", "warn")
WarningSent(c) == SessionMoves(c, "warn", "close")
TokenExpires(c) == SessionMoves(c, "sleep", "expiry")

PingDue(c) ==
    /\ At(Session(c), "sleep") \/ At(Session(c), "expiry")
    /\ Goto(Session(c), "ping")
    /\ MarkPong(c, FALSE)
    /\ UNCHANGED <<backendVars, registered, sock, joined, serving, sessionTask, bucket,
                   inflight, snap, target, cancel, hookRuns>>

PingSent(c) ==
    SessionMoves(c, "ping", IF c \in DOMAIN pongEvent THEN "wait_pong" ELSE "sleep")

PongSeen(c) == SessionMoves(c, "wait_pong", "sleep") /\ pongEvent[c]

\* Mutant: a ping without an answer is ignored.
HeartbeatIgnored(c) == SessionMoves(c, "wait_pong", "sleep")

\* The timeout may fire in the very tick in which the pong arrives.
HeartbeatTimeout(c) == SessionMoves(c, "wait_pong", "close")

-----------------------------------------------------------------------------
(* Cancellation.  CancelledError is not an Exception: no handler of the    *)
(* code catches it, so a join is not rolled back and a teardown not ended. *)
Interrupted(t) ==
    /\ t \in cancel
    /\ pc[t] \notin {"none", "done", "stop"}
    /\ Goto(t, "done")
    /\ cancel' = cancel \ {t}
    /\ target' = [target EXCEPT ![t] = NoRoom]
    /\ Discard(t)
    /\ UNCHANGED <<backendVars, registered, sock, joined, serving, sessionTask,
                   pongEvent, bucket, snap, hookRuns>>

\* wait_for finds the pong already there and returns it, dropping the
\* cancellation: the session loop goes on.
CancelSwallowed(c) ==
    /\ WaitForSwallows
    /\ Session(c) \in cancel
    /\ pc[Session(c)] = "wait_pong"
    /\ pongEvent[c]
    /\ Goto(Session(c), "sleep")
    /\ cancel' = cancel \ {Session(c)}
    /\ UNCHANGED <<backendVars, registered, sock, joined, serving, sessionTask,
                   pongEvent, bucket, inflight, snap, target, hookRuns>>

-----------------------------------------------------------------------------
\* User code, other than coming back from it.
UserStep(t) ==
    \/ Disconnect(t)
    \/ \E r \in Room : RequestJoin(t, r) \/ EnterRoom(t, r) \/ Leave(t, r)
    \/ GuardRejects(t)
    \/ JoinHooksReturn(t)
    \/ JoinHookRaises(t)

TeardownStep(t) ==
    \/ SocketClosed(t)
    \/ SessionStopped(t)
    \/ LeaveHookReturns(t)
    \/ DisconnectHooksReturn(t)

AdapterStep(c) ==
    \/ Refuse(c)
    \/ HandleConnect(c)
    \/ ReceivePong(c)
    \/ ReceiveEvent(c)
    \/ \E h \in Handler : Dispatch(c, h)

SessionStep(c) ==
    \/ LimitPassed(c)
    \/ WarningSent(c)
    \/ TokenExpires(c)
    \/ PingDue(c)
    \/ PingSent(c)
    \/ PongSeen(c)
    \/ HeartbeatTimeout(c)
    \/ CancelSwallowed(c)

UserReturns(t) ==
    \/ t = Adapter(t[1]) /\ (ConnectHooksReturn(t[1]) \/ ConnectHookRaises(t[1]))
    \/ HandlerReturns(t)

AllDone == \A t \in Task : pc[t] \in {"none", "done"}

Next ==
    \/ \E c \in Conn :
        \/ AdapterStep(c)
        \/ DropEvent(c)
        \/ ReceiveFails(c)
        \/ ClientCloses(c)
        \/ SessionStep(c)
    \/ \E t \in Task :
        \/ UserStep(t)
        \/ UserReturns(t)
        \/ TeardownStep(t)
        \/ Interrupted(t)
    \/ AllDone /\ UNCHANGED vars

Spec == Init /\ [][Next]_vars

(* Tasks that can run do run, timers fire, and user code comes back: a     *)
(* handler or hook may do any number of things, but does not run forever.  *)
(* Clients promise nothing.                                                *)
Fairness ==
    /\ \A c \in Conn :
        /\ WF_vars(DropEvent(c) \/ \E h \in Handler : Dispatch(c, h))
        /\ WF_vars(ReceiveFails(c))
        /\ WF_vars(SessionStep(c))
    /\ \A t \in Task :
        /\ WF_vars(TeardownStep(t))
        /\ WF_vars(Interrupted(t))
        /\ WF_vars(GuardRejects(t) \/ JoinHooksReturn(t) \/ JoinHookRaises(t)
                     \/ \E r \in Room : EnterRoom(t, r) /\ pc[t] = "guard")
        /\ SF_vars(UserReturns(t))

FairSpec == Spec /\ Fairness

-----------------------------------------------------------------------------
LifeTypeOK ==
    /\ registered \subseteq issued /\ sessionTask \subseteq issued
    /\ serving \subseteq issued /\ bucket \subseteq issued
    /\ sock \in [Conn -> {"open", "gone", "closed"}]
    /\ joined \in [Conn -> SUBSET Room]
    /\ IsDict(pongEvent, issued, BOOLEAN)
    /\ IsDict(inflight, issued, SUBSET Handler)
    /\ pc \in [Task -> Label]
    /\ snap \in [Task -> SUBSET Room]
    /\ target \in [Task -> Room \cup {NoRoom}]
    /\ cancel \subseteq Task
    /\ hookRuns \in [Conn -> 0..HookCap]

\* Only ids of accepted connections occur anywhere, every task is at one of its
\* labels, and every dict has the shape its class declares.
TypeOK == BackendTypeOK /\ LifeTypeOK

\* While a connection is registered, what it believes of its rooms and what the
\* backend stores are the same: a broadcast to a room reaches exactly the
\* connections that think they are in it.
RoomsAgreeWhileRegistered ==
    \A c \in registered : joined[c] = ConnectionRooms(c)

\* The manager and the backend know the same connections.
ManagerMatchesBackend == registered = connections

\* Deregistering takes the connection out of every room, whatever joins and
\* leaves of other tasks went on between the snapshot of its rooms and now.
DeregistrationClearsRooms ==
    [][\A c \in registered \ registered' :
          \A r \in DOMAIN rooms' : c \notin rooms'[r]]_vars

\* All tasks of c have ended.
Ended(c) == \A r \in Role : pc[<<c, r>>] \in {"none", "done"}

\* Nothing but room memberships is left of c.
Released(c) ==
    /\ c \notin registered \cup connections \cup sessionTask \cup bucket
    /\ c \notin DOMAIN pongEvent \cup DOMAIN inflight

\* Once every task of an accepted connection has ended, whichever of them tore
\* it down, in whatever overlap, and wherever they were cancelled, nothing of it
\* is left in the manager, the session manager, the limiter and the router,
\* and its disconnect hooks have run.
NothingLeftBehind ==
    \A c \in issued : Ended(c) => Released(c) /\ hookRuns[c] > 0

(* Why nothing is left behind: for every piece of state of a connection    *)
(* there is, until the state is released, a task that cannot end before    *)
(* releasing it.                                                           *)
Running == {"sleep", "warn", "expiry", "ping", "wait_pong"}
ServingLabel == {"receive", "middleware", "stop", "leave_hook", "disconnect_hook",
                 "done"}

\* Only tasks of accepted connections run or are cancelled, and an id not given
\* out has no rooms.
StartedIsIssued ==
    /\ \A t \in cancel : t[1] \in issued
    /\ \A t \in Task : pc[t] \notin {"none", "start", "done"} => t[1] \in issued
    /\ \A c \in Conn \ issued : joined[c] = {}

\* The adapter's endpoint is never cancelled.  Once it serves the connection it
\* ends through a handle_disconnect of its own, and only while it does are there
\* handlers, buckets and in-flight tasks.
AdapterReleases(c) ==
    /\ Adapter(c) \notin cancel
    /\ c \in serving => pc[Adapter(c)] \in ServingLabel
    /\ c \notin serving => /\ pc[Adapter(c)] \notin {"receive", "middleware"}
                           /\ \A h \in Handler : pc[<<c, h>>] = "none"
    /\ c \in serving /\ pc[Adapter(c)] \in {"disconnect_hook", "done"}
          => c \notin registered
    /\ c \in bucket \cup DOMAIN inflight => c \in serving /\ pc[Adapter(c)] # "done"

\* A session task still listed has not been cancelled and runs its loop.  While
\* it loops there is a pong event; while there is one, the task is listed, or who
\* took it off the list, perhaps the task itself, awaits it and then removes it.
SessionReleases(c) ==
    /\ pc[Session(c)] \in {"none", "done", "close", "stop", "leave_hook",
                          "disconnect_hook"} \cup Running
    /\ c \in sessionTask => /\ Session(c) \notin cancel
                            /\ pc[Session(c)] \in Running \cup {"close"}
    /\ pc[Session(c)] \in Running => c \in DOMAIN pongEvent
    /\ \A r \in Role : pc[<<c, r>>] = "stop" => c \notin sessionTask
    /\ c \in DOMAIN pongEvent
          => c \in sessionTask \/ \E r \in Role : pc[<<c, r>>] = "stop"

\* A connection that is registered but not served is deregistered by its session
\* task, or by the adapter disconnecting it in a connect hook.
UnservedIsReaped(c) ==
    c \in registered /\ c \notin serving =>
        \/ c \in sessionTask
        \/ pc[Session(c)] \in {"stop", "leave_hook"} /\ Session(c) \notin cancel
        \/ pc[Adapter(c)] \in {"stop", "leave_hook"}

HooksHaveRun == \A c \in issued \ registered : hookRuns[c] > 0

LifecycleInv ==
    /\ BackendInv
    /\ LifeTypeOK
    /\ ManagerMatchesBackend
    /\ RoomsAgreeWhileRegistered
    /\ StartedIsIssued
    /\ \A c \in Conn : AdapterReleases(c) /\ SessionReleases(c) /\ UnservedIsReaped(c)
    /\ HooksHaveRun

\* A connection whose tasks have all ended is in no room.
NoGhostMembers ==
    \A c \in issued : Ended(c) => \A r \in DOMAIN rooms : c \notin rooms[r]

\* The disconnect hooks of a connection run once.
DisconnectHooksRunOnce == \A c \in Conn : hookRuns[c] <= 1

\* A connection that is closed, by either side and in whatever state, is
\* eventually released and its disconnect hooks have run.
ClosedIsReleased ==
    \A c \in Conn :
        c \in issued /\ sock[c] # "open" ~> Released(c) /\ hookRuns[c] > 0
=============================================================================
