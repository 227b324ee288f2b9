---------------------------- MODULE EventRouter ----------------------------
(***************************************************************************)
(* router.py: how the events of one connection reach their handlers.  An   *)
(* unordered event gets a task of its own; ordered events go through a     *)
(* queue that one worker task consumes.  cleanup() cancels the tasks and   *)
(* ends the queue with a sentinel, but it does not wait, and the adapter   *)
(* still dispatches the event it has in the middleware chain: a second     *)
(* queue and worker may then live beside the first.                        *)
(*                                                                         *)
(* Requests are numbered in the order of their dispatch.  A task is named  *)
(* by the request that created it, and so is a worker's queue.             *)
(***************************************************************************)
EXTENDS Naturals, Sequences

CONSTANTS
    N,         \* requests the client sends
    Faults     \* what handlers and their yield-dependencies may do besides
               \* returning and raising ordinary exceptions

ASSUME NAssumption == N \in Nat
ASSUME FaultsAssumption == Faults \subseteq {"raises_cancelled", "exit_raises"}

VARIABLES
    arrived,   \* requests dispatched so far
    adapter,   \* the endpoint coroutine: receive, middleware or ended
    open,      \* the socket can still be received from
    ordered,   \* requests accepted for events registered with ordered=True
    queue,     \* queue[q]: the asyncio.Queue created for request q
    listed,    \* EventRouter._queues: the queue dispatch puts into, if any
    tracked,   \* EventRouter._tasks
    at,        \* where a task is suspended
    item,      \* the request a task is running, or ran last
    failing,   \* tasks leaving _run_handler with a CancelledError
    cancel,    \* CancelledErrors still to be delivered
    faulted,   \* history: tasks whose worker loop user code has ended
    begun      \* requests whose handler has been started

vars == <<arrived, adapter, open, ordered, queue, listed, tracked, at, item,
          failing, faulted, cancel, begun>>
\* How the tasks have left user code.
outcomes == <<failing, faulted>>

Request == 1..N
None == 0
Sentinel == 0      \* _QUEUE_SENTINEL

Label == {"none", "spawned", "get", "run", "report", "exit", "ended"}

Init ==
    /\ arrived = 0
    /\ adapter = "receive"
    /\ open = TRUE
    /\ ordered = {}
    /\ queue = [q \in Request |-> <<>>]
    /\ listed = None
    /\ tracked = {}
    /\ at = [t \in Request |-> "none"]
    /\ item = [t \in Request |-> None]
    /\ failing = {}
    /\ faulted = {}
    /\ cancel = [t \in Request |-> "no"]
    /\ begun = {}

-----------------------------------------------------------------------------
(* The adapter's endpoint: an event arrives, passes the middleware chain    *)
(* and is dispatched.                                                      *)
Receive ==
    /\ adapter = "receive"
    /\ open
    /\ arrived < N
    /\ adapter' = "middleware"
    /\ UNCHANGED <<arrived, open, ordered, queue, listed, tracked, at, item,
                   outcomes, cancel, begun>>

Arrive(r) ==
    /\ adapter = "middleware"
    /\ r = arrived + 1
    /\ arrived' = r
    /\ adapter' = "receive"

\* A middleware drops the event, or it is unknown, or its payload is invalid:
\* at most an error envelope is sent.
DispatchRejected(r) ==
    /\ Arrive(r)
    /\ UNCHANGED <<open, ordered, queue, listed, tracked, at, item, outcomes, cancel,
                   begun>>

Spawn(r) ==
    /\ at' = [at EXCEPT ![r] = "spawned"]
    /\ tracked' = tracked \cup {r}

DispatchUnordered(r) ==
    /\ Arrive(r)
    /\ Spawn(r)
    /\ UNCHANGED <<open, ordered, queue, listed, item, outcomes, cancel, begun>>

\* The first ordered event, or the first since cleanup() popped the queue.
DispatchToNewQueue(r) ==
    /\ Arrive(r)
    /\ listed = None
    /\ listed' = r
    /\ queue' = [queue EXCEPT ![r] = <<r>>]
    /\ ordered' = ordered \cup {r}
    /\ Spawn(r)
    /\ UNCHANGED <<open, item, outcomes, cancel, begun>>

\* Mutant: the newest event is handled first.
DispatchToQueueFront(r) ==
    /\ Arrive(r)
    /\ listed # None
    /\ queue' = [queue EXCEPT ![listed] = <<r>> \o @]
    /\ ordered' = ordered \cup {r}
    /\ UNCHANGED <<open, listed, tracked, at, item, outcomes, cancel, begun>>

DispatchToQueue(r) ==
    /\ Arrive(r)
    /\ listed # None
    /\ queue' = [queue EXCEPT ![listed] = Append(@, r)]
    /\ ordered' = ordered \cup {r}
    /\ UNCHANGED <<open, listed, tracked, at, item, outcomes, cancel, begun>>

-----------------------------------------------------------------------------
(* cleanup, called by handle_disconnect in any task: by = None for a task  *)
(* of another kind.  A task that cancels itself gets the CancelledError    *)
(* only when it next suspends ("owed"); in the others it is raised where   *)
(* they are suspended ("thrown").                                          *)
\* Mutant: cancelling the worker is thought to be enough.
CleanupWithoutSentinel(by) ==
    /\ cancel' = [t \in Request |->
                    IF t \notin tracked THEN cancel[t]
                    ELSE IF t = by THEN "owed" ELSE "thrown"]
    /\ tracked' = {}
    /\ listed' = None
    /\ UNCHANGED <<arrived, ordered, queue, at, item, outcomes, begun>>

Cleanup(by) ==
    /\ cancel' = [t \in Request |->
                    IF t \notin tracked THEN cancel[t]
                    ELSE IF t = by THEN "owed" ELSE "thrown"]
    /\ tracked' = {}
    /\ listed' = None
    /\ queue' = IF listed = None THEN queue
                ELSE [queue EXCEPT ![listed] = Append(@, Sentinel)]
    /\ UNCHANGED <<arrived, ordered, at, item, outcomes, begun>>

\* conn.disconnect() has closed the socket.
Disconnect ==
    /\ \E by \in {None} \cup {t \in Request : at[t] = "run"} : Cleanup(by)
    /\ open' = FALSE
    /\ UNCHANGED adapter

\* receive_text raises, and the endpoint runs handle_disconnect itself.
AdapterEnds ==
    /\ adapter = "receive"
    /\ adapter' = "ended"
    /\ open' = FALSE
    /\ Cleanup(None)

-----------------------------------------------------------------------------
(* Tasks.                                                                  *)
Goto(t, l) == at' = [at EXCEPT ![t] = l]

\* The done callback takes the task out of _tasks.
End(t) ==
    /\ Goto(t, "ended")
    /\ tracked' = tracked \ {t}
    /\ cancel' = [cancel EXCEPT ![t] = "no"]

Begin(t, r) ==
    /\ Goto(t, "run")
    /\ item' = [item EXCEPT ![t] = r]
    /\ begun' = begun \cup {r}

\* Mutant: the worker looks at the head of its queue without taking it.
NextItemPeeks(t) ==
    \/ /\ queue[t] = <<>>
       /\ Goto(t, "get")
       /\ UNCHANGED <<queue, tracked, item, cancel, begun>>
    \/ /\ queue[t] # <<>>
       /\ Head(queue[t]) = Sentinel
       /\ End(t)
       /\ UNCHANGED <<queue, item, begun>>
    \/ /\ queue[t] # <<>>
       /\ Head(queue[t]) # Sentinel
       /\ Begin(t, Head(queue[t]))
       /\ UNCHANGED <<queue, tracked, cancel>>

\* Top of the worker's loop: get() suspends only if the queue is empty.
NextItem(t) ==
    \/ /\ queue[t] = <<>>
       /\ Goto(t, "get")
       /\ UNCHANGED <<queue, tracked, item, cancel, begun>>
    \/ /\ queue[t] # <<>>
       /\ Head(queue[t]) = Sentinel
       /\ queue' = [queue EXCEPT ![t] = Tail(@)]
       /\ End(t)
       /\ UNCHANGED <<item, begun>>
    \/ /\ queue[t] # <<>>
       /\ Head(queue[t]) # Sentinel
       /\ queue' = [queue EXCEPT ![t] = Tail(@)]
       /\ Begin(t, Head(queue[t]))
       /\ UNCHANGED <<tracked, cancel>>

Start(t) ==
    /\ at[t] = "spawned"
    /\ cancel[t] = "no"
    /\ IF t \in ordered THEN NextItem(t)
       ELSE Begin(t, t) /\ UNCHANGED <<queue, tracked, cancel>>
    /\ UNCHANGED <<arrived, adapter, open, ordered, listed, outcomes>>

TakeItem(t) ==
    /\ at[t] = "get"
    /\ cancel[t] = "no"
    /\ queue[t] # <<>>
    /\ NextItem(t)
    /\ UNCHANGED <<arrived, adapter, open, ordered, listed, outcomes>>

\* _run_handler: the dependencies are resolved and the handler is awaited; an
\* exception is reported; in either case the exit stack is unwound.
Resume(t, from, to) ==
    /\ at[t] = from
    /\ cancel[t] # "thrown"
    /\ Goto(t, to)
    /\ UNCHANGED <<arrived, adapter, open, ordered, queue, listed, tracked, item,
                   cancel, begun>>

HandlerReturns(t) == Resume(t, "run", "exit") /\ UNCHANGED outcomes
\* Mutant: the handler's exception is not caught.
HandlerRaisesUncaught(t) ==
    /\ Resume(t, "run", "exit")
    /\ failing' = failing \cup {t}
    /\ UNCHANGED faulted

HandlerRaises(t) == Resume(t, "run", "report") /\ UNCHANGED outcomes
Reported(t) == Resume(t, "report", "exit") /\ UNCHANGED outcomes

\* A handler that awaits something cancelled by somebody else.
HandlerRaisesCancelled(t) ==
    /\ "raises_cancelled" \in Faults
    /\ Resume(t, "run", "exit")
    /\ failing' = failing \cup {t}
    /\ faulted' = faulted \cup {t}

\* Mutant: the worker handles one item and ends.
ExitReturnsOnce(t) ==
    /\ at[t] = "exit"
    /\ cancel[t] # "thrown"
    /\ End(t)
    /\ UNCHANGED <<arrived, adapter, open, ordered, queue, listed, item, outcomes,
                   begun>>

\* Back from _run_handler: the task ends, or the worker takes the next item.
ExitReturns(t) ==
    /\ at[t] = "exit"
    /\ cancel[t] # "thrown"
    /\ IF t \in ordered \ failing THEN NextItem(t)
       ELSE End(t) /\ UNCHANGED <<queue, item, begun>>
    /\ UNCHANGED <<arrived, adapter, open, ordered, listed, outcomes>>

\* The aclose() of a yield-dependency raises: _process_queue catches nothing.
ExitRaises(t) ==
    /\ "exit_raises" \in Faults
    /\ at[t] = "exit"
    /\ End(t)
    /\ faulted' = faulted \cup {t}
    /\ UNCHANGED <<arrived, adapter, open, ordered, queue, listed, item, failing,
                   begun>>

\* The CancelledError is raised: "except Exception" lets it through.
Cancelled(t) ==
    /\ cancel[t] # "no"
    /\ \/ /\ at[t] \in {"spawned", "get", "exit"}
          /\ End(t)
          /\ UNCHANGED outcomes
       \/ /\ at[t] \in {"run", "report"}
          /\ Goto(t, "exit")
          /\ failing' = failing \cup {t}
          /\ UNCHANGED faulted
          /\ cancel' = [cancel EXCEPT ![t] = "no"]
          /\ UNCHANGED tracked
    /\ UNCHANGED <<arrived, adapter, open, ordered, queue, listed, item, begun>>

\* ... or the user code it is raised in catches it and carries on.
Swallowed(t) ==
    /\ cancel[t] # "no"
    /\ at[t] \in {"run", "report", "exit"}
    /\ cancel' = [cancel EXCEPT ![t] = "no"]
    /\ UNCHANGED <<arrived, adapter, open, ordered, queue, listed, tracked, at, item,
                   outcomes, begun>>

-----------------------------------------------------------------------------
Dispatch(r) ==
    \/ DispatchRejected(r)
    \/ DispatchUnordered(r)
    \/ DispatchToNewQueue(r)
    \/ DispatchToQueue(r)

HandlerEnds(t) ==
    HandlerReturns(t) \/ HandlerRaises(t) \/ HandlerRaisesCancelled(t)

TaskStep(t) ==
    \/ Start(t)
    \/ TakeItem(t)
    \/ HandlerEnds(t)
    \/ Reported(t)
    \/ ExitReturns(t)
    \/ ExitRaises(t)
    \/ Cancelled(t)
    \/ Swallowed(t)

AllEnded == \A t \in Request : at[t] \in {"none", "ended"}

Next ==
    \/ \E r \in Request : Dispatch(r) \/ TaskStep(r)
    \/ Receive
    \/ Disconnect
    \/ AdapterEnds

Spec == Init /\ [][Next]_vars

(* The event loop resumes every task that can run, and user code comes     *)
(* back.  Nothing is assumed of the client or of the adapter.              *)
Fairness == \A t \in Request : WF_vars(TaskStep(t))

FairSpec == Spec /\ Fairness

-----------------------------------------------------------------------------
Alive(t) == at[t] \notin {"none", "ended"}
InQueue(q) == {queue[q][i] : i \in DOMAIN queue[q]}

\* Every dict, queue and task has its shape, and only dispatched requests occur.
TypeOK ==
    /\ arrived \in 0..N
    /\ adapter \in {"receive", "middleware", "ended"} /\ open \in BOOLEAN
    /\ ordered \subseteq 1..arrived /\ tracked \subseteq 1..arrived
    /\ begun \subseteq 1..arrived
    /\ queue \in [Request -> Seq(0..arrived)]
    /\ listed \in ordered \cup {None}
    /\ at \in [Request -> Label]
    /\ item \in [Request -> 0..arrived]
    /\ failing \subseteq 1..arrived /\ faulted \subseteq 1..arrived
    /\ cancel \in [Request -> {"no", "owed", "thrown"}]

\* A worker whose queue is no longer listed finds the sentinel in it, so that
\* it stops even if the handler it is in swallows its cancellation; a worker
\* whose queue is listed has not been told to stop.
AbandonedWorkerStops ==
    \A t \in ordered :
        Alive(t) => (t # listed <=> Sentinel \in InQueue(t))

\* The sentinel is the last thing a queue gets.
NothingAfterSentinel ==
    \A q \in Request : \A i \in DOMAIN queue[q] :
        queue[q][i] = Sentinel => i = Len(queue[q])

\* The queue dispatch puts events into has a worker that is going to take them,
\* unless user code has ended its loop with more than an ordinary exception.
ListedQueueHasWorker ==
    listed # None /\ listed \notin faulted => Alive(listed) /\ listed \notin failing

\* What relates queues and workers, together: an event is never put where no
\* worker will find it, and no worker waits where nothing will be put.
QueueInv ==
    /\ TypeOK
    /\ AbandonedWorkerStops
    /\ NothingAfterSentinel
    /\ ListedQueueHasWorker

\* An ordered event accepted by dispatch is handed over once and in turn: it is
\* waiting in one queue or its handler has been started, never both, and a
\* worker's queue holds later events than the one it is running, in order.
OrderedEventsAccounted ==
    /\ \A r \in ordered :
          r \in begun <=> \A q \in Request : r \notin InQueue(q)
    /\ \A q \in Request : \A i \in DOMAIN queue[q] :
          queue[q][i] # Sentinel =>
              /\ queue[q][i] > item[q]
              /\ \A j \in 1..i-1 : queue[q][j] < queue[q][i]
              /\ \A p \in Request \ {q} : queue[q][i] \notin InQueue(p)

\* No handler is started twice for one request.
HandlersStartOnce ==
    [][\A t \in Request :
          at[t] # "run" /\ at'[t] = "run" => item'[t] \notin begun]_vars

\* An ordered event is eventually taken off its queue, unless its connection
\* is disconnected, or such a fault has ended the worker.
OrderedEventsProcessed ==
    \A q, r \in Request :
        listed = q /\ r \in InQueue(q) ~> listed # q \/ r \in begun \/ q \in faulted

\* What the documentation says of ordered events, whatever user code raises.
OrderedEventsAlwaysProcessed ==
    \A q, r \in Request :
        listed = q /\ r \in InQueue(q) ~> listed # q \/ r \in begun

\* After the adapter's own cleanup every handler and worker task ends, whatever
\* they swallow, and none waits on a queue nobody will ever put into.
TasksEndAfterDisconnect == adapter = "ended" ~> AllEnded
=============================================================================
