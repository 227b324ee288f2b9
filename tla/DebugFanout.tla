---------------------------- MODULE DebugFanout ----------------------------
(***************************************************************************)
(* app.py and docs/debug_router.py: the live log of the debug page.  Each  *)
(* open tab has a bounded queue that _debug_log fills, and a generator     *)
(* that empties it into an SSE stream.  In every round the generator races *)
(* a task that gets the next entry against one that waits for the shutdown *)
(* of the server, and against a timer.                                     *)
(*                                                                         *)
(* Entries are numbered as they are logged.                                *)
(***************************************************************************)
EXTENDS Integers, Sequences, SequencesExt

CONSTANTS
    Tab,           \* debug streams, each opened at most once
    Cap,           \* maxsize of a subscriber's queue
    MaxEntries     \* bound on the entries logged

ASSUME CapAssumption == Cap \in Nat \ {0}
ASSUME EntriesAssumption == MaxEntries \in Nat

VARIABLES
    logged,        \* entries logged so far
    shutdown,      \* _shutdown_event
    subscribers,   \* tabs whose queue is in _debug_subscribers
    queue,         \* the queue of a tab
    at,            \* where the generator of a tab is suspended
    getting,       \* tabs with a get_task that is waiting for an entry
    held,          \* the entry the get_task of a tab has returned, if any
    waiting,       \* tabs with a wait_task that is waiting for the shutdown
    woken,         \* tabs whose wait_task has returned
    gone,          \* tabs whose client has disconnected
    sent,          \* the entries a tab was sent
    since          \* history: the entries logged before a tab was opened

vars == <<logged, shutdown, subscribers, queue, at, getting, held, waiting, woken,
          gone, sent, since>>

tasks == <<getting, held, waiting, woken>>

None == 0

Label == {"none", "check", "race", "send", "abandoned", "ended"}

Init ==
    /\ logged = 0
    /\ shutdown = FALSE
    /\ subscribers = {}
    /\ queue = [t \in Tab |-> <<>>]
    /\ at = [t \in Tab |-> "none"]
    /\ getting = {}
    /\ held = [t \in Tab |-> None]
    /\ waiting = {}
    /\ woken = {}
    /\ gone = {}
    /\ sent = [t \in Tab |-> <<>>]
    /\ since = [t \in Tab |-> 0]

-----------------------------------------------------------------------------
(* The application.                                                        *)
\* Mutant: an entry that finds the queue full is dropped.
PutDropping(q, e) == IF Len(q) < Cap THEN Append(q, e) ELSE q

\* Mutant: the queue has no maxsize.
PutUnbounded(q, e) == Append(q, e)

\* put_nowait; a full queue loses its oldest entry.
Put(q, e) == Append(IF Len(q) < Cap THEN q ELSE Tail(q), e)

Log ==
    /\ logged < MaxEntries
    /\ logged' = logged + 1
    /\ queue' = [t \in Tab |-> IF t \in subscribers THEN Put(queue[t], logged')
                               ELSE queue[t]]
    /\ UNCHANGED <<shutdown, subscribers, at, tasks, gone, sent, since>>

Shutdown ==
    /\ shutdown' = TRUE
    /\ UNCHANGED <<logged, subscribers, queue, at, tasks, gone, sent, since>>

-----------------------------------------------------------------------------
(* The generator.                                                          *)
Goto(t, l) == at' = [at EXCEPT ![t] = l]

Open(t) ==
    /\ at[t] = "none"
    /\ Goto(t, "check")
    /\ subscribers' = subscribers \cup {t}
    /\ since' = [since EXCEPT ![t] = logged]
    /\ UNCHANGED <<logged, shutdown, queue, tasks, gone, sent>>

\* The finally clause.
Finish(t) ==
    /\ Goto(t, "ended")
    /\ subscribers' = subscribers \ {t}

\* is_disconnected has answered.
CheckEnds(t) ==
    /\ at[t] = "check"
    /\ t \in gone \/ shutdown
    /\ Finish(t)
    /\ UNCHANGED <<logged, shutdown, queue, tasks, gone, sent, since>>

\* Mutant: only the queue is waited for.
CheckGoesOnGetting(t) ==
    /\ at[t] = "check"
    /\ t \notin gone /\ ~shutdown
    /\ Goto(t, "race")
    /\ getting' = getting \cup {t}
    /\ UNCHANGED <<logged, shutdown, subscribers, queue, held, waiting, woken, gone,
                   sent, since>>

CheckGoesOn(t) ==
    /\ at[t] = "check"
    /\ t \notin gone /\ ~shutdown
    /\ Goto(t, "race")
    /\ getting' = getting \cup {t}
    /\ waiting' = waiting \cup {t}
    /\ UNCHANGED <<logged, shutdown, subscribers, queue, held, woken, gone, sent, since>>

\* The two tasks.
GetReturns(t) ==
    /\ t \in getting
    /\ queue[t] # <<>>
    /\ getting' = getting \ {t}
    /\ held' = [held EXCEPT ![t] = Head(queue[t])]
    /\ queue' = [queue EXCEPT ![t] = Tail(@)]
    /\ UNCHANGED <<logged, shutdown, subscribers, at, waiting, woken, gone, sent, since>>

WaitReturns(t) ==
    /\ t \in waiting
    /\ shutdown
    /\ waiting' = waiting \ {t}
    /\ woken' = woken \cup {t}
    /\ UNCHANGED <<logged, shutdown, subscribers, queue, at, getting, held, gone, sent,
                   since>>

\* asyncio.wait is back: the tasks still pending are cancelled.  A cancelled
\* get() leaves its entry in the queue.
CancelPending(t) ==
    /\ getting' = getting \ {t}
    /\ waiting' = waiting \ {t}
    /\ held' = [held EXCEPT ![t] = None]
    /\ woken' = woken \ {t}

\* An entry got in the same moment goes back into the queue, if it fits.
RaceEndsByShutdown(t) ==
    /\ at[t] = "race"
    /\ shutdown
    /\ held[t] # None \/ t \in woken
    /\ Finish(t)
    /\ CancelPending(t)
    /\ queue' = IF held[t] # None /\ Len(queue[t]) < Cap
                THEN [queue EXCEPT ![t] = Append(@, held[t])] ELSE queue
    /\ UNCHANGED <<logged, shutdown, gone, sent, since>>

\* Mutant: the entry is looked at again in the next round.
RaceEndsByEntryKept(t) ==
    /\ at[t] = "race"
    /\ ~shutdown
    /\ held[t] # None
    /\ Goto(t, "send")
    /\ CancelPending(t)
    /\ queue' = [queue EXCEPT ![t] = <<held[t]>> \o @]
    /\ sent' = [sent EXCEPT ![t] = Append(@, held[t])]
    /\ UNCHANGED <<logged, shutdown, subscribers, gone, since>>

RaceEndsByEntry(t) ==
    /\ at[t] = "race"
    /\ ~shutdown
    /\ held[t] # None
    /\ Goto(t, "send")
    /\ CancelPending(t)
    /\ sent' = [sent EXCEPT ![t] = Append(@, held[t])]
    /\ UNCHANGED <<logged, shutdown, subscribers, queue, gone, since>>

\* Nothing for 15 seconds: a keepalive, or the end.  A task that returns
\* together with the timer counts as done, as above.
RaceTimesOut(t) ==
    /\ at[t] = "race"
    /\ held[t] = None /\ t \notin woken
    /\ IF shutdown THEN Finish(t) ELSE Goto(t, "send") /\ UNCHANGED subscribers
    /\ CancelPending(t)
    /\ UNCHANGED <<logged, shutdown, queue, gone, sent, since>>

\* The browser has been sent what was yielded.
SendReturns(t) ==
    /\ at[t] = "send"
    /\ Goto(t, "check")
    /\ UNCHANGED <<logged, shutdown, subscribers, queue, tasks, gone, sent, since>>

-----------------------------------------------------------------------------
(* The client goes away, and the response task is cancelled.               *)
ClientLeaves(t) ==
    /\ at[t] \in {"check", "race", "send"}
    /\ gone' = gone \cup {t}
    /\ UNCHANGED <<logged, shutdown, subscribers, queue, at, tasks, sent, since>>

\* Mutant: there is no finally clause.
CancelledSubscribed(t) ==
    /\ t \in gone
    /\ at[t] \in {"check", "race"}
    /\ Goto(t, "ended")
    /\ UNCHANGED <<logged, shutdown, subscribers, queue, tasks, gone, sent, since>>

\* The generator is where the CancelledError is raised.  Cancelling wait() does
\* not cancel what it waits for: the tasks of this round stay behind.
Cancelled(t) ==
    /\ t \in gone
    /\ at[t] \in {"check", "race"}
    /\ Finish(t)
    /\ UNCHANGED <<logged, shutdown, queue, tasks, gone, sent, since>>

\* It is raised in the send: the generator stays at its yield ...
CancelledInSend(t) ==
    /\ t \in gone
    /\ at[t] = "send"
    /\ Goto(t, "abandoned")
    /\ UNCHANGED <<logged, shutdown, subscribers, queue, tasks, gone, sent, since>>

\* ... until it is collected, and closed.
Collected(t) ==
    /\ at[t] = "abandoned"
    /\ Finish(t)
    /\ UNCHANGED <<logged, shutdown, queue, tasks, gone, sent, since>>

-----------------------------------------------------------------------------
RaceEnds(t) == RaceEndsByShutdown(t) \/ RaceEndsByEntry(t)

StreamStep(t) ==
    \/ CheckEnds(t)
    \/ CheckGoesOn(t)
    \/ GetReturns(t)
    \/ WaitReturns(t)
    \/ RaceEnds(t)
    \/ SendReturns(t)
    \/ Collected(t)

Next ==
    \/ Log
    \/ Shutdown
    \/ \E t \in Tab :
          \/ Open(t)
          \/ StreamStep(t)
          \/ RaceTimesOut(t)
          \/ ClientLeaves(t)
          \/ Cancelled(t)
          \/ CancelledInSend(t)

Spec == Init /\ [][Next]_vars

(* The event loop runs every task that can run, a send returns, and an     *)
(* abandoned generator is collected.  Nothing is assumed of the timer, of  *)
(* the clients or of the application.                                      *)
Fairness ==
    \A t \in Tab :
        /\ WF_vars(CheckEnds(t) \/ CheckGoesOn(t))
        /\ WF_vars(GetReturns(t))
        /\ WF_vars(WaitReturns(t))
        /\ WF_vars(RaceEnds(t))
        /\ WF_vars(SendReturns(t))
        /\ WF_vars(Collected(t))

FairSpec == Spec /\ Fairness

-----------------------------------------------------------------------------
\* What a tab has been sent, is about to be sent and has waiting.
Stream(t) == sent[t] \o (IF held[t] = None THEN <<>> ELSE <<held[t]>>) \o queue[t]

TypeOK ==
    /\ logged \in 0..MaxEntries
    /\ shutdown \in BOOLEAN
    /\ subscribers \subseteq Tab
    /\ \A t \in Tab : queue[t] \in Seq(1..logged) /\ Len(queue[t]) <= Cap
    /\ at \in [Tab -> Label]
    /\ held \in [Tab -> 0..logged]
    /\ getting \subseteq Tab /\ waiting \subseteq Tab /\ woken \subseteq Tab
    /\ gone \subseteq Tab
    /\ sent \in [Tab -> Seq(1..logged)]
    /\ since \in [Tab -> 0..logged]

\* A tab sees entries in the order they were logged, each once, and none from
\* before it was opened.
StreamInOrder ==
    \A t \in subscribers :
        \A j \in DOMAIN Stream(t) :
            /\ Stream(t)[j] > since[t]
            /\ \A i \in 1..j-1 : Stream(t)[i] < Stream(t)[j]

\* However slow a tab is, and whatever the others do, it has been sent or will
\* find in its queue the newest Cap entries logged since it was opened.
NewestKept ==
    \A t \in subscribers : \A e \in 1..logged :
        e > since[t] /\ e > logged - Cap => e \in Range(Stream(t))

\* A queue is fed as long as its stream exists and no longer.
SubscribersAreStreams ==
    \A t \in Tab : t \in subscribers <=> at[t] \notin {"none", "ended"}

\* The shutdown of the server ends every stream without waiting for an entry or
\* for the timer.
StreamsEndAfterShutdown ==
    \A t \in Tab : shutdown /\ at[t] # "none" ~> at[t] = "ended"
=============================================================================
