----------------------------- MODULE TestClient -----------------------------
(***************************************************************************)
(* testing.py: the in-memory socket of a TestConnection and the tasks of a *)
(* test that wait on it for events by name.  A task that is handed another *)
(* event than its own puts it into a buffer, which is looked at only when  *)
(* a receive() begins.                                                     *)
(***************************************************************************)
EXTENDS Naturals, SequencesExt, FiniteSets

CONSTANTS
    Event,         \* event names
    Receiver,      \* tasks of the test
    NoEvent,       \* "not waiting"
    MaxMessages    \* bound on the messages of a run

ASSUME EventAssumption == NoEvent \notin Event
ASSUME MessagesAssumption == MaxMessages \in Nat

VARIABLES
    session,       \* the connect() block: "new", "open", "refused", "left"
    closed,        \* TestRawSocket.closed
    event,         \* history: event[m] is the name of the m-th message put
    outgoing,      \* TestRawSocket.outgoing: numbers of messages
    buffer,        \* TestConnection._buffer
    wanted,        \* wanted[r]: the event r is receiving
    disturbed,     \* history: receives another one has run beside
    returned       \* history: messages returned, in order

testVars == <<session, closed, event, outgoing, buffer, wanted, disturbed, returned>>

TestInit ==
    /\ session = "new"
    /\ closed = FALSE
    /\ event = <<>>
    /\ outgoing = <<>>
    /\ buffer = <<>>
    /\ wanted = [r \in Receiver |-> NoEvent]
    /\ disturbed = {}
    /\ returned = <<>>

-----------------------------------------------------------------------------
(* connect(): handle_connect admits or refuses; leaving the block tears    *)
(* the connection down, which does not close the socket.                   *)
Connect ==
    /\ session = "new"
    /\ session' \in {"open", "refused"}
    /\ UNCHANGED <<closed, event, outgoing, buffer, wanted, disturbed, returned>>

Leave ==
    /\ session = "open"
    /\ session' = "left"
    /\ UNCHANGED <<closed, event, outgoing, buffer, wanted, disturbed, returned>>

\* conn.disconnect() or a refusal by handle_connect.
Close ==
    /\ session \in {"open", "left"}
    /\ ~closed
    /\ closed' = TRUE
    /\ UNCHANGED <<session, event, outgoing, buffer, wanted, disturbed, returned>>

\* send_json of an open socket; a closed one drops what it is given.
SendJson(e) ==
    /\ session \in {"open", "left"}
    /\ ~closed
    /\ Len(event) < MaxMessages
    /\ event' = Append(event, e)
    /\ outgoing' = Append(outgoing, Len(event'))
    /\ UNCHANGED <<session, closed, buffer, wanted, disturbed, returned>>

-----------------------------------------------------------------------------
Idle(r) == session \in {"open", "left"} /\ wanted[r] = NoEvent

Buffered(e) == {i \in DOMAIN buffer : event[buffer[i]] = e}

\* Mutant: the latest match.
ReceiveBufferedLatest(r, e) ==
    /\ Idle(r)
    /\ \E i \in Buffered(e) :
          /\ \A j \in Buffered(e) : j <= i
          /\ buffer' = RemoveAt(buffer, i)
          /\ returned' = Append(returned, buffer[i])
    /\ UNCHANGED <<session, closed, event, outgoing, wanted, disturbed>>

\* receive(): the oldest match of the buffer, at once.
ReceiveBuffered(r, e) ==
    /\ Idle(r)
    /\ \E i \in Buffered(e) :
          /\ \A j \in Buffered(e) : i <= j
          /\ buffer' = RemoveAt(buffer, i)
          /\ returned' = Append(returned, buffer[i])
    /\ UNCHANGED <<session, closed, event, outgoing, wanted, disturbed>>

\* Mutant: the buffer is not looked at first.
ReceiveWaitsAnyway(r, e) ==
    /\ Idle(r)
    /\ wanted' = [wanted EXCEPT ![r] = e]
    /\ LET others == {q \in Receiver : wanted[q] # NoEvent} IN
       disturbed' = IF others = {} THEN disturbed ELSE disturbed \cup others \cup {r}
    /\ UNCHANGED <<session, closed, event, outgoing, buffer, returned>>

\* Nothing in the buffer: wait on the queue.  Several tasks may.
ReceiveWaits(r, e) ==
    /\ Idle(r)
    /\ Buffered(e) = {}
    /\ wanted' = [wanted EXCEPT ![r] = e]
    /\ LET others == {q \in Receiver : wanted[q] # NoEvent} IN
       disturbed' = IF others = {} THEN disturbed ELSE disturbed \cup others \cup {r}
    /\ UNCHANGED <<session, closed, event, outgoing, buffer, returned>>

Stops(r) ==
    /\ wanted' = [wanted EXCEPT ![r] = NoEvent]
    /\ disturbed' = disturbed \ {r}

\* r is handed the head of the queue.
GetMatch(r) ==
    /\ wanted[r] # NoEvent /\ outgoing # <<>>
    /\ event[Head(outgoing)] = wanted[r]
    /\ outgoing' = Tail(outgoing)
    /\ returned' = Append(returned, Head(outgoing))
    /\ Stops(r)
    /\ UNCHANGED <<session, closed, event, buffer>>

\* Mutant: what does not match is dropped.
GetOtherDropped(r) ==
    /\ wanted[r] # NoEvent /\ outgoing # <<>>
    /\ event[Head(outgoing)] # wanted[r]
    /\ outgoing' = Tail(outgoing)
    /\ UNCHANGED <<session, closed, event, buffer, wanted, disturbed, returned>>

GetOther(r) ==
    /\ wanted[r] # NoEvent /\ outgoing # <<>>
    /\ event[Head(outgoing)] # wanted[r]
    /\ outgoing' = Tail(outgoing)
    /\ buffer' = Append(buffer, Head(outgoing))
    /\ UNCHANGED <<session, closed, event, wanted, disturbed, returned>>

\* wait_for: the deadline may also meet a message that has just been put.
TimesOut(r) ==
    /\ wanted[r] # NoEvent
    /\ Stops(r)
    /\ UNCHANGED <<session, closed, event, outgoing, buffer, returned>>

TestNext ==
    \/ Connect \/ Leave \/ Close
    \/ \E e \in Event : SendJson(e)
    \/ \E r \in Receiver, e \in Event : ReceiveBuffered(r, e) \/ ReceiveWaits(r, e)
    \/ \E r \in Receiver : GetMatch(r) \/ GetOther(r) \/ TimesOut(r)

TestSpec == TestInit /\ [][TestNext]_testVars

-----------------------------------------------------------------------------
TestTypeOK ==
    /\ session \in {"new", "open", "refused", "left"}
    /\ closed \in BOOLEAN
    /\ event \in Seq(Event) /\ Len(event) <= MaxMessages
    /\ outgoing \in Seq(DOMAIN event)
    /\ buffer \in Seq(DOMAIN event)
    /\ returned \in Seq(DOMAIN event)
    /\ wanted \in [Receiver -> Event \cup {NoEvent}]
    /\ disturbed \subseteq Receiver

\* A message that was put is in the queue, in the buffer or returned to one
\* receive, and in one place only: none is lost when receives wait for other
\* events, time out or overlap.
NoneLost ==
    LET all == returned \o buffer \o outgoing
    IN  Len(all) = Len(event) /\ Range(all) = DOMAIN event

\* A receive that no other has run beside misses nothing: what it waits for is
\* not in the buffer, where it would not look again.
LoneReceiveMissesNothing ==
    \A r \in Receiver : wanted[r] # NoEvent /\ r \notin disturbed => Buffered(wanted[r]) = {}

\* While no receives overlap, each returns the oldest message of its event that
\* has not been returned yet, whatever was buffered or timed out before.
OldestReturned ==
    [][returned' # returned /\ disturbed = {} =>
          \A m \in DOMAIN event :
              event[m] = event[Last(returned')] /\ m < Last(returned') => m \in Range(returned)
      ]_testVars
=============================================================================
