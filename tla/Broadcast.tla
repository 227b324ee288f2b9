----------------------------- MODULE Broadcast -----------------------------
(***************************************************************************)
(* rooms.py and manager.py: messages from the server to many connections.  *)
(* A broadcast takes a snapshot of its targets and sends to them in chunks *)
(* of concurrent sends (asyncio.gather); each send looks its connection up *)
(* again.  Meanwhile connections join, leave and disconnect, sockets break *)
(* and the broadcasting task itself may be cancelled.                      *)
(*                                                                         *)
(* Messages are numbered in the order of the calls that send them.         *)
(***************************************************************************)
EXTENDS MemoryBackend, Naturals, Sequences, FiniteSets

CONSTANTS
    Caller,        \* tasks that send: handlers, hooks, background tasks
    ChunkSize,     \* BROADCAST_CHUNK_SIZE
    MaxMessages    \* bound on the messages of a run

ASSUME ChunkAssumption == ChunkSize \in Nat \ {0}
ASSUME MessagesAssumption == MaxMessages \in Nat

VARIABLES
    registered,    \* keys of ConnectionManager._connections
    broken,        \* connections whose raw_socket.send_json raises
    sent,          \* messages numbered so far
    current,       \* current[b]: the message b is sending, if any
    targets,       \* targets[b]: conn ids not yet put into a chunk
    ready,         \* ready[b]: tasks of the current gather not yet started
    sending,       \* sending[b]: sends of the current gather being awaited
    inbox,         \* inbox[c]: the messages the socket of c was handed
    author,        \* history: who sent a message
    wanted,        \* history: whom a message was meant for when it was sent
    completed      \* history: messages whose call has returned

managerVars == <<registered, broken>>
callVars == <<sent, current, targets, ready, sending>>
history == <<author, wanted, completed>>
vars == <<backendVars, managerVars, callVars, inbox, history>>

Message == 1..MaxMessages
None == 0

Init ==
    /\ BackendInit
    /\ registered = {}
    /\ broken = {}
    /\ sent = 0
    /\ current = [b \in Caller |-> None]
    /\ targets = [b \in Caller |-> {}]
    /\ ready = [b \in Caller |-> {}]
    /\ sending = [b \in Caller |-> {}]
    /\ inbox = [c \in Conn |-> <<>>]
    /\ author = [m \in {} |-> None]
    /\ wanted = [m \in {} |-> {}]
    /\ completed = {}

-----------------------------------------------------------------------------
(* What happens to connections meanwhile.                                  *)
Connect(c) ==
    /\ StoreConnection(c)
    /\ registered' = registered \cup {c}
    /\ UNCHANGED <<broken, callVars, inbox, history>>

Join(c, r) ==
    /\ AddToRoom(c, r)
    /\ UNCHANGED <<managerVars, callVars, inbox, history>>

Leave(c, r) ==
    /\ RemoveFromRoom(c, r)
    /\ UNCHANGED <<managerVars, callVars, inbox, history>>

Disconnect(c) ==
    /\ registered' = registered \ {c}
    /\ RemoveConnection(c)
    /\ UNCHANGED <<broken, callVars, inbox, history>>

SocketBreaks(c) ==
    /\ broken' = broken \cup {c}
    /\ UNCHANGED <<backendVars, registered, callVars, inbox, history>>

-----------------------------------------------------------------------------
(* The calls.  T is what the code iterates over, W whom the caller means.  *)
Call(b, T, W) ==
    /\ current[b] = None
    /\ sent < MaxMessages
    /\ sent' = sent + 1
    /\ current' = [current EXCEPT ![b] = sent']
    /\ targets' = [targets EXCEPT ![b] = T]
    /\ author' = Put(author, sent', b)
    /\ wanted' = Put(wanted, sent', W)
    /\ UNCHANGED <<backendVars, managerVars, ready, sending, inbox, completed>>

\* Mutant: the exclusion is forgotten.
RoomTargetsAll(r, exclude) == RoomMembers(r)

\* The snapshot is the room's index; nobody asks whether a member is registered.
RoomTargets(r, exclude) == RoomMembers(r) \ exclude

InRoom(r) == {c \in Conn : r \in ConnectionRooms(c)}

BroadcastToRoom(b, r, exclude) ==
    Call(b, RoomTargets(r, exclude), InRoom(r) \ exclude)

BroadcastAll(b) == Call(b, registered, registered)

BroadcastExcept(b, c) == Call(b, registered \ {c}, registered \ {c})

\* conn.emit: a single send, awaited by its caller.
Emit(b, c) == Call(b, {c}, {c})

-----------------------------------------------------------------------------
(* Sending.                                                                *)
Chunks(T) ==
    {S \in SUBSET T :
        Cardinality(S) = IF Cardinality(T) < ChunkSize THEN Cardinality(T)
                         ELSE ChunkSize}

GatherDone(b) == current[b] # None /\ ready[b] = {} /\ sending[b] = {}

\* Mutant: the slices of _chunks overlap by one.
NextChunkOverlapping(b) ==
    /\ GatherDone(b)
    /\ targets[b] # {}
    /\ \E S \in Chunks(targets[b]) : \E last \in S :
          /\ ready' = [ready EXCEPT ![b] = S]
          /\ targets' = [targets EXCEPT ![b] =
                IF S = @ THEN {} ELSE @ \ (S \ {last})]
    /\ UNCHANGED <<backendVars, managerVars, sent, current, sending, inbox, history>>

\* gather: a task for each connection of the next slice.  The order of the
\* snapshot (of a set, or of _connections) is left open.
NextChunk(b) ==
    /\ GatherDone(b)
    /\ targets[b] # {}
    /\ \E S \in Chunks(targets[b]) :
          /\ ready' = [ready EXCEPT ![b] = S]
          /\ targets' = [targets EXCEPT ![b] = @ \ S]
    /\ UNCHANGED <<backendVars, managerVars, sent, current, sending, inbox, history>>

CallReturns(b) ==
    /\ GatherDone(b)
    /\ targets[b] = {}
    /\ completed' = completed \cup {current[b]}
    /\ current' = [current EXCEPT ![b] = None]
    /\ UNCHANGED <<backendVars, managerVars, sent, targets, ready, sending, inbox,
                   author, wanted>>

\* Mutant: the exception of a send ends the broadcast.
SendFailsAborting(b, c) ==
    /\ c \in ready[b]
    /\ c \in registered /\ c \in broken
    /\ ready' = [ready EXCEPT ![b] = @ \ {c}]
    /\ targets' = [targets EXCEPT ![b] = {}]
    /\ UNCHANGED <<backendVars, managerVars, sent, current, sending, inbox, history>>

\* send and _safe_send swallow whatever the socket raises, and ids that are no
\* longer registered.
SendFails(b, c) ==
    /\ c \in ready[b]
    /\ c \in registered => c \in broken
    /\ ready' = [ready EXCEPT ![b] = @ \ {c}]
    /\ UNCHANGED <<backendVars, managerVars, sent, current, targets, sending, inbox,
                   history>>

\* The socket is handed the message, and the task waits for it to be written.
Send(b, c) ==
    /\ c \in ready[b]
    /\ c \in registered \ broken
    /\ ready' = [ready EXCEPT ![b] = @ \ {c}]
    /\ sending' = [sending EXCEPT ![b] = @ \cup {c}]
    /\ inbox' = [inbox EXCEPT ![c] = Append(@, current[b])]
    /\ UNCHANGED <<backendVars, managerVars, sent, current, targets, history>>

\* ... which returns, or raises what _safe_send swallows.
SendReturns(b, c) ==
    /\ c \in sending[b]
    /\ sending' = [sending EXCEPT ![b] = @ \ {c}]
    /\ UNCHANGED <<backendVars, managerVars, sent, current, targets, ready, inbox,
                   history>>

\* Mutant: the children of gather live on.
CancelledAlone(b) ==
    /\ current[b] # None
    /\ current' = [current EXCEPT ![b] = None]
    /\ UNCHANGED <<backendVars, managerVars, sent, targets, ready, sending, inbox,
                   history>>

\* The calling task is cancelled (its connection went away): gather cancels its
\* children, and the rest of the targets get nothing.
Cancelled(b) ==
    /\ current[b] # None
    /\ current' = [current EXCEPT ![b] = None]
    /\ targets' = [targets EXCEPT ![b] = {}]
    /\ ready' = [ready EXCEPT ![b] = {}]
    /\ sending' = [sending EXCEPT ![b] = {}]
    /\ UNCHANGED <<backendVars, managerVars, sent, inbox, history>>

-----------------------------------------------------------------------------
Step(b) ==
    \/ NextChunk(b)
    \/ CallReturns(b)
    \/ \E c \in Conn : SendFails(b, c) \/ Send(b, c) \/ SendReturns(b, c)

StartCall(b) ==
    \/ \E r \in Room, c \in Conn : \E exclude \in {{}, {c}} :
          BroadcastToRoom(b, r, exclude)
    \/ BroadcastAll(b)
    \/ \E c \in issued : BroadcastExcept(b, c) \/ Emit(b, c)

Next ==
    \/ \E c \in Conn : Connect(c)
    \/ \E c \in issued : Disconnect(c) \/ SocketBreaks(c)
    \/ \E c \in issued, r \in Room : Join(c, r) \/ Leave(c, r)
    \/ \E b \in Caller : StartCall(b) \/ Step(b) \/ Cancelled(b)

Spec == Init /\ [][Next]_vars

-----------------------------------------------------------------------------
Handed(c) == {inbox[c][i] : i \in DOMAIN inbox[c]}

TypeOK ==
    /\ BackendTypeOK
    /\ registered \subseteq issued /\ broken \subseteq issued
    /\ sent \in 0..MaxMessages
    /\ current \in [Caller -> 0..sent]
    /\ targets \in [Caller -> SUBSET issued]
    /\ ready \in [Caller -> SUBSET issued]
    /\ sending \in [Caller -> SUBSET issued]
    /\ inbox \in [Conn -> Seq(1..sent)]
    /\ author \in [1..sent -> Caller]
    /\ wanted \in [1..sent -> SUBSET issued]
    /\ completed \subseteq 1..sent

\* A socket is handed only messages meant for its connection when they were
\* sent: nobody who was excluded, who had left before or who joined later.
OnlyTheWanted == \A c \in Conn : \A m \in Handed(c) : c \in wanted[m]

\* What one task sends reaches each client in the order of its calls, and no
\* message reaches a client twice: a call returns only after its last chunk.
CallersOrderKept ==
    \A c \in Conn : \A j \in DOMAIN inbox[c] : \A i \in 1..j-1 :
        author[inbox[c][i]] = author[inbox[c][j]] => inbox[c][i] < inbox[c][j]

\* A call that has returned has reached everybody it was meant for who is still
\* connected and can be written to, however many others broke, disconnected or
\* left meanwhile.
CompletedReachesAll ==
    \A m \in completed : \A c \in wanted[m] \cap (registered \ broken) :
        m \in Handed(c)

\* A task that is not in a call has no send under way: its messages do not go
\* on without it when it is cancelled.
SendsBelongToCalls ==
    \A b \in Caller :
        current[b] = None => targets[b] \cup ready[b] \cup sending[b] = {}

\* Why they hold: during a call everybody it was meant for who can be reached is
\* either still to be sent to, and then has not been, or has the message; and
\* the message is the last of its author.
Pending(b) == targets[b] \cup ready[b]

CallInv ==
    \A b \in Caller : current[b] # None =>
        /\ author[current[b]] = b
        /\ current[b] \notin completed
        /\ \A m \in 1..sent : author[m] = b => m <= current[b]
        /\ targets[b] \cap ready[b] = {}
        /\ \A c \in Pending(b) : c \in wanted[current[b]] /\ current[b] \notin Handed(c)
        /\ \A c \in wanted[current[b]] \cap (registered \ broken) :
              c \in Pending(b) \/ current[b] \in Handed(c)

BroadcastInv ==
    /\ TypeOK
    /\ BackendInv
    /\ OnlyTheWanted
    /\ CallersOrderKept
    /\ CompletedReachesAll
    /\ SendsBelongToCalls
    /\ CallInv
=============================================================================
