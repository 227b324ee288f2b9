--------------------------- MODULE MemoryBackend ---------------------------
(***************************************************************************)
(* backends/memory.py: the connection store and the two room indexes,      *)
(* _rooms (room -> members) and _conn_rooms (connection -> rooms).         *)
(*                                                                         *)
(* Every method body runs under one asyncio.Lock and awaits nothing inside *)
(* it, so the lock is never contended on one event loop and a call is one  *)
(* atomic step.                                                            *)
(***************************************************************************)
EXTENDS PyDict

CONSTANTS
    Conn,      \* connection ids (uuid4 values)
    Room       \* room names

VARIABLES
    issued,        \* ids handed out so far: an id is never handed out twice
    connections,   \* keys of MemoryBackend._connections
    rooms,         \* MemoryBackend._rooms
    connRooms      \* MemoryBackend._conn_rooms

backendVars == <<issued, connections, rooms, connRooms>>

BackendInit ==
    /\ issued = {}
    /\ connections = {}
    /\ rooms = EmptyDict
    /\ connRooms = EmptyDict

-----------------------------------------------------------------------------
\* members.add(c) for one room, creating the entry.
AddMember(rs, c, r) == Put(rs, r, GetSet(rs, r) \cup {c})

\* Mutant: emptied rooms stay.
DropMemberKeepingRooms(rs, c, R) ==
    [r \in DOMAIN rs |-> IF r \in R THEN rs[r] \ {c} ELSE rs[r]]

\* members.discard(c) for the rooms R that exist, dropping those left empty.
DropMember(rs, c, R) ==
    LET kept == {r \in DOMAIN rs : r \in R => rs[r] \ {c} # {}}
    IN  [r \in kept |-> IF r \in R THEN rs[r] \ {c} ELSE rs[r]]

\* conn_rooms.discard(r) for r in R, if the connection has an entry.
ForgetRooms(crs, c, R) ==
    [d \in DOMAIN crs |-> IF d = c THEN crs[d] \ R ELSE crs[d]]

RoomMembers(r) == GetSet(rooms, r)
ConnectionRooms(c) == GetSet(connRooms, c)

-----------------------------------------------------------------------------
(* The operations.  The id of store_connection is fresh.                   *)
StoreConnection(c) ==
    /\ c \notin issued
    /\ issued' = issued \cup {c}
    /\ connections' = connections \cup {c}
    /\ connRooms' = Put(connRooms, c, {})
    /\ UNCHANGED rooms

\* Mutant: the connection's own set goes, the rooms keep their member.
RemoveConnectionOnly(c) ==
    /\ connections' = connections \ {c}
    /\ connRooms' = Pop(connRooms, c)
    /\ UNCHANGED <<issued, rooms>>

RemoveConnection(c) ==
    /\ connections' = connections \ {c}
    /\ connRooms' = Pop(connRooms, c)
    /\ rooms' = DropMember(rooms, c, ConnectionRooms(c))
    /\ UNCHANGED issued

\* The code does not ask whether c is still stored: setdefault creates the
\* entry of a connection that has already been removed.
AddToRoom(c, r) ==
    /\ rooms' = AddMember(rooms, c, r)
    /\ connRooms' = Put(connRooms, c, ConnectionRooms(c) \cup {r})
    /\ UNCHANGED <<issued, connections>>

\* One call for each room of R, with no suspension in between.
RemoveFromRooms(c, R) ==
    /\ rooms' = DropMember(rooms, c, R)
    /\ connRooms' = ForgetRooms(connRooms, c, R)
    /\ UNCHANGED <<issued, connections>>

RemoveFromRoom(c, r) == RemoveFromRooms(c, {r})

Close ==
    /\ connections' = {}
    /\ rooms' = EmptyDict
    /\ connRooms' = EmptyDict
    /\ UNCHANGED issued

BackendNext ==
    \/ \E c \in Conn : StoreConnection(c)
    \/ \E c \in issued : RemoveConnection(c)
    \/ \E c \in issued, r \in Room : AddToRoom(c, r) \/ RemoveFromRoom(c, r)
    \/ Close

BackendSpec == BackendInit /\ [][BackendNext]_backendVars

-----------------------------------------------------------------------------
BackendTypeOK ==
    /\ issued \subseteq Conn
    /\ connections \subseteq issued
    /\ IsDict(rooms, Room, SUBSET issued)
    /\ IsDict(connRooms, issued, SUBSET Room)

\* The two indexes are one relation read from either end: a connection is a
\* member of a room exactly when the room is in the connection's own set.
\* remove_connection walks the one to clean the other, so a disagreement is a
\* member that nobody will ever remove.
IndexesAgree ==
    \A c \in Conn, r \in Room : c \in RoomMembers(r) <=> r \in ConnectionRooms(c)

\* A room whose last member is gone has no entry: the code deletes the key in
\* both removal paths, so _rooms does not grow with rooms once used.
NoEmptyRooms == \A r \in DOMAIN rooms : rooms[r] # {}

\* Every stored connection has its own room set.
StoredHasRooms == connections \subseteq DOMAIN connRooms

BackendInv == BackendTypeOK /\ IndexesAgree /\ NoEmptyRooms /\ StoredHasRooms

\* The backend implements the relation of RoomMembership, read from the
\* per-room index that broadcasts use.
MemberPairs == {m \in Conn \X Room : m[1] \in RoomMembers(m[2])}

Abstract == INSTANCE RoomMembership WITH live <- connections, member <- MemberPairs

ImplementsMembership == Abstract!Spec
=============================================================================
