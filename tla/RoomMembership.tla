--------------------------- MODULE RoomMembership ---------------------------
(***************************************************************************)
(* What a backend promises to RoomManager: the set of registered           *)
(* connections and ONE relation between connections and rooms.  A backend  *)
(* that keeps the relation in two indexes has to make them move together.  *)
(***************************************************************************)
CONSTANTS Conn, Room

VARIABLES
    live,      \* registered connections
    member     \* the pairs <<connection, room>>

vars == <<live, member>>

Init == live = {} /\ member = {}

Register(c) == live' = live \cup {c} /\ UNCHANGED member

Unregister(c) ==
    /\ live' = live \ {c}
    /\ member' = {m \in member : m[1] # c}

Enter(c, r) == member' = member \cup {<<c, r>>} /\ UNCHANGED live

Exit(c, r) == member' = member \ {<<c, r>>} /\ UNCHANGED live

Clear == live' = {} /\ member' = {}

Next ==
    \/ \E c \in Conn : Register(c) \/ Unregister(c)
    \/ \E c \in Conn, r \in Room : Enter(c, r) \/ Exit(c, r)
    \/ Clear

Spec == Init /\ [][Next]_vars
=============================================================================
