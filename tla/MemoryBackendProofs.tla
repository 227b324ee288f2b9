------------------------ MODULE MemoryBackendProofs ------------------------
(***************************************************************************)
(* For any set of connections and of rooms: the two room indexes of        *)
(* MemoryBackend stay inverse to each other, no empty room is kept, and    *)
(* the backend implements the one relation of RoomMembership.              *)
(***************************************************************************)
EXTENDS MemoryBackend, TLAPS

(* What the dict operations do to the two lookups.                         *)
LEMMA PutLookup ==
    ASSUME NEW d, NEW k, NEW v, NEW x
    PROVE  GetSet(Put(d, k, v), x) = IF x = k THEN v ELSE GetSet(d, x)
BY DEF Put, GetSet

LEMMA PopLookup ==
    ASSUME NEW d, NEW k, NEW x
    PROVE  /\ DOMAIN Pop(d, k) = DOMAIN d \ {k}
           /\ GetSet(Pop(d, k), x) = IF x = k THEN {} ELSE GetSet(d, x)
BY DEF Pop, Restrict, GetSet

LEMMA AddMemberLookup ==
    ASSUME NEW rs, NEW c, NEW r, NEW x
    PROVE  GetSet(AddMember(rs, c, r), x) =
               IF x = r THEN GetSet(rs, r) \cup {c} ELSE GetSet(rs, x)
BY PutLookup DEF AddMember

\* Dropping the emptied rooms is invisible to a lookup.
LEMMA DropMemberLookup ==
    ASSUME NEW rs, NEW c, NEW R, NEW x
    PROVE  GetSet(DropMember(rs, c, R), x) =
               IF x \in R THEN GetSet(rs, x) \ {c} ELSE GetSet(rs, x)
BY DEF DropMember, GetSet

LEMMA ForgetRoomsLookup ==
    ASSUME NEW crs, NEW c, NEW R, NEW x
    PROVE  /\ DOMAIN ForgetRooms(crs, c, R) = DOMAIN crs
           /\ GetSet(ForgetRooms(crs, c, R), x) =
                  IF x = c THEN GetSet(crs, x) \ R ELSE GetSet(crs, x)
BY DEF ForgetRooms, GetSet

(* The dict shapes the operations build.                                   *)
LEMMA PutIsDict ==
    ASSUME NEW K, NEW V, NEW d, NEW k \in K, NEW v \in V, IsDict(d, K, V)
    PROVE  IsDict(Put(d, k, v), K, V)
BY DEF IsDict, Put

LEMMA PopIsDict ==
    ASSUME NEW K, NEW V, NEW d, NEW k, IsDict(d, K, V)
    PROVE  IsDict(Pop(d, k), K, V)
BY DEF IsDict, Pop, Restrict

LEMMA DropMemberIsDict ==
    ASSUME NEW K, NEW V, NEW d, NEW c, NEW R, IsDict(d, K, SUBSET V)
    PROVE  IsDict(DropMember(d, c, R), K, SUBSET V)
BY DEF IsDict, DropMember

LEMMA ForgetRoomsIsDict ==
    ASSUME NEW K, NEW V, NEW d, NEW c, NEW R, IsDict(d, K, SUBSET V)
    PROVE  IsDict(ForgetRooms(d, c, R), K, SUBSET V)
BY DEF IsDict, ForgetRooms

LEMMA IsDictMono ==
    ASSUME NEW K, NEW L, NEW V, NEW W, NEW d,
           IsDict(d, K, V), K \subseteq L, V \subseteq W
    PROVE  IsDict(d, L, W)
BY DEF IsDict

LEMMA GetSetIn ==
    ASSUME NEW K, NEW V, NEW d, NEW k, IsDict(d, K, SUBSET V)
    PROVE  GetSet(d, k) \subseteq V
BY DEF IsDict, GetSet

(* What the operations do to the rooms of every connection.               *)
LEMMA RemovedRooms ==
    ASSUME NEW c, RemoveConnection(c), NEW d
    PROVE  ConnectionRooms(d)' = IF d = c THEN {} ELSE ConnectionRooms(d)
BY PopLookup DEF RemoveConnection, ConnectionRooms

LEMMA AddedRooms ==
    ASSUME NEW c, NEW r, AddToRoom(c, r), NEW d
    PROVE  ConnectionRooms(d)' =
               IF d = c THEN ConnectionRooms(c) \cup {r} ELSE ConnectionRooms(d)
BY PutLookup DEF AddToRoom, ConnectionRooms

LEMMA LeftRooms ==
    ASSUME NEW c, NEW R, RemoveFromRooms(c, R), NEW d
    PROVE  ConnectionRooms(d)' =
               IF d = c THEN ConnectionRooms(d) \ R ELSE ConnectionRooms(d)
BY ForgetRoomsLookup DEF RemoveFromRooms, ConnectionRooms

-----------------------------------------------------------------------------
LEMMA BackendInitInv == BackendInit => BackendInv
BY DEF BackendInit, BackendInv, BackendTypeOK, IndexesAgree, NoEmptyRooms,
       StoredHasRooms, RoomMembers, ConnectionRooms, GetSet, EmptyDict, IsDict

LEMMA StoreKeeps ==
    ASSUME BackendInv, NEW c \in Conn, StoreConnection(c)
    PROVE  BackendInv'
<1>1. BackendTypeOK'
  <2>1. issued' \subseteq Conn /\ connections' \subseteq issued'
    BY DEF BackendInv, BackendTypeOK, StoreConnection
  <2>2. IsDict(rooms', Room, SUBSET issued')
    BY IsDictMono DEF BackendInv, BackendTypeOK, StoreConnection
  <2>3. IsDict(connRooms, issued', SUBSET Room)
    BY IsDictMono DEF BackendInv, BackendTypeOK, StoreConnection
  <2>4. IsDict(connRooms', issued', SUBSET Room)
    BY <2>3, PutIsDict DEF StoreConnection
  <2> QED BY <2>1, <2>2, <2>4 DEF BackendTypeOK
<1>2. IndexesAgree'
  \* a fresh id is in no room and owns none
  <2>1. \A r : c \notin RoomMembers(r)
    BY GetSetIn DEF BackendInv, BackendTypeOK, StoreConnection, RoomMembers
  <2>2. \A d : ConnectionRooms(d)' = IF d = c THEN {} ELSE ConnectionRooms(d)
    BY PutLookup DEF StoreConnection, ConnectionRooms
  <2> QED BY <2>1, <2>2 DEF BackendInv, IndexesAgree, StoreConnection, RoomMembers
<1>3. NoEmptyRooms' BY DEF BackendInv, NoEmptyRooms, StoreConnection
<1>4. StoredHasRooms' BY DEF BackendInv, StoredHasRooms, StoreConnection, Put
<1> QED BY <1>1, <1>2, <1>3, <1>4 DEF BackendInv

LEMMA RemoveKeeps ==
    ASSUME BackendInv, NEW c \in issued, RemoveConnection(c)
    PROVE  BackendInv'
<1>1. BackendTypeOK'
  <2>1. IsDict(rooms', Room, SUBSET issued')
    BY DropMemberIsDict DEF BackendInv, BackendTypeOK, RemoveConnection
  <2>2. IsDict(connRooms', issued', SUBSET Room)
    BY PopIsDict DEF BackendInv, BackendTypeOK, RemoveConnection
  <2> QED BY <2>1, <2>2 DEF BackendInv, BackendTypeOK, RemoveConnection
<1>2. IndexesAgree'
  <2>1. \A d : ConnectionRooms(d)' = IF d = c THEN {} ELSE ConnectionRooms(d)
    BY RemovedRooms
  <2>2. \A r : RoomMembers(r)' = IF r \in ConnectionRooms(c)
                                 THEN RoomMembers(r) \ {c} ELSE RoomMembers(r)
    BY DropMemberLookup DEF RemoveConnection, RoomMembers
  <2> QED BY <2>1, <2>2 DEF BackendInv, BackendTypeOK, IndexesAgree
<1>3. NoEmptyRooms'
  BY DEF BackendInv, NoEmptyRooms, RemoveConnection, DropMember
<1>4. StoredHasRooms'
  BY PopLookup DEF BackendInv, StoredHasRooms, RemoveConnection
<1> QED BY <1>1, <1>2, <1>3, <1>4 DEF BackendInv

LEMMA AddKeeps ==
    ASSUME BackendInv, NEW c \in issued, NEW r \in Room, AddToRoom(c, r)
    PROVE  BackendInv'
<1>1. BackendTypeOK'
  <2>1. GetSet(rooms, r) \cup {c} \in SUBSET issued
    BY GetSetIn DEF BackendInv, BackendTypeOK
  <2>2. IsDict(rooms', Room, SUBSET issued)
    BY <2>1, PutIsDict DEF BackendInv, BackendTypeOK, AddToRoom, AddMember
  <2>3. ConnectionRooms(c) \cup {r} \in SUBSET Room
    BY GetSetIn DEF BackendInv, BackendTypeOK, ConnectionRooms
  <2>4. IsDict(connRooms', issued, SUBSET Room)
    BY <2>3, PutIsDict DEF BackendInv, BackendTypeOK, AddToRoom
  <2> QED BY <2>2, <2>4 DEF BackendInv, BackendTypeOK, AddToRoom
<1>2. IndexesAgree'
  <2>1. \A d : ConnectionRooms(d)' =
                 IF d = c THEN ConnectionRooms(c) \cup {r} ELSE ConnectionRooms(d)
    BY AddedRooms
  <2>2. \A s : RoomMembers(s)' =
                 IF s = r THEN RoomMembers(r) \cup {c} ELSE RoomMembers(s)
    BY AddMemberLookup DEF AddToRoom, RoomMembers
  <2> QED BY <2>1, <2>2 DEF BackendInv, IndexesAgree
<1>3. NoEmptyRooms'
  BY DEF BackendInv, NoEmptyRooms, AddToRoom, AddMember, Put
<1>4. StoredHasRooms' BY DEF BackendInv, StoredHasRooms, AddToRoom, Put
<1> QED BY <1>1, <1>2, <1>3, <1>4 DEF BackendInv

LEMMA LeaveKeeps ==
    ASSUME BackendInv, NEW c \in issued, NEW R, RemoveFromRooms(c, R)
    PROVE  BackendInv'
<1>1. BackendTypeOK'
  <2>1. IsDict(rooms', Room, SUBSET issued')
    BY DropMemberIsDict DEF BackendInv, BackendTypeOK, RemoveFromRooms
  <2>2. IsDict(connRooms', issued', SUBSET Room)
    BY ForgetRoomsIsDict DEF BackendInv, BackendTypeOK, RemoveFromRooms
  <2> QED BY <2>1, <2>2 DEF BackendInv, BackendTypeOK, RemoveFromRooms
<1>2. IndexesAgree'
  <2>1. \A d : ConnectionRooms(d)' =
                 IF d = c THEN ConnectionRooms(d) \ R ELSE ConnectionRooms(d)
    BY LeftRooms
  <2>2. \A s : RoomMembers(s)' =
                 IF s \in R THEN RoomMembers(s) \ {c} ELSE RoomMembers(s)
    BY DropMemberLookup DEF RemoveFromRooms, RoomMembers
  <2> QED BY <2>1, <2>2 DEF BackendInv, IndexesAgree
<1>3. NoEmptyRooms'
  BY DEF BackendInv, NoEmptyRooms, RemoveFromRooms, DropMember
<1>4. StoredHasRooms'
  BY ForgetRoomsLookup DEF BackendInv, StoredHasRooms, RemoveFromRooms
<1> QED BY <1>1, <1>2, <1>3, <1>4 DEF BackendInv

LEMMA CloseKeeps ==
    ASSUME BackendInv, Close
    PROVE  BackendInv'
BY DEF Close, BackendInv, BackendTypeOK, IndexesAgree, NoEmptyRooms,
       StoredHasRooms, RoomMembers, ConnectionRooms, GetSet, EmptyDict, IsDict

LEMMA BackendStepInv == BackendInv /\ [BackendNext]_backendVars => BackendInv'
<1> SUFFICES ASSUME BackendInv, [BackendNext]_backendVars PROVE BackendInv'
  OBVIOUS
<1>1. ASSUME NEW c \in Conn, StoreConnection(c) PROVE BackendInv'
  BY <1>1, StoreKeeps
<1>2. ASSUME NEW c \in issued, RemoveConnection(c) PROVE BackendInv'
  BY <1>2, RemoveKeeps
<1>3. ASSUME NEW c \in issued, NEW r \in Room, AddToRoom(c, r) PROVE BackendInv'
  BY <1>3, AddKeeps
<1>4. ASSUME NEW c \in issued, NEW r \in Room, RemoveFromRoom(c, r) PROVE BackendInv'
  BY <1>4, LeaveKeeps DEF RemoveFromRoom
<1>5. CASE Close BY <1>5, CloseKeeps
<1>6. CASE UNCHANGED backendVars
  BY <1>6 DEF backendVars, BackendInv, BackendTypeOK, IndexesAgree, NoEmptyRooms,
              StoredHasRooms, RoomMembers, ConnectionRooms
<1> QED BY <1>1, <1>2, <1>3, <1>4, <1>5, <1>6 DEF BackendNext

\* Every reachable state of the backend satisfies its invariant.
THEOREM BackendInvariant == BackendSpec => []BackendInv
BY BackendInitInv, BackendStepInv, PTL DEF BackendSpec

\* The state of the backend stays well-formed: only issued ids are stored or
\* listed, in dicts of the declared shape.
THEOREM BackendTypeCorrect == BackendSpec => []BackendTypeOK
<1>1. BackendInv => BackendTypeOK BY DEF BackendInv
<1> QED BY <1>1, BackendInvariant, PTL

\* _rooms and _conn_rooms are inverse to each other, whatever the order of calls.
THEOREM IndexesAlwaysAgree == BackendSpec => []IndexesAgree
<1>1. BackendInv => IndexesAgree BY DEF BackendInv
<1> QED BY <1>1, BackendInvariant, PTL

\* No emptied room keeps its key in _rooms.
THEOREM RoomsNeverEmpty == BackendSpec => []NoEmptyRooms
<1>1. BackendInv => NoEmptyRooms BY DEF BackendInv
<1> QED BY <1>1, BackendInvariant, PTL

-----------------------------------------------------------------------------
(* Refinement.                                                             *)
LEMMA BackendInitMaps == BackendInit => Abstract!Init
BY DEF BackendInit, Abstract!Init, MemberPairs, RoomMembers, GetSet, EmptyDict

LEMMA BackendStepMaps ==
    ASSUME BackendInv, [BackendNext]_backendVars
    PROVE  [Abstract!Next]_(Abstract!vars)
<1> USE DEF MemberPairs
<1>1. ASSUME NEW c \in Conn, StoreConnection(c) PROVE Abstract!Register(c)
  BY <1>1 DEF StoreConnection, Abstract!Register, RoomMembers
<1>2. ASSUME NEW c \in issued, RemoveConnection(c) PROVE Abstract!Unregister(c)
  \* every membership of c is found through its own room set
  <2>1. \A r : RoomMembers(r)' = IF r \in ConnectionRooms(c)
                                 THEN RoomMembers(r) \ {c} ELSE RoomMembers(r)
    BY <1>2, DropMemberLookup DEF RemoveConnection, RoomMembers
  <2>2. \A r \in Room : c \in RoomMembers(r) => r \in ConnectionRooms(c)
    BY DEF BackendInv, BackendTypeOK, IndexesAgree
  <2>3. MemberPairs' = {m \in MemberPairs : m[1] # c}
    BY <2>1, <2>2
  <2> QED BY <1>2, <2>3 DEF RemoveConnection, Abstract!Unregister
<1>3. ASSUME NEW c \in issued, NEW r \in Room, AddToRoom(c, r)
      PROVE  Abstract!Enter(c, r)
  <2>1. \A s : RoomMembers(s)' =
                 IF s = r THEN RoomMembers(r) \cup {c} ELSE RoomMembers(s)
    BY <1>3, AddMemberLookup DEF AddToRoom, RoomMembers
  <2>2. c \in Conn BY DEF BackendInv, BackendTypeOK
  <2>3. MemberPairs' = MemberPairs \cup {<<c, r>>} BY <2>1, <2>2
  <2> QED BY <1>3, <2>3 DEF AddToRoom, Abstract!Enter
<1>4. ASSUME NEW c \in issued, NEW r \in Room, RemoveFromRoom(c, r)
      PROVE  Abstract!Exit(c, r)
  <2>1. \A s : RoomMembers(s)' =
                 IF s \in {r} THEN RoomMembers(s) \ {c} ELSE RoomMembers(s)
    BY <1>4, DropMemberLookup DEF RemoveFromRoom, RemoveFromRooms, RoomMembers
  <2>2. MemberPairs' = MemberPairs \ {<<c, r>>} BY <2>1
  <2> QED BY <1>4, <2>2 DEF RemoveFromRoom, RemoveFromRooms, Abstract!Exit
<1>5. CASE Close
  BY <1>5 DEF Close, Abstract!Next, Abstract!Clear, RoomMembers, GetSet, EmptyDict
<1>6. CASE UNCHANGED backendVars
  BY <1>6 DEF backendVars, Abstract!vars, RoomMembers
<1>7. issued \subseteq Conn BY DEF BackendInv, BackendTypeOK
<1> QED
  BY <1>1, <1>2, <1>3, <1>4, <1>5, <1>6, <1>7 DEF BackendNext, Abstract!Next

\* The two indexes together are one membership relation: every call of the
\* backend is the one step on the relation that RoomManager relies on.
THEOREM BackendRefines == BackendSpec => ImplementsMembership
BY BackendInvariant, BackendInitMaps, BackendStepMaps, PTL
   DEF BackendSpec, ImplementsMembership, Abstract!Spec
=============================================================================
