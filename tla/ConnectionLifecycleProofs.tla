---------------------- MODULE ConnectionLifecycleProofs ----------------------
(***************************************************************************)
(* For any connections, rooms, guards and handler tasks, and for a         *)
(* wait_for that may or may not swallow cancellations: LifecycleInv is an  *)
(* inductive invariant of ConnectionLifecycle.  From it follow that the    *)
(* state stays well-formed, that rooms are consistent, that nothing is     *)
(* left of a connection whose tasks have ended, and that deregistering a   *)
(* connection takes it out of every room.                                  *)
(*                                                                         *)
(* Lemmas name a task as the pair <<k, x>> of its connection and its role. *)
(***************************************************************************)
EXTENDS ConnectionLifecycle, MemoryBackendProofs

USE RoleAssumption, RoomAssumption
    DEF Task, Role, Adapter, Session, HandlerTasks, At, Goto

LEMMA TaskPair ==
    ASSUME NEW t \in Task
    PROVE  \E k \in Conn, x \in Role : t = <<k, x>>
<1>1. t[1] \in Conn /\ t[2] \in Role /\ t = <<t[1], t[2]>> OBVIOUS
<1> QED BY <1>1

LEMMA LifecycleInit == Init => LifecycleInv
<1> SUFFICES ASSUME Init PROVE LifecycleInv
  OBVIOUS
<1>1. BackendInv BY BackendInitInv DEF Init
<1>2. LifeTypeOK
  BY DEF Init, LifeTypeOK, BackendInit, IsDict, EmptyDict, Label, HookCap
<1>3. /\ ManagerMatchesBackend /\ RoomsAgreeWhileRegistered /\ StartedIsIssued
      /\ HooksHaveRun
  BY DEF Init, BackendInit, ManagerMatchesBackend, RoomsAgreeWhileRegistered,
         StartedIsIssued, HooksHaveRun
<1>4. ASSUME NEW c \in Conn
      PROVE  AdapterReleases(c) /\ SessionReleases(c) /\ UnservedIsReaped(c)
  BY DEF Init, AdapterReleases, SessionReleases, UnservedIsReaped, EmptyDict, Running
<1> QED BY <1>1, <1>2, <1>3, <1>4 DEF LifecycleInv

LEMMA StoreFrame ==
    ASSUME LifecycleInv, UNCHANGED <<backendVars, registered, joined>>
    PROVE  BackendInv' /\ ManagerMatchesBackend' /\ RoomsAgreeWhileRegistered'
<1>1. BackendInv'
  BY DEF LifecycleInv, backendVars, BackendInv, BackendTypeOK, IndexesAgree,
         NoEmptyRooms, StoredHasRooms, RoomMembers, ConnectionRooms
<1> QED BY <1>1 DEF LifecycleInv, ManagerMatchesBackend, RoomsAgreeWhileRegistered,
                    backendVars, ConnectionRooms

LEMMA MarkPongKeeps ==
    ASSUME LifecycleInv, NEW c, NEW seen \in BOOLEAN, MarkPong(c, seen)
    PROVE  /\ IsDict(pongEvent', issued, BOOLEAN)
           /\ DOMAIN pongEvent' = DOMAIN pongEvent
<1>1. CASE c \notin DOMAIN pongEvent
  BY <1>1 DEF MarkPong, LifecycleInv, LifeTypeOK
<1>2. CASE c \in DOMAIN pongEvent
  BY <1>2 DEF MarkPong, Put, LifecycleInv, LifeTypeOK, IsDict
<1> QED BY <1>1, <1>2

LEMMA DiscardIsDict ==
    ASSUME LifecycleInv, NEW t, Discard(t)
    PROVE  /\ IsDict(inflight', issued, SUBSET Handler)
           /\ DOMAIN inflight' = DOMAIN inflight
BY DEF LifecycleInv, LifeTypeOK, Discard, IsDict


-----------------------------------------------------------------------------
(* Steps that only move one task.                                          *)
UserLabel == {"user", "guard", "join_hook"}

LEMMA MoveKeeps ==
    ASSUME LifecycleInv, NEW k \in Conn, NEW x \in Role, NEW from, NEW to,
           At(<<k, x>>, from), Goto(<<k, x>>, to),
           \/ /\ x # "session"
              /\ from \in UserLabel /\ to \in UserLabel \cup {"close"}
           \/ /\ x = "session"
              /\ from \in Running /\ to \in Running \cup {"close"},
           target' \in [Task -> Room \cup {NoRoom}],
           UNCHANGED <<backendVars, registered, sock, joined, serving, sessionTask,
                       pongEvent, bucket, inflight, snap, cancel, hookRuns>>
    PROVE  LifecycleInv'
<1>1. BackendInv' /\ ManagerMatchesBackend' /\ RoomsAgreeWhileRegistered'
  BY StoreFrame
<1>2. /\ \A y \in Task \ {<<k, x>>} : pc'[y] = pc[y]
      /\ pc'[<<k, x>>] = to /\ pc[<<k, x>>] = from
      /\ pc' \in [Task -> Label]
  BY DEF LifecycleInv, LifeTypeOK, Label, Teardown, UserLabel, Running
<1>3. LifeTypeOK' /\ StartedIsIssued'
  BY <1>2 DEF LifecycleInv, LifeTypeOK, StartedIsIssued, UserLabel, Running, backendVars
<1>4. ASSUME NEW c \in Conn
      PROVE  AdapterReleases(c)' /\ SessionReleases(c)' /\ UnservedIsReaped(c)'
  <2>1. AdapterReleases(c)'
    BY <1>2 DEF LifecycleInv, AdapterReleases, ServingLabel, UserLabel, Running
  <2>2. SessionReleases(c)'
    <3>1. \A r \in Role : pc'[<<c, r>>] = "stop" <=> pc[<<c, r>>] = "stop"
      BY <1>2 DEF UserLabel, Running
    <3> QED BY <1>2, <3>1 DEF LifecycleInv, SessionReleases, UserLabel, Running
  <2>3. UnservedIsReaped(c)'
    BY <1>2 DEF LifecycleInv, UnservedIsReaped, UserLabel, Running
  <2> QED BY <2>1, <2>2, <2>3
<1>5. HooksHaveRun' BY DEF LifecycleInv, HooksHaveRun, backendVars
<1> QED BY <1>1, <1>3, <1>4, <1>5 DEF LifecycleInv

\* The steps inside user code that touch no room.
LEMMA UserMoveKeeps ==
    ASSUME LifecycleInv, NEW k \in Conn, NEW x \in Role \ {"session"},
           \/ Disconnect(<<k, x>>)
           \/ \E r \in Room : RequestJoin(<<k, x>>, r)
           \/ GuardRejects(<<k, x>>)
           \/ JoinHooksReturn(<<k, x>>)
    PROVE  LifecycleInv'
<1>1. CASE Disconnect(<<k, x>>)
  BY <1>1, MoveKeeps DEF Disconnect, UserLabel, LifecycleInv, LifeTypeOK
<1>2. ASSUME NEW r \in Room, RequestJoin(<<k, x>>, r) PROVE LifecycleInv'
  BY <1>2, MoveKeeps DEF RequestJoin, UserLabel, LifecycleInv, LifeTypeOK
<1>3. CASE GuardRejects(<<k, x>>)
  BY <1>3, MoveKeeps DEF GuardRejects, UserLabel, LifecycleInv, LifeTypeOK
<1>4. CASE JoinHooksReturn(<<k, x>>)
  BY <1>4, MoveKeeps DEF JoinHooksReturn, UserLabel, LifecycleInv, LifeTypeOK
<1> QED BY <1>1, <1>2, <1>3, <1>4

LEMMA SessionMoveKeeps ==
    ASSUME LifecycleInv, NEW c \in Conn,
           \/ LimitPassed(c) \/ WarningSent(c) \/ TokenExpires(c)
           \/ PingSent(c) \/ PongSeen(c) \/ HeartbeatTimeout(c)
    PROVE  LifecycleInv'
<1>1. ASSUME NEW from \in Running, NEW to \in Running \cup {"close"},
             SessionMoves(c, from, to)
      PROVE  LifecycleInv'
  BY <1>1, MoveKeeps DEF SessionMoves, LifecycleInv, LifeTypeOK
<1> QED BY <1>1 DEF LimitPassed, WarningSent, TokenExpires, PingSent, PongSeen,
                    HeartbeatTimeout, Running


-----------------------------------------------------------------------------
(* Connecting and the receive loop.                                        *)
LEMMA RefuseKeeps ==
    ASSUME LifecycleInv, NEW c \in Conn, Refuse(c)
    PROVE  LifecycleInv'
<1>1. BackendInv' /\ ManagerMatchesBackend' /\ RoomsAgreeWhileRegistered'
  BY StoreFrame DEF Refuse
<1>2. LifeTypeOK'
  BY DEF LifecycleInv, LifeTypeOK, StartedIsIssued, Refuse, backendVars, Label
<1>3. StartedIsIssued'
  BY DEF LifecycleInv, LifeTypeOK, StartedIsIssued, Refuse, backendVars
<1>4. ASSUME NEW d \in Conn
      PROVE  AdapterReleases(d)' /\ SessionReleases(d)' /\ UnservedIsReaped(d)'
  <2>1. AdapterReleases(d)'
    BY DEF LifecycleInv, LifeTypeOK, AdapterReleases, Refuse, ServingLabel
  <2>2. SessionReleases(d)'
    BY DEF LifecycleInv, LifeTypeOK, SessionReleases, Refuse, Running
  <2>3. UnservedIsReaped(d)'
    BY DEF LifecycleInv, LifeTypeOK, AdapterReleases, UnservedIsReaped, Refuse
  <2> QED BY <2>1, <2>2, <2>3
<1>5. HooksHaveRun' BY DEF LifecycleInv, HooksHaveRun, Refuse, backendVars
<1> QED BY <1>1, <1>2, <1>3, <1>4, <1>5 DEF LifecycleInv

LEMMA HandleConnectKeeps ==
    ASSUME LifecycleInv, NEW c \in Conn, HandleConnect(c)
    PROVE  LifecycleInv'
<1>0. StoreConnection(c) /\ c \notin issued
  BY DEF HandleConnect, StoreConnection
<1>1. BackendInv' BY <1>0, StoreKeeps DEF LifecycleInv
<1>2. \A d : ConnectionRooms(d)' = IF d = c THEN {} ELSE ConnectionRooms(d)
  BY <1>0, PutLookup DEF StoreConnection, ConnectionRooms
<1>3. ManagerMatchesBackend' /\ RoomsAgreeWhileRegistered' /\ HooksHaveRun'
  BY <1>0, <1>2 DEF LifecycleInv, ManagerMatchesBackend, RoomsAgreeWhileRegistered,
     StartedIsIssued, HooksHaveRun, HandleConnect, StoreConnection
<1>4. LifeTypeOK'
  <2>1. issued' = issued \cup {c} BY <1>0 DEF StoreConnection
  <2>2. IsDict(pongEvent', issued', BOOLEAN)
    BY <2>1 DEF LifecycleInv, LifeTypeOK, HandleConnect, IsDict, Put
  <2>3. IsDict(inflight', issued', SUBSET Handler)
    BY <2>1 DEF LifecycleInv, LifeTypeOK, HandleConnect, IsDict
  <2>4. pc' \in [Task -> Label]
    BY DEF LifecycleInv, LifeTypeOK, HandleConnect, Label
  <2> QED BY <2>1, <2>2, <2>3, <2>4 DEF LifecycleInv, LifeTypeOK, HandleConnect
<1>5. StartedIsIssued'
  BY <1>0 DEF LifecycleInv, LifeTypeOK, StartedIsIssued, HandleConnect, StoreConnection
<1>6. /\ \A y \in Task \ {Adapter(c), Session(c)} : pc'[y] = pc[y]
      /\ pc'[Adapter(c)] = "user" /\ pc'[Session(c)] = "sleep"
      /\ DOMAIN pongEvent' = DOMAIN pongEvent \cup {c}
  BY DEF LifecycleInv, LifeTypeOK, HandleConnect, Put
<1>7. /\ c \notin serving \cup bucket \cup DOMAIN inflight \cup registered
      /\ \A y \in Task : y[1] = c => pc[y] \in {"none", "start", "done"}
  BY <1>0 DEF LifecycleInv, LifeTypeOK, StartedIsIssued, IsDict
<1>8. ASSUME NEW d \in Conn
      PROVE  AdapterReleases(d)' /\ SessionReleases(d)' /\ UnservedIsReaped(d)'
  <2>1. AdapterReleases(d)'
    BY <1>6, <1>7 DEF LifecycleInv, AdapterReleases, ServingLabel, HandleConnect
  <2>2. SessionReleases(d)'
    <3>1. CASE d = c
      <4>1. \A r \in Role : pc'[<<c, r>>] # "stop" BY <1>6, <1>7
      <4>2. Session(c) \notin cancel
        BY <1>0 DEF LifecycleInv, StartedIsIssued
      <4> QED BY <1>6, <3>1, <4>1, <4>2 DEF SessionReleases, Running, HandleConnect
    <3>2. CASE d # c
      BY <1>6, <3>2 DEF LifecycleInv, SessionReleases, Running, HandleConnect
    <3> QED BY <3>1, <3>2
  <2>3. UnservedIsReaped(d)'
    BY <1>6, <1>7 DEF LifecycleInv, UnservedIsReaped, HandleConnect
  <2> QED BY <2>1, <2>2, <2>3
<1> QED BY <1>1, <1>3, <1>4, <1>5, <1>8 DEF LifecycleInv

LEMMA ConnectHooksReturnKeeps ==
    ASSUME LifecycleInv, NEW c \in Conn, ConnectHooksReturn(c)
    PROVE  LifecycleInv'
<1>1. BackendInv' /\ ManagerMatchesBackend' /\ RoomsAgreeWhileRegistered'
  BY StoreFrame DEF ConnectHooksReturn
<1>2. LifeTypeOK'
  BY DEF LifecycleInv, LifeTypeOK, StartedIsIssued, ConnectHooksReturn,
         backendVars, Label
<1>3. StartedIsIssued'
  BY DEF LifecycleInv, LifeTypeOK, StartedIsIssued, ConnectHooksReturn,
         backendVars
<1>4. ASSUME NEW d \in Conn
      PROVE  AdapterReleases(d)' /\ SessionReleases(d)' /\ UnservedIsReaped(d)'
  <2>1. AdapterReleases(d)'
    BY DEF LifecycleInv, LifeTypeOK, AdapterReleases, ConnectHooksReturn,
         ServingLabel
  <2>2. SessionReleases(d)'
    BY DEF LifecycleInv, LifeTypeOK, SessionReleases, ConnectHooksReturn, Running
  <2>3. UnservedIsReaped(d)'
    BY DEF LifecycleInv, LifeTypeOK, AdapterReleases, UnservedIsReaped,
         ConnectHooksReturn
  <2> QED BY <2>1, <2>2, <2>3
<1>5. HooksHaveRun' BY DEF LifecycleInv, HooksHaveRun, ConnectHooksReturn, backendVars
<1> QED BY <1>1, <1>2, <1>3, <1>4, <1>5 DEF LifecycleInv

LEMMA ConnectHookRaisesKeeps ==
    ASSUME LifecycleInv, NEW c \in Conn, ConnectHookRaises(c)
    PROVE  LifecycleInv'
<1>1. BackendInv' /\ ManagerMatchesBackend' /\ RoomsAgreeWhileRegistered'
  BY StoreFrame DEF ConnectHookRaises
<1>2. LifeTypeOK'
  BY DEF LifecycleInv, LifeTypeOK, StartedIsIssued, ConnectHookRaises,
         backendVars, Label
<1>3. StartedIsIssued'
  BY DEF LifecycleInv, LifeTypeOK, StartedIsIssued, ConnectHookRaises,
         backendVars
<1>4. ASSUME NEW d \in Conn
      PROVE  AdapterReleases(d)' /\ SessionReleases(d)' /\ UnservedIsReaped(d)'
  <2>1. AdapterReleases(d)'
    BY DEF LifecycleInv, LifeTypeOK, AdapterReleases, ConnectHookRaises,
         ServingLabel
  <2>2. SessionReleases(d)'
    BY DEF LifecycleInv, LifeTypeOK, SessionReleases, ConnectHookRaises, Running
  <2>3. UnservedIsReaped(d)'
    BY DEF LifecycleInv, LifeTypeOK, AdapterReleases, UnservedIsReaped,
         ConnectHookRaises
  <2> QED BY <2>1, <2>2, <2>3
<1>5. HooksHaveRun' BY DEF LifecycleInv, HooksHaveRun, ConnectHookRaises, backendVars
<1> QED BY <1>1, <1>2, <1>3, <1>4, <1>5 DEF LifecycleInv

LEMMA ClientClosesKeeps ==
    ASSUME LifecycleInv, NEW c \in Conn, ClientCloses(c)
    PROVE  LifecycleInv'
<1>1. BackendInv' /\ ManagerMatchesBackend' /\ RoomsAgreeWhileRegistered'
  BY StoreFrame DEF ClientCloses
<1>2. LifeTypeOK'
  BY DEF LifecycleInv, LifeTypeOK, StartedIsIssued, ClientCloses, backendVars,
         Label
<1>3. StartedIsIssued'
  BY DEF LifecycleInv, LifeTypeOK, StartedIsIssued, ClientCloses, backendVars
<1>4. ASSUME NEW d \in Conn
      PROVE  AdapterReleases(d)' /\ SessionReleases(d)' /\ UnservedIsReaped(d)'
  <2>1. AdapterReleases(d)'
    BY DEF LifecycleInv, LifeTypeOK, AdapterReleases, ClientCloses, ServingLabel
  <2>2. SessionReleases(d)'
    BY DEF LifecycleInv, LifeTypeOK, SessionReleases, ClientCloses, Running
  <2>3. UnservedIsReaped(d)'
    BY DEF LifecycleInv, LifeTypeOK, AdapterReleases, UnservedIsReaped,
         ClientCloses
  <2> QED BY <2>1, <2>2, <2>3
<1>5. HooksHaveRun' BY DEF LifecycleInv, HooksHaveRun, ClientCloses, backendVars
<1> QED BY <1>1, <1>2, <1>3, <1>4, <1>5 DEF LifecycleInv

LEMMA ReceivePongKeeps ==
    ASSUME LifecycleInv, NEW c \in Conn, ReceivePong(c)
    PROVE  LifecycleInv'
<1>1. BackendInv' /\ ManagerMatchesBackend' /\ RoomsAgreeWhileRegistered'
  BY StoreFrame DEF ReceivePong
<1>m. IsDict(pongEvent', issued, BOOLEAN) /\ DOMAIN pongEvent' = DOMAIN pongEvent
  BY MarkPongKeeps DEF ReceivePong
<1>2. LifeTypeOK'
  BY <1>m DEF LifecycleInv, LifeTypeOK, StartedIsIssued, ReceivePong, backendVars, Label
<1>3. StartedIsIssued'
  BY DEF LifecycleInv, LifeTypeOK, StartedIsIssued, ReceivePong, backendVars
<1>4. ASSUME NEW d \in Conn
      PROVE  AdapterReleases(d)' /\ SessionReleases(d)' /\ UnservedIsReaped(d)'
  <2>1. AdapterReleases(d)'
    BY DEF LifecycleInv, LifeTypeOK, AdapterReleases, ReceivePong, ServingLabel
  <2>2. SessionReleases(d)'
    BY <1>m DEF LifecycleInv, LifeTypeOK, SessionReleases, ReceivePong, Running
  <2>3. UnservedIsReaped(d)'
    BY DEF LifecycleInv, LifeTypeOK, AdapterReleases, UnservedIsReaped,
         ReceivePong
  <2> QED BY <2>1, <2>2, <2>3
<1>5. HooksHaveRun' BY DEF LifecycleInv, HooksHaveRun, ReceivePong, backendVars
<1> QED BY <1>1, <1>2, <1>3, <1>4, <1>5 DEF LifecycleInv

LEMMA ReceiveEventKeeps ==
    ASSUME LifecycleInv, NEW c \in Conn, ReceiveEvent(c)
    PROVE  LifecycleInv'
<1>1. BackendInv' /\ ManagerMatchesBackend' /\ RoomsAgreeWhileRegistered'
  BY StoreFrame DEF ReceiveEvent
<1>2. LifeTypeOK'
  BY DEF LifecycleInv, LifeTypeOK, StartedIsIssued, ReceiveEvent, backendVars,
         Label
<1>3. StartedIsIssued'
  BY DEF LifecycleInv, LifeTypeOK, StartedIsIssued, ReceiveEvent, backendVars
<1>4. ASSUME NEW d \in Conn
      PROVE  AdapterReleases(d)' /\ SessionReleases(d)' /\ UnservedIsReaped(d)'
  <2>1. AdapterReleases(d)'
    BY DEF LifecycleInv, LifeTypeOK, AdapterReleases, ReceiveEvent, ServingLabel
  <2>2. SessionReleases(d)'
    BY DEF LifecycleInv, LifeTypeOK, SessionReleases, ReceiveEvent, Running
  <2>3. UnservedIsReaped(d)'
    BY DEF LifecycleInv, LifeTypeOK, AdapterReleases, UnservedIsReaped,
         ReceiveEvent
  <2> QED BY <2>1, <2>2, <2>3
<1>5. HooksHaveRun' BY DEF LifecycleInv, HooksHaveRun, ReceiveEvent, backendVars
<1> QED BY <1>1, <1>2, <1>3, <1>4, <1>5 DEF LifecycleInv

LEMMA DropEventKeeps ==
    ASSUME LifecycleInv, NEW c \in Conn, DropEvent(c)
    PROVE  LifecycleInv'
<1>1. BackendInv' /\ ManagerMatchesBackend' /\ RoomsAgreeWhileRegistered'
  BY StoreFrame DEF DropEvent
<1>2. LifeTypeOK'
  BY DEF LifecycleInv, LifeTypeOK, StartedIsIssued, DropEvent, backendVars,
         Label
<1>3. StartedIsIssued'
  BY DEF LifecycleInv, LifeTypeOK, StartedIsIssued, DropEvent, backendVars
<1>4. ASSUME NEW d \in Conn
      PROVE  AdapterReleases(d)' /\ SessionReleases(d)' /\ UnservedIsReaped(d)'
  <2>1. AdapterReleases(d)'
    BY DEF LifecycleInv, LifeTypeOK, AdapterReleases, DropEvent, ServingLabel
  <2>2. SessionReleases(d)'
    BY DEF LifecycleInv, LifeTypeOK, SessionReleases, DropEvent, Running
  <2>3. UnservedIsReaped(d)'
    BY DEF LifecycleInv, LifeTypeOK, AdapterReleases, UnservedIsReaped, DropEvent
  <2> QED BY <2>1, <2>2, <2>3
<1>5. HooksHaveRun' BY DEF LifecycleInv, HooksHaveRun, DropEvent, backendVars
<1> QED BY <1>1, <1>2, <1>3, <1>4, <1>5 DEF LifecycleInv

LEMMA DispatchKeeps ==
    ASSUME LifecycleInv, NEW c \in Conn, NEW h \in Handler, Dispatch(c, h)
    PROVE  LifecycleInv'
<1>1. BackendInv' /\ ManagerMatchesBackend' /\ RoomsAgreeWhileRegistered'
  BY StoreFrame DEF Dispatch
<1>2. LifeTypeOK'
  BY DEF LifecycleInv, LifeTypeOK, StartedIsIssued, Dispatch, backendVars,
         Label, IsDict, Put, GetSet
<1>3. StartedIsIssued'
  BY DEF LifecycleInv, LifeTypeOK, StartedIsIssued, Dispatch, backendVars
<1>4. ASSUME NEW d \in Conn
      PROVE  AdapterReleases(d)' /\ SessionReleases(d)' /\ UnservedIsReaped(d)'
  <2>1. AdapterReleases(d)'
    BY DEF LifecycleInv, LifeTypeOK, AdapterReleases, Dispatch, ServingLabel, Put
  <2>2. SessionReleases(d)'
    BY DEF LifecycleInv, LifeTypeOK, SessionReleases, Dispatch, Running
  <2>3. UnservedIsReaped(d)'
    BY DEF LifecycleInv, LifeTypeOK, AdapterReleases, UnservedIsReaped, Dispatch
  <2> QED BY <2>1, <2>2, <2>3
<1>5. HooksHaveRun' BY DEF LifecycleInv, HooksHaveRun, Dispatch, backendVars
<1> QED BY <1>1, <1>2, <1>3, <1>4, <1>5 DEF LifecycleInv

-----------------------------------------------------------------------------
(* Teardown.                                                               *)
LEMMA DeregisterKeepsStore ==
    ASSUME LifecycleInv, NEW k \in Conn, k \in issued, NEW x \in Role,
           Deregister(<<k, x>>), UNCHANGED joined
    PROVE  /\ BackendInv' /\ ManagerMatchesBackend' /\ RoomsAgreeWhileRegistered'
           /\ HooksHaveRun' /\ hookRuns' \in [Conn -> 0..HookCap]
<1>0. RemoveConnection(k) BY DEF Deregister
<1>1. BackendInv' BY <1>0, RemoveKeeps DEF LifecycleInv
<1>2. ManagerMatchesBackend'
  BY DEF LifecycleInv, ManagerMatchesBackend, Deregister, RemoveConnection
<1>3. RoomsAgreeWhileRegistered'
  <2>1. \A c : ConnectionRooms(c)' = IF c = k THEN {} ELSE ConnectionRooms(c)
    BY <1>0, RemovedRooms
  <2> QED BY <2>1 DEF LifecycleInv, RoomsAgreeWhileRegistered, Deregister
<1>4. hookRuns' \in [Conn -> 0..HookCap] /\ HooksHaveRun'
  BY DEF LifecycleInv, LifeTypeOK, HooksHaveRun, Deregister, RemoveConnection, HookCap
<1> QED BY <1>1, <1>2, <1>3, <1>4

LEMMA LeaveRoomsKeepsStore ==
    ASSUME LifecycleInv, NEW k \in Conn, k \in issued, NEW x \in Role, LeaveRooms(<<k, x>>)
    PROVE  /\ BackendInv' /\ ManagerMatchesBackend' /\ RoomsAgreeWhileRegistered'
           /\ HooksHaveRun' /\ hookRuns' \in [Conn -> 0..HookCap]
<1>1. CASE Deregister(<<k, x>>) /\ UNCHANGED joined
  BY <1>1, DeregisterKeepsStore
<1>2. ASSUME NEW r \in joined[k],
             RemoveFromRooms(k, joined[k]),
             joined' = [joined EXCEPT ![k] = {}],
             UNCHANGED <<registered, hookRuns>>
      PROVE  /\ BackendInv' /\ ManagerMatchesBackend' /\ RoomsAgreeWhileRegistered'
             /\ HooksHaveRun' /\ hookRuns' \in [Conn -> 0..HookCap]
  <2>1. BackendInv' BY <1>2, LeaveKeeps DEF LifecycleInv
  <2>2. \A c : ConnectionRooms(c)' = IF c = k THEN ConnectionRooms(c) \ joined[k]
                                     ELSE ConnectionRooms(c)
    BY <1>2, LeftRooms
  <2>3. RoomsAgreeWhileRegistered'
    BY <1>2, <2>2 DEF LifecycleInv, LifeTypeOK, RoomsAgreeWhileRegistered
  <2>4. ManagerMatchesBackend' /\ HooksHaveRun'
    BY <1>2 DEF LifecycleInv, ManagerMatchesBackend, HooksHaveRun, RemoveFromRooms
  <2> QED BY <1>2, <2>1, <2>3, <2>4 DEF LifecycleInv, LifeTypeOK
<1> QED BY <1>1, <1>2 DEF LeaveRooms

\* What LeaveRooms does to everything else.
LeaveEffect(k, x) ==
    /\ \/ Goto(<<k, x>>, "leave_hook") /\ registered' = registered
       \/ Goto(<<k, x>>, "disconnect_hook") /\ registered' = registered \ {k}
    /\ issued' = issued
    /\ joined' \in [Conn -> SUBSET Room]
    /\ \A c \in Conn \ issued : joined'[c] = joined[c]
    /\ snap' \in [Task -> SUBSET Room]

LEMMA LeaveRoomsEffect ==
    ASSUME LifecycleInv, NEW k \in Conn, k \in issued, NEW x \in Role, LeaveRooms(<<k, x>>)
    PROVE  LeaveEffect(k, x)
<1>1. CASE Deregister(<<k, x>>) /\ UNCHANGED <<joined, snap>>
  BY <1>1 DEF Deregister, RemoveConnection, LifecycleInv, LifeTypeOK, LeaveEffect
<1>2. ASSUME NEW r \in joined[k],
             RemoveFromRooms(k, joined[k]),
             joined' = [joined EXCEPT ![k] = {}],
             snap' = [snap EXCEPT ![<<k, x>>] = joined[k] \ {r}],
             Goto(<<k, x>>, "leave_hook"),
             UNCHANGED registered
      PROVE  LeaveEffect(k, x)
  BY <1>2 DEF RemoveFromRooms, LifecycleInv, LifeTypeOK, LeaveEffect
<1> QED BY <1>1, <1>2 DEF LeaveRooms

LEMMA PopOfPong ==
    ASSUME LifecycleInv, NEW c, pongEvent' = Pop(pongEvent, c)
    PROVE  /\ IsDict(pongEvent', issued, BOOLEAN)
           /\ DOMAIN pongEvent' = DOMAIN pongEvent \ {c}
<1>1. DOMAIN pongEvent' = DOMAIN pongEvent \ {c} BY DEF Pop, Restrict
<1>2. IsDict(pongEvent', issued, BOOLEAN) BY PopIsDict DEF LifecycleInv, LifeTypeOK
<1> QED BY <1>1, <1>2

\* handle_disconnect starts, and the session task is off the list already: stop()
\* does not wait.
LEMMA StopPassesKeeps ==
    ASSUME LifecycleInv, NEW k \in Conn, k \in issued, NEW x \in Role,
           NEW l \in {"receive", "close"}, At(<<k, x>>, l),
           l = "receive" => x = "adapter",
           LeaveRooms(<<k, x>>),
           k \notin sessionTask,
           sock' \in [Conn -> {"open", "gone", "closed"}],
           UNCHANGED <<sessionTask, pongEvent, cancel, serving, bucket, inflight, target>>
    PROVE  LifecycleInv'
<1>1. LeaveEffect(k, x) BY LeaveRoomsEffect
<1>p. /\ \A y \in Task \ {<<k, x>>} : pc'[y] = pc[y]
      /\ pc'[<<k, x>>] \in {"leave_hook", "disconnect_hook"}
      /\ pc'[<<k, x>>] = "leave_hook" => registered' = registered
      /\ pc'[<<k, x>>] = "disconnect_hook" => registered' = registered \ {k}
  BY <1>1 DEF LeaveEffect, LifecycleInv, LifeTypeOK
<1>3. LifeTypeOK' /\ StartedIsIssued'
  <2>1. pc' \in [Task -> Label]
    BY <1>1 DEF LeaveEffect, LifecycleInv, LifeTypeOK, Label, Teardown
  <2>2. LifeTypeOK'
    BY <1>1, <2>1, LeaveRoomsKeepsStore DEF LeaveEffect, LifecycleInv, LifeTypeOK
  <2>3. StartedIsIssued'
    BY <1>1 DEF LeaveEffect, LifecycleInv, LifeTypeOK, StartedIsIssued
  <2> QED BY <2>2, <2>3
<1>4. ASSUME NEW c \in Conn
      PROVE  AdapterReleases(c)' /\ SessionReleases(c)' /\ UnservedIsReaped(c)'
  <2>1. AdapterReleases(c)'
    BY <1>p DEF LifecycleInv, AdapterReleases, ServingLabel
  <2>2. SessionReleases(c)'
    BY <1>p DEF LifecycleInv, SessionReleases, Running
  <2>3. UnservedIsReaped(c)'
    BY <1>p DEF LifecycleInv, AdapterReleases, SessionReleases,
                UnservedIsReaped
  <2> QED BY <2>1, <2>2, <2>3
<1> QED BY <1>3, <1>4, LeaveRoomsKeepsStore DEF LifecycleInv

\* ... or is taken off the list, cancelled unless it is the caller, and waited for.
LEMMA StopWaitsKeeps ==
    ASSUME LifecycleInv, NEW k \in Conn, k \in issued, NEW x \in Role,
           NEW l \in {"receive", "close"}, At(<<k, x>>, l),
           l = "receive" => x = "adapter",
           k \in sessionTask,
           sessionTask' = sessionTask \ {k},
           AwaitSession(<<k, x>>),
           sock' \in [Conn -> {"open", "gone", "closed"}],
           UNCHANGED <<serving, bucket, inflight, target>>
    PROVE  LifecycleInv'
<1>1. BackendInv' /\ ManagerMatchesBackend' /\ RoomsAgreeWhileRegistered'
  BY StoreFrame DEF AwaitSession
<1>2. /\ \A y \in Task \ {<<k, x>>} : pc'[y] = pc[y]
      /\ pc'[<<k, x>>] = "stop" /\ pc[<<k, x>>] = l
      /\ pc' \in [Task -> Label]
      /\ cancel' \subseteq cancel \cup {Session(k)}
      /\ x = "session" => cancel' = cancel
      /\ cancel' \subseteq Task /\ cancel \subseteq cancel'
  BY DEF LifecycleInv, LifeTypeOK, AwaitSession, At, Label, Teardown
<1>3. UNCHANGED <<issued, registered, joined, pongEvent, snap, hookRuns>>
  BY DEF AwaitSession, backendVars
<1>4. LifeTypeOK' /\ StartedIsIssued' /\ HooksHaveRun'
  BY <1>2, <1>3 DEF LifecycleInv, LifeTypeOK, StartedIsIssued, HooksHaveRun
<1>5. ASSUME NEW c \in Conn
      PROVE  AdapterReleases(c)' /\ SessionReleases(c)' /\ UnservedIsReaped(c)'
  <2>1. AdapterReleases(c)'
    BY <1>2, <1>3 DEF LifecycleInv, AdapterReleases, ServingLabel
  <2>2. SessionReleases(c)'
    BY <1>2, <1>3 DEF LifecycleInv, SessionReleases, Running
  <2>3. UnservedIsReaped(c)'
    BY <1>2, <1>3 DEF LifecycleInv, AdapterReleases, SessionReleases, UnservedIsReaped
  <2> QED BY <2>1, <2>2, <2>3
<1> QED BY <1>1, <1>4, <1>5 DEF LifecycleInv

LEMMA StopSessionKeeps ==
    ASSUME LifecycleInv, NEW k \in Conn, NEW x \in Role,
           NEW l \in {"receive", "close"}, At(<<k, x>>, l),
           l = "receive" => x = "adapter",
           StopSession(<<k, x>>),
           sock' \in [Conn -> {"open", "gone", "closed"}],
           UNCHANGED <<serving, bucket, inflight, target>>
    PROVE  LifecycleInv'
<1>1. k \in issued BY DEF LifecycleInv, StartedIsIssued
<1>2. CASE k \notin sessionTask
  BY <1>1, <1>2, StopPassesKeeps DEF StopSession
<1>3. CASE k \in sessionTask
  BY <1>1, <1>3, StopWaitsKeeps DEF StopSession
<1> QED BY <1>2, <1>3

LEMMA ReceiveFailsKeeps ==
    ASSUME LifecycleInv, NEW c \in Conn, ReceiveFails(c)
    PROVE  LifecycleInv'
BY StopSessionKeeps DEF ReceiveFails, LifecycleInv, LifeTypeOK

LEMMA SocketClosedKeeps ==
    ASSUME LifecycleInv, NEW k \in Conn, NEW x \in Role, SocketClosed(<<k, x>>)
    PROVE  LifecycleInv'
<1>1. sock' \in [Conn -> {"open", "gone", "closed"}]
  BY DEF SocketClosed, LifecycleInv, LifeTypeOK
<1> QED BY <1>1, StopSessionKeeps DEF SocketClosed

LEMMA SessionStoppedKeeps ==
    ASSUME LifecycleInv, NEW k \in Conn, NEW x \in Role, SessionStopped(<<k, x>>)
    PROVE  LifecycleInv'
<1>0. k \in issued BY DEF LifecycleInv, StartedIsIssued, SessionStopped, AwaitOver
<1>1. LeaveEffect(k, x) BY <1>0, LeaveRoomsEffect DEF SessionStopped, AwaitOver
<1>2. /\ IsDict(pongEvent', issued, BOOLEAN)
      /\ DOMAIN pongEvent' = DOMAIN pongEvent \ {k}
  BY PopOfPong DEF SessionStopped, AwaitOver
<1>p. /\ \A y \in Task \ {<<k, x>>} : pc'[y] = pc[y]
      /\ pc'[<<k, x>>] \in {"leave_hook", "disconnect_hook"}
      /\ pc'[<<k, x>>] = "leave_hook" => registered' = registered
      /\ pc'[<<k, x>>] = "disconnect_hook" => registered' = registered \ {k}
  BY <1>1 DEF LeaveEffect, LifecycleInv, LifeTypeOK
<1>3. LifeTypeOK' /\ StartedIsIssued'
  <2>1. pc' \in [Task -> Label]
    BY <1>1 DEF LeaveEffect, LifecycleInv, LifeTypeOK, Label, Teardown
  <2>2. LifeTypeOK'
    BY <1>0, <1>1, <1>2, <2>1, LeaveRoomsKeepsStore
    DEF LeaveEffect, LifecycleInv, LifeTypeOK, SessionStopped, AwaitOver
  <2>3. StartedIsIssued'
    BY <1>0, <1>1
    DEF LeaveEffect, LifecycleInv, LifeTypeOK, StartedIsIssued, SessionStopped, AwaitOver
  <2> QED BY <2>2, <2>3
<1>4. ASSUME NEW c \in Conn
      PROVE  AdapterReleases(c)' /\ SessionReleases(c)' /\ UnservedIsReaped(c)'
  <2>1. AdapterReleases(c)'
    BY <1>p
    DEF LifecycleInv, AdapterReleases, ServingLabel, SessionStopped, AwaitOver
  <2>2. SessionReleases(c)'
    BY <1>p, <1>2
    DEF LifecycleInv, SessionReleases, Running, SessionStopped, AwaitOver
  <2>3. UnservedIsReaped(c)'
    BY <1>p
    DEF LifecycleInv, AdapterReleases, SessionReleases,
        UnservedIsReaped, SessionStopped, AwaitOver
  <2> QED BY <2>1, <2>2, <2>3
<1> QED BY <1>0, <1>3, <1>4, LeaveRoomsKeepsStore DEF LifecycleInv, SessionStopped, AwaitOver

LEMMA LeaveHookReturnsKeeps ==
    ASSUME LifecycleInv, NEW k \in Conn, NEW x \in Role, LeaveHookReturns(<<k, x>>)
    PROVE  LifecycleInv'
<1>0. k \in issued BY DEF LifecycleInv, StartedIsIssued, LeaveHookReturns
<1>1. CASE UNCHANGED <<backendVars, registered, hookRuns, pc>>
  <2>1. BackendInv' /\ ManagerMatchesBackend' /\ RoomsAgreeWhileRegistered'
    BY <1>1, StoreFrame DEF LeaveHookReturns
  <2>2. snap' \in [Task -> SUBSET Room]
    BY DEF LifecycleInv, LifeTypeOK, LeaveHookReturns
  <2>3. LifeTypeOK' /\ StartedIsIssued' /\ HooksHaveRun'
    BY <1>1, <2>2
    DEF LifecycleInv, LifeTypeOK, StartedIsIssued, HooksHaveRun, LeaveHookReturns, backendVars
  <2>4. ASSUME NEW c \in Conn
        PROVE  AdapterReleases(c)' /\ SessionReleases(c)' /\ UnservedIsReaped(c)'
    BY <1>1 DEF LifecycleInv, AdapterReleases, SessionReleases, UnservedIsReaped,
                LeaveHookReturns, backendVars
  <2> QED BY <2>1, <2>3, <2>4 DEF LifecycleInv
<1>2. CASE Deregister(<<k, x>>)
  <2>1. /\ BackendInv' /\ ManagerMatchesBackend' /\ RoomsAgreeWhileRegistered'
        /\ HooksHaveRun' /\ hookRuns' \in [Conn -> 0..HookCap]
    BY <1>0, <1>2, DeregisterKeepsStore DEF LeaveHookReturns
  <2>2. /\ \A y \in Task \ {<<k, x>>} : pc'[y] = pc[y]
        /\ pc'[<<k, x>>] = "disconnect_hook" /\ pc[<<k, x>>] = "leave_hook"
        /\ pc' \in [Task -> Label]
        /\ registered' = registered \ {k} /\ issued' = issued
    BY <1>2 DEF LifecycleInv, LifeTypeOK, LeaveHookReturns, Deregister, RemoveConnection,
                Label, Teardown
  <2>3. LifeTypeOK' /\ StartedIsIssued'
    BY <1>0, <2>1, <2>2, <1>2 DEF LifecycleInv, LifeTypeOK, StartedIsIssued, LeaveHookReturns, Deregister
  <2>4. ASSUME NEW c \in Conn
        PROVE  AdapterReleases(c)' /\ SessionReleases(c)' /\ UnservedIsReaped(c)'
    <3>1. AdapterReleases(c)'
      BY <2>2 DEF LifecycleInv, AdapterReleases, ServingLabel, LeaveHookReturns
    <3>2. SessionReleases(c)'
      BY <2>2 DEF LifecycleInv, SessionReleases, Running, LeaveHookReturns
    <3>3. UnservedIsReaped(c)'
      BY <2>2 DEF LifecycleInv, UnservedIsReaped, LeaveHookReturns
    <3> QED BY <3>1, <3>2, <3>3
  <2> QED BY <2>1, <2>3, <2>4 DEF LifecycleInv
<1> QED BY <1>1, <1>2 DEF LeaveHookReturns

LEMMA DisconnectHooksReturnKeeps ==
    ASSUME LifecycleInv, NEW k \in Conn, NEW x \in Role, DisconnectHooksReturn(<<k, x>>)
    PROVE  LifecycleInv'
<1>0. k \in issued BY DEF LifecycleInv, StartedIsIssued, DisconnectHooksReturn
<1>1. BackendInv' /\ ManagerMatchesBackend' /\ RoomsAgreeWhileRegistered'
  BY StoreFrame DEF DisconnectHooksReturn
<1>2. /\ DOMAIN inflight' = DOMAIN inflight \ {k}
      /\ IsDict(inflight', issued, SUBSET Handler)
      /\ bucket' = bucket \ {k}
  BY DEF LifecycleInv, LifeTypeOK, DisconnectHooksReturn, CancelRouterTasks, IsDict, Pop, Restrict
<1>3. /\ \A y \in Task \ {<<k, x>>} : pc'[y] = pc[y]
      /\ pc[<<k, x>>] = "disconnect_hook"
      /\ pc' \in [Task -> Label]
      /\ x = "session" => pc'[<<k, x>>] = "done"
      /\ x = "adapter" => pc'[<<k, x>>] = IF k \in serving THEN "done" ELSE "user"
      /\ x \in Handler => pc'[<<k, x>>] = "user"
  BY DEF LifecycleInv, LifeTypeOK, DisconnectHooksReturn, AfterTeardown, Label
<1>4. /\ cancel' \subseteq Task
      /\ \A c \in Conn : Adapter(c) \in cancel' => Adapter(c) \in cancel
      /\ \A c \in Conn : Session(c) \in cancel' \ cancel
           => c = k /\ \E h \in Handler : pc[<<k, h>>] = "stop"
      /\ \A y \in cancel' : y \in cancel \/ y[1] = k
  <2>1. GetSet(inflight, k) \subseteq Handler
    BY GetSetIn DEF LifecycleInv, LifeTypeOK
  <2> QED BY <2>1 DEF LifecycleInv, LifeTypeOK, DisconnectHooksReturn, CancelRouterTasks
<1>5. LifeTypeOK' /\ StartedIsIssued'
  <2>1. LifeTypeOK'
    BY <1>2, <1>3, <1>4 DEF LifecycleInv, LifeTypeOK, DisconnectHooksReturn, backendVars
  <2>2. StartedIsIssued'
    BY <1>0, <1>3, <1>4
    DEF LifecycleInv, StartedIsIssued, DisconnectHooksReturn, backendVars
  <2> QED BY <2>1, <2>2
<1>6. ASSUME NEW c \in Conn
      PROVE  AdapterReleases(c)' /\ SessionReleases(c)' /\ UnservedIsReaped(c)'
  <2>1. AdapterReleases(c)'
    BY <1>2, <1>3, <1>4
    DEF LifecycleInv, AdapterReleases, ServingLabel, DisconnectHooksReturn
  <2>2. SessionReleases(c)'
    <3>1. \A r \in Role : pc'[<<c, r>>] = "stop" <=> pc[<<c, r>>] = "stop"
      BY <1>3
    <3>2. c \in sessionTask => Session(c) \notin cancel'
      BY <1>4 DEF LifecycleInv, SessionReleases
    <3> QED BY <1>3, <3>1, <3>2
        DEF LifecycleInv, SessionReleases, Running, DisconnectHooksReturn
  <2>3. UnservedIsReaped(c)'
    BY <1>3, <1>4
    DEF LifecycleInv, AdapterReleases, UnservedIsReaped, DisconnectHooksReturn
  <2> QED BY <2>1, <2>2, <2>3
<1>7. HooksHaveRun' BY DEF LifecycleInv, HooksHaveRun, DisconnectHooksReturn, backendVars
<1> QED BY <1>1, <1>5, <1>6, <1>7 DEF LifecycleInv

-----------------------------------------------------------------------------
(* Rooms.                                                                  *)
LEMMA EnterRoomKeeps ==
    ASSUME LifecycleInv, NEW k \in Conn, NEW x \in Role, NEW r \in Room,
           EnterRoom(<<k, x>>, r)
    PROVE  LifecycleInv'
<1>0. k \in issued BY DEF LifecycleInv, StartedIsIssued, EnterRoom
<1>1. AddToRoom(k, r) BY DEF EnterRoom
<1>2. BackendInv' BY <1>0, <1>1, AddKeeps DEF LifecycleInv
<1>3. \A c : ConnectionRooms(c)' =
               IF c = k THEN ConnectionRooms(k) \cup {r} ELSE ConnectionRooms(c)
  BY <1>1, AddedRooms
<1>4. ManagerMatchesBackend' /\ RoomsAgreeWhileRegistered' /\ HooksHaveRun'
  BY <1>1, <1>3 DEF LifecycleInv, LifeTypeOK, ManagerMatchesBackend,
     RoomsAgreeWhileRegistered, HooksHaveRun, EnterRoom, AddToRoom
<1>5. LifeTypeOK' /\ StartedIsIssued'
  <2>1. LifeTypeOK'
    BY <1>1 DEF LifecycleInv, LifeTypeOK, EnterRoom, AddToRoom, Label
  <2>2. StartedIsIssued'
    BY <1>0, <1>1 DEF LifecycleInv, LifeTypeOK, StartedIsIssued, EnterRoom, AddToRoom
  <2> QED BY <2>1, <2>2
<1>6. ASSUME NEW c \in Conn
      PROVE  AdapterReleases(c)' /\ SessionReleases(c)' /\ UnservedIsReaped(c)'
  <2>1. AdapterReleases(c)'
    BY DEF LifecycleInv, LifeTypeOK, AdapterReleases, ServingLabel, EnterRoom
  <2>2. SessionReleases(c)'
    BY DEF LifecycleInv, LifeTypeOK, SessionReleases, Running, EnterRoom
  <2>3. UnservedIsReaped(c)'
    BY DEF LifecycleInv, LifeTypeOK, UnservedIsReaped, EnterRoom
  <2> QED BY <2>1, <2>2, <2>3
<1> QED BY <1>2, <1>4, <1>5, <1>6 DEF LifecycleInv

\* leave(), and the rollback of a join: one room less on both sides.
LEMMA LessRoomKeepsStore ==
    ASSUME LifecycleInv, NEW k \in Conn, k \in issued, NEW r,
           RemoveFromRoom(k, r), joined' = [joined EXCEPT ![k] = @ \ {r}],
           UNCHANGED <<registered, hookRuns>>
    PROVE  /\ BackendInv' /\ ManagerMatchesBackend' /\ RoomsAgreeWhileRegistered'
           /\ HooksHaveRun' /\ joined' \in [Conn -> SUBSET Room]
<1>1. RemoveFromRooms(k, {r}) BY DEF RemoveFromRoom
<1>2. BackendInv' BY <1>1, LeaveKeeps DEF LifecycleInv
<1>3. \A c : ConnectionRooms(c)' =
               IF c = k THEN ConnectionRooms(c) \ {r} ELSE ConnectionRooms(c)
  BY <1>1, LeftRooms
<1>4. RoomsAgreeWhileRegistered' /\ joined' \in [Conn -> SUBSET Room]
  BY <1>3 DEF LifecycleInv, LifeTypeOK, RoomsAgreeWhileRegistered
<1>5. ManagerMatchesBackend' /\ HooksHaveRun'
  BY <1>1 DEF LifecycleInv, ManagerMatchesBackend, HooksHaveRun, RemoveFromRooms
<1> QED BY <1>2, <1>4, <1>5

LEMMA JoinHookRaisesKeeps ==
    ASSUME LifecycleInv, NEW k \in Conn, NEW x \in Role, JoinHookRaises(<<k, x>>)
    PROVE  LifecycleInv'
<1>0. k \in issued BY DEF LifecycleInv, StartedIsIssued, JoinHookRaises
<1>1. /\ BackendInv' /\ ManagerMatchesBackend' /\ RoomsAgreeWhileRegistered'
      /\ HooksHaveRun' /\ joined' \in [Conn -> SUBSET Room]
  BY <1>0, LessRoomKeepsStore DEF JoinHookRaises
<1>2. issued' = issued BY DEF JoinHookRaises, RemoveFromRoom, RemoveFromRooms
<1>3. LifeTypeOK'
  BY <1>1, <1>2 DEF LifecycleInv, LifeTypeOK, JoinHookRaises, Label
<1>4. StartedIsIssued'
  BY <1>0, <1>2 DEF LifecycleInv, LifeTypeOK, StartedIsIssued, JoinHookRaises
<1>5. ASSUME NEW c \in Conn
      PROVE  AdapterReleases(c)' /\ SessionReleases(c)' /\ UnservedIsReaped(c)'
  <2>1. AdapterReleases(c)'
    BY DEF LifecycleInv, LifeTypeOK, AdapterReleases, ServingLabel, JoinHookRaises
  <2>2. SessionReleases(c)'
    BY DEF LifecycleInv, LifeTypeOK, SessionReleases, Running, JoinHookRaises
  <2>3. UnservedIsReaped(c)'
    BY DEF LifecycleInv, LifeTypeOK, UnservedIsReaped, JoinHookRaises
  <2> QED BY <2>1, <2>2, <2>3
<1> QED BY <1>1, <1>3, <1>4, <1>5 DEF LifecycleInv

LEMMA LeaveRoomKeeps ==
    ASSUME LifecycleInv, NEW k \in Conn, NEW x \in Role, NEW r \in Room, Leave(<<k, x>>, r)
    PROVE  LifecycleInv'
<1>0. k \in issued BY DEF LifecycleInv, StartedIsIssued, Leave
<1>1. /\ BackendInv' /\ ManagerMatchesBackend' /\ RoomsAgreeWhileRegistered'
      /\ HooksHaveRun' /\ joined' \in [Conn -> SUBSET Room]
  BY <1>0, LessRoomKeepsStore DEF Leave
<1>2. issued' = issued BY DEF Leave, RemoveFromRoom, RemoveFromRooms
<1>3. LifeTypeOK' /\ StartedIsIssued'
  BY <1>0, <1>1, <1>2 DEF LifecycleInv, LifeTypeOK, StartedIsIssued, Leave
<1>4. ASSUME NEW c \in Conn
      PROVE  AdapterReleases(c)' /\ SessionReleases(c)' /\ UnservedIsReaped(c)'
  BY DEF LifecycleInv, AdapterReleases, SessionReleases, UnservedIsReaped, Leave
<1> QED BY <1>1, <1>3, <1>4 DEF LifecycleInv

-----------------------------------------------------------------------------
(* Tasks that end, and the session loop.                                   *)
LEMMA HandlerReturnsKeeps ==
    ASSUME LifecycleInv, NEW k \in Conn, NEW x \in Role, HandlerReturns(<<k, x>>)
    PROVE  LifecycleInv'
<1>1. BackendInv' /\ ManagerMatchesBackend' /\ RoomsAgreeWhileRegistered'
  BY StoreFrame DEF HandlerReturns
<1>2. x \in Handler BY DEF HandlerReturns
<1>3. /\ IsDict(inflight', issued, SUBSET Handler)
      /\ DOMAIN inflight' = DOMAIN inflight
  BY DiscardIsDict DEF HandlerReturns
<1>4. /\ \A y \in Task \ {<<k, x>>} : pc'[y] = pc[y]
      /\ pc'[<<k, x>>] = "done" /\ pc[<<k, x>>] = "user"
      /\ pc' \in [Task -> Label]
  BY DEF LifecycleInv, LifeTypeOK, HandlerReturns, Label
<1>5. LifeTypeOK' /\ StartedIsIssued' /\ HooksHaveRun'
  BY <1>3, <1>4
  DEF LifecycleInv, LifeTypeOK, StartedIsIssued, HooksHaveRun, HandlerReturns, backendVars
<1>6. ASSUME NEW c \in Conn
      PROVE  AdapterReleases(c)' /\ SessionReleases(c)' /\ UnservedIsReaped(c)'
  <2>1. AdapterReleases(c)'
    BY <1>2, <1>3, <1>4 DEF LifecycleInv, AdapterReleases, ServingLabel, HandlerReturns
  <2>2. SessionReleases(c)'
    <3>1. \A r \in Role : pc'[<<c, r>>] = "stop" <=> pc[<<c, r>>] = "stop"
      BY <1>4
    <3> QED BY <1>2, <1>4, <3>1 DEF LifecycleInv, SessionReleases, Running, HandlerReturns
  <2>3. UnservedIsReaped(c)'
    BY <1>2, <1>4 DEF LifecycleInv, UnservedIsReaped, HandlerReturns
  <2> QED BY <2>1, <2>2, <2>3
<1> QED BY <1>1, <1>5, <1>6 DEF LifecycleInv

LEMMA PingDueKeeps ==
    ASSUME LifecycleInv, NEW c \in Conn, PingDue(c)
    PROVE  LifecycleInv'
<1>1. BackendInv' /\ ManagerMatchesBackend' /\ RoomsAgreeWhileRegistered'
  BY StoreFrame DEF PingDue
<1>2. c \in issued
  BY DEF LifecycleInv, StartedIsIssued, PingDue
<1>3. /\ IsDict(pongEvent', issued, BOOLEAN)
      /\ DOMAIN pongEvent' = DOMAIN pongEvent
  BY MarkPongKeeps DEF PingDue
<1>4. /\ \A y \in Task \ {Session(c)} : pc'[y] = pc[y]
      /\ pc'[Session(c)] = "ping" /\ pc[Session(c)] \in {"sleep", "expiry"}
      /\ pc' \in [Task -> Label]
  BY DEF LifecycleInv, LifeTypeOK, PingDue, Label
<1>5. LifeTypeOK' /\ StartedIsIssued' /\ HooksHaveRun'
  <2>1. LifeTypeOK'
    BY <1>3, <1>4 DEF LifecycleInv, LifeTypeOK, PingDue, backendVars
  <2>2. StartedIsIssued' /\ HooksHaveRun'
    BY <1>2, <1>4
    DEF LifecycleInv, StartedIsIssued, HooksHaveRun, PingDue, backendVars
  <2> QED BY <2>1, <2>2
<1>6. ASSUME NEW d \in Conn
      PROVE  AdapterReleases(d)' /\ SessionReleases(d)' /\ UnservedIsReaped(d)'
  <2>1. AdapterReleases(d)'
    BY <1>4 DEF LifecycleInv, AdapterReleases, ServingLabel, PingDue
  <2>2. SessionReleases(d)'
    <3>1. \A r \in Role : pc'[<<d, r>>] = "stop" <=> pc[<<d, r>>] = "stop"
      BY <1>4
    <3> QED BY <1>3, <1>4, <3>1 DEF LifecycleInv, SessionReleases, Running, PingDue
  <2>3. UnservedIsReaped(d)'
    BY <1>4 DEF LifecycleInv, UnservedIsReaped, PingDue
  <2> QED BY <2>1, <2>2, <2>3
<1> QED BY <1>1, <1>5, <1>6 DEF LifecycleInv

\* The cancelled task is a handler, whose room joins and teardown end where they
\* are, or a session task that stop() has taken off the list.
LEMMA InterruptedKeeps ==
    ASSUME LifecycleInv, NEW k \in Conn, NEW x \in Role, Interrupted(<<k, x>>)
    PROVE  LifecycleInv'
<1>1. BackendInv' /\ ManagerMatchesBackend' /\ RoomsAgreeWhileRegistered'
  BY StoreFrame DEF Interrupted
<1>2. x # "adapter" BY DEF Interrupted, LifecycleInv, AdapterReleases
<1>3. /\ IsDict(inflight', issued, SUBSET Handler)
      /\ DOMAIN inflight' = DOMAIN inflight
  BY DiscardIsDict DEF Interrupted
<1>4. /\ \A y \in Task \ {<<k, x>>} : pc'[y] = pc[y]
      /\ pc'[<<k, x>>] = "done" /\ pc[<<k, x>>] \notin {"none", "done", "stop"}
      /\ pc' \in [Task -> Label]
  BY DEF LifecycleInv, LifeTypeOK, Interrupted, Label
<1>5. /\ target' \in [Task -> Room \cup {NoRoom}]
      /\ cancel' \subseteq cancel /\ <<k, x>> \in cancel
  BY DEF LifecycleInv, LifeTypeOK, Interrupted
<1>6. LifeTypeOK' /\ StartedIsIssued' /\ HooksHaveRun'
  <2>1. LifeTypeOK'
    BY <1>3, <1>4, <1>5 DEF LifecycleInv, LifeTypeOK, Interrupted, backendVars
  <2>2. StartedIsIssued' /\ HooksHaveRun'
    BY <1>4, <1>5
    DEF LifecycleInv, StartedIsIssued, HooksHaveRun, Interrupted, backendVars
  <2> QED BY <2>1, <2>2
<1>7. ASSUME NEW c \in Conn
      PROVE  AdapterReleases(c)' /\ SessionReleases(c)' /\ UnservedIsReaped(c)'
  <2>1. AdapterReleases(c)'
    BY <1>2, <1>3, <1>4, <1>5
    DEF LifecycleInv, AdapterReleases, ServingLabel, Interrupted
  <2>2. SessionReleases(c)'
    <3>1. \A r \in Role : pc'[<<c, r>>] = "stop" <=> pc[<<c, r>>] = "stop"
      BY <1>4
    <3> QED BY <1>4, <1>5, <3>1
        DEF LifecycleInv, SessionReleases, Running, Interrupted
  <2>3. UnservedIsReaped(c)'
    BY <1>2, <1>4, <1>5 DEF LifecycleInv, UnservedIsReaped, Interrupted
  <2> QED BY <2>1, <2>2, <2>3
<1> QED BY <1>1, <1>6, <1>7 DEF LifecycleInv

LEMMA CancelSwallowedKeeps ==
    ASSUME LifecycleInv, NEW c \in Conn, CancelSwallowed(c)
    PROVE  LifecycleInv'
<1>1. BackendInv' /\ ManagerMatchesBackend' /\ RoomsAgreeWhileRegistered'
  BY StoreFrame DEF CancelSwallowed
<1>2. /\ \A y \in Task \ {Session(c)} : pc'[y] = pc[y]
      /\ pc'[Session(c)] = "sleep" /\ pc[Session(c)] = "wait_pong"
      /\ pc' \in [Task -> Label]
      /\ cancel' \subseteq cancel
  BY DEF LifecycleInv, LifeTypeOK, CancelSwallowed, Label
<1>3. LifeTypeOK' /\ StartedIsIssued' /\ HooksHaveRun'
  BY <1>2
  DEF LifecycleInv, LifeTypeOK, StartedIsIssued, HooksHaveRun, CancelSwallowed, backendVars
<1>4. ASSUME NEW d \in Conn
      PROVE  AdapterReleases(d)' /\ SessionReleases(d)' /\ UnservedIsReaped(d)'
  <2>1. AdapterReleases(d)'
    BY <1>2 DEF LifecycleInv, AdapterReleases, ServingLabel, CancelSwallowed
  <2>2. SessionReleases(d)'
    <3>1. \A r \in Role : pc'[<<d, r>>] = "stop" <=> pc[<<d, r>>] = "stop"
      BY <1>2
    <3> QED BY <1>2, <3>1 DEF LifecycleInv, SessionReleases, Running, CancelSwallowed
  <2>3. UnservedIsReaped(d)'
    BY <1>2 DEF LifecycleInv, UnservedIsReaped, CancelSwallowed
  <2> QED BY <2>1, <2>2, <2>3
<1> QED BY <1>1, <1>3, <1>4 DEF LifecycleInv

-----------------------------------------------------------------------------
(* The inductive invariant.                                                *)
LEMMA UserStepKeeps ==
    ASSUME LifecycleInv, NEW k \in Conn, NEW x \in Role, UserStep(<<k, x>>)
    PROVE  LifecycleInv'
<1>1. pc[<<k, x>>] \in UserLabel
  BY DEF UserStep, Disconnect, RequestJoin, EnterRoom, Leave, GuardRejects,
         JoinHooksReturn, JoinHookRaises, UserLabel
<1>2. x # "session"
  BY <1>1 DEF LifecycleInv, SessionReleases, UserLabel, Running
<1> QED BY <1>2, UserMoveKeeps, EnterRoomKeeps, LeaveRoomKeeps, JoinHookRaisesKeeps
        DEF UserStep

LEMMA LifecycleStep == LifecycleInv /\ [Next]_vars => LifecycleInv'
<1> SUFFICES ASSUME LifecycleInv, [Next]_vars PROVE LifecycleInv'
  OBVIOUS
<1>1. ASSUME NEW c \in Conn, AdapterStep(c) PROVE LifecycleInv'
  BY <1>1, RefuseKeeps, HandleConnectKeeps, ReceivePongKeeps, ReceiveEventKeeps,
     DispatchKeeps DEF AdapterStep
<1>2. ASSUME NEW c \in Conn, DropEvent(c) \/ ReceiveFails(c) \/ ClientCloses(c)
      PROVE  LifecycleInv'
  BY <1>2, DropEventKeeps, ReceiveFailsKeeps, ClientClosesKeeps
<1>3. ASSUME NEW c \in Conn, SessionStep(c) PROVE LifecycleInv'
  BY <1>3, PingDueKeeps, SessionMoveKeeps, CancelSwallowedKeeps DEF SessionStep
<1>4. ASSUME NEW t \in Task,
             UserStep(t) \/ UserReturns(t) \/ TeardownStep(t) \/ Interrupted(t)
      PROVE  LifecycleInv'
  <2> PICK k \in Conn, x \in Role : t = <<k, x>>
    BY TaskPair
  <2>1. CASE UserStep(t) BY <2>1, UserStepKeeps
  <2>2. CASE UserReturns(t)
    BY <2>2, ConnectHooksReturnKeeps, ConnectHookRaisesKeeps, HandlerReturnsKeeps
    DEF UserReturns
  <2>3. CASE TeardownStep(t)
    BY <2>3, SocketClosedKeeps, SessionStoppedKeeps, LeaveHookReturnsKeeps,
       DisconnectHooksReturnKeeps DEF TeardownStep
  <2>4. CASE Interrupted(t) BY <2>4, InterruptedKeeps
  <2> QED BY <1>4, <2>1, <2>2, <2>3, <2>4
<1>5. CASE UNCHANGED vars
  <2>1. BackendInv' /\ ManagerMatchesBackend' /\ RoomsAgreeWhileRegistered'
    BY <1>5, StoreFrame DEF vars, lifeVars
  <2>2. LifeTypeOK' /\ StartedIsIssued' /\ HooksHaveRun'
    BY <1>5 DEF vars, lifeVars, backendVars, LifecycleInv, LifeTypeOK, StartedIsIssued,
                HooksHaveRun
  <2>3. ASSUME NEW c \in Conn
        PROVE  AdapterReleases(c)' /\ SessionReleases(c)' /\ UnservedIsReaped(c)'
    BY <1>5 DEF vars, lifeVars, LifecycleInv, AdapterReleases, SessionReleases,
                UnservedIsReaped
  <2> QED BY <2>1, <2>2, <2>3 DEF LifecycleInv
<1> QED BY <1>1, <1>2, <1>3, <1>4, <1>5 DEF Next

\* The inductive invariant holds in every reachable state.
THEOREM LifecycleInvariant == Spec => []LifecycleInv
<1> QED BY LifecycleInit, LifecycleStep, PTL DEF Spec

\* Every dict and every task keeps its declared shape, and only ids of accepted
\* connections occur in the server's tables.
THEOREM TypeCorrect == Spec => []TypeOK
<1>1. LifecycleInv => TypeOK
  BY DEF LifecycleInv, BackendInv, TypeOK
<1> QED BY <1>1, LifecycleInvariant, PTL

\* conn.rooms of a registered connection is what the backend stores for it,
\* whatever its tasks are in the middle of.
THEOREM RoomsAgree == Spec => []RoomsAgreeWhileRegistered
<1>1. LifecycleInv => RoomsAgreeWhileRegistered
  BY DEF LifecycleInv
<1> QED BY <1>1, LifecycleInvariant, PTL

\* When the adapter, session and handler tasks of a connection have all ended,
\* every table has dropped it and its disconnect hooks have run.
THEOREM NothingIsLeftBehind == Spec => []NothingLeftBehind
<1>1. ASSUME LifecycleInv, NEW c \in issued, Ended(c)
      PROVE  Released(c) /\ hookRuns[c] > 0
  <2>0. c \in Conn /\ \A r \in Role : pc[<<c, r>>] \in {"none", "done"}
    BY <1>1 DEF LifecycleInv, BackendInv, BackendTypeOK, Ended
  <2>1. c \notin sessionTask /\ c \notin DOMAIN pongEvent
    BY <1>1, <2>0 DEF LifecycleInv, SessionReleases, Running
  <2>2. c \notin bucket \cup DOMAIN inflight
    <3>1. c \in serving => pc[Adapter(c)] = "done"
      BY <1>1, <2>0 DEF LifecycleInv, AdapterReleases, ServingLabel
    <3> QED BY <1>1, <2>0, <3>1 DEF LifecycleInv, AdapterReleases
  <2>3. c \notin registered
    <3>1. CASE c \in serving
      BY <1>1, <2>0, <3>1 DEF LifecycleInv, AdapterReleases, ServingLabel
    <3>2. CASE c \notin serving
      BY <1>1, <2>0, <2>1, <3>2 DEF LifecycleInv, UnservedIsReaped
    <3> QED BY <3>1, <3>2
  <2>4. c \notin connections
    BY <1>1, <2>3 DEF LifecycleInv, ManagerMatchesBackend
  <2>5. hookRuns[c] > 0
    BY <1>1, <2>3 DEF LifecycleInv, HooksHaveRun
  <2> QED BY <2>1, <2>2, <2>3, <2>4, <2>5 DEF Released
<1>2. LifecycleInv => NothingLeftBehind
  BY <1>1 DEF NothingLeftBehind
<1> QED BY <1>2, LifecycleInvariant, PTL

\* Only Deregister takes a connection off the manager's list.
LEMMA OnlyDeregisterRemoves ==
    ASSUME [Next]_vars, NEW c \in registered \ registered'
    PROVE  RemoveConnection(c)
<1>1. ASSUME NEW d \in Conn,
             AdapterStep(d) \/ DropEvent(d) \/ ClientCloses(d) \/ SessionStep(d)
      PROVE  FALSE
  BY <1>1 DEF AdapterStep, Refuse, HandleConnect, ReceivePong, ReceiveEvent, Dispatch,
              DropEvent, ClientCloses, SessionStep, LimitPassed, WarningSent, TokenExpires,
              PingDue, PingSent, PongSeen, HeartbeatTimeout, SessionMoves, CancelSwallowed
<1>2. ASSUME NEW t \in Task, UserStep(t) \/ UserReturns(t) \/ Interrupted(t)
      PROVE  FALSE
  BY <1>2 DEF UserStep, Disconnect, RequestJoin, EnterRoom, Leave, GuardRejects,
              JoinHooksReturn, JoinHookRaises, UserReturns, ConnectHooksReturn,
              ConnectHookRaises, HandlerReturns, Interrupted
<1>3. ASSUME NEW t, LeaveRooms(t) PROVE RemoveConnection(c)
  BY <1>3 DEF LeaveRooms, Deregister
<1>4. ASSUME NEW t, StopSession(t) PROVE RemoveConnection(c)
  BY <1>3, <1>4 DEF StopSession, AwaitSession
<1>5. ASSUME NEW d \in Conn, ReceiveFails(d) PROVE RemoveConnection(c)
  BY <1>4, <1>5 DEF ReceiveFails
<1>6. ASSUME NEW t \in Task, TeardownStep(t) PROVE RemoveConnection(c)
  BY <1>3, <1>4, <1>6 DEF TeardownStep, SocketClosed, SessionStopped, LeaveHookReturns,
                          Deregister, DisconnectHooksReturn
<1>7. CASE UNCHANGED vars BY <1>7 DEF vars, lifeVars
<1> QED BY <1>1, <1>2, <1>5, <1>6, <1>7 DEF Next

\* A connection the manager drops is in no room of the backend any more, even
\* one that was joined after the snapshot of its rooms had been taken.
THEOREM DeregistrationClears == Spec => DeregistrationClearsRooms
<1>1. ASSUME LifecycleInv, [Next]_vars, NEW c \in registered \ registered',
             NEW r \in DOMAIN rooms'
      PROVE  c \notin rooms'[r]
  <2>1. RemoveConnection(c) BY <1>1, OnlyDeregisterRemoves
  <2>2. BackendInv' BY <1>1, LifecycleStep DEF LifecycleInv
  <2>3. c \in Conn /\ r \in Room
    BY <1>1, <2>2 DEF LifecycleInv, LifeTypeOK, BackendInv, BackendTypeOK, IsDict
  <2>4. ConnectionRooms(c)' = {} BY <2>1, RemovedRooms
  <2>5. c \notin RoomMembers(r)'
    BY <2>2, <2>3, <2>4 DEF BackendInv, IndexesAgree
  <2> QED BY <1>1, <2>5 DEF RoomMembers, GetSet
<1>2. LifecycleInv /\ [Next]_vars =>
          [\A c \in registered \ registered' :
              \A r \in DOMAIN rooms' : c \notin rooms'[r]]_vars
  BY <1>1
<1> QED BY <1>2, LifecycleInvariant, PTL DEF Spec, DeregistrationClearsRooms
=============================================================================
