-------------------------- MODULE BroadcastProofs --------------------------
(***************************************************************************)
(* For any connections, rooms, callers, chunk size and number of messages: *)
(* BroadcastInv is an inductive invariant of Broadcast.  What makes it so  *)
(* is CallInv: during a call the connections it was meant for are split    *)
(* between those still to be sent to and those that have the message.      *)
(***************************************************************************)
EXTENDS Broadcast, MemoryBackendProofs

USE ChunkAssumption, MessagesAssumption DEF Message, None

LEMMA ElementOfSeq ==
    ASSUME NEW S, NEW s \in Seq(S), NEW i \in DOMAIN s
    PROVE  s[i] \in S
OBVIOUS

LEMMA BroadcastInit == Init => BroadcastInv
<1> SUFFICES ASSUME Init PROVE BroadcastInv
  OBVIOUS
<1>1. BackendInv BY BackendInitInv DEF Init
<1>2. TypeOK
  BY <1>1 DEF Init, TypeOK, BackendInv, BackendInit
<1>3. \A c \in Conn : Handed(c) = {}
  BY DEF Init, Handed
<1> QED
  BY <1>1, <1>2, <1>3 DEF Init, BroadcastInv, OnlyTheWanted, CallersOrderKept,
     CompletedReachesAll, SendsBelongToCalls, CallInv

(* Nothing a connection does adds to those a call under way can reach.     *)
LEMMA ConnectionsMove ==
    ASSUME BroadcastInv, BackendInv', UNCHANGED <<callVars, inbox, history>>,
           issued \subseteq issued', registered' \subseteq issued',
           broken' \subseteq issued',
           issued \cap (registered' \ broken') \subseteq registered \ broken
    PROVE  BroadcastInv'
<1>1. TypeOK'
  BY DEF BroadcastInv, TypeOK, BackendInv, callVars, history
<1>2. \A c : Handed(c)' = Handed(c)
  BY DEF Handed
<1>3. OnlyTheWanted' /\ CallersOrderKept' /\ SendsBelongToCalls'
  BY <1>2 DEF BroadcastInv, OnlyTheWanted, CallersOrderKept, SendsBelongToCalls,
              callVars, history
<1>4. CompletedReachesAll'
  BY <1>2 DEF BroadcastInv, CompletedReachesAll, TypeOK, history
<1>5. CallInv'
  <2> SUFFICES ASSUME NEW b \in Caller, current[b] # None
               PROVE  /\ author[current[b]] = b
                      /\ current[b] \notin completed
                      /\ \A m \in 1..sent : author[m] = b => m <= current[b]
                      /\ targets[b] \cap ready[b] = {}
                      /\ \A c \in Pending(b) :
                            c \in wanted[current[b]] /\ current[b] \notin Handed(c)
                      /\ \A c \in wanted[current[b]] \cap (registered' \ broken') :
                            c \in Pending(b) \/ current[b] \in Handed(c)
    BY <1>2 DEF CallInv, Pending, callVars, history
  <2>1. wanted[current[b]] \subseteq issued
    BY DEF BroadcastInv, TypeOK
  <2> QED BY <2>1 DEF BroadcastInv, CallInv
<1> QED BY <1>1, <1>3, <1>4, <1>5 DEF BroadcastInv

LEMMA BackendFrame ==
    ASSUME BroadcastInv, UNCHANGED backendVars
    PROVE  BackendInv' /\ BackendTypeOK'
BY DEF backendVars, BroadcastInv, BackendInv, BackendTypeOK, IndexesAgree,
       NoEmptyRooms, StoredHasRooms, RoomMembers, ConnectionRooms

LEMMA ConnectKeeps ==
    ASSUME BroadcastInv, NEW c \in Conn, Connect(c)
    PROVE  BroadcastInv'
<1>1. BackendInv' BY StoreKeeps DEF BroadcastInv, Connect
<1> QED BY <1>1, ConnectionsMove DEF Connect, StoreConnection, BroadcastInv, TypeOK

LEMMA MembershipKeeps ==
    ASSUME BroadcastInv, NEW c \in issued, NEW r \in Room, Join(c, r) \/ Leave(c, r)
    PROVE  BroadcastInv'
<1>1. CASE Join(c, r)
  <2>1. BackendInv' BY <1>1, AddKeeps DEF BroadcastInv, Join
  <2> QED BY <1>1, <2>1, ConnectionsMove DEF Join, AddToRoom, BroadcastInv, TypeOK,
             managerVars
<1>2. CASE Leave(c, r)
  <2>1. BackendInv' BY <1>2, LeaveKeeps DEF BroadcastInv, Leave, RemoveFromRoom
  <2> QED BY <1>2, <2>1, ConnectionsMove DEF Leave, RemoveFromRoom, RemoveFromRooms,
             BroadcastInv, TypeOK, managerVars
<1> QED BY <1>1, <1>2

LEMMA DisconnectKeeps ==
    ASSUME BroadcastInv, NEW c \in issued, Disconnect(c)
    PROVE  BroadcastInv'
<1>1. BackendInv' BY RemoveKeeps DEF BroadcastInv, Disconnect
<1> QED BY <1>1, ConnectionsMove DEF Disconnect, RemoveConnection, BroadcastInv, TypeOK

LEMMA SocketBreaksKeeps ==
    ASSUME BroadcastInv, NEW c \in issued, SocketBreaks(c)
    PROVE  BroadcastInv'
<1>1. BackendInv' BY BackendFrame DEF SocketBreaks
<1> QED BY <1>1, ConnectionsMove DEF SocketBreaks, BroadcastInv, TypeOK, backendVars

LEMMA CallKeeps ==
    ASSUME BroadcastInv, NEW b \in Caller, NEW T \in SUBSET issued, Call(b, T, T)
    PROVE  BroadcastInv'
<1>1. /\ sent' \in 0..MaxMessages /\ sent \in Nat /\ sent' = sent + 1
      /\ 1..sent' = (1..sent) \cup {sent'}
      /\ \A m \in 1..sent : m # sent' /\ m \in 1..sent'
  BY DEF BroadcastInv, TypeOK, Call
<1>2. /\ author' \in [1..sent' -> Caller] /\ wanted' \in [1..sent' -> SUBSET issued']
      /\ \A m \in 1..sent : author'[m] = author[m] /\ wanted'[m] = wanted[m]
      /\ author'[sent'] = b /\ wanted'[sent'] = T
  BY <1>1 DEF BroadcastInv, TypeOK, Call, Put, backendVars
<1>3. /\ \A c : Handed(c)' = Handed(c)
      /\ \A c \in Conn : inbox[c] \in Seq(1..sent) /\ Handed(c) \subseteq 1..sent
  BY DEF Call, Handed, BroadcastInv, TypeOK
<1>4. TypeOK'
  <2>1. inbox \in [Conn -> Seq(1..sent')]
    BY <1>1, <1>3 DEF BroadcastInv, TypeOK
  <2>2. current' \in [Caller -> 0..sent']
    BY <1>1 DEF BroadcastInv, TypeOK, Call
  <2>3. completed' \subseteq 1..sent'
    BY <1>1 DEF BroadcastInv, TypeOK, Call
  <2> QED BY <1>1, <1>2, <2>1, <2>2, <2>3, BackendFrame
          DEF BroadcastInv, TypeOK, Call, managerVars, backendVars
<1>5. OnlyTheWanted' /\ CallersOrderKept'
  <2>1. OnlyTheWanted'
    BY <1>2, <1>3 DEF BroadcastInv, OnlyTheWanted
  <2>2. ASSUME NEW c \in Conn, NEW j \in DOMAIN inbox[c]
        PROVE  inbox[c][j] \in 1..sent
    <3>1. inbox[c] \in Seq(1..sent) BY <1>3
    <3> QED BY <3>1, ElementOfSeq
  <2>3. \A c \in Conn : \A j \in DOMAIN inbox[c] :
            author'[inbox[c][j]] = author[inbox[c][j]]
    BY <1>2, <2>2
  <2>4. ASSUME NEW c \in Conn, NEW j \in DOMAIN inbox[c], NEW i \in 1..j-1
        PROVE  i \in DOMAIN inbox[c]
    <3>1. inbox[c] \in Seq(1..sent) BY <1>3
    <3> QED BY <3>1
  <2> QED BY <2>1, <2>3, <2>4 DEF BroadcastInv, CallersOrderKept, Call
<1>6. CompletedReachesAll'
  BY <1>2, <1>3 DEF BroadcastInv, CompletedReachesAll, TypeOK, Call, managerVars
<1>7. SendsBelongToCalls'
  BY <1>1 DEF BroadcastInv, SendsBelongToCalls, TypeOK, Call
<1>8. CallInv'
  <2> SUFFICES ASSUME NEW d \in Caller, current'[d] # None
               PROVE  /\ author'[current'[d]] = d
                      /\ current'[d] \notin completed
                      /\ \A m \in 1..sent' : author'[m] = d => m <= current'[d]
                      /\ targets'[d] \cap ready[d] = {}
                      /\ \A c \in targets'[d] \cup ready[d] :
                            c \in wanted'[current'[d]] /\ current'[d] \notin Handed(c)
                      /\ \A c \in wanted'[current'[d]] \cap (registered \ broken) :
                            c \in targets'[d] \cup ready[d] \/ current'[d] \in Handed(c)
    BY <1>3 DEF CallInv, Pending, Call, managerVars
  <2>1. CASE d = b
    <3>1. current'[d] = sent' /\ targets'[d] = T /\ ready[d] = {}
      BY <2>1 DEF Call, BroadcastInv, TypeOK, SendsBelongToCalls
    <3>2. T \subseteq Conn
      BY DEF BroadcastInv, BackendInv, BackendTypeOK
    <3> QED BY <1>1, <1>2, <1>3, <2>1, <3>1, <3>2 DEF BroadcastInv, TypeOK
  <2>2. CASE d # b
    <3>1. /\ current'[d] = current[d] /\ targets'[d] = targets[d]
          /\ current[d] \in 1..sent
      BY <2>2 DEF Call, BroadcastInv, TypeOK
    <3>2. \A m \in 1..sent' : author'[m] = d => m \in 1..sent /\ author[m] = d
      BY <1>1, <1>2, <2>2
    <3> QED BY <1>2, <3>1, <3>2 DEF BroadcastInv, CallInv, Pending
  <2> QED BY <2>1, <2>2
<1> QED BY <1>4, <1>5, <1>6, <1>7, <1>8, BackendFrame DEF BroadcastInv, Call

LEMMA StartCallKeeps ==
    ASSUME BroadcastInv, NEW b \in Caller, StartCall(b)
    PROVE  BroadcastInv'
<1>1. registered \subseteq issued
  BY DEF BroadcastInv, TypeOK
<1>2. ASSUME NEW r \in Room, NEW exclude, BroadcastToRoom(b, r, exclude)
      PROVE  BroadcastInv'
  <2>1. /\ RoomMembers(r) = InRoom(r)
        /\ RoomMembers(r) \subseteq issued
    BY DEF BroadcastInv, BackendInv, BackendTypeOK, IndexesAgree, InRoom, IsDict,
           RoomMembers, GetSet
  <2> QED BY <1>2, <2>1, CallKeeps DEF BroadcastToRoom, RoomTargets
<1>3. CASE BroadcastAll(b)
  BY <1>1, <1>3, CallKeeps DEF BroadcastAll
<1>4. ASSUME NEW c \in issued, BroadcastExcept(b, c) \/ Emit(b, c)
      PROVE  BroadcastInv'
  BY <1>1, <1>4, CallKeeps DEF BroadcastExcept, Emit
<1> QED BY <1>2, <1>3, <1>4 DEF StartCall

(* The steps of a call move targets on without changing what it is for.    *)
LEMMA CallMoves ==
    ASSUME BroadcastInv, NEW b \in Caller,
           UNCHANGED <<backendVars, managerVars, sent, inbox, author, wanted>>,
           current' \in [Caller -> 0..sent], completed' \subseteq 1..sent,
           targets' \in [Caller -> SUBSET issued],
           ready' \in [Caller -> SUBSET issued],
           sending' \in [Caller -> SUBSET issued],
           \A d \in Caller \ {b} :
               /\ current'[d] = current[d] /\ targets'[d] = targets[d]
               /\ ready'[d] = ready[d] /\ sending'[d] = sending[d],
           \A d \in Caller \ {b} : current[d] # None => current[d] \notin completed',
           SendsBelongToCalls', CompletedReachesAll',
           current'[b] # None =>
               /\ current'[b] = current[b] /\ completed' = completed
               /\ targets'[b] \cap ready'[b] = {}
               /\ targets'[b] \cup ready'[b] \subseteq Pending(b)
               /\ Pending(b) \cap (registered \ broken)
                       \subseteq targets'[b] \cup ready'[b]
    PROVE  BroadcastInv'
<1>1. TypeOK'
  BY BackendFrame DEF BroadcastInv, TypeOK, managerVars, backendVars
<1>2. \A c : Handed(c)' = Handed(c)
  BY DEF Handed
<1>3. OnlyTheWanted' /\ CallersOrderKept'
  BY <1>2 DEF BroadcastInv, OnlyTheWanted, CallersOrderKept
<1>4. CallInv'
  <2> SUFFICES ASSUME NEW d \in Caller, current'[d] # None
               PROVE  /\ author[current'[d]] = d
                      /\ current'[d] \notin completed'
                      /\ \A m \in 1..sent : author[m] = d => m <= current'[d]
                      /\ targets'[d] \cap ready'[d] = {}
                      /\ \A c \in targets'[d] \cup ready'[d] :
                            c \in wanted[current'[d]] /\ current'[d] \notin Handed(c)
                      /\ \A c \in wanted[current'[d]] \cap (registered \ broken) :
                            c \in targets'[d] \cup ready'[d] \/ current'[d] \in Handed(c)
    BY <1>2 DEF CallInv, Pending, managerVars
  <2>1. CASE d = b
    BY <2>1 DEF BroadcastInv, CallInv
  <2>2. CASE d # b
    BY <2>2 DEF BroadcastInv, CallInv, Pending
  <2> QED BY <2>1, <2>2
<1> QED BY <1>1, <1>3, <1>4, BackendFrame DEF BroadcastInv

LEMMA CallsUnderWay ==
    ASSUME BroadcastInv, NEW d \in Caller, current[d] # None
    PROVE  /\ current[d] \notin completed /\ author[current[d]] = d
           /\ targets[d] \cap ready[d] = {}
BY DEF BroadcastInv, CallInv

LEMMA CompletedFrame ==
    ASSUME BroadcastInv, UNCHANGED <<managerVars, inbox, wanted, completed>>
    PROVE  CompletedReachesAll'
<1>1. \A c : Handed(c)' = Handed(c)
  BY DEF Handed
<1> QED BY <1>1 DEF BroadcastInv, CompletedReachesAll, managerVars

LEMMA NextChunkKeeps ==
    ASSUME BroadcastInv, NEW b \in Caller, NextChunk(b)
    PROVE  BroadcastInv'
<1> PICK S \in Chunks(targets[b]) :
            /\ ready' = [ready EXCEPT ![b] = S]
            /\ targets' = [targets EXCEPT ![b] = @ \ S]
  BY DEF NextChunk
<1>1. S \subseteq targets[b] /\ targets[b] \subseteq issued
  BY DEF Chunks, BroadcastInv, TypeOK
<1>2. SendsBelongToCalls'
  BY DEF BroadcastInv, TypeOK, SendsBelongToCalls, NextChunk, GatherDone
<1>3. CompletedReachesAll'
  BY CompletedFrame DEF NextChunk, history
<1>4. \A d \in Caller : current[d] # None => current[d] \notin completed
  BY CallsUnderWay
<1>5. /\ targets' \in [Caller -> SUBSET issued] /\ ready' \in [Caller -> SUBSET issued]
      /\ \A d \in Caller \ {b} : targets'[d] = targets[d] /\ ready'[d] = ready[d]
      /\ targets'[b] = targets[b] \ S /\ ready'[b] = S
  BY <1>1 DEF BroadcastInv, TypeOK
<1>6. UNCHANGED <<backendVars, managerVars, sent, current, sending, inbox, author,
                  wanted, completed>>
  BY DEF NextChunk, history
<1>7. /\ current \in [Caller -> 0..sent] /\ completed \subseteq 1..sent
      /\ sending \in [Caller -> SUBSET issued]
  BY DEF BroadcastInv, TypeOK
<1>8. ready[b] = {}
  BY DEF NextChunk, GatherDone
<1> QED BY <1>1, <1>2, <1>3, <1>4, <1>5, <1>6, <1>7, <1>8, CallMoves DEF Pending

LEMMA CallReturnsKeeps ==
    ASSUME BroadcastInv, NEW b \in Caller, CallReturns(b)
    PROVE  BroadcastInv'
<1>1. /\ current[b] # None /\ current[b] \in 1..sent /\ Pending(b) = {}
      /\ author[current[b]] = b
  BY DEF CallReturns, GatherDone, BroadcastInv, TypeOK, Pending, CallInv
<1>2. SendsBelongToCalls'
  BY DEF BroadcastInv, TypeOK, SendsBelongToCalls, CallReturns, GatherDone
<1>3. CompletedReachesAll'
  <2>1. \A c : Handed(c)' = Handed(c)
    BY DEF Handed, CallReturns
  <2>2. \A c \in wanted[current[b]] \cap (registered \ broken) : current[b] \in Handed(c)
    BY <1>1 DEF BroadcastInv, CallInv
  <2> QED BY <2>1, <2>2 DEF BroadcastInv, CompletedReachesAll, CallReturns, managerVars
<1>4. \A d \in Caller \ {b} : current[d] # None => current[d] \notin completed'
  BY <1>1, CallsUnderWay DEF CallReturns
<1>5. /\ current' \in [Caller -> 0..sent]
      /\ \A d \in Caller \ {b} : current'[d] = current[d]
      /\ current'[b] = None
  BY DEF CallReturns, BroadcastInv, TypeOK
<1>8. completed' \subseteq 1..sent
  BY <1>1 DEF CallReturns, BroadcastInv, TypeOK
<1>6. UNCHANGED <<backendVars, managerVars, sent, targets, ready, sending, inbox,
                  author, wanted>>
  BY DEF CallReturns
<1>7. /\ targets \in [Caller -> SUBSET issued] /\ ready \in [Caller -> SUBSET issued]
      /\ sending \in [Caller -> SUBSET issued]
  BY DEF BroadcastInv, TypeOK
<1> QED BY <1>2, <1>3, <1>4, <1>5, <1>6, <1>7, <1>8, CallMoves

LEMMA SendFailsKeeps ==
    ASSUME BroadcastInv, NEW b \in Caller, NEW c \in Conn, SendFails(b, c)
    PROVE  BroadcastInv'
<1>1. SendsBelongToCalls'
  BY DEF BroadcastInv, TypeOK, SendsBelongToCalls, SendFails
<1>2. CompletedReachesAll'
  BY CompletedFrame DEF SendFails, history
<1>3. \A d \in Caller : current[d] # None => current[d] \notin completed
  BY CallsUnderWay
<1>4. current[b] # None /\ targets[b] \cap ready[b] = {}
  BY DEF SendFails, BroadcastInv, SendsBelongToCalls, CallInv
<1> QED BY <1>1, <1>2, <1>3, <1>4, CallMoves
        DEF SendFails, BroadcastInv, TypeOK, history, Pending

LEMMA SendReturnsKeeps ==
    ASSUME BroadcastInv, NEW b \in Caller, NEW c \in Conn, SendReturns(b, c)
    PROVE  BroadcastInv'
<1>1. SendsBelongToCalls'
  BY DEF BroadcastInv, TypeOK, SendsBelongToCalls, SendReturns
<1>2. CompletedReachesAll'
  BY CompletedFrame DEF SendReturns, history
<1>3. \A d \in Caller : current[d] # None => current[d] \notin completed
  BY CallsUnderWay
<1>4. current[b] # None => targets[b] \cap ready[b] = {}
  BY DEF BroadcastInv, CallInv
<1> QED BY <1>1, <1>2, <1>3, <1>4, CallMoves
        DEF SendReturns, BroadcastInv, TypeOK, history, Pending

LEMMA CancelledKeeps ==
    ASSUME BroadcastInv, NEW b \in Caller, Cancelled(b)
    PROVE  BroadcastInv'
<1>1. SendsBelongToCalls'
  BY DEF BroadcastInv, TypeOK, SendsBelongToCalls, Cancelled
<1>2. CompletedReachesAll'
  BY CompletedFrame DEF Cancelled, history
<1>3. \A d \in Caller : current[d] # None => current[d] \notin completed
  BY CallsUnderWay
<1>4. /\ current' \in [Caller -> 0..sent] /\ completed \subseteq 1..sent
      /\ targets' \in [Caller -> SUBSET issued]
      /\ ready' \in [Caller -> SUBSET issued]
      /\ sending' \in [Caller -> SUBSET issued]
      /\ current'[b] = None
  BY DEF Cancelled, BroadcastInv, TypeOK
<1>5. \A d \in Caller \ {b} :
          /\ current'[d] = current[d] /\ targets'[d] = targets[d]
          /\ ready'[d] = ready[d] /\ sending'[d] = sending[d]
  BY DEF Cancelled, BroadcastInv, TypeOK
<1>6. UNCHANGED <<backendVars, managerVars, sent, inbox, author, wanted, completed>>
  BY DEF Cancelled, history
<1> QED BY <1>1, <1>2, <1>3, <1>4, <1>5, <1>6, CallMoves

(* The one step that hands a message over.                                 *)
LEMMA SendKeeps ==
    ASSUME BroadcastInv, NEW b \in Caller, NEW c \in Conn, Send(b, c)
    PROVE  BroadcastInv'
<1> DEFINE m == current[b]
<1>1. /\ m \in 1..sent /\ m # None /\ c \in Pending(b) /\ author[m] = b
      /\ c \in wanted[m] /\ m \notin Handed(c) /\ c \notin targets[b]
      /\ \A k \in 1..sent : author[k] = b => k <= m
  BY DEF Send, BroadcastInv, TypeOK, SendsBelongToCalls, CallInv, Pending
<1>2. /\ inbox[c] \in Seq(1..sent) /\ Len(inbox[c]) \in Nat
      /\ inbox'[c] = Append(inbox[c], m)
      /\ \A d \in Conn \ {c} : inbox'[d] = inbox[d]
  BY DEF Send, BroadcastInv, TypeOK
<1>3. /\ Handed(c)' = Handed(c) \cup {m}
      /\ \A d \in Conn \ {c} : Handed(d)' = Handed(d)
  BY <1>2 DEF Handed
<1>4. TypeOK'
  <2>1. inbox' \in [Conn -> Seq(1..sent)]
    BY <1>1, <1>2 DEF Send, BroadcastInv, TypeOK
  <2> QED BY <2>1, BackendFrame
          DEF Send, BroadcastInv, TypeOK, managerVars, backendVars, history
<1>5. OnlyTheWanted'
  BY <1>1, <1>3 DEF BroadcastInv, OnlyTheWanted, Send, history
<1>6. CallersOrderKept'
  <2> SUFFICES ASSUME NEW d \in Conn, NEW j \in DOMAIN inbox'[d], NEW i \in 1..j-1,
                      author[inbox'[d][i]] = author[inbox'[d][j]]
               PROVE  inbox'[d][i] < inbox'[d][j]
    BY DEF CallersOrderKept, Send, history
  <2>1. CASE d # c
    BY <1>2, <2>1 DEF BroadcastInv, CallersOrderKept
  <2>2. CASE d = c /\ j \in DOMAIN inbox[c]
    <3>1. inbox'[d][i] = inbox[c][i] /\ inbox'[d][j] = inbox[c][j]
      BY <1>2, <2>2
    <3> QED BY <2>2, <3>1 DEF BroadcastInv, CallersOrderKept
  <2>3. CASE d = c /\ j \notin DOMAIN inbox[c]
    <3>1. /\ inbox'[d][j] = m /\ i \in DOMAIN inbox[c]
          /\ inbox'[d][i] = inbox[c][i]
      BY <1>2, <2>3
    <3>3. inbox[c][i] \in 1..sent
      <4>1. inbox[c] \in Seq(1..sent) BY <1>2
      <4> QED BY <3>1, <4>1, ElementOfSeq
    <3>2. inbox[c][i] # m
      BY <1>1, <3>1 DEF Handed
    <3> QED BY <1>1, <2>3, <3>1, <3>2, <3>3
  <2> QED BY <2>1, <2>2, <2>3
<1>7. CompletedReachesAll'
  <2> SUFFICES ASSUME NEW k \in completed,
                      NEW d \in wanted[k] \cap (registered \ broken)
               PROVE  k \in Handed(d)'
    BY DEF CompletedReachesAll, Send, managerVars, history
  <2>1. k \in Handed(d) /\ d \in Conn
    BY DEF BroadcastInv, CompletedReachesAll, TypeOK, BackendInv, BackendTypeOK
  <2> QED BY <1>3, <2>1
<1>8. SendsBelongToCalls'
  BY <1>1 DEF BroadcastInv, SendsBelongToCalls, TypeOK, Send
<1>9. CallInv'
  <2> SUFFICES ASSUME NEW d \in Caller, current[d] # None
               PROVE  /\ author[current[d]] = d
                      /\ current[d] \notin completed
                      /\ \A k \in 1..sent : author[k] = d => k <= current[d]
                      /\ targets[d] \cap ready'[d] = {}
                      /\ \A e \in targets[d] \cup ready'[d] :
                            e \in wanted[current[d]] /\ current[d] \notin Handed(e)'
                      /\ \A e \in wanted[current[d]] \cap (registered \ broken) :
                            e \in targets[d] \cup ready'[d] \/ current[d] \in Handed(e)'
    BY DEF CallInv, Pending, Send, managerVars, history
  <2>1. /\ issued \subseteq Conn /\ wanted[current[d]] \subseteq Conn
        /\ targets[d] \cup ready[d] \subseteq Conn
    BY DEF BroadcastInv, TypeOK, BackendInv, BackendTypeOK
  <2>2. CASE d = b
    <3>1. ready'[d] = ready[d] \ {c}
      BY <2>2 DEF Send, BroadcastInv, TypeOK
    <3> QED BY <1>1, <1>3, <2>1, <2>2, <3>1 DEF BroadcastInv, CallInv, Pending
  <2>3. CASE d # b
    <3>1. ready'[d] = ready[d]
      BY <2>3 DEF Send, BroadcastInv, TypeOK
    <3>2. current[d] # m
      BY <1>1, <2>3 DEF BroadcastInv, CallInv
    <3> QED BY <1>3, <2>1, <3>1, <3>2 DEF BroadcastInv, CallInv, Pending
  <2> QED BY <2>2, <2>3
<1> QED BY <1>4, <1>5, <1>6, <1>7, <1>8, <1>9, BackendFrame DEF BroadcastInv, Send

LEMMA BroadcastStep == BroadcastInv /\ [Next]_vars => BroadcastInv'
<1> SUFFICES ASSUME BroadcastInv, [Next]_vars PROVE BroadcastInv'
  OBVIOUS
<1>1. ASSUME NEW c \in Conn, Connect(c) PROVE BroadcastInv'
  BY <1>1, ConnectKeeps
<1>2. ASSUME NEW c \in issued, Disconnect(c) \/ SocketBreaks(c) PROVE BroadcastInv'
  BY <1>2, DisconnectKeeps, SocketBreaksKeeps
<1>3. ASSUME NEW c \in issued, NEW r \in Room, Join(c, r) \/ Leave(c, r)
      PROVE  BroadcastInv'
  BY <1>3, MembershipKeeps
<1>4. ASSUME NEW b \in Caller, StartCall(b) PROVE BroadcastInv'
  BY <1>4, StartCallKeeps
<1>5. ASSUME NEW b \in Caller, Step(b) PROVE BroadcastInv'
  BY <1>5, NextChunkKeeps, CallReturnsKeeps, SendFailsKeeps, SendKeeps,
     SendReturnsKeeps DEF Step
<1>6. ASSUME NEW b \in Caller, Cancelled(b) PROVE BroadcastInv'
  BY <1>6, CancelledKeeps
<1>7. CASE UNCHANGED vars
  <2>1. BackendInv' BY <1>7, BackendFrame DEF vars
  <2> QED BY <1>7, <2>1, ConnectionsMove DEF vars, managerVars, backendVars,
          BroadcastInv, TypeOK
<1> QED BY <1>1, <1>2, <1>3, <1>4, <1>5, <1>6, <1>7 DEF Next

\* Every reachable state satisfies the invariant.
THEOREM BroadcastInvariant == Spec => []BroadcastInv
BY BroadcastInit, BroadcastStep, PTL DEF Spec

\* Sockets are handed only what was meant for their connections: no excluded
\* connection, no former member and no latecomer gets a broadcast.
THEOREM OnlyTheWantedAlways == Spec => []OnlyTheWanted
<1>1. BroadcastInv => OnlyTheWanted BY DEF BroadcastInv
<1> QED BY <1>1, BroadcastInvariant, PTL

\* What one task sends reaches every client in order and once.
THEOREM CallersOrderAlwaysKept == Spec => []CallersOrderKept
<1>1. BroadcastInv => CallersOrderKept BY DEF BroadcastInv
<1> QED BY <1>1, BroadcastInvariant, PTL

\* A broadcast that has returned has reached everybody who could be reached,
\* whatever the others did.
THEOREM CompletedAlwaysReachesAll == Spec => []CompletedReachesAll
<1>1. BroadcastInv => CompletedReachesAll BY DEF BroadcastInv
<1> QED BY <1>1, BroadcastInvariant, PTL

\* A cancelled broadcast leaves no send behind.
THEOREM SendsAlwaysBelongToCalls == Spec => []SendsBelongToCalls
<1>1. BroadcastInv => SendsBelongToCalls BY DEF BroadcastInv
<1> QED BY <1>1, BroadcastInvariant, PTL

-----------------------------------------------------------------------------
(* What the managers ask of the backend.                                   *)
LEMMA BackendStep == [Next]_vars => [BackendNext]_backendVars
<1> SUFFICES ASSUME [Next]_vars PROVE BackendNext \/ UNCHANGED backendVars
  OBVIOUS
<1>1. ASSUME NEW c \in Conn, Connect(c) PROVE BackendNext
  BY <1>1 DEF Connect, BackendNext
<1>2. ASSUME NEW c \in issued, Disconnect(c) \/ SocketBreaks(c)
      PROVE  BackendNext \/ UNCHANGED backendVars
  BY <1>2 DEF Disconnect, SocketBreaks, BackendNext
<1>3. ASSUME NEW c \in issued, NEW r \in Room, Join(c, r) \/ Leave(c, r) PROVE BackendNext
  BY <1>3 DEF Join, Leave, BackendNext
<1>4. ASSUME NEW b \in Caller, StartCall(b) \/ Step(b) \/ Cancelled(b)
      PROVE  UNCHANGED backendVars
  BY <1>4 DEF StartCall, BroadcastToRoom, BroadcastAll, BroadcastExcept, Emit, Call,
              Step, NextChunk, CallReturns, SendFails, Send, SendReturns, Cancelled
<1>5. CASE UNCHANGED vars
  BY <1>5 DEF vars, backendVars
<1> QED BY <1>1, <1>2, <1>3, <1>4, <1>5 DEF Next

LEMMA BackendSpecHolds == Spec => BackendSpec
<1>1. Init => BackendInit
  BY DEF Init
<1> QED BY <1>1, BackendStep, PTL DEF Spec, BackendSpec

\* Whatever connections and broadcasts do, remove_connection finds every room
\* of the connection it removes.
THEOREM IndexesAgreeInUse == Spec => []IndexesAgree
<1> QED BY BackendSpecHolds, IndexesAlwaysAgree, PTL

\* ... and a room whose last member has left, broken off or been removed has no
\* entry any more (remove_connection and remove_from_room delete it).
THEOREM RoomsNeverEmptyInUse == Spec => []NoEmptyRooms
<1> QED BY BackendSpecHolds, RoomsNeverEmpty, PTL

\* The connections of a server that broadcasts see one membership relation.
THEOREM MembershipImplementedInUse == Spec => ImplementsMembership
<1> QED BY BackendSpecHolds, BackendRefines, PTL
=============================================================================
