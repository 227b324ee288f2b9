---------------------------- MODULE QueueProofs ----------------------------
(***************************************************************************)
(* The two queues of messages that are read by name or by tab.  For any    *)
(* number of debug tabs and any queue size: a tab sees entries in order,   *)
(* and the newest ones whatever it is doing.  For any number of receiving  *)
(* tasks of a test: no message is lost, and each is returned in its turn.  *)
(***************************************************************************)
EXTENDS DebugFanout, TestClient, SequenceTheorems, TLAPS

-----------------------------------------------------------------------------
(* Sequences.                                                              *)
LEMMA SeqWidens ==
    ASSUME NEW S, NEW T, S \subseteq T, NEW s \in Seq(S)
    PROVE  s \in Seq(T)
<1>1. s \in [1..Len(s) -> T] /\ Len(s) \in Nat
  OBVIOUS
<1> QED BY <1>1

LEMMA TailFacts ==
    ASSUME NEW S, NEW s \in Seq(S), s # <<>>
    PROVE  /\ Len(s) \in Nat \ {0} /\ DOMAIN s = 1..Len(s)
           /\ Head(s) \in S /\ Head(s) = s[1]
           /\ Tail(s) \in Seq(S) /\ Len(Tail(s)) = Len(s) - 1
           /\ DOMAIN Tail(s) = 1..Len(s)-1
           /\ \A i \in 1..Len(s)-1 : Tail(s)[i] = s[i + 1]
BY HeadTailProperties, EmptySeq

LEMMA AppendFacts ==
    ASSUME NEW S, NEW s \in Seq(S), NEW e \in S
    PROVE  /\ Append(s, e) \in Seq(S) /\ Len(Append(s, e)) = Len(s) + 1
           /\ Len(s) \in Nat /\ DOMAIN s = 1..Len(s)
           /\ DOMAIN Append(s, e) = 1..Len(s)+1
           /\ Append(s, e)[Len(s) + 1] = e
           /\ \A i \in 1..Len(s) : Append(s, e)[i] = s[i]
OBVIOUS

\* s without its i-th element.
LEMMA RemoveAtFacts ==
    ASSUME NEW S, NEW s \in Seq(S), NEW i \in 1..Len(s)
    PROVE  /\ RemoveAt(s, i) \in Seq(S) /\ Len(RemoveAt(s, i)) = Len(s) - 1
           /\ DOMAIN RemoveAt(s, i) = 1..Len(s)-1
           /\ \A k \in 1..Len(s)-1 : RemoveAt(s, i)[k] = s[IF k < i THEN k ELSE k + 1]
<1> DEFINE a == SubSeq(s, 1, i - 1)
           b == SubSeq(s, i + 1, Len(s))
<1>0. Len(s) \in Nat /\ i \in Nat /\ 1 <= i /\ i <= Len(s) /\ RemoveAt(s, i) = a \o b
  BY DEF RemoveAt
<1>1. /\ a \in Seq(S) /\ Len(a) = i - 1
      /\ \A k \in 1..i-1 : a[k] = s[k]
  OBVIOUS
<1>2. /\ b \in Seq(S) /\ Len(b) = Len(s) - i
      /\ \A k \in 1..Len(s)-i : b[k] = s[k + i]
  OBVIOUS
<1> HIDE DEF a, b
<1>3. /\ a \o b \in Seq(S) /\ Len(a \o b) = Len(s) - 1
      /\ \A k \in 1..Len(s)-1 : (a \o b)[k] = IF k <= Len(a) THEN a[k] ELSE b[k - Len(a)]
  BY <1>0, <1>1, <1>2, ConcatProperties
<1>4. DOMAIN (a \o b) = 1..Len(s)-1
  BY <1>0, <1>3
<1>5. ASSUME NEW k \in 1..Len(s)-1
      PROVE  (a \o b)[k] = s[IF k < i THEN k ELSE k + 1]
  <2>1. CASE k < i
    <3>1. k \in 1..i-1 /\ k <= Len(a)
      BY <1>0, <1>1, <2>1
    <3> QED BY <1>1, <1>3, <2>1, <3>1
  <2>2. CASE ~(k < i)
    <3>1. k - Len(a) \in 1..Len(s)-i /\ ~(k <= Len(a)) /\ k - Len(a) + i = k + 1
      BY <1>0, <1>1, <2>2
    <3> QED BY <1>2, <1>3, <2>2, <3>1
  <2> QED BY <2>1, <2>2
<1> QED BY <1>0, <1>3, <1>4, <1>5

-----------------------------------------------------------------------------
(* The debug page: type correctness.                                       *)
FanoutTypeInv == TypeOK /\ queue \in [Tab -> Seq(Nat)]

\* What put_nowait makes of a queue: the n-th entry comes last, and the first is
\* gone if the queue was full.
PutIn(n, q, p) ==
    /\ p \in Seq(1..n) /\ Len(p) \in Nat \ {0} /\ Len(p) <= Cap /\ p[Len(p)] = n
    /\ \/ Len(p) = Len(q) + 1 /\ \A i \in 1..Len(q) : p[i] = q[i]
       \/ Len(p) = Cap /\ Len(q) = Cap /\ \A i \in 1..Cap-1 : p[i] = q[i + 1]

LEMMA PutFacts ==
    ASSUME NEW n \in Nat, NEW q \in Seq(1..n), Len(q) <= Cap
    PROVE  PutIn(n + 1, q, Put(q, n + 1))
<1>0. Len(q) \in Nat /\ Cap \in Nat /\ Cap > 0 /\ q \in Seq(1..n+1) /\ n + 1 \in 1..n+1
  <2>1. 1..n \subseteq 1..n+1
    OBVIOUS
  <2> QED BY <2>1, SeqWidens, CapAssumption
<1>1. CASE Len(q) < Cap
  <2>1. PutIn(n + 1, q, Append(q, n + 1))
    <3>1. /\ Append(q, n + 1) \in Seq(1..n+1) /\ Len(Append(q, n + 1)) = Len(q) + 1
          /\ Append(q, n + 1)[Len(q) + 1] = n + 1
          /\ \A i \in 1..Len(q) : Append(q, n + 1)[i] = q[i]
      BY <1>0, AppendFacts
    <3>2. Len(q) + 1 \in Nat \ {0} /\ Len(q) + 1 <= Cap
      BY <1>0, <1>1
    <3> QED BY <3>1, <3>2 DEF PutIn
  <2> QED BY <1>1, <2>1 DEF Put
<1>2. CASE Len(q) = Cap
  <2>1. q # <<>> /\ ~(Len(q) < Cap)
    BY <1>0, <1>2
  <2> DEFINE u == Tail(q)
  <2>2. /\ u \in Seq(1..n+1) /\ Len(u) = Len(q) - 1
        /\ \A i \in 1..Len(q)-1 : u[i] = q[i + 1]
    BY <1>0, <2>1, TailFacts
  <2>3. PutIn(n + 1, q, Append(u, n + 1))
    <3> HIDE DEF u
    <3>1. /\ Append(u, n + 1) \in Seq(1..n+1) /\ Len(Append(u, n + 1)) = Len(u) + 1
          /\ Append(u, n + 1)[Len(u) + 1] = n + 1
          /\ \A i \in 1..Len(u) : Append(u, n + 1)[i] = u[i]
      BY <1>0, <2>2, AppendFacts
    <3>2. Len(u) + 1 = Cap /\ Len(u) = Cap - 1
      BY <1>0, <1>2, <2>2
    <3>3. \A i \in 1..Cap-1 : Append(u, n + 1)[i] = q[i + 1]
      BY <1>2, <2>2, <3>1, <3>2
    <3> QED BY <1>0, <1>2, <3>1, <3>2, <3>3 DEF PutIn
  <2> QED BY <2>1, <2>3 DEF Put
<1>3. Len(q) < Cap \/ Len(q) = Cap
  BY <1>0
<1> QED BY <1>1, <1>2, <1>3

\* s counts on from b.
From(b, s) == \A i \in 1..Len(s) : s[i] = b + i

\* A queue of the newest entries stays one.
LEMMA PutKeepsNewest ==
    ASSUME NEW n \in Nat, NEW q \in Seq(1..n), From(n - Len(q), q), NEW p, PutIn(n + 1, q, p)
    PROVE  /\ Len(q) \in Nat /\ Len(p) \in Nat /\ n - Len(q) <= n + 1 - Len(p)
           /\ n + 1 - Len(p) \in {n - Len(q), n + 1 - Cap}
           /\ DOMAIN p = 1..Len(p) /\ From(n + 1 - Len(p), p)
<1>0. /\ Len(q) \in Nat /\ Cap \in Nat /\ Len(p) \in Nat \ {0} /\ DOMAIN p = 1..Len(p)
      /\ p[Len(p)] = n + 1
  BY CapAssumption DEF PutIn
<1>1. CASE Len(p) = Len(q) + 1 /\ \A i \in 1..Len(q) : p[i] = q[i]
  <2>1. n + 1 - Len(p) = n - Len(q)
    BY <1>0, <1>1
  <2>2. ASSUME NEW i \in 1..Len(p) PROVE p[i] = n + 1 - Len(p) + i
    <3>1. CASE i = Len(p)
      BY <1>0, <3>1
    <3>2. CASE i \in 1..Len(q)
      <4>1. p[i] = n - Len(q) + i
        BY <1>1, <3>2 DEF From
      <4> QED BY <2>1, <4>1
    <3> QED BY <1>0, <1>1, <3>1, <3>2
  <2> QED BY <1>0, <2>1, <2>2 DEF From
<1>2. CASE Len(p) = Cap /\ Len(q) = Cap /\ \A i \in 1..Cap-1 : p[i] = q[i + 1]
  <2>1. n + 1 - Len(p) = n - Len(q) + 1 /\ n + 1 - Len(p) = n + 1 - Cap
    BY <1>0, <1>2
  <2>2. ASSUME NEW i \in 1..Len(p) PROVE p[i] = n + 1 - Len(p) + i
    <3>1. CASE i = Len(p)
      BY <1>0, <3>1
    <3>2. CASE i \in 1..Cap-1
      <4>1. i + 1 \in 1..Len(q) /\ i \in Nat
        BY <1>0, <1>2, <3>2
      <4>2. p[i] = n - Len(q) + (i + 1)
        BY <1>2, <3>2, <4>1 DEF From
      <4>3. n - Len(q) + (i + 1) = n - Len(q) + 1 + i
        BY <1>0, <4>1
      <4> QED BY <2>1, <4>2, <4>3
    <3> QED BY <1>0, <1>2, <3>1, <3>2
  <2> QED BY <1>0, <2>1, <2>2 DEF From
<1> QED BY <1>1, <1>2 DEF PutIn

LEMMA FanoutFacts ==
    ASSUME FanoutTypeInv, NEW t \in Tab
    PROVE  /\ logged \in Nat /\ 1..logged \subseteq Nat
           /\ queue[t] \in Seq(1..logged) /\ queue[t] \in Seq(Nat)
           /\ Len(queue[t]) \in Nat /\ Len(queue[t]) <= Cap
           /\ DOMAIN queue[t] = 1..Len(queue[t])
           /\ held[t] \in Nat /\ held[t] \in 0..logged
           /\ sent[t] \in Seq(1..logged) /\ Len(sent[t]) \in Nat
           /\ DOMAIN sent[t] = 1..Len(sent[t])
           /\ since[t] \in Nat /\ since[t] <= logged
BY EntriesAssumption, CapAssumption DEF FanoutTypeInv, TypeOK

LEMMA LogTyped ==
    ASSUME FanoutTypeInv, Log
    PROVE  FanoutTypeInv'
<1>1. /\ logged \in Nat /\ logged < MaxEntries /\ logged' = logged + 1
      /\ 1..logged \subseteq 1..logged' /\ 0..logged \subseteq 0..logged'
      /\ 1..logged' \subseteq Nat /\ Cap \in Nat /\ logged' \in 0..MaxEntries
  BY EntriesAssumption, CapAssumption DEF Log, FanoutTypeInv, TypeOK
<1>2. ASSUME NEW t \in Tab
      PROVE  queue'[t] \in Seq(1..logged') /\ Len(queue'[t]) <= Cap
             /\ queue'[t] \in Seq(Nat) /\ sent[t] \in Seq(1..logged')
  <2>1. /\ queue[t] \in Seq(1..logged) /\ Len(queue[t]) <= Cap /\ sent[t] \in Seq(1..logged)
        /\ Len(queue[t]) \in Nat
    BY FanoutFacts
  <2>2. sent[t] \in Seq(1..logged') /\ queue[t] \in Seq(1..logged')
    BY <1>1, <2>1, SeqWidens
  <2>3. /\ Put(queue[t], logged + 1) \in Seq(1..logged+1)
        /\ Len(Put(queue[t], logged + 1)) <= Cap
    BY <1>1, <2>1, PutFacts DEF PutIn
  <2>4. queue'[t] = Put(queue[t], logged + 1) \/ queue'[t] = queue[t]
    BY DEF Log
  <2>5. queue'[t] \in Seq(1..logged') /\ Len(queue'[t]) <= Cap
    BY <1>1, <2>1, <2>2, <2>3, <2>4
  <2> QED BY <1>1, <2>2, <2>5, SeqWidens
<1>3. queue' \in [Tab -> Seq(Nat)]
  <2>1. queue' = [t \in Tab |-> queue'[t]]
    BY DEF Log
  <2> QED BY <1>2, <2>1
<1>4. sent' \in [Tab -> Seq(1..logged')]
  BY <1>2 DEF Log, FanoutTypeInv, TypeOK
<1>5. held' \in [Tab -> 0..logged'] /\ since' \in [Tab -> 0..logged']
  BY <1>1 DEF Log, tasks, FanoutTypeInv, TypeOK
<1>6. /\ shutdown' \in BOOLEAN /\ subscribers' \subseteq Tab /\ at' \in [Tab -> Label]
      /\ getting' \subseteq Tab /\ waiting' \subseteq Tab /\ woken' \subseteq Tab
      /\ gone' \subseteq Tab
  BY DEF Log, tasks, FanoutTypeInv, TypeOK
<1> QED BY <1>1, <1>2, <1>3, <1>4, <1>5, <1>6 DEF FanoutTypeInv, TypeOK

\* The steps of a tab.
TabStep(t) ==
    Open(t) \/ StreamStep(t) \/ RaceTimesOut(t) \/ ClientLeaves(t) \/ Cancelled(t)
        \/ CancelledInSend(t)

LEMMA QueueWith ==
    ASSUME NEW qs \in [Tab -> Seq(Nat)], NEW S, NEW q \in Seq(S), q \in Seq(Nat), Len(q) <= Cap,
           \A u \in Tab : qs[u] \in Seq(S) /\ Len(qs[u]) <= Cap, NEW t \in Tab,
           NEW new, new = [qs EXCEPT ![t] = q]
    PROVE  /\ new \in [Tab -> Seq(Nat)]
           /\ \A u \in Tab : new[u] \in Seq(S) /\ Len(new[u]) <= Cap
<1>1. new[t] = q /\ \A u \in Tab \ {t} : new[u] = qs[u]
  OBVIOUS
<1>2. new \in [Tab -> Seq(Nat)]
  OBVIOUS
<1> QED BY <1>1, <1>2

LEMMA TabTyped ==
    ASSUME FanoutTypeInv, NEW t \in Tab, TabStep(t)
    PROVE  FanoutTypeInv'
<1> USE DEF None, Label
<1>1. logged' = logged /\ shutdown' = shutdown
  BY DEF TabStep, StreamStep, RaceEnds, Open, CheckEnds, CheckGoesOn, GetReturns, WaitReturns,
     RaceEndsByShutdown, RaceEndsByEntry, SendReturns, Collected, RaceTimesOut, ClientLeaves,
     Cancelled, CancelledInSend
<1>2. /\ queue' \in [Tab -> Seq(Nat)]
      /\ \A u \in Tab : queue'[u] \in Seq(1..logged) /\ Len(queue'[u]) <= Cap
  <2>0. /\ queue \in [Tab -> Seq(Nat)]
        /\ \A u \in Tab : queue[u] \in Seq(1..logged) /\ Len(queue[u]) <= Cap
        /\ queue[t] \in Seq(1..logged) /\ queue[t] \in Seq(Nat) /\ Len(queue[t]) <= Cap
        /\ Len(queue[t]) \in Nat /\ Cap \in Nat
    BY FanoutFacts, CapAssumption DEF FanoutTypeInv, TypeOK
  <2>1. CASE GetReturns(t)
    <3>1. queue' = [queue EXCEPT ![t] = Tail(queue[t])] /\ queue[t] # <<>>
      BY <2>1 DEF GetReturns
    <3>2. /\ Tail(queue[t]) \in Seq(1..logged) /\ Tail(queue[t]) \in Seq(Nat)
          /\ Len(Tail(queue[t])) = Len(queue[t]) - 1
      BY <2>0, <3>1, TailFacts
    <3>3. Len(Tail(queue[t])) <= Cap
      BY <2>0, <3>2
    <3> QED BY <2>0, <3>1, <3>2, <3>3, QueueWith
  <2>2. CASE RaceEndsByShutdown(t) /\ held[t] # None /\ Len(queue[t]) < Cap
    <3>1. queue' = [queue EXCEPT ![t] = Append(queue[t], held[t])]
      BY <2>2 DEF RaceEndsByShutdown
    <3>2. held[t] \in 1..logged /\ held[t] \in Nat
      BY <2>2, FanoutFacts
    <3>3. /\ Append(queue[t], held[t]) \in Seq(1..logged)
          /\ Append(queue[t], held[t]) \in Seq(Nat)
          /\ Len(Append(queue[t], held[t])) = Len(queue[t]) + 1
      BY <2>0, <3>2, AppendFacts
    <3>4. Len(Append(queue[t], held[t])) <= Cap
      BY <2>0, <2>2, <3>3
    <3> QED BY <2>0, <3>1, <3>3, <3>4, QueueWith
  <2>3. CASE queue' = queue
    BY <2>0, <2>3
  <2> QED BY <2>1, <2>2, <2>3
          DEF TabStep, StreamStep, RaceEnds, Open, CheckEnds, CheckGoesOn, WaitReturns,
              RaceEndsByShutdown, RaceEndsByEntry, SendReturns, Collected, RaceTimesOut,
              ClientLeaves, Cancelled, CancelledInSend
<1>3. held' \in [Tab -> 0..logged]
  <2>0. held \in [Tab -> 0..logged] /\ 0 \in 0..logged
    BY FanoutFacts DEF FanoutTypeInv, TypeOK
  <2>1. CASE GetReturns(t)
    <3>1. held' = [held EXCEPT ![t] = Head(queue[t])] /\ queue[t] # <<>>
      BY <2>1 DEF GetReturns
    <3>2. Head(queue[t]) \in 1..logged /\ logged \in Nat
      BY <3>1, FanoutFacts, TailFacts
    <3> QED BY <2>0, <3>1, <3>2
  <2>2. CASE CancelPending(t)
    BY <2>0, <2>2 DEF CancelPending
  <2>3. CASE held' = held
    BY <2>0, <2>3
  <2> QED BY <2>1, <2>2, <2>3
          DEF TabStep, StreamStep, RaceEnds, Open, CheckEnds, CheckGoesOn, WaitReturns,
              RaceEndsByShutdown, RaceEndsByEntry, SendReturns, Collected, RaceTimesOut,
              ClientLeaves, Cancelled, CancelledInSend, tasks
<1>4. sent' \in [Tab -> Seq(1..logged)]
  <2>0. sent \in [Tab -> Seq(1..logged)] /\ sent[t] \in Seq(1..logged)
    BY DEF FanoutTypeInv, TypeOK
  <2>1. CASE RaceEndsByEntry(t)
    <3>1. sent' = [sent EXCEPT ![t] = Append(sent[t], held[t])] /\ held[t] # None
      BY <2>1 DEF RaceEndsByEntry
    <3>2. held[t] \in 1..logged
      BY <3>1, FanoutFacts
    <3>3. Append(sent[t], held[t]) \in Seq(1..logged)
      BY <2>0, <3>2, AppendFacts
    <3> QED BY <2>0, <3>1, <3>3
  <2>2. CASE sent' = sent
    BY <2>0, <2>2
  <2> QED BY <2>1, <2>2
          DEF TabStep, StreamStep, RaceEnds, Open, CheckEnds, CheckGoesOn, GetReturns, WaitReturns,
              RaceEndsByShutdown, SendReturns, Collected, RaceTimesOut,
              ClientLeaves, Cancelled, CancelledInSend
<1>5. since' \in [Tab -> 0..logged]
  <2>1. since \in [Tab -> 0..logged] /\ logged \in 0..logged
    BY FanoutFacts DEF FanoutTypeInv, TypeOK
  <2> QED BY <2>1
          DEF TabStep, StreamStep, RaceEnds, Open, CheckEnds, CheckGoesOn, GetReturns, WaitReturns,
              RaceEndsByShutdown, RaceEndsByEntry, SendReturns, Collected, RaceTimesOut,
              ClientLeaves, Cancelled, CancelledInSend
<1>6. at' \in [Tab -> Label] /\ subscribers' \subseteq Tab
  <2>1. at \in [Tab -> Label] /\ subscribers \subseteq Tab
    BY DEF FanoutTypeInv, TypeOK
  <2> QED BY <2>1
          DEF TabStep, StreamStep, RaceEnds, Open, CheckEnds, CheckGoesOn, GetReturns, WaitReturns,
              RaceEndsByShutdown, RaceEndsByEntry, SendReturns, Collected, RaceTimesOut,
              ClientLeaves, Cancelled, CancelledInSend, Goto, Finish
<1>7. /\ getting' \subseteq Tab /\ waiting' \subseteq Tab /\ woken' \subseteq Tab
      /\ gone' \subseteq Tab
  <2>1. /\ getting \subseteq Tab /\ waiting \subseteq Tab /\ woken \subseteq Tab
        /\ gone \subseteq Tab
    BY DEF FanoutTypeInv, TypeOK
  <2> QED BY <2>1
          DEF TabStep, StreamStep, RaceEnds, Open, CheckEnds, CheckGoesOn, GetReturns, WaitReturns,
              RaceEndsByShutdown, RaceEndsByEntry, SendReturns, Collected, RaceTimesOut,
              ClientLeaves, Cancelled, CancelledInSend, CancelPending, tasks
<1> QED BY <1>1, <1>2, <1>3, <1>4, <1>5, <1>6, <1>7 DEF FanoutTypeInv, TypeOK

-----------------------------------------------------------------------------
(* The debug page: the inductive invariant.                                *)
\* A generator holds an entry, or waits for one, only within a round; a tab that
\* has not been opened has nothing.
GeneratorInv ==
    \A t \in Tab :
        /\ t \in subscribers <=> at[t] \notin {"none", "ended"}
        /\ t \in subscribers /\ (t \in getting \/ held[t] # None) => at[t] = "race"
        /\ t \in subscribers /\ t \in getting => held[t] = None
        /\ at[t] = "none" => /\ queue[t] = <<>> /\ sent[t] = <<>>
                             /\ held[t] = None /\ t \notin getting

\* The newest entry that is no longer in the queue of a tab.
Base(t) == logged - Len(queue[t])

\* The queue of a tab holds the newest entries, without a gap; what it holds
\* otherwise is older, what it has been sent is older still.
InTurn(t) ==
    /\ since[t] <= Base(t)
    /\ \A i \in DOMAIN queue[t] : queue[t][i] = Base(t) + i
    /\ held[t] # None => since[t] < held[t] /\ held[t] <= Base(t)
    /\ \A i \in DOMAIN sent[t] :
          /\ since[t] < sent[t][i] /\ sent[t][i] <= Base(t)
          /\ held[t] # None => sent[t][i] < held[t]
          /\ \A j \in 1..i-1 : sent[t][j] < sent[t][i]

\* What has left the queue and is still among the newest has been sent, or will.
Newest(t) ==
    \A e \in 1..Base(t) :
        e > since[t] /\ e > logged - Cap => e = held[t] \/ \E i \in DOMAIN sent[t] : sent[t][i] = e

FanoutInv ==
    FanoutTypeInv /\ GeneratorInv /\ \A t \in subscribers : InTurn(t) /\ Newest(t)

LEMMA TabUnchanged ==
    ASSUME NEW t, InTurn(t), Newest(t), logged' = logged, queue'[t] = queue[t],
           held'[t] = held[t], sent'[t] = sent[t], since'[t] = since[t]
    PROVE  InTurn(t)' /\ Newest(t)'
BY DEF InTurn, Newest, Base

LEMMA LogInTurn ==
    ASSUME FanoutTypeInv, NEW t \in subscribers, t \in Tab, InTurn(t), Newest(t), Log
    PROVE  InTurn(t)' /\ Newest(t)'
<1> DEFINE q == queue[t]
           p == queue'[t]
           b == logged - Len(queue[t])
           c == logged' - Len(queue'[t])
<1>1. /\ logged' = logged + 1 /\ PutIn(logged + 1, q, p) /\ held'[t] = held[t]
      /\ sent'[t] = sent[t] /\ since'[t] = since[t]
  BY FanoutFacts, PutFacts DEF Log, tasks
<1>2. /\ logged \in Nat /\ q \in Seq(1..logged) /\ Len(q) <= Cap
      /\ DOMAIN q = 1..Len(q) /\ held[t] \in Nat /\ since[t] \in Nat /\ Cap \in Nat
      /\ DOMAIN sent[t] = 1..Len(sent[t])
      /\ \A i \in DOMAIN sent[t] : sent[t][i] \in Nat
  BY FanoutFacts, CapAssumption
<1>3. b = logged - Len(q) /\ c = (logged + 1) - Len(p)
  BY <1>1
<1>4. /\ since[t] <= b
      /\ From(logged - Len(q), q)
      /\ held[t] # None => since[t] < held[t] /\ held[t] <= b
      /\ \A i \in DOMAIN sent[t] :
            /\ since[t] < sent[t][i] /\ sent[t][i] <= b
            /\ held[t] # None => sent[t][i] < held[t]
            /\ \A j \in 1..i-1 : sent[t][j] < sent[t][i]
      /\ \A e \in 1..b : e > since[t] /\ e > logged - Cap =>
            e = held[t] \/ \E i \in DOMAIN sent[t] : sent[t][i] = e
  BY <1>2 DEF InTurn, Newest, Base, From
<1>b. logged' = logged + 1 /\ since'[t] = since[t] /\ held'[t] = held[t] /\ sent'[t] = sent[t]
  BY <1>1
<1> HIDE DEF q, p, b, c
<1>a. /\ Len(q) \in Nat /\ Len(p) \in Nat /\ logged - Len(q) <= logged + 1 - Len(p)
      /\ logged + 1 - Len(p) \in {logged - Len(q), logged + 1 - Cap}
      /\ DOMAIN p = 1..Len(p) /\ From(logged + 1 - Len(p), p)
  BY <1>1, <1>2, <1>4, PutKeepsNewest
<1>5. /\ b \in Int /\ c \in Int /\ b <= c
      /\ c = b \/ c = logged + 1 - Cap
      /\ \A i \in DOMAIN p : p[i] = c + i
  <2>1. \A i \in DOMAIN p : p[i] = c + i
    <3>1. \A i \in 1..Len(p) : p[i] = (logged + 1 - Len(p)) + i
      BY <1>a DEF From
    <3> QED BY <1>a, <1>3, <3>1, <1>2
  <2> QED BY <1>2, <1>3, <1>a, <2>1
<1>6. since[t] <= c /\ (held[t] # None => held[t] <= c)
  BY <1>2, <1>4, <1>5
<1>7. \A i \in DOMAIN sent[t] : sent[t][i] <= c
  BY <1>2, <1>4, <1>5
<1>8. ASSUME NEW e \in 1..c, e > since[t], e > logged + 1 - Cap
      PROVE  e = held[t] \/ \E i \in DOMAIN sent[t] : sent[t][i] = e
  <2>1. e \in 1..b /\ e > logged - Cap
    BY <1>2, <1>5, <1>8
  <2> QED BY <1>4, <1>8, <2>1
<1>9. /\ since'[t] <= c
      /\ \A i \in DOMAIN p : p[i] = c + i
      /\ held'[t] # None => since'[t] < held'[t] /\ held'[t] <= c
      /\ \A i \in DOMAIN sent'[t] :
            /\ since'[t] < sent'[t][i] /\ sent'[t][i] <= c
            /\ held'[t] # None => sent'[t][i] < held'[t]
            /\ \A j \in 1..i-1 : sent'[t][j] < sent'[t][i]
  BY <1>1, <1>4, <1>5, <1>6, <1>7
<1>10. \A e \in 1..c : e > since'[t] /\ e > logged' - Cap =>
         e = held'[t] \/ \E i \in DOMAIN sent'[t] : sent'[t][i] = e
  <2>1. ASSUME NEW e \in 1..c, e > since'[t], e > logged' - Cap
        PROVE  e = held'[t] \/ \E i \in DOMAIN sent'[t] : sent'[t][i] = e
    <3>1. e > since[t] /\ e > logged + 1 - Cap
      BY <1>b, <1>2, <1>5, <2>1
    <3> QED BY <1>b, <1>8, <3>1
  <2> QED BY <2>1
<1> QED BY <1>9, <1>10 DEF InTurn, Newest, Base, p, c, None

\* A step of one tab leaves the others alone.
LEMMA OthersUntouched ==
    ASSUME FanoutTypeInv, NEW t \in Tab, TabStep(t), NEW u \in Tab, u # t
    PROVE  /\ logged' = logged /\ queue'[u] = queue[u] /\ held'[u] = held[u]
           /\ sent'[u] = sent[u] /\ since'[u] = since[u] /\ at'[u] = at[u]
           /\ u \in subscribers' <=> u \in subscribers
           /\ u \in getting' <=> u \in getting
<1>1. /\ queue \in [Tab -> Seq(Nat)] /\ held \in [Tab -> 0..logged]
      /\ sent \in [Tab -> Seq(1..logged)] /\ since \in [Tab -> 0..logged]
      /\ at \in [Tab -> Label]
  BY DEF FanoutTypeInv, TypeOK
<1>2. CASE Open(t) \/ CheckEnds(t) \/ CheckGoesOn(t) \/ SendReturns(t) \/ Collected(t)
  BY <1>1, <1>2 DEF Open, CheckEnds, CheckGoesOn, SendReturns, Collected, Goto, Finish, tasks
<1>3. CASE GetReturns(t) \/ WaitReturns(t)
  BY <1>1, <1>3 DEF GetReturns, WaitReturns
<1>4. CASE RaceEndsByShutdown(t)
  BY <1>1, <1>4 DEF RaceEndsByShutdown, Goto, Finish, CancelPending
<1>5. CASE RaceEndsByEntry(t) \/ RaceTimesOut(t)
  BY <1>1, <1>5 DEF RaceEndsByEntry, RaceTimesOut, Goto, Finish, CancelPending
<1>6. CASE ClientLeaves(t) \/ Cancelled(t) \/ CancelledInSend(t)
  BY <1>1, <1>6 DEF ClientLeaves, Cancelled, CancelledInSend, Goto, Finish, tasks
<1> QED BY <1>2, <1>3, <1>4, <1>5, <1>6 DEF TabStep, StreamStep, RaceEnds

LEMMA GeneratorKept ==
    ASSUME FanoutTypeInv, GeneratorInv, NEW t \in Tab, TabStep(t)
    PROVE  GeneratorInv'
<1> DEFINE Part(u) ==
        /\ u \in subscribers <=> at[u] \notin {"none", "ended"}
        /\ u \in subscribers /\ (u \in getting \/ held[u] # None) => at[u] = "race"
        /\ u \in subscribers /\ u \in getting => held[u] = None
        /\ at[u] = "none" => /\ queue[u] = <<>> /\ sent[u] = <<>>
                             /\ held[u] = None /\ u \notin getting
<1>1. ASSUME NEW u \in Tab, u # t PROVE Part(u)'
  <2>1. Part(u)
    BY DEF GeneratorInv
  <2> QED BY <1>1, <2>1, OthersUntouched, Zenon DEF None
<1>2. Part(t)'
  <2>1. /\ Part(t)
        /\ held \in [Tab -> 0..logged] /\ at \in [Tab -> Label]
    BY DEF GeneratorInv, FanoutTypeInv, TypeOK
  <2>2. CASE Open(t) \/ CheckEnds(t) \/ CheckGoesOn(t) \/ SendReturns(t) \/ Collected(t)
    BY <2>1, <2>2 DEF Open, CheckEnds, CheckGoesOn, SendReturns, Collected, Goto, Finish,
       tasks, None
  <2>3. CASE GetReturns(t) \/ WaitReturns(t)
    BY <2>1, <2>3 DEF GetReturns, WaitReturns, None
  <2>4. CASE RaceEnds(t) \/ RaceTimesOut(t)
    BY <2>1, <2>4 DEF RaceEnds, RaceEndsByShutdown, RaceEndsByEntry, RaceTimesOut, Goto, Finish,
       CancelPending, None
  <2>5. CASE ClientLeaves(t) \/ Cancelled(t) \/ CancelledInSend(t)
    BY <2>1, <2>5 DEF ClientLeaves, Cancelled, CancelledInSend, Goto, Finish, tasks, None
  <2> QED BY <2>2, <2>3, <2>4, <2>5 DEF TabStep, StreamStep
<1> QED BY <1>1, <1>2 DEF GeneratorInv

\* A tab that is opened has nothing, and nothing logged since.
LEMMA OpenInTurn ==
    ASSUME FanoutTypeInv, GeneratorInv, NEW t \in Tab, Open(t)
    PROVE  InTurn(t)' /\ Newest(t)'
<1>1. /\ queue'[t] = <<>> /\ sent'[t] = <<>> /\ held'[t] = None /\ logged' = logged
      /\ since'[t] = logged /\ logged \in Nat
  BY FanoutFacts DEF Open, GeneratorInv, tasks, FanoutTypeInv, TypeOK
<1>2. /\ Len(queue'[t]) = 0 /\ DOMAIN queue'[t] = {} /\ DOMAIN sent'[t] = {}
  BY <1>1
<1>3. logged' - Len(queue'[t]) = logged
  BY <1>1, <1>2
<1> QED BY <1>1, <1>2, <1>3 DEF InTurn, Newest, Base

\* The get_task takes the oldest entry of the queue.
LEMMA GetInTurn ==
    ASSUME FanoutTypeInv, GeneratorInv, NEW t \in subscribers, t \in Tab,
           InTurn(t), Newest(t), GetReturns(t)
    PROVE  InTurn(t)' /\ Newest(t)'
<1> DEFINE q == queue[t]
           p == queue'[t]
           b == logged - Len(queue[t])
           c == logged' - Len(queue'[t])
<1>1. /\ logged' = logged /\ q # <<>> /\ p = Tail(q) /\ held'[t] = Head(q)
      /\ sent'[t] = sent[t] /\ since'[t] = since[t] /\ held[t] = None
  BY DEF GetReturns, GeneratorInv, FanoutTypeInv, TypeOK
<1>2. /\ logged \in Nat /\ q \in Seq(1..logged) /\ Len(q) \in Nat
      /\ held[t] \in Nat /\ since[t] \in Nat /\ Cap \in Nat
      /\ DOMAIN sent[t] = 1..Len(sent[t]) /\ DOMAIN q = 1..Len(q)
      /\ \A i \in DOMAIN sent[t] : sent[t][i] \in Nat
  BY FanoutFacts, CapAssumption
<1>3. /\ since[t] <= b
      /\ \A i \in DOMAIN q : q[i] = b + i
      /\ \A i \in DOMAIN sent[t] :
            /\ since[t] < sent[t][i] /\ sent[t][i] <= b
            /\ \A j \in 1..i-1 : sent[t][j] < sent[t][i]
      /\ \A e \in 1..b : e > since[t] /\ e > logged - Cap =>
            e = held[t] \/ \E i \in DOMAIN sent[t] : sent[t][i] = e
  BY DEF InTurn, Newest, Base
<1>4. /\ Len(q) > 0 /\ Head(q) = q[1] /\ Len(p) = Len(q) - 1 /\ DOMAIN p = 1..Len(q)-1
      /\ \A i \in 1..Len(q)-1 : p[i] = q[i + 1]
  <2>1. Tail(q) = p
    BY <1>1
  <2> HIDE DEF q, p
  <2> QED BY <1>1, <1>2, <2>1, TailFacts
<1>5. b = logged - Len(q) /\ c = logged - Len(p)
  BY <1>1
<1> HIDE DEF q, p, b, c
<1>6. b \in Int /\ c = b + 1
  BY <1>2, <1>4, <1>5
<1>7. held'[t] = c
  <2>1. 1 \in DOMAIN q
    BY <1>2, <1>4
  <2> QED BY <1>1, <1>3, <1>4, <1>6, <2>1
<1>8. \A i \in DOMAIN p : p[i] = c + i
  <2>1. ASSUME NEW i \in 1..Len(q)-1 PROVE p[i] = c + i
    <3>1. i + 1 \in DOMAIN q /\ i \in Nat
      BY <1>2
    <3>2. p[i] = b + (i + 1)
      BY <1>3, <1>4, <3>1
    <3> QED BY <1>6, <3>1, <3>2
  <2> QED BY <1>4, <2>1
<1>9. since[t] < c
  BY <1>2, <1>3, <1>6
<1>10. \A i \in DOMAIN sent[t] : sent[t][i] < c
  BY <1>2, <1>3, <1>6
<1>11. /\ since'[t] <= c
       /\ \A i \in DOMAIN p : p[i] = c + i
       /\ held'[t] # None => since'[t] < held'[t] /\ held'[t] <= c
       /\ \A i \in DOMAIN sent'[t] :
             /\ since'[t] < sent'[t][i] /\ sent'[t][i] <= c
             /\ held'[t] # None => sent'[t][i] < held'[t]
             /\ \A j \in 1..i-1 : sent'[t][j] < sent'[t][i]
  <2>1. since'[t] <= c /\ (held'[t] # None => since'[t] < held'[t] /\ held'[t] <= c)
    BY <1>1, <1>2, <1>6, <1>7, <1>9
  <2>2. \A i \in DOMAIN sent[t] : sent[t][i] <= c
    BY <1>2, <1>6, <1>10
  <2> QED BY <1>1, <1>3, <1>7, <1>8, <1>10, <2>1, <2>2
<1>12. ASSUME NEW e \in 1..c, e > since[t], e > logged - Cap
       PROVE  e = held'[t] \/ \E i \in DOMAIN sent[t] : sent[t][i] = e
  <2>1. CASE e = c
    BY <1>7, <2>1
  <2>2. CASE e \in 1..b
    <3>1. e # None
      BY <2>2 DEF None
    <3> QED BY <1>1, <1>3, <1>12, <2>2, <3>1
  <2>3. e = c \/ e \in 1..b
    BY <1>6
  <2> QED BY <2>1, <2>2, <2>3
<1>13. \A e \in 1..c : e > since'[t] /\ e > logged' - Cap =>
          e = held'[t] \/ \E i \in DOMAIN sent'[t] : sent'[t][i] = e
  BY <1>1, <1>12
<1> QED BY <1>11, <1>13 DEF InTurn, Newest, Base, p, c, None

\* The entry that was got is sent.
LEMMA EntryInTurn ==
    ASSUME FanoutTypeInv, NEW t \in Tab, InTurn(t), Newest(t), RaceEndsByEntry(t)
    PROVE  InTurn(t)' /\ Newest(t)'
<1> DEFINE s == sent[t]
           u == sent'[t]
           h == held[t]
           b == logged - Len(queue[t])
           c == logged' - Len(queue'[t])
<1>1. /\ logged' = logged /\ queue'[t] = queue[t] /\ held'[t] = None /\ h # None
      /\ u = Append(s, h) /\ since'[t] = since[t] /\ c = b
  BY DEF RaceEndsByEntry, CancelPending, FanoutTypeInv, TypeOK
<1>2. /\ s \in Seq(1..logged) /\ Len(s) \in Nat /\ DOMAIN s = 1..Len(s) /\ h \in 1..logged
      /\ logged \in Nat
  BY <1>1, FanoutFacts DEF None
<1>3. /\ since[t] <= b
      /\ \A i \in DOMAIN queue[t] : queue[t][i] = b + i
      /\ since[t] < h /\ h <= b
      /\ \A i \in DOMAIN s :
            /\ since[t] < s[i] /\ s[i] <= b /\ s[i] < h
            /\ \A j \in 1..i-1 : s[j] < s[i]
      /\ \A e \in 1..b : e > since[t] /\ e > logged - Cap =>
            e = h \/ \E i \in DOMAIN s : s[i] = e
  BY <1>1 DEF InTurn, Newest, Base
<1>4. /\ DOMAIN u = 1..Len(s)+1 /\ u[Len(s) + 1] = h /\ \A i \in 1..Len(s) : u[i] = s[i]
  <2>1. u = Append(s, h)
    BY <1>1
  <2> HIDE DEF s, u, h
  <2> QED BY <1>2, <2>1, AppendFacts
<1> HIDE DEF s, u, h, b, c
<1>5. ASSUME NEW i \in DOMAIN u
      PROVE  /\ since[t] < u[i] /\ u[i] <= b
             /\ \A j \in 1..i-1 : u[j] < u[i]
  <2>1. CASE i = Len(s) + 1
    <3>1. i - 1 = Len(s) /\ u[i] = h
      BY <1>2, <1>4, <2>1
    <3>2. \A j \in 1..i-1 : u[j] < u[i]
      BY <1>2, <1>3, <1>4, <3>1
    <3> QED BY <1>3, <3>1, <3>2
  <2>2. CASE i \in 1..Len(s)
    <3>1. \A j \in 1..i-1 : j \in 1..Len(s)
      BY <1>2, <2>2
    <3> QED BY <1>2, <1>3, <1>4, <2>2, <3>1
  <2> QED BY <1>2, <1>4, <2>1, <2>2
<1>6. ASSUME NEW e \in 1..b, e > since[t], e > logged - Cap
      PROVE  \E i \in DOMAIN u : u[i] = e
  <2>1. CASE e = h
    BY <1>2, <1>4, <2>1
  <2>2. CASE \E i \in DOMAIN s : s[i] = e
    <3>1. PICK i \in DOMAIN s : s[i] = e
      BY <2>2
    <3>2. i \in DOMAIN u /\ u[i] = e
      BY <1>2, <1>4, <3>1
    <3> QED BY <3>2
  <2> QED BY <1>3, <1>6, <2>1, <2>2
<1>7. InTurn(t)'
  <2>1. /\ since'[t] <= c
        /\ \A i \in DOMAIN queue'[t] : queue'[t][i] = c + i
        /\ held'[t] = None
        /\ \A i \in DOMAIN u :
              /\ since'[t] < u[i] /\ u[i] <= c
              /\ \A j \in 1..i-1 : u[j] < u[i]
    BY <1>1, <1>3, <1>5
  <2> QED BY <2>1 DEF InTurn, Base, u, c, None
<1>8. Newest(t)'
  <2>1. \A e \in 1..c : e > since'[t] /\ e > logged' - Cap => \E i \in DOMAIN u : u[i] = e
    BY <1>1, <1>6
  <2> QED BY <2>1 DEF Newest, Base, u, c
<1> QED BY <1>7, <1>8

LEMMA TabInTurn ==
    ASSUME FanoutInv, NEW t \in Tab, TabStep(t)
    PROVE  \A u \in subscribers' : InTurn(u)' /\ Newest(u)'
<1>1. /\ FanoutTypeInv /\ GeneratorInv /\ subscribers \subseteq Tab /\ FanoutTypeInv'
      /\ subscribers' \subseteq Tab
      /\ \A u \in subscribers : InTurn(u) /\ Newest(u)
  <2>1. FanoutTypeInv'
    BY TabTyped DEF FanoutInv
  <2> QED BY <2>1 DEF FanoutInv, FanoutTypeInv, TypeOK
<1>2. ASSUME NEW u \in subscribers', u # t PROVE InTurn(u)' /\ Newest(u)'
  BY <1>1, <1>2, OthersUntouched, TabUnchanged
<1>3. ASSUME t \in subscribers' PROVE InTurn(t)' /\ Newest(t)'
  <2>1. CASE Open(t)
    BY <1>1, <2>1, OpenInTurn
  <2>2. CASE GetReturns(t)
    <3>1. t \in subscribers
      BY <1>3, <2>2 DEF GetReturns
    <3> QED BY <1>1, <2>2, <3>1, GetInTurn
  <2>3. CASE RaceEndsByEntry(t)
    <3>1. t \in subscribers
      BY <1>3, <2>3 DEF RaceEndsByEntry
    <3> QED BY <1>1, <2>3, <3>1, EntryInTurn
  <2>4. CASE CheckGoesOn(t) \/ WaitReturns(t) \/ SendReturns(t) \/ ClientLeaves(t)
             \/ CancelledInSend(t)
    <3>1. /\ t \in subscribers /\ logged' = logged /\ queue'[t] = queue[t]
          /\ held'[t] = held[t] /\ sent'[t] = sent[t] /\ since'[t] = since[t]
      BY <1>3, <2>4 DEF CheckGoesOn, WaitReturns, SendReturns, ClientLeaves, CancelledInSend,
         tasks
    <3> QED BY <1>1, <3>1, TabUnchanged
  <2>5. CASE RaceTimesOut(t)
    <3>1. /\ t \in subscribers /\ logged' = logged /\ queue'[t] = queue[t]
          /\ held'[t] = held[t] /\ sent'[t] = sent[t] /\ since'[t] = since[t]
      <4>1. held \in [Tab -> 0..logged]
        BY <1>1 DEF FanoutTypeInv, TypeOK
      <4> QED BY <1>3, <2>5, <4>1 DEF RaceTimesOut, CancelPending, Finish
    <3> QED BY <1>1, <3>1, TabUnchanged
  <2>6. CASE CheckEnds(t) \/ RaceEndsByShutdown(t) \/ Cancelled(t) \/ Collected(t)
    BY <1>3, <2>6 DEF CheckEnds, RaceEndsByShutdown, Cancelled, Collected, Finish
  <2> QED BY <2>1, <2>2, <2>3, <2>4, <2>5, <2>6 DEF TabStep, StreamStep, RaceEnds
<1> QED BY <1>2, <1>3

LEMMA FanoutInit ==
    ASSUME Init
    PROVE  FanoutInv
<1>1. logged = 0 /\ 0 \in 0..MaxEntries /\ Cap \in Nat
  BY EntriesAssumption, CapAssumption DEF Init
<1>2. <<>> \in Seq(1..logged) /\ <<>> \in Seq(Nat) /\ Len(<<>>) = 0
  OBVIOUS
<1>3. /\ \A t \in Tab : queue[t] = <<>> /\ sent[t] = <<>> /\ held[t] = 0 /\ at[t] = "none"
      /\ queue = [t \in Tab |-> <<>>] /\ sent = [t \in Tab |-> <<>>]
      /\ held = [t \in Tab |-> 0] /\ since = [t \in Tab |-> 0] /\ at = [t \in Tab |-> "none"]
      /\ subscribers = {} /\ getting = {} /\ waiting = {} /\ woken = {} /\ gone = {}
      /\ shutdown = FALSE
  BY DEF Init, None
<1>4. TypeOK
  <2>1. held \in [Tab -> 0..logged] /\ since \in [Tab -> 0..logged]
    <3>1. 0 \in 0..logged
      BY <1>1
    <3> QED BY <1>3, <3>1
  <2>2. at \in [Tab -> Label]
    BY <1>3 DEF Label
  <2>3. sent \in [Tab -> Seq(1..logged)]
    BY <1>2, <1>3
  <2>4. \A t \in Tab : queue[t] \in Seq(1..logged) /\ Len(queue[t]) <= Cap
    BY <1>1, <1>2, <1>3, CapAssumption
  <2> QED BY <1>1, <1>3, <2>1, <2>2, <2>3, <2>4 DEF TypeOK
<1>5. queue \in [Tab -> Seq(Nat)]
  BY <1>2, <1>3
<1>6. GeneratorInv
  BY <1>3 DEF GeneratorInv, None
<1> QED BY <1>3, <1>4, <1>5, <1>6 DEF FanoutInv, FanoutTypeInv

LEMMA FanoutStep ==
    ASSUME FanoutInv, [Next]_vars
    PROVE  FanoutInv'
<1>1. CASE Log
  <2>1. FanoutTypeInv'
    BY <1>1, LogTyped DEF FanoutInv
  <2>2. GeneratorInv'
    <3>1. /\ subscribers' = subscribers /\ at' = at /\ getting' = getting /\ held' = held
          /\ sent' = sent /\ \A t \in Tab : t \notin subscribers => queue'[t] = queue[t]
      BY <1>1 DEF Log, tasks
    <3> QED BY <3>1 DEF FanoutInv, GeneratorInv
  <2>3. \A t \in subscribers' : InTurn(t)' /\ Newest(t)'
    <3>1. subscribers' = subscribers /\ subscribers \subseteq Tab
      BY <1>1 DEF Log, FanoutInv, FanoutTypeInv, TypeOK
    <3> QED BY <1>1, <3>1, LogInTurn DEF FanoutInv
  <2> QED BY <2>1, <2>2, <2>3 DEF FanoutInv
<1>2. CASE Shutdown \/ UNCHANGED vars
  <2>1. /\ logged' = logged /\ shutdown' \in BOOLEAN /\ subscribers' = subscribers
        /\ queue' = queue /\ at' = at /\ getting' = getting /\ held' = held
        /\ waiting' = waiting /\ woken' = woken /\ gone' = gone /\ sent' = sent
        /\ since' = since
    BY <1>2 DEF Shutdown, vars, tasks, FanoutInv, FanoutTypeInv, TypeOK
  <2>2. FanoutTypeInv'
    BY <2>1 DEF FanoutInv, FanoutTypeInv, TypeOK
  <2>3. GeneratorInv'
    BY <2>1 DEF FanoutInv, GeneratorInv
  <2>4. \A t \in subscribers' : InTurn(t)' /\ Newest(t)'
    BY <2>1, TabUnchanged DEF FanoutInv
  <2> QED BY <2>2, <2>3, <2>4 DEF FanoutInv
<1>3. CASE \E t \in Tab : TabStep(t)
  <2>1. PICK t \in Tab : TabStep(t)
    BY <1>3
  <2>2. FanoutTypeInv' /\ GeneratorInv'
    BY <2>1, TabTyped, GeneratorKept DEF FanoutInv
  <2> QED BY <2>1, <2>2, TabInTurn DEF FanoutInv
<1> QED BY <1>1, <1>2, <1>3 DEF Next, TabStep

\* Debug page: the inductive invariant holds throughout, for any number of tabs and
\* any queue size: the queue is the gapless newest part of what was logged.
THEOREM FanoutInvariant == Spec => []FanoutInv
<1>1. Init => FanoutInv
  BY FanoutInit
<1>2. FanoutInv /\ [Next]_vars => FanoutInv'
  BY FanoutStep
<1> QED BY <1>1, <1>2, PTL DEF Spec

\* Debug page: every variable keeps its type, and no queue grows past its maxsize.
THEOREM FanoutTypeCorrect == Spec => []TypeOK
<1>1. FanoutInv => TypeOK
  BY DEF FanoutInv, FanoutTypeInv
<1> QED BY <1>1, FanoutInvariant, PTL

-----------------------------------------------------------------------------
(* The debug page: what a tab sees.                                        *)
\* Where the entries of a stream come from.
LEMMA StreamFacts ==
    ASSUME FanoutInv, NEW t \in subscribers
    PROVE  LET a == Len(sent[t])
               h == IF held[t] = None THEN 0 ELSE 1
               c == Len(queue[t])
           IN  /\ a \in Nat /\ c \in Nat /\ DOMAIN Stream(t) = 1..a + h + c
               /\ \A i \in 1..a : Stream(t)[i] = sent[t][i]
               /\ held[t] # None => Stream(t)[a + 1] = held[t]
               /\ \A i \in a+h+1..a+h+c : Stream(t)[i] = queue[t][i - a - h]
<1> DEFINE s == sent[t]
           m == IF held[t] = None THEN <<>> ELSE <<held[t]>>
           q == queue[t]
           h == IF held[t] = None THEN 0 ELSE 1
<1>1. /\ s \in Seq(Nat) /\ Len(s) \in Nat /\ q \in Seq(Nat) /\ Len(q) \in Nat
      /\ held[t] \in Nat
  <2>1. FanoutTypeInv /\ t \in Tab
    BY DEF FanoutInv, FanoutTypeInv, TypeOK
  <2> QED BY <2>1, FanoutFacts, SeqWidens
<1>2. m \in Seq(Nat) /\ Len(m) = h /\ h \in Nat /\ (held[t] # None => h = 1 /\ m[1] = held[t])
  <2>1. CASE held[t] = None
    BY <2>1
  <2>2. CASE held[t] # None
    BY <1>1, <2>2
  <2> QED BY <2>1, <2>2
<1>3. Stream(t) = (s \o m) \o q
  BY DEF Stream
<1>h. h = IF held[t] = None THEN 0 ELSE 1
  OBVIOUS
<1> HIDE DEF m, h, s, q
<1>4. /\ s \o m \in Seq(Nat) /\ Len(s \o m) = Len(s) + h
      /\ \A i \in 1..Len(s)+h : (s \o m)[i] = IF i <= Len(s) THEN s[i] ELSE m[i - Len(s)]
  BY <1>1, <1>2, ConcatProperties
<1> DEFINE r == s \o m
<1>r. /\ r \in Seq(Nat) /\ Len(r) = Len(s) + h /\ Stream(t) = r \o q
  BY <1>3, <1>4
<1>5. /\ (s \o m) \o q \in Seq(Nat) /\ Len((s \o m) \o q) = Len(s) + h + Len(q)
      /\ \A i \in 1..Len(s)+h+Len(q) : ((s \o m) \o q)[i] =
            IF i <= Len(s) + h THEN (s \o m)[i] ELSE q[i - (Len(s) + h)]
  <2>1. Len(r) \in Nat /\ h \in Nat
    BY <1>1, <1>2, <1>r
  <2> HIDE DEF r
  <2>2. /\ r \o q \in Seq(Nat) /\ Len(r \o q) = Len(r) + Len(q)
        /\ \A i \in 1..Len(r)+Len(q) : (r \o q)[i] =
              IF i <= Len(r) THEN r[i] ELSE q[i - Len(r)]
    BY <1>1, <1>r, ConcatProperties
  <2>3. /\ r \o q \in Seq(Nat) /\ Len(r \o q) = Len(s) + h + Len(q)
        /\ \A i \in 1..Len(s)+h+Len(q) : (r \o q)[i] =
              IF i <= Len(s) + h THEN r[i] ELSE q[i - (Len(s) + h)]
    BY <1>r, <2>1, <2>2
  <2> QED BY <2>3 DEF r
<1>6. DOMAIN Stream(t) = 1..Len(s)+h+Len(q)
  BY <1>3, <1>5
<1>7. \A i \in 1..Len(s) : Stream(t)[i] = s[i]
  BY <1>1, <1>2, <1>3, <1>4, <1>5
<1>8. held[t] # None => Stream(t)[Len(s) + 1] = held[t]
  <2>1. ASSUME held[t] # None PROVE Stream(t)[Len(s) + 1] = held[t]
    <3>1. /\ Len(s) + 1 \in 1..Len(s)+h /\ Len(s) + 1 \in 1..Len(s)+h+Len(q)
          /\ Len(s) + 1 <= Len(s) + h /\ ~(Len(s) + 1 <= Len(s)) /\ Len(s) + 1 - Len(s) = 1
      BY <1>1, <1>2, <2>1
    <3> QED BY <1>2, <1>3, <1>4, <1>5, <2>1, <3>1
  <2> QED BY <2>1
<1>9. \A i \in Len(s)+h+1..Len(s)+h+Len(q) : Stream(t)[i] = q[i - Len(s) - h]
  <2>1. ASSUME NEW i \in Len(s)+h+1..Len(s)+h+Len(q) PROVE Stream(t)[i] = q[i - Len(s) - h]
    <3>1. /\ i \in 1..Len(s)+h+Len(q) /\ ~(i <= Len(s) + h)
          /\ i - (Len(s) + h) = i - Len(s) - h
      BY <1>1, <1>2
    <3> QED BY <1>3, <1>5, <3>1
  <2> QED BY <2>1
<1> QED BY <1>1, <1>6, <1>7, <1>8, <1>9, <1>h DEF s, q

\* A stream is a entries sent, h held and c queued.
Parts(t, a, h, c) ==
    /\ a \in Nat /\ h \in {0, 1} /\ c \in Nat
    /\ DOMAIN Stream(t) = 1..a + h + c /\ a = Len(sent[t]) /\ c = Len(queue[t])
    /\ h = 1 <=> held[t] # None
    /\ since[t] \in Nat /\ Base(t) \in Int /\ since[t] <= Base(t)
    /\ \A i \in 1..a : /\ Stream(t)[i] = sent[t][i] /\ Stream(t)[i] \in Nat
                       /\ since[t] < Stream(t)[i] /\ Stream(t)[i] <= Base(t)
                       /\ \A j \in 1..i-1 : Stream(t)[j] < Stream(t)[i]
    /\ h = 1 => /\ Stream(t)[a + 1] = held[t] /\ held[t] \in Nat
                /\ since[t] < held[t] /\ held[t] <= Base(t)
                /\ \A i \in 1..a : Stream(t)[i] < held[t]
    /\ \A i \in a+h+1..a+h+c : Stream(t)[i] = Base(t) + (i - a - h)

LEMMA StreamParts ==
    ASSUME FanoutInv, NEW t \in subscribers
    PROVE  \E a, h, c : Parts(t, a, h, c)
<1> DEFINE a == Len(sent[t])
           h == IF held[t] = None THEN 0 ELSE 1
           c == Len(queue[t])
<1>1. FanoutTypeInv /\ t \in Tab /\ InTurn(t)
  BY DEF FanoutInv, FanoutTypeInv, TypeOK
<1>2. /\ a \in Nat /\ c \in Nat /\ h \in {0, 1} /\ h \in Nat /\ (h = 1 <=> held[t] # None)
      /\ held[t] \in Nat /\ since[t] \in Nat /\ logged \in Nat /\ Base(t) = logged - c
      /\ DOMAIN sent[t] = 1..a /\ DOMAIN queue[t] = 1..c
      /\ \A i \in 1..a : sent[t][i] \in Nat
  <2>1. h \in {0, 1} /\ h \in Nat /\ (h = 1 <=> held[t] # None)
    OBVIOUS
  <2> QED BY <1>1, <2>1, FanoutFacts DEF Base
<1>3. /\ DOMAIN Stream(t) = 1..a + h + c
      /\ \A i \in 1..a : Stream(t)[i] = sent[t][i]
      /\ held[t] # None => Stream(t)[a + 1] = held[t]
      /\ \A i \in a+h+1..a+h+c : Stream(t)[i] = queue[t][i - a - h]
  BY StreamFacts
<1>4. /\ since[t] <= Base(t)
      /\ \A i \in 1..c : queue[t][i] = Base(t) + i
      /\ held[t] # None => since[t] < held[t] /\ held[t] <= Base(t)
      /\ \A i \in 1..a :
            /\ since[t] < sent[t][i] /\ sent[t][i] <= Base(t)
            /\ held[t] # None => sent[t][i] < held[t]
            /\ \A j \in 1..i-1 : sent[t][j] < sent[t][i]
  BY <1>1, <1>2 DEF InTurn
<1> HIDE DEF a, h, c
<1>5. \A i \in a+h+1..a+h+c : Stream(t)[i] = Base(t) + (i - a - h)
  <2>1. ASSUME NEW i \in a+h+1..a+h+c PROVE Stream(t)[i] = Base(t) + (i - a - h)
    <3>1. i - a - h \in 1..c
      BY <1>2
    <3> QED BY <1>3, <1>4, <3>1
  <2> QED BY <2>1
<1>6. ASSUME NEW i \in 1..a
      PROVE  /\ Stream(t)[i] = sent[t][i] /\ Stream(t)[i] \in Nat
             /\ since[t] < Stream(t)[i] /\ Stream(t)[i] <= Base(t)
             /\ \A j \in 1..i-1 : Stream(t)[j] < Stream(t)[i]
  <2>1. \A j \in 1..i-1 : j \in 1..a
    BY <1>2
  <2> QED BY <1>2, <1>3, <1>4, <2>1
<1>7. h = 1 => /\ Stream(t)[a + 1] = held[t] /\ held[t] \in Nat
               /\ since[t] < held[t] /\ held[t] <= Base(t)
               /\ \A i \in 1..a : Stream(t)[i] < held[t]
  BY <1>2, <1>3, <1>4
<1>8. Base(t) \in Int
  BY <1>2
<1>9. Parts(t, a, h, c)
  BY <1>2, <1>3, <1>4, <1>5, <1>6, <1>7, <1>8 DEF a, c, Parts
<1> QED BY <1>9

LEMMA InOrderFromInv ==
    ASSUME FanoutInv
    PROVE  StreamInOrder
<1> SUFFICES ASSUME NEW t \in subscribers, NEW j \in DOMAIN Stream(t)
             PROVE  /\ Stream(t)[j] > since[t]
                    /\ \A i \in 1..j-1 : Stream(t)[i] < Stream(t)[j]
  BY DEF StreamInOrder
<1>p. PICK a, h, c : Parts(t, a, h, c)
  BY StreamParts
<1>1. /\ DOMAIN Stream(t) = 1..a + h + c /\ h \in {0, 1}
      /\ since[t] \in Nat /\ Base(t) \in Int /\ since[t] <= Base(t)
      /\ \A i \in 1..a : /\ Stream(t)[i] \in Nat
                         /\ since[t] < Stream(t)[i] /\ Stream(t)[i] <= Base(t)
                         /\ \A k \in 1..i-1 : Stream(t)[k] < Stream(t)[i]
      /\ h = 1 => /\ Stream(t)[a + 1] = held[t] /\ held[t] \in Nat
                  /\ since[t] < held[t] /\ held[t] <= Base(t)
                  /\ \A i \in 1..a : Stream(t)[i] < held[t]
      /\ \A i \in a+h+1..a+h+c : Stream(t)[i] = Base(t) + (i - a - h)
  BY <1>p, Zenon DEF Parts
<1>n. a \in Nat /\ h \in Nat /\ c \in Nat
  <2>1. a \in Nat /\ h \in {0, 1} /\ c \in Nat
    BY <1>p, Zenon DEF Parts
  <2> QED BY <2>1
<1>2. CASE j \in 1..a
  BY <1>n, <1>1, <1>2
<1>3. CASE h = 1 /\ j = a + 1
  <2>1. j - 1 = a
    BY <1>n, <1>1, <1>3
  <2> QED BY <1>n, <1>1, <1>3, <2>1
<1>4. CASE j \in a+h+1..a+h+c
  <2>1. Stream(t)[j] = Base(t) + (j - a - h) /\ Stream(t)[j] > Base(t) /\ Stream(t)[j] \in Int
    <3>1. j - a - h > 0 /\ j - a - h \in Int
      BY <1>n, <1>1, <1>4
    <3> QED BY <1>n, <1>1, <1>4, <3>1
  <2>2. ASSUME NEW i \in 1..j-1 PROVE Stream(t)[i] < Stream(t)[j]
    <3>1. CASE i \in 1..a
      BY <1>n, <1>1, <2>1, <3>1
    <3>2. CASE h = 1 /\ i = a + 1
      BY <1>n, <1>1, <2>1, <3>2
    <3>3. CASE i \in a+h+1..a+h+c
      <4>1. i < j
        BY <1>4
      <4> QED BY <1>n, <1>1, <1>4, <2>1, <3>3, <4>1
    <3> QED BY <1>n, <1>1, <1>4, <3>1, <3>2, <3>3
  <2>3. Stream(t)[j] > since[t]
    BY <1>n, <1>1, <2>1
  <2> QED BY <2>2, <2>3
<1>5. j \in 1..a \/ (h = 1 /\ j = a + 1) \/ j \in a+h+1..a+h+c
  <2>1. j \in 1..a + h + c /\ h \in {0, 1}
    BY <1>1, Zenon
  <2> QED BY <1>n, <2>1
<1> QED BY <1>2, <1>3, <1>4, <1>5

LEMMA NewestFromInv ==
    ASSUME FanoutInv
    PROVE  NewestKept
<1> SUFFICES ASSUME NEW t \in subscribers, NEW e \in 1..logged, e > since[t], e > logged - Cap
             PROVE  \E j \in DOMAIN Stream(t) : Stream(t)[j] = e
  BY DEF NewestKept, Range
<1>p. PICK a, h, c : Parts(t, a, h, c)
  BY StreamParts
<1>1. /\ DOMAIN Stream(t) = 1..a + h + c /\ a = Len(sent[t]) /\ c = Len(queue[t])
      /\ h \in {0, 1} /\ (h = 1 <=> held[t] # None) /\ Base(t) \in Int
      /\ \A i \in 1..a : Stream(t)[i] = sent[t][i]
      /\ h = 1 => Stream(t)[a + 1] = held[t]
      /\ \A i \in a+h+1..a+h+c : Stream(t)[i] = Base(t) + (i - a - h)
  BY <1>p, Zenon DEF Parts
<1>n. a \in Nat /\ h \in Nat /\ c \in Nat
  <2>1. a \in Nat /\ h \in {0, 1} /\ c \in Nat
    BY <1>p, Zenon DEF Parts
  <2> QED BY <2>1
<1>2. /\ Newest(t) /\ DOMAIN sent[t] = 1..a /\ logged \in Nat /\ Base(t) = logged - c
  <2>1. FanoutTypeInv /\ t \in Tab
    BY DEF FanoutInv, FanoutTypeInv, TypeOK
  <2> QED BY <1>n, <1>1, <2>1, FanoutFacts DEF FanoutInv, Base
<1>3. CASE e \in 1..Base(t)
  <2>1. e = held[t] \/ \E i \in DOMAIN sent[t] : sent[t][i] = e
    BY <1>2, <1>3 DEF Newest
  <2>2. CASE e = held[t]
    <3>1. h = 1
      BY <1>n, <1>1, <2>2 DEF None
    <3>2. a + 1 \in 1..a + h + c
      BY <1>n, <3>1
    <3>3. a + 1 \in DOMAIN Stream(t) /\ Stream(t)[a + 1] = e
      BY <1>1, <2>2, <3>1, <3>2, Zenon
    <3> QED BY <3>3
  <2>3. CASE \E i \in DOMAIN sent[t] : sent[t][i] = e
    <3>1. PICK i \in 1..a : sent[t][i] = e
      BY <1>2, <2>3
    <3>2. i \in 1..a + h + c
      BY <1>n
    <3>3. i \in DOMAIN Stream(t) /\ Stream(t)[i] = e
      BY <1>n, <1>1, <3>1, <3>2, Zenon
    <3> QED BY <3>3
  <2> QED BY <2>1, <2>2, <2>3
<1>4. CASE e \notin 1..Base(t)
  <2> DEFINE j == a + h + (e - Base(t))
  <2>1. e - Base(t) \in 1..c /\ Base(t) \in Int /\ e \in Int
    BY <1>n, <1>1, <1>2, <1>4
  <2>2. j \in 1..a + h + c /\ j \in a+h+1..a+h+c /\ Base(t) + (j - a - h) = e
    BY <1>n, <2>1
  <2> HIDE DEF j
  <2>3. j \in DOMAIN Stream(t) /\ Stream(t)[j] = e
    BY <1>n, <1>1, <2>2, Zenon
  <2> QED BY <2>3
<1> QED BY <1>3, <1>4

\* Debug page: a tab sees entries in the order they were logged, each once and
\* none from before it was opened, for any number of tabs and any queue size.
THEOREM FanoutInOrder == Spec => []StreamInOrder
<1>1. FanoutInv => StreamInOrder
  BY InOrderFromInv
<1> QED BY <1>1, FanoutInvariant, PTL

\* Debug page: a slow tab loses old entries only, never one of the newest Cap.
THEOREM FanoutNewestKept == Spec => []NewestKept
<1>1. FanoutInv => NewestKept
  BY NewestFromInv
<1> QED BY <1>1, FanoutInvariant, PTL

\* Debug page: a queue is subscribed exactly while its generator exists.
THEOREM FanoutSubscribers == Spec => []SubscribersAreStreams
<1>1. FanoutInv => SubscribersAreStreams
  BY DEF FanoutInv, GeneratorInv, SubscribersAreStreams
<1> QED BY <1>1, FanoutInvariant, PTL

-----------------------------------------------------------------------------
(* The test client: type correctness.                                      *)
LEMMA TestFacts ==
    ASSUME TestTypeOK
    PROVE  /\ event \in Seq(Event) /\ Len(event) \in Nat /\ DOMAIN event = 1..Len(event)
           /\ outgoing \in Seq(DOMAIN event) /\ Len(outgoing) \in Nat
           /\ DOMAIN outgoing = 1..Len(outgoing)
           /\ buffer \in Seq(DOMAIN event) /\ Len(buffer) \in Nat
           /\ DOMAIN buffer = 1..Len(buffer)
           /\ \A i \in 1..Len(buffer) : buffer[i] \in DOMAIN event /\ buffer[i] \in Nat
           /\ returned \in Seq(DOMAIN event) /\ Len(returned) \in Nat
           /\ DOMAIN returned = 1..Len(returned)
BY DEF TestTypeOK

LEMMA TestInitTyped == TestInit => TestTypeOK
<1> SUFFICES ASSUME TestInit PROVE TestTypeOK
  OBVIOUS
<1>1. /\ <<>> \in Seq(Event) /\ Len(<<>>) = 0 /\ <<>> \in Seq(DOMAIN event)
      /\ 0 <= MaxMessages
  BY MessagesAssumption
<1> QED BY <1>1 DEF TestInit, TestTypeOK

LEMMA TestTyped ==
    ASSUME TestTypeOK, [TestNext]_testVars
    PROVE  TestTypeOK'
<1>1. CASE Connect \/ Leave \/ Close \/ UNCHANGED testVars
  BY <1>1 DEF TestTypeOK, Connect, Leave, Close, testVars
<1>2. ASSUME NEW e \in Event, SendJson(e) PROVE TestTypeOK'
  <2>1. /\ event' = Append(event, e) /\ outgoing' = Append(outgoing, Len(event'))
        /\ session' = session /\ closed' = closed /\ buffer' = buffer /\ wanted' = wanted
        /\ disturbed' = disturbed /\ returned' = returned /\ Len(event) < MaxMessages
    BY <1>2 DEF SendJson
  <2>2. /\ event' \in Seq(Event) /\ Len(event') = Len(event) + 1
        /\ DOMAIN event' = 1..Len(event)+1
    BY <2>1, TestFacts, AppendFacts
  <2>3. /\ DOMAIN event \subseteq DOMAIN event' /\ Len(event') \in DOMAIN event'
        /\ Len(event') <= MaxMessages
    BY <2>1, <2>2, TestFacts, MessagesAssumption
  <2>4. /\ outgoing \in Seq(DOMAIN event') /\ buffer' \in Seq(DOMAIN event')
        /\ returned' \in Seq(DOMAIN event')
    BY <2>1, <2>3, TestFacts, SeqWidens
  <2>5. outgoing' \in Seq(DOMAIN event')
    BY <2>1, <2>3, <2>4, AppendFacts
  <2> QED BY <2>1, <2>2, <2>3, <2>4, <2>5 DEF TestTypeOK
<1>3. ASSUME NEW r \in Receiver, NEW e \in Event, ReceiveBuffered(r, e) PROVE TestTypeOK'
  <2>1. PICK i \in Buffered(e) : /\ buffer' = RemoveAt(buffer, i)
                                 /\ returned' = Append(returned, buffer[i])
    BY <1>3 DEF ReceiveBuffered
  <2>2. i \in 1..Len(buffer) /\ buffer[i] \in DOMAIN event
    BY TestFacts DEF Buffered
  <2>3. buffer' \in Seq(DOMAIN event) /\ returned' \in Seq(DOMAIN event)
    BY <2>1, <2>2, TestFacts, RemoveAtFacts, AppendFacts
  <2> QED BY <1>3, <2>3 DEF TestTypeOK, ReceiveBuffered
<1>4. ASSUME NEW r \in Receiver, NEW e \in Event, ReceiveWaits(r, e) PROVE TestTypeOK'
  <2>1. wanted' \in [Receiver -> Event \cup {NoEvent}] /\ disturbed' \subseteq Receiver
    BY <1>4 DEF TestTypeOK, ReceiveWaits
  <2> QED BY <1>4, <2>1 DEF TestTypeOK, ReceiveWaits
<1>5. ASSUME NEW r \in Receiver, GetMatch(r) PROVE TestTypeOK'
  <2>1. outgoing' \in Seq(DOMAIN event) /\ returned' \in Seq(DOMAIN event)
    BY <1>5, TestFacts, TailFacts, AppendFacts DEF GetMatch
  <2>2. wanted' \in [Receiver -> Event \cup {NoEvent}] /\ disturbed' \subseteq Receiver
    BY <1>5 DEF TestTypeOK, GetMatch, Stops
  <2> QED BY <1>5, <2>1, <2>2 DEF TestTypeOK, GetMatch
<1>6. ASSUME NEW r \in Receiver, GetOther(r) PROVE TestTypeOK'
  <2>1. outgoing' \in Seq(DOMAIN event) /\ buffer' \in Seq(DOMAIN event)
    BY <1>6, TestFacts, TailFacts, AppendFacts DEF GetOther
  <2> QED BY <1>6, <2>1 DEF TestTypeOK, GetOther
<1>7. ASSUME NEW r \in Receiver, TimesOut(r) PROVE TestTypeOK'
  BY <1>7 DEF TestTypeOK, TimesOut, Stops
<1> QED BY <1>1, <1>2, <1>3, <1>4, <1>5, <1>6, <1>7 DEF TestNext

-----------------------------------------------------------------------------
(* The test client: the inductive invariant.                               *)
\* The messages that tasks of the test have been handed.
Handed == Len(event) - Len(outgoing)

\* The queue holds the latest messages without a gap; what was handed out is in
\* the buffer, in order, or returned.
MessagesInv ==
    /\ Len(outgoing) <= Len(event)
    /\ \A i \in 1..Len(outgoing) : outgoing[i] = Handed + i
    /\ \A j \in 1..Len(buffer) :
          buffer[j] <= Handed /\ \A i \in 1..j-1 : buffer[i] < buffer[j]
    /\ Len(returned) + Len(buffer) = Handed
    /\ \A m \in 1..Handed : \/ \E i \in 1..Len(buffer) : buffer[i] = m
                            \/ \E i \in 1..Len(returned) : returned[i] = m

\* A task that waits undisturbed is the only one that waits.
AloneInv ==
    \A r, q \in Receiver :
        wanted[r] # NoEvent /\ r \notin disturbed /\ q # r => wanted[q] = NoEvent

TestInv == TestTypeOK /\ MessagesInv /\ AloneInv /\ LoneReceiveMissesNothing

\* The message at the head of the queue is the first that was not handed out.
LEMMA HeadFacts ==
    ASSUME TestTypeOK, MessagesInv, outgoing # <<>>, outgoing' = Tail(outgoing), event' = event
    PROVE  /\ Head(outgoing) = Handed + 1 /\ Head(outgoing) \in DOMAIN event
           /\ Handed \in Nat /\ Handed' = Handed + 1 /\ Len(outgoing') <= Len(event')
           /\ \A i \in 1..Len(outgoing') : outgoing'[i] = Handed' + i
<1>1. /\ outgoing \in Seq(DOMAIN event) /\ Len(event) \in Nat /\ Len(outgoing) <= Len(event)
      /\ \A i \in 1..Len(outgoing) : outgoing[i] = Handed + i
  BY TestFacts DEF MessagesInv
<1>2. /\ Len(outgoing) \in Nat \ {0} /\ Head(outgoing) = outgoing[1]
      /\ Head(outgoing) \in DOMAIN event
      /\ Len(outgoing') = Len(outgoing) - 1
      /\ \A i \in 1..Len(outgoing)-1 : outgoing'[i] = outgoing[i + 1]
  BY <1>1, TailFacts
<1>3. Handed \in Nat /\ Handed' = Handed + 1 /\ Len(outgoing') <= Len(event')
  BY <1>1, <1>2 DEF Handed
<1>4. outgoing[1] = Handed + 1
  BY <1>1, <1>2
<1>5. ASSUME NEW i \in 1..Len(outgoing') PROVE outgoing'[i] = Handed' + i
  <2>1. i \in 1..Len(outgoing)-1 /\ i + 1 \in 1..Len(outgoing) /\ i \in Nat
    BY <1>2
  <2>2. outgoing'[i] = Handed + (i + 1)
    BY <1>1, <1>2, <2>1
  <2> QED BY <1>3, <2>1, <2>2
<1> QED BY <1>2, <1>3, <1>4, <1>5

LEMMA SendMessages ==
    ASSUME TestTypeOK, MessagesInv, NEW e \in Event, SendJson(e)
    PROVE  MessagesInv'
<1>1. /\ event' = Append(event, e) /\ outgoing' = Append(outgoing, Len(event'))
      /\ buffer' = buffer /\ returned' = returned
  BY DEF SendJson
<1>2. /\ Len(event) \in Nat /\ Len(outgoing) \in Nat /\ Len(outgoing) <= Len(event)
      /\ \A i \in 1..Len(outgoing) : outgoing[i] = Handed + i
  BY TestFacts DEF MessagesInv
<1>3. Len(event') = Len(event) + 1
  BY <1>1, TestFacts, AppendFacts
<1>4. /\ Len(outgoing') = Len(outgoing) + 1 /\ outgoing'[Len(outgoing) + 1] = Len(event')
      /\ \A i \in 1..Len(outgoing) : outgoing'[i] = outgoing[i]
  <2>1. outgoing \in Seq(Nat)
    <3>1. DOMAIN event \subseteq Nat
      BY TestFacts
    <3> QED BY <3>1, TestFacts, SeqWidens
  <2>2. Len(event') \in Nat
    BY <1>2, <1>3
  <2> QED BY <1>1, <2>1, <2>2, AppendFacts
<1>5. Handed' = Handed /\ Handed \in Nat /\ Len(outgoing') <= Len(event')
  BY <1>2, <1>3, <1>4 DEF Handed
<1>6. ASSUME NEW i \in 1..Len(outgoing') PROVE outgoing'[i] = Handed' + i
  <2>1. CASE i = Len(outgoing) + 1
    BY <1>2, <1>3, <1>4, <2>1 DEF Handed
  <2>2. CASE i \in 1..Len(outgoing)
    BY <1>2, <1>4, <1>5, <2>2
  <2> QED BY <1>2, <1>4, <2>1, <2>2
<1> QED BY <1>1, <1>5, <1>6 DEF MessagesInv

LEMMA ReceiveBufferedMessages ==
    ASSUME TestTypeOK, MessagesInv, NEW r \in Receiver, NEW e \in Event, ReceiveBuffered(r, e)
    PROVE  MessagesInv'
<1>1. PICK k \in Buffered(e) : /\ buffer' = RemoveAt(buffer, k)
                               /\ returned' = Append(returned, buffer[k])
  BY DEF ReceiveBuffered
<1>2. event' = event /\ outgoing' = outgoing /\ Handed' = Handed
  BY DEF ReceiveBuffered, Handed
<1>3. /\ Len(buffer) \in Nat /\ Len(returned) \in Nat /\ k \in 1..Len(buffer)
      /\ Handed \in Nat
      /\ \A i \in 1..Len(buffer) : buffer[i] \in Nat
  BY TestFacts DEF Buffered, MessagesInv, Handed
<1>4. /\ Len(buffer') = Len(buffer) - 1
      /\ \A i \in 1..Len(buffer)-1 : buffer'[i] = buffer[IF i < k THEN i ELSE i + 1]
  BY <1>1, <1>3, TestFacts, RemoveAtFacts
<1>5. /\ Len(returned') = Len(returned) + 1 /\ returned'[Len(returned) + 1] = buffer[k]
      /\ \A i \in 1..Len(returned) : returned'[i] = returned[i]
  BY <1>1, <1>3, TestFacts, AppendFacts
<1>6. /\ Len(outgoing) <= Len(event)
      /\ \A i \in 1..Len(outgoing) : outgoing[i] = Handed + i
      /\ \A j \in 1..Len(buffer) :
            buffer[j] <= Handed /\ \A i \in 1..j-1 : buffer[i] < buffer[j]
      /\ Len(returned) + Len(buffer) = Handed
      /\ \A m \in 1..Handed : \/ \E i \in 1..Len(buffer) : buffer[i] = m
                              \/ \E i \in 1..Len(returned) : returned[i] = m
  BY DEF MessagesInv
<1>7. ASSUME NEW j \in 1..Len(buffer')
      PROVE  buffer'[j] <= Handed /\ \A i \in 1..j-1 : buffer'[i] < buffer'[j]
  <2> DEFINE new(i) == IF i < k THEN i ELSE i + 1
  <2>1. \A i \in 1..Len(buffer') : new(i) \in 1..Len(buffer) /\ buffer'[i] = buffer[new(i)]
    BY <1>3, <1>4
  <2>2. \A i \in 1..j-1 : i \in 1..Len(buffer') /\ new(i) \in 1..new(j)-1
    BY <1>3, <1>4
  <2> HIDE DEF new
  <2> QED BY <1>6, <2>1, <2>2
<1>8. ASSUME NEW m \in 1..Handed
      PROVE  \/ \E i \in 1..Len(buffer') : buffer'[i] = m
             \/ \E i \in 1..Len(returned') : returned'[i] = m
  <2>1. CASE m = buffer[k]
    <3>1. Len(returned) + 1 \in 1..Len(returned')
      BY <1>3, <1>5
    <3> QED BY <1>5, <2>1, <3>1
  <2>2. ASSUME NEW i \in 1..Len(buffer), buffer[i] = m, i # k
        PROVE  \E j \in 1..Len(buffer') : buffer'[j] = m
    <3>1. CASE i < k
      <4>1. i \in 1..Len(buffer') /\ buffer'[i] = buffer[i]
        BY <1>3, <1>4, <3>1
      <4> QED BY <2>2, <4>1
    <3>2. CASE ~(i < k)
      <4>1. i - 1 \in 1..Len(buffer') /\ i - 1 \in 1..Len(buffer)-1 /\ ~(i - 1 < k)
            /\ (i - 1) + 1 = i
        BY <1>3, <1>4, <2>2, <3>2
      <4>2. buffer'[i - 1] = buffer[i]
        BY <1>4, <4>1
      <4> QED BY <2>2, <4>1, <4>2
    <3> QED BY <3>1, <3>2
  <2>3. ASSUME NEW i \in 1..Len(returned), returned[i] = m
        PROVE  \E j \in 1..Len(returned') : returned'[j] = m
    <3>1. i \in 1..Len(returned')
      BY <1>3, <1>5
    <3> QED BY <1>5, <2>3, <3>1
  <2> QED BY <1>6, <2>1, <2>2, <2>3
<1>9. Len(returned') + Len(buffer') = Handed
  <2>1. /\ Len(buffer') = Len(buffer) - 1 /\ Len(returned') = Len(returned) + 1
        /\ Len(returned) + Len(buffer) = Handed
    BY <1>4, <1>5, <1>6
  <2>2. Len(buffer) \in Nat /\ Len(returned) \in Nat
    BY <1>3
  <2> QED BY <2>1, <2>2
<1> QED BY <1>2, <1>6, <1>7, <1>8, <1>9 DEF MessagesInv

LEMMA GetMatchMessages ==
    ASSUME TestTypeOK, MessagesInv, NEW r \in Receiver, GetMatch(r)
    PROVE  MessagesInv'
<1>1. /\ outgoing # <<>> /\ outgoing' = Tail(outgoing) /\ event' = event /\ buffer' = buffer
      /\ returned' = Append(returned, Head(outgoing))
  BY DEF GetMatch
<1>2. /\ Head(outgoing) = Handed + 1 /\ Head(outgoing) \in DOMAIN event
      /\ Handed \in Nat /\ Handed' = Handed + 1 /\ Len(outgoing') <= Len(event')
      /\ \A i \in 1..Len(outgoing') : outgoing'[i] = Handed' + i
  BY <1>1, HeadFacts
<1>3. /\ Len(returned') = Len(returned) + 1 /\ returned'[Len(returned) + 1] = Handed + 1
      /\ \A i \in 1..Len(returned) : returned'[i] = returned[i]
      /\ Len(returned) \in Nat /\ Len(buffer) \in Nat
      /\ \A i \in 1..Len(buffer) : buffer[i] \in Nat
  BY <1>1, <1>2, TestFacts, AppendFacts
<1>4. /\ \A j \in 1..Len(buffer) :
            buffer[j] <= Handed /\ \A i \in 1..j-1 : buffer[i] < buffer[j]
      /\ Len(returned) + Len(buffer) = Handed
      /\ \A m \in 1..Handed : \/ \E i \in 1..Len(buffer) : buffer[i] = m
                              \/ \E i \in 1..Len(returned) : returned[i] = m
  BY DEF MessagesInv
<1>5. \A j \in 1..Len(buffer) : buffer[j] <= Handed'
  BY <1>2, <1>3, <1>4
<1>6. Len(returned') + Len(buffer) = Handed'
  <2>1. /\ Len(returned') = Len(returned) + 1 /\ Handed' = Handed + 1
        /\ Len(returned) + Len(buffer) = Handed
    BY <1>2, <1>3, <1>4
  <2>2. Len(buffer) \in Nat /\ Len(returned) \in Nat
    BY <1>3
  <2> QED BY <2>1, <2>2
<1>7. ASSUME NEW m \in 1..Handed'
      PROVE  \/ \E i \in 1..Len(buffer) : buffer[i] = m
             \/ \E i \in 1..Len(returned') : returned'[i] = m
  <2>1. CASE m = Handed + 1
    <3>1. Len(returned) + 1 \in 1..Len(returned')
      BY <1>3
    <3> QED BY <1>3, <2>1, <3>1
  <2>2. CASE m \in 1..Handed
    <3>1. \A i \in 1..Len(returned) : i \in 1..Len(returned')
      BY <1>3
    <3> QED BY <1>3, <1>4, <2>2, <3>1
  <2> QED BY <1>2, <2>1, <2>2
<1> QED BY <1>1, <1>2, <1>4, <1>5, <1>6, <1>7 DEF MessagesInv

LEMMA GetOtherMessages ==
    ASSUME TestTypeOK, MessagesInv, NEW r \in Receiver, GetOther(r)
    PROVE  MessagesInv'
<1>1. /\ outgoing # <<>> /\ outgoing' = Tail(outgoing) /\ event' = event
      /\ returned' = returned /\ buffer' = Append(buffer, Head(outgoing))
  BY DEF GetOther
<1>2. /\ Head(outgoing) = Handed + 1 /\ Head(outgoing) \in DOMAIN event
      /\ Handed \in Nat /\ Handed' = Handed + 1 /\ Len(outgoing') <= Len(event')
      /\ \A i \in 1..Len(outgoing') : outgoing'[i] = Handed' + i
  BY <1>1, HeadFacts
<1>3. /\ Len(buffer') = Len(buffer) + 1 /\ buffer'[Len(buffer) + 1] = Handed + 1
      /\ \A i \in 1..Len(buffer) : buffer'[i] = buffer[i]
      /\ Len(returned) \in Nat /\ Len(buffer) \in Nat
      /\ \A i \in 1..Len(buffer) : buffer[i] \in Nat
  BY <1>1, <1>2, TestFacts, AppendFacts
<1>4. /\ \A j \in 1..Len(buffer) :
            buffer[j] <= Handed /\ \A i \in 1..j-1 : buffer[i] < buffer[j]
      /\ Len(returned) + Len(buffer) = Handed
      /\ \A m \in 1..Handed : \/ \E i \in 1..Len(buffer) : buffer[i] = m
                              \/ \E i \in 1..Len(returned) : returned[i] = m
  BY DEF MessagesInv
<1>5. ASSUME NEW j \in 1..Len(buffer')
      PROVE  buffer'[j] <= Handed' /\ \A i \in 1..j-1 : buffer'[i] < buffer'[j]
  <2>1. CASE j = Len(buffer) + 1
    <3>1. j - 1 = Len(buffer) /\ buffer'[j] = Handed + 1
      BY <1>3, <2>1
    <3>2. \A i \in 1..j-1 : buffer'[i] \in Nat /\ buffer'[i] <= Handed
      BY <1>3, <1>4, <3>1
    <3> QED BY <1>2, <3>1, <3>2
  <2>2. CASE j \in 1..Len(buffer)
    <3>1. buffer'[j] = buffer[j] /\ \A i \in 1..j-1 : buffer'[i] = buffer[i]
      BY <1>3, <2>2
    <3> QED BY <1>2, <1>3, <1>4, <2>2, <3>1
  <2> QED BY <1>3, <2>1, <2>2
<1>6. Len(returned) + Len(buffer') = Handed'
  <2>1. /\ Len(buffer') = Len(buffer) + 1 /\ Handed' = Handed + 1
        /\ Len(returned) + Len(buffer) = Handed
    BY <1>2, <1>3, <1>4
  <2>2. Len(buffer) \in Nat /\ Len(returned) \in Nat
    BY <1>3
  <2> QED BY <2>1, <2>2
<1>7. ASSUME NEW m \in 1..Handed'
      PROVE  \/ \E i \in 1..Len(buffer') : buffer'[i] = m
             \/ \E i \in 1..Len(returned) : returned[i] = m
  <2>1. CASE m = Handed + 1
    <3>1. Len(buffer) + 1 \in 1..Len(buffer')
      BY <1>3
    <3> QED BY <1>3, <2>1, <3>1
  <2>2. CASE m \in 1..Handed
    <3>1. \A i \in 1..Len(buffer) : i \in 1..Len(buffer')
      BY <1>3
    <3> QED BY <1>3, <1>4, <2>2, <3>1
  <2> QED BY <1>2, <2>1, <2>2
<1> QED BY <1>1, <1>2, <1>5, <1>6, <1>7 DEF MessagesInv

\* The other steps leave the messages where they are.
LEMMA MessagesUnchanged ==
    ASSUME MessagesInv, event' = event, outgoing' = outgoing, buffer' = buffer,
           returned' = returned
    PROVE  MessagesInv'
BY DEF MessagesInv, Handed

LEMMA MessagesKept ==
    ASSUME TestTypeOK, MessagesInv, [TestNext]_testVars
    PROVE  MessagesInv'
<1>1. CASE Connect \/ Leave \/ Close \/ UNCHANGED testVars
  BY <1>1, MessagesUnchanged DEF Connect, Leave, Close, testVars
<1>2. CASE \E r \in Receiver, e \in Event : ReceiveWaits(r, e)
  BY <1>2, MessagesUnchanged DEF ReceiveWaits
<1>3. CASE \E r \in Receiver : TimesOut(r)
  BY <1>3, MessagesUnchanged DEF TimesOut
<1>4. CASE \E e \in Event : SendJson(e)
  BY <1>4, SendMessages
<1>5. CASE \E r \in Receiver, e \in Event : ReceiveBuffered(r, e)
  BY <1>5, ReceiveBufferedMessages
<1>6. CASE \E r \in Receiver : GetMatch(r) \/ GetOther(r)
  BY <1>6, GetMatchMessages, GetOtherMessages
<1> QED BY <1>1, <1>2, <1>3, <1>4, <1>5, <1>6 DEF TestNext

LEMMA AloneKept ==
    ASSUME TestTypeOK, AloneInv, [TestNext]_testVars
    PROVE  AloneInv'
<1>1. wanted \in [Receiver -> Event \cup {NoEvent}]
  BY DEF TestTypeOK
<1>2. CASE wanted' = wanted /\ disturbed' = disturbed
  BY <1>2 DEF AloneInv
<1>3. ASSUME NEW r \in Receiver, NEW e \in Event, ReceiveWaits(r, e)
      PROVE  AloneInv'
  <2> DEFINE others == {q \in Receiver : wanted[q] # NoEvent}
  <2>1. /\ wanted' = [wanted EXCEPT ![r] = e]
        /\ others = {} => disturbed' = disturbed
        /\ others # {} => disturbed' = disturbed \cup others \cup {r}
    BY <1>3 DEF ReceiveWaits
  <2>2. CASE others = {}
    <3>1. \A q \in Receiver : q # r => wanted'[q] = NoEvent
      BY <1>1, <2>1, <2>2
    <3> QED BY <3>1 DEF AloneInv
  <2>3. CASE others # {}
    <3>1. \A q \in Receiver : wanted'[q] # NoEvent => q \in disturbed'
      BY <1>1, <2>1, <2>3
    <3> QED BY <3>1 DEF AloneInv
  <2> QED BY <2>2, <2>3
<1>4. ASSUME NEW r \in Receiver, Stops(r)
      PROVE  AloneInv'
  <2>1. /\ wanted'[r] = NoEvent /\ \A q \in Receiver : q # r => wanted'[q] = wanted[q]
        /\ \A q \in Receiver : q # r => (q \in disturbed' <=> q \in disturbed)
    BY <1>1, <1>4 DEF Stops
  <2> QED BY <2>1 DEF AloneInv
<1> QED BY <1>2, <1>3, <1>4 DEF TestNext, Connect, Leave, Close, SendJson, ReceiveBuffered,
        GetMatch, GetOther, TimesOut, testVars

\* An event is not buffered: none of its messages is.
LEMMA NotBuffered ==
    ASSUME TestTypeOK, NEW e
    PROVE  Buffered(e) = {} <=> \A i \in 1..Len(buffer) : event[buffer[i]] # e
BY TestFacts DEF Buffered

LEMMA LoneKept ==
    ASSUME TestInv, [TestNext]_testVars
    PROVE  LoneReceiveMissesNothing'
<1>0. /\ TestTypeOK /\ TestTypeOK' /\ AloneInv /\ LoneReceiveMissesNothing
      /\ wanted \in [Receiver -> Event \cup {NoEvent}]
  <2>1. TestTypeOK'
    BY TestTyped DEF TestInv
  <2> QED BY <2>1 DEF TestInv, TestTypeOK
<1> SUFFICES ASSUME NEW q \in Receiver, wanted'[q] # NoEvent, q \notin disturbed'
             PROVE  \A i \in 1..Len(buffer') : event'[buffer'[i]] # wanted'[q]
  <2>1. \A e : Buffered(e)' = {} <=> \A i \in 1..Len(buffer') : event'[buffer'[i]] # e
    <3>1. DOMAIN buffer' = 1..Len(buffer')
      BY <1>0 DEF TestTypeOK
    <3> QED BY <3>1 DEF Buffered
  <2> QED BY <2>1 DEF LoneReceiveMissesNothing, Buffered
<1>1. ASSUME wanted[q] # NoEvent, q \notin disturbed
      PROVE  \A i \in 1..Len(buffer) : event[buffer[i]] # wanted[q]
  BY <1>0, <1>1, NotBuffered DEF LoneReceiveMissesNothing
<1>2. CASE /\ buffer' = buffer /\ event' = event
           /\ wanted'[q] = wanted[q] /\ (q \in disturbed' <=> q \in disturbed)
  BY <1>1, <1>2
<1>3. ASSUME NEW e \in Event, SendJson(e)
      PROVE  \A i \in 1..Len(buffer') : event'[buffer'[i]] # wanted'[q]
  <2>1. /\ buffer' = buffer /\ wanted' = wanted /\ disturbed' = disturbed
        /\ event' = Append(event, e)
    BY <1>3 DEF SendJson
  <2>2. \A m \in DOMAIN event : event'[m] = event[m]
    BY <1>0, <2>1, TestFacts, AppendFacts
  <2>3. \A i \in 1..Len(buffer) : buffer[i] \in DOMAIN event
    BY <1>0, TestFacts
  <2> QED BY <1>1, <2>1, <2>2, <2>3
<1>4. ASSUME NEW r \in Receiver, NEW e \in Event, ReceiveBuffered(r, e)
      PROVE  \A i \in 1..Len(buffer') : event'[buffer'[i]] # wanted'[q]
  <2>1. PICK k \in Buffered(e) : buffer' = RemoveAt(buffer, k)
    BY <1>4 DEF ReceiveBuffered
  <2>2. event' = event /\ wanted' = wanted /\ disturbed' = disturbed
    BY <1>4 DEF ReceiveBuffered
  <2>3. /\ k \in 1..Len(buffer) /\ Len(buffer) \in Nat
        /\ Len(buffer') = Len(buffer) - 1
        /\ \A i \in 1..Len(buffer)-1 : buffer'[i] = buffer[IF i < k THEN i ELSE i + 1]
    <3>1. k \in 1..Len(buffer)
      BY <1>0, TestFacts DEF Buffered
    <3> QED BY <1>0, <2>1, <3>1, TestFacts, RemoveAtFacts
  <2>4. ASSUME NEW i \in 1..Len(buffer') PROVE \E j \in 1..Len(buffer) : buffer'[i] = buffer[j]
    <3>1. (IF i < k THEN i ELSE i + 1) \in 1..Len(buffer) /\ i \in 1..Len(buffer)-1
      BY <2>3
    <3> QED BY <2>3, <3>1
  <2> QED BY <1>1, <2>2, <2>4
<1>5. ASSUME NEW r \in Receiver, NEW e \in Event, ReceiveWaits(r, e)
      PROVE  \A i \in 1..Len(buffer') : event'[buffer'[i]] # wanted'[q]
  <2>1. /\ buffer' = buffer /\ event' = event /\ Buffered(e) = {}
        /\ wanted' = [wanted EXCEPT ![r] = e] /\ disturbed \subseteq disturbed'
    BY <1>5 DEF ReceiveWaits
  <2>2. CASE q = r
    BY <1>0, <2>1, <2>2, NotBuffered
  <2>3. CASE q # r
    BY <1>0, <1>1, <2>1, <2>3
  <2> QED BY <2>2, <2>3
<1>6. ASSUME NEW r \in Receiver, Stops(r), buffer' = buffer, event' = event
      PROVE  \A i \in 1..Len(buffer') : event'[buffer'[i]] # wanted'[q]
  <2>1. q # r /\ wanted'[q] = wanted[q] /\ (q \in disturbed' <=> q \in disturbed)
    BY <1>0, <1>6 DEF Stops
  <2> QED BY <1>2, <1>6, <2>1
<1>7. ASSUME NEW r \in Receiver, GetOther(r)
      PROVE  \A i \in 1..Len(buffer') : event'[buffer'[i]] # wanted'[q]
  <2>1. /\ wanted[r] # NoEvent /\ outgoing # <<>> /\ event[Head(outgoing)] # wanted[r]
        /\ buffer' = Append(buffer, Head(outgoing)) /\ event' = event /\ wanted' = wanted
        /\ disturbed' = disturbed
    BY <1>7 DEF GetOther
  <2>2. q = r
    BY <1>0, <2>1 DEF AloneInv
  <2>3. Head(outgoing) \in DOMAIN event
    BY <1>0, <2>1, TestFacts, TailFacts
  <2>4. /\ Len(buffer') = Len(buffer) + 1 /\ buffer'[Len(buffer) + 1] = Head(outgoing)
        /\ \A i \in 1..Len(buffer) : buffer'[i] = buffer[i]
        /\ Len(buffer) \in Nat
    BY <1>0, <2>1, <2>3, TestFacts, AppendFacts
  <2>5. ASSUME NEW i \in 1..Len(buffer') PROVE event[buffer'[i]] # wanted[q]
    <3>1. i = Len(buffer) + 1 \/ i \in 1..Len(buffer)
      BY <2>4
    <3> QED BY <1>1, <2>1, <2>2, <2>4, <3>1
  <2> QED BY <2>1, <2>5
<1> QED BY <1>2, <1>3, <1>4, <1>5, <1>6, <1>7
        DEF TestNext, Connect, Leave, Close, GetMatch, TimesOut, testVars

LEMMA TestInitInv == TestInit => TestInv
<1> SUFFICES ASSUME TestInit PROVE TestInv
  OBVIOUS
<1>1. /\ event = <<>> /\ outgoing = <<>> /\ buffer = <<>> /\ returned = <<>>
      /\ \A r \in Receiver : wanted[r] = NoEvent
  BY DEF TestInit
<1>2. /\ Len(event) = 0 /\ Len(outgoing) = 0 /\ Len(buffer) = 0 /\ Len(returned) = 0
      /\ Handed = 0
  BY <1>1 DEF Handed
<1>3. MessagesInv
  BY <1>2 DEF MessagesInv
<1>4. AloneInv /\ LoneReceiveMissesNothing
  BY <1>1 DEF AloneInv, LoneReceiveMissesNothing
<1> QED BY <1>3, <1>4, TestInitTyped DEF TestInv

LEMMA TestStep == TestInv /\ [TestNext]_testVars => TestInv'
BY TestTyped, MessagesKept, AloneKept, LoneKept DEF TestInv

LEMMA NoneLostFromInv ==
    ASSUME TestInv
    PROVE  NoneLost
<1> DEFINE rb == returned \o buffer
           all == rb \o outgoing
           n == Len(event)
           d == Handed
           a == Len(returned)
           b == Len(buffer)
           o == Len(outgoing)
<1>1. /\ n \in Nat /\ a \in Nat /\ b \in Nat /\ o \in Nat
      /\ returned \in Seq(1..n) /\ buffer \in Seq(1..n) /\ outgoing \in Seq(1..n)
      /\ DOMAIN event = 1..n
  BY TestFacts DEF TestInv
<1>2. /\ d = n - o /\ o <= n /\ a + b = d
      /\ \A i \in 1..o : outgoing[i] = d + i
      /\ \A m \in 1..d : \/ \E i \in 1..b : buffer[i] = m
                         \/ \E i \in 1..a : returned[i] = m
  BY DEF TestInv, MessagesInv, Handed
<1>3. /\ rb \in Seq(1..n) /\ Len(rb) = a + b
      /\ \A i \in 1..a+b : rb[i] = IF i <= a THEN returned[i] ELSE buffer[i - a]
  BY <1>1, ConcatProperties
<1> HIDE DEF rb, n, d, a, b, o
<1>0. b = Len(buffer) /\ a = Len(returned) /\ o = Len(outgoing) /\ n = Len(event)
  BY DEF a, b, o, n
<1>4. /\ all \in Seq(1..n) /\ Len(all) = Len(rb) + o
      /\ \A i \in 1..Len(rb)+o : all[i] = IF i <= Len(rb) THEN rb[i] ELSE outgoing[i - Len(rb)]
  <2>1. /\ rb \o outgoing \in Seq(1..n) /\ Len(rb \o outgoing) = Len(rb) + Len(outgoing)
        /\ \A i \in 1..Len(rb)+Len(outgoing) : (rb \o outgoing)[i] =
              IF i <= Len(rb) THEN rb[i] ELSE outgoing[i - Len(rb)]
    BY <1>1, <1>3, ConcatProperties
  <2> QED BY <1>0, <2>1
<1> HIDE DEF all
<1>5. /\ Len(all) = n /\ DOMAIN all = 1..n /\ \A i \in 1..n : all[i] \in 1..n
  <2>1. Len(all) = n
    <3>1. Len(all) = a + b + o /\ d = n - o /\ a + b = d
      BY <1>2, <1>3, <1>4
    <3> QED BY <1>1, <3>1
  <2>2. all \in Seq(1..n)
    BY <1>4
  <2> QED BY <1>1, <2>1, <2>2
<1>6. ASSUME NEW m \in 1..n PROVE \E i \in 1..n : all[i] = m
  <2>1. CASE \E i \in 1..a : returned[i] = m
    <3>1. PICK i \in 1..a : returned[i] = m
      BY <2>1
    <3>2. i \in 1..n /\ i \in 1..a+b /\ i <= a /\ i <= Len(rb) /\ i \in 1..Len(rb)+o
      BY <1>1, <1>2, <1>3
    <3>3. all[i] = m
      BY <1>3, <1>4, <3>1, <3>2
    <3> QED BY <3>2, <3>3
  <2>2. CASE \E i \in 1..b : buffer[i] = m
    <3>1. PICK i \in 1..b : buffer[i] = m
      BY <2>2
    <3>2. /\ a + i \in 1..n /\ a + i \in 1..a+b /\ ~(a + i <= a) /\ a + i <= Len(rb)
          /\ a + i \in 1..Len(rb)+o /\ (a + i) - a = i
      BY <1>1, <1>2, <1>3
    <3>3. all[a + i] = m
      BY <1>3, <1>4, <3>1, <3>2
    <3> QED BY <3>2, <3>3
  <2>3. CASE m \notin 1..d
    <3>1. m - d \in 1..o /\ m \in 1..Len(rb)+o /\ ~(m <= Len(rb)) /\ m - Len(rb) = m - d
          /\ d + (m - d) = m
      BY <1>1, <1>2, <1>3, <2>3
    <3>2. all[m] = m
      BY <1>2, <1>4, <3>1
    <3> QED BY <3>2
  <2> QED BY <1>2, <2>1, <2>2, <2>3
<1>7. Range(all) = DOMAIN event
  BY <1>1, <1>5, <1>6 DEF Range
<1> QED BY <1>0, <1>5, <1>7 DEF NoneLost, all, rb

LEMMA LastAppended ==
    ASSUME NEW S, NEW s \in Seq(S), NEW e \in S
    PROVE  Last(Append(s, e)) = e
BY AppendFacts DEF Last

LEMMA OldestFromInv ==
    ASSUME TestInv, [TestNext]_testVars
    PROVE  returned' # returned /\ disturbed = {} =>
              \A m \in DOMAIN event :
                 event[m] = event[Last(returned')] /\ m < Last(returned') => m \in Range(returned)
<1> SUFFICES ASSUME returned' # returned, disturbed = {}, NEW m \in DOMAIN event,
                    event[m] = event[Last(returned')], m < Last(returned')
             PROVE  \E i \in 1..Len(returned) : returned[i] = m
  <2>1. DOMAIN returned = 1..Len(returned)
    BY TestFacts DEF TestInv
  <2> QED BY <2>1 DEF Range
<1>1. /\ TestTypeOK /\ MessagesInv /\ LoneReceiveMissesNothing /\ Len(event) \in Nat
      /\ m \in Nat /\ m >= 1 /\ Len(returned) \in Nat /\ Handed \in Nat
      /\ DOMAIN buffer = 1..Len(buffer)
      /\ \A j \in 1..Len(buffer) : buffer[j] \in Nat
  <2>1. TestTypeOK /\ MessagesInv /\ LoneReceiveMissesNothing
    BY DEF TestInv
  <2>2. Len(outgoing) <= Len(event)
    BY <2>1 DEF MessagesInv
  <2> QED BY <2>1, <2>2, TestFacts DEF Handed
<1>2. m \in 1..Handed => \/ \E i \in 1..Len(buffer) : buffer[i] = m
                         \/ \E i \in 1..Len(returned) : returned[i] = m
  BY <1>1 DEF MessagesInv
<1>3. ASSUME NEW r \in Receiver, NEW e \in Event, ReceiveBuffered(r, e)
      PROVE  \E i \in 1..Len(returned) : returned[i] = m
  <2>1. PICK k \in Buffered(e) : /\ \A j \in Buffered(e) : k <= j
                                 /\ returned' = Append(returned, buffer[k])
    BY <1>3 DEF ReceiveBuffered
  <2>2. k \in 1..Len(buffer) /\ event[buffer[k]] = e /\ buffer[k] \in DOMAIN event
    BY <1>1, TestFacts DEF Buffered
  <2>3. Last(returned') = buffer[k]
    BY <1>1, <2>1, <2>2, TestFacts, LastAppended
  <2>4. m < buffer[k] /\ event[m] = e /\ buffer[k] <= Handed
    BY <1>1, <2>2, <2>3 DEF MessagesInv
  <2>5. m \in 1..Handed
    BY <1>1, <2>2, <2>4
  <2>6. ASSUME NEW j \in 1..Len(buffer), buffer[j] = m PROVE FALSE
    <3>1. j \in Buffered(e)
      BY <1>1, <2>4, <2>6 DEF Buffered
    <3>2. k <= j /\ j # k
      BY <1>1, <2>1, <2>2, <2>4, <2>6, <3>1
    <3>3. k \in 1..j-1
      BY <2>2, <3>2
    <3>4. buffer[k] < buffer[j]
      BY <1>1, <3>3 DEF MessagesInv
    <3> QED BY <1>1, <2>2, <2>4, <2>6, <3>4
  <2> QED BY <1>2, <2>5, <2>6
<1>4. ASSUME NEW r \in Receiver, GetMatch(r)
      PROVE  \E i \in 1..Len(returned) : returned[i] = m
  <2>1. /\ wanted[r] # NoEvent /\ outgoing # <<>> /\ event[Head(outgoing)] = wanted[r]
        /\ returned' = Append(returned, Head(outgoing))
        /\ event' = event /\ outgoing' = Tail(outgoing)
    BY <1>4 DEF GetMatch
  <2>2. Head(outgoing) = Handed + 1 /\ Head(outgoing) \in DOMAIN event
    BY <1>1, <2>1, HeadFacts
  <2>3. Last(returned') = Head(outgoing)
    BY <1>1, <2>1, <2>2, TestFacts, LastAppended
  <2>4. m \in 1..Handed /\ event[m] = wanted[r]
    BY <1>1, <2>1, <2>2, <2>3
  <2>5. \A i \in 1..Len(buffer) : event[buffer[i]] # wanted[r]
    BY <1>1, <2>1, NotBuffered DEF LoneReceiveMissesNothing
  <2> QED BY <1>2, <2>4, <2>5
<1> QED BY <1>3, <1>4 DEF TestNext, Connect, Leave, Close, SendJson, ReceiveWaits, GetOther,
        TimesOut, testVars

\* Test client: every variable keeps its type, for any number of receiving tasks.
THEOREM TestTypeCorrect == TestSpec => []TestTypeOK
<1>1. TestInv => TestTypeOK
  BY DEF TestInv
<1> QED BY <1>1, TestInitInv, TestStep, PTL DEF TestSpec

\* Test client: whatever is received, times out or overlaps, every message put is
\* in the queue, in the buffer or returned, and in one of them only.
THEOREM TestNoneLost == TestSpec => []NoneLost
<1>1. TestInv => NoneLost
  BY NoneLostFromInv
<1> QED BY <1>1, TestInitInv, TestStep, PTL DEF TestSpec

\* Test client: a receive that no other has run beside never waits for a message
\* that is in the buffer.
THEOREM TestLoneReceive == TestSpec => []LoneReceiveMissesNothing
<1>1. TestInv => LoneReceiveMissesNothing
  BY DEF TestInv
<1> QED BY <1>1, TestInitInv, TestStep, PTL DEF TestSpec

\* Test client: while no receives overlap, a receive returns the oldest message of
\* its event that was not returned before.
THEOREM TestOldestReturned == TestSpec => OldestReturned
<1>1. TestInv /\ [TestNext]_testVars =>
        [returned' # returned /\ disturbed = {} =>
            \A m \in DOMAIN event :
               event[m] = event[Last(returned')] /\ m < Last(returned') => m \in Range(returned)
        ]_testVars
  BY OldestFromInv
<1> QED BY <1>1, TestInitInv, TestStep, PTL DEF TestSpec, OldestReturned

=============================================================================
