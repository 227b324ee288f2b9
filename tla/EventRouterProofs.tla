------------------------- MODULE EventRouterProofs -------------------------
(***************************************************************************)
(* For any number of requests, and whatever user code raises, swallows or  *)
(* leaves running: an ordered event is in one queue or has been handed to  *)
(* its handler, once and in turn; a queue that events are put into has a   *)
(* worker; and a worker that has been abandoned finds its sentinel.        *)
(***************************************************************************)
EXTENDS EventRouter, SequenceTheorems, TLAPS

USE NAssumption, FaultsAssumption

-----------------------------------------------------------------------------
(* Queues as sequences of numbers, 0 being the sentinel.                   *)
Elems(s) == {s[i] : i \in DOMAIN s}

\* The requests in s come in their order, all of them after request low.
Ascending(s, low) ==
    \A i \in DOMAIN s : s[i] # Sentinel =>
        s[i] > low /\ \A j \in 1..i-1 : s[j] < s[i]

SentinelLast(s) == \A i \in DOMAIN s : s[i] = Sentinel => i = Len(s)

\* What put() does to a queue.
LEMMA AppendFacts ==
    ASSUME NEW S, NEW s \in Seq(S), NEW x \in S
    PROVE  /\ Append(s, x) \in Seq(S) /\ Append(s, x) # <<>>
           /\ DOMAIN s = 1..Len(s) /\ Len(s) \in Nat
           /\ Len(Append(s, x)) = Len(s) + 1
           /\ DOMAIN Append(s, x) = 1..Len(s)+1
           /\ \A i \in 1..Len(s) : Append(s, x)[i] = s[i]
           /\ Append(s, x)[Len(s) + 1] = x
OBVIOUS

\* What get() does to a queue.
LEMMA TailFacts ==
    ASSUME NEW S, NEW s \in Seq(S), s # <<>>
    PROVE  /\ Head(s) \in S /\ Head(s) = s[1]
           /\ Tail(s) \in Seq(S)
           /\ DOMAIN s = 1..Len(s) /\ Len(s) \in Nat \ {0}
           /\ Len(Tail(s)) = Len(s) - 1
           /\ DOMAIN Tail(s) = 1..Len(s)-1
           /\ \A i \in 1..Len(s)-1 : Tail(s)[i] = s[i + 1]
BY HeadTailProperties

LEMMA ElemsTyped ==
    ASSUME NEW S, NEW s \in Seq(S)
    PROVE  Elems(s) \subseteq S
BY DEF Elems

LEMMA ElemsEmpty ==
    /\ Elems(<<>>) = {}
    /\ \A low : Ascending(<<>>, low)
    /\ SentinelLast(<<>>)
BY DEF Elems, Ascending, SentinelLast

LEMMA ElemsAppend ==
    ASSUME NEW S, NEW s \in Seq(S), NEW x \in S
    PROVE  Elems(Append(s, x)) = Elems(s) \cup {x}
<1>1. Elems(Append(s, x)) \subseteq Elems(s) \cup {x}
  BY AppendFacts DEF Elems
<1>2. ASSUME NEW e \in Elems(s) PROVE e \in Elems(Append(s, x))
  <2>1. PICK i \in DOMAIN s : e = s[i]
    BY DEF Elems
  <2>2. i \in DOMAIN Append(s, x) /\ Append(s, x)[i] = e
    BY <2>1, AppendFacts
  <2> QED BY <2>2 DEF Elems
<1>3. x \in Elems(Append(s, x))
  <2>1. Len(s) + 1 \in DOMAIN Append(s, x) /\ Append(s, x)[Len(s) + 1] = x
    BY AppendFacts
  <2> QED BY <2>1 DEF Elems
<1> QED BY <1>1, <1>2, <1>3

LEMMA ElemsTail ==
    ASSUME NEW S, NEW s \in Seq(S), s # <<>>
    PROVE  Elems(s) = Elems(Tail(s)) \cup {Head(s)} /\ Head(s) \in S
<1>1. ASSUME NEW e \in Elems(s) PROVE e \in Elems(Tail(s)) \cup {Head(s)}
  <2>1. PICK i \in DOMAIN s : e = s[i]
    BY DEF Elems
  <2>2. CASE i = 1
    BY <2>1, <2>2, TailFacts
  <2>3. CASE i # 1
    <3>1. i - 1 \in DOMAIN Tail(s) /\ Tail(s)[i - 1] = s[i]
      BY <2>1, <2>3, TailFacts
    <3> QED BY <2>1, <3>1 DEF Elems
  <2> QED BY <2>2, <2>3
<1>2. ASSUME NEW e \in Elems(Tail(s)) PROVE e \in Elems(s)
  <2>1. PICK i \in DOMAIN Tail(s) : e = Tail(s)[i]
    BY DEF Elems
  <2>2. i + 1 \in DOMAIN s /\ s[i + 1] = e
    BY <2>1, TailFacts
  <2> QED BY <2>2 DEF Elems
<1>3. Head(s) \in Elems(s) /\ Head(s) \in S
  <2>1. 1 \in DOMAIN s /\ Head(s) = s[1] /\ Head(s) \in S
    BY TailFacts
  <2> QED BY <2>1 DEF Elems
<1> QED BY <1>1, <1>2, <1>3

\* A later request is put last.
LEMMA AscendingAppend ==
    ASSUME NEW s \in Seq(Nat), NEW low \in Nat, Ascending(s, low), NEW x \in Nat,
           x > low, \A e \in Elems(s) : e < x
    PROVE  Ascending(Append(s, x), low)
<1> SUFFICES ASSUME NEW i \in DOMAIN Append(s, x), Append(s, x)[i] # Sentinel
             PROVE  /\ Append(s, x)[i] > low
                    /\ \A j \in 1..i-1 : Append(s, x)[j] < Append(s, x)[i]
  BY DEF Ascending
<1>1. CASE i \in 1..Len(s)
  BY <1>1, AppendFacts DEF Ascending
<1>2. CASE i = Len(s) + 1
  <2>1. ASSUME NEW j \in 1..Len(s) PROVE s[j] < x
    BY AppendFacts DEF Elems
  <2> QED BY <1>2, <2>1, AppendFacts
<1> QED BY <1>1, <1>2, AppendFacts

\* So does the sentinel, which the order does not concern.
LEMMA AscendingSentinel ==
    ASSUME NEW s \in Seq(Nat), NEW low \in Nat, Ascending(s, low)
    PROVE  Ascending(Append(s, Sentinel), low)
<1>1. Sentinel \in Nat
  BY DEF Sentinel
<1> QED BY <1>1, AppendFacts DEF Ascending

\* What is left in the queue comes after what has been taken, so that is no
\* longer in it.
LEMMA AscendingTail ==
    ASSUME NEW s \in Seq(Nat), s # <<>>, NEW low \in Nat, Ascending(s, low)
    PROVE  /\ Ascending(Tail(s), low)
           /\ Ascending(Tail(s), Head(s))
           /\ Head(s) # Sentinel => Head(s) \notin Elems(Tail(s))
<1>1. ASSUME NEW i \in DOMAIN Tail(s), Tail(s)[i] # Sentinel
      PROVE  /\ Tail(s)[i] > low /\ Tail(s)[i] > Head(s)
             /\ \A j \in 1..i-1 : Tail(s)[j] < Tail(s)[i]
  <2>1. i + 1 \in DOMAIN s /\ Tail(s)[i] = s[i + 1] /\ Head(s) = s[1]
    BY TailFacts
  <2>2. s[i + 1] > low /\ \A j \in 1..i : s[j] < s[i + 1]
    BY <1>1, <2>1, TailFacts DEF Ascending
  <2>3. 1 \in 1..i /\ \A j \in 1..i-1 : j + 1 \in 1..i /\ Tail(s)[j] = s[j + 1]
    BY TailFacts
  <2>4. s[i + 1] \in Nat /\ s[1] \in Nat
    BY <2>1, TailFacts
  <2>5. s[i + 1] > Head(s)
    BY <2>1, <2>2, <2>3, <2>4
  <2> QED BY <2>1, <2>2, <2>3, <2>5
<1>2. Head(s) # Sentinel => Head(s) \notin Elems(Tail(s))
  <2> SUFFICES ASSUME Head(s) # Sentinel, NEW i \in DOMAIN Tail(s), Head(s) = Tail(s)[i]
               PROVE  FALSE
    BY DEF Elems
  <2>1. Head(s) > Head(s) /\ Head(s) \in Nat
    BY <1>1, TailFacts
  <2> QED BY <2>1
<1> QED BY <1>1, <1>2 DEF Ascending

LEMMA SentinelLastKept ==
    ASSUME NEW s \in Seq(Nat), SentinelLast(s)
    PROVE  /\ \A x \in Nat : Sentinel \notin Elems(s) => SentinelLast(Append(s, x))
           /\ s # <<>> => SentinelLast(Tail(s))
<1>1. ASSUME NEW x \in Nat, Sentinel \notin Elems(s) PROVE SentinelLast(Append(s, x))
  BY <1>1, AppendFacts DEF SentinelLast, Elems
<1>2. ASSUME s # <<>> PROVE SentinelLast(Tail(s))
  <2> SUFFICES ASSUME NEW i \in DOMAIN Tail(s), Tail(s)[i] = Sentinel
               PROVE  i = Len(Tail(s))
    BY DEF SentinelLast
  <2>1. /\ i \in 1..Len(s)-1 /\ Len(s) \in Nat \ {0} /\ DOMAIN s = 1..Len(s)
        /\ Tail(s)[i] = s[i + 1] /\ Len(Tail(s)) = Len(s) - 1
    BY <1>2, TailFacts
  <2>2. i + 1 \in DOMAIN s /\ s[i + 1] = Sentinel
    BY <2>1
  <2>3. i + 1 = Len(s)
    BY <2>2 DEF SentinelLast
  <2> QED BY <2>1, <2>3
<1> QED BY <1>1, <1>2

-----------------------------------------------------------------------------
(* Type correctness.                                                       *)
LEMMA SeqWidens ==
    ASSUME NEW S, NEW T, S \subseteq T, NEW s \in Seq(S)
    PROVE  s \in Seq(T)
<1>1. s \in [1..Len(s) -> T] /\ Len(s) \in Nat
  OBVIOUS
<1> QED BY <1>1

LEMMA TypeFacts ==
    ASSUME TypeOK
    PROVE  /\ arrived \in Nat /\ N \in Nat
           /\ listed # None => listed \in Request
           /\ \A q \in Request : queue[q] \in Seq(0..arrived) /\ queue[q] \in Seq(Nat)
           /\ \A t \in Request : item[t] \in Nat /\ item[t] <= arrived
           /\ ordered \subseteq Request /\ begun \subseteq Request
<1>1. arrived \in Nat /\ N \in Nat /\ 1..arrived \subseteq Request
  BY DEF TypeOK, Request
<1>2. ASSUME NEW q \in Request
      PROVE  queue[q] \in Seq(0..arrived) /\ queue[q] \in Seq(Nat)
  <2>1. 0..arrived \subseteq Nat
    BY <1>1
  <2>2. queue[q] \in Seq(0..arrived)
    BY DEF TypeOK
  <2> QED BY <2>1, <2>2, SeqWidens
<1>3. \A t \in Request : item[t] \in Nat /\ item[t] <= arrived
  BY <1>1 DEF TypeOK
<1> QED BY <1>1, <1>2, <1>3 DEF TypeOK

\* The queues still hold dispatched requests when one more is dispatched.
LEMMA ArriveTyped ==
    ASSUME TypeOK, NEW r \in Request, Arrive(r)
    PROVE  /\ arrived' \in 0..N /\ arrived' = arrived + 1 /\ r = arrived'
           /\ adapter' \in {"receive", "middleware", "ended"}
           /\ 1..arrived \subseteq 1..arrived' /\ 0..arrived \subseteq 0..arrived'
           /\ r \in 1..arrived' /\ r \in 0..arrived'
           /\ queue \in [Request -> Seq(0..arrived')]
           /\ item \in [Request -> 0..arrived']
<1>1. /\ arrived' \in 0..N /\ arrived' = arrived + 1 /\ r = arrived'
      /\ adapter' \in {"receive", "middleware", "ended"}
      /\ 1..arrived \subseteq 1..arrived' /\ 0..arrived \subseteq 0..arrived'
      /\ r \in 1..arrived' /\ r \in 0..arrived'
  BY DEF TypeOK, Request, Arrive
<1>2. queue \in [Request -> Seq(0..arrived')]
  <2>1. ASSUME NEW q \in Request PROVE queue[q] \in Seq(0..arrived')
    <3>1. queue[q] \in Seq(0..arrived)
      BY DEF TypeOK
    <3> QED BY <3>1, <1>1, SeqWidens
  <2>2. queue = [q \in Request |-> queue[q]]
    BY DEF TypeOK
  <2> QED BY <2>1, <2>2
<1>3. item \in [Request -> 0..arrived']
  <2>1. item \in [Request -> 0..arrived]
    BY DEF TypeOK
  <2> QED BY <2>1, <1>1
<1> QED BY <1>1, <1>2, <1>3

LEMMA DispatchTyped ==
    ASSUME TypeOK, NEW r \in Request, Dispatch(r)
    PROVE  TypeOK'
<1>0. Arrive(r)
  BY DEF Dispatch, DispatchRejected, DispatchUnordered, DispatchToNewQueue, DispatchToQueue
<1>a. /\ arrived' \in 0..N /\ arrived' = arrived + 1 /\ r = arrived'
      /\ adapter' \in {"receive", "middleware", "ended"}
      /\ 1..arrived \subseteq 1..arrived' /\ 0..arrived \subseteq 0..arrived'
      /\ r \in 1..arrived' /\ r \in 0..arrived'
      /\ queue \in [Request -> Seq(0..arrived')]
      /\ item \in [Request -> 0..arrived']
  BY <1>0, ArriveTyped
<1>1. CASE DispatchRejected(r)
  BY <1>1, <1>a DEF DispatchRejected, outcomes, TypeOK
<1>2. CASE DispatchUnordered(r)
  BY <1>2, <1>a DEF DispatchUnordered, Spawn, outcomes, TypeOK, Label
<1>3. CASE DispatchToNewQueue(r)
  <2>1. <<r>> \in Seq(0..arrived')
    BY <1>a
  <2>2. queue' \in [Request -> Seq(0..arrived')]
    BY <1>3, <1>a, <2>1 DEF DispatchToNewQueue
  <2> QED BY <1>3, <1>a, <2>2 DEF DispatchToNewQueue, Spawn, outcomes, TypeOK, Label
<1>4. CASE DispatchToQueue(r)
  <2>1. listed \in Request /\ queue[listed] \in Seq(0..arrived')
    BY <1>4, <1>a, TypeFacts DEF DispatchToQueue
  <2>2. Append(queue[listed], r) \in Seq(0..arrived')
    BY <2>1, <1>a
  <2>3. queue' \in [Request -> Seq(0..arrived')]
    BY <1>4, <1>a, <2>2 DEF DispatchToQueue
  <2> QED BY <1>4, <1>a, <2>3 DEF DispatchToQueue, outcomes, TypeOK
<1> QED BY <1>1, <1>2, <1>3, <1>4 DEF Dispatch

\* by ranges over tasks of every kind.
LEMMA CleanupTyped ==
    ASSUME TypeOK, NEW by, Cleanup(by),
           open' \in BOOLEAN, adapter' \in {"receive", "middleware", "ended"}
    PROVE  TypeOK'
<1>1. queue' \in [Request -> Seq(0..arrived)]
  <2>1. CASE listed = None
    BY <2>1 DEF Cleanup, TypeOK
  <2>2. CASE listed # None
    <3>1. queue[listed] \in Seq(0..arrived) /\ Sentinel \in 0..arrived /\ listed \in Request
      BY <2>2, TypeFacts DEF Sentinel
    <3>2. Append(queue[listed], Sentinel) \in Seq(0..arrived)
      BY <3>1
    <3>3. queue' = [queue EXCEPT ![listed] = Append(@, Sentinel)]
      BY <2>2 DEF Cleanup
    <3> QED BY <3>2, <3>3 DEF TypeOK
  <2> QED BY <2>1, <2>2
<1>2. cancel' \in [Request -> {"no", "owed", "thrown"}]
  BY DEF Cleanup, TypeOK
<1> QED BY <1>1, <1>2 DEF Cleanup, outcomes, TypeOK

LEMMA NextItemTyped ==
    ASSUME TypeOK, NEW t \in Request, NextItem(t)
    PROVE  /\ queue' \in [Request -> Seq(0..arrived)]
           /\ at' \in [Request -> Label]
           /\ item' \in [Request -> 0..arrived]
           /\ begun' \subseteq 1..arrived /\ tracked' \subseteq 1..arrived
           /\ cancel' \in [Request -> {"no", "owed", "thrown"}]
<1>1. CASE queue[t] = <<>>
  BY <1>1 DEF NextItem, TypeOK, Goto, Label
<1>2. CASE queue[t] # <<>>
  <2>1. /\ Head(queue[t]) \in 0..arrived /\ Tail(queue[t]) \in Seq(0..arrived)
        /\ arrived \in Nat
    BY <1>2, TypeFacts, TailFacts
  <2>2. queue' \in [Request -> Seq(0..arrived)]
    BY <1>2, <2>1 DEF NextItem, TypeOK
  <2>3. CASE Head(queue[t]) = Sentinel
    BY <1>2, <2>2, <2>3 DEF NextItem, TypeOK, End, Goto, Label
  <2>4. CASE Head(queue[t]) # Sentinel
    <3>1. Head(queue[t]) \in 1..arrived
      BY <2>1, <2>4 DEF Sentinel
    <3> QED BY <1>2, <2>1, <2>2, <2>4, <3>1 DEF NextItem, TypeOK, Begin, Goto, Label
  <2> QED BY <2>3, <2>4
<1> QED BY <1>1, <1>2

\* Only a task that has been dispatched has a place to fail at.
LEMMA TaskTyped ==
    ASSUME TypeOK, NEW t \in Request, TaskStep(t), t \in 1..arrived
    PROVE  TypeOK'
<1>1. CASE Start(t)
  <2>1. CASE t \in ordered
    BY <1>1, <2>1, NextItemTyped DEF Start, outcomes, TypeOK
  <2>2. CASE t \notin ordered
    <3>1. t \in 0..arrived /\ item' = [item EXCEPT ![t] = t]
      BY <1>1, <2>2, TypeFacts DEF Start, Begin
    <3>2. item' \in [Request -> 0..arrived]
      BY <3>1 DEF TypeOK
    <3> QED BY <1>1, <2>2, <3>2 DEF Start, Begin, Goto, Label, outcomes, TypeOK
  <2> QED BY <2>1, <2>2
<1>2. CASE TakeItem(t)
  BY <1>2, NextItemTyped DEF TakeItem, outcomes, TypeOK
<1>3. CASE HandlerEnds(t)
  BY <1>3 DEF HandlerEnds, HandlerReturns, HandlerRaises, HandlerRaisesCancelled, Resume,
              Goto, Label, outcomes, TypeOK
<1>4. CASE Reported(t)
  BY <1>4 DEF Reported, Resume, Goto, Label, outcomes, TypeOK
<1>5. CASE ExitReturns(t)
  <2>1. CASE t \in ordered \ failing
    BY <1>5, <2>1, NextItemTyped DEF ExitReturns, outcomes, TypeOK
  <2>2. CASE t \notin ordered \ failing
    BY <1>5, <2>2 DEF ExitReturns, End, Goto, Label, outcomes, TypeOK
  <2> QED BY <2>1, <2>2
<1>6. CASE ExitRaises(t)
  BY <1>6 DEF ExitRaises, End, Goto, Label, TypeOK
<1>7. CASE Cancelled(t)
  BY <1>7 DEF Cancelled, End, Goto, Label, outcomes, TypeOK
<1>8. CASE Swallowed(t)
  BY <1>8 DEF Swallowed, outcomes, TypeOK
<1> QED BY <1>1, <1>2, <1>3, <1>4, <1>5, <1>6, <1>7, <1>8 DEF TaskStep

-----------------------------------------------------------------------------
(* The inductive invariant.                                                *)
\* What is yet to be dispatched has no task and no cancellation.
NothingAhead == \A t \in Request : t > arrived => at[t] = "none" /\ cancel[t] = "no"

\* Only an ordered event creates a queue, and only ordered events are put.
QueuesOfOrdered ==
    \A q \in Request :
        /\ Elems(queue[q]) \subseteq ordered \cup {Sentinel}
        /\ q \notin ordered => queue[q] = <<>>

\* The listed queue has not been ended, nor its worker been cancelled.
ListedNotEnded ==
    listed # None => Sentinel \notin Elems(queue[listed]) /\ cancel[listed] = "no"

\* The handler of an unordered event has not been started before its task.
TasksStartOnce ==
    \A t \in Request \ ordered : at[t] \in {"none", "spawned"} => t \notin begun

QueuesSorted ==
    \A q \in Request : Ascending(queue[q], item[q]) /\ SentinelLast(queue[q])

QueuesDisjoint ==
    \A q, p \in Request : q # p => Elems(queue[q]) \cap Elems(queue[p]) \subseteq {Sentinel}

WaitingOrBegun ==
    \A r \in ordered : r \in begun <=> \A q \in Request : r \notin Elems(queue[q])

AbandonedHasSentinel ==
    \A t \in ordered : Alive(t) => (t # listed <=> Sentinel \in Elems(queue[t]))

TypeInv == TypeOK /\ NothingAhead

\* What relates a queue to the requests, and what relates it to its worker.
EventsInv == QueuesOfOrdered /\ QueuesSorted /\ QueuesDisjoint /\ WaitingOrBegun

WorkersInv == ListedNotEnded /\ AbandonedHasSentinel /\ ListedQueueHasWorker

RouterInv == TypeInv /\ EventsInv /\ WorkersInv /\ TasksStartOnce

-----------------------------------------------------------------------------
(* What the operations on the queues do to EventsInv.                      *)
\* dispatch puts the latest request last, into an open queue.
LEMMA EventsPut ==
    ASSUME TypeOK, EventsInv, NEW r \in Request, r = arrived + 1,
           NEW q \in ordered \cup {r}, Sentinel \notin Elems(queue[q]),
           queue' = [queue EXCEPT ![q] = Append(queue[q], r)],
           ordered' = ordered \cup {r}, item' = item, begun' = begun
    PROVE  EventsInv'
<1>1. /\ q \in Request /\ r \in Nat /\ r # Sentinel
      /\ \A p \in Request : queue[p] \in Seq(Nat) /\ item[p] \in Nat /\ item[p] < r
      /\ \A p \in Request : \A e \in Elems(queue[p]) : e \in Nat /\ e < r
      /\ r \notin ordered /\ r \notin begun
  <2>1. arrived \in Nat /\ ordered \subseteq 1..arrived /\ begun \subseteq 1..arrived
    BY TypeFacts DEF TypeOK
  <2>2. \A p \in Request : Elems(queue[p]) \subseteq 0..arrived
    BY TypeFacts, ElemsTyped
  <2>3. r \in Nat /\ r # Sentinel /\ q \in Request /\ r \notin ordered /\ r \notin begun
    BY <2>1, TypeFacts DEF Sentinel
  <2>4. \A p \in Request : queue[p] \in Seq(Nat) /\ item[p] \in Nat /\ item[p] < r
    BY <2>1, TypeFacts
  <2>5. \A e \in 0..arrived : e \in Nat /\ e < r
    BY <2>1
  <2> QED BY <2>2, <2>3, <2>4, <2>5
<1>2. /\ queue'[q] = Append(queue[q], r)
      /\ \A p \in Request \ {q} : queue'[p] = queue[p]
      /\ Elems(queue'[q]) = Elems(queue[q]) \cup {r}
  <2>1. /\ queue'[q] = Append(queue[q], r)
        /\ \A p \in Request \ {q} : queue'[p] = queue[p]
    BY <1>1 DEF TypeOK
  <2>2. Elems(Append(queue[q], r)) = Elems(queue[q]) \cup {r}
    BY <1>1, ElemsAppend
  <2> QED BY <2>1, <2>2
<1>3. QueuesOfOrdered'
  <2>1. \A p \in Request : Elems(queue'[p]) \subseteq ordered' \cup {Sentinel}
    BY <1>2 DEF EventsInv, QueuesOfOrdered
  <2>2. \A p \in Request : p \notin ordered' => queue'[p] = <<>>
    BY <1>2 DEF EventsInv, QueuesOfOrdered
  <2> QED BY <2>1, <2>2 DEF QueuesOfOrdered, Elems
<1>4. QueuesSorted'
  <2>1. ASSUME NEW p \in Request
        PROVE  Ascending(queue'[p], item[p]) /\ SentinelLast(queue'[p])
    <3>1. Ascending(queue[p], item[p]) /\ SentinelLast(queue[p])
      BY DEF EventsInv, QueuesSorted
    <3>2. CASE p # q
      BY <1>2, <3>1, <3>2
    <3>3. CASE p = q
      <4>1. Ascending(Append(queue[q], r), item[q])
        BY <1>1, <3>1, <3>3, AscendingAppend
      <4>2. SentinelLast(Append(queue[q], r))
        BY <1>1, <3>1, <3>3, SentinelLastKept
      <4> QED BY <1>2, <3>3, <4>1, <4>2
    <3> QED BY <3>2, <3>3
  <2> QED BY <2>1 DEF QueuesSorted, Ascending, SentinelLast
<1>5. QueuesDisjoint'
  <2>1. \A p \in Request : r \notin Elems(queue[p])
    BY <1>1
  <2>2. \A p, o \in Request : p # o => Elems(queue'[p]) \cap Elems(queue'[o]) \subseteq {Sentinel}
    BY <1>2, <2>1 DEF EventsInv, QueuesDisjoint
  <2> QED BY <2>2 DEF QueuesDisjoint, Elems
<1>6. WaitingOrBegun'
  <2>1. ASSUME NEW e \in ordered
        PROVE  e \in begun <=> \A p \in Request : e \notin Elems(queue'[p])
    <3>1. e # r
      BY <1>1
    <3>2. \A p \in Request : e \in Elems(queue'[p]) <=> e \in Elems(queue[p])
      BY <1>2, <3>1
    <3> QED BY <3>2 DEF EventsInv, WaitingOrBegun
  <2>2. r \notin begun /\ r \in Elems(queue'[q])
    BY <1>1, <1>2
  <2>3. \A e \in ordered' : e \in begun <=> \A p \in Request : e \notin Elems(queue'[p])
    BY <1>1, <2>1, <2>2
  <2> QED BY <2>3 DEF WaitingOrBegun, Elems
<1> QED BY <1>3, <1>4, <1>5, <1>6 DEF EventsInv

\* cleanup ends the open queue.
LEMMA EventsEnded ==
    ASSUME TypeOK, EventsInv, NEW q \in Request, q \in ordered,
           Sentinel \notin Elems(queue[q]),
           queue' = [queue EXCEPT ![q] = Append(queue[q], Sentinel)],
           ordered' = ordered, item' = item, begun' = begun
    PROVE  EventsInv'
<1>1. /\ \A p \in Request : queue[p] \in Seq(Nat) /\ item[p] \in Nat
      /\ Sentinel \in Nat /\ Sentinel \notin ordered
  BY TypeFacts DEF Sentinel, TypeOK
<1>2. /\ queue'[q] = Append(queue[q], Sentinel)
      /\ \A p \in Request \ {q} : queue'[p] = queue[p]
      /\ Elems(queue'[q]) = Elems(queue[q]) \cup {Sentinel}
  BY <1>1, ElemsAppend DEF TypeOK
<1>3. QueuesOfOrdered'
  <2>1. \A p \in Request : Elems(queue'[p]) \subseteq ordered \cup {Sentinel}
    BY <1>2 DEF EventsInv, QueuesOfOrdered
  <2>2. \A p \in Request : p \notin ordered => queue'[p] = <<>>
    BY <1>2 DEF EventsInv, QueuesOfOrdered
  <2> QED BY <2>1, <2>2 DEF QueuesOfOrdered, Elems
<1>4. QueuesSorted'
  <2>1. ASSUME NEW p \in Request
        PROVE  Ascending(queue'[p], item[p]) /\ SentinelLast(queue'[p])
    <3>1. Ascending(queue[p], item[p]) /\ SentinelLast(queue[p])
      BY DEF EventsInv, QueuesSorted
    <3>2. CASE p # q
      BY <1>2, <3>1, <3>2
    <3>3. CASE p = q
      <4>1. Ascending(Append(queue[q], Sentinel), item[q])
        BY <1>1, <3>1, <3>3, AscendingSentinel
      <4>2. SentinelLast(Append(queue[q], Sentinel))
        BY <1>1, <3>1, <3>3, SentinelLastKept
      <4> QED BY <1>2, <3>3, <4>1, <4>2
    <3> QED BY <3>2, <3>3
  <2> QED BY <2>1 DEF QueuesSorted, Ascending, SentinelLast
<1>5. QueuesDisjoint'
  <2>1. \A p, o \in Request : p # o => Elems(queue'[p]) \cap Elems(queue'[o]) \subseteq {Sentinel}
    BY <1>2 DEF EventsInv, QueuesDisjoint
  <2> QED BY <2>1 DEF QueuesDisjoint, Elems
<1>6. WaitingOrBegun'
  <2>1. \A e \in ordered : \A p \in Request : e \in Elems(queue'[p]) <=> e \in Elems(queue[p])
    BY <1>1, <1>2
  <2>2. \A e \in ordered : e \in begun <=> \A p \in Request : e \notin Elems(queue'[p])
    BY <2>1 DEF EventsInv, WaitingOrBegun
  <2> QED BY <2>2 DEF WaitingOrBegun, Elems
<1> QED BY <1>3, <1>4, <1>5, <1>6 DEF EventsInv

\* A worker takes the head of its queue: the sentinel, or a request whose handler
\* it starts.
LEMMA EventsTaken ==
    ASSUME TypeOK, EventsInv, NEW t \in Request, queue[t] # <<>>,
           queue' = [queue EXCEPT ![t] = Tail(queue[t])], ordered' = ordered,
           \/ Head(queue[t]) = Sentinel /\ item' = item /\ begun' = begun
           \/ /\ Head(queue[t]) # Sentinel
              /\ item' = [item EXCEPT ![t] = Head(queue[t])]
              /\ begun' = begun \cup {Head(queue[t])}
    PROVE  EventsInv'
<1> DEFINE h == Head(queue[t])
<1>1. /\ \A p \in Request : queue[p] \in Seq(Nat) /\ item[p] \in Nat
      /\ Sentinel \notin ordered
  BY TypeFacts DEF Sentinel, TypeOK
<1>2. /\ queue'[t] = Tail(queue[t])
      /\ \A p \in Request \ {t} : queue'[p] = queue[p]
  BY DEF TypeOK
<1>3. Elems(queue[t]) = Elems(queue'[t]) \cup {h} /\ h \in Nat
  BY <1>1, <1>2, ElemsTail
<1>4. /\ Ascending(Tail(queue[t]), item[t]) /\ Ascending(Tail(queue[t]), h)
      /\ h # Sentinel => h \notin Elems(queue'[t])
      /\ SentinelLast(Tail(queue[t]))
  <2>1. Ascending(queue[t], item[t]) /\ SentinelLast(queue[t])
    BY DEF EventsInv, QueuesSorted
  <2> QED BY <1>1, <1>2, <2>1, AscendingTail, SentinelLastKept
<1>5. /\ \A p \in Request \ {t} : item'[p] = item[p]
      /\ item'[t] \in {item[t], h}
  BY DEF TypeOK
<1>6. \A e : e \in begun' <=> e \in begun \/ (h # Sentinel /\ e = h)
  OBVIOUS
<1> HIDE DEF h
<1>7. QueuesOfOrdered'
  <2>1. \A p \in Request : Elems(queue'[p]) \subseteq ordered \cup {Sentinel}
    BY <1>2, <1>3 DEF EventsInv, QueuesOfOrdered
  <2>2. \A p \in Request : p \notin ordered => queue'[p] = <<>>
    BY <1>2 DEF EventsInv, QueuesOfOrdered
  <2> QED BY <2>1, <2>2 DEF QueuesOfOrdered, Elems
<1>8. QueuesSorted'
  <2>1. ASSUME NEW p \in Request
        PROVE  Ascending(queue'[p], item'[p]) /\ SentinelLast(queue'[p])
    BY <1>2, <1>4, <1>5 DEF EventsInv, QueuesSorted
  <2> QED BY <2>1 DEF QueuesSorted, Ascending, SentinelLast
<1>9. QueuesDisjoint'
  <2>1. \A p, o \in Request : p # o => Elems(queue'[p]) \cap Elems(queue'[o]) \subseteq {Sentinel}
    BY <1>2, <1>3 DEF EventsInv, QueuesDisjoint
  <2> QED BY <2>1 DEF QueuesDisjoint, Elems
<1>10. WaitingOrBegun'
  <2>1. ASSUME NEW e \in ordered
        PROVE  e \in begun' <=> \A p \in Request : e \notin Elems(queue'[p])
    <3>1. CASE e = h
      <4>1. h # Sentinel /\ h \in Elems(queue[t])
        BY <1>1, <1>3, <3>1
      <4>2. \A p \in Request : h \notin Elems(queue'[p])
        BY <1>2, <1>4, <4>1 DEF EventsInv, QueuesDisjoint
      <4> QED BY <1>6, <3>1, <4>1, <4>2
    <3>2. CASE e # h
      <4>1. \A p \in Request : e \in Elems(queue'[p]) <=> e \in Elems(queue[p])
        BY <1>2, <1>3, <3>2
      <4>2. e \in begun' <=> e \in begun
        BY <1>6, <3>2
      <4> QED BY <4>1, <4>2 DEF EventsInv, WaitingOrBegun
    <3> QED BY <3>1, <3>2
  <2> QED BY <2>1 DEF WaitingOrBegun, Elems
<1> QED BY <1>7, <1>8, <1>9, <1>10 DEF EventsInv

\* The handler of an unordered event starts: its task has no queue.
LEMMA EventsBegun ==
    ASSUME TypeOK, EventsInv, NEW t \in Request \ ordered,
           queue' = queue, ordered' = ordered,
           item' = [item EXCEPT ![t] = t], begun' = begun \cup {t}
    PROVE  EventsInv'
<1>1. QueuesOfOrdered' /\ QueuesDisjoint'
  BY DEF EventsInv, QueuesOfOrdered, QueuesDisjoint, Elems
<1>2. QueuesSorted'
  <2>1. ASSUME NEW p \in Request PROVE Ascending(queue[p], item'[p]) /\ SentinelLast(queue[p])
    <3>1. CASE p = t
      BY <3>1, ElemsEmpty DEF EventsInv, QueuesOfOrdered
    <3>2. CASE p # t
      BY <3>2 DEF EventsInv, QueuesSorted, TypeOK
    <3> QED BY <3>1, <3>2
  <2> QED BY <2>1 DEF QueuesSorted, Ascending, SentinelLast
<1>3. WaitingOrBegun'
  <2>1. \A r \in ordered : r \in begun' <=> r \in begun
    OBVIOUS
  <2> QED BY <2>1 DEF EventsInv, WaitingOrBegun, Elems
<1> QED BY <1>1, <1>2, <1>3 DEF EventsInv

\* The steps that touch no queue.
LEMMA EventsSame ==
    ASSUME EventsInv, queue' = queue, ordered' = ordered, item' = item, begun' = begun
    PROVE  EventsInv'
<1>1. QueuesOfOrdered'
  BY DEF EventsInv, QueuesOfOrdered, Elems
<1>2. QueuesSorted'
  BY DEF EventsInv, QueuesSorted, Ascending, SentinelLast
<1>3. QueuesDisjoint'
  BY DEF EventsInv, QueuesDisjoint, Elems
<1>4. WaitingOrBegun'
  BY DEF EventsInv, WaitingOrBegun, Elems
<1> QED BY <1>1, <1>2, <1>3, <1>4 DEF EventsInv

-----------------------------------------------------------------------------
(* What the steps of a task do to the queues' workers.                     *)
\* A task goes on or ends, and the worker of the listed queue ends only if user
\* code has ended its loop.
LEMMA WorkersStep ==
    ASSUME TypeOK, WorkersInv, NEW t \in Request,
           queue' = queue, listed' = listed, ordered' = ordered,
           \A p \in Request \ {t} : at'[p] = at[p],
           \A p \in Request : cancel'[p] \in {cancel[p], "no"},
           at'[t] \notin {"none", "ended"} => Alive(t),
           failing' \subseteq failing \cup {t}, faulted \subseteq faulted',
           t = listed /\ t \notin faulted' =>
               at'[t] \notin {"none", "ended"} /\ t \notin failing'
    PROVE  WorkersInv'
<1>1. ListedNotEnded'
  <2>1. listed # None => Sentinel \notin Elems(queue[listed]) /\ cancel'[listed] = "no"
    BY TypeFacts DEF WorkersInv, ListedNotEnded
  <2> QED BY <2>1 DEF ListedNotEnded, Elems
<1>2. AbandonedHasSentinel'
  <2>1. ASSUME NEW p \in ordered, at'[p] \notin {"none", "ended"}
        PROVE  p # listed <=> Sentinel \in Elems(queue[p])
    <3>1. Alive(p)
      BY <2>1, TypeFacts DEF Alive
    <3> QED BY <3>1 DEF WorkersInv, AbandonedHasSentinel
  <2> QED BY <2>1 DEF AbandonedHasSentinel, Alive, Elems
<1>3. ListedQueueHasWorker'
  <2>1. ASSUME listed # None, listed \notin faulted'
        PROVE  at'[listed] \notin {"none", "ended"} /\ listed \notin failing'
    <3>1. Alive(listed) /\ listed \notin failing /\ listed \in Request
      BY <2>1, TypeFacts DEF WorkersInv, ListedQueueHasWorker
    <3> QED BY <2>1, <3>1 DEF Alive
  <2> QED BY <2>1 DEF ListedQueueHasWorker, Alive
<1> QED BY <1>1, <1>2, <1>3 DEF WorkersInv

\* A worker at the top of its loop: it ends only at its sentinel, which the
\* listed queue does not hold.
LEMMA WorkersNextItem ==
    ASSUME TypeOK, WorkersInv, QueuesSorted, NEW t \in ordered, Alive(t), NextItem(t),
           listed' = listed, ordered' = ordered, failing' = failing, faulted' = faulted
    PROVE  WorkersInv'
<1>0. t \in Request /\ \A p \in Request : queue[p] \in Seq(Nat)
  BY TypeFacts
<1>1. /\ \A p \in Request \ {t} : at'[p] = at[p]
      /\ \A p \in Request : cancel'[p] \in {cancel[p], "no"}
  BY <1>0 DEF NextItem, End, Begin, Goto, TypeOK
<1>2. CASE queue[t] = <<>>
  <2>1. queue' = queue /\ at'[t] = "get"
    BY <1>0, <1>2 DEF NextItem, Goto, TypeOK
  <2>2. t = listed /\ t \notin faulted => t \notin failing
    BY DEF WorkersInv, ListedQueueHasWorker, None, TypeOK
  <2> QED BY <1>0, <1>1, <2>1, <2>2, WorkersStep
<1>3. CASE queue[t] # <<>>
  <2>1. /\ queue' = [queue EXCEPT ![t] = Tail(queue[t])]
        /\ queue'[t] = Tail(queue[t])
        /\ \A p \in Request \ {t} : queue'[p] = queue[p]
    BY <1>0, <1>3 DEF NextItem, TypeOK
  <2>2. /\ Elems(queue[t]) = Elems(queue'[t]) \cup {Head(queue[t])}
    BY <1>0, <1>3, <2>1, ElemsTail
  <2>3. t = listed => Head(queue[t]) # Sentinel
    BY <1>0, <2>2, TypeFacts DEF WorkersInv, ListedNotEnded, None, Request
  <2>4. /\ Head(queue[t]) = Sentinel => at'[t] = "ended"
        /\ Head(queue[t]) # Sentinel => at'[t] = "run"
    BY <1>0, <1>3 DEF NextItem, End, Begin, Goto, TypeOK
  <2>5. ListedNotEnded'
    <3>1. ASSUME listed # None
          PROVE  Sentinel \notin Elems(queue'[listed]) /\ cancel'[listed] = "no"
      BY <1>1, <2>1, <2>2, <3>1, TypeFacts DEF WorkersInv, ListedNotEnded
    <3> QED BY <3>1 DEF ListedNotEnded, Elems
  <2>6. AbandonedHasSentinel'
    <3>1. ASSUME NEW p \in ordered, at'[p] \notin {"none", "ended"}
          PROVE  p # listed <=> Sentinel \in Elems(queue'[p])
      <4>1. CASE p = t
        BY <2>2, <2>4, <3>1, <4>1 DEF WorkersInv, AbandonedHasSentinel
      <4>2. CASE p # t
        BY <1>1, <2>1, <3>1, <4>2, TypeFacts DEF WorkersInv, AbandonedHasSentinel, Alive
      <4> QED BY <4>1, <4>2
    <3> QED BY <3>1 DEF AbandonedHasSentinel, Alive, Elems
  <2>7. ListedQueueHasWorker'
    <3>1. ASSUME listed # None, listed \notin faulted
          PROVE  at'[listed] \notin {"none", "ended"} /\ listed \notin failing
      <4>1. Alive(listed) /\ listed \notin failing /\ listed \in Request
        BY <3>1, TypeFacts DEF WorkersInv, ListedQueueHasWorker
      <4> QED BY <1>1, <2>3, <2>4, <4>1 DEF Alive
    <3> QED BY <3>1 DEF ListedQueueHasWorker, Alive
  <2> QED BY <2>5, <2>6, <2>7 DEF WorkersInv
<1> QED BY <1>2, <1>3

-----------------------------------------------------------------------------
(* Every action preserves the invariant.                                   *)
LEMMA DispatchKeepsInv ==
    ASSUME RouterInv, NEW r \in Request, Dispatch(r)
    PROVE  RouterInv'
<1>0. TypeOK /\ NothingAhead /\ EventsInv /\ WorkersInv /\ TasksStartOnce
  BY DEF RouterInv, TypeInv
<1>1. /\ r = arrived + 1 /\ arrived' = r /\ r \in Nat /\ arrived \in Nat
      /\ r \notin ordered /\ r \notin begun /\ r \notin failing /\ r # listed
      /\ at[r] = "none" /\ cancel[r] = "no" /\ queue[r] = <<>>
      /\ r # None
  <2>1. r = arrived + 1 /\ arrived' = r
    BY DEF Dispatch, DispatchRejected, DispatchUnordered, DispatchToNewQueue, DispatchToQueue,
           Arrive
  <2>2. arrived \in Nat /\ r > arrived /\ r \notin 1..arrived /\ r # None
    BY <2>1, TypeFacts, <1>0 DEF None
  <2>3. at[r] = "none" /\ cancel[r] = "no"
    BY <1>0, <2>2 DEF NothingAhead
  <2>4. queue[r] = <<>>
    BY <1>0, <2>2 DEF EventsInv, QueuesOfOrdered, TypeOK
  <2> QED BY <1>0, <2>1, <2>2, <2>3, <2>4 DEF TypeOK
<1>2. TypeOK' /\ item' = item /\ begun' = begun /\ cancel' = cancel
  BY <1>0, DispatchTyped DEF Dispatch, DispatchRejected, DispatchUnordered,
     DispatchToNewQueue, DispatchToQueue
<1>3. /\ failing' = failing /\ faulted' = faulted
      /\ \A p \in Request \ {r} : at'[p] = at[p]
      /\ at'[r] \in {"none", "spawned"}
      /\ ordered \subseteq ordered' /\ ordered' \subseteq ordered \cup {r}
  BY <1>0, <1>1 DEF Dispatch, DispatchRejected, DispatchUnordered, DispatchToNewQueue,
     DispatchToQueue, Spawn, outcomes, TypeOK
<1>4. NothingAhead'
  <2>1. ASSUME NEW t \in Request, t > arrived' PROVE at'[t] = "none" /\ cancel[t] = "no"
    <3>1. t > arrived /\ t # r
      BY <1>1, <2>1 DEF Request
    <3> QED BY <1>0, <1>3, <3>1 DEF NothingAhead
  <2> QED BY <1>2, <2>1 DEF NothingAhead
<1>5. TasksStartOnce'
  <2>1. ASSUME NEW t \in Request \ ordered', at'[t] \in {"none", "spawned"}
        PROVE  t \notin begun
    BY <1>0, <1>1, <1>3, <2>1 DEF TasksStartOnce
  <2> QED BY <1>2, <2>1 DEF TasksStartOnce
<1>6. CASE DispatchRejected(r) \/ DispatchUnordered(r)
  <2>1. queue' = queue /\ ordered' = ordered /\ listed' = listed
    BY <1>6 DEF DispatchRejected, DispatchUnordered
  <2>2. EventsInv'
    BY <1>0, <1>2, <2>1, EventsSame
  <2>3. ListedNotEnded'
    BY <1>0, <1>2, <2>1 DEF WorkersInv, ListedNotEnded, Elems
  <2>4. AbandonedHasSentinel'
    BY <1>0, <1>1, <1>3, <2>1, TypeFacts DEF WorkersInv, AbandonedHasSentinel, Alive, Elems
  <2>5. ListedQueueHasWorker'
    BY <1>0, <1>1, <1>3, <2>1, TypeFacts DEF WorkersInv, ListedQueueHasWorker, Alive
  <2> QED BY <1>2, <1>4, <1>5, <2>2, <2>3, <2>4, <2>5 DEF RouterInv, TypeInv, WorkersInv
<1>7. CASE DispatchToNewQueue(r)
  <2>1. /\ listed = None /\ listed' = r /\ ordered' = ordered \cup {r}
        /\ queue' = [queue EXCEPT ![r] = <<r>>] /\ at'[r] = "spawned"
    BY <1>0, <1>7 DEF DispatchToNewQueue, Spawn, TypeOK
  <2>2. queue'[r] = <<r>> /\ \A p \in Request \ {r} : queue'[p] = queue[p]
    BY <1>0, <2>1 DEF TypeOK
  <2>3. Append(queue[r], r) = <<r>> /\ Elems(<<r>>) = {r} /\ Elems(queue[r]) = {}
    BY <1>1 DEF Elems
  <2>4. EventsInv'
    BY <1>0, <1>1, <1>2, <2>1, <2>3, EventsPut
  <2>5. ListedNotEnded'
    <3>1. Sentinel \notin Elems(queue'[listed']) /\ cancel[listed'] = "no"
      BY <1>1, <2>1, <2>2, <2>3 DEF None, Sentinel
    <3> QED BY <1>2, <3>1 DEF ListedNotEnded, Elems
  <2>6. AbandonedHasSentinel'
    <3>1. ASSUME NEW p \in ordered', at'[p] \notin {"none", "ended"}
          PROVE  p # listed' <=> Sentinel \in Elems(queue'[p])
      <4>1. CASE p = r
        BY <1>1, <2>1, <2>2, <2>3, <4>1 DEF None, Sentinel
      <4>2. CASE p # r
        <5>1. p \in ordered /\ p \in Request /\ Alive(p) /\ p # listed
          BY <1>0, <1>3, <2>1, <3>1, <4>2, TypeFacts DEF Alive, None, Request
        <5> QED BY <1>0, <2>1, <2>2, <4>2, <5>1 DEF WorkersInv, AbandonedHasSentinel
      <4> QED BY <4>1, <4>2
    <3> QED BY <3>1 DEF AbandonedHasSentinel, Alive, Elems
  <2>7. ListedQueueHasWorker'
    BY <1>1, <1>3, <2>1 DEF ListedQueueHasWorker, Alive
  <2> QED BY <1>2, <1>4, <1>5, <2>4, <2>5, <2>6, <2>7 DEF RouterInv, TypeInv, WorkersInv
<1>8. CASE DispatchToQueue(r)
  <2>1. /\ listed # None /\ listed' = listed /\ ordered' = ordered \cup {r}
        /\ queue' = [queue EXCEPT ![listed] = Append(queue[listed], r)] /\ at' = at
    BY <1>8 DEF DispatchToQueue
  <2>2. /\ listed \in Request /\ listed \in ordered
        /\ Sentinel \notin Elems(queue[listed]) /\ cancel[listed] = "no"
    BY <1>0, <2>1, TypeFacts DEF WorkersInv, ListedNotEnded, TypeOK
  <2>3. /\ queue'[listed] = Append(queue[listed], r)
        /\ \A p \in Request \ {listed} : queue'[p] = queue[p]
    BY <1>0, <2>1, <2>2 DEF TypeOK
  <2>4. EventsInv'
    BY <1>0, <1>1, <1>2, <2>1, <2>2, EventsPut
  <2>5. Elems(queue'[listed]) = Elems(queue[listed]) \cup {r} /\ r # Sentinel
    <3>1. queue[listed] \in Seq(Nat)
      BY <1>0, <2>2, TypeFacts
    <3>2. Elems(Append(queue[listed], r)) = Elems(queue[listed]) \cup {r}
      BY <1>1, <3>1, ElemsAppend
    <3> QED BY <1>1, <2>3, <3>2 DEF None, Sentinel
  <2>6. ListedNotEnded'
    <3>1. Sentinel \notin Elems(queue'[listed]) /\ cancel[listed] = "no"
      BY <2>2, <2>5
    <3> QED BY <1>2, <2>1, <3>1 DEF ListedNotEnded, Elems
  <2>7. AbandonedHasSentinel'
    <3>1. ASSUME NEW p \in ordered', at[p] \notin {"none", "ended"}
          PROVE  p # listed <=> Sentinel \in Elems(queue'[p])
      <4>1. p \in ordered /\ p \in Request /\ Alive(p)
        BY <1>0, <1>1, <2>1, <3>1, TypeFacts DEF Alive
      <4> QED BY <1>0, <2>2, <2>3, <2>5, <4>1 DEF WorkersInv, AbandonedHasSentinel
    <3> QED BY <2>1, <3>1 DEF AbandonedHasSentinel, Alive, Elems
  <2>8. ListedQueueHasWorker'
    BY <1>0, <1>3, <2>1 DEF WorkersInv, ListedQueueHasWorker, Alive
  <2> QED BY <1>2, <1>4, <1>5, <2>4, <2>6, <2>7, <2>8 DEF RouterInv, TypeInv, WorkersInv
<1> QED BY <1>6, <1>7, <1>8 DEF Dispatch

\* The queue that is unlisted is ended, so that its worker may be cancelled.
LEMMA CleanupKeepsInv ==
    ASSUME RouterInv, NEW by, Cleanup(by),
           open' \in BOOLEAN, adapter' \in {"receive", "middleware", "ended"}
    PROVE  RouterInv'
<1>0. TypeOK /\ NothingAhead /\ EventsInv /\ WorkersInv /\ TasksStartOnce
  BY DEF RouterInv, TypeInv
<1>1. /\ listed' = None /\ arrived' = arrived /\ ordered' = ordered /\ at' = at
      /\ item' = item /\ begun' = begun /\ failing' = failing /\ faulted' = faulted
  BY DEF Cleanup, outcomes
<1>2. TypeOK'
  BY <1>0, CleanupTyped
<1>3. NothingAhead'
  <2>1. \A t \in Request : t > arrived => t \notin tracked
    BY <1>0, TypeFacts DEF TypeOK, Request
  <2>2. \A t \in Request : t > arrived => cancel'[t] = cancel[t]
    BY <2>1 DEF Cleanup
  <2> QED BY <1>0, <1>1, <2>2 DEF NothingAhead
<1>4. TasksStartOnce'
  BY <1>0, <1>1 DEF TasksStartOnce
<1>5. ListedNotEnded' /\ ListedQueueHasWorker'
  BY <1>1 DEF ListedNotEnded, ListedQueueHasWorker
<1>6. CASE listed = None
  <2>1. queue' = queue
    BY <1>6 DEF Cleanup
  <2>2. EventsInv'
    BY <1>0, <1>1, <2>1, EventsSame
  <2>3. AbandonedHasSentinel'
    BY <1>0, <1>1, <1>6, <2>1 DEF WorkersInv, AbandonedHasSentinel, Alive, Elems
  <2> QED BY <1>2, <1>3, <1>4, <1>5, <2>2, <2>3 DEF RouterInv, TypeInv, WorkersInv
<1>7. CASE listed # None
  <2>1. queue' = [queue EXCEPT ![listed] = Append(queue[listed], Sentinel)]
    BY <1>7 DEF Cleanup
  <2>2. listed \in Request /\ listed \in ordered /\ Sentinel \notin Elems(queue[listed])
    BY <1>0, <1>7, TypeFacts DEF WorkersInv, ListedNotEnded, TypeOK
  <2>3. EventsInv'
    BY <1>0, <1>1, <2>1, <2>2, EventsEnded
  <2>4. /\ Sentinel \in Elems(queue'[listed])
        /\ \A p \in Request \ {listed} : queue'[p] = queue[p]
    <3>1. queue[listed] \in Seq(Nat) /\ Sentinel \in Nat
      BY <1>0, <2>2, TypeFacts DEF Sentinel
    <3>2. Sentinel \in Elems(Append(queue[listed], Sentinel))
      BY <3>1, ElemsAppend
    <3> QED BY <1>0, <2>1, <2>2, <3>2 DEF TypeOK
  <2>5. AbandonedHasSentinel'
    <3>1. ASSUME NEW p \in ordered, at[p] \notin {"none", "ended"}
          PROVE  p # None /\ Sentinel \in Elems(queue'[p])
      BY <1>0, <2>4, <3>1, TypeFacts DEF WorkersInv, AbandonedHasSentinel, Alive, None, Request
    <3> QED BY <1>1, <3>1 DEF AbandonedHasSentinel, Alive, Elems
  <2> QED BY <1>2, <1>3, <1>4, <1>5, <2>3, <2>5 DEF RouterInv, TypeInv, WorkersInv
<1> QED BY <1>6, <1>7

\* A worker at the top of its loop.
LEMMA NextItemKeepsInv ==
    ASSUME RouterInv, NEW t \in ordered, Alive(t), NextItem(t),
           arrived' = arrived, ordered' = ordered, listed' = listed,
           failing' = failing, faulted' = faulted, TypeOK'
    PROVE  RouterInv'
<1>0. TypeOK /\ NothingAhead /\ EventsInv /\ WorkersInv /\ TasksStartOnce /\ t \in Request
  BY TypeFacts DEF RouterInv, TypeInv
<1>1. NothingAhead'
  <2>1. ~(t > arrived)
    BY <1>0 DEF NothingAhead, Alive
  <2>2. \A p \in Request : p # t => at'[p] = at[p] /\ cancel'[p] = cancel[p]
    BY <1>0 DEF NextItem, End, Begin, Goto, TypeOK
  <2> QED BY <1>0, <2>1, <2>2 DEF NothingAhead
<1>2. WorkersInv'
  BY <1>0, WorkersNextItem DEF EventsInv
<1>3. EventsInv'
  <2>1. CASE queue[t] = <<>>
    BY <1>0, <2>1, EventsSame DEF NextItem
  <2>2. CASE queue[t] # <<>>
    <3>1. queue' = [queue EXCEPT ![t] = Tail(queue[t])]
      BY <2>2 DEF NextItem
    <3>2. \/ Head(queue[t]) = Sentinel /\ item' = item /\ begun' = begun
          \/ /\ Head(queue[t]) # Sentinel
             /\ item' = [item EXCEPT ![t] = Head(queue[t])]
             /\ begun' = begun \cup {Head(queue[t])}
      BY <2>2 DEF NextItem, Begin
    <3> QED BY <1>0, <2>2, <3>1, <3>2, EventsTaken
  <2> QED BY <2>1, <2>2
<1>4. TasksStartOnce'
  <2>1. ASSUME NEW p \in Request \ ordered PROVE at'[p] = at[p] /\ (p \in begun' => p \in begun)
    <3>1. p # t
      OBVIOUS
    <3>2. at'[p] = at[p]
      BY <1>0, <3>1 DEF NextItem, End, Begin, Goto, TypeOK
    <3>3. CASE queue[t] = <<>>
      BY <3>2, <3>3 DEF NextItem
    <3>4. CASE queue[t] # <<>>
      <4>1. Head(queue[t]) \in ordered \cup {Sentinel}
        <5>1. queue[t] \in Seq(Nat) /\ Elems(queue[t]) \subseteq ordered \cup {Sentinel}
          BY <1>0, TypeFacts DEF EventsInv, QueuesOfOrdered
        <5> QED BY <3>4, <5>1, ElemsTail
      <4> QED BY <3>2, <3>4, <4>1 DEF NextItem, Begin
    <3> QED BY <3>3, <3>4
  <2> QED BY <1>0, <2>1 DEF TasksStartOnce
<1> QED BY <1>1, <1>2, <1>3, <1>4 DEF RouterInv, TypeInv

\* A step that takes nothing from a queue: the task goes on or ends.
LEMMA TaskKeepsRest ==
    ASSUME RouterInv, NEW t \in Request, Alive(t), TypeOK',
           arrived' = arrived, ordered' = ordered, listed' = listed, queue' = queue,
           item' = item, begun' = begun,
           \A p \in Request \ {t} : at'[p] = at[p] /\ cancel'[p] = cancel[p],
           cancel'[t] \in {cancel[t], "no"},
           at'[t] \in {"none", "spawned"} => at[t] = at'[t],
           failing' \subseteq failing \cup {t}, faulted \subseteq faulted',
           t = listed /\ t \notin faulted' =>
               at'[t] \notin {"none", "ended"} /\ t \notin failing'
    PROVE  RouterInv'
<1>0. TypeOK /\ NothingAhead /\ EventsInv /\ WorkersInv /\ TasksStartOnce
  BY DEF RouterInv, TypeInv
<1>1. NothingAhead'
  <2>1. ~(t > arrived)
    BY <1>0 DEF NothingAhead, Alive
  <2> QED BY <1>0, <2>1 DEF NothingAhead
<1>2. WorkersInv'
  BY <1>0, WorkersStep
<1>3. EventsInv'
  BY <1>0, EventsSame
<1>4. TasksStartOnce'
  BY <1>0 DEF TasksStartOnce
<1> QED BY <1>1, <1>2, <1>3, <1>4 DEF RouterInv, TypeInv

LEMMA TaskKeepsInv ==
    ASSUME RouterInv, NEW t \in Request, TaskStep(t)
    PROVE  RouterInv'
<1>0. TypeOK /\ NothingAhead /\ EventsInv /\ WorkersInv /\ TasksStartOnce
  BY DEF RouterInv, TypeInv
<1>1. Alive(t) \/ Swallowed(t) \/ Cancelled(t)
  BY DEF TaskStep, Start, TakeItem, HandlerEnds, HandlerReturns, HandlerRaises,
         HandlerRaisesCancelled, Reported, ExitReturns, ExitRaises, Resume, Alive
<1>2. Alive(t) /\ t \in 1..arrived
  <2>1. Alive(t)
    BY <1>1 DEF Swallowed, Cancelled, Alive
  <2>2. t \in Nat /\ t >= 1 /\ arrived \in Nat
    BY <1>0, TypeFacts DEF Request
  <2> QED BY <1>0, <2>1, <2>2 DEF NothingAhead, Alive
<1>3. TypeOK'
  BY <1>0, <1>2, TaskTyped
<1>4. t = listed => cancel[t] = "no" /\ t \in ordered /\ (t \notin faulted => t \notin failing)
  BY <1>0, <1>2 DEF WorkersInv, ListedNotEnded, ListedQueueHasWorker, None, TypeOK
<1>5. CASE Start(t)
  <2>1. CASE t \in ordered
    BY <1>2, <1>3, <1>5, <2>1, NextItemKeepsInv DEF Start, outcomes
  <2>2. CASE t \notin ordered
    <3>1. /\ at' = [at EXCEPT ![t] = "run"] /\ item' = [item EXCEPT ![t] = t]
          /\ begun' = begun \cup {t} /\ queue' = queue /\ cancel' = cancel
          /\ arrived' = arrived /\ ordered' = ordered /\ listed' = listed
          /\ failing' = failing /\ faulted' = faulted
      BY <1>5, <2>2 DEF Start, Begin, Goto, outcomes
    <3>2. at'[t] = "run" /\ \A p \in Request \ {t} : at'[p] = at[p]
      BY <1>0, <3>1 DEF TypeOK
    <3>3. NothingAhead'
      <4>1. ~(t > arrived)
        BY <1>0, <1>2 DEF NothingAhead, Alive
      <4> QED BY <1>0, <3>1, <3>2, <4>1 DEF NothingAhead
    <3>4. WorkersInv'
      BY <1>0, <1>2, <1>4, <2>2, <3>1, <3>2, WorkersStep
    <3>5. EventsInv'
      BY <1>0, <2>2, <3>1, EventsBegun
    <3>6. TasksStartOnce'
      BY <1>0, <3>1, <3>2 DEF TasksStartOnce
    <3> QED BY <1>3, <3>3, <3>4, <3>5, <3>6 DEF RouterInv, TypeInv
  <2> QED BY <2>1, <2>2
<1>6. CASE TakeItem(t)
  <2>1. t \in ordered
    BY <1>0, <1>6 DEF TakeItem, EventsInv, QueuesOfOrdered
  <2> QED BY <1>2, <1>3, <1>6, <2>1, NextItemKeepsInv DEF TakeItem, outcomes
<1>7. CASE HandlerEnds(t) \/ Reported(t)
  <2>1. /\ at' = [at EXCEPT ![t] = at'[t]] /\ at'[t] \in {"exit", "report"}
        /\ arrived' = arrived /\ ordered' = ordered /\ listed' = listed /\ queue' = queue
        /\ item' = item /\ begun' = begun /\ cancel' = cancel
        /\ \/ failing' = failing /\ faulted' = faulted
           \/ failing' = failing \cup {t} /\ faulted' = faulted \cup {t}
    BY <1>0, <1>7 DEF HandlerEnds, HandlerReturns, HandlerRaises, HandlerRaisesCancelled, Reported,
       Resume, Goto, outcomes, TypeOK
  <2> QED BY <1>0, <1>2, <1>3, <1>4, <2>1, TaskKeepsRest DEF TypeOK
<1>8. CASE ExitReturns(t)
  <2>1. CASE t \in ordered \ failing
    BY <1>2, <1>3, <1>8, <2>1, NextItemKeepsInv DEF ExitReturns, outcomes
  <2>2. CASE t \notin ordered \ failing
    <3>1. /\ at'[t] = "ended" /\ \A p \in Request \ {t} : at'[p] = at[p] /\ cancel'[p] = cancel[p]
          /\ arrived' = arrived /\ ordered' = ordered /\ listed' = listed /\ queue' = queue
          /\ item' = item /\ begun' = begun /\ cancel'[t] = "no"
          /\ failing' = failing /\ faulted' = faulted
      BY <1>0, <1>8, <2>2 DEF ExitReturns, End, Goto, outcomes, TypeOK
    <3> QED BY <1>2, <1>3, <1>4, <2>2, <3>1, TaskKeepsRest
  <2> QED BY <2>1, <2>2
<1>9. CASE ExitRaises(t)
  <2>1. /\ at'[t] = "ended" /\ \A p \in Request \ {t} : at'[p] = at[p] /\ cancel'[p] = cancel[p]
        /\ arrived' = arrived /\ ordered' = ordered /\ listed' = listed /\ queue' = queue
        /\ item' = item /\ begun' = begun /\ cancel'[t] = "no"
        /\ failing' = failing /\ faulted' = faulted \cup {t}
    BY <1>0, <1>9 DEF ExitRaises, End, Goto, TypeOK
  <2> QED BY <1>2, <1>3, <1>4, <2>1, TaskKeepsRest
<1>10. CASE Cancelled(t)
  <2>1. /\ at'[t] \in {"ended", "exit"}
        /\ \A p \in Request \ {t} : at'[p] = at[p] /\ cancel'[p] = cancel[p]
        /\ arrived' = arrived /\ ordered' = ordered /\ listed' = listed /\ queue' = queue
        /\ item' = item /\ begun' = begun /\ cancel'[t] = "no" /\ cancel[t] # "no"
        /\ failing' \subseteq failing \cup {t} /\ faulted' = faulted
    BY <1>0, <1>10 DEF Cancelled, End, Goto, outcomes, TypeOK
  <2> QED BY <1>2, <1>3, <1>4, <2>1, TaskKeepsRest
<1>11. CASE Swallowed(t)
  <2>1. /\ at' = at /\ \A p \in Request \ {t} : cancel'[p] = cancel[p]
        /\ arrived' = arrived /\ ordered' = ordered /\ listed' = listed /\ queue' = queue
        /\ item' = item /\ begun' = begun /\ cancel'[t] = "no" /\ cancel[t] # "no"
        /\ failing' = failing /\ faulted' = faulted
    BY <1>0, <1>11 DEF Swallowed, outcomes, TypeOK
  <2> QED BY <1>2, <1>3, <1>4, <2>1, TaskKeepsRest
<1> QED BY <1>5, <1>6, <1>7, <1>8, <1>9, <1>10, <1>11 DEF TaskStep

LEMMA StutterKeepsInv ==
    ASSUME RouterInv, UNCHANGED vars
    PROVE  RouterInv'
<1>0. TypeOK /\ NothingAhead /\ EventsInv /\ WorkersInv /\ TasksStartOnce
  BY DEF RouterInv, TypeInv
<1>1. /\ arrived' = arrived /\ adapter' = adapter /\ open' = open /\ ordered' = ordered
      /\ queue' = queue /\ listed' = listed /\ tracked' = tracked /\ at' = at /\ item' = item
      /\ failing' = failing /\ faulted' = faulted /\ cancel' = cancel /\ begun' = begun
  BY DEF vars
<1>2. TypeOK' /\ NothingAhead'
  BY <1>0, <1>1 DEF TypeOK, NothingAhead
<1>3. EventsInv'
  BY <1>0, <1>1, EventsSame
<1>4. WorkersInv' /\ TasksStartOnce'
  BY <1>0, <1>1 DEF WorkersInv, ListedNotEnded, AbandonedHasSentinel, ListedQueueHasWorker,
     TasksStartOnce, Alive, Elems
<1> QED BY <1>2, <1>3, <1>4 DEF RouterInv, TypeInv

LEMMA ReceiveKeepsInv ==
    ASSUME RouterInv, Receive
    PROVE  RouterInv'
<1>0. TypeOK /\ NothingAhead /\ EventsInv /\ WorkersInv /\ TasksStartOnce
  BY DEF RouterInv, TypeInv
<1>1. /\ arrived' = arrived /\ adapter' = "middleware" /\ open' = open /\ ordered' = ordered
      /\ queue' = queue /\ listed' = listed /\ tracked' = tracked /\ at' = at /\ item' = item
      /\ failing' = failing /\ faulted' = faulted /\ cancel' = cancel /\ begun' = begun
  BY DEF Receive, outcomes
<1>2. TypeOK' /\ NothingAhead'
  BY <1>0, <1>1 DEF TypeOK, NothingAhead
<1>3. EventsInv'
  BY <1>0, <1>1, EventsSame
<1>4. WorkersInv' /\ TasksStartOnce'
  BY <1>0, <1>1 DEF WorkersInv, ListedNotEnded, AbandonedHasSentinel, ListedQueueHasWorker,
     TasksStartOnce, Alive, Elems
<1> QED BY <1>2, <1>3, <1>4 DEF RouterInv, TypeInv

LEMMA InitEstablishesInv == Init => RouterInv
<1> SUFFICES ASSUME Init PROVE RouterInv
  OBVIOUS
<1>1. TypeOK
  BY DEF Init, TypeOK, Label, None, Request
<1>2. NothingAhead /\ TasksStartOnce
  BY DEF Init, NothingAhead, TasksStartOnce
<1>3. \A q \in Request : queue[q] = <<>> /\ Elems(queue[q]) = {}
  BY ElemsEmpty DEF Init
<1>4. EventsInv
  BY <1>3, ElemsEmpty DEF Init, EventsInv, QueuesOfOrdered, QueuesSorted, QueuesDisjoint,
     WaitingOrBegun
<1>5. WorkersInv
  BY DEF Init, WorkersInv, ListedNotEnded, AbandonedHasSentinel, ListedQueueHasWorker
<1> QED BY <1>1, <1>2, <1>4, <1>5 DEF RouterInv, TypeInv

-----------------------------------------------------------------------------
\* The inductive invariant of the router: what every queue holds, and who is
\* going to take it.
THEOREM RouterInvariant == Spec => []RouterInv
<1>1. RouterInv /\ [Next]_vars => RouterInv'
  <2> SUFFICES ASSUME RouterInv, [Next]_vars PROVE RouterInv'
    OBVIOUS
  <2>1. ASSUME NEW r \in Request, Dispatch(r) PROVE RouterInv'
    BY <2>1, DispatchKeepsInv
  <2>2. ASSUME NEW r \in Request, TaskStep(r) PROVE RouterInv'
    BY <2>2, TaskKeepsInv
  <2>3. CASE Receive
    BY <2>3, ReceiveKeepsInv
  <2>4. CASE Disconnect
    <3>1. PICK by \in {None} \cup {t \in Request : at[t] = "run"} : Cleanup(by)
      BY <2>4 DEF Disconnect
    <3>2. open' \in BOOLEAN /\ adapter' \in {"receive", "middleware", "ended"}
      BY <2>4 DEF Disconnect, RouterInv, TypeInv, TypeOK
    <3> QED BY <3>1, <3>2, CleanupKeepsInv
  <2>5. CASE AdapterEnds
    BY <2>5, CleanupKeepsInv DEF AdapterEnds
  <2>6. CASE UNCHANGED vars
    BY <2>6, StutterKeepsInv
  <2> QED BY <2>1, <2>2, <2>3, <2>4, <2>5, <2>6 DEF Next
<1> QED BY <1>1, InitEstablishesInv, PTL DEF Spec

\* An event is never put where no worker will find it, and no abandoned worker
\* waits where nothing will be put, whatever user code swallows.
THEOREM QueuesHaveWorkers == Spec => []QueueInv
<1>1. RouterInv => QueueInv
  <2> SUFFICES ASSUME RouterInv PROVE QueueInv
    OBVIOUS
  <2>1. AbandonedWorkerStops
    BY DEF RouterInv, WorkersInv, AbandonedHasSentinel, AbandonedWorkerStops, InQueue, Elems
  <2>2. NothingAfterSentinel
    BY DEF RouterInv, EventsInv, QueuesSorted, SentinelLast, NothingAfterSentinel
  <2> QED BY <2>1, <2>2 DEF RouterInv, TypeInv, WorkersInv, QueueInv
<1> QED BY <1>1, RouterInvariant, PTL

\* Every ordered event that dispatch accepts is waiting in exactly one queue, in
\* the order of acceptance, or its handler has been started, and never both.
THEOREM OrderedEventsAlwaysAccounted == Spec => []OrderedEventsAccounted
<1>1. RouterInv => OrderedEventsAccounted
  <2> SUFFICES ASSUME RouterInv PROVE OrderedEventsAccounted
    OBVIOUS
  <2>1. EventsInv /\ TypeOK
    BY DEF RouterInv, TypeInv
  <2>2. \A q \in Request : InQueue(q) = Elems(queue[q])
    BY DEF InQueue, Elems
  <2>3. \A r \in ordered : r \in begun <=> \A q \in Request : r \notin InQueue(q)
    BY <2>1, <2>2 DEF EventsInv, WaitingOrBegun
  <2>4. ASSUME NEW q \in Request, NEW i \in DOMAIN queue[q], queue[q][i] # Sentinel
        PROVE  /\ queue[q][i] > item[q]
               /\ \A j \in 1..i-1 : queue[q][j] < queue[q][i]
               /\ \A p \in Request \ {q} : queue[q][i] \notin InQueue(p)
    <3>1. queue[q][i] > item[q] /\ \A j \in 1..i-1 : queue[q][j] < queue[q][i]
      BY <2>1, <2>4 DEF EventsInv, QueuesSorted, Ascending
    <3>2. queue[q][i] \in Elems(queue[q])
      BY DEF Elems
    <3>3. \A p \in Request \ {q} : queue[q][i] \notin InQueue(p)
      BY <2>1, <2>2, <2>4, <3>2 DEF EventsInv, QueuesDisjoint
    <3> QED BY <3>1, <3>3
  <2> QED BY <2>3, <2>4 DEF OrderedEventsAccounted
<1> QED BY <1>1, RouterInvariant, PTL

\* No handler is started twice for one request, whether a worker takes it from
\* its queue or it has a task of its own.
THEOREM HandlersAlwaysStartOnce == Spec => HandlersStartOnce
<1> DEFINE Once == \A t \in Request : at[t] # "run" /\ at'[t] = "run" => item'[t] \notin begun
<1>1. ASSUME RouterInv, NEW t \in Request, NextItem(t), at[t] # "run", at'[t] = "run"
      PROVE  item'[t] \notin begun
  <2>1. TypeOK /\ EventsInv /\ queue[t] \in Seq(Nat) /\ Sentinel \notin begun
    BY <1>1, TypeFacts DEF RouterInv, TypeInv, TypeOK, Sentinel
  <2>2. /\ queue[t] # <<>> /\ Head(queue[t]) # Sentinel
        /\ item'[t] = Head(queue[t])
    BY <1>1, <2>1 DEF NextItem, End, Begin, Goto, TypeOK
  <2>3. Head(queue[t]) \in Elems(queue[t])
    BY <2>1, <2>2, ElemsTail
  <2> QED BY <2>1, <2>2, <2>3 DEF EventsInv, QueuesOfOrdered, WaitingOrBegun
<1>2. RouterInv /\ [Next]_vars => [Once]_vars
  <2> SUFFICES ASSUME RouterInv, Next, NEW t \in Request, at[t] # "run", at'[t] = "run"
               PROVE  item'[t] \notin begun
    BY DEF Once
  <2>0. TypeOK
    BY DEF RouterInv, TypeInv
  <2>1. ASSUME NEW r \in Request, Dispatch(r) PROVE at'[t] # "run"
    BY <2>0, <2>1 DEF Dispatch, DispatchRejected, DispatchUnordered, DispatchToNewQueue,
       DispatchToQueue, Spawn, TypeOK
  <2>2. CASE Receive \/ Disconnect \/ AdapterEnds
    BY <2>2 DEF Receive, Disconnect, AdapterEnds, Cleanup
  <2>3. ASSUME NEW r \in Request, TaskStep(r) PROVE item'[t] \notin begun
    <3>1. r = t
      BY <2>0, <2>3 DEF TaskStep, Start, TakeItem, HandlerEnds, HandlerReturns, HandlerRaises,
         HandlerRaisesCancelled, Reported, ExitReturns, ExitRaises, Cancelled, Swallowed,
         Resume, NextItem, Begin, End, Goto, TypeOK
    <3>2. CASE Start(t) /\ t \notin ordered
      <4>1. item'[t] = t /\ at[t] = "spawned"
        BY <2>0, <3>2 DEF Start, Begin, TypeOK
      <4> QED BY <3>2, <4>1 DEF RouterInv, TasksStartOnce
    <3>3. CASE NextItem(t)
      BY <1>1, <3>3
    <3>4. (Start(t) /\ t \notin ordered) \/ NextItem(t)
      BY <2>0, <2>3, <3>1 DEF TaskStep, Start, TakeItem, HandlerEnds, HandlerReturns,
         HandlerRaises, HandlerRaisesCancelled, Reported, ExitReturns, ExitRaises, Cancelled,
         Swallowed, Resume, End, Goto, TypeOK
    <3> QED BY <3>2, <3>3, <3>4
  <2> QED BY <2>1, <2>2, <2>3 DEF Next
<1> QED BY <1>2, RouterInvariant, PTL DEF Spec, HandlersStartOnce

\* What a worker takes next came after what it took last, and before everything
\* that is still waiting.
WorkersKeepOrder ==
    [][\A t \in ordered : item'[t] # item[t] =>
          /\ item'[t] > item[t]
          /\ \A r \in InQueue(t) \ {Sentinel, item'[t]} : item'[t] < r]_vars

\* One worker handles its events in the order of their dispatch, whatever is
\* disconnected, raised or swallowed in between.
THEOREM WorkersAlwaysKeepOrder == Spec => WorkersKeepOrder
<1> DEFINE Keeps ==
        \A t \in ordered : item'[t] # item[t] =>
            /\ item'[t] > item[t]
            /\ \A r \in InQueue(t) \ {Sentinel, item'[t]} : item'[t] < r
<1>1. RouterInv /\ [Next]_vars => [Keeps]_vars
  <2> SUFFICES ASSUME RouterInv, Next, NEW t \in ordered, item'[t] # item[t]
               PROVE  /\ item'[t] > item[t]
                      /\ \A r \in InQueue(t) \ {Sentinel, item'[t]} : item'[t] < r
    BY DEF Keeps
  <2>0. TypeOK /\ t \in Request /\ queue[t] \in Seq(Nat) /\ item[t] \in Nat
    BY TypeFacts DEF RouterInv, TypeInv
  <2>1. PICK r \in Request : TaskStep(r)
    BY DEF Next, Dispatch, DispatchRejected, DispatchUnordered, DispatchToNewQueue,
       DispatchToQueue, Receive, Disconnect, AdapterEnds, Cleanup
  <2>2. NextItem(t)
    BY <2>0, <2>1 DEF TaskStep, Start, TakeItem, HandlerEnds, HandlerReturns, HandlerRaises,
       HandlerRaisesCancelled, Reported, ExitReturns, ExitRaises, Cancelled, Swallowed,
       Resume, NextItem, Begin, End, Goto, TypeOK
  <2>3. queue[t] # <<>> /\ Head(queue[t]) # Sentinel /\ item'[t] = Head(queue[t])
    BY <2>0, <2>2 DEF NextItem, Begin, TypeOK
  <2>4. Ascending(queue[t], item[t])
    BY <2>0 DEF RouterInv, EventsInv, QueuesSorted
  <2>5. Head(queue[t]) > item[t]
    BY <2>0, <2>3, <2>4, TailFacts DEF Ascending
  <2>6. ASSUME NEW q \in InQueue(t) \ {Sentinel, item'[t]} PROVE item'[t] < q
    <3>1. PICK i \in DOMAIN queue[t] : q = queue[t][i]
      BY DEF InQueue
    <3>2. i # 1 /\ i \in 1..Len(queue[t]) /\ Len(queue[t]) \in Nat /\ Head(queue[t]) = queue[t][1]
      BY <2>0, <2>3, <3>1, TailFacts
    <3> QED BY <2>3, <2>4, <3>1, <3>2 DEF Ascending
  <2> QED BY <2>3, <2>5, <2>6
<1> QED BY <1>1, RouterInvariant, PTL DEF Spec, WorkersKeepOrder
=============================================================================
