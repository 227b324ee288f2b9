---------------------------- MODULE LimitProofs ----------------------------
(***************************************************************************)
(* The two limits that a clock decides.                                    *)
(*                                                                         *)
(* The session timer, for every session configuration and every delay of a *)
(* send: how late the limits are enforced, that an answered ping does not  *)
(* time out, and that a token is announced in time.  The argument follows  *)
(* one round of the loop.  A limit not yet reached when the loop looks at  *)
(* it lies ahead, so that every suspension up to the next look ends a      *)
(* known time after the limit at the latest; the bounds add up along the   *)
(* round.                                                                  *)
(*                                                                         *)
(* The rate limit, for every rate, period and set of connections: the two  *)
(* numbers of a bucket are the exact summary of the history they replace,  *)
(* so that the bucket decides like the definition over that history.       *)
(***************************************************************************)
EXTENDS SessionTimer, TokenBucket, SequenceTheorems, TLAPS

-----------------------------------------------------------------------------
(* The session timer: the inductive invariant.                             *)
\* While the connection is open its timer lies ahead, no further than what the
\* loop is suspended in can last.
Clock ==
    /\ Open => now <= until
    /\ pc \in Sending => until <= now + SendDelay

\* When the loop's suspensions end, counted from a limit it looks at.
UntilBy(limit) ==
    /\ pc = "sleep" => until < limit + Round
    /\ pc = "auth_expiring" => until < limit + SendDelay
    /\ pc = "ping" => until < limit + 2 * SendDelay
    /\ pc = "wait_pong" => until < limit + 2 * SendDelay + Timeout
    /\ pc \in {"expiring", "idle_warning"} => until < limit + Round + SendDelay
    /\ pc = "close" => until < limit + Round + 2 * SendDelay

Limits ==
    /\ MaxDuration > 0 => UntilBy(MaxDuration)
    /\ IdleTimeout > 0 => UntilBy(lastActive + IdleTimeout)

\* The same, counted from the last pong; and a pong that is set is recent.
PongAge ==
    /\ pc = "sleep" => until <= lastPong + Interval + SendDelay
    /\ pc \in {"expiring", "idle_warning", "auth_expiring"} =>
           until <= lastPong + Interval + 2 * SendDelay
    /\ pc = "ping" => until <= lastPong + Interval + 3 * SendDelay
    /\ pc = "wait_pong" => until <= lastPong + Interval + 3 * SendDelay + Timeout
    /\ pc = "close" => until <= lastPong + Interval + 4 * SendDelay + Timeout
    /\ pc = "ping" /\ pong => until <= lastPong + SendDelay
    /\ pc = "wait_pong" /\ pong => now <= lastPong + SendDelay

\* A ping is answered exactly when its event is set, and the loop is not kept
\* waiting by an event that was set before its deadline.
Answer ==
    /\ pc \in {"ping", "wait_pong"} => (answered <=> pong)
    /\ pc = "wait_pong" /\ pong => now < until \/ lastPong = now
    /\ reason # "none" => pc \in {"close", "closed"}

\* A loop that has not announced the token is still ahead of its expiry.
Token ==
    Window >= Beat /\ TokenLife > Interval /\ ~warned =>
        /\ pc = "sleep" => until < TokenLife
        /\ pc = "ping" => until + Interval + Timeout < TokenLife
        /\ pc = "wait_pong" => until + Interval < TokenLife

IInv == TypeOK /\ Clock /\ Limits /\ PongAge /\ Answer /\ AnsweredPingNotTimedOut
          /\ Token

-----------------------------------------------------------------------------
LEMMA InitIInv == Init => IInv
<1> SUFFICES ASSUME Init PROVE IInv OBVIOUS
<1> USE ConfigAssumption DEF Init
<1>1. TypeOK
  <2>1. pc \in Label BY DEF Label
  <2>2. pong \in BOOLEAN /\ warned \in BOOLEAN /\ answered \in BOOLEAN OBVIOUS
  <2> QED BY <2>1, <2>2 DEF TypeOK
<1>2. Clock /\ Answer /\ AnsweredPingNotTimedOut /\ Token
  BY DEF Clock, Answer, AnsweredPingNotTimedOut, Token, Sending
<1>3. Limits /\ PongAge BY DEF Limits, UntilBy, PongAge, Round, Beat
<1> QED BY <1>1, <1>2, <1>3 DEF IInv

LEMMA TypeStep == TypeOK /\ [Next]_vars => TypeOK'
<1> SUFFICES ASSUME TypeOK, [Next]_vars PROVE TypeOK' OBVIOUS
<1> DEFINE Times == /\ now \in Nat /\ until \in Nat
                    /\ lastActive \in 0..now /\ lastPong \in 0..now
           Flags == /\ pong \in BOOLEAN /\ warned \in BOOLEAN /\ answered \in BOOLEAN
                    /\ pc \in Label
                    /\ reason \in {"none", "max_duration", "idle_timeout",
                                   "heartbeat_timeout"}
<1>1. Times /\ Flags BY DEF TypeOK
<1>2. CASE Wake
  <2>1. Times' BY <1>1, <1>2, ConfigAssumption DEF Wake, SendPing, Send, Suspend
  <2>2. Flags' BY <1>1, <1>2 DEF Wake, SendPing, Send, Suspend, Label, Sending
  <2> QED BY <2>1, <2>2 DEF TypeOK
<1>3. CASE MaxDurationWarned \/ IdleWarned
  <2> USE DEF MaxDurationWarned, IdleWarned, LimitWarned, Send, Suspend
  <2>1. Times' BY <1>1, <1>3, ConfigAssumption
  <2>2. Flags' BY <1>1, <1>3 DEF Label, Sending
  <2> QED BY <2>1, <2>2 DEF TypeOK
<1>4. CASE AuthExpiringSent
  <2> USE DEF AuthExpiringSent, SendPing, Send, Suspend
  <2>1. Times' BY <1>1, <1>4, ConfigAssumption
  <2>2. Flags' BY <1>1, <1>4 DEF Label, Sending
  <2> QED BY <2>1, <2>2 DEF TypeOK
<1>5. CASE PingSent \/ PongSeen \/ HeartbeatTimeout \/ Disconnected
  <2> USE DEF PingSent, PongSeen, HeartbeatTimeout, Disconnected, Send, Suspend
  <2>1. Times' BY <1>1, <1>5, ConfigAssumption
  <2>2. Flags' BY <1>1, <1>5 DEF Label, Sending
  <2> QED BY <2>1, <2>2 DEF TypeOK
<1>6. CASE HandlePong \/ HandleEvent \/ Tick
  <2> USE DEF HandlePong, HandleEvent, Tick
  <2>1. Times' BY <1>1, <1>6
  <2>2. Flags' BY <1>1, <1>6
  <2> QED BY <2>1, <2>2 DEF TypeOK
<1>7. CASE UNCHANGED vars BY <1>7 DEF vars, TypeOK
<1> QED BY <1>2, <1>3, <1>4, <1>5, <1>6, <1>7 DEF Next, LoopStep

LEMMA ClockStep == TypeOK /\ Clock /\ [Next]_vars => Clock'
<1> SUFFICES ASSUME TypeOK, Clock, [Next]_vars PROVE Clock' OBVIOUS
<1> USE ConfigAssumption DEF TypeOK, Clock, Open, Sending, Suspend, Send
<1>1. CASE Wake BY <1>1 DEF Wake, SendPing
<1>2. CASE MaxDurationWarned \/ IdleWarned
  BY <1>2 DEF MaxDurationWarned, IdleWarned, LimitWarned
<1>3. CASE AuthExpiringSent BY <1>3 DEF AuthExpiringSent, SendPing
<1>4. CASE PingSent \/ PongSeen \/ HeartbeatTimeout \/ Disconnected
  BY <1>4 DEF PingSent, PongSeen, HeartbeatTimeout, Disconnected
<1>5. CASE HandlePong \/ HandleEvent \/ Tick
  BY <1>5 DEF HandlePong, HandleEvent, Tick
<1>6. CASE UNCHANGED vars BY <1>6 DEF vars
<1> QED BY <1>1, <1>2, <1>3, <1>4, <1>5, <1>6 DEF Next, LoopStep

\* One step of the loop, seen from a limit: looking at it leads on only if it
\* lies ahead; every other step passes its bound on to the next suspension.
LEMMA LoopUntilBy ==
    ASSUME TypeOK, Clock, NEW limit \in Nat, UntilBy(limit), LoopStep,
           Wake /\ now >= limit => pc' \in {"expiring", "idle_warning"}
    PROVE  UntilBy(limit)'
<1> USE ConfigAssumption DEF TypeOK, Clock, Open, UntilBy, Round, Beat, Suspend, Send
<1>1. CASE Wake BY <1>1 DEF Wake, SendPing
<1>2. CASE MaxDurationWarned \/ IdleWarned
  BY <1>2 DEF MaxDurationWarned, IdleWarned, LimitWarned
<1>3. CASE AuthExpiringSent BY <1>3 DEF AuthExpiringSent, SendPing
<1>4. CASE PingSent \/ PongSeen BY <1>4 DEF PingSent, PongSeen
<1>5. CASE HeartbeatTimeout \/ Disconnected
  BY <1>5 DEF HeartbeatTimeout, Disconnected
<1> QED BY <1>1, <1>2, <1>3, <1>4, <1>5 DEF LoopStep

LEMMA LimitsStep == TypeOK /\ Clock /\ Limits /\ [Next]_vars => Limits'
<1> SUFFICES ASSUME TypeOK, Clock, Limits, [Next]_vars PROVE Limits' OBVIOUS
<1>1. CASE LoopStep
  <2>1. lastActive' = lastActive
    BY <1>1 DEF LoopStep, Wake, MaxDurationWarned, IdleWarned, LimitWarned,
                AuthExpiringSent, PingSent, PongSeen, HeartbeatTimeout, Disconnected
  <2>2. Wake /\ (MaxDurationReached \/ IdleTooLong)
          => pc' \in {"expiring", "idle_warning"}
    BY DEF Wake, Send, Suspend
  <2>3. ASSUME MaxDuration > 0 PROVE UntilBy(MaxDuration)'
    <3>1. Wake /\ now >= MaxDuration => pc' \in {"expiring", "idle_warning"}
      BY <2>2, <2>3 DEF MaxDurationReached
    <3> QED BY <1>1, <2>3, <3>1, LoopUntilBy, ConfigAssumption DEF Limits
  <2>4. ASSUME IdleTimeout > 0 PROVE UntilBy(lastActive + IdleTimeout)'
    <3>1. PICK limit \in Nat : limit = lastActive + IdleTimeout
      BY ConfigAssumption DEF TypeOK
    <3>2. Wake /\ now >= limit => pc' \in {"expiring", "idle_warning"}
      BY <2>2, <2>4, <3>1 DEF IdleTooLong
    <3>3. UntilBy(limit)'
      BY <1>1, <2>4, <3>1, <3>2, LoopUntilBy DEF Limits
    <3> QED BY <2>1, <3>1, <3>3
  <2> QED BY <2>3, <2>4 DEF Limits
<1>2. CASE HandlePong \/ Tick \/ UNCHANGED vars
  BY <1>2 DEF HandlePong, Tick, vars, Limits, UntilBy
<1>3. CASE HandleEvent
  \* lastActive moves forward, and with it the bounds
  BY <1>3, ConfigAssumption DEF HandleEvent, TypeOK, Limits, UntilBy, Round, Beat
<1> QED BY <1>1, <1>2, <1>3 DEF Next

LEMMA PongAgeStep == TypeOK /\ Clock /\ PongAge /\ [Next]_vars => PongAge'
<1> SUFFICES ASSUME TypeOK, Clock, PongAge, [Next]_vars PROVE PongAge' OBVIOUS
<1> USE ConfigAssumption DEF TypeOK, Clock, Open, PongAge, Sending, Suspend, Send
<1>1. CASE Wake BY <1>1 DEF Wake, SendPing
<1>2. CASE MaxDurationWarned \/ IdleWarned
  BY <1>2 DEF MaxDurationWarned, IdleWarned, LimitWarned
<1>3. CASE AuthExpiringSent BY <1>3 DEF AuthExpiringSent, SendPing
<1>4. CASE PingSent \/ PongSeen BY <1>4 DEF PingSent, PongSeen
<1>5. CASE HeartbeatTimeout \/ Disconnected
  BY <1>5 DEF HeartbeatTimeout, Disconnected
<1>6. CASE HandlePong BY <1>6 DEF HandlePong
<1>7. CASE HandleEvent \/ Tick BY <1>7 DEF HandleEvent, Tick
<1>8. CASE UNCHANGED vars BY <1>8 DEF vars
<1> QED BY <1>1, <1>2, <1>3, <1>4, <1>5, <1>6, <1>7, <1>8 DEF Next, LoopStep

LEMMA AnswerStep ==
    TypeOK /\ Answer /\ AnsweredPingNotTimedOut /\ [Next]_vars
       => (Answer /\ AnsweredPingNotTimedOut)'
<1> SUFFICES ASSUME TypeOK, Answer, AnsweredPingNotTimedOut, [Next]_vars
             PROVE  (Answer /\ AnsweredPingNotTimedOut)'
  OBVIOUS
<1> USE ConfigAssumption DEF TypeOK, Answer, AnsweredPingNotTimedOut, Suspend, Send
<1>1. CASE Wake BY <1>1 DEF Wake, SendPing
<1>2. CASE MaxDurationWarned \/ IdleWarned
  BY <1>2 DEF MaxDurationWarned, IdleWarned, LimitWarned
<1>3. CASE AuthExpiringSent BY <1>3 DEF AuthExpiringSent, SendPing
<1>4. CASE PingSent \/ PongSeen BY <1>4 DEF PingSent, PongSeen
<1>5. CASE HeartbeatTimeout BY <1>5 DEF HeartbeatTimeout
<1>6. CASE Disconnected BY <1>6 DEF Disconnected
<1>7. CASE HandlePong BY <1>7 DEF HandlePong, Receiving
<1>8. CASE HandleEvent \/ Tick BY <1>8 DEF HandleEvent, Tick
<1>9. CASE UNCHANGED vars BY <1>9 DEF vars
<1> QED
  BY <1>1, <1>2, <1>3, <1>4, <1>5, <1>6, <1>7, <1>8, <1>9 DEF Next, LoopStep

LEMMA TokenStep == TypeOK /\ Clock /\ Token /\ [Next]_vars => Token'
<1> SUFFICES ASSUME TypeOK, Clock, Token, [Next]_vars PROVE Token' OBVIOUS
<1> USE ConfigAssumption DEF TypeOK, Clock, Open, Token, Beat, Suspend, Send
<1>1. CASE Wake BY <1>1 DEF Wake, SendPing, TokenExpiring
<1>2. CASE MaxDurationWarned \/ IdleWarned
  BY <1>2 DEF MaxDurationWarned, IdleWarned, LimitWarned
<1>3. CASE AuthExpiringSent BY <1>3 DEF AuthExpiringSent, SendPing
<1>4. CASE PingSent \/ PongSeen BY <1>4 DEF PingSent, PongSeen
<1>5. CASE HeartbeatTimeout \/ Disconnected
  BY <1>5 DEF HeartbeatTimeout, Disconnected
<1>6. CASE HandlePong \/ HandleEvent \/ Tick
  BY <1>6 DEF HandlePong, HandleEvent, Tick
<1>7. CASE UNCHANGED vars BY <1>7 DEF vars
<1> QED BY <1>1, <1>2, <1>3, <1>4, <1>5, <1>6, <1>7 DEF Next, LoopStep

\* The bounds hold in every reachable state.
THEOREM SessionInvariant == Spec => []IInv
<1>1. IInv /\ [Next]_vars => IInv'
  BY TypeStep, ClockStep, LimitsStep, PongAgeStep, AnswerStep, TokenStep DEF IInv
<1> QED BY <1>1, InitIInv, PTL DEF Spec

\* Every variable of the loop keeps its type, and no time stamp lies ahead.
THEOREM SessionTypeCorrect == Spec => []TypeOK
<1>1. IInv => TypeOK BY DEF IInv
<1> QED BY <1>1, SessionInvariant, PTL

\* A connection without events is disconnected at most a round of the loop, a
\* warning and a close after idle_timeout.
THEOREM IdleAlwaysClosedInTime == Spec => []IdleClosedInTime
<1>1. IInv => IdleClosedInTime
  BY ConfigAssumption DEF IInv, TypeOK, Label, Sending, Clock, Limits, UntilBy,
                          Open, IdleClosedInTime, Round, Beat
<1> QED BY <1>1, SessionInvariant, PTL

\* max_duration is enforced with the same delay.
THEOREM MaxDurationAlwaysEnforced == Spec => []MaxDurationEnforced
<1>1. IInv => MaxDurationEnforced
  BY ConfigAssumption DEF IInv, TypeOK, Label, Sending, Clock, Limits, UntilBy,
                          Open, MaxDurationEnforced, Round, Beat
<1> QED BY <1>1, SessionInvariant, PTL

\* A client that stops answering pings is disconnected in time.
THEOREM DeadClientAlwaysClosed == Spec => []DeadClientClosed
<1>1. IInv => DeadClientClosed
  BY ConfigAssumption DEF IInv, TypeOK, Label, Sending, Clock, PongAge, Open,
                          DeadClientClosed, Round, Beat
<1> QED BY <1>1, SessionInvariant, PTL

\* An answered ping does not time out, whenever its answer arrives.
THEOREM AnsweredPingNeverTimesOut == Spec => []AnsweredPingNotTimedOut
<1>1. IInv => AnsweredPingNotTimedOut BY DEF IInv
<1> QED BY <1>1, SessionInvariant, PTL

\* With a refresh window no shorter than a beat of the loop the client hears of
\* its token's expiry in time.
THEOREM TokenAlwaysWarnedInTime == Spec => []TokenWarnedInTime
<1>1. IInv => TokenWarnedInTime
  BY ConfigAssumption DEF IInv, TypeOK, Clock, Token, Open, TokenWarnedInTime, Beat
<1> QED BY <1>1, SessionInvariant, PTL

-----------------------------------------------------------------------------
(* The rate limit: the inductive invariant.                                *)
\* What the limit leaves at the end of the stretch from the k-th event on.
Slack(c, k) == Full + (clock - allowed[c][k]) * Events - CountFrom(c, k) * Period

\* A bucket holds the smallest slack of any stretch, a full bucket at most.
Summary(c) ==
    /\ \A k \in DOMAIN allowed[c] : Refilled(c) <= Slack(c, k)
    /\ Refilled(c) = Full \/ \E k \in DOMAIN allowed[c] : Refilled(c) = Slack(c, k)

\* There is no history without a bucket.
HistoryHasBucket == \A c \in Conn : c \in DOMAIN buckets \/ allowed[c] = <<>>

BucketInv == BucketTypeOK /\ HistoryHasBucket /\ \A c \in Conn : Summary(c)

-----------------------------------------------------------------------------
(* Arithmetic the provers need by name.                                    *)
LEMMA FullNat == Full \in Nat
BY RateAssumption DEF Full

LEMMA TimesSucc ==
    ASSUME NEW n \in Int, NEW e \in Int
    PROVE  (n + 1) * e = n * e + e /\ n * e \in Int
BY SMT

LEMMA TimesNat ==
    ASSUME NEW n \in Nat, NEW e \in Nat
    PROVE  n * e \in Nat
BY SMT

\* Filling up in one go or in two comes to the same.
LEMMA LeastTwice ==
    ASSUME NEW m \in Nat, NEW a \in Int, NEW e \in Nat
    PROVE  Least(m, a + e) = Least(m, Least(m, a) + e)
BY DEF Least

LEMMA CountInt ==
    ASSUME BucketTypeOK, NEW c \in Conn, NEW k \in DOMAIN allowed[c]
    PROVE  /\ k \in Nat /\ CountFrom(c, k) \in Nat
           /\ allowed[c][k] \in 0..clock
           /\ Slack(c, k) \in Int
           /\ CountFrom(c, k) * Period \in Int
           /\ (clock - allowed[c][k]) * Events \in Int
<1>1. allowed[c] \in Seq(0..clock) /\ clock \in Nat BY DEF BucketTypeOK
<1>2. k \in Nat /\ CountFrom(c, k) \in Nat /\ allowed[c][k] \in 0..clock
  BY <1>1 DEF CountFrom
<1>3. CountFrom(c, k) * Period \in Int
  BY <1>2, RateAssumption, TimesNat
<1>4. (clock - allowed[c][k]) * Events \in Int
  BY <1>1, <1>2, RateAssumption, TimesSucc
<1> QED BY <1>2, <1>3, <1>4, FullNat DEF Slack

\* A bucket never holds more than a full one, nor less than nothing.
LEMMA RefilledRange ==
    ASSUME BucketTypeOK, NEW c \in Conn
    PROVE  Refilled(c) \in 0..Full
<1>1. CASE c \in DOMAIN buckets
  <2>1. buckets[c].tokens \in 0..Full /\ buckets[c].last \in 0..clock
    BY <1>1 DEF BucketTypeOK, IsDict
  <2>2. (clock - buckets[c].last) * Events \in Nat
    BY <2>1, RateAssumption, TimesNat DEF BucketTypeOK
  <2> HIDE DEF Full
  <2> QED BY <1>1, <2>1, <2>2, FullNat DEF Refilled, Least
<1>2. CASE c \notin DOMAIN buckets
  BY <1>2, FullNat DEF Refilled
<1> QED BY <1>1, <1>2

LEMMA PutIsDict ==
    ASSUME NEW K, NEW V, NEW d, NEW k \in K, NEW v \in V, IsDict(d, K, V)
    PROVE  IsDict(Put(d, k, v), K, V)
BY DEF IsDict, Put

\* Storing the refilled bucket: it holds what was put, the others as before.
LEMMA RefilledStored ==
    ASSUME BucketTypeOK, NEW c \in Conn, NEW n \in 0..Full, clock' = clock,
           buckets' = Put(buckets, c, [tokens |-> n, last |-> clock])
    PROVE  /\ Refilled(c)' = n
           /\ \A d \in Conn \ {c} : Refilled(d)' = Refilled(d)
<1> DEFINE b == [tokens |-> n, last |-> clock]
<1>1. Refilled(c)' = Least(Full, n + (clock - clock) * Events)
  <2>1. c \in DOMAIN buckets' /\ buckets'[c] = b
    BY DEF Put
  <2>2. b.tokens = n /\ b.last = clock
    OBVIOUS
  <2> QED BY <2>1, <2>2 DEF Refilled, Full
<1>2. clock - clock = 0 /\ 0 * Events = 0
  BY RateAssumption DEF BucketTypeOK
<1>3. Least(Full, n + 0) = n
  BY FullNat DEF Least
<1>4. ASSUME NEW d \in Conn \ {c} PROVE Refilled(d)' = Refilled(d)
  <2>1. d \in DOMAIN buckets' <=> d \in DOMAIN buckets
    BY DEF Put
  <2>2. d \in DOMAIN buckets => buckets'[d] = buckets[d]
    BY DEF Put
  <2> QED BY <2>1, <2>2 DEF Refilled, Full
<1> QED BY <1>1, <1>2, <1>3, <1>4

\* Storing a bucket keeps the dict's shape.
LEMMA StoredIsDict ==
    ASSUME BucketTypeOK, NEW c \in Conn, NEW n \in 0..Full,
           buckets' = Put(buckets, c, [tokens |-> n, last |-> clock])
    PROVE  IsDict(buckets', Conn, [tokens : 0..Full, last : 0..clock])
<1>1. [tokens |-> n, last |-> clock] \in [tokens : 0..Full, last : 0..clock]
  BY DEF BucketTypeOK
<1> QED BY <1>1, PutIsDict DEF BucketTypeOK

-----------------------------------------------------------------------------
LEMMA InitBucketInv == BucketInit => BucketInv
<1> SUFFICES ASSUME BucketInit PROVE BucketInv OBVIOUS
<1>1. BucketTypeOK BY DEF BucketInit, BucketTypeOK, IsDict, EmptyDict
<1>2. ASSUME NEW c \in Conn PROVE Summary(c)
  BY DEF BucketInit, Summary, Refilled, EmptyDict
<1> QED BY <1>1, <1>2 DEF BucketInit, BucketInv, HistoryHasBucket

\* Nothing of d's summary has changed.
LEMMA SummaryUnchanged ==
    ASSUME NEW d \in Conn, Summary(d), clock' = clock,
           allowed'[d] = allowed[d], Refilled(d)' = Refilled(d)
    PROVE  Summary(d)'
BY DEF Summary, Slack, CountFrom, Full

LEMMA AllowKeeps ==
    ASSUME BucketInv, NEW c \in Conn, Allow(c)
    PROVE  BucketInv'
<1> DEFINE s == allowed[c]
           n == Refilled(c) - Period
<1> USE DEF BucketInv
<1>0. /\ n \in 0..Full /\ clock \in Nat /\ s \in Seq(0..clock)
      /\ Refilled(c) \in Nat /\ Period \in Nat /\ Full \in Nat
  BY RefilledRange, FullNat, RateAssumption DEF Allow, BucketTypeOK
<1>1. /\ Refilled(c)' = n
      /\ \A d \in Conn \ {c} : Refilled(d)' = Refilled(d)
  BY <1>0, RefilledStored DEF Allow
<1>2. BucketTypeOK'
  <2>1. IsDict(buckets', Conn, [tokens : 0..Full, last : 0..clock])
    BY <1>0, StoredIsDict DEF Allow
  <2>2. allowed' \in [Conn -> Seq(0..clock)]
    BY <1>0 DEF Allow, BucketTypeOK
  <2> QED BY <2>1, <2>2, <1>0 DEF Allow, BucketTypeOK, Full
<1>3. HistoryHasBucket' BY DEF HistoryHasBucket, Allow, BucketTypeOK, Put
<1>4. ASSUME NEW d \in Conn \ {c} PROVE Summary(d)'
  BY <1>1, <1>4, SummaryUnchanged DEF Allow, BucketTypeOK
<1>5. Summary(c)'
  <2>0. PICK l \in Nat : l = Len(s)
    BY <1>0
  <2>1. allowed'[c] = Append(s, clock) /\ clock' = clock /\ Full' = Full
    BY DEF Allow, BucketTypeOK, Full
  <2>2. /\ DOMAIN allowed'[c] = DOMAIN s \cup {l + 1}
        /\ Len(allowed'[c]) = l + 1
        /\ allowed'[c][l + 1] = clock
        /\ \A k \in DOMAIN s : allowed'[c][k] = s[k] /\ k \in Nat
    BY <1>0, <2>0, <2>1
  <2>3. ASSUME NEW k \in DOMAIN s
        PROVE  Slack(c, k)' = Slack(c, k) - Period /\ Slack(c, k) \in Int
    <3> DEFINE a == (clock - s[k]) * Events
               b == CountFrom(c, k) * Period
    <3>1. CountFrom(c, k)' = CountFrom(c, k) + 1
      <4>1. Len(allowed'[c]) = l + 1 /\ Len(allowed[c]) = l /\ k \in Nat
        BY <2>0, <2>2
      <4>2. (l + 1) - k + 1 = (l - k + 1) + 1
        BY <2>0, <4>1
      <4> QED BY <4>1, <4>2 DEF CountFrom
    <3>2. a \in Int /\ b \in Int /\ Slack(c, k) \in Int
      BY CountInt
    <3>3. (CountFrom(c, k) + 1) * Period = b + Period
      BY <1>0, CountInt, TimesSucc
    <3>4. Slack(c, k)' = Full + a - (b + Period)
      BY <3>1, <3>3, <2>1, <2>2 DEF Slack
    <3>5. Slack(c, k) = Full + a - b
      BY DEF Slack
    <3> HIDE DEF a, b
    <3> QED BY <3>2, <3>4, <3>5, <1>0
  <2>4. Slack(c, l + 1)' = Full - Period
    <3>1. CountFrom(c, l + 1)' = 1
      BY <2>2 DEF CountFrom
    <3>2. (clock - clock) * Events = 0 /\ 1 * Period = Period
      BY <1>0, RateAssumption
    <3>3. Slack(c, l + 1)' = Full + (clock - clock) * Events - 1 * Period
      BY <3>1, <2>1, <2>2 DEF Slack
    <3> QED BY <3>2, <3>3, <1>0
  <2>5. ASSUME NEW k \in DOMAIN allowed'[c] PROVE Refilled(c)' <= Slack(c, k)'
    <3>1. ASSUME k \in DOMAIN s PROVE Refilled(c) - Period <= Slack(c, k) - Period
      BY <3>1, <2>3, <1>0 DEF Summary
    <3>2. Refilled(c) - Period <= Full - Period
      BY <1>0, RefilledRange
    <3> QED BY <3>1, <3>2, <2>2, <2>3, <2>4, <1>1
  <2>6. \/ Refilled(c)' = Full'
        \/ \E k \in DOMAIN allowed'[c] : Refilled(c)' = Slack(c, k)'
    <3>1. CASE Refilled(c) = Full
      <4>1. Refilled(c)' = Slack(c, l + 1)' BY <3>1, <1>1, <2>4
      <4> QED BY <4>1, <2>2
    <3>2. ASSUME NEW k \in DOMAIN s, Refilled(c) = Slack(c, k)
          PROVE  k \in DOMAIN allowed'[c] /\ Refilled(c)' = Slack(c, k)'
      BY <3>2, <1>1, <2>2, <2>3
    <3> QED BY <3>1, <3>2 DEF Summary
  <2> QED BY <2>5, <2>6 DEF Summary
<1> QED BY <1>2, <1>3, <1>4, <1>5

LEMMA RefuseKeeps ==
    ASSUME BucketInv, NEW c \in Conn, Refuse(c)
    PROVE  BucketInv'
<1> USE DEF BucketInv
<1>0. Refilled(c) \in 0..Full /\ clock \in Nat
  BY RefilledRange DEF BucketTypeOK
<1>1. \A d \in Conn : Refilled(d)' = Refilled(d)
  BY <1>0, RefilledStored DEF Refuse
<1>2. BucketTypeOK'
  <2>1. IsDict(buckets', Conn, [tokens : 0..Full, last : 0..clock])
    BY <1>0, StoredIsDict DEF Refuse
  <2> QED BY <2>1 DEF Refuse, BucketTypeOK, Full
<1>3. HistoryHasBucket' BY DEF HistoryHasBucket, Refuse, Put
<1>4. ASSUME NEW d \in Conn PROVE Summary(d)'
  BY <1>1, SummaryUnchanged DEF Refuse
<1> QED BY <1>2, <1>3, <1>4

LEMMA RemoveKeeps ==
    ASSUME BucketInv, NEW c \in Conn, Remove(c)
    PROVE  BucketInv'
<1> USE DEF BucketInv
<1>1. /\ DOMAIN buckets' = DOMAIN buckets \ {c}
      /\ \A d \in DOMAIN buckets' : buckets'[d] = buckets[d]
  BY DEF Remove, Pop, Restrict
<1>2. BucketTypeOK'
  <2>1. IsDict(buckets', Conn, [tokens : 0..Full, last : 0..clock])
    BY <1>1 DEF Remove, Pop, Restrict, BucketTypeOK, IsDict
  <2>2. allowed' \in [Conn -> Seq(0..clock)] BY DEF Remove, BucketTypeOK
  <2> QED BY <2>1, <2>2 DEF Remove, BucketTypeOK, Full
<1>3. HistoryHasBucket' BY <1>1 DEF HistoryHasBucket, Remove, BucketTypeOK
<1>4. ASSUME NEW d \in Conn \ {c} PROVE Summary(d)'
  <2>1. Refilled(d)' = Refilled(d) /\ allowed'[d] = allowed[d] /\ clock' = clock
    BY <1>1 DEF Refilled, Remove, Full, BucketTypeOK
  <2> QED BY <2>1, SummaryUnchanged
<1>5. Summary(c)'
  <2>1. Refilled(c)' = Full' /\ allowed'[c] = <<>>
    BY <1>1 DEF Refilled, Remove, BucketTypeOK
  <2> QED BY <2>1 DEF Summary
<1> QED BY <1>2, <1>3, <1>4, <1>5

\* One tick refills Events units, up to the brim.
LEMMA RefilledLater ==
    ASSUME BucketTypeOK, NEW c \in Conn, ClockTicks
    PROVE  Refilled(c)' = Least(Full, Refilled(c) + Events)
<1>1. clock' = clock + 1 /\ buckets' = buckets BY DEF ClockTicks
<1>2. CASE c \in DOMAIN buckets
  <2>1. buckets[c].tokens \in 0..Full /\ buckets[c].last \in 0..clock /\ clock \in Nat
    BY <1>2 DEF BucketTypeOK, IsDict
  <2> DEFINE e == (clock - buckets[c].last) * Events
  <2>2. (clock - buckets[c].last + 1) * Events = e + Events /\ e \in Int
    BY <2>1, RateAssumption, TimesSucc
  <2>3. clock' - buckets[c].last = clock - buckets[c].last + 1
    BY <1>1, <2>1
  <2>4. Refilled(c)' = Least(Full, buckets[c].tokens + (e + Events))
    BY <1>1, <1>2, <2>2, <2>3 DEF Refilled, Full
  <2>5. Refilled(c) = Least(Full, buckets[c].tokens + e)
    BY <1>2 DEF Refilled
  <2>6. buckets[c].tokens + (e + Events) = (buckets[c].tokens + e) + Events
        /\ buckets[c].tokens + e \in Int
    <3> HIDE DEF e
    <3> QED BY <2>1, <2>2, RateAssumption
  <2> HIDE DEF e
  <2> QED BY <2>4, <2>5, <2>6, LeastTwice, FullNat, RateAssumption
<1>3. CASE c \notin DOMAIN buckets
  BY <1>1, <1>3, FullNat, RateAssumption DEF Refilled, Least, Full
<1> QED BY <1>2, <1>3

LEMMA ClockKeeps ==
    ASSUME BucketInv, ClockTicks
    PROVE  BucketInv'
<1> USE DEF BucketInv
<1>0. clock \in Nat /\ clock' = clock + 1 /\ Full \in Nat /\ Full' = Full /\ Events \in Nat
  BY FullNat, RateAssumption DEF ClockTicks, BucketTypeOK, Full
<1>1. BucketTypeOK'
  <2>1. 0..clock \subseteq 0..clock' BY <1>0
  <2>2. IsDict(buckets', Conn, [tokens : 0..Full, last : 0..clock'])
    BY <2>1 DEF ClockTicks, BucketTypeOK, IsDict
  <2>3. allowed' \in [Conn -> Seq(0..clock')]
    <3>1. ASSUME NEW d \in Conn PROVE allowed[d] \in Seq(0..clock')
      BY <2>1, SeqMonotonic DEF BucketTypeOK
    <3> QED BY <3>1 DEF ClockTicks, BucketTypeOK
  <2> QED BY <2>2, <2>3, <1>0 DEF BucketTypeOK
<1>2. HistoryHasBucket' BY DEF HistoryHasBucket, ClockTicks
<1>3. ASSUME NEW c \in Conn PROVE Summary(c)'
  <2>1. Refilled(c)' = Least(Full, Refilled(c) + Events) /\ Refilled(c) \in 0..Full
    BY RefilledLater, RefilledRange
  <2>2. allowed' = allowed BY DEF ClockTicks
  <2>3. ASSUME NEW k \in DOMAIN allowed[c]
        PROVE  Slack(c, k)' = Slack(c, k) + Events /\ Slack(c, k) \in Int
    <3> DEFINE a == (clock - allowed[c][k]) * Events
               b == CountFrom(c, k) * Period
    <3>1. allowed[c][k] \in 0..clock
      BY CountInt
    <3>2. clock' - allowed[c][k] = clock - allowed[c][k] + 1
      BY <1>0, <3>1
    <3>3. (clock - allowed[c][k] + 1) * Events = a + Events
      BY <3>1, <1>0, TimesSucc
    <3>4. a \in Int /\ b \in Int /\ Slack(c, k) \in Int
      BY CountInt
    <3>5. Slack(c, k)' = Full + (a + Events) - b
      BY <3>2, <3>3, <2>2, <1>0 DEF Slack, CountFrom
    <3>6. Slack(c, k) = Full + a - b
      BY DEF Slack
    <3> HIDE DEF a, b
    <3> QED BY <3>4, <3>5, <3>6, <1>0
  <2>4. ASSUME NEW k \in DOMAIN allowed[c] PROVE Refilled(c)' <= Slack(c, k)'
    BY <2>1, <2>3, <1>0 DEF Least, Summary
  <2>5. \/ Refilled(c)' = Full
        \/ \E k \in DOMAIN allowed[c] : Refilled(c)' = Slack(c, k)'
    <3>1. CASE Refilled(c) = Full
      BY <3>1, <2>1, <1>0 DEF Least
    <3>2. ASSUME NEW k \in DOMAIN allowed[c], Refilled(c) = Slack(c, k)
          PROVE  Refilled(c)' = Full \/ Refilled(c)' = Slack(c, k)'
      BY <3>2, <2>1, <2>3, <1>0 DEF Least
    <3> QED BY <3>1, <3>2 DEF Summary
  <2> QED BY <2>2, <2>4, <2>5, <1>0 DEF Summary
<1> QED BY <1>1, <1>2, <1>3

LEMMA NextBucketInv == BucketInv /\ [BucketNext]_bucketVars => BucketInv'
<1> SUFFICES ASSUME BucketInv, [BucketNext]_bucketVars PROVE BucketInv' OBVIOUS
<1>1. ASSUME NEW c \in Conn, Consume(c) PROVE BucketInv'
  BY <1>1, AllowKeeps, RefuseKeeps DEF Consume
<1>2. ASSUME NEW c \in Conn, Remove(c) PROVE BucketInv'
  BY <1>2, RemoveKeeps
<1>3. CASE ClockTicks BY <1>3, ClockKeeps
<1>4. CASE UNCHANGED bucketVars
  BY <1>4 DEF bucketVars, BucketInv, BucketTypeOK, HistoryHasBucket, Summary, Refilled, Slack,
              CountFrom, Full
<1> QED BY <1>1, <1>2, <1>3, <1>4 DEF BucketNext

\* A bucket is the exact summary of its connection's history.
THEOREM BucketSummarises == BucketSpec => []BucketInv
BY InitBucketInv, NextBucketInv, PTL DEF BucketSpec

\* The bucket's two numbers stay in range: 0..Full tokens, no time in the future.
THEOREM BucketTypeCorrect == BucketSpec => []BucketTypeOK
<1>1. BucketInv => BucketTypeOK BY DEF BucketInv
<1> QED BY <1>1, BucketSummarises, PTL

\* consume() lets through, in any stretch of time, at most a full bucket and
\* what is refilled in it.
THEOREM RateAlwaysBounded == BucketSpec => []RateBounded
<1>1. BucketInv => RateBounded
  <2> SUFFICES ASSUME BucketInv, NEW c \in Conn, NEW k \in DOMAIN allowed[c]
               PROVE  CountFrom(c, k) * Period
                        <= Full + (clock - allowed[c][k]) * Events
    BY DEF RateBounded
  <2>1. 0 <= Slack(c, k)
    BY RefilledRange, CountInt DEF BucketInv, Summary
  <2> QED BY <2>1, CountInt, FullNat DEF BucketInv, Slack
<1> QED BY <1>1, BucketSummarises, PTL

\* consume() allows an event exactly when every stretch that ends with it stays
\* within the limit.
THEOREM BucketDecidesByDefinition == BucketSpec => []DecidesByDefinition
<1>1. BucketInv => DecidesByDefinition
  <2> SUFFICES ASSUME BucketInv, NEW c \in Conn
               PROVE  Refilled(c) >= Period <=> Conforms(c)
    BY DEF DecidesByDefinition
  <2>1. Refilled(c) \in 0..Full /\ Full \in Nat /\ Period \in Nat
    BY RefilledRange, FullNat, RateAssumption DEF BucketInv
  <2>2. ASSUME NEW k \in DOMAIN allowed[c]
        PROVE  /\ Slack(c, k) \in Int
               /\ Period <= Slack(c, k) <=>
                    (CountFrom(c, k) + 1) * Period
                       <= Full + (clock - allowed[c][k]) * Events
    <3>1. (CountFrom(c, k) + 1) * Period = CountFrom(c, k) * Period + Period
      BY <2>1, CountInt, TimesSucc DEF BucketInv
    <3> QED BY <3>1, <2>1, CountInt DEF BucketInv, Slack
  <2>3. Conforms(c) <=> /\ Period <= Full
                        /\ \A k \in DOMAIN allowed[c] : Period <= Slack(c, k)
    BY <2>2 DEF Conforms
  <2>4. Summary(c) BY DEF BucketInv
  <2> QED BY <2>1, <2>2, <2>3, <2>4 DEF Summary
<1> QED BY <1>1, BucketSummarises, PTL
=============================================================================
