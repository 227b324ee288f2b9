--------------------------- MODULE SessionTimer ----------------------------
(***************************************************************************)
(* session.py in time: the loop of one connection's session task, and the  *)
(* inbound messages that reach it through handle_event.  Time is counted   *)
(* in ticks since the connection started; a timer fires in the tick it is  *)
(* due, and a send or close the loop awaits returns within SendDelay.      *)
(*                                                                         *)
(* ConnectionLifecycle has the interleavings of stop(); here the loop runs *)
(* until it disconnects the connection itself.                             *)
(***************************************************************************)
EXTENDS Integers

CONSTANTS
    MaxDuration,   \* SessionConfig.max_duration, 0 for none
    IdleTimeout,   \* SessionConfig.idle_timeout, 0 for none
    Interval,      \* SessionConfig.heartbeat_interval
    Timeout,       \* SessionConfig.heartbeat_timeout
    Window,        \* SessionConfig.token_refresh_window
    TokenLife,     \* identity.token_expires_at, 0 for none
    SendDelay      \* longest time a send or a close is awaited

ASSUME ConfigAssumption ==
    /\ MaxDuration \in Nat /\ IdleTimeout \in Nat
    /\ Interval \in Nat \ {0} /\ Timeout \in Nat \ {0}
    /\ Window \in Nat /\ TokenLife \in Nat /\ SendDelay \in Nat

VARIABLES
    now,
    pc,           \* what the loop is suspended in
    until,        \* when that has ended at the latest
    lastActive,   \* conn.last_active
    pong,         \* is the pong event set?
    warned,       \* conn.id in _auth_expiry_warned
    reason,       \* the reason of conn.disconnect
    lastPong,     \* when the last __pong__ did
    answered      \* a __pong__ has been handled since the last ping was sent off

vars == <<now, pc, until, lastActive, pong, warned, reason, lastPong, answered>>

Sending == {"expiring", "idle_warning", "auth_expiring", "ping", "close"}
Label == {"sleep", "wait_pong", "closed"} \cup Sending

Init ==
    /\ now = 0
    /\ pc = "sleep"
    /\ until = Interval
    /\ lastActive = 0
    /\ pong = FALSE
    /\ warned = FALSE
    /\ reason = "none"
    /\ lastPong = 0
    /\ answered = FALSE

-----------------------------------------------------------------------------
(* The loop.                                                               *)
Suspend(l, time) == pc' = l /\ until' = now + time

Send(l) == Suspend(l, SendDelay)

\* Mutant: the session is measured from the last event.
MaxDurationSinceActivity == MaxDuration > 0 /\ now >= lastActive + MaxDuration

MaxDurationReached == MaxDuration > 0 /\ now >= MaxDuration
\* Mutant: > for >=.
IdleLongerThan == IdleTimeout > 0 /\ now > lastActive + IdleTimeout

IdleTooLong == IdleTimeout > 0 /\ now >= lastActive + IdleTimeout
\* Mutant: the refresh window is ignored.
TokenExpired == TokenLife > 0 /\ now >= TokenLife

TokenExpiring == TokenLife > 0 /\ now >= TokenLife - Window

\* Mutant: the event is not cleared: an old answer does for every ping.
SendPingUncleared ==
    /\ Send("ping")
    /\ answered' = FALSE
    /\ UNCHANGED pong

\* The event is cleared before the ping is sent, so that no answer is lost.
SendPing ==
    /\ Send("ping")
    /\ pong' = FALSE
    /\ answered' = FALSE

\* sleep() is over: _check_timeouts, _check_token_expiry, then the ping.
Wake ==
    /\ pc = "sleep"
    /\ now = until
    /\ \/ /\ MaxDurationReached
          /\ Send("expiring")
          /\ UNCHANGED <<pong, answered>>
       \/ /\ ~MaxDurationReached
          /\ IdleTooLong
          /\ Send("idle_warning")
          /\ UNCHANGED <<pong, answered>>
       \/ /\ ~MaxDurationReached /\ ~IdleTooLong
          /\ TokenExpiring /\ ~warned
          /\ Send("auth_expiring")
          /\ UNCHANGED <<pong, answered>>
       \/ /\ ~MaxDurationReached /\ ~IdleTooLong
          /\ ~TokenExpiring \/ warned
          /\ SendPing
    /\ UNCHANGED <<now, lastActive, warned, reason, lastPong>>

\* The warning has been sent; the limit is not looked at again.
LimitWarned(l, why) ==
    /\ pc = l
    /\ Send("close")
    /\ reason' = why
    /\ UNCHANGED <<now, lastActive, pong, warned, lastPong, answered>>

MaxDurationWarned == LimitWarned("expiring", "max_duration")
IdleWarned == LimitWarned("idle_warning", "idle_timeout")

AuthExpiringSent ==
    /\ pc = "auth_expiring"
    /\ warned' = TRUE
    /\ SendPing
    /\ UNCHANGED <<now, lastActive, reason, lastPong>>

\* Mutant: the event is cleared when the send has returned.
PingSentThenCleared ==
    /\ pc = "ping"
    /\ Suspend("wait_pong", Timeout)
    /\ pong' = FALSE
    /\ UNCHANGED <<now, lastActive, warned, reason, lastPong, answered>>

PingSent ==
    /\ pc = "ping"
    /\ Suspend("wait_pong", Timeout)
    /\ UNCHANGED <<now, lastActive, pong, warned, reason, lastPong, answered>>

PongSeen ==
    /\ pc = "wait_pong"
    /\ pong
    /\ Suspend("sleep", Interval)
    /\ UNCHANGED <<now, lastActive, pong, warned, reason, lastPong, answered>>

\* It may also fire in the tick in which the pong arrives.
HeartbeatTimeout ==
    /\ pc = "wait_pong"
    /\ now = until
    /\ Send("close")
    /\ reason' = "heartbeat_timeout"
    /\ UNCHANGED <<now, lastActive, pong, warned, lastPong, answered>>

Disconnected ==
    /\ pc = "close"
    /\ pc' = "closed"
    /\ UNCHANGED <<now, until, lastActive, pong, warned, reason, lastPong, answered>>

-----------------------------------------------------------------------------
(* handle_event, in the adapter's task.                                    *)
Receiving == pc \notin {"close", "closed"}

HandlePong ==
    /\ Receiving
    /\ pong' = TRUE
    /\ lastPong' = now
    /\ answered' = TRUE
    /\ UNCHANGED <<now, pc, until, lastActive, warned, reason>>

\* touch(): the event is well-formed and within the rate limit.
HandleEvent ==
    /\ Receiving
    /\ lastActive' = now
    /\ UNCHANGED <<now, pc, until, pong, warned, reason, lastPong, answered>>

-----------------------------------------------------------------------------
\* Time does not pass a timer that is due, nor a pong the loop is waiting for.
Tick ==
    /\ pc # "closed"
    /\ now < until
    /\ ~(pc = "wait_pong" /\ pong)
    /\ now' = now + 1
    /\ UNCHANGED <<pc, until, lastActive, pong, warned, reason, lastPong, answered>>

LoopStep ==
    \/ Wake
    \/ MaxDurationWarned
    \/ IdleWarned
    \/ AuthExpiringSent
    \/ PingSent
    \/ PongSeen
    \/ HeartbeatTimeout
    \/ Disconnected

Next ==
    \/ LoopStep
    \/ HandlePong
    \/ HandleEvent
    \/ Tick
    \/ pc = "closed" /\ UNCHANGED vars

Spec == Init /\ [][Next]_vars

-----------------------------------------------------------------------------
TypeOK ==
    /\ now \in Nat /\ until \in Nat
    /\ pc \in Label
    /\ lastActive \in 0..now /\ lastPong \in 0..now
    /\ pong \in BOOLEAN /\ warned \in BOOLEAN /\ answered \in BOOLEAN
    /\ reason \in {"none", "max_duration", "idle_timeout", "heartbeat_timeout"}

Open == pc # "closed"

\* From one look at the limits to the next: a ping, the wait for its answer and
\* the sleep, and once in a connection's life the token warning before them.
Beat == Interval + Timeout + SendDelay
Round == Beat + SendDelay

\* A connection without events is disconnected idle_timeout after the last one,
\* or at most one round of the loop, the warning and the close later.
IdleClosedInTime ==
    Open /\ IdleTimeout > 0 =>
        now < lastActive + IdleTimeout + Round + 2 * SendDelay

\* The same of max_duration, however active the client is.
MaxDurationEnforced ==
    Open /\ MaxDuration > 0 => now < MaxDuration + Round + 2 * SendDelay

\* A client that stops answering pings is disconnected within a round, a send
\* and a close of its last answer, whatever else it sends.
DeadClientClosed == Open => now <= lastPong + Round + 2 * SendDelay

\* A ping answered before its deadline does not time out, even if the answer
\* overtakes the return of the send.
AnsweredPingNotTimedOut ==
    reason = "heartbeat_timeout" =>
        ~answered \/ lastPong = until - SendDelay

\* With a refresh window no shorter than a beat of the loop, a token that does
\* not expire before the first one is announced before it expires, unless the
\* connection is on its way to being closed.
TokenWarnedInTime ==
    Window >= Beat /\ TokenLife > Interval /\ now >= TokenLife =>
        warned \/ pc \notin {"sleep", "ping", "wait_pong"}

=============================================================================
