---------------------------- MODULE TokenBucket ----------------------------
(***************************************************************************)
(* security/ratelimit.py: the token bucket that handle_event asks before   *)
(* it touches the session and enters the middleware chain.                 *)
(*                                                                         *)
(* A token is Period units, so that the refill of Events tokens in Period  *)
(* seconds is Events units a second and all arithmetic is exact; the code  *)
(* computes in floats, whose rounding is not modelled.                     *)
(***************************************************************************)
EXTENDS PyDict, Integers, Sequences

CONSTANTS
    Conn,      \* connection ids
    Events,    \* RateLimit.events
    Period,    \* RateLimit.per_seconds
    MaxTime    \* bound on the clock

ASSUME RateAssumption ==
    Events \in Nat /\ Period \in Nat \ {0} /\ MaxTime \in Nat

VARIABLES
    clock,        \* time.monotonic()
    buckets,    \* TokenBucket._buckets: [tokens, last]
    allowed     \* when the connection's events were allowed, since it has a bucket

bucketVars == <<clock, buckets, allowed>>

Full == Events * Period       \* _max, in units

BucketInit ==
    /\ clock = 0
    /\ buckets = EmptyDict
    /\ allowed = [c \in Conn |-> <<>>]

-----------------------------------------------------------------------------
Least(a, b) == IF a < b THEN a ELSE b

\* Mutant: only whole periods are refilled, though each call moves last.
RefilledByPeriod(c) ==
    IF c \in DOMAIN buckets
    THEN Least(Full, buckets[c].tokens + ((clock - buckets[c].last) \div Period) * Full)
    ELSE Full

\* What the bucket holds after the refill; a new one is full.
Refilled(c) ==
    IF c \in DOMAIN buckets
    THEN Least(Full, buckets[c].tokens + (clock - buckets[c].last) * Events)
    ELSE Full

Allow(c) ==
    /\ Refilled(c) >= Period
    /\ buckets' = Put(buckets, c, [tokens |-> Refilled(c) - Period, last |-> clock])
    /\ allowed' = [allowed EXCEPT ![c] = Append(@, clock)]
    /\ UNCHANGED clock

\* Mutant: the time of the refill is not stored, so that it is credited again.
RefuseKeepingTime(c) ==
    /\ Refilled(c) < Period
    /\ buckets' = Put(buckets, c, [tokens |-> Refilled(c),
                                   last |-> IF c \in DOMAIN buckets
                                            THEN buckets[c].last ELSE clock])
    /\ UNCHANGED <<clock, allowed>>

Refuse(c) ==
    /\ Refilled(c) < Period
    /\ buckets' = Put(buckets, c, [tokens |-> Refilled(c), last |-> clock])
    /\ UNCHANGED <<clock, allowed>>

Consume(c) == Allow(c) \/ Refuse(c)

\* On disconnect.
Remove(c) ==
    /\ buckets' = Pop(buckets, c)
    /\ allowed' = [allowed EXCEPT ![c] = <<>>]
    /\ UNCHANGED clock

ClockTicks ==
    /\ clock < MaxTime
    /\ clock' = clock + 1
    /\ UNCHANGED <<buckets, allowed>>

BucketNext ==
    \/ \E c \in Conn : Consume(c) \/ Remove(c)
    \/ ClockTicks

BucketSpec == BucketInit /\ [][BucketNext]_bucketVars

-----------------------------------------------------------------------------
BucketTypeOK ==
    /\ clock \in Nat
    /\ IsDict(buckets, Conn, [tokens : 0..Full, last : 0..clock])
    /\ allowed \in [Conn -> Seq(0..clock)]

\* The events allowed from the k-th on.
CountFrom(c, k) == Len(allowed[c]) - k + 1

\* In any stretch of time during the life of a bucket a connection gets at most
\* a full bucket of events and what is refilled in that time.
RateBounded ==
    \A c \in Conn : \A k \in DOMAIN allowed[c] :
        CountFrom(c, k) * Period <= Full + (clock - allowed[c][k]) * Events

\* The definition the bucket stands for: one more event may pass if it keeps
\* every stretch of time that ends with it within that bound.
Conforms(c) ==
    /\ Period <= Full
    /\ \A k \in DOMAIN allowed[c] :
          (CountFrom(c, k) + 1) * Period <= Full + (clock - allowed[c][k]) * Events

\* The bucket, which remembers two numbers, decides like that definition, which
\* remembers every event: it neither lets a burst through nor refuses an event
\* the limit leaves room for.
DecidesByDefinition == \A c \in Conn : Refilled(c) >= Period <=> Conforms(c)
=============================================================================
