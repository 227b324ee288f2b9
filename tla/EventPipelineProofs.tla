------------------------ MODULE EventPipelineProofs ------------------------
(***************************************************************************)
(* For any settings, any registered events and any middlewares, however    *)
(* often they call next: who comes in has been admitted, and who is not    *)
(* hears of it; the checks of a message and the middlewares come in their  *)
(* order before a handler is started; every message is accounted for; and  *)
(* a job runs the handler that is registered for its event.                *)
(***************************************************************************)
EXTENDS EventPipeline, SequenceTheorems, FiniteSetTheorems, TLAPS

USE AuthAssumption, OriginAssumption, NamesAssumption, TypedAssumption, BoundAssumption

-----------------------------------------------------------------------------
(* The handshake.                                                          *)
\* The checks of the code decide as the definition does.
LEMMA ChecksDecide ==
    ASSUME NEW o \in Offer
    PROVE  Admissible(o) <=> IsAllowed(o.origin) /\ (Auth => Token(o) = "good")
<1> USE DEF Absent, Empty, Wildcard, Credential
<1>1. Allowed \cap {o.origin, Wildcard} # {} <=> IsAllowed(o.origin)
  BY DEF Offer, IsAllowed
<1> DEFINE carried == <<o.header, o.query>>
           given == {i \in 1..2 : carried[i] \notin {Absent, Empty}}
<1>2. carried[1] = o.header /\ carried[2] = o.query /\ o.query # Empty
  BY DEF Offer
<1>3. (\E i \in given : carried[i] = "good" /\ \A j \in given : i <= j)
      <=> Token(o) = "good"
  <2>1. CASE o.header \notin {Absent, Empty}
    <3>1. 1 \in given /\ (\A i \in given : i = 1 \/ i = 2) /\ Token(o) = carried[1]
      BY <1>2, <2>1 DEF Token
    <3> QED BY <3>1
  <2>2. CASE o.header \in {Absent, Empty}
    <3>1. (\A i \in given : i = 2) /\ Token(o) = carried[2]
      BY <1>2, <2>2 DEF Token
    <3>2. carried[2] = "good" => 2 \in given
      OBVIOUS
    <3> QED BY <3>1, <3>2
  <2> QED BY <2>1, <2>2
<1> QED BY <1>1, <1>3 DEF Admissible

\* What the client has been sent and told when it has been refused, and why.
Refusal ==
    \/ /\ closes \in {<<"policy">>, <<"forbidden">>} /\ ~told
       /\ ~IsAllowed(offer.origin)
    \/ /\ closes = <<"auth">> /\ told
       /\ Auth /\ Token(offer) # "good"

HandshakeInv ==
    /\ AdmissionTypeOK
    /\ door \notin {"refused", "over"} => closes = <<>> /\ ~told
    /\ door \in {"accept", "authenticate", "answer", "hooks"} => IsAllowed(offer.origin)
    /\ door = "answer" => Auth /\ Token(offer) # "good"
    /\ door = "hooks" => (Auth => Token(offer) = "good")
    /\ door = "refused" => state = "disconnected" /\ Refusal
    /\ door = "over" => Refusal \/ (crashed /\ closes = <<>>)

LEMMA HandshakeStep ==
    ASSUME HandshakeInv, Handshake \/ \E o \in Offer : Arrive(o)
    PROVE  HandshakeInv'
<1> USE DEF Absent, Empty, Credential, Goto
<1>0. /\ Append(<<>>, "policy") = <<"policy">> /\ Append(<<>>, "forbidden") = <<"forbidden">>
      /\ Append(<<>>, "auth") = <<"auth">>
      /\ <<"policy">> \in Seq({"policy", "forbidden", "auth"})
      /\ <<"forbidden">> \in Seq({"policy", "forbidden", "auth"})
      /\ <<"auth">> \in Seq({"policy", "forbidden", "auth"})
      /\ NoOffer \in Offer
  BY DEF NoOffer, Offer
<1>1. ASSUME NEW o \in Offer, Arrive(o) PROVE HandshakeInv'
  <2>1. CASE UpgradeRefused(o)
    BY <1>0, <2>1 DEF UpgradeRefused, Close, HandshakeInv, AdmissionTypeOK, Refusal, IsAllowed
  <2>2. CASE UpgradeAccepted(o)
    BY <1>0, <2>2 DEF UpgradeAccepted, HandshakeInv, AdmissionTypeOK, Refusal, IsAllowed
  <2>3. CASE TestConnect(o)
    BY <1>0, <2>3 DEF TestConnect, HandleConnect, Close, HandshakeInv, AdmissionTypeOK, Refusal,
       IsAllowed
  <2> QED BY <1>1, <2>1, <2>2, <2>3 DEF Arrive
<1>2. CASE Accepted
  BY <1>0, <1>2 DEF Accepted, HandleConnect, Close, HandshakeInv, AdmissionTypeOK, Refusal,
     IsAllowed
<1>3. CASE Authenticated
  BY <1>0, <1>3 DEF Authenticated, HandshakeInv, AdmissionTypeOK, Refusal, IsAllowed
<1>4. CASE AuthFails
  BY <1>0, <1>4 DEF AuthFails, HandshakeInv, AdmissionTypeOK, Refusal, IsAllowed
<1>5. CASE Answered
  BY <1>0, <1>5 DEF Answered, Close, HandshakeInv, AdmissionTypeOK, Refusal, IsAllowed
<1>6. CASE NoneReturned
  BY <1>0, <1>6 DEF NoneReturned, Close, HandshakeInv, AdmissionTypeOK, Refusal, IsAllowed
<1>7. CASE Crashes
  BY <1>0, <1>7 DEF Crashes, HandshakeInv, AdmissionTypeOK, Refusal, IsAllowed
<1>8. CASE ClientLeaves
  BY <1>0, <1>8 DEF ClientLeaves, HandshakeInv, AdmissionTypeOK, Refusal, IsAllowed
<1>9. CASE Serve
  BY <1>0, <1>9 DEF Serve, HandshakeInv, AdmissionTypeOK, Refusal, IsAllowed
<1> QED BY <1>1, <1>2, <1>3, <1>4, <1>5, <1>6, <1>7, <1>8, <1>9 DEF Handshake

LEMMA HandshakeUnchanged ==
    ASSUME HandshakeInv, UNCHANGED admissionVars
    PROVE  HandshakeInv'
BY DEF HandshakeInv, AdmissionTypeOK, Refusal, IsAllowed, Token, admissionVars

LEMMA HandshakeInit == AdmissionInit => HandshakeInv
<1>1. NoOffer \in Offer
  BY DEF NoOffer, Offer
<1>2. <<>> \in Seq({"policy", "forbidden", "auth"})
  OBVIOUS
<1> QED BY <1>1, <1>2 DEF AdmissionInit, HandshakeInv, AdmissionTypeOK

-----------------------------------------------------------------------------
(* Type correctness.                                                       *)
Job(n) == [frame : 1..n, event : Event, def : Definition,
           state : {"waiting", "running", "done"}]

Trace == [charged : BOOLEAN, touched : BOOLEAN, pong : BOOLEAN, answers : Nat,
          entered : Seq(Middleware), dropped : BOOLEAN, repeated : BOOLEAN, due : Nat]

\* TypeOK, with what it needs to be inductive: the history has its shape, and a
\* message that is being handled has been received.
PipelineTypeInv ==
    /\ TypeOK
    /\ trace \in Trace
    /\ stage # "receive" => frames > 0

LEMMA SeqWidens ==
    ASSUME NEW S, NEW T, S \subseteq T, NEW s \in Seq(S)
    PROVE  s \in Seq(T)
<1>1. s \in [1..Len(s) -> T] /\ Len(s) \in Nat
  OBVIOUS
<1> QED BY <1>1

LEMMA JobsWiden ==
    ASSUME NEW n \in Nat, NEW s \in Seq(Job(n))
    PROVE  s \in Seq(Job(n + 1))
<1>1. 1..n \subseteq 1..n+1
  OBVIOUS
<1>2. Job(n) \subseteq Job(n + 1)
  BY <1>1 DEF Job
<1> QED BY <1>2, SeqWidens

\* How the next callable of the chain leaves the endpoint and the history: in a
\* middleware, in the error message of dispatch, or back from dispatch.
LEMMA EnterSplit ==
    ASSUME NEW tr \in Trace, NEW i \in Nat, Enter(i, tr), running' \in Seq(Middleware), i > 0
    PROVE  /\ trace' \in Trace
           /\ trace'.charged = tr.charged /\ trace'.touched = tr.touched
           /\ trace'.pong = tr.pong /\ trace'.dropped = tr.dropped
           /\ trace'.repeated = tr.repeated /\ trace'.due = tr.due
           /\ \/ /\ i <= Len(running') /\ depth' = i /\ stage' = "chain"
                 /\ trace'.answers = tr.answers /\ jobs' = jobs
                 /\ trace'.entered = IF i <= Len(tr.entered) THEN tr.entered
                                     ELSE Append(tr.entered, running'[i])
              \/ /\ i > Len(running') /\ trace'.entered = tr.entered
                 /\ DispatchRefused(tr) /\ trace'.answers = tr.answers + 1
              \/ /\ i > Len(running') /\ trace'.entered = tr.entered
                 /\ DispatchAccepted(tr) \/ DispatchRaises(tr)
                 /\ trace'.answers = tr.answers
<1>1. CASE i <= Len(running')
  <2>1. /\ depth' = i /\ stage' = "chain" /\ jobs' = jobs
        /\ trace' = [tr EXCEPT !.entered =
                        IF i <= Len(@) THEN @ ELSE Append(@, running'[i])]
    BY <1>1 DEF Enter
  <2> DEFINE en == IF i <= Len(tr.entered) THEN tr.entered
                   ELSE Append(tr.entered, running'[i])
  <2>2. en \in Seq(Middleware)
    <3>1. running'[i] \in Middleware /\ tr.entered \in Seq(Middleware)
      BY <1>1 DEF Trace
    <3> QED BY <3>1
  <2>3. trace' = [tr EXCEPT !.entered = en]
    BY <2>1
  <2> HIDE DEF en
  <2>4. /\ trace' \in Trace /\ trace'.entered = en
        /\ trace'.charged = tr.charged /\ trace'.touched = tr.touched
        /\ trace'.pong = tr.pong /\ trace'.dropped = tr.dropped
        /\ trace'.repeated = tr.repeated /\ trace'.due = tr.due
        /\ trace'.answers = tr.answers
    BY <2>2, <2>3 DEF Trace
  <2> QED BY <1>1, <2>1, <2>4 DEF en
<1>2. CASE i > Len(running')
  <2>1. CASE DispatchRefused(tr)
    <3>1. trace' = [tr EXCEPT !.answers = @ + 1]
      BY <2>1 DEF DispatchRefused
    <3>2. /\ trace' \in Trace /\ trace'.entered = tr.entered
          /\ trace'.charged = tr.charged /\ trace'.touched = tr.touched
          /\ trace'.pong = tr.pong /\ trace'.dropped = tr.dropped
          /\ trace'.repeated = tr.repeated /\ trace'.due = tr.due
          /\ trace'.answers = tr.answers + 1
      BY <3>1 DEF Trace
    <3> QED BY <1>2, <2>1, <3>2
  <2>2. CASE DispatchAccepted(tr) \/ DispatchRaises(tr)
    <3>1. trace' = tr
      BY <2>2 DEF DispatchAccepted, DispatchRaises
    <3> QED BY <1>2, <2>2, <3>1
  <2> QED BY <1>2, <2>1, <2>2 DEF Enter, Dispatch
<1> QED BY <1>1, <1>2

LEMMA EnterTyped ==
    ASSUME NEW tr \in Trace, running' \in Seq(Middleware), NEW i \in 1..Len(running')+1,
           Enter(i, tr), frames' \in Nat \ {0}, jobs \in Seq(Job(frames')),
           frame' \in Frame, IsDict(registry, Event, Definition)
    PROVE  /\ trace' \in Trace
           /\ stage' \in {"receive", "chain"}
           /\ depth' \in 0..Len(running')+1 /\ (stage' # "chain" => depth' = 0)
           /\ jobs' \in Seq(Job(frames'))
<1>1. Len(running') \in Nat /\ i \in Nat /\ i > 0
  OBVIOUS
<1>2. trace' \in Trace
  BY <1>1, EnterSplit
<1>3. CASE i <= Len(running')
  BY <1>1, <1>2, <1>3 DEF Enter
<1>4. CASE i > Len(running')
  <2>1. CASE DispatchRefused(tr)
    BY <1>1, <1>2, <2>1 DEF DispatchRefused
  <2>2. CASE DispatchAccepted(tr)
    <3>1. frame'.event \in DOMAIN registry
      BY <2>2 DEF DispatchAccepted, Refused
    <3>2. frame'.event \in Event /\ registry[frame'.event] \in Definition
      BY <3>1 DEF IsDict
    <3> DEFINE j == [frame |-> frames', event |-> frame'.event,
                     def |-> registry[frame'.event], state |-> "waiting"]
    <3>3. j \in Job(frames')
      BY <3>2 DEF Job
    <3>4. jobs' = Append(jobs, j)
      BY <2>2 DEF DispatchAccepted
    <3> HIDE DEF j
    <3>5. jobs' \in Seq(Job(frames'))
      BY <3>3, <3>4
    <3> QED BY <1>1, <1>2, <2>2, <3>5 DEF DispatchAccepted, Return
  <2>3. CASE DispatchRaises(tr)
    BY <1>1, <1>2, <2>3 DEF DispatchRaises, Return
  <2> QED BY <1>4, <2>1, <2>2, <2>3 DEF Enter, Dispatch
<1> QED BY <1>1, <1>3, <1>4

LEMMA TypeFacts ==
    ASSUME PipelineTypeInv
    PROVE  /\ trace \in Trace /\ jobs \in Seq(Job(frames))
           /\ frames \in Nat /\ MaxFrames \in Nat /\ frames <= MaxFrames
           /\ running \in Seq(Middleware) /\ Len(running) \in Nat
           /\ DOMAIN running = 1..Len(running)
           /\ depth \in 0..Len(running)+1
           /\ frame \in Frame
BY DEF PipelineTypeInv, TypeOK, Job

\* A message is received while the endpoint handles no other.
LEMMA ReceiveTyped ==
    ASSUME PipelineTypeInv, NEW f \in Frame, Receive(f)
    PROVE  /\ frames' \in 1..MaxFrames /\ frames' = frames + 1 /\ frame' \in Frame
           /\ running' \in Seq(Middleware) /\ calls' \in [DOMAIN running' -> 0..MaxNext]
           /\ jobs \in Seq(Job(frames')) /\ Fresh \in Trace
           /\ HandshakeInv => AdmissionTypeOK'
           /\ registry' = registry /\ middlewares' = middlewares /\ chain' = chain
           /\ validated' = validated
<1>1. /\ frames' \in 1..MaxFrames /\ frames' = frames + 1 /\ frame' \in Frame
      /\ running' \in Seq(Middleware) /\ running' = chain
  BY TypeFacts DEF Receive, PipelineTypeInv, TypeOK
<1>2. calls' \in [DOMAIN running' -> 0..MaxNext]
  BY <1>1 DEF Receive
<1>3. jobs \in Seq(Job(frames'))
  BY <1>1, TypeFacts, JobsWiden
<1>4. Fresh \in Trace
  <2>1. NewTrace \in Trace
    BY DEF NewTrace, Trace
  <2>2. Len(chain) \in Nat
    BY DEF PipelineTypeInv, TypeOK
  <2> QED BY <2>1, <2>2 DEF Fresh, Trace
<1> QED BY <1>1, <1>2, <1>3, <1>4, HandshakeUnchanged DEF Receive, regVars, HandshakeInv

LEMMA ReceiveStepTyped ==
    ASSUME PipelineTypeInv, HandshakeInv, NEW f \in Frame,
           ReceiveBad(f) \/ ReceiveNested(f) \/ ReceivePong(f) \/ ReceiveLimited(f) \/ ReceiveEvent(f)
    PROVE  PipelineTypeInv'
<1>1. Receive(f)
  BY DEF ReceiveBad, ReceiveNested, ReceivePong, ReceiveLimited, ReceiveEvent
<1>2. /\ frames' \in 1..MaxFrames /\ frames' = frames + 1 /\ frame' \in Frame
      /\ running' \in Seq(Middleware) /\ calls' \in [DOMAIN running' -> 0..MaxNext]
      /\ jobs \in Seq(Job(frames')) /\ Fresh \in Trace
      /\ AdmissionTypeOK'
      /\ registry' = registry /\ middlewares' = middlewares /\ chain' = chain
      /\ validated' = validated
  BY <1>1, ReceiveTyped
<1>3. /\ frames' \in Nat \ {0} /\ frames' \in 0..MaxFrames /\ Len(running') \in Nat
      /\ DOMAIN running' = 1..Len(running')
  BY <1>2, TypeFacts
<1>4. /\ trace' \in Trace
      /\ stage' \in {"receive", "emit", "chain"}
      /\ depth' \in 0..Len(running')+1 /\ (stage' # "chain" => depth' = 0)
      /\ jobs' \in Seq(Job(frames'))
  <2>0. /\ [Fresh EXCEPT !.answers = 1] \in Trace
        /\ [Fresh EXCEPT !.pong = TRUE] \in Trace
        /\ [[Fresh EXCEPT !.charged = TRUE] EXCEPT !.answers = 1] \in Trace
    BY <1>2 DEF Trace
  <2>1. CASE ReceiveBad(f)
    BY <1>2, <1>3, <2>0, <2>1 DEF ReceiveBad, AnswerError
  <2>2. CASE ReceivePong(f)
    BY <1>2, <1>3, <2>0, <2>2 DEF ReceivePong, Return
  <2>3. CASE ReceiveLimited(f)
    BY <1>2, <1>3, <2>0, <2>3 DEF ReceiveLimited, AnswerError
  <2>5. CASE ReceiveNested(f)
    BY <1>2, <1>3, <2>5 DEF ReceiveNested, Return
  <2>4. CASE ReceiveEvent(f)
    <3>1. [Fresh EXCEPT !.charged = TRUE, !.touched = TRUE] \in Trace
      BY <1>2 DEF Trace
    <3>2. Enter(1, [Fresh EXCEPT !.charged = TRUE, !.touched = TRUE]) /\ 1 \in 1..Len(running')+1
      BY <1>3, <2>4 DEF ReceiveEvent
    <3> QED BY <1>2, <1>3, <3>1, <3>2, EnterTyped DEF PipelineTypeInv, TypeOK
  <2> QED BY <2>1, <2>2, <2>3, <2>4, <2>5
<1> QED BY <1>2, <1>3, <1>4 DEF PipelineTypeInv, TypeOK, IsDict, Job

LEMMA CallNextTyped ==
    ASSUME PipelineTypeInv, HandshakeInv, CallNext
    PROVE  PipelineTypeInv'
<1>1. /\ stage = "chain" /\ depth \in DOMAIN running /\ calls[depth] < MaxNext
      /\ registry' = registry /\ middlewares' = middlewares /\ chain' = chain
      /\ validated' = validated /\ frames' = frames /\ frame' = frame /\ running' = running
      /\ AdmissionTypeOK'
  BY HandshakeUnchanged DEF CallNext, regVars, HandshakeInv
<1>2. frames \in Nat \ {0} /\ depth + 1 \in 1..Len(running)+1
  BY <1>1, TypeFacts DEF PipelineTypeInv
<1>3. calls' \in [DOMAIN running -> 0..MaxNext]
  <2>1. \A i \in DOMAIN running : calls[i] \in 0..MaxNext
    BY DEF PipelineTypeInv, TypeOK
  <2>2. calls[depth] + 1 \in 0..MaxNext /\ 0 \in 0..MaxNext
    BY <1>1, <2>1
  <2>3. calls' = [i \in DOMAIN running |->
                    IF i = depth THEN calls[i] + 1 ELSE IF i > depth THEN 0 ELSE calls[i]]
    BY DEF CallNext
  <2> QED BY <2>1, <2>2, <2>3
<1> DEFINE tr == [trace EXCEPT !.repeated = @ \/ calls[depth] > 0]
<1>4. tr \in Trace /\ Enter(depth + 1, tr)
  <2>1. trace \in Trace
    BY TypeFacts
  <2> QED BY <2>1 DEF CallNext, Trace
<1> HIDE DEF tr
<1>5. /\ trace' \in Trace
      /\ stage' \in {"receive", "chain"}
      /\ depth' \in 0..Len(running')+1 /\ (stage' # "chain" => depth' = 0)
      /\ jobs' \in Seq(Job(frames'))
  BY <1>1, <1>2, <1>4, TypeFacts, EnterTyped DEF PipelineTypeInv, TypeOK
<1> QED BY <1>1, <1>2, <1>3, <1>5, TypeFacts DEF PipelineTypeInv, TypeOK, IsDict, Job

LEMMA EndsTyped ==
    ASSUME PipelineTypeInv, HandshakeInv, MiddlewareEnds \/ Emitted
    PROVE  PipelineTypeInv'
<1>1. /\ registry' = registry /\ middlewares' = middlewares /\ chain' = chain
      /\ validated' = validated /\ frames' = frames /\ frame' = frame /\ running' = running
      /\ calls' = calls /\ jobs' = jobs /\ AdmissionTypeOK'
  BY HandshakeUnchanged DEF MiddlewareEnds, Emitted, regVars, HandshakeInv
<1>2. /\ trace' \in Trace
      /\ stage' \in {"receive", "chain"} /\ (stage' # "receive" => stage # "receive")
      /\ depth' \in 0..Len(running)+1 /\ (stage' # "chain" => depth' = 0)
  <2>1. CASE MiddlewareEnds
    <3>1. trace' \in Trace
      BY <2>1, TypeFacts DEF MiddlewareEnds, Trace
    <3> QED BY <2>1, <3>1, TypeFacts DEF MiddlewareEnds, Return
  <2>2. CASE Emitted
    BY <2>2, TypeFacts DEF Emitted, Return
  <2> QED BY <2>1, <2>2
<1> QED BY <1>1, <1>2 DEF PipelineTypeInv, TypeOK, IsDict

LEMMA JobTyped ==
    ASSUME PipelineTypeInv, HandshakeInv, NEW j \in DOMAIN jobs, JobStarts(j) \/ JobEnds(j)
    PROVE  PipelineTypeInv' /\ DOMAIN jobs' = DOMAIN jobs
           /\ \A k \in DOMAIN jobs : /\ jobs'[k].frame = jobs[k].frame
                                     /\ jobs'[k].event = jobs[k].event
                                     /\ jobs'[k].def = jobs[k].def
<1>1. PICK to \in {"running", "done"} : jobs' = [jobs EXCEPT ![j].state = to]
  BY DEF JobStarts, JobEnds, SetJob
<1>2. /\ registry' = registry /\ middlewares' = middlewares /\ chain' = chain
      /\ validated' = validated /\ frames' = frames /\ frame' = frame /\ running' = running
      /\ calls' = calls /\ trace' = trace /\ stage' = stage /\ depth' = depth
      /\ AdmissionTypeOK'
  BY HandshakeUnchanged DEF JobStarts, JobEnds, SetJob, regVars, frameVars, HandshakeInv
<1>3. jobs \in Seq(Job(frames)) /\ Len(jobs) \in Nat /\ DOMAIN jobs = 1..Len(jobs)
  BY TypeFacts
<1>4. jobs[j] \in Job(frames)
  BY <1>3
<1>5. [jobs[j] EXCEPT !.state = to] \in Job(frames)
  BY <1>4 DEF Job
<1>6. jobs' = [jobs EXCEPT ![j] = [jobs[j] EXCEPT !.state = to]]
  BY <1>1
<1>7. jobs' \in Seq(Job(frames)) /\ DOMAIN jobs' = DOMAIN jobs
  BY <1>3, <1>5, <1>6, ExceptSeq
<1>8. \A k \in DOMAIN jobs : /\ jobs'[k].frame = jobs[k].frame
                             /\ jobs'[k].event = jobs[k].event
                             /\ jobs'[k].def = jobs[k].def
  BY <1>3, <1>4, <1>6 DEF Job
<1> QED BY <1>2, <1>7, <1>8 DEF PipelineTypeInv, TypeOK, IsDict, Job

\* Wrapping from the end of the list puts its first entry outermost.
LEMMA CompiledInOrder ==
    ASSUME NEW ms \in Seq(Middleware)
    PROVE  Compile(ms) = ms
<1> DEFINE r == Reverse(ms)
           n == Len(ms)
<1>1. /\ n \in Nat /\ ms = [i \in 1..n |-> ms[i]]
      /\ r = [i \in 1..n |-> ms[(n - i) + 1]]
  BY DEF Reverse
<1>2. Len(r) = n
  BY <1>1
<1>3. Reverse(r) = [i \in 1..n |-> r[(n - i) + 1]]
  BY <1>2 DEF Reverse
<1>4. ASSUME NEW i \in 1..n PROVE r[(n - i) + 1] = ms[i]
  <2>1. (n - i) + 1 \in 1..n /\ (n - ((n - i) + 1)) + 1 = i
    BY <1>1
  <2> QED BY <1>1, <2>1
<1>5. Reverse(r) = [i \in 1..n |-> ms[i]]
  BY <1>3, <1>4
<1> QED BY <1>1, <1>5 DEF Compile, Layers

LEMMA RegistrationTyped ==
    ASSUME PipelineTypeInv, HandshakeInv, Registration
    PROVE  PipelineTypeInv'
<1>1. /\ frames' = frames /\ frame' = frame /\ running' = running /\ jobs' = jobs
      /\ calls' = calls /\ trace' = trace /\ stage' = stage /\ depth' = depth
      /\ AdmissionTypeOK'
  BY HandshakeUnchanged DEF Registration, Register, AddMiddleware, Startup, frameVars, HandshakeInv
<1>2. /\ IsDict(registry', Event, Definition) /\ validated' \in BOOLEAN
      /\ middlewares' \in Seq(Middleware) /\ chain' \in Seq(Middleware)
  <2>1. ASSUME NEW e \in Name, NEW d \in Definition, Register(e, d)
        PROVE  IsDict(registry', Event, Definition)
    <3>1. e \in Event /\ IsDict(registry, Event, Definition) /\ registry' = Put(registry, e, d)
      BY <2>1 DEF Register, Name, PipelineTypeInv, TypeOK
    <3> QED BY <3>1 DEF IsDict, Put
  <2>2. ASSUME NEW m \in Middleware, AddMiddleware(m)
        PROVE  middlewares' \in Seq(Middleware)
    BY <2>2 DEF AddMiddleware, PipelineTypeInv, TypeOK
  <2>3. ASSUME Startup PROVE chain' \in Seq(Middleware)
    BY <2>3, CompiledInOrder DEF Startup, PipelineTypeInv, TypeOK
  <2> QED BY <2>1, <2>2, <2>3 DEF Registration, Register, AddMiddleware, Startup,
             PipelineTypeInv, TypeOK
<1> QED BY <1>1, <1>2 DEF PipelineTypeInv, TypeOK, IsDict

-----------------------------------------------------------------------------
(* The inductive invariant of message handling.                            *)
\* What is in the chain, or has passed through it, has been paid for.
ChecksInv ==
    /\ trace.charged => ~frame.large /\ frame.text = "envelope" /\ frame.event # Pong
    /\ trace.touched => trace.charged
    /\ stage = "chain" \/ trace.entered # <<>> \/ JobsOfFrame # {} =>
          trace.charged /\ trace.touched

StartsWith(t, s) == Len(s) <= Len(t) /\ \A i \in 1..Len(s) : s[i] = t[i]

\* The chain, the one a message runs through and what it has entered of that are
\* all beginnings of the list; a message is no deeper than what it has entered.
ChainInv ==
    /\ StartsWith(middlewares, chain)
    /\ StartsWith(middlewares, running)
    /\ StartsWith(running, trace.entered)
    /\ trace.due = Len(running)
    /\ stage = "chain" => depth <= Len(trace.entered) \/ Len(trace.entered) = Len(running)
    /\ JobsOfFrame # {} => Len(trace.entered) = Len(running)

Results == trace.answers + Cardinality(JobsOfFrame) + (IF trace.pong THEN 1 ELSE 0)

Excused == trace.dropped \/ Unanswered

\* A message without a result is about to enter the rest of the chain, or is
\* excused; while no middleware has called next again, one that has not called
\* it at all has kept the message from dispatch.
AccountInv ==
    /\ stage # "chain" /\ frames > 0 /\ Results = 0 => Excused
    /\ stage = "chain" /\ Results = 0 =>
          Excused \/ (depth \in DOMAIN running /\ calls[depth] = 0)
    /\ Results > 1 => trace.repeated
    /\ stage = "chain" => \A i \in DOMAIN running :
          /\ i < depth => calls[i] > 0
          /\ calls[i] = 0 /\ Results > 0 => trace.repeated

MessageInv == ChecksInv /\ ChainInv /\ AccountInv /\ JobsRunTheirHandler

PipelineInv == PipelineTypeInv /\ HandshakeInv /\ MessageInv

-----------------------------------------------------------------------------
(* The jobs of a message, and the beginnings of lists.                     *)
JobsOf(s, n) == {j \in DOMAIN s : s[j].frame = n}

LEMMA JobsCounted ==
    ASSUME NEW m, NEW s \in Seq(Job(m)), NEW n
    PROVE  /\ IsFiniteSet(JobsOf(s, n)) /\ Cardinality(JobsOf(s, n)) \in Nat
           /\ JobsOf(s, n) = {} <=> Cardinality(JobsOf(s, n)) = 0
           /\ \A j \in Job(m) : j.frame = n =>
                 /\ JobsOf(Append(s, j), n) = JobsOf(s, n) \cup {Len(s) + 1}
                 /\ Cardinality(JobsOf(Append(s, j), n)) = Cardinality(JobsOf(s, n)) + 1
<1>1. Len(s) \in Nat /\ DOMAIN s = 1..Len(s) /\ JobsOf(s, n) \subseteq 1..Len(s)
  BY DEF JobsOf
<1>2. IsFiniteSet(JobsOf(s, n))
  <2>1. IsFiniteSet(1..Len(s))
    BY <1>1, FS_Interval
  <2> QED BY <1>1, <2>1, FS_Subset
<1>3. /\ Cardinality(JobsOf(s, n)) \in Nat
      /\ JobsOf(s, n) = {} <=> Cardinality(JobsOf(s, n)) = 0
  BY <1>2, FS_CardinalityType, FS_EmptySet
<1>4. ASSUME NEW j \in Job(m), j.frame = n
      PROVE  /\ JobsOf(Append(s, j), n) = JobsOf(s, n) \cup {Len(s) + 1}
             /\ Cardinality(JobsOf(Append(s, j), n)) = Cardinality(JobsOf(s, n)) + 1
  <2>1. JobsOf(Append(s, j), n) = JobsOf(s, n) \cup {Len(s) + 1}
    <3>1. /\ DOMAIN Append(s, j) = 1..Len(s)+1
          /\ \A i \in 1..Len(s) : Append(s, j)[i] = s[i]
          /\ Append(s, j)[Len(s) + 1] = j
      OBVIOUS
    <3> QED BY <1>1, <1>4, <3>1 DEF JobsOf
  <2>2. Len(s) + 1 \notin JobsOf(s, n)
    BY <1>1
  <2> QED BY <1>2, <2>1, <2>2, FS_AddElement
<1> QED BY <1>2, <1>3, <1>4

\* No job is of a message still to come.
LEMMA NoJobsAhead ==
    ASSUME NEW m \in Nat, NEW s \in Seq(Job(m))
    PROVE  JobsOf(s, m + 1) = {}
<1>1. ASSUME NEW j \in DOMAIN s PROVE s[j].frame # m + 1
  <2>1. s[j] \in Job(m)
    OBVIOUS
  <2> QED BY <2>1 DEF Job
<1> QED BY <1>1 DEF JobsOf

LEMMA StartsWithFacts ==
    ASSUME NEW S, NEW s \in Seq(S), NEW t \in Seq(S), NEW u \in Seq(S)
    PROVE  /\ StartsWith(s, <<>>) /\ StartsWith(s, s)
           /\ StartsWith(u, t) /\ StartsWith(t, s) => StartsWith(u, s)
           /\ \A e \in S : StartsWith(t, s) => StartsWith(Append(t, e), s)
BY DEF StartsWith

\* What has been entered of a chain, once its k-th middleware is.
Entered(run, k, en) == IF k <= Len(en) THEN en ELSE Append(en, run[k])

\* The next callable of the chain has been entered already, or it is what comes
\* after all that have.
LEMMA EnteredNext ==
    ASSUME NEW run \in Seq(Middleware), NEW en \in Seq(Middleware),
           StartsWith(run, en),
           NEW k \in 1..Len(run), k <= Len(en) + 1 \/ Len(en) = Len(run),
           NEW next, next = Entered(run, k, en)
    PROVE  /\ StartsWith(run, next) /\ k <= Len(next)
           /\ Len(en) = Len(run) => next = en
           /\ next # <<>>
<1>1. /\ Len(run) \in Nat /\ Len(en) \in Nat
      /\ DOMAIN en = 1..Len(en) /\ Len(en) <= Len(run)
      /\ \A i \in 1..Len(en) : en[i] = run[i]
  BY DEF StartsWith
<1>2. CASE k <= Len(en)
  <2>1. next = en
    BY <1>2 DEF Entered
  <2>2. en # <<>>
    BY <1>1, <1>2
  <2> QED BY <1>2, <2>1, <2>2
<1>3. CASE k = Len(en) + 1
  <2>1. next = Append(en, run[k]) /\ run[k] \in Middleware
    BY <1>1, <1>3 DEF Entered
  <2>2. /\ Len(next) = Len(en) + 1 /\ next[Len(en) + 1] = run[k]
        /\ \A i \in 1..Len(en) : next[i] = en[i]
        /\ next # <<>>
    BY <2>1
  <2>3. StartsWith(run, next)
    BY <1>1, <1>3, <2>2 DEF StartsWith
  <2>4. k <= Len(next) /\ Len(en) # Len(run)
    BY <1>1, <1>3, <2>2
  <2> QED BY <2>2, <2>3, <2>4
<1>4. k <= Len(en) \/ k = Len(en) + 1
  BY <1>1
<1> QED BY <1>2, <1>3, <1>4

\* The results of a message with history tr and jobs s.
ResultsOf(tr, s, n) ==
    tr.answers + Cardinality(JobsOf(s, n)) + (IF tr.pong THEN 1 ELSE 0)

LEMMA ResultsTyped ==
    ASSUME NEW tr \in Trace, NEW m, NEW s \in Seq(Job(m)), NEW n
    PROVE  /\ ResultsOf(tr, s, n) \in Nat
           /\ ResultsOf(tr, s, n) = 0 => JobsOf(s, n) = {}
           /\ JobsOf(s, n) = {} /\ tr.answers = 0 /\ ~tr.pong => ResultsOf(tr, s, n) = 0
<1>1. tr.answers \in Nat /\ Cardinality(JobsOf(s, n)) \in Nat
  BY JobsCounted DEF Trace
<1>2. JobsOf(s, n) = {} <=> Cardinality(JobsOf(s, n)) = 0
  BY JobsCounted
<1>3. (IF tr.pong THEN 1 ELSE 0) \in {0, 1} /\ (~tr.pong => (IF tr.pong THEN 1 ELSE 0) = 0)
  OBVIOUS
<1> QED BY <1>1, <1>2, <1>3 DEF ResultsOf

LEMMA EnterMiddleware ==
    ASSUME NEW tr \in Trace, tr.entered \in Seq(Middleware),
           running' \in Seq(Middleware),
           StartsWith(running', tr.entered),
           NEW k \in 1..Len(running'),
           k <= Len(tr.entered) + 1 \/ Len(tr.entered) = Len(running'),
           trace'.entered = Entered(running', k, tr.entered)
    PROVE  /\ StartsWith(running', trace'.entered) /\ k <= Len(trace'.entered)
           /\ Len(tr.entered) = Len(running') => trace'.entered = tr.entered
BY EnteredNext

\* The message, with history tr, goes on to the i-th callable of its chain: the
\* part of the chain it has passed has called next, the rest has not yet.
LEMMA EnterKeepsInv ==
    ASSUME PipelineTypeInv, JobsRunTheirHandler, frames' \in Nat \ {0},
           jobs \in Seq(Job(frames')), frame' \in Frame,
           registry' = registry, running' \in Seq(Middleware),
           middlewares' \in Seq(Middleware),
           StartsWith(middlewares', chain'), StartsWith(middlewares', running'),
           NEW tr \in Trace, NEW i \in 1..Len(running')+1, Enter(i, tr),
           tr.charged, tr.touched,
           ~frame'.large /\ frame'.text = "envelope" /\ frame'.event # Pong,
           StartsWith(running', tr.entered), tr.due = Len(running'),
           i <= Len(tr.entered) + 1 \/ Len(tr.entered) = Len(running'),
           JobsOf(jobs, frames') # {} => Len(tr.entered) = Len(running'),
           ResultsOf(tr, jobs, frames') > 0 => tr.repeated,
           \A k \in DOMAIN running' : calls'[k] \in Nat,
           \A k \in DOMAIN running' : k < i => calls'[k] > 0,
           i \in DOMAIN running' => calls'[i] = 0
    PROVE  MessageInv'
<1>0. /\ Len(running') \in Nat /\ DOMAIN running' = 1..Len(running') /\ i \in Nat /\ i > 0
      /\ tr.entered \in Seq(Middleware) /\ Len(tr.entered) \in Nat
      /\ Len(tr.entered) <= Len(running')
  BY DEF Trace, StartsWith
<1>1. /\ trace' \in Trace
      /\ trace'.charged /\ trace'.touched
      /\ trace'.pong = tr.pong /\ trace'.dropped = tr.dropped
      /\ trace'.repeated = tr.repeated /\ trace'.due = tr.due
  BY <1>0, EnterSplit
<1>2. /\ JobsOfFrame' = JobsOf(jobs', frames')
      /\ Results' = ResultsOf(trace', jobs', frames')
      /\ ResultsOf(tr, jobs, frames') \in Nat
  <2>1. JobsOfFrame' = JobsOf(jobs', frames')
    BY DEF JobsOfFrame, JobsOf
  <2>2. Results' = ResultsOf(trace', jobs', frames')
    BY <2>1 DEF Results, ResultsOf
  <2>3. ResultsOf(tr, jobs, frames') \in Nat
    BY ResultsTyped
  <2> QED BY <2>1, <2>2, <2>3
<1>3. ChecksInv'
  BY <1>1 DEF ChecksInv
<1>a. (trace'.pong <=> tr.pong) /\ (trace'.dropped <=> tr.dropped)
      /\ (trace'.repeated <=> tr.repeated)
  BY <1>1
<1>4. CASE i <= Len(running')
  <2>1. /\ depth' = i /\ stage' = "chain" /\ jobs' = jobs
        /\ trace'.answers = tr.answers
        /\ trace'.entered = IF i <= Len(tr.entered) THEN tr.entered
                            ELSE Append(tr.entered, running'[i])
    BY <1>0, <1>4, EnterSplit
  <2>2. /\ StartsWith(running', trace'.entered) /\ i <= Len(trace'.entered)
        /\ Len(tr.entered) = Len(running') => trace'.entered = tr.entered
    <3>1. /\ tr.entered \in Seq(Middleware) /\ i \in 1..Len(running')
          /\ i <= Len(tr.entered) + 1 \/ Len(tr.entered) = Len(running')
      BY <1>0, <1>4
    <3>2. trace'.entered = Entered(running', i, tr.entered)
      BY <2>1 DEF Entered
    <3> QED BY <3>1, <3>2, EnterMiddleware
  <2>3. ChainInv'
    BY <1>1, <1>2, <2>1, <2>2 DEF ChainInv
  <2>4. ResultsOf(trace', jobs', frames') = ResultsOf(tr, jobs, frames')
    BY <1>1, <2>1 DEF ResultsOf
  <2>5. AccountInv'
    <3>1. depth' \in DOMAIN running' /\ calls'[depth'] = 0
      BY <1>0, <1>4, <2>1
    <3>2. \A k \in DOMAIN running' : k < depth' => calls'[k] > 0
      BY <2>1
    <3>3. Results' \in Nat /\ (Results' > 0 => trace'.repeated)
      BY <1>2, <1>a, <2>4
    <3> QED BY <2>1, <3>1, <3>2, <3>3 DEF AccountInv
  <2>6. JobsRunTheirHandler'
    BY <2>1 DEF JobsRunTheirHandler
  <2> QED BY <1>3, <2>3, <2>5, <2>6 DEF MessageInv
<1>5. CASE i > Len(running')
  <2>1. /\ i = Len(running') + 1 /\ Len(tr.entered) = Len(running')
        /\ \A k \in DOMAIN running' : calls'[k] > 0
    BY <1>0, <1>5
  <2>2. trace'.entered = tr.entered /\ (DispatchRefused(tr) \/ DispatchAccepted(tr) \/ DispatchRaises(tr))
    BY <1>0, <1>5, EnterSplit
  <2>3. ChainInv'
    BY <1>1, <1>2, <2>1, <2>2 DEF ChainInv
  <2>4. CASE DispatchRefused(tr)
    <3>1. /\ jobs' = jobs /\ stage' = "chain" /\ depth' = Len(running') + 1
          /\ trace' = [tr EXCEPT !.answers = @ + 1]
      BY <2>4 DEF DispatchRefused
    <3>2. trace'.answers = tr.answers + 1 /\ tr.answers \in Nat
      BY <3>1 DEF Trace
    <3>3. ResultsOf(trace', jobs', frames') = ResultsOf(tr, jobs, frames') + 1
      <4>1. Cardinality(JobsOf(jobs, frames')) \in Nat
        BY JobsCounted
      <4> QED BY <1>1, <3>1, <3>2, <4>1 DEF ResultsOf
    <3>4. AccountInv'
      <4>1. Results' \in Nat /\ Results' > 0 /\ (Results' > 1 => trace'.repeated)
        BY <1>2, <1>a, <3>3
      <4> QED BY <2>1, <3>1, <4>1 DEF AccountInv
    <3>5. JobsRunTheirHandler'
      BY <3>1 DEF JobsRunTheirHandler
    <3> QED BY <1>3, <2>3, <3>4, <3>5 DEF MessageInv
  <2>5. CASE DispatchAccepted(tr)
    <3> DEFINE j == [frame |-> frames', event |-> frame'.event,
                     def |-> registry[frame'.event], state |-> "waiting"]
    <3>1. jobs' = Append(jobs, j) /\ trace' = tr /\ frame'.event \in DOMAIN registry
      BY <2>5 DEF DispatchAccepted, Refused
    <3>2. /\ frame'.event \in DOMAIN registry \ Reserved
          /\ j \in Job(frames') /\ j.frame = frames'
          /\ j.event = frame'.event /\ j.def = registry[frame'.event]
      BY <3>1 DEF PipelineTypeInv, TypeOK, IsDict, Job
    <3> HIDE DEF j
    <3>3. ResultsOf(trace', jobs', frames') = ResultsOf(tr, jobs, frames') + 1
      <4>1. /\ Cardinality(JobsOf(jobs, frames')) \in Nat
            /\ Cardinality(JobsOf(jobs', frames')) = Cardinality(JobsOf(jobs, frames')) + 1
        BY <3>1, <3>2, JobsCounted
      <4>2. tr.answers \in Nat /\ (IF tr.pong THEN 1 ELSE 0) \in {0, 1}
        BY DEF Trace
      <4>3. ResultsOf(trace', jobs', frames')
            = tr.answers + Cardinality(JobsOf(jobs', frames')) + (IF tr.pong THEN 1 ELSE 0)
        BY <3>1 DEF ResultsOf
      <4>4. ResultsOf(tr, jobs, frames')
            = tr.answers + Cardinality(JobsOf(jobs, frames')) + (IF tr.pong THEN 1 ELSE 0)
        BY DEF ResultsOf
      <4> DEFINE a == tr.answers
                 c == Cardinality(JobsOf(jobs, frames'))
                 d == Cardinality(JobsOf(jobs', frames'))
                 p == IF tr.pong THEN 1 ELSE 0
      <4>5. /\ a \in Nat /\ c \in Nat /\ p \in Nat /\ d = c + 1
            /\ ResultsOf(trace', jobs', frames') = a + d + p
            /\ ResultsOf(tr, jobs, frames') = a + c + p
        BY <4>1, <4>2, <4>3, <4>4
      <4> HIDE DEF a, c, d, p
      <4> QED BY <4>5
    <3>4. AccountInv'
      <4>1. Results' \in Nat /\ Results' > 0 /\ (Results' > 1 => trace'.repeated)
        BY <1>2, <1>a, <3>3
      <4> QED BY <2>1, <4>1 DEF AccountInv
    <3>5. JobsRunTheirHandler'
      <4>1. ASSUME NEW k \in DOMAIN jobs'
            PROVE  /\ jobs'[k].event \in DOMAIN registry \ Reserved
                   /\ registry[jobs'[k].event] = jobs'[k].def
        <5>1. CASE k \in DOMAIN jobs
          <6>1. jobs'[k] = jobs[k]
            BY <3>1, <3>2, <5>1
          <6> QED BY <5>1, <6>1 DEF JobsRunTheirHandler
        <5>2. CASE k \notin DOMAIN jobs
          <6>1. jobs'[k] = j
            BY <3>1, <3>2, <5>2
          <6> QED BY <3>2, <6>1
        <5> QED BY <5>1, <5>2
      <4> QED BY <4>1 DEF JobsRunTheirHandler
    <3> QED BY <1>3, <2>3, <3>4, <3>5 DEF MessageInv
  <2>6. CASE DispatchRaises(tr)
    <3>1. jobs' = jobs /\ trace' = tr /\ frame'.event = NoName
      BY <2>6 DEF DispatchRaises
    <3>2. AccountInv'
      <4>1. Results' \in Nat /\ (Results' > 0 => trace'.repeated) /\ Excused'
        BY <1>1, <1>2, <3>1 DEF Excused, Unanswered
      <4> QED BY <2>1, <4>1 DEF AccountInv
    <3>3. JobsRunTheirHandler'
      BY <3>1 DEF JobsRunTheirHandler
    <3> QED BY <1>3, <2>3, <3>2, <3>3 DEF MessageInv
  <2> QED BY <2>2, <2>4, <2>5, <2>6
<1> QED BY <1>0, <1>4, <1>5

\* What registers, connects or runs a handler leaves the message alone: the list
\* of the middlewares and the registry only grow.
LEMMA MessageUnchanged ==
    ASSUME PipelineTypeInv, MessageInv,
           stage' = stage, frames' = frames, frame' = frame, running' = running,
           depth' = depth, calls' = calls, trace' = trace,
           DOMAIN jobs' = DOMAIN jobs,
           \A j \in DOMAIN jobs : /\ jobs'[j].frame = jobs[j].frame
                                  /\ jobs'[j].event = jobs[j].event
                                  /\ jobs'[j].def = jobs[j].def,
           middlewares' \in Seq(Middleware),
           StartsWith(middlewares', middlewares), StartsWith(middlewares', chain'),
           \A e \in DOMAIN registry : e \in DOMAIN registry' /\ registry'[e] = registry[e]
    PROVE  MessageInv'
<1>1. JobsOfFrame' = JobsOfFrame
  BY DEF JobsOfFrame
<1>2. ChecksInv'
  BY <1>1 DEF MessageInv, ChecksInv
<1>3. ChainInv'
  <2>1. StartsWith(middlewares', running)
    BY TypeFacts, StartsWithFacts DEF MessageInv, ChainInv, PipelineTypeInv, TypeOK
  <2> QED BY <1>1, <2>1 DEF MessageInv, ChainInv
<1>4. AccountInv'
  <2>1. Results' = Results /\ Excused' = Excused
    BY <1>1 DEF Results, Excused, Unanswered
  <2> QED BY <2>1 DEF MessageInv, AccountInv
<1>5. JobsRunTheirHandler'
  BY DEF MessageInv, JobsRunTheirHandler
<1> QED BY <1>2, <1>3, <1>4, <1>5 DEF MessageInv

LEMMA RegistrationKeepsInv ==
    ASSUME PipelineTypeInv, MessageInv, Registration
    PROVE  MessageInv'
<1>0. /\ middlewares \in Seq(Middleware) /\ chain \in Seq(Middleware)
      /\ StartsWith(middlewares, chain)
      /\ StartsWith(middlewares, middlewares)
  BY StartsWithFacts DEF PipelineTypeInv, TypeOK, MessageInv, ChainInv
<1>1. ASSUME NEW e \in Name, NEW d \in Definition, Register(e, d) PROVE MessageInv'
  <2>1. \A x \in DOMAIN registry : x \in DOMAIN registry' /\ registry'[x] = registry[x]
    BY <1>1 DEF Register, Put
  <2>2. /\ stage' = stage /\ frames' = frames /\ frame' = frame /\ running' = running
        /\ depth' = depth /\ calls' = calls /\ trace' = trace /\ jobs' = jobs
        /\ middlewares' = middlewares /\ chain' = chain
    BY <1>1 DEF Register, frameVars
  <2> QED BY <1>0, <2>1, <2>2, MessageUnchanged
<1>2. ASSUME NEW m \in Middleware, AddMiddleware(m) PROVE MessageInv'
  <2>1. /\ stage' = stage /\ frames' = frames /\ frame' = frame /\ running' = running
        /\ depth' = depth /\ calls' = calls /\ trace' = trace /\ jobs' = jobs
        /\ middlewares' = Append(middlewares, m) /\ chain' = chain /\ registry' = registry
    BY <1>2 DEF AddMiddleware, frameVars
  <2>2. middlewares' \in Seq(Middleware)
    BY <1>0, <2>1
  <2>3. StartsWith(middlewares', middlewares) /\ StartsWith(middlewares', chain)
    BY <1>0, <2>1, StartsWithFacts
  <2> QED BY <2>1, <2>2, <2>3, MessageUnchanged
<1>3. CASE Startup
  <2>1. /\ stage' = stage /\ frames' = frames /\ frame' = frame /\ running' = running
        /\ depth' = depth /\ calls' = calls /\ trace' = trace /\ jobs' = jobs
        /\ middlewares' = middlewares /\ chain' = middlewares /\ registry' = registry
    BY <1>0, <1>3, CompiledInOrder DEF Startup, frameVars
  <2> QED BY <1>0, <2>1, MessageUnchanged
<1> QED BY <1>1, <1>2, <1>3 DEF Registration

LEMMA RestKeepsInv ==
    ASSUME PipelineTypeInv, HandshakeInv, MessageInv,
           \/ UNCHANGED <<regVars, frameVars, jobs, trace>>
           \/ \E j \in DOMAIN jobs : JobStarts(j) \/ JobEnds(j)
    PROVE  MessageInv'
<1>0. /\ middlewares \in Seq(Middleware)
      /\ StartsWith(middlewares, chain)
      /\ StartsWith(middlewares, middlewares)
  BY StartsWithFacts DEF PipelineTypeInv, TypeOK, MessageInv, ChainInv
<1>1. /\ stage' = stage /\ frames' = frames /\ frame' = frame /\ running' = running
      /\ depth' = depth /\ calls' = calls /\ trace' = trace
      /\ middlewares' = middlewares /\ chain' = chain /\ registry' = registry
  BY DEF regVars, frameVars, JobStarts, JobEnds, SetJob
<1>2. /\ DOMAIN jobs' = DOMAIN jobs
      /\ \A j \in DOMAIN jobs : /\ jobs'[j].frame = jobs[j].frame
                                 /\ jobs'[j].event = jobs[j].event
                                 /\ jobs'[j].def = jobs[j].def
  BY JobTyped
<1> QED BY <1>0, <1>1, <1>2, MessageUnchanged

-----------------------------------------------------------------------------
(* The steps of the endpoint.                                              *)
LEMMA ReceiveKeepsInv ==
    ASSUME PipelineTypeInv, HandshakeInv, MessageInv, NEW f \in Frame,
           ReceiveBad(f) \/ ReceiveNested(f) \/ ReceivePong(f) \/ ReceiveLimited(f)
    PROVE  MessageInv'
<1>1. Receive(f)
  BY DEF ReceiveBad, ReceiveNested, ReceivePong, ReceiveLimited
<1>2. /\ frames' = frames + 1 /\ running' = chain /\ frame' = f
      /\ middlewares' = middlewares /\ chain' = chain /\ registry' = registry
      /\ jobs' = jobs
  BY <1>1 DEF Receive, regVars, ReceiveBad, ReceiveNested, ReceivePong, ReceiveLimited, AnswerError
<1>3. /\ stage' # "chain" /\ trace'.entered = <<>> /\ trace'.due = Len(chain)
      /\ trace'.charged => ~f.large /\ f.text = "envelope" /\ f.event # Pong
      /\ \/ trace'.answers = 1 /\ trace'.pong = FALSE
         \/ trace'.answers = 0 /\ trace'.pong = TRUE
         \/ trace'.answers = 0 /\ trace'.pong = FALSE /\ ~f.large /\ f.text = "nested"
      /\ ~trace'.touched
  <2>0. /\ Fresh \in Trace /\ Fresh.charged = FALSE /\ Fresh.touched = FALSE /\ Fresh.answers = 0
        /\ Fresh.pong = FALSE /\ Fresh.entered = <<>> /\ Fresh.due = Len(chain)
    BY <1>1, ReceiveTyped DEF Fresh, NewTrace
  <2>1. CASE ReceiveBad(f)
    <3>1. trace' = [Fresh EXCEPT !.answers = 1] /\ stage' = "emit"
      BY <2>1 DEF ReceiveBad, AnswerError
    <3> QED BY <2>0, <3>1 DEF Trace
  <2>2. CASE ReceivePong(f)
    <3>1. trace' = [Fresh EXCEPT !.pong = TRUE] /\ stage' = "receive"
      BY <2>2 DEF ReceivePong, Return
    <3> QED BY <2>0, <3>1 DEF Trace
  <2>3. CASE ReceiveLimited(f)
    <3>1. /\ trace' = [Fresh EXCEPT !.charged = TRUE, !.answers = 1] /\ stage' = "emit"
          /\ ~f.large /\ f.text = "envelope" /\ f.event # Pong
      BY <2>0, <2>3 DEF ReceiveLimited, Passed, AnswerError
    <3> QED BY <2>0, <3>1 DEF Trace
  <2>4. CASE ReceiveNested(f)
    BY <2>0, <2>4 DEF ReceiveNested, Return
  <2> QED BY <2>1, <2>2, <2>3, <2>4
<1>4. JobsOfFrame' = {}
  <2>1. JobsOf(jobs, frames + 1) = {}
    BY TypeFacts, NoJobsAhead
  <2> QED BY <1>2, <2>1 DEF JobsOfFrame, JobsOf
<1>5. ChecksInv'
  BY <1>2, <1>3, <1>4 DEF ChecksInv
<1>6. ChainInv'
  <2>1. StartsWith(chain, <<>>) /\ StartsWith(middlewares, chain)
    BY StartsWithFacts DEF PipelineTypeInv, TypeOK, MessageInv, ChainInv
  <2> QED BY <1>2, <1>3, <1>4, <2>1 DEF ChainInv
<1>7. AccountInv'
  <2>1. Results' = 1 \/ (Results' = 0 /\ Excused')
    <3>1. Cardinality(JobsOfFrame') = 0
      BY <1>4, FS_EmptySet
    <3>2. Results' = trace'.answers + Cardinality(JobsOfFrame') + (IF trace'.pong THEN 1 ELSE 0)
      BY DEF Results
    <3>3. CASE trace'.answers = 0 /\ trace'.pong = FALSE /\ ~f.large /\ f.text = "nested"
      BY <1>2, <3>1, <3>2, <3>3 DEF Excused, Unanswered
    <3>4. CASE (trace'.answers = 1 /\ trace'.pong = FALSE) \/ (trace'.answers = 0 /\ trace'.pong = TRUE)
      BY <3>1, <3>2, <3>4
    <3> QED BY <1>3, <3>3, <3>4
  <2> QED BY <1>3, <2>1 DEF AccountInv
<1>8. JobsRunTheirHandler'
  BY <1>2 DEF MessageInv, JobsRunTheirHandler
<1> QED BY <1>5, <1>6, <1>7, <1>8 DEF MessageInv

LEMMA ReceiveEventKeepsInv ==
    ASSUME PipelineTypeInv, HandshakeInv, MessageInv, NEW f \in Frame, ReceiveEvent(f)
    PROVE  MessageInv'
<1> DEFINE tr == [Fresh EXCEPT !.charged = TRUE, !.touched = TRUE]
<1>1. Receive(f) /\ Enter(1, tr) /\ ~f.large /\ f.text = "envelope" /\ f.event # Pong
  BY DEF ReceiveEvent, Passed
<1>2. /\ frames' = frames + 1 /\ running' = chain /\ frame' = f
      /\ middlewares' = middlewares /\ chain' = chain /\ registry' = registry
      /\ calls' = [i \in DOMAIN chain |-> 0]
  BY <1>1 DEF Receive, regVars
<1>3. /\ frames' \in Nat \ {0} /\ frame' \in Frame /\ running' \in Seq(Middleware)
      /\ jobs \in Seq(Job(frames')) /\ Fresh \in Trace
  BY <1>1, ReceiveTyped
<1>4. /\ tr \in Trace /\ tr.charged /\ tr.touched /\ tr.answers = 0 /\ ~tr.pong
      /\ tr.entered = <<>> /\ tr.due = Len(chain)
  <2>1. /\ Fresh.answers = 0 /\ Fresh.pong = FALSE /\ Fresh.entered = <<>>
        /\ Fresh.due = Len(chain)
    BY DEF Fresh, NewTrace
  <2> QED BY <1>3, <2>1 DEF Trace
<1> HIDE DEF tr
<1>5. /\ middlewares \in Seq(Middleware)
      /\ StartsWith(middlewares, chain) /\ StartsWith(chain, <<>>)
      /\ JobsRunTheirHandler
  BY StartsWithFacts DEF PipelineTypeInv, TypeOK, MessageInv, ChainInv
<1>6. JobsOf(jobs, frames') = {} /\ ResultsOf(tr, jobs, frames') = 0
  <2>1. JobsOf(jobs, frames') = {}
    BY <1>2, TypeFacts, NoJobsAhead
  <2> QED BY <1>3, <1>4, <2>1, ResultsTyped
<1>7. 1 \in 1..Len(running')+1 /\ 1 <= Len(tr.entered) + 1
  BY <1>3, <1>4
<1>8. \A k \in DOMAIN running' : calls'[k] = 0 /\ ~(k < 1)
  BY <1>2, <1>3
<1>9. /\ registry' = registry /\ middlewares' \in Seq(Middleware)
      /\ StartsWith(middlewares', chain') /\ StartsWith(middlewares', running')
      /\ ~frame'.large /\ frame'.text = "envelope" /\ frame'.event # Pong
      /\ StartsWith(running', tr.entered) /\ tr.due = Len(running')
  BY <1>1, <1>2, <1>4, <1>5
<1>10. /\ JobsOf(jobs, frames') # {} => Len(tr.entered) = Len(running')
       /\ ResultsOf(tr, jobs, frames') > 0 => tr.repeated
       /\ \A k \in DOMAIN running' : calls'[k] \in Nat
       /\ \A k \in DOMAIN running' : k < 1 => calls'[k] > 0
       /\ 1 \in DOMAIN running' => calls'[1] = 0
  BY <1>6, <1>8
<1> QED BY <1>1, <1>3, <1>4, <1>5, <1>7, <1>9, <1>10, EnterKeepsInv

LEMMA CallNextKeepsInv ==
    ASSUME PipelineTypeInv, MessageInv, CallNext
    PROVE  MessageInv'
<1> DEFINE tr == [trace EXCEPT !.repeated = @ \/ calls[depth] > 0]
<1>1. /\ stage = "chain" /\ depth \in DOMAIN running /\ Enter(depth + 1, tr)
      /\ registry' = registry /\ middlewares' = middlewares /\ chain' = chain
      /\ frames' = frames /\ frame' = frame /\ running' = running
      /\ calls' = [i \in DOMAIN running |->
                      IF i = depth THEN calls[i] + 1 ELSE IF i > depth THEN 0 ELSE calls[i]]
  BY DEF CallNext, regVars
<1>2. /\ tr \in Trace /\ tr.charged = trace.charged /\ tr.touched = trace.touched
      /\ tr.answers = trace.answers /\ tr.pong = trace.pong
      /\ tr.entered = trace.entered /\ tr.due = trace.due
      /\ tr.repeated = (trace.repeated \/ calls[depth] > 0)
  BY TypeFacts DEF Trace
<1> HIDE DEF tr
<1>3. /\ frames' \in Nat \ {0} /\ frame' \in Frame /\ running' \in Seq(Middleware)
      /\ jobs \in Seq(Job(frames')) /\ middlewares \in Seq(Middleware)
      /\ depth \in 1..Len(running) /\ Len(running) \in Nat
      /\ DOMAIN running = 1..Len(running)
      /\ \A k \in DOMAIN running : calls[k] \in Nat
  BY <1>1, TypeFacts DEF PipelineTypeInv, TypeOK
<1>4. /\ StartsWith(middlewares, chain)
      /\ StartsWith(middlewares, running) /\ StartsWith(running, tr.entered)
      /\ tr.due = Len(running)
      /\ depth <= Len(tr.entered) \/ Len(tr.entered) = Len(running)
      /\ JobsOfFrame # {} => Len(tr.entered) = Len(running)
      /\ JobsRunTheirHandler
  BY <1>1, <1>2 DEF MessageInv, ChainInv
<1>5. /\ JobsOf(jobs, frames') = JobsOfFrame
      /\ ResultsOf(tr, jobs, frames') = Results
  BY <1>1, <1>2 DEF JobsOf, JobsOfFrame, ResultsOf, Results
<1>6. /\ tr.charged /\ tr.touched
      /\ ~frame.large /\ frame.text = "envelope" /\ frame.event # Pong
  BY <1>1, <1>2 DEF MessageInv, ChecksInv
<1>7. /\ \A k \in DOMAIN running : k < depth => calls[k] > 0
      /\ Results > 0 => tr.repeated
  <2>1. \A k \in DOMAIN running : /\ k < depth => calls[k] > 0
                                  /\ calls[k] = 0 /\ Results > 0 => trace.repeated
    BY <1>1 DEF MessageInv, AccountInv
  <2>2. calls[depth] = 0 \/ calls[depth] > 0
    BY <1>1, <1>3
  <2>3. Results > 0 => trace.repeated \/ calls[depth] > 0
    BY <1>1, <2>1, <2>2
  <2> QED BY <1>2, <2>1, <2>3
<1>8. /\ \A k \in DOMAIN running' : calls'[k] \in Nat
      /\ \A k \in DOMAIN running' : k < depth + 1 => calls'[k] > 0
      /\ depth + 1 \in DOMAIN running' => calls'[depth + 1] = 0
  BY <1>1, <1>3, <1>7
<1>9. /\ depth + 1 \in 1..Len(running')+1
      /\ depth + 1 <= Len(tr.entered) + 1 \/ Len(tr.entered) = Len(running')
  <2>1. Len(tr.entered) \in Nat
    BY <1>2 DEF Trace
  <2> QED BY <1>1, <1>3, <1>4, <2>1
<1> QED BY <1>1, <1>2, <1>3, <1>4, <1>5, <1>6, <1>7, <1>8, <1>9, EnterKeepsInv

LEMMA EndsKeepsInv ==
    ASSUME PipelineTypeInv, MessageInv, MiddlewareEnds \/ Emitted
    PROVE  MessageInv'
<1>1. /\ registry' = registry /\ middlewares' = middlewares /\ chain' = chain
      /\ frames' = frames /\ frame' = frame /\ running' = running
      /\ calls' = calls /\ jobs' = jobs
  BY DEF MiddlewareEnds, Emitted, regVars
<1>2. /\ trace'.charged = trace.charged /\ trace'.touched = trace.touched
      /\ trace'.answers = trace.answers /\ trace'.pong = trace.pong
      /\ trace'.entered = trace.entered /\ trace'.due = trace.due
      /\ trace'.repeated = trace.repeated
      /\ trace.dropped => trace'.dropped
      /\ MiddlewareEnds => trace'.dropped = (trace.dropped \/ calls[depth] = 0)
  BY TypeFacts DEF MiddlewareEnds, Emitted, Trace
<1>3. /\ stage # "receive" /\ (stage' # "receive" => stage' = "chain" /\ stage = "chain")
      /\ stage = "chain" => depth' = depth - 1
  BY TypeFacts DEF MiddlewareEnds, Emitted, Return
<1>4. Len(running) \in Nat /\ DOMAIN running = 1..Len(running) /\ depth \in Nat
      /\ Len(trace.entered) \in Nat /\ frames \in Nat \ {0}
  BY <1>3, TypeFacts DEF PipelineTypeInv, Trace
<1>5. JobsOfFrame' = JobsOfFrame /\ Results' = Results /\ (Excused => Excused')
  BY <1>1, <1>2 DEF JobsOfFrame, Results, Excused, Unanswered
<1>6. ChecksInv'
  BY <1>1, <1>2, <1>3, <1>5 DEF MessageInv, ChecksInv
<1>7. ChainInv'
  BY <1>1, <1>2, <1>3, <1>4, <1>5 DEF MessageInv, ChainInv
<1>8. Results = 0 => Excused'
  <2>1. CASE MiddlewareEnds
    BY <1>2, <1>5, <2>1 DEF MessageInv, AccountInv, MiddlewareEnds, Excused
  <2>2. CASE Emitted
    BY <1>4, <1>5, <2>2 DEF MessageInv, AccountInv, Emitted
  <2> QED BY <2>1, <2>2
<1>9. AccountInv'
  BY <1>1, <1>2, <1>3, <1>4, <1>5, <1>8 DEF MessageInv, AccountInv
<1>10. JobsRunTheirHandler'
  BY <1>1 DEF MessageInv, JobsRunTheirHandler
<1> QED BY <1>6, <1>7, <1>9, <1>10 DEF MessageInv

-----------------------------------------------------------------------------
(* The invariant, and what follows from it.                                *)
LEMMA PipelineInit == Init => PipelineInv
<1> SUFFICES ASSUME Init PROVE PipelineInv
  OBVIOUS
<1>1. HandshakeInv
  BY HandshakeInit DEF Init
<1>2. trace = NewTrace /\ trace \in Trace
  BY DEF Init, NewTrace, Trace
<1>3. PipelineTypeInv
  <2>1. frame \in Frame
    BY DEF Init, Frame, Name, Text
  <2>2. IsDict(registry, Event, Definition)
    BY DEF Init, IsDict
  <2>3. /\ <<>> \in Seq(Middleware) /\ Len(<<>>) = 0 /\ DOMAIN <<>> = {}
        /\ <<>> \in [{} -> 0..MaxNext]
        /\ <<>> \in Seq([frame : 1..frames, event : Event, def : Definition,
                         state : {"waiting", "running", "done"}])
    OBVIOUS
  <2>4. /\ middlewares \in Seq(Middleware) /\ chain \in Seq(Middleware)
        /\ running \in Seq(Middleware) /\ validated \in BOOLEAN
    BY <2>3 DEF Init
  <2>5. calls \in [DOMAIN running -> 0..MaxNext]
    BY <2>3 DEF Init
  <2>6. jobs \in Seq([frame : 1..frames, event : Event, def : Definition,
                     state : {"waiting", "running", "done"}])
    BY <2>3 DEF Init
  <2>7. /\ stage = "receive" /\ frames \in 0..MaxFrames
        /\ depth = 0 /\ depth \in 0..Len(running)+1
    BY <2>3 DEF Init
  <2>8. AdmissionTypeOK
    BY <1>1 DEF HandshakeInv
  <2> QED BY <1>2, <2>1, <2>2, <2>4, <2>5, <2>6, <2>7, <2>8 DEF PipelineTypeInv, TypeOK
<1>4. JobsOfFrame = {} /\ Results = 0
  <2>1. JobsOfFrame = {}
    BY DEF Init, JobsOfFrame
  <2>2. Cardinality({}) = 0
    BY FS_EmptySet
  <2> QED BY <1>2, <2>1, <2>2 DEF Results, NewTrace
<1>5. ChecksInv /\ AccountInv /\ JobsRunTheirHandler
  BY <1>2, <1>4 DEF Init, NewTrace, ChecksInv, AccountInv, JobsRunTheirHandler
<1>6. ChainInv
  BY <1>2, <1>4 DEF Init, NewTrace, ChainInv, StartsWith
<1> QED BY <1>1, <1>3, <1>5, <1>6 DEF PipelineInv, MessageInv

LEMMA PipelineStep == PipelineInv /\ [Next]_vars => PipelineInv'
<1> SUFFICES ASSUME PipelineInv, [Next]_vars PROVE PipelineInv'
  OBVIOUS
<1> USE DEF PipelineInv
<1>1. CASE Registration
  <2>1. UNCHANGED admissionVars
    BY <1>1 DEF Registration, Register, AddMiddleware, Startup
  <2> QED BY <1>1, <2>1, HandshakeUnchanged, RegistrationTyped, RegistrationKeepsInv
<1>2. CASE Connecting
  <2>1. HandshakeInv'
    BY <1>2, HandshakeStep DEF Connecting
  <2>2. PipelineTypeInv'
    BY <1>2, <2>1 DEF Connecting, regVars, frameVars, HandshakeInv, PipelineTypeInv, TypeOK,
       IsDict
  <2>3. MessageInv'
    BY <1>2, RestKeepsInv DEF Connecting
  <2> QED BY <2>1, <2>2, <2>3
<1>3. ASSUME NEW f \in Frame,
             ReceiveBad(f) \/ ReceiveNested(f) \/ ReceivePong(f) \/ ReceiveLimited(f) \/ ReceiveEvent(f)
      PROVE  PipelineInv'
  <2>1. UNCHANGED admissionVars
    BY <1>3 DEF ReceiveBad, ReceiveNested, ReceivePong, ReceiveLimited, ReceiveEvent, Receive
  <2> QED BY <1>3, <2>1, HandshakeUnchanged, ReceiveStepTyped, ReceiveKeepsInv,
             ReceiveEventKeepsInv
<1>4. CASE CallNext
  <2>1. UNCHANGED admissionVars
    BY <1>4 DEF CallNext
  <2> QED BY <1>4, <2>1, HandshakeUnchanged, CallNextTyped, CallNextKeepsInv
<1>5. CASE MiddlewareEnds \/ Emitted
  <2>1. UNCHANGED admissionVars
    BY <1>5 DEF MiddlewareEnds, Emitted
  <2> QED BY <1>5, <2>1, HandshakeUnchanged, EndsTyped, EndsKeepsInv
<1>6. ASSUME NEW j \in DOMAIN jobs, JobStarts(j) \/ JobEnds(j)
      PROVE  PipelineInv'
  <2>1. UNCHANGED admissionVars
    BY <1>6 DEF JobStarts, JobEnds, SetJob
  <2> QED BY <1>6, <2>1, HandshakeUnchanged, JobTyped, RestKeepsInv
<1>7. CASE UNCHANGED vars
  <2>1. PipelineTypeInv'
    BY <1>7, HandshakeUnchanged DEF vars, regVars, frameVars, HandshakeInv, PipelineTypeInv,
       TypeOK, IsDict
  <2>2. HandshakeInv'
    BY <1>7, HandshakeUnchanged DEF vars
  <2>3. MessageInv'
    BY <1>7, RestKeepsInv DEF vars
  <2> QED BY <2>1, <2>2, <2>3
<1> QED BY <1>1, <1>2, <1>3, <1>4, <1>5, <1>6, <1>7 DEF Next

\* The handshake, the registration and the handling of messages keep the
\* inductive invariant: types, who has come in, the order of the checks, the
\* place of a message in its chain and the account of its results.
THEOREM PipelineInvariant == Spec => []PipelineInv
BY PipelineInit, PipelineStep, PTL DEF Spec

\* Types: among others, a handler task is for an application's event and for a
\* message that has been received.
THEOREM PipelineTypesAreOK == Spec => []TypeOK
<1>1. PipelineInv => TypeOK
  BY DEF PipelineInv, PipelineTypeInv
<1> QED BY <1>1, PipelineInvariant, PTL

\* What has been charged was neither a pong nor unreadable, and what a
\* middleware or a handler gets has been charged and counts as activity
\* (handle_event).
THEOREM ChecksAlwaysInOrder == Spec => []ChecksInOrder
<1>1. PipelineInv => ChecksInOrder
  BY DEF PipelineInv, MessageInv, ChecksInv, ChecksInOrder
<1> QED BY <1>1, PipelineInvariant, PTL

\* However often the middlewares call next, and whatever is registered while a
\* message is on its way: the middlewares see it in the order of registration,
\* all of them before a handler is started (compile_chain).
THEOREM MiddlewareAlwaysSeesFirst == Spec => []MiddlewareSeesFirst
<1>1. ASSUME PipelineInv PROVE MiddlewareSeesFirst
  <2>1. /\ middlewares \in Seq(Middleware) /\ running \in Seq(Middleware)
        /\ trace.entered \in Seq(Middleware)
    BY <1>1 DEF PipelineInv, PipelineTypeInv, TypeOK, Trace
  <2>2. StartsWith(middlewares, trace.entered)
    BY <1>1, <2>1, StartsWithFacts DEF PipelineInv, MessageInv, ChainInv
  <2>3. IsPrefix(trace.entered, middlewares)
    <3> DEFINE s == trace.entered
               t == middlewares
    <3>1. s \in Seq(Middleware) /\ t \in Seq(Middleware) /\ StartsWith(t, s)
      BY <2>1, <2>2
    <3> HIDE DEF s, t
    <3>2. Len(s) \in Nat /\ Len(s) <= Len(t) /\ \A i \in 1..Len(s) : s[i] = t[i]
      BY <3>1 DEF StartsWith
    <3>3. SubSeq(s, 1, Len(s)) = SubSeq(t, 1, Len(s))
      BY <3>1, <3>2
    <3>4. IsPrefix(s, t)
      BY <3>2, <3>3 DEF IsPrefix
    <3> QED BY <3>4 DEF s, t
  <2> QED BY <1>1, <2>3 DEF PipelineInv, MessageInv, ChainInv, MiddlewareSeesFirst
<1> QED BY <1>1, PipelineInvariant, PTL

\* A message the adapter is done with has had a result, unless a middleware kept
\* it or an exception of the code itself got through (a text nested too deeply, a
\* name that cannot be looked up: Unanswered), and no second one, unless a
\* middleware called next again (handle_event, dispatch).
THEOREM MessagesAlwaysAccounted == Spec => []MessageAccounted
<1>1. PipelineInv => MessageAccounted
  BY DEF PipelineInv, MessageInv, AccountInv, MessageAccounted, Results, Excused
<1> QED BY <1>1, PipelineInvariant, PTL

\* A handler task runs what is registered for its event, at any later time
\* (EventRegistry.register refuses a name that is taken).
THEOREM JobsAlwaysRunTheirHandler == Spec => []JobsRunTheirHandler
<1>1. PipelineInv => JobsRunTheirHandler
  BY DEF PipelineInv, MessageInv
<1> QED BY <1>1, PipelineInvariant, PTL

\* For any allowed origins, and whatever a client offers: handle_connect lets in
\* and registers those the settings admit, and closes only the others.
THEOREM AdmittedAlwaysByDefinition == Spec => []AdmittedByDefinition
<1>1. ASSUME PipelineInv PROVE AdmittedByDefinition
  <2>1. offer \in Offer
    BY <1>1 DEF PipelineInv, HandshakeInv, AdmissionTypeOK
  <2>2. Admissible(offer) <=> IsAllowed(offer.origin) /\ (Auth => Token(offer) = "good")
    BY <2>1, ChecksDecide
  <2>3. CASE door = "hooks"
    BY <1>1, <2>2, <2>3 DEF PipelineInv, HandshakeInv, AdmittedByDefinition
  <2>4. CASE door \in {"refused", "over"}
    BY <1>1, <2>2, <2>4 DEF PipelineInv, HandshakeInv, Refusal, AdmittedByDefinition
  <2>5. CASE door \notin {"hooks", "refused", "over"}
    BY <1>1, <2>5 DEF PipelineInv, HandshakeInv, AdmittedByDefinition
  <2> QED BY <2>3, <2>4, <2>5
<1> QED BY <1>1, PipelineInvariant, PTL

\* A client that is refused gets one close and never two; the error message
\* comes before it exactly if it was its credentials that were refused.
THEOREM RefusalsAlwaysHeard == Spec => []RefusalHeard
<1>1. ASSUME PipelineInv PROVE RefusalHeard
  <2>1. \/ closes = <<>>
        \/ closes \in {<<"policy">>, <<"forbidden">>} /\ ~told
        \/ closes = <<"auth">> /\ told
    BY <1>1 DEF PipelineInv, HandshakeInv, Refusal
  <2>2. door = "over" /\ ~crashed => closes # <<>>
    BY <1>1 DEF PipelineInv, HandshakeInv, Refusal
  <2>3. /\ Len(<<>>) = 0 /\ Len(<<"policy">>) = 1 /\ Len(<<"forbidden">>) = 1
        /\ Len(<<"auth">>) = 1
    OBVIOUS
  <2>4. <<"policy">> # <<"auth">> /\ <<"forbidden">> # <<"auth">>
    <3>1. <<"policy">>[1] = "policy" /\ <<"forbidden">>[1] = "forbidden" /\ <<"auth">>[1] = "auth"
      OBVIOUS
    <3> QED BY <3>1
  <2>5. Len(closes) <= 1 /\ (closes # <<>> => Len(closes) = 1)
    <3>1. closes \in {<<>>, <<"policy">>, <<"forbidden">>, <<"auth">>}
      BY <2>1
    <3>2. CASE closes = <<>>
      BY <3>2
    <3>3. CASE closes \in {<<"policy">>, <<"forbidden">>, <<"auth">>}
      <4>1. Len(closes) = 1
        BY <2>3, <3>3, Zenon
      <4> QED BY <4>1
    <3> QED BY <3>1, <3>2, <3>3, Zenon
  <2>6. closes # <<>> => (told <=> closes = <<"auth">>)
    BY <2>1, <2>4
  <2> QED BY <2>2, <2>5, <2>6 DEF RefusalHeard
<1> QED BY <1>1, PipelineInvariant, PTL
=============================================================================
