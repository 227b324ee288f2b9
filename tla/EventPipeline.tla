--------------------------- MODULE EventPipeline ---------------------------
(***************************************************************************)
(* app.py, registry.py, middleware.py and the first half of router.py: how *)
(* handlers and middlewares are registered, compiled at startup, and how a *)
(* message of one connection passes the checks of handle_event and the     *)
(* middleware chain until router.dispatch answers it or starts a handler.  *)
(*                                                                         *)
(* The adapter handles the messages of a connection one after the other;   *)
(* handlers run beside it.  A middleware is user code: it may call next    *)
(* never, once or more often, return, and raise or catch what next raised; *)
(* and it may be registered more than once.                                *)
(***************************************************************************)
EXTENDS Admission, PyDict, Integers, SequencesExt, FiniteSets

CONSTANTS
    Event,         \* event names an application may choose
    Reserved,      \* RESERVED_EVENTS
    Pong,          \* "__pong__"
    NoName,        \* an "event" that is a JSON array or object
    Definition,    \* EventDefinitions
    Typed,         \* those with a payload model
    Middleware,    \* middleware functions
    MaxMiddlewares, \* bound on the registrations of middlewares
    MaxFrames,     \* bound on the messages received
    MaxNext        \* bound on the calls of next by one middleware

ASSUME NamesAssumption ==
    /\ Pong \in Reserved
    /\ Event \cap Reserved = {}
    /\ NoName \notin Event \cup Reserved
ASSUME TypedAssumption == Typed \subseteq Definition
ASSUME BoundAssumption == MaxMiddlewares \in Nat /\ MaxFrames \in Nat /\ MaxNext \in Nat

VARIABLES
    registry,      \* EventRegistry._events, of one namespace
    middlewares,   \* SocketApp._middlewares
    chain,         \* what _compiled_chain wraps around router.dispatch
    validated,     \* EventRegistry._validated
    stage,         \* the endpoint: receiving, awaiting an emit, or in the chain
    frames,        \* messages received so far
    frame,         \* the message being handled, or handled last
    running,       \* the chain it runs through: a closure, not the attribute
    depth,         \* the middleware it is in, or Len(running)+1 in dispatch
    calls,         \* calls[i]: how often the i-th middleware has called next
    jobs,          \* the handler tasks started so far
    trace          \* history of the message being handled

regVars == <<registry, middlewares, chain, validated>>
frameVars == <<stage, frames, frame, running, depth, calls>>
vars == <<admissionVars, regVars, frameVars, jobs, trace>>

Name == Event \cup Reserved

\* What json.loads and the checks after it make of a message: an envelope; a
\* ValueError, KeyError or TypeError; or, of arrays nested too deeply for the
\* parser, which a few kilobytes can hold, a RecursionError.
Text == {"envelope", "malformed", "nested"}

Frame == [large : BOOLEAN, text : Text, event : Name \cup {NoName}, invalid : BOOLEAN]

\* The history of a message; entered are the layers of the chain it has been in,
\* in the order in which it first came to each.
NewTrace == [charged |-> FALSE, touched |-> FALSE, pong |-> FALSE, answers |-> 0,
             entered |-> <<>>, dropped |-> FALSE, repeated |-> FALSE, due |-> 0]

Init ==
    /\ AdmissionInit
    /\ registry = [e \in {} |-> e]
    /\ middlewares = <<>>
    /\ chain = <<>>
    /\ validated = FALSE
    /\ stage = "receive"
    /\ frames = 0
    /\ frame = [large |-> FALSE, text |-> "envelope", event |-> Pong, invalid |-> FALSE]
    /\ running = <<>>
    /\ depth = 0
    /\ calls = <<>>
    /\ jobs = <<>>
    /\ trace = NewTrace

-----------------------------------------------------------------------------
(* Registration, at any time: nothing looks at _validated.                 *)
\* Mutant: a second definition replaces the first.
RegisterAgain(e, d) ==
    /\ e \notin Reserved
    /\ registry' = Put(registry, e, d)
    /\ UNCHANGED <<admissionVars, middlewares, chain, validated, frameVars, jobs, trace>>

\* Reserved names and names already taken raise.
Register(e, d) ==
    /\ e \notin Reserved
    /\ e \notin DOMAIN registry
    /\ registry' = Put(registry, e, d)
    /\ UNCHANGED <<admissionVars, middlewares, chain, validated, frameVars, jobs, trace>>

\* The same function may be registered again; it is then called twice.
AddMiddleware(m) ==
    /\ Len(middlewares) < MaxMiddlewares
    /\ middlewares' = Append(middlewares, m)
    /\ UNCHANGED <<admissionVars, registry, chain, validated, frameVars, jobs, trace>>

\* The layers of a callable around which the middlewares ws have been wrapped, one
\* after the other: what was put around it last is entered first.
Layers(ws) == Reverse(ws)

\* Mutant: the loop goes through the list as it is.
CompileInOrder(ms) == Layers(ms)

\* The loop goes through the list from its end.
Compile(ms) == Layers(Reverse(ms))

\* _startup_validate: by the lifespan of the server, or by each TestClient.
Startup ==
    /\ validated' = TRUE
    /\ chain' = Compile(middlewares)
    /\ UNCHANGED <<admissionVars, registry, middlewares, frameVars, jobs, trace>>

-----------------------------------------------------------------------------
(* The chain.                                                              *)
Return(d) ==
    /\ depth' = d
    /\ stage' = IF d = 0 THEN "receive" ELSE "chain"

\* Unknown events, and payloads their model rejects.
Refused ==
    /\ frame'.event # NoName
    /\ frame'.event \in DOMAIN registry =>
          registry[frame'.event] \in Typed /\ frame'.invalid

\* Mutant: a refused message is only logged.
DispatchRefusedSilently(tr) ==
    /\ Refused
    /\ depth' = Len(running') + 1
    /\ stage' = "chain"
    /\ trace' = tr
    /\ UNCHANGED jobs

DispatchRefused(tr) ==
    /\ Refused
    /\ depth' = Len(running') + 1
    /\ stage' = "chain"
    /\ trace' = [tr EXCEPT !.answers = @ + 1]
    /\ UNCHANGED jobs

\* A task for an unordered event; an ordered one is put into a queue.  Either
\* way dispatch does not wait for the handler.
DispatchAccepted(tr) ==
    /\ ~Refused
    /\ frame'.event # NoName
    /\ Return(Len(running'))
    /\ jobs' = Append(jobs, [frame |-> frames', event |-> frame'.event,
                             def |-> registry[frame'.event], state |-> "waiting"])
    /\ trace' = tr

\* handle_event takes whatever JSON holds for the name of the event; the lookup
\* of a value that cannot be hashed raises, and nobody is told.
DispatchRaises(tr) ==
    /\ frame'.event = NoName
    /\ Return(Len(running'))
    /\ trace' = tr
    /\ UNCHANGED jobs

Dispatch(tr) == DispatchRefused(tr) \/ DispatchAccepted(tr) \/ DispatchRaises(tr)

\* The i-th callable of the compiled chain: a wrapped middleware, or dispatch.
Enter(i, tr) ==
    \/ /\ i <= Len(running')
       /\ depth' = i
       /\ stage' = "chain"
       /\ trace' = [tr EXCEPT !.entered =
                        IF i <= Len(@) THEN @ ELSE Append(@, running'[i])]
       /\ UNCHANGED jobs
    \/ i > Len(running') /\ Dispatch(tr)

CallNext ==
    /\ stage = "chain"
    /\ depth \in DOMAIN running
    /\ calls[depth] < MaxNext
    /\ calls' = [i \in DOMAIN running |->
                    IF i = depth THEN calls[i] + 1 ELSE IF i > depth THEN 0 ELSE calls[i]]
    /\ UNCHANGED <<admissionVars, regVars, frames, frame, running>>
    /\ Enter(depth + 1, [trace EXCEPT !.repeated = @ \/ calls[depth] > 0])

\* It returns or raises; the one around it goes on, having caught what was
\* raised or not; the adapter logs what nobody catches.
MiddlewareEnds ==
    /\ stage = "chain"
    /\ depth \in DOMAIN running
    /\ Return(depth - 1)
    /\ trace' = [trace EXCEPT !.dropped = @ \/ calls[depth] = 0]
    /\ UNCHANGED <<admissionVars, regVars, frames, frame, running, calls, jobs>>

-----------------------------------------------------------------------------
(* handle_event, from the receipt of a message to its first suspension.    *)
Receive(f) ==
    /\ door = "serving"
    /\ stage = "receive"
    /\ frames < MaxFrames
    /\ frames' = frames + 1
    /\ frame' = f
    /\ running' = chain
    /\ calls' = [i \in DOMAIN chain |-> 0]
    /\ UNCHANGED <<admissionVars, regVars>>

Fresh == [NewTrace EXCEPT !.due = Len(chain)]

\* __error__ is emitted, and that is all.
AnswerError(tr) ==
    /\ stage' = "emit"
    /\ depth' = 0
    /\ trace' = [tr EXCEPT !.answers = 1]
    /\ UNCHANGED jobs

ReceiveBad(f) ==
    /\ f.large \/ f.text = "malformed"
    /\ Receive(f)
    /\ AnswerError(Fresh)

\* The RecursionError of json.loads is not among those handle_event catches: the
\* adapter logs it and receives on, the client hears nothing.
ReceiveNested(f) ==
    /\ ~f.large /\ f.text = "nested"
    /\ Receive(f)
    /\ Return(0)
    /\ trace' = Fresh
    /\ UNCHANGED jobs

\* A system frame: neither charged, nor activity, nor seen by a middleware.
ReceivePong(f) ==
    /\ ~f.large /\ f.text = "envelope" /\ f.event = Pong
    /\ Receive(f)
    /\ Return(0)
    /\ trace' = [Fresh EXCEPT !.pong = TRUE]
    /\ UNCHANGED jobs

\* Mutant: the limiter is asked first.
PassedForAll(f) == ~f.large /\ f.text = "envelope"

\* The messages the limiter is asked about.
Passed(f) == ~f.large /\ f.text = "envelope" /\ f.event # Pong

ReceiveLimited(f) ==
    /\ Passed(f)
    /\ Receive(f)
    /\ AnswerError([Fresh EXCEPT !.charged = TRUE])

ReceiveEvent(f) ==
    /\ Passed(f)
    /\ Receive(f)
    /\ Enter(1, [Fresh EXCEPT !.charged = TRUE, !.touched = TRUE])

\* The envelope has been sent, by handle_event or by dispatch.
Emitted ==
    /\ \/ stage = "emit" /\ Return(0)
       \/ /\ stage = "chain"
          /\ depth = Len(running) + 1
          /\ Return(Len(running))
    /\ UNCHANGED <<admissionVars, regVars, frames, frame, running, calls, jobs, trace>>

-----------------------------------------------------------------------------
(* Handlers run beside the adapter.                                        *)
SetJob(j, from, to) ==
    /\ jobs[j].state = from
    /\ jobs' = [jobs EXCEPT ![j].state = to]
    /\ UNCHANGED <<admissionVars, regVars, frameVars, trace>>

JobStarts(j) == SetJob(j, "waiting", "running")
JobEnds(j) == SetJob(j, "running", "done")

Registration ==
    \/ \E e \in Name, d \in Definition : Register(e, d)
    \/ \E m \in Middleware : AddMiddleware(m)
    \/ Startup

\* The server lets connections in once it has started up.
Connecting ==
    /\ UNCHANGED <<regVars, frameVars, jobs, trace>>
    /\ validated
    /\ Handshake \/ \E o \in Offer : Arrive(o)

Next ==
    \/ Registration
    \/ Connecting
    \/ \E f \in Frame :
        \/ ReceiveBad(f)
        \/ ReceiveNested(f)
        \/ ReceivePong(f)
        \/ ReceiveLimited(f)
        \/ ReceiveEvent(f)
    \/ CallNext
    \/ MiddlewareEnds
    \/ Emitted
    \/ \E j \in DOMAIN jobs : JobStarts(j) \/ JobEnds(j)

Spec == Init /\ [][Next]_vars

-----------------------------------------------------------------------------
JobsOfFrame == {j \in DOMAIN jobs : jobs[j].frame = frames}

TypeOK ==
    /\ AdmissionTypeOK
    /\ IsDict(registry, Event, Definition)
    /\ middlewares \in Seq(Middleware) /\ chain \in Seq(Middleware)
    /\ running \in Seq(Middleware)
    /\ validated \in BOOLEAN
    /\ stage \in {"receive", "emit", "chain"}
    /\ frames \in 0..MaxFrames /\ frame \in Frame
    /\ depth \in 0..Len(running)+1 /\ (stage # "chain" => depth = 0)
    /\ calls \in [DOMAIN running -> 0..MaxNext]
    /\ jobs \in Seq([frame : 1..frames, event : Event, def : Definition,
                     state : {"waiting", "running", "done"}])

\* The checks come in the order in which handle_event has them, and its comment
\* wants them (app.py 280): a pong and a message that cannot be parsed cost no
\* token, and what reaches a middleware or a handler has been paid for and counts
\* as activity.  src/docs/concepts/architecture.md 102-109 has the pong charged
\* and counted first; that is not what the code does.
ChecksInOrder ==
    /\ trace.charged => ~frame.large /\ frame.text = "envelope" /\ frame.event # Pong
    /\ trace.touched => trace.charged
    /\ trace.entered # <<>> \/ (frames > 0 /\ JobsOfFrame # {}) => trace.touched

\* No handler is started for a message before every layer compiled into the chain
\* has seen it, and the layers are entered in the order of their registration.
MiddlewareSeesFirst ==
    /\ IsPrefix(trace.entered, middlewares)
    /\ frames > 0 /\ JobsOfFrame # {} => Len(trace.entered) = trace.due

\* What the code itself leaves unanswered, because an exception of its own gets
\* through to the adapter: a text nested too deeply, and a name that cannot be
\* looked up, once the limiter has let it pass.  Both ought to be answered by
\* src/docs/concepts/wire-protocol.md 23 and architecture.md 122.
Unanswered ==
    /\ ~frame.large
    /\ \/ frame.text = "nested"
       \/ trace.touched /\ frame.event = NoName

\* A message the adapter is done with has been noticed or answered, or has
\* started a handler: at least once, unless a middleware kept it or it is one of
\* the two above, and at most once unless a middleware called next again.
MessageAccounted ==
    LET results == trace.answers + Cardinality(JobsOfFrame) + (IF trace.pong THEN 1 ELSE 0)
    IN  stage = "receive" /\ frames > 0 =>
            /\ results = 0 => trace.dropped \/ Unanswered
            /\ results > 1 => trace.repeated

\* A handler task runs the handler that is registered for its event, now as
\* when it was started, and never one for a system event.
JobsRunTheirHandler ==
    \A j \in DOMAIN jobs :
        /\ jobs[j].event \in DOMAIN registry \ Reserved
        /\ registry[jobs[j].event] = jobs[j].def
=============================================================================
