----------------------------- MODULE Admission -----------------------------
(***************************************************************************)
(* The handshake of a connection: the adapter's endpoint (or TestClient),  *)
(* SocketApp.handle_connect, the origin check and the authentication       *)
(* backends.  An action runs to the next suspension; a client that has     *)
(* gone away makes sends and closes raise, which ends the endpoint.        *)
(*                                                                         *)
(* What a client offers is what the checks tell apart: its origin and the  *)
(* credentials in its header and in its query string, each good, bad, or   *)
(* odd (the backend raises on it).                                         *)
(***************************************************************************)
EXTENDS Naturals, Sequences

CONSTANTS
    Origin,        \* values of an Origin header
    Allowed,       \* allowed_origins
    Auth           \* is there an authentication backend?

ASSUME AuthAssumption == Auth \in BOOLEAN

Wildcard == "*"
Absent == "absent"
Empty == "empty"
Credential == {"good", "bad", "odd"}

\* "absent" stands for no Origin header at all, not for a value of one.
ASSUME OriginAssumption == Absent \notin Origin \cup Allowed

Offer == [origin : Origin \cup {Absent}, header : Credential \cup {Absent, Empty},
          query : Credential \cup {Absent}]

VARIABLES
    door,          \* where the handshake is
    entry,         \* who runs it: the adapter, or a TestClient
    offer,         \* what the client offers
    state,         \* application_state of the WebSocket
    gone,          \* the client has gone away
    closes,        \* history: the closes sent to the client, by reason
    told,          \* history: AUTH_ERROR has been sent
    crashed        \* history: an exception has ended the endpoint

admissionVars == <<door, entry, offer, state, gone, closes, told, crashed>>

NoOffer == [origin |-> Absent, header |-> Absent, query |-> Absent]

AdmissionInit ==
    /\ door = "new"
    /\ entry = "adapter" /\ offer = NoOffer /\ state = "connecting"
    /\ gone = FALSE /\ closes = <<>> /\ told = FALSE /\ crashed = FALSE

-----------------------------------------------------------------------------
IsAllowed(origin) ==
    \/ Wildcard \in Allowed
    \/ origin # Absent /\ origin \in Allowed

\* Mutant: the query string comes first.
TokenOfQuery(o) == IF o.query = Absent THEN o.header ELSE o.query

\* _extract_token, and the key of APIKeyAuth: an empty header counts as absent,
\* one that only says "Bearer" does not.
Token(o) == IF o.header \in {Absent, Empty} THEN o.query ELSE o.header

Goto(d) == door' = d

Close(reason) ==
    /\ closes' = Append(closes, reason)
    /\ state' = "disconnected"

\* The endpoint checks the origin before it accepts the socket.
UpgradeRefused(o) ==
    /\ door = "new"
    /\ ~IsAllowed(o.origin)
    /\ Close("policy")
    /\ Goto("over")
    /\ entry' = "adapter" /\ offer' = o
    /\ UNCHANGED <<gone, told, crashed>>

UpgradeAccepted(o) ==
    /\ door = "new"
    /\ IsAllowed(o.origin)
    /\ Goto("accept")
    /\ entry' = "adapter" /\ offer' = o
    /\ UNCHANGED <<state, gone, closes, told, crashed>>

\* handle_connect checks it again, for callers that have not.
HandleConnect(o) ==
    IF IsAllowed(o.origin)
    THEN Goto("authenticate") /\ state' = "connected" /\ UNCHANGED closes
    ELSE Goto("refused") /\ Close("forbidden")

Accepted ==
    /\ door = "accept"
    /\ ~gone
    /\ HandleConnect(offer)
    /\ UNCHANGED <<entry, offer, gone, told, crashed>>

\* TestClient.connect calls it with a socket and an origin of its own.
TestConnect(o) ==
    /\ door = "new"
    /\ o.origin # Absent
    /\ HandleConnect(o)
    /\ entry' = "test" /\ offer' = o
    /\ UNCHANGED <<gone, told, crashed>>

\* The connection is built and registered; the connect hooks run.
Authenticated ==
    /\ door = "authenticate"
    /\ Auth => Token(offer) = "good"
    /\ Goto("hooks")
    /\ UNCHANGED <<entry, offer, state, gone, closes, told, crashed>>

AuthFails ==
    /\ door = "authenticate"
    /\ Auth /\ Token(offer) \in {"bad", Absent}
    /\ Goto("answer")
    /\ UNCHANGED <<entry, offer, state, gone, closes, told, crashed>>

\* The AUTH_ERROR envelope is sent, then the socket is closed.
Answered ==
    /\ door = "answer"
    /\ ~gone
    /\ told' = TRUE
    /\ Close("auth")
    /\ Goto("refused")
    /\ UNCHANGED <<entry, offer, gone, crashed>>

\* Mutant: the endpoint closes whatever was done before.
NoneReturnedClosing ==
    /\ door = "refused"
    /\ Goto("over")
    /\ Close("policy")
    /\ UNCHANGED <<entry, offer, gone, told, crashed>>

\* handle_connect returns None: the endpoint closes what is not closed yet,
\* connect() raises a RuntimeError.
NoneReturned ==
    /\ door = "refused"
    /\ Goto("over")
    /\ IF entry = "adapter" /\ state = "connected" THEN Close("policy")
       ELSE UNCHANGED <<closes, state>>
    /\ UNCHANGED <<entry, offer, gone, told, crashed>>

\* The backend, a connect hook, or a send to a client that has gone raises.
Crashes ==
    /\ \/ door = "authenticate" /\ Auth /\ Token(offer) = "odd"
       \/ door = "hooks"
       \/ gone /\ door \in {"accept", "answer", "refused"}
    /\ Goto("over")
    /\ crashed' = TRUE
    /\ UNCHANGED <<entry, offer, state, gone, closes, told>>

ClientLeaves ==
    /\ door \in {"accept", "authenticate", "answer", "refused", "hooks"}
    /\ entry = "adapter" /\ ~gone
    /\ gone' = TRUE
    /\ UNCHANGED <<door, entry, offer, state, closes, told, crashed>>

\* The hooks have returned: the endpoint goes on to receive messages, and what
\* belongs to the handshake is forgotten.
Serve ==
    /\ door = "hooks"
    /\ Goto("serving")
    /\ entry' = "adapter" /\ offer' = NoOffer /\ state' = "connecting"
    /\ gone' = FALSE
    /\ UNCHANGED <<closes, told, crashed>>

Arrive(o) == UpgradeRefused(o) \/ UpgradeAccepted(o) \/ TestConnect(o)

Handshake ==
    Accepted \/ Authenticated \/ AuthFails \/ Answered \/ NoneReturned \/ Crashes
        \/ ClientLeaves \/ Serve

-----------------------------------------------------------------------------
AdmissionTypeOK ==
    /\ door \in {"new", "accept", "authenticate", "answer", "refused", "hooks",
                 "serving", "over"}
    /\ entry \in {"adapter", "test"}
    /\ offer \in Offer
    /\ state \in {"connecting", "connected", "disconnected"}
    /\ gone \in BOOLEAN /\ told \in BOOLEAN /\ crashed \in BOOLEAN
    /\ closes \in Seq({"policy", "forbidden", "auth"})

\* Who may come in: with an origin that is allowed, and a credential that is good
\* among those that are not empty, the header before the query string.
Admissible(o) ==
    LET carried == <<o.header, o.query>>
        given == {i \in 1..2 : carried[i] \notin {Absent, Empty}}
    IN  /\ Allowed \cap {o.origin, Wildcard} # {}
        /\ Auth => \E i \in given : carried[i] = "good" /\ \A j \in given : i <= j

\* Exactly those are registered and served whom the settings admit, and nobody
\* else gets so far as a connect hook; nobody they admit is closed.
AdmittedByDefinition ==
    /\ door = "hooks" => Admissible(offer)
    /\ closes # <<>> => ~Admissible(offer)

\* A client that is refused and still there gets one close, never two, and is
\* told before if it is its credentials that were refused.
RefusalHeard ==
    /\ Len(closes) <= 1
    /\ door = "over" /\ ~gone /\ ~crashed =>
          /\ Len(closes) = 1
          /\ told <=> closes = <<"auth">>
=============================================================================
