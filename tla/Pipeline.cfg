CONSTANTS
    Event = {"move"}
    Reserved = {"__pong__", "__refresh_auth__"}
    Pong = "__pong__"
    NoName = "[]"
    Definition = {d1, d2}
    Typed = {d2}
    Middleware = {m1, m2}
    MaxMiddlewares = 2
    MaxFrames = 2
    MaxNext = 2
    Origin = {"home", "foreign"}
    Allowed = {"home"}
    Auth = TRUE
SPECIFICATION Spec
INVARIANTS
    ChecksInOrder
    MiddlewareSeesFirst
    MessageAccounted
    JobsRunTheirHandler
    AdmittedByDefinition
    RefusalHeard
