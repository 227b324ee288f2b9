CONSTANTS
    save = save
    db = db
    config = config
    user = user
    cache = cache
    Dependency = {db, config, user, cache}
    Handler = save
    Uses <- GraphOfUses
    Plain = {config}
    Generator = {db, user}
SPECIFICATION Spec
CHECK_DEADLOCK FALSE
INVARIANTS
    ArgumentsMatch
    FailureAnswered
PROPERTIES
    ImplementsScopes
