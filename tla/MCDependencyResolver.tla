------------------------ MODULE MCDependencyResolver ------------------------
EXTENDS DependencyResolver, TLC

CONSTANTS save, db, config, user, cache

\* save(db, user, cache), user(db), cache(user), db(config): db is made three
\* times and user twice.
GraphOfUses ==
    (save :> <<db, user, cache>>) @@ (db :> <<config>>) @@ (user :> <<db>>)
        @@ (cache :> <<user>>) @@ (config :> <<>>)
=============================================================================
