-------------------------- MODULE ScopedResources --------------------------
(***************************************************************************)
(* What an exit stack promises to the code between its creation and its    *)
(* aclose(): resources are numbered as they are acquired, they stay held   *)
(* until the scope is left, then the latest is always released first, and  *)
(* none is held when the scope has ended.                                  *)
(***************************************************************************)
EXTENDS Naturals

VARIABLES
    held,          \* numbers of the resources held
    scope          \* "inside", "leaving" or "left"

vars == <<held, scope>>

Init == held = {} /\ scope = "inside"

Acquire ==
    /\ scope = "inside"
    /\ \E n \in held' : held' = held \cup {n} /\ \A i \in held : i < n
    /\ UNCHANGED scope

Leave == scope = "inside" /\ scope' = "leaving" /\ UNCHANGED held

Release ==
    /\ scope = "leaving"
    /\ \E n \in held : held' = held \ {n} /\ \A i \in held : i <= n
    /\ UNCHANGED scope

End == scope = "leaving" /\ held = {} /\ scope' = "left" /\ UNCHANGED held

Next == Acquire \/ Leave \/ Release \/ End

Spec == Init /\ [][Next]_vars
=============================================================================
