------------------------------- MODULE PyDict -------------------------------
(***************************************************************************)
(* The few dict operations the modelled classes use.  A dict is a function *)
(* whose DOMAIN is the set of keys present, so that "the key is absent"    *)
(* and "the key maps to an empty set" stay different, as they are in the   *)
(* code.                                                                   *)
(***************************************************************************)
EXTENDS Functions

EmptyDict == [k \in {} |-> {}]

\* d[k] = v
Put(d, k, v) == [x \in DOMAIN d \cup {k} |-> IF x = k THEN v ELSE d[x]]

\* d.pop(k, None)
Pop(d, k) == Restrict(d, DOMAIN d \ {k})

\* d.get(k, set())
GetSet(d, k) == IF k \in DOMAIN d THEN d[k] ELSE {}

\* The dicts from keys in K to values in V.
IsDict(d, K, V) ==
    /\ d = [k \in DOMAIN d |-> d[k]]
    /\ DOMAIN d \subseteq K
    /\ \A k \in DOMAIN d : d[k] \in V
=============================================================================
