------------------------------- MODULE KeyMap -------------------------------
(***************************************************************************)
(* What a map by key promises: at most one value under each key.  A call   *)
(* changes what is found under its own key, or clears the map.             *)
(***************************************************************************)
CONSTANTS Key, Value

VARIABLE content     \* the values found under each key: none or one

Init == content = [k \in Key |-> {}]

\* The allocation of a new entry may fail; an entry that is there is always replaced.
Add(key, v) == content' = [content EXCEPT ![key] = {v}]

Discard(key) == content' = [content EXCEPT ![key] = {}]

Clear == content' = [k \in Key |-> {}]

Next == \/ Clear
        \/ \E key \in Key, v \in Value : Add(key, v)
        \/ \E key \in Key : Discard(key)

Spec == Init /\ [][Next]_content
=============================================================================
