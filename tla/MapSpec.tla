------------------------------ MODULE MapSpec ------------------------------
(***************************************************************************)
(* What hashmap.h promises: a map from keys to entries.  A key has the       *)
(* entry that was set last, a hash set inserts a key once, and an iteration, *)
(* during which the map is not changed, yields every entry exactly once.     *)
(***************************************************************************)
CONSTANTS Keys, Entries, NULL

VARIABLES map,        \* the entries by key, a function on some of Keys
          result,     \* what the last call returned
          iterating,  \* an iteration is in progress
          visited     \* the keys it has yielded

vars == <<map, result, iterating, visited>>

Without(m, k) == [x \in DOMAIN m \ {k} |-> m[x]]
With(m, k, e) == [x \in DOMAIN m \cup {k} |-> IF x = k THEN e ELSE m[x]]
Lookup(m, k) == IF k \in DOMAIN m THEN m[k] ELSE NULL

Init == map = [k \in {} |-> NULL] /\ result = NULL /\ iterating = FALSE /\ visited = {}

Set(k, e) == /\ ~iterating
             /\ map' = With(map, k, e)
             /\ result' = NULL
             /\ UNCHANGED <<iterating, visited>>

Get(k) == /\ ~iterating
          /\ result' = Lookup(map, k)
          /\ UNCHANGED <<map, iterating, visited>>

Remove(k) == /\ ~iterating
             /\ map' = Without(map, k)
             /\ result' = NULL
             /\ UNCHANGED <<iterating, visited>>

\* hashset_insert*: 1 when the key was not there.
Insert(k, e) == /\ ~iterating
                /\ map' = IF k \in DOMAIN map THEN map ELSE With(map, k, e)
                /\ result' = IF k \in DOMAIN map THEN 0 ELSE 1
                /\ UNCHANGED <<iterating, visited>>

BeginIteration == /\ ~iterating
                  /\ iterating' = TRUE
                  /\ visited' = {}
                  /\ result' = NULL
                  /\ UNCHANGED map

Yield(k) == /\ iterating
            /\ k \in DOMAIN map \ visited
            /\ visited' = visited \cup {k}
            /\ result' = map[k]
            /\ UNCHANGED <<map, iterating>>

EndIteration == /\ iterating
                /\ visited = DOMAIN map
                /\ iterating' = FALSE
                /\ visited' = {}
                /\ result' = NULL
                /\ UNCHANGED map

Next == \/ \E k \in Keys, e \in Entries : Set(k, e) \/ Insert(k, e)
        \/ \E k \in Keys : Get(k) \/ Remove(k) \/ Yield(k)
        \/ BeginIteration \/ EndIteration

Spec == Init /\ [][Next]_vars
=============================================================================
