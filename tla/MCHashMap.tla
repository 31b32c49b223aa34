----------------------------- MODULE MCHashMap -----------------------------
\* Instances of HashMap: keys are integers, hashed as int_hashKey does.
EXTENDS HashMap

\* Two buckets at first: 1, 3 and 5 collide, 1 and 5 still do in four buckets, as 0 and 4 do.
MCKeys == {0, 1, 3, 4, 5}
MCHash == [k \in MCKeys |-> k]
=============================================================================
