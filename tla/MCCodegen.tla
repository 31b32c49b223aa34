----------------------------- MODULE MCCodegen -----------------------------
\* Instances of Codegen.
EXTENDS Codegen, Sequences

\* No lists; lists of up to two variables, repetitions included, and of six, of
\* which the last three repeat the first.
MCNoLists == {}
MCArgLists == UNION {[1..n -> Vars] : n \in 0..2} \cup {l \o l : l \in [1..3 -> Vars]}
=============================================================================
