-------------------------------- MODULE List --------------------------------
(***************************************************************************)
(* The intrusive list of list.c at the level of its pointers, with the two   *)
(* loops that take lists apart while they walk along them:                   *)
(* value_replaceAllUses, which detaches what it moves, and hashmap_rehash,  *)
(* which does not, because the old heads are freed afterwards.               *)
(***************************************************************************)
EXTENDS Integers, Sequences, FiniteSets

CONSTANTS Heads,      \* the heads of lists
          Elements,   \* what is put into lists
          NullNode    \* the pointer of an element that was never in one

ASSUME NodesAssumption ==
    /\ Heads \cap Elements = {}
    /\ NullNode \notin Heads \cup Elements

\* There is memory for finitely many.
ASSUME ElementsAssumption == IsFiniteSet(Elements)

VARIABLES links,    \* the fields next and prev of every node
          member,   \* history: the head of the list an element is in
          loop      \* the loop in progress

listVars == <<links, member, loop>>

Nodes == Heads \cup Elements
Loop(kind, from, to, current) == [kind |-> kind, from |-> from, to |-> to, current |-> current]
NoLoop == Loop("none", NullNode, NullNode, NullNode)

-----------------------------------------------------------------------------
\* At the end of the list.
list_add(l, lst, e) ==
    [next |-> [l.next EXCEPT ![e] = lst, ![l.prev[lst]] = e],
     prev |-> [l.prev EXCEPT ![e] = l.prev[lst], ![lst] = e]]

\* Mutant: the node behind keeps its prev.
AddAfterForward(l, b, e) ==
    [next |-> [l.next EXCEPT ![e] = l.next[b], ![b] = e],
     prev |-> [l.prev EXCEPT ![e] = b]]

list_addAfter(l, b, e) ==
    [next |-> [l.next EXCEPT ![e] = l.next[b], ![b] = e],
     prev |-> [l.prev EXCEPT ![e] = b, ![l.next[b]] = e]]

\* The element keeps its own pointers.
list_deattach(l, e) ==
    [next |-> [l.next EXCEPT ![l.prev[e]] = l.next[e]],
     prev |-> [l.prev EXCEPT ![l.next[e]] = l.prev[e]]]

LIST_INIT(l, h) == [next |-> [l.next EXCEPT ![h] = h], prev |-> [l.prev EXCEPT ![h] = h]]

list_empty(l, h) == l.next[h] = h

-----------------------------------------------------------------------------
ListInit ==
    /\ links = [next |-> [x \in Nodes |-> IF x \in Heads THEN x ELSE NullNode],
                prev |-> [x \in Nodes |-> IF x \in Heads THEN x ELSE NullNode]]
    /\ member = [e \in Elements |-> NullNode]
    /\ loop = NoLoop

\* Callers add an element that is in no list, and detach one that is in a list.
Add(h, e) ==
    /\ loop = NoLoop
    /\ member[e] = NullNode
    /\ links' = list_add(links, h, e)
    /\ member' = [member EXCEPT ![e] = h]
    /\ UNCHANGED loop

\* Behind a head (block_insertTop) or behind an element (inst_insertAfter).
AddAfter(b, e) ==
    /\ loop = NoLoop
    /\ member[e] = NullNode
    /\ b \in Elements => member[b] # NullNode
    /\ links' = list_addAfter(links, b, e)
    /\ member' = [member EXCEPT ![e] = IF b \in Heads THEN b ELSE member[b]]
    /\ UNCHANGED loop

Deattach(e) ==
    /\ loop = NoLoop
    /\ member[e] # NullNode
    /\ links' = list_deattach(links, e)
    /\ member' = [member EXCEPT ![e] = NullNode]
    /\ UNCHANGED loop

\* With both values the same, the loop would never come back to the head.
value_replaceAllUses(from, to) ==
    /\ loop = NoLoop
    /\ from # to
    /\ ~list_empty(links, from)
    /\ loop' = Loop("replace", from, to, links.next[from])
    /\ UNCHANGED <<links, member>>

\* Mutant: the next element is read after the current one was moved.
NextAfterMove(before, after, e) == after.next[e]

\* The next element is read before the current one is moved.
SavedNext(before, after, e) == before.next[e]

ReplaceUse ==
    LET e == loop.current
        moved == list_add(list_deattach(links, e), loop.to, e)
    IN  /\ loop.kind = "replace"
        /\ e # loop.from
        /\ links' = moved
        /\ member' = [member EXCEPT ![e] = loop.to]
        /\ loop' = Loop("replace", loop.from, loop.to, SavedNext(links, moved, e))

EndReplace == loop.kind = "replace" /\ loop.current = loop.from /\ loop' = NoLoop /\ UNCHANGED <<links, member>>

\* hashmap_rehash over one old bucket.
Rehash(from) ==
    /\ loop = NoLoop
    /\ ~list_empty(links, from)
    /\ loop' = Loop("rehash", from, NullNode, links.next[from])
    /\ UNCHANGED <<links, member>>

\* The entry goes into a bucket of the new array.
RehashEntry(to) ==
    LET e == loop.current
        moved == list_add(links, to, e)
    IN  /\ loop.kind = "rehash"
        /\ e # loop.from
        /\ to # loop.from
        /\ links' = moved
        /\ member' = [member EXCEPT ![e] = to]
        /\ loop' = Loop("rehash", loop.from, NullNode, SavedNext(links, moved, e))

\* The old bucket is freed; what the loop had left in it would be in no list.
\* A bucket that takes its place in memory is initialised.
EndRehash ==
    /\ loop.kind = "rehash"
    /\ loop.current = loop.from
    /\ links' = LIST_INIT(links, loop.from)
    /\ member' = [e \in Elements |-> IF member[e] = loop.from THEN NullNode ELSE member[e]]
    /\ loop' = NoLoop

ListNext ==
    \/ \E h \in Heads, e \in Elements : Add(h, e)
    \/ \E b \in Nodes, e \in Elements : AddAfter(b, e)
    \/ \E e \in Elements : Deattach(e)
    \/ \E from, to \in Heads : value_replaceAllUses(from, to)
    \/ \E from \in Heads : Rehash(from) \/ RehashEntry(from)
    \/ ReplaceUse \/ EndReplace \/ EndRehash

ListSpecification == ListInit /\ [][ListNext]_listVars

-----------------------------------------------------------------------------
\* The head of the list that is being taken apart without being repaired.
Broken == IF loop.kind = "rehash" THEN {loop.from} ELSE {}

Live == {x \in Nodes : IF x \in Heads THEN x \notin Broken
                       ELSE member[x] # NullNode /\ member[x] \notin Broken}

\* Every list is a ring: next and prev lead to nodes of a list and are inverse
\* to each other, whatever was added, detached and moved before; no pointer of
\* a list leads to an element that was taken out of it.
RingClosed ==
    \A x \in Live : /\ links.next[x] \in Live /\ links.prev[links.next[x]] = x
                    /\ links.prev[x] \in Live /\ links.next[links.prev[x]] = x

\* The elements from x on, up to head h, by next; at most n of them.
Walk(h, x, n) ==
    LET walk[i \in 0..n] ==
            IF i = 0 THEN <<>>
            ELSE LET done == walk[i - 1]
                     at == IF i = 1 THEN x
                           ELSE IF Len(done) < i - 1 THEN h ELSE links.next[done[i - 1]]
                 IN  IF at = h THEN done ELSE Append(done, at)
    IN  walk[n]

\* A list in the middle of hashmap_rehash begins where the loop is.
Contents ==
    [h \in Heads |-> Walk(h, IF h \in Broken THEN loop.current ELSE links.next[h], Cardinality(Elements))]

AbstractList == INSTANCE ListSpec WITH lists <- Contents

\* The pointers implement lists: what is added, detached or moved changes one
\* place of one list, and the loops move every element, in order, and no other.
IsSequence == AbstractList!Spec
=============================================================================
