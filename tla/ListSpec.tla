------------------------------ MODULE ListSpec ------------------------------
(***************************************************************************)
(* What list.h promises: lists of elements, each in at most one of them.     *)
(***************************************************************************)
EXTENDS Sequences, SequencesExt

CONSTANTS Heads, Elements

VARIABLE lists   \* the elements of each list, in order

In(h) == ToSet(lists[h])
Free(e) == \A h \in Heads : e \notin In(h)

Init == lists = [h \in Heads |-> <<>>]

\* Behind the element at position i, or at the beginning.
Insert(h, i, e) == Free(e) /\ lists' = [lists EXCEPT ![h] = InsertAt(@, i + 1, e)]

Detach(h, i) == lists' = [lists EXCEPT ![h] = RemoveAt(@, i)]

MoveFirst(from, to) ==
    /\ lists[from] # <<>>
    /\ lists' = [lists EXCEPT ![from] = Tail(@), ![to] = Append(@, Head(lists[from]))]

Next ==
    /\ lists' # lists
    /\ \/ \E h \in Heads, e \in Elements : \E i \in 0..Len(lists[h]) : Insert(h, i, e)
       \/ \E h \in Heads : \E i \in DOMAIN lists[h] : Detach(h, i)
       \/ \E from, to \in Heads : from # to /\ MoveFirst(from, to)

Spec == Init /\ [][Next]_lists
=============================================================================
