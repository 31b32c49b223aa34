--------------------------- MODULE LibraryProofs ---------------------------
(***************************************************************************)
(* The libraries under the compiler:                                         *)
(*   the rings of List stay closed, and they implement the lists of ListSpec, *)
(*   for every set of heads and finitely many elements;                      *)
(*   a buffer of capacity n has room for 2 * n bytes, for every initial      *)
(*   size, every argument, every SIZE_MAX and any number of buffers;         *)
(*   the zone allocator keeps its zones, for any size of zones and headers,  *)
(*   any requests and any bounds.                                            *)
(***************************************************************************)
EXTENDS List, Buffer, ZoneAlloc, FiniteSetTheorems, SequenceTheorems, WellFoundedInduction, TLAPS

-----------------------------------------------------------------------------
\* list.c

Owner(x) == IF x \in Heads THEN x ELSE member[x]

\* The types, with NullNode in the pointers of elements that were never added.
ListType ==
    /\ links = [next |-> links.next, prev |-> links.prev]
    /\ links.next \in [Nodes -> Nodes \cup {NullNode}]
    /\ links.prev \in [Nodes -> Nodes \cup {NullNode}]
    /\ member \in [Elements -> Heads \cup {NullNode}]
    /\ loop = [kind |-> loop.kind, from |-> loop.from, to |-> loop.to, current |-> loop.current]
    /\ loop.kind \in {"none", "replace", "rehash"}
    /\ loop.kind = "none" <=> loop = NoLoop

\* next does not leave a list.
SameOwner == \A x \in Live : Owner(links.next[x]) = Owner(x)

\* value_replaceAllUses always takes the first element.
ReplaceInv ==
    loop.kind = "replace" =>
        /\ loop.from \in Heads /\ loop.to \in Heads /\ loop.from # loop.to
        /\ loop.current = links.next[loop.from]

Remaining == {e \in Elements : member[e] = loop.from}

\* What hashmap_rehash has not moved yet leads to more of it, or to the head,
\* by different pointers, none of them to the current element.
RehashInv ==
    loop.kind = "rehash" =>
        /\ loop.from \in Heads
        /\ loop.current \in Remaining \cup {loop.from}
        /\ \A x \in Remaining : /\ links.next[x] \in Remaining \cup {loop.from}
                                /\ links.next[x] # loop.current
        /\ \A x, y \in Remaining : links.next[x] = links.next[y] => x = y

ListInv == ListType /\ RingClosed /\ SameOwner /\ ReplaceInv /\ RehashInv

USE NodesAssumption DEF Loop

\* Empty lists are rings of one node.
LEMMA ListInitInv == ListInit => ListInv
  <1> SUFFICES ASSUME ListInit PROVE ListInv
    OBVIOUS
  <1>1. ListType
    BY DEF ListInit, ListType, NoLoop, Nodes
  <1>2. Broken = {} /\ Live = Heads
    BY DEF ListInit, Live, Broken, NoLoop, Nodes
  <1>3. RingClosed /\ SameOwner
    BY <1>2 DEF ListInit, RingClosed, SameOwner, Owner, Nodes
  <1>4. ReplaceInv /\ RehashInv
    BY DEF ListInit, ReplaceInv, RehashInv, NoLoop
  <1> QED BY <1>1, <1>3, <1>4 DEF ListInv

\* list_add puts an element that is in no list at the end of one.
LEMMA AddKeeps ==
  ASSUME ListInv, NEW h \in Heads, NEW e \in Elements, Add(h, e)
  PROVE  ListInv'
  <1> USE DEF ListInv
  <1>1. loop = NoLoop /\ loop' = loop /\ Broken = {} /\ Broken' = {}
    BY DEF Add, Broken, NoLoop
  <1>2. e \notin Live /\ h \in Live /\ Live' = Live \cup {e}
    BY <1>1 DEF Add, Live, Nodes, ListType
  <1>3. /\ links'.next = [links.next EXCEPT ![e] = h, ![links.prev[h]] = e]
        /\ links'.prev = [links.prev EXCEPT ![e] = links.prev[h], ![h] = e]
    BY DEF Add, list_add
  <1>4. ListType'
    BY <1>1, <1>2, <1>3 DEF ListType, Add, list_add, Nodes, RingClosed, Live
  <1>5. /\ links.prev[h] \in Live /\ links.next[links.prev[h]] = h
        /\ \A x \in Live : x \in Nodes
    BY <1>2 DEF RingClosed, Live
  <1>6. RingClosed'
    BY <1>2, <1>3, <1>4, <1>5 DEF RingClosed, ListType, Nodes
  <1>7. SameOwner'
    BY <1>2, <1>3, <1>5 DEF SameOwner, RingClosed, ListType, Nodes, Owner, Add, Live
  <1>8. ReplaceInv' /\ RehashInv'
    BY <1>1 DEF ReplaceInv, RehashInv, NoLoop
  <1> QED BY <1>4, <1>6, <1>7, <1>8

\* list_addAfter puts one behind a head or behind an element.
LEMMA AddAfterKeeps ==
  ASSUME ListInv, NEW b \in Nodes, NEW e \in Elements, AddAfter(b, e)
  PROVE  ListInv'
  <1> USE DEF ListInv
  <1>1. loop = NoLoop /\ loop' = loop /\ Broken = {} /\ Broken' = {}
    BY DEF AddAfter, Broken, NoLoop
  <1>2. e \notin Live /\ b \in Live /\ Live' = Live \cup {e}
    BY <1>1 DEF AddAfter, Live, Nodes, ListType
  <1>3. /\ links'.next = [links.next EXCEPT ![e] = links.next[b], ![b] = e]
        /\ links'.prev = [links.prev EXCEPT ![e] = b, ![links.next[b]] = e]
    BY DEF AddAfter, list_addAfter
  <1>4. ListType'
    BY <1>1, <1>2, <1>3, ZenonT(40) DEF ListType, AddAfter, list_addAfter, Nodes, RingClosed, Live
  <1>5. /\ links.next[b] \in Live /\ links.prev[links.next[b]] = b
        /\ \A x \in Live : x \in Nodes
    BY <1>2 DEF RingClosed, Live
  <1>6. RingClosed'
    BY <1>2, <1>3, <1>4, <1>5 DEF RingClosed, ListType, Nodes
  <1>7. SameOwner'
    BY <1>2, <1>3, <1>5 DEF SameOwner, RingClosed, ListType, Nodes, Owner, AddAfter, Live
  <1>8. ReplaceInv' /\ RehashInv'
    BY <1>1 DEF ReplaceInv, RehashInv, NoLoop
  <1> QED BY <1>4, <1>6, <1>7, <1>8

\* list_deattach closes the ring behind the element it takes out.
LEMMA DeattachKeeps ==
  ASSUME ListInv, NEW e \in Elements, Deattach(e)
  PROVE  ListInv'
  <1> USE DEF ListInv
  <1>1. loop = NoLoop /\ loop' = loop /\ Broken = {} /\ Broken' = {}
    BY DEF Deattach, Broken, NoLoop
  <1>2. e \in Live /\ Live' = Live \ {e}
    BY <1>1 DEF Deattach, Live, Nodes, ListType
  <1>3. /\ links'.next = [links.next EXCEPT ![links.prev[e]] = links.next[e]]
        /\ links'.prev = [links.prev EXCEPT ![links.next[e]] = links.prev[e]]
    BY DEF Deattach, list_deattach
  <1>4. ListType'
    BY <1>1, <1>2, <1>3 DEF ListType, Deattach, list_deattach, Nodes, RingClosed, Live
  <1>5. \A x \in Live : x \in Nodes
    BY DEF Live
  <1>6. RingClosed'
    BY <1>2, <1>3, <1>4, <1>5 DEF RingClosed, ListType, Nodes
  <1>7. SameOwner'
    BY <1>2, <1>3, <1>5 DEF SameOwner, RingClosed, ListType, Nodes, Owner, Deattach, Live
  <1>8. ReplaceInv' /\ RehashInv'
    BY <1>1 DEF ReplaceInv, RehashInv, NoLoop
  <1> QED BY <1>4, <1>6, <1>7, <1>8

\* value_replaceAllUses begins at the first use.
LEMMA ReplaceBegins ==
  ASSUME ListInv, NEW from \in Heads, NEW to \in Heads, value_replaceAllUses(from, to)
  PROVE  ListInv'
  <1> USE DEF ListInv
  <1>1. Broken = {} /\ Broken' = {} /\ Live' = Live
    BY DEF value_replaceAllUses, Broken, NoLoop, Live
  <1>2. ListType'
    BY DEF ListType, value_replaceAllUses, NoLoop
  <1>3. RingClosed' /\ SameOwner'
    BY <1>1 DEF RingClosed, SameOwner, Owner, value_replaceAllUses
  <1>4. ReplaceInv' /\ RehashInv'
    BY DEF ReplaceInv, RehashInv, value_replaceAllUses
  <1> QED BY <1>2, <1>3, <1>4

\* The first element of a list goes to the end of another one.
LEMMA ReplaceUseKeeps ==
  ASSUME ListInv, ReplaceUse
  PROVE  ListInv'
  <1> USE DEF ListInv
  <1> DEFINE e == loop.current
             from == loop.from
             to == loop.to
             mid == list_deattach(links, e)
             second == links.next[e]
             last == links.prev[to]
  <1>1. /\ from \in Heads /\ to \in Heads /\ from # to
        /\ e = links.next[from] /\ e # from /\ loop.kind = "replace"
    BY DEF ReplaceInv, ReplaceUse
  <1>2. Broken = {} /\ Broken' = {} /\ from \in Live /\ to \in Live
    BY <1>1 DEF Broken, ReplaceUse, Live, Nodes, ListType
  <1>3. /\ e \in Live /\ Owner(e) = from /\ e \in Elements /\ member[e] = from
        /\ links.prev[e] = from
    BY <1>1, <1>2 DEF RingClosed, SameOwner, Owner, Live, Nodes
  <1>4. Live' = Live
    BY <1>1, <1>2, <1>3 DEF Live, ReplaceUse, ListType, Nodes
  <1>5. /\ mid.next = [links.next EXCEPT ![from] = links.next[e]]
        /\ mid.prev = [links.prev EXCEPT ![links.next[e]] = from]
    BY <1>3 DEF list_deattach
  <1>6. \A x \in Live : x \in Nodes
    BY DEF Live
  <1>7. /\ links.next[e] \in Live /\ links.next[e] # e /\ Owner(links.next[e]) = from
        /\ links.next[e] # to
    BY <1>1, <1>3 DEF RingClosed, SameOwner, Owner, Live
  <1>8. /\ mid.prev[to] = links.prev[to] /\ links.prev[to] \in Live
        /\ links.prev[to] # e /\ links.prev[to] # from /\ links.next[links.prev[to]] = to
    BY <1>1, <1>2, <1>3, <1>5, <1>6, <1>7 DEF RingClosed, SameOwner, Owner, ListType, Nodes
  <1>9. /\ links'.next = [mid.next EXCEPT ![e] = to, ![links.prev[to]] = e]
        /\ links'.prev = [mid.prev EXCEPT ![e] = links.prev[to], ![to] = e]
        /\ links' = [next |-> links'.next, prev |-> links'.prev]
    BY <1>8 DEF ReplaceUse, list_add
  <1>10. /\ links'.next = [links.next EXCEPT ![from] = second, ![e] = to, ![last] = e]
         /\ links'.prev = [links.prev EXCEPT ![second] = from, ![e] = last, ![to] = e]
         /\ member' = [member EXCEPT ![e] = to]
         /\ loop' = [kind |-> "replace", from |-> from, to |-> to, current |-> second]
    BY <1>5, <1>9 DEF ReplaceUse, SavedNext
  <1>11. /\ second \in Live /\ second # e /\ Owner(second) = from /\ second # to
         /\ last \in Live /\ last # e /\ last # from /\ links.next[last] = to
         /\ e = links.next[from] /\ second = links.next[e] /\ last = links.prev[to]
    BY <1>1, <1>7, <1>8
  <1>12. /\ links' = [next |-> links'.next, prev |-> links'.prev] /\ loop.kind = "replace"
        /\ from \in Heads /\ to \in Heads /\ from # to /\ e # from
    BY <1>1, <1>9
  <1> HIDE DEF mid, second, last, e, from, to
  <1>13. ListType'
    BY <1>3, <1>6, <1>10, <1>11, <1>12 DEF ListType, Nodes, NoLoop
  <1>14. RingClosed'
    <2>1. ASSUME NEW x \in Live
          PROVE  links'.next[x] \in Live /\ links'.prev[links'.next[x]] = x
      BY <1>2, <1>3, <1>6, <1>10, <1>11, <1>12 DEF RingClosed, ListType, Nodes
    <2>2. ASSUME NEW x \in Live
          PROVE  links'.prev[x] \in Live /\ links'.next[links'.prev[x]] = x
      <3>1. CASE x \in {second, e, to}
        BY <1>2, <1>3, <1>6, <1>10, <1>11, <1>12, <3>1 DEF ListType
      <3>2. CASE x \notin {second, e, to}
        <4>1. links'.prev[x] = links.prev[x] /\ links.prev[x] \in Live /\ links.next[links.prev[x]] = x
          BY <1>6, <1>10, <3>2 DEF RingClosed, ListType
        <4>2. links.prev[x] \notin {from, e, last}
          BY <1>2, <1>3, <1>11, <1>12, <3>2, <4>1
        <4> QED BY <1>6, <1>10, <4>1, <4>2 DEF ListType
      <3> QED BY <3>1, <3>2
    <2> QED BY <1>4, <2>1, <2>2 DEF RingClosed
  <1>15. SameOwner'
    <2>1. \A x : Owner(x)' = IF x = e THEN to ELSE Owner(x)
      BY <1>3, <1>10, <1>12 DEF Owner, ListType
    <2> QED BY <2>1, <1>2, <1>3, <1>4, <1>6, <1>10, <1>11, <1>12
            DEF SameOwner, Owner, RingClosed, ListType, Nodes
  <1>16. ReplaceInv' /\ RehashInv'
    BY <1>2, <1>3, <1>6, <1>10, <1>11, <1>12 DEF ReplaceInv, RehashInv, ListType, Nodes
  <1> QED BY <1>13, <1>14, <1>15, <1>16

\* It ends when nothing is left.
LEMMA EndReplaceKeeps ==
  ASSUME ListInv, EndReplace
  PROVE  ListInv'
  <1> USE DEF ListInv
  <1>1. Broken = {} /\ Broken' = {} /\ Live' = Live
    BY DEF EndReplace, Broken, NoLoop, Live
  <1>2. ListType'
    BY DEF ListType, EndReplace, NoLoop
  <1>3. RingClosed' /\ SameOwner'
    BY <1>1 DEF RingClosed, SameOwner, Owner, EndReplace
  <1>4. ReplaceInv' /\ RehashInv'
    BY DEF ReplaceInv, RehashInv, EndReplace, NoLoop
  <1> QED BY <1>2, <1>3, <1>4

\* hashmap_rehash begins with the whole bucket.
LEMMA RehashBegins ==
  ASSUME ListInv, NEW from \in Heads, Rehash(from)
  PROVE  ListInv'
  <1> USE DEF ListInv
  <1>1. /\ loop.kind = "none" /\ Broken = {} /\ Broken' = {from}
        /\ links' = links /\ member' = member
        /\ loop' = Loop("rehash", from, NullNode, links.next[from])
    BY DEF Rehash, Broken, NoLoop
  <1>2. from \in Live /\ \A x \in Live : x \in Nodes
    BY <1>1 DEF Live, Nodes
  <1>3. Live' = {x \in Live : Owner(x) # from}
    BY <1>1 DEF Live, Owner, Nodes, ListType
  <1>4. Remaining' = {x \in Live : x # from /\ Owner(x) = from}
    BY <1>1, <1>3 DEF Remaining, Live, Owner, Nodes, ListType
  <1>5. ListType'
    BY <1>1 DEF ListType, NoLoop
  <1>6. \A x \in Live : Owner(links.prev[x]) = Owner(x)
    BY DEF RingClosed, SameOwner
  <1>7. RingClosed' /\ SameOwner'
    BY <1>1, <1>3, <1>6 DEF RingClosed, SameOwner, Owner
  <1>8. ReplaceInv'
    BY <1>1 DEF ReplaceInv
  <1>9. RehashInv'
    <2>1. Owner(from) = from
      BY DEF Owner
    <2>2. links.next[from] \in Remaining' \cup {from}
      BY <1>2, <1>4, <2>1 DEF RingClosed, SameOwner
    <2>3. \A x \in Remaining' : /\ links.next[x] \in Remaining' \cup {from}
                                /\ links.next[x] # links.next[from]
      BY <1>2, <1>4, <2>1 DEF RingClosed, SameOwner
    <2>4. \A x, y \in Remaining' : links.next[x] = links.next[y] => x = y
      BY <1>4 DEF RingClosed
    <2> QED BY <1>1, <2>2, <2>3, <2>4 DEF RehashInv
  <1> QED BY <1>5, <1>7, <1>8, <1>9

\* An entry of the old bucket goes to the end of a new one, which is a ring.
LEMMA RehashEntryKeeps ==
  ASSUME ListInv, NEW to \in Heads, RehashEntry(to)
  PROVE  ListInv'
  <1> USE DEF ListInv
  <1> DEFINE e == loop.current
             from == loop.from
  <1>1. /\ loop.kind = "rehash" /\ from \in Heads /\ e \in Remaining /\ to # from
        /\ loop' = Loop("rehash", from, NullNode, links.next[e])
        /\ member' = [member EXCEPT ![e] = to]
    BY DEF RehashEntry, RehashInv, SavedNext
  <1>2. Broken = {from} /\ Broken' = {from}
    BY <1>1 DEF Broken
  <1>3. e \in Elements /\ member[e] = from /\ e \notin Live /\ to \in Live
    BY <1>1, <1>2 DEF Remaining, Live, Nodes
  <1>4. Live' = Live \cup {e} /\ Remaining' = Remaining \ {e}
    BY <1>1, <1>2, <1>3 DEF Live, Remaining, ListType, Nodes
  <1>5. /\ links'.next = [links.next EXCEPT ![e] = to, ![links.prev[to]] = e]
        /\ links'.prev = [links.prev EXCEPT ![e] = links.prev[to], ![to] = e]
        /\ links' = [next |-> links'.next, prev |-> links'.prev]
    BY DEF RehashEntry, list_add
  <1>6. /\ links.prev[to] \in Live /\ links.next[links.prev[to]] = to
        /\ \A x \in Live : x \in Nodes
    BY <1>3 DEF RingClosed, Live
  <1>7. ListType'
    BY <1>1, <1>3, <1>5, <1>6 DEF ListType, NoLoop, Nodes
  <1>8. RingClosed'
    BY <1>3, <1>4, <1>5, <1>6 DEF RingClosed, ListType, Nodes
  <1>9. SameOwner'
    <2>1. \A x : Owner(x)' = IF x = e THEN to ELSE Owner(x)
      BY <1>1, <1>3 DEF Owner, ListType
    <2> QED BY <2>1, <1>3, <1>4, <1>5, <1>6 DEF SameOwner, Owner, RingClosed, ListType, Nodes
  <1>10. ReplaceInv'
    BY <1>1 DEF ReplaceInv
  <1>11. RehashInv'
    <2>1. \A x \in Remaining' : links'.next[x] = links.next[x] /\ x \in Remaining
      <3>1. \A x \in Remaining : x \notin Live /\ x \in Nodes
        BY <1>2 DEF Remaining, Live, Nodes
      <3> QED BY <3>1, <1>4, <1>5, <1>6 DEF ListType
    <2>2. links.next[e] \in Remaining' \cup {from}
      BY <1>1, <1>4 DEF RehashInv
    <2>3. \A x \in Remaining' : /\ links'.next[x] \in Remaining' \cup {from}
                                /\ links'.next[x] # links.next[e]
      BY <2>1, <1>1, <1>4 DEF RehashInv
    <2>4. \A x, y \in Remaining' : links'.next[x] = links'.next[y] => x = y
      BY <2>1, <1>1 DEF RehashInv
    <2> QED BY <1>1, <2>2, <2>3, <2>4 DEF RehashInv
  <1> QED BY <1>7, <1>8, <1>9, <1>10, <1>11

\* The old bucket becomes an empty list.
LEMMA EndRehashKeeps ==
  ASSUME ListInv, EndRehash
  PROVE  ListInv'
  <1> USE DEF ListInv
  <1> DEFINE from == loop.from
  <1>1. /\ loop.kind = "rehash" /\ from \in Heads /\ loop' = NoLoop
        /\ member' = [e \in Elements |-> IF member[e] = from THEN NullNode ELSE member[e]]
    BY DEF EndRehash, RehashInv
  <1>2. Broken = {from} /\ Broken' = {}
    BY <1>1 DEF Broken, NoLoop
  <1>3. from \notin Live /\ Live' = Live \cup {from}
    BY <1>1, <1>2 DEF Live, Nodes, ListType
  <1>4. /\ links'.next = [links.next EXCEPT ![from] = from]
        /\ links'.prev = [links.prev EXCEPT ![from] = from]
        /\ links' = [next |-> links'.next, prev |-> links'.prev]
    BY DEF EndRehash, LIST_INIT
  <1>5. \A x \in Live : x \in Nodes /\ Owner(x)' = Owner(x)
    BY <1>1, <1>2 DEF Live, Owner, Nodes
  <1>6. ListType'
    BY <1>1, <1>4 DEF ListType, NoLoop, Nodes
  <1>7. RingClosed'
    BY <1>1, <1>3, <1>4, <1>5 DEF RingClosed, ListType, Nodes
  <1>8. SameOwner'
    BY <1>1, <1>3, <1>4, <1>5 DEF SameOwner, RingClosed, ListType, Nodes, Owner
  <1>9. ReplaceInv' /\ RehashInv'
    BY <1>1 DEF ReplaceInv, RehashInv, NoLoop
  <1> QED BY <1>6, <1>7, <1>8, <1>9

\* Every operation keeps the invariant.
LEMMA ListNextKeeps == ListInv /\ [ListNext]_listVars => ListInv'
  <1> SUFFICES ASSUME ListInv, [ListNext]_listVars PROVE ListInv'
    OBVIOUS
  <1>1. CASE UNCHANGED listVars
    BY <1>1 DEF listVars, ListInv, ListType, RingClosed, SameOwner, ReplaceInv, RehashInv,
                Live, Broken, Owner, Remaining
  <1>2. CASE ListNext
    BY <1>2, AddKeeps, AddAfterKeeps, DeattachKeeps, ReplaceBegins, ReplaceUseKeeps, EndReplaceKeeps,
       RehashBegins, RehashEntryKeeps, EndRehashKeeps DEF ListNext
  <1> QED BY <1>1, <1>2

\* Every ring is closed in every reachable state, for any heads and elements:
\* list_add, list_addAfter, list_deattach and the loops of value_replaceAllUses
\* and hashmap_rehash leave no pointer of a list to a node outside of it.
THEOREM RingClosedAlways == ListSpecification => []RingClosed
  <1>1. ListInv => RingClosed
    BY DEF ListInv
  <1> QED BY <1>1, ListInitInv, ListNextKeeps, PTL DEF ListSpecification

-----------------------------------------------------------------------------
\* The rings are sequences.

\* s is the list of h: from the first node f along next, and it holds the
\* members of h and nothing else.
IsRing(next, mem, h, f, s) ==
    /\ s \in Seq(Elements)
    /\ f = IF Len(s) = 0 THEN h ELSE s[1]
    /\ \A k \in 1..Len(s) : mem[s[k]] = h /\ next[s[k]] = IF k = Len(s) THEN h ELSE s[k + 1]
    /\ \A i, j \in 1..Len(s) : s[i] = s[j] => i = j
    /\ \A e \in Elements : mem[e] = h => \E k \in 1..Len(s) : s[k] = e

\* The node after the head, or the loop of hashmap_rehash.
First(l, lp, h) == IF lp.kind = "rehash" /\ h = lp.from THEN lp.current ELSE l.next[h]

AreRings(l, mem, lp, S) ==
    /\ S \in [Heads -> Seq(Elements)]
    /\ \A h \in Heads : IsRing(l.next, mem, h, First(l, lp, h), S[h])

\* A list stays as it is when nothing in it changes.
LEMMA RingKept ==
  ASSUME NEW n, NEW m, NEW h, NEW f, NEW s, IsRing(n, m, h, f, s), NEW n2, NEW m2,
         \A e \in Elements : m2[e] = h <=> m[e] = h,
         \A e \in Elements : m[e] = h => n2[e] = n[e]
  PROVE  IsRing(n2, m2, h, f, s)
  <1>1. s \in Seq(Elements) /\ \A k \in 1..Len(s) : s[k] \in Elements
    BY DEF IsRing
  <1> QED BY <1>1 DEF IsRing

InsertsAt(n, m, n2, m2, h, s, i, e) ==
    /\ m[e] # h /\ m2[e] = h /\ \A x \in Elements : x # e => m2[x] = m[x]
    /\ n2[e] = IF i = Len(s) THEN h ELSE s[i + 1]
    /\ i # 0 => n2[s[i]] = e
    /\ \A k \in 1..Len(s) : k # i => n2[s[k]] = n[s[k]]

\* An element comes behind the first i ones.
LEMMA RingInsert ==
  ASSUME NEW n, NEW m, NEW h \in Heads, NEW f, NEW s, IsRing(n, m, h, f, s), NEW n2, NEW m2,
         NEW e \in Elements, NEW i \in 0..Len(s), InsertsAt(n, m, n2, m2, h, s, i, e)
  PROVE  IsRing(n2, m2, h, IF i = 0 THEN e ELSE f, SubSeq(s, 1, i) \o <<e>> \o SubSeq(s, i + 1, Len(s)))
  <1> DEFINE l == Len(s)
             t == SubSeq(s, 1, i) \o <<e>> \o SubSeq(s, i + 1, l)
  <1>i. /\ m[e] # h /\ m2[e] = h /\ \A x \in Elements : x # e => m2[x] = m[x]
        /\ n2[e] = IF i = Len(s) THEN h ELSE s[i + 1]
        /\ i # 0 => n2[s[i]] = e
        /\ \A k \in 1..Len(s) : k # i => n2[s[k]] = n[s[k]]
    BY DEF InsertsAt
  <1> USE <1>i
  <1>1. s \in Seq(Elements) /\ l \in Nat /\ \A k \in 1..l : s[k] \in Elements /\ s[k] # e /\ m[s[k]] = h
    BY DEF IsRing
  <1>2. /\ t \in Seq(Elements) /\ Len(t) = l + 1
        /\ \A k \in 1..i : t[k] = s[k]
        /\ t[i + 1] = e
        /\ \A k \in (i + 2)..(l + 1) : t[k] = s[k - 1]
    <2> DEFINE a == SubSeq(s, 1, i)
               b == SubSeq(s, i + 1, l)
    <2>1. a \in Seq(Elements) /\ Len(a) = i /\ \A k \in 1..i : a[k] = s[k]
      BY <1>1
    <2>2. b \in Seq(Elements) /\ Len(b) = l - i /\ \A k \in 1..(l - i) : b[k] = s[k + i]
      BY <1>1
    <2>3. <<e>> \in Seq(Elements) /\ Len(<<e>>) = 1 /\ <<e>>[1] = e
      OBVIOUS
    <2> HIDE DEF a, b
    <2>4. /\ a \o <<e>> \in Seq(Elements) /\ Len(a \o <<e>>) = i + 1
          /\ \A k \in 1..(i + 1) : (a \o <<e>>)[k] = IF k <= i THEN a[k] ELSE <<e>>[k - i]
      BY <2>1, <2>3, ConcatProperties
    <2>5. (a \o <<e>>)[i + 1] = e /\ \A k \in 1..i : (a \o <<e>>)[k] = s[k]
      BY <1>1, <2>1, <2>3, <2>4
    <2> DEFINE c == a \o <<e>>
    <2>6. c \in Seq(Elements) /\ Len(c) = i + 1
      BY <2>4
    <2>7. c[i + 1] = e /\ \A k \in 1..i : c[k] = s[k]
      BY <2>5
    <2>8. t = c \o b
      BY DEF t, a, b
    <2> HIDE DEF c, t
    <2>9. /\ t \in Seq(Elements) /\ Len(t) = l + 1
          /\ \A k \in 1..((i + 1) + (l - i)) : t[k] = IF k <= i + 1 THEN c[k] ELSE b[k - (i + 1)]
      <3>1. /\ t \in Seq(Elements) /\ Len(t) = Len(c) + Len(b)
            /\ \A k \in 1..(Len(c) + Len(b)) : t[k] = IF k <= Len(c) THEN c[k] ELSE b[k - Len(c)]
        <4>1. /\ c \o b \in Seq(Elements) /\ Len(c \o b) = Len(c) + Len(b)
              /\ \A k \in 1..(Len(c) + Len(b)) : (c \o b)[k] = IF k <= Len(c) THEN c[k] ELSE b[k - Len(c)]
          <5>1. c \in Seq(Elements) /\ b \in Seq(Elements)
            BY <2>2, <2>6
          <5> QED BY <5>1
        <4> QED BY <2>8, <4>1
      <3>2. (i + 1) + (l - i) = l + 1
        BY <1>1
      <3> QED BY <2>2, <2>6, <3>1, <3>2
    <2>10. \A k \in 1..i : t[k] = s[k]
      BY <1>1, <2>7, <2>9
    <2>11. t[i + 1] = e
      BY <1>1, <2>7, <2>9
    <2>12. ASSUME NEW k \in (i + 2)..(l + 1) PROVE t[k] = s[k - 1]
      <3>1. k \in 1..((i + 1) + (l - i)) /\ ~(k <= i + 1) /\ k - (i + 1) \in 1..(l - i) /\ (k - (i + 1)) + i = k - 1
        <4>1. i \in Nat /\ l \in Nat /\ k \in Nat /\ i + 2 <= k /\ k <= l + 1
          BY <1>1
        <4> HIDE DEF l
        <4> QED BY <4>1
      <3> QED BY <2>2, <2>9, <3>1
    <2> QED BY <2>9, <2>10, <2>11, <2>12
  <1> HIDE DEF t
  <1>3. \A k \in 1..(l + 1) : k \in 1..i \/ k = i + 1 \/ (k \in (i + 2)..(l + 1) /\ k - 1 \in (i + 1)..l)
    BY <1>1
  <1>4. \A k \in 1..(l + 1) : t[k] = IF k <= i THEN s[k] ELSE IF k = i + 1 THEN e ELSE s[k - 1]
    BY <1>1, <1>2, <1>3
  <1>5. (IF i = 0 THEN e ELSE f) = t[1]
    BY <1>1, <1>4 DEF IsRing
  <1>6. \A k \in 1..(l + 1) : m2[t[k]] = h
    BY <1>1, <1>3, <1>4
  <1>7. ASSUME NEW k \in 1..(l + 1) PROVE n2[t[k]] = IF k = l + 1 THEN h ELSE t[k + 1]
    <2>1. CASE k < i
      <3>1. k \in 1..l /\ k + 1 \in 1..l /\ k # i /\ k # l /\ k + 1 <= i
        BY <1>1, <2>1
      <3>2. n2[s[k]] = s[k + 1]
        BY <3>1 DEF IsRing
      <3> QED BY <1>1, <1>4, <3>1, <3>2
    <2>2. CASE k = i
      <3>1. t[k] = s[i] /\ t[k + 1] = e /\ k # l + 1
        BY <1>1, <1>2, <2>2
      <3> QED BY <2>2, <3>1
    <2>3. CASE k = i + 1
      <3>1. i = l \/ (i + 2 \in (i + 2)..(l + 1) /\ t[k + 1] = s[i + 1] /\ k # l + 1)
        BY <1>1, <1>4, <2>3
      <3> QED BY <1>1, <1>2, <2>3, <3>1
    <2>4. CASE k > i + 1
      <3>1. k - 1 \in 1..l /\ k - 1 # i /\ t[k] = s[k - 1]
        BY <1>1, <1>4, <2>4
      <3>2. n2[t[k]] = IF k - 1 = l THEN h ELSE s[(k - 1) + 1]
        BY <3>1 DEF IsRing
      <3>3. k # l + 1 => t[k + 1] = s[k]
        <4>1. k # l + 1 => k + 1 \in 1..(l + 1) /\ ~(k + 1 <= i) /\ k + 1 # i + 1 /\ (k + 1) - 1 = k
          BY <1>1, <2>4
        <4> QED BY <1>4, <4>1
      <3> QED BY <1>1, <2>4, <3>2, <3>3
    <2> QED BY <1>1, <2>1, <2>2, <2>3, <2>4
  <1>8. \A j, k \in 1..(l + 1) : t[j] = t[k] => j = k
    <2> SUFFICES ASSUME NEW j \in 1..(l + 1), NEW k \in 1..(l + 1), t[j] = t[k] PROVE j = k
      OBVIOUS
    <2> DEFINE p(x) == IF x <= i THEN x ELSE x - 1
    <2>1. ASSUME NEW x \in 1..(l + 1), x # i + 1 PROVE p(x) \in 1..l /\ t[x] = s[p(x)]
      <3>1. CASE x <= i
        BY <1>1, <1>4, <3>1
      <3>2. CASE ~(x <= i)
        BY <1>1, <1>4, <2>1, <3>2
      <3> QED BY <3>1, <3>2
    <2>2. CASE j = i + 1 \/ k = i + 1
      <3>1. ASSUME NEW x \in 1..(l + 1), x # i + 1 PROVE t[x] # e
        <4>1. p(x) \in 1..l /\ t[x] = s[p(x)]
          BY <2>1, <3>1
        <4> HIDE DEF p
        <4> QED BY <1>1, <4>1
      <3>2. t[i + 1] = e
        BY <1>2
      <3> QED BY <2>2, <3>1, <3>2
    <2>3. CASE j # i + 1 /\ k # i + 1
      <3>1. p(j) = p(k)
        <4>1. p(j) \in 1..l /\ p(k) \in 1..l /\ s[p(j)] = s[p(k)]
          BY <2>1, <2>3
        <4> HIDE DEF p
        <4> QED BY <4>1 DEF IsRing
      <3> QED BY <1>1, <2>3, <3>1
    <2> QED BY <2>2, <2>3
  <1>9. ASSUME NEW x \in Elements, m2[x] = h PROVE \E k \in 1..(l + 1) : t[k] = x
    <2>1. CASE x = e
      BY <1>1, <1>2, <2>1
    <2>2. CASE x # e
      <3>1. PICK k \in 1..l : s[k] = x
        BY <1>9, <2>2 DEF IsRing
      <3>2. CASE k <= i
        BY <1>1, <1>4, <3>1, <3>2
      <3>3. CASE k > i
        <4>1. k + 1 \in 1..(l + 1) /\ ~(k + 1 <= i) /\ k + 1 # i + 1 /\ (k + 1) - 1 = k
          BY <1>1, <3>3
        <4> QED BY <1>4, <3>1, <4>1
      <3> QED BY <1>1, <3>2, <3>3
    <2> QED BY <2>1, <2>2
  <1>10. Len(t) # 0
    BY <1>1, <1>2
  <1>11. l + 1 = Len(t)
    BY <1>2
  <1>12. IsRing(n2, m2, h, IF i = 0 THEN e ELSE f, t)
    BY <1>2, <1>5, <1>6, <1>7, <1>8, <1>9, <1>10, <1>11 DEF IsRing
  <1> QED BY <1>12 DEF t

RemovesAt(n, m, n2, m2, h, s, i) ==
    /\ m2[s[i]] # h /\ \A x \in Elements : x # s[i] => m2[x] = m[x]
    /\ i # 1 => n2[s[i - 1]] = n[s[i]]
    /\ \A k \in 1..Len(s) : k # i /\ k # i - 1 => n2[s[k]] = n[s[k]]

\* The element at position i leaves.
LEMMA RingRemove ==
  ASSUME NEW n, NEW m, NEW h \in Heads, NEW f, NEW s, IsRing(n, m, h, f, s), NEW n2, NEW m2,
         NEW i \in 1..Len(s), RemovesAt(n, m, n2, m2, h, s, i)
  PROVE  IsRing(n2, m2, h, IF i = 1 THEN n[s[i]] ELSE f, SubSeq(s, 1, i - 1) \o SubSeq(s, i + 1, Len(s)))
  <1> DEFINE l == Len(s)
             e == s[i]
             t == SubSeq(s, 1, i - 1) \o SubSeq(s, i + 1, l)
  <1>r. /\ m2[s[i]] # h /\ \A x \in Elements : x # s[i] => m2[x] = m[x]
        /\ i # 1 => n2[s[i - 1]] = n[s[i]]
        /\ \A k \in 1..Len(s) : k # i /\ k # i - 1 => n2[s[k]] = n[s[k]]
    BY DEF RemovesAt
  <1> USE <1>r
  <1>1. /\ s \in Seq(Elements) /\ l \in Nat /\ l > 0 /\ \A k \in 1..l : s[k] \in Elements /\ m[s[k]] = h
        /\ \A k \in 1..l : k # i => s[k] # e
    BY DEF IsRing
  <1>2. /\ t \in Seq(Elements) /\ Len(t) = l - 1
        /\ \A k \in 1..(l - 1) : t[k] = IF k < i THEN s[k] ELSE s[k + 1]
    <2> DEFINE a == SubSeq(s, 1, i - 1)
               b == SubSeq(s, i + 1, l)
    <2>1. a \in Seq(Elements) /\ Len(a) = i - 1 /\ \A k \in 1..(i - 1) : a[k] = s[k]
      BY <1>1
    <2>2. b \in Seq(Elements) /\ Len(b) = l - i /\ \A k \in 1..(l - i) : b[k] = s[k + i]
      BY <1>1
    <2>3. t = a \o b
      BY DEF t, a, b
    <2> HIDE DEF a, b, t
    <2>4. /\ t \in Seq(Elements) /\ Len(t) = l - 1
          /\ \A k \in 1..((i - 1) + (l - i)) : t[k] = IF k <= i - 1 THEN a[k] ELSE b[k - (i - 1)]
      <3>1. a \in Seq(Elements) /\ b \in Seq(Elements)
        BY <2>1, <2>2
      <3>2. /\ a \o b \in Seq(Elements) /\ Len(a \o b) = Len(a) + Len(b)
            /\ \A k \in 1..(Len(a) + Len(b)) : (a \o b)[k] = IF k <= Len(a) THEN a[k] ELSE b[k - Len(a)]
        BY <3>1
      <3>3. (i - 1) + (l - i) = l - 1
        BY <1>1
      <3> QED BY <2>1, <2>2, <2>3, <3>2, <3>3
    <2>5. ASSUME NEW k \in 1..(l - 1) PROVE t[k] = IF k < i THEN s[k] ELSE s[k + 1]
      <3>1. k \in 1..((i - 1) + (l - i)) /\ (k < i <=> k <= i - 1)
        BY <1>1
      <3>2. CASE k < i
        <4>1. k \in 1..(i - 1)
          BY <1>1, <3>2
        <4> QED BY <2>1, <2>4, <3>1, <3>2, <4>1
      <3>3. CASE ~(k < i)
        <4>1. k - (i - 1) \in 1..(l - i) /\ (k - (i - 1)) + i = k + 1
          BY <1>1, <3>3
        <4> QED BY <2>2, <2>4, <3>1, <3>3, <4>1
      <3> QED BY <3>2, <3>3
    <2> QED BY <2>4, <2>5
  <1> HIDE DEF t
  <1>3. (IF i = 1 THEN n[s[i]] ELSE f) = IF Len(t) = 0 THEN h ELSE t[1]
    <2>1. CASE i = 1
      <3>1. n[s[1]] = IF 1 = l THEN h ELSE s[1 + 1]
        BY <2>1 DEF IsRing
      <3>2. l # 1 => 1 \in 1..(l - 1) /\ t[1] = s[1 + 1]
        BY <1>1, <1>2, <2>1
      <3> QED BY <1>1, <1>2, <2>1, <3>1, <3>2
    <2>2. CASE i # 1
      <3>1. 1 \in 1..(l - 1) /\ t[1] = s[1]
        BY <1>1, <1>2, <2>2
      <3> QED BY <1>1, <1>2, <2>2, <3>1 DEF IsRing
    <2> QED BY <2>1, <2>2
  <1>4. \A k \in 1..(l - 1) : m2[t[k]] = h
    <2>1. ASSUME NEW k \in 1..(l - 1) PROVE t[k] \in Elements /\ t[k] # e /\ m[t[k]] = h
      <3>1. CASE k < i
        BY <1>1, <1>2, <3>1
      <3>2. CASE ~(k < i)
        <4>1. k + 1 \in 1..l /\ k + 1 # i /\ t[k] = s[k + 1]
          BY <1>1, <1>2, <3>2
        <4> QED BY <1>1, <4>1
      <3> QED BY <3>1, <3>2
    <2> QED BY <2>1
  <1>5. ASSUME NEW k \in 1..(l - 1) PROVE n2[t[k]] = IF k = l - 1 THEN h ELSE t[k + 1]
    <2>1. CASE k < i - 1
      <3>1. k \in 1..l /\ k # i /\ k # i - 1 /\ k # l /\ k # l - 1 /\ k + 1 \in 1..(l - 1) /\ k + 1 < i /\ k < i
        BY <1>1, <2>1
      <3>2. n2[s[k]] = s[k + 1]
        BY <3>1 DEF IsRing
      <3> QED BY <1>2, <3>1, <3>2
    <2>2. CASE k = i - 1
      <3>1. i # 1 /\ t[k] = s[i - 1] /\ n2[t[k]] = n[s[i]]
        BY <1>1, <1>2, <2>2
      <3>2. n[s[i]] = IF i = l THEN h ELSE s[i + 1]
        BY DEF IsRing
      <3>3. i # l => i \in 1..(l - 1) /\ t[i] = s[i + 1]
        <4>1. i # l => i \in 1..(l - 1) /\ ~(i < i)
          BY <1>1
        <4> QED BY <1>2, <4>1
      <3>4. k + 1 = i /\ (k = l - 1 <=> i = l)
        BY <1>1, <2>2
      <3> QED BY <3>1, <3>2, <3>3, <3>4
    <2>3. CASE k >= i
      <3>1. k + 1 \in 1..l /\ k + 1 # i /\ k + 1 # i - 1 /\ t[k] = s[k + 1] /\ (k + 1 = l <=> k = l - 1)
        <4>1. k + 1 \in 1..l /\ k + 1 # i /\ k + 1 # i - 1 /\ (k + 1 = l <=> k = l - 1) /\ ~(k < i)
          BY <1>1, <2>3
        <4> QED BY <1>2, <4>1
      <3>2. n2[t[k]] = IF k + 1 = l THEN h ELSE s[(k + 1) + 1]
        BY <3>1 DEF IsRing
      <3>3. k # l - 1 => t[k + 1] = s[(k + 1) + 1]
        <4>1. k # l - 1 => k + 1 \in 1..(l - 1) /\ ~(k + 1 < i)
          BY <1>1, <2>3
        <4> QED BY <1>2, <4>1
      <3> QED BY <3>1, <3>2, <3>3
    <2> QED BY <1>1, <2>1, <2>2, <2>3
  <1>6. \A j, k \in 1..(l - 1) : t[j] = t[k] => j = k
    <2> SUFFICES ASSUME NEW j \in 1..(l - 1), NEW k \in 1..(l - 1), t[j] = t[k] PROVE j = k
      OBVIOUS
    <2> DEFINE p(x) == IF x < i THEN x ELSE x + 1
    <2>1. ASSUME NEW x \in 1..(l - 1) PROVE p(x) \in 1..l /\ t[x] = s[p(x)]
      BY <1>1, <1>2, <2>1
    <2>2. p(j) = p(k)
      <3>1. p(j) \in 1..l /\ p(k) \in 1..l /\ s[p(j)] = s[p(k)]
        BY <2>1
      <3> HIDE DEF p
      <3> QED BY <3>1 DEF IsRing
    <2> QED BY <1>1, <2>2
  <1>7. ASSUME NEW x \in Elements, m2[x] = h PROVE \E k \in 1..(l - 1) : t[k] = x
    <2>1. x # e
      BY <1>7
    <2>2. PICK k \in 1..l : s[k] = x
      BY <1>7, <2>1 DEF IsRing
    <2>3. CASE k < i
      BY <1>1, <1>2, <2>2, <2>3
    <2>4. CASE k > i
      <3>1. k - 1 \in 1..(l - 1) /\ ~(k - 1 < i) /\ (k - 1) + 1 = k
        BY <1>1, <2>4
      <3> QED BY <1>2, <2>2, <3>1, ZenonT(40)
    <2> QED BY <1>1, <2>1, <2>2, <2>3, <2>4
  <1>8. l - 1 = Len(t)
    BY <1>2
  <1>9. IsRing(n2, m2, h, IF i = 1 THEN n[s[i]] ELSE f, t)
    BY <1>1, <1>2, <1>3, <1>4, <1>5, <1>6, <1>7, <1>8 DEF IsRing
  <1> QED BY <1>9 DEF t

\* A set of natural numbers has a least element.
LEMMA LeastIn ==
  ASSUME NEW T, T \subseteq Nat, T # {}
  PROVE  \E n \in T : \A m \in T : n <= m
  <1>1. PICK n \in T : \A m \in T : ~(<<m, n>> \in OpToRel(<, Nat))
    BY NatLessThanWellFounded, WFMin
  <1>2. ASSUME NEW m \in T, ~(n <= m) PROVE FALSE
    <2>1. m \in Nat /\ n \in Nat /\ m < n
      BY <1>2
    <2>2. <<m, n>> \in OpToRel(<, Nat)
      BY <2>1 DEF OpToRel
    <2> QED BY <1>1, <2>2
  <1> QED BY <1>2

\* One step of Walk: the elements taken so far, then the next one.
WalkStep(h, x, i, done) ==
    LET at == IF i = 1 THEN x ELSE IF Len(done) < i - 1 THEN h ELSE links.next[done[i - 1]]
    IN  IF at = h THEN done ELSE Append(done, at)

\* The sequences of a ring are what Walk finds.
LEMMA WalkIs ==
  ASSUME NEW mem, NEW h \in Heads, NEW f, NEW s, IsRing(links.next, mem, h, f, s), NEW n \in Nat, Len(s) <= n
  PROVE  Walk(h, f, n) = s
  <1> DEFINE l == Len(s)
             m(i) == IF i <= l THEN i ELSE l
             g == [i \in 0..n |-> SubSeq(s, 1, m(i))]
             walk == CHOOSE w : w = [i \in 0..n |-> IF i = 0 THEN <<>> ELSE WalkStep(h, f, i, w[i - 1])]
  <1>1. s \in Seq(Elements) /\ l \in Nat /\ \A k \in 1..l : s[k] \in Elements /\ s[k] # h
    BY DEF IsRing
  <1>2. ASSUME NEW i \in 0..n PROVE m(i) \in 0..l
    BY <1>1
  <1>3. ASSUME NEW j \in 0..l
        PROVE /\ SubSeq(s, 1, j) \in Seq(Elements) /\ Len(SubSeq(s, 1, j)) = j
              /\ \A k \in 1..j : SubSeq(s, 1, j)[k] = s[k]
    BY <1>1
  <1>4. ASSUME NEW i \in 1..n PROVE SubSeq(s, 1, m(i)) = WalkStep(h, f, i, SubSeq(s, 1, m(i - 1)))
    <2> DEFINE done == SubSeq(s, 1, m(i - 1))
    <2>1. CASE i <= l
      <3>1. m(i) = i /\ m(i - 1) = i - 1 /\ i \in 1..l /\ i - 1 \in 0..l /\ i \in 0..l
        BY <1>1, <2>1
      <3>2. (IF i = 1 THEN f ELSE IF Len(done) < i - 1 THEN h ELSE links.next[done[i - 1]]) = s[i]
        <4>1. CASE i = 1
          BY <1>1, <3>1, <4>1 DEF IsRing
        <4>2. CASE i # 1
          <5>1. i - 1 \in 1..l /\ i - 1 # l /\ (i - 1) + 1 = i /\ i - 1 \in 1..(i - 1)
            BY <1>1, <3>1, <4>2
          <5>2. links.next[s[i - 1]] = s[i]
            BY <5>1 DEF IsRing
          <5>3. Len(done) = i - 1 /\ done[i - 1] = s[i - 1]
            BY <1>3, <3>1, <5>1
          <5>4. ~(Len(done) < i - 1)
            BY <1>1, <3>1, <5>3
          <5> QED BY <4>2, <5>2, <5>3, <5>4
        <4> QED BY <4>1, <4>2
      <3>3. Append(SubSeq(s, 1, i - 1), s[i]) = SubSeq(s, 1, i)
        <4> DEFINE a == SubSeq(s, 1, i - 1)
                   b == SubSeq(s, 1, i)
        <4>1. a \in Seq(Elements) /\ Len(a) = i - 1 /\ \A k \in 1..(i - 1) : a[k] = s[k]
          BY <1>3, <3>1
        <4>2. b \in Seq(Elements) /\ Len(b) = i /\ \A k \in 1..i : b[k] = s[k]
          BY <1>3, <3>1
        <4> HIDE DEF a, b
        <4>3. /\ Append(a, s[i]) \in Seq(Elements) /\ Len(Append(a, s[i])) = i
              /\ \A k \in 1..i : Append(a, s[i])[k] = s[k]
          BY <1>1, <3>1, <4>1
        <4>4. Append(a, s[i]) = b
          BY <4>2, <4>3, SeqEqual
        <4> QED BY <4>4 DEF a, b
      <3> QED BY <1>1, <3>1, <3>2, <3>3 DEF WalkStep
    <2>2. CASE i > l
      <3>1. m(i) = l /\ m(i - 1) = l /\ l \in 0..l /\ (i = 1 => l = 0) /\ (i # l + 1 => l < i - 1) /\ (i = l + 1 => i - 1 = l /\ ~(l < i - 1))
        BY <1>1, <2>2
      <3>2. Len(done) = l /\ \A k \in 1..l : done[k] = s[k]
        BY <1>3, <3>1
      <3>3. (IF i = 1 THEN f ELSE IF Len(done) < i - 1 THEN h ELSE links.next[done[i - 1]]) = h
        <4>1. CASE i = 1
          BY <1>1, <3>1, <4>1 DEF IsRing
        <4>2. CASE i # 1 /\ i = l + 1
          <5>1. l \in 1..l /\ i - 1 = l
            BY <1>1, <4>2
          <5>2. links.next[s[l]] = h
            BY <5>1 DEF IsRing
          <5> QED BY <3>1, <3>2, <4>2, <5>1, <5>2
        <4>3. CASE i # 1 /\ i # l + 1
          BY <3>1, <3>2, <4>3
        <4> QED BY <4>1, <4>2, <4>3
      <3> QED BY <3>1, <3>3 DEF WalkStep
    <2> QED BY <1>1, <2>1, <2>2
  <1>5. SubSeq(s, 1, m(0)) = <<>>
    BY <1>1
  <1> DEFINE S(i) == SubSeq(s, 1, m(i))
  <1>6. g = [i \in 0..n |-> IF i = 0 THEN <<>> ELSE WalkStep(h, f, i, g[i - 1])]
    <2>1. \A i \in 0..n : g[i] = S(i)
      OBVIOUS
    <2>2. \A i \in 0..n : i = 0 \/ (i \in 1..n /\ i - 1 \in 0..n)
      OBVIOUS
    <2>3. S(0) = <<>> /\ \A i \in 1..n : S(i) = WalkStep(h, f, i, S(i - 1))
      BY <1>4, <1>5
    <2>4. g = [i \in 0..n |-> g[i]]
      OBVIOUS
    <2> HIDE DEF g, S
    <2>5. \A i \in 0..n : g[i] = IF i = 0 THEN <<>> ELSE WalkStep(h, f, i, g[i - 1])
      BY <2>1, <2>2, <2>3
    <2> QED BY <2>4, <2>5
  <1>7. walk = [i \in 0..n |-> IF i = 0 THEN <<>> ELSE WalkStep(h, f, i, walk[i - 1])]
    <2> HIDE DEF g
    <2> QED BY <1>6
  <1>8. Walk(h, f, n) = walk[n]
    BY DEF Walk, WalkStep
  <1> HIDE DEF walk
  <1>9. \A k \in 0..n : walk[k] = S(k)
    <2> DEFINE T == {k \in 0..n : walk[k] # S(k)}
    <2>1. SUFFICES ASSUME T # {} PROVE FALSE
      BY DEF T
    <2>2. PICK k \in T : \A y \in T : k <= y
      <3>1. T \subseteq Nat
        OBVIOUS
      <3> HIDE DEF T
      <3> QED BY <2>1, <3>1, LeastIn
    <2>3. walk[0] = S(0)
      BY <1>5, <1>7
    <2>4. k \in 1..n /\ k - 1 \in 0..n /\ ~(k <= k - 1) /\ k \in 0..n /\ k # 0
      BY <2>2, <2>3
    <2>5. walk[k - 1] = S(k - 1)
      BY <2>2, <2>4
    <2> HIDE DEF S
    <2>6. S(k) = WalkStep(h, f, k, S(k - 1))
      BY <1>4, <2>4 DEF S
    <2>7. walk[k] = WalkStep(h, f, k, walk[k - 1])
      BY <1>7, <2>4
    <2> QED BY <2>2, <2>5, <2>6, <2>7
  <1>10. n \in 0..n /\ S(n) = s
    BY <1>1
  <1> QED BY <1>8, <1>9, <1>10

\* A list holds each element once at most, so Walk does not stop too early.
LEMMA RingFits ==
  ASSUME NEW n, NEW m, NEW h, NEW f, NEW s, IsRing(n, m, h, f, s)
  PROVE  Cardinality(Elements) \in Nat /\ Len(s) <= Cardinality(Elements)
  <1> DEFINE l == Len(s)
             g == [k \in 1..l |-> s[k]]
  <1>1. l \in Nat /\ \A k \in 1..l : s[k] \in Elements
    BY DEF IsRing
  <1>2. g \in Injection(1..l, Elements)
    BY <1>1 DEF IsRing, Injection, IsInjective
  <1>3. Cardinality(1..l) = l
    <2>1. l \in Int /\ 1 \in Int /\ l \in Nat
      BY <1>1
    <2> HIDE DEF l
    <2>2. Cardinality(1..l) = IF 1 > l THEN 0 ELSE l - 1 + 1
      BY <2>1, FS_Interval
    <2>3. \A k \in Nat : (IF 1 > k THEN 0 ELSE k - 1 + 1) = k
      OBVIOUS
    <2> QED BY <2>1, <2>2, <2>3
  <1>4. Cardinality(1..l) <= Cardinality(Elements)
    <2> HIDE DEF g, l
    <2> QED BY <1>2, ElementsAssumption, FS_Injection
  <1>5. Cardinality(Elements) \in Nat
    BY ElementsAssumption, FS_CardinalityType
  <1> QED BY <1>3, <1>4, <1>5

\* The lists are what the refinement mapping says.
LEMMA ContentsAre ==
  ASSUME NEW S, NEW mem, AreRings(links, mem, loop, S)
  PROVE  Contents = S
  <1>1. ASSUME NEW h \in Heads
        PROVE  Walk(h, IF h \in Broken THEN loop.current ELSE links.next[h], Cardinality(Elements)) = S[h]
    <2>1. IsRing(links.next, mem, h, First(links, loop, h), S[h])
      BY DEF AreRings
    <2>2. First(links, loop, h) = IF h \in Broken THEN loop.current ELSE links.next[h]
      BY DEF First, Broken
    <2> DEFINE s == S[h]
               f == IF h \in Broken THEN loop.current ELSE links.next[h]
               n == Cardinality(Elements)
    <2>3. IsRing(links.next, mem, h, f, s)
      BY <2>1, <2>2
    <2>4. n \in Nat /\ Len(s) <= n
      BY <2>1, RingFits
    <2> HIDE DEF f, s, n
    <2>5. Walk(h, f, n) = s
      BY <2>3, <2>4, WalkIs
    <2> QED BY <2>5 DEF f, s, n
  <1>2. S = [h \in Heads |-> S[h]]
    BY DEF AreRings
  <1> QED BY <1>1, <1>2 DEF Contents

SameElsewhere(l, m, p, l2, m2, p2, H) ==
    \A g \in Heads \ H : /\ First(l2, p2, g) = First(l, p, g)
                         /\ \A e \in Elements : m2[e] = g <=> m[e] = g
                         /\ \A e \in Elements : m[e] = g => l2.next[e] = l.next[e]

\* Only the list of h changes.
LEMMA OneListChanges ==
  ASSUME NEW l, NEW m, NEW p, NEW C, AreRings(l, m, p, C), NEW l2, NEW m2, NEW p2, NEW h \in Heads, NEW t,
         IsRing(l2.next, m2, h, First(l2, p2, h), t),
         SameElsewhere(l, m, p, l2, m2, p2, {h})
  PROVE  AreRings(l2, m2, p2, [C EXCEPT ![h] = t])
  <1> DEFINE T == [C EXCEPT ![h] = t]
  <1>1. t \in Seq(Elements) /\ C \in [Heads -> Seq(Elements)]
    BY DEF IsRing, AreRings
  <1>2. T \in [Heads -> Seq(Elements)] /\ T[h] = t /\ \A g \in Heads : g # h => T[g] = C[g]
    BY <1>1
  <1> HIDE DEF T
  <1>3. ASSUME NEW g \in Heads, g # h PROVE IsRing(l2.next, m2, g, First(l2, p2, g), T[g])
    <2>1. IsRing(l.next, m, g, First(l, p, g), C[g])
      BY DEF AreRings
    <2> DEFINE n == l.next
               n2 == l2.next
               f == First(l, p, g)
               s == C[g]
    <2>2. IsRing(n, m, g, f, s) /\ (\A e \in Elements : m2[e] = g <=> m[e] = g)
          /\ \A e \in Elements : m[e] = g => n2[e] = n[e]
      BY <1>3, <2>1 DEF SameElsewhere
    <2>3. First(l2, p2, g) = f /\ T[g] = s
      BY <1>2, <1>3 DEF SameElsewhere
    <2> HIDE DEF n, n2, f, s
    <2>4. IsRing(n2, m2, g, f, s)
      BY <2>2, RingKept
    <2> QED BY <2>3, <2>4 DEF n2
  <1>4. AreRings(l2, m2, p2, T)
    BY <1>2, <1>3 DEF AreRings
  <1> QED BY <1>4 DEF T

\* The steps of ListSpec, on the contents of the lists.
Inserted(s, i, e) == SubSeq(s, 1, i) \o <<e>> \o SubSeq(s, i + 1, Len(s))
Removed(s, i) == SubSeq(s, 1, i - 1) \o SubSeq(s, i + 1, Len(s))

Becomes(C, T) ==
    \/ \E h \in Heads, e \in Elements : \E i \in 0..Len(C[h]) :
          /\ \A g \in Heads : \A k \in 1..Len(C[g]) : C[g][k] # e
          /\ T = [C EXCEPT ![h] = Inserted(C[h], i, e)]
    \/ \E h \in Heads : \E i \in 1..Len(C[h]) : T = [C EXCEPT ![h] = Removed(C[h], i)]
    \/ \E from, to \in Heads :
          /\ from # to /\ C[from] # <<>>
          /\ T = [C EXCEPT ![from] = Tail(C[from]), ![to] = Append(C[to], Head(C[from]))]

StepsTo(C, l2, m2, p2) == \E T : AreRings(l2, m2, p2, T) /\ (T = C \/ Becomes(C, T))

\* The pointers at position i of a list.
LEMMA Around ==
  ASSUME ListInv, NEW C, AreRings(links, member, loop, C), NEW h \in Heads, h \notin Broken
  PROVE  LET s == C[h]
         IN  /\ s \in Seq(Elements) /\ Len(s) \in Nat
             /\ links.next[h] = IF Len(s) = 0 THEN h ELSE s[1]
             /\ links.prev[h] = IF Len(s) = 0 THEN h ELSE s[Len(s)]
             /\ \A k \in 1..Len(s) : /\ s[k] \in Elements /\ member[s[k]] = h
                                     /\ links.next[s[k]] = IF k = Len(s) THEN h ELSE s[k + 1]
                                     /\ links.prev[s[k]] = IF k = 1 THEN h ELSE s[k - 1]
  <1> DEFINE s == C[h]
  <1>1. IsRing(links.next, member, h, links.next[h], s)
    BY DEF AreRings, First, Broken
  <1>2. /\ s \in Seq(Elements) /\ Len(s) \in Nat
        /\ links.next[h] = IF Len(s) = 0 THEN h ELSE s[1]
        /\ \A k \in 1..Len(s) : /\ s[k] \in Elements /\ member[s[k]] = h
                                /\ links.next[s[k]] = IF k = Len(s) THEN h ELSE s[k + 1]
    BY <1>1 DEF IsRing
  <1> HIDE DEF s
  <1>3. h \in Live /\ \A k \in 1..Len(s) : s[k] \in Live
    BY <1>2 DEF Live, Nodes
  <1>4. \A x \in Live : links.prev[links.next[x]] = x
    BY DEF ListInv, RingClosed
  <1>5. links.prev[h] = IF Len(s) = 0 THEN h ELSE s[Len(s)]
    <2>1. CASE Len(s) = 0
      BY <1>2, <1>3, <1>4, <2>1
    <2>2. CASE Len(s) # 0
      <3>1. Len(s) \in 1..Len(s)
        BY <1>2, <2>2
      <3>2. links.next[s[Len(s)]] = h /\ s[Len(s)] \in Live
        BY <1>2, <1>3, <3>1
      <3> QED BY <1>4, <2>2, <3>2
    <2> QED BY <2>1, <2>2
  <1>6. ASSUME NEW k \in 1..Len(s) PROVE links.prev[s[k]] = IF k = 1 THEN h ELSE s[k - 1]
    <2>1. CASE k = 1
      BY <1>2, <1>3, <1>4, <2>1
    <2>2. CASE k # 1
      <3>1. k - 1 \in 1..Len(s) /\ k - 1 # Len(s) /\ (k - 1) + 1 = k
        BY <1>2, <2>2
      <3>2. links.next[s[k - 1]] = s[k] /\ s[k - 1] \in Live
        BY <1>2, <1>3, <3>1
      <3> QED BY <1>4, <2>2, <3>2
    <2> QED BY <2>1, <2>2
  <1> QED BY <1>2, <1>5, <1>6 DEF s

\* An element that is in no list is in none of the sequences.
LEMMA NotInAny ==
  ASSUME NEW l, NEW m, NEW p, NEW C, AreRings(l, m, p, C), NEW e, m[e] \notin Heads
  PROVE  \A g \in Heads : \A k \in 1..Len(C[g]) : C[g][k] # e
  BY DEF AreRings, IsRing

\* list_add and list_addAfter insert behind position i.
LEMMA InsertSteps ==
  ASSUME ListInv, NEW C, AreRings(links, member, loop, C), loop = NoLoop,
         NEW l2, NEW m2, NEW h \in Heads, NEW e \in Elements, member[e] = NullNode,
         NEW i \in 0..Len(C[h]), NEW b, b = IF i = 0 THEN h ELSE C[h][i],
         l2.next = [links.next EXCEPT ![e] = IF i = Len(C[h]) THEN h ELSE C[h][i + 1], ![b] = e],
         m2 = [member EXCEPT ![e] = h]
  PROVE  StepsTo(C, l2, m2, loop)
  <1> DEFINE s == C[h]
             t == Inserted(s, i, e)
             n == links.next
             n2 == l2.next
  <1>1. loop.kind = "none" /\ Broken = {}
    BY DEF NoLoop, Broken
  <1>2. /\ s \in Seq(Elements) /\ Len(s) \in Nat
        /\ \A k \in 1..Len(s) : s[k] \in Elements /\ member[s[k]] = h
    BY <1>1, Around
  <1>3. /\ n \in [Nodes -> Nodes \cup {NullNode}] /\ member \in [Elements -> Heads \cup {NullNode}]
        /\ h # NullNode /\ h \in Nodes /\ e \in Nodes /\ e # h
    BY DEF ListInv, ListType, Nodes
  <1>4. b \in Nodes /\ b # e /\ (b \in Elements => member[b] = h) /\ (b \in Heads => b = h /\ i = 0)
    <2>1. CASE i = 0
      BY <1>3, <2>1
    <2>2. CASE i # 0
      <3>1. i \in 1..Len(s)
        BY <1>2, <2>2
      <3> QED BY <1>2, <1>3, <2>2, <3>1 DEF Nodes
    <2> QED BY <2>1, <2>2
  <1>5. /\ n2[e] = IF i = Len(s) THEN h ELSE s[i + 1]
        /\ n2[b] = e
        /\ \A x \in Nodes : x # e /\ x # b => n2[x] = n[x]
    BY <1>3, <1>4
  <1>6. m2[e] = h /\ \A x \in Elements : x # e => m2[x] = member[x]
    BY <1>3
  <1>7. IsRing(n2, m2, h, First(l2, loop, h), t)
    <2> DEFINE f == n[h]
    <2>1. IsRing(n, member, h, f, s)
      BY <1>1 DEF AreRings, First
    <2>2. \A j, k \in 1..Len(s) : s[j] = s[k] => j = k
      BY <2>1 DEF IsRing
    <2>3. i # 0 => n2[s[i]] = e
      BY <1>5
    <2>4. \A k \in 1..Len(s) : k # i => n2[s[k]] = n[s[k]]
      <3> SUFFICES ASSUME NEW k \in 1..Len(s), k # i PROVE n2[s[k]] = n[s[k]]
        OBVIOUS
      <3>1. s[k] \in Elements /\ s[k] # e /\ s[k] # b
        <4>1. s[k] \in Elements /\ s[k] # e
          BY <1>2, <1>3
        <4>2. CASE i = 0
          BY <4>1, <4>2
        <4>3. CASE i # 0
          <5>1. i \in 1..Len(s)
            BY <1>2, <4>3
          <5> QED BY <2>2, <4>1, <4>3, <5>1
        <4> QED BY <4>1, <4>2, <4>3
      <3> QED BY <1>5, <3>1 DEF Nodes
    <2>5. First(l2, loop, h) = IF i = 0 THEN e ELSE f
      <3>1. i # 0 => h # b
        BY <1>4
      <3> QED BY <1>1, <1>3, <1>5, <3>1 DEF First
    <2>6. member[e] # h
      BY <1>3
    <2>8. /\ n2[e] = IF i = Len(s) THEN h ELSE s[i + 1]
          /\ m2[e] = h /\ \A x \in Elements : x # e => m2[x] = member[x]
      BY <1>5, <1>6
    <2> HIDE DEF n, n2, f, s
    <2>7. IsRing(n2, m2, h, IF i = 0 THEN e ELSE f, SubSeq(s, 1, i) \o <<e>> \o SubSeq(s, i + 1, Len(s)))
      <3>1. i \in 0..Len(s)
        BY DEF s
      <3>2. InsertsAt(n, member, n2, m2, h, s, i, e)
        BY <2>8, <2>3, <2>4, <2>6 DEF InsertsAt
      <3> QED BY <2>1, <3>1, <3>2, RingInsert
    <2> QED BY <2>5, <2>7 DEF Inserted
  <1>8. ASSUME NEW g \in Heads, g # h
        PROVE  /\ First(l2, loop, g) = First(links, loop, g)
               /\ \A x \in Elements : m2[x] = g <=> member[x] = g
               /\ \A x \in Elements : member[x] = g => n2[x] = n[x]
    <2>1. g \in Nodes /\ g # e /\ g # b /\ g # NullNode
      BY <1>4, <1>8 DEF Nodes
    <2>2. First(l2, loop, g) = First(links, loop, g)
      BY <1>1, <1>5, <2>1 DEF First
    <2>3. \A x \in Elements : m2[x] = g <=> member[x] = g
      BY <1>6, <1>8, <2>1
    <2>4. \A x \in Elements : member[x] = g => x # e /\ x # b /\ x \in Nodes
      BY <1>4, <1>8, <2>1 DEF Nodes
    <2> QED BY <1>5, <2>2, <2>3, <2>4
  <1> DEFINE T == [C EXCEPT ![h] = t]
  <1>9. AreRings(l2, m2, loop, T)
    <2>1. SameElsewhere(links, member, loop, l2, m2, loop, {h})
      BY <1>8 DEF SameElsewhere
    <2>2. IsRing(l2.next, m2, h, First(l2, loop, h), t)
      BY <1>7
    <2> HIDE DEF t
    <2>3. AreRings(l2, m2, loop, [C EXCEPT ![h] = t])
      BY <2>1, <2>2, OneListChanges
    <2> QED BY <2>3
  <1>10. \A g \in Heads : \A k \in 1..Len(C[g]) : C[g][k] # e
    BY NotInAny
  <1>11. Becomes(C, T)
    <2>1. T = [C EXCEPT ![h] = Inserted(C[h], i, e)] /\ i \in 0..Len(C[h])
      OBVIOUS
    <2> HIDE DEF T
    <2>2. \E h1 \in Heads, e1 \in Elements : \E i1 \in 0..Len(C[h1]) :
             /\ \A g \in Heads : \A k \in 1..Len(C[g]) : C[g][k] # e1
             /\ T = [C EXCEPT ![h1] = Inserted(C[h1], i1, e1)]
      BY <1>10, <2>1
    <2> QED BY <2>2 DEF Becomes
  <1> QED BY <1>9, <1>11 DEF StepsTo

\* list_add inserts behind the last element.
LEMMA AddSteps ==
  ASSUME ListInv, NEW C, AreRings(links, member, loop, C), NEW h \in Heads, NEW e \in Elements, Add(h, e)
  PROVE  StepsTo(C, links', member', loop')
  <1> DEFINE i == Len(C[h])
             b == links.prev[h]
             l2 == list_add(links, h, e)
             m2 == [member EXCEPT ![e] = h]
  <1>1. loop = NoLoop /\ loop' = loop /\ links' = l2 /\ member' = m2 /\ member[e] = NullNode /\ h \notin Broken
    BY DEF Add, Broken, NoLoop
  <1>2. i \in Nat /\ b = (IF i = 0 THEN h ELSE C[h][i])
    BY <1>1, Around
  <1>3. i \in 0..Len(C[h])
    BY <1>2
  <1>4. l2.next = [links.next EXCEPT ![e] = IF i = Len(C[h]) THEN h ELSE C[h][i + 1], ![b] = e]
    BY DEF list_add
  <1> HIDE DEF l2, b, i
  <1>5. m2 = [member EXCEPT ![e] = h]
    OBVIOUS
  <1> HIDE DEF m2
  <1>6. StepsTo(C, l2, m2, loop)
    BY <1>1, <1>2, <1>3, <1>4, <1>5, InsertSteps
  <1> QED BY <1>1, <1>6

\* list_addAfter inserts behind a head or behind an element.
LEMMA AddAfterSteps ==
  ASSUME ListInv, NEW C, AreRings(links, member, loop, C), NEW b \in Nodes, NEW e \in Elements, AddAfter(b, e)
  PROVE  StepsTo(C, links', member', loop')
  <1> DEFINE h == IF b \in Heads THEN b ELSE member[b]
             l2 == list_addAfter(links, b, e)
             m2 == [member EXCEPT ![e] = h]
  <1>1. loop = NoLoop /\ loop' = loop /\ links' = l2 /\ member' = m2 /\ member[e] = NullNode /\ Broken = {}
    BY DEF AddAfter, Broken, NoLoop
  <1>2. h \in Heads
    BY DEF AddAfter, ListInv, ListType, Nodes
  <1>3. PICK i \in 0..Len(C[h]) : /\ b = IF i = 0 THEN h ELSE C[h][i]
                                  /\ links.next[b] = IF i = Len(C[h]) THEN h ELSE C[h][i + 1]
    <2> DEFINE s == C[h]
    <2>1. /\ Len(s) \in Nat
          /\ links.next[h] = IF Len(s) = 0 THEN h ELSE s[1]
          /\ \A k \in 1..Len(s) : links.next[s[k]] = IF k = Len(s) THEN h ELSE s[k + 1]
      <3> HIDE DEF h
      <3> QED BY <1>1, <1>2, Around
    <2>2. CASE b \in Heads
      <3>1. b = h /\ 0 \in 0..Len(s)
        BY <2>1, <2>2
      <3> HIDE DEF h
      <3> QED BY <2>1, <3>1
    <2>3. CASE b \notin Heads
      <3>1. b \in Elements /\ member[b] = h
        BY <2>3 DEF Nodes
      <3>2. \E k \in 1..Len(s) : s[k] = b
        <4> HIDE DEF h
        <4> QED BY <1>2, <3>1 DEF AreRings, IsRing
      <3>3. PICK k \in 1..Len(s) : s[k] = b
        BY <3>2
      <3>4. k \in 0..Len(s) /\ k # 0
        BY <2>1
      <3> HIDE DEF h
      <3> QED BY <2>1, <3>3, <3>4
    <2> QED BY <2>2, <2>3
  <1>4. l2.next = [links.next EXCEPT ![e] = links.next[b], ![b] = e]
    BY DEF list_addAfter
  <1>5. l2.next = [links.next EXCEPT ![e] = IF i = Len(C[h]) THEN h ELSE C[h][i + 1], ![b] = e]
    <2> HIDE DEF l2, h
    <2> QED BY <1>3, <1>4
  <1>6. m2 = [member EXCEPT ![e] = h]
    OBVIOUS
  <1> HIDE DEF l2, m2, h
  <1>7. StepsTo(C, l2, m2, loop)
    BY <1>1, <1>2, <1>3, <1>5, <1>6, InsertSteps
  <1> QED BY <1>1, <1>7

\* list_deattach removes the element where it is.
LEMMA DeattachSteps ==
  ASSUME ListInv, NEW C, AreRings(links, member, loop, C), NEW e \in Elements, Deattach(e)
  PROVE  StepsTo(C, links', member', loop')
  <1> DEFINE h == member[e]
             s == C[h]
             b == links.prev[e]
             n == links.next
             n2 == links'.next
             m2 == member'
  <1>1. /\ loop = NoLoop /\ loop' = loop /\ loop.kind = "none" /\ Broken = {}
        /\ h \in Heads /\ member \in [Elements -> Heads \cup {NullNode}]
        /\ n \in [Nodes -> Nodes \cup {NullNode}]
    BY DEF Deattach, NoLoop, Broken, ListInv, ListType
  <1>2. n2 = [n EXCEPT ![b] = n[e]] /\ m2 = [member EXCEPT ![e] = NullNode]
    BY DEF Deattach, list_deattach
  <1>3. IsRing(n, member, h, n[h], s)
    BY <1>1 DEF AreRings, First
  <1>4. PICK i \in 1..Len(s) : s[i] = e
    BY <1>3 DEF IsRing
  <1>5. /\ s \in Seq(Elements) /\ Len(s) \in Nat
        /\ \A k \in 1..Len(s) : s[k] \in Elements /\ member[s[k]] = h
        /\ b = IF i = 1 THEN h ELSE s[i - 1]
    <2> HIDE DEF h, s
    <2>1. s = C[h]
      BY DEF s
    <2> QED BY <1>1, <1>4, <2>1, Around
  <1>6. b \in Nodes /\ (b \in Heads <=> i = 1) /\ (b \in Heads => b = h) /\ (b \in Elements => member[b] = h)
    <2>1. CASE i = 1
      BY <1>1, <1>5, <2>1 DEF Nodes
    <2>2. CASE i # 1
      <3>1. i - 1 \in 1..Len(s)
        BY <1>5, <2>2
      <3> QED BY <1>5, <2>2, <3>1 DEF Nodes
    <2> QED BY <2>1, <2>2
  <1>7. /\ n2[b] = n[e] /\ \A x \in Nodes : x # b => n2[x] = n[x]
        /\ m2[e] = NullNode /\ \A x \in Elements : x # e => m2[x] = member[x]
    BY <1>1, <1>2, <1>6
  <1>8. RemovesAt(n, member, n2, m2, h, s, i)
    <2>1. i # 1 => n2[s[i - 1]] = n[s[i]]
      BY <1>4, <1>5, <1>7
    <2>2. ASSUME NEW k \in 1..Len(s), k # i, k # i - 1 PROVE n2[s[k]] = n[s[k]]
      <3>1. s[k] # b
        <4>1. CASE i = 1
          BY <1>5, <1>6, <4>1
        <4>2. CASE i # 1
          <5>1. i - 1 \in 1..Len(s)
            BY <1>5, <4>2
          <5> QED BY <1>3, <1>5, <2>2, <4>2, <5>1 DEF IsRing
        <4> QED BY <4>1, <4>2
      <3> QED BY <1>5, <1>7, <3>1 DEF Nodes
    <2>3. m2[s[i]] # h /\ \A x \in Elements : x # s[i] => m2[x] = member[x]
      BY <1>1, <1>4, <1>7
    <2> HIDE DEF n, n2, m2, h, s
    <2> QED BY <2>1, <2>2, <2>3 DEF RemovesAt
  <1>9. First(links', loop', h) = IF i = 1 THEN n[s[i]] ELSE n[h]
    BY <1>1, <1>4, <1>5, <1>6, <1>7 DEF First, Nodes
  <1>10. IsRing(n2, m2, h, First(links', loop', h), Removed(s, i))
    <2> HIDE DEF n, n2, m2, h, s
    <2>1. IsRing(n2, m2, h, IF i = 1 THEN n[s[i]] ELSE n[h], SubSeq(s, 1, i - 1) \o SubSeq(s, i + 1, Len(s)))
      BY <1>1, <1>3, <1>8, RingRemove
    <2> QED BY <1>9, <2>1 DEF Removed
  <1>11. SameElsewhere(links, member, loop, links', m2, loop', {h})
    <2> SUFFICES ASSUME NEW g \in Heads \ {h}
                 PROVE  /\ First(links', loop', g) = First(links, loop, g)
                        /\ \A x \in Elements : m2[x] = g <=> member[x] = g
                        /\ \A x \in Elements : member[x] = g => n2[x] = n[x]
      BY DEF SameElsewhere
    <2>1. g \in Nodes /\ g # b /\ g # NullNode
      BY <1>6 DEF Nodes
    <2>2. First(links', loop', g) = First(links, loop, g)
      BY <1>1, <1>7, <2>1 DEF First
    <2>3. \A x \in Elements : m2[x] = g <=> member[x] = g
      BY <1>7, <2>1
    <2>4. \A x \in Elements : member[x] = g => x # b /\ x \in Nodes
      BY <1>6 DEF Nodes
    <2> QED BY <1>7, <2>2, <2>3, <2>4
  <1> DEFINE t == Removed(s, i)
             T == [C EXCEPT ![h] = t]
  <1>12. AreRings(links', member', loop', T)
    <2> DEFINE l2 == links'
               p2 == loop'
    <2>1. IsRing(l2.next, m2, h, First(l2, p2, h), t) /\ SameElsewhere(links, member, loop, l2, m2, p2, {h})
      BY <1>10, <1>11
    <2> HIDE DEF t, l2, p2, m2, h
    <2>2. AreRings(l2, m2, p2, [C EXCEPT ![h] = t])
      BY <1>1, <2>1, OneListChanges
    <2> QED BY <2>2 DEF l2, p2, m2
  <1>13. Becomes(C, T)
    <2>1. T = [C EXCEPT ![h] = Removed(C[h], i)] /\ i \in 1..Len(C[h])
      OBVIOUS
    <2> HIDE DEF T, h
    <2>2. \E h1 \in Heads : \E i1 \in 1..Len(C[h1]) : T = [C EXCEPT ![h1] = Removed(C[h1], i1)]
      BY <1>1, <2>1
    <2> QED BY <2>2 DEF Becomes
  <1> HIDE DEF T
  <1> QED BY <1>12, <1>13 DEF StepsTo

\* The first element leaves.
LEMMA FirstRemoved ==
  ASSUME NEW s \in Seq(Elements), 1 \in 1..Len(s)
  PROVE  Removed(s, 1) = Tail(s) /\ Head(s) = s[1]
  <1>1. s # <<>> /\ Len(s) \in Nat
    OBVIOUS
  <1>2. Tail(s) = SubSeq(s, 2, Len(s))
    BY <1>1, TailIsSubSeq
  <1>3. SubSeq(s, 1, 1 - 1) = <<>>
    OBVIOUS
  <1>4. SubSeq(s, 2, Len(s)) \in Seq(Elements)
    BY <1>1
  <1>5. <<>> \o SubSeq(s, 2, Len(s)) = SubSeq(s, 2, Len(s))
    BY <1>4, ConcatEmptySeq
  <1>6. 1 + 1 = 2
    OBVIOUS
  <1> QED BY <1>1, <1>2, <1>3, <1>5, <1>6 DEF Removed

\* An element comes behind the last one.
LEMMA LastInserted ==
  ASSUME NEW s \in Seq(Elements), NEW e \in Elements
  PROVE  Inserted(s, Len(s), e) = Append(s, e)
  <1>1. SubSeq(s, 1, Len(s)) = s /\ Len(s) \in Nat
    BY SubSeqFull
  <1>2. SubSeq(s, Len(s) + 1, Len(s)) = <<>>
    BY <1>1
  <1>3. Append(s, e) = s \o <<e>> /\ s \o <<e>> \in Seq(Elements)
    BY AppendIsConcat
  <1>4. (s \o <<e>>) \o <<>> = s \o <<e>>
    BY <1>3, ConcatEmptySeq
  <1> QED BY <1>1, <1>2, <1>3, <1>4 DEF Inserted

\* Two lists change.
LEMMA TwoListsChange ==
  ASSUME NEW l, NEW m, NEW p, NEW C, AreRings(l, m, p, C), NEW l2, NEW m2, NEW p2,
         NEW g \in Heads, NEW t, NEW h \in Heads, NEW u, g # h,
         IsRing(l2.next, m2, g, First(l2, p2, g), t), IsRing(l2.next, m2, h, First(l2, p2, h), u),
         SameElsewhere(l, m, p, l2, m2, p2, {g, h})
  PROVE  AreRings(l2, m2, p2, [C EXCEPT ![g] = t, ![h] = u])
  <1> DEFINE T == [C EXCEPT ![g] = t, ![h] = u]
  <1>1. t \in Seq(Elements) /\ u \in Seq(Elements) /\ C \in [Heads -> Seq(Elements)]
    BY DEF IsRing, AreRings
  <1>2. T \in [Heads -> Seq(Elements)] /\ T[g] = t /\ T[h] = u /\ \A x \in Heads \ {g, h} : T[x] = C[x]
    BY <1>1
  <1> HIDE DEF T
  <1>3. ASSUME NEW x \in Heads \ {g, h} PROVE IsRing(l2.next, m2, x, First(l2, p2, x), T[x])
    <2>1. IsRing(l.next, m, x, First(l, p, x), C[x])
      BY DEF AreRings
    <2> DEFINE n == l.next
               n2 == l2.next
               f == First(l, p, x)
               s == C[x]
    <2>2. IsRing(n, m, x, f, s) /\ (\A e \in Elements : m2[e] = x <=> m[e] = x)
          /\ \A e \in Elements : m[e] = x => n2[e] = n[e]
      BY <2>1 DEF SameElsewhere
    <2>3. First(l2, p2, x) = f /\ T[x] = s
      BY <1>2 DEF SameElsewhere
    <2> HIDE DEF n, n2, f, s
    <2>4. IsRing(n2, m2, x, f, s)
      BY <2>2, RingKept
    <2> QED BY <2>3, <2>4 DEF n2
  <1>4. AreRings(l2, m2, p2, T)
    BY <1>2, <1>3 DEF AreRings
  <1> QED BY <1>4 DEF T

\* What the bodies of the two loops do: e goes from the beginning of one list
\* to the end of another, and n2 is next afterwards.
Moves(n, m, n2, m2, e, from, to, last) ==
    /\ m2 = [m EXCEPT ![e] = to]
    /\ n2[e] = to /\ n2[last] = e
    /\ \A x \in Nodes : x \notin {e, last, from} => n2[x] = n[x]

\* Such a move is MoveFirst of ListSpec.
LEMMA MoveSteps ==
  ASSUME ListInv, NEW C, AreRings(links, member, loop, C),
         NEW from \in Heads, NEW to \in Heads, from # to, to \notin Broken, NEW e,
         C[from] # <<>>, e = C[from][1], NEW l2, NEW m2, NEW p2,
         Moves(links.next, member, l2.next, m2, e, from, to, links.prev[to]),
         First(l2, p2, from) = links.next[e],
         \A g \in Heads \ {from} : First(l2, p2, g) = l2.next[g] /\ First(links, loop, g) = links.next[g]
  PROVE  StepsTo(C, l2, m2, p2)
  <1> DEFINE n == links.next
             n2 == l2.next
             s == C[from]
             u == C[to]
             b == links.prev[to]
             j == Len(u)
  <1>1. /\ member \in [Elements -> Heads \cup {NullNode}]
        /\ m2 = [member EXCEPT ![e] = to]
        /\ n2[e] = to /\ n2[b] = e
        /\ \A x \in Nodes : x \notin {e, b, from} => n2[x] = n[x]
    BY DEF Moves, ListInv, ListType
  <1>2. IsRing(n, member, from, First(links, loop, from), s) /\ IsRing(n, member, to, n[to], u)
    BY DEF AreRings
  <1>3. /\ u \in Seq(Elements) /\ j \in Nat /\ \A k \in 1..j : u[k] \in Elements /\ member[u[k]] = to
        /\ \A i, k \in 1..j : u[i] = u[k] => i = k
        /\ n[to] = IF j = 0 THEN to ELSE u[1]
    BY <1>2 DEF IsRing
  <1>4. b = IF j = 0 THEN to ELSE u[j]
    BY Around
  <1>5. /\ s \in Seq(Elements) /\ Len(s) \in Nat /\ 1 \in 1..Len(s)
        /\ \A k \in 1..Len(s) : s[k] \in Elements /\ member[s[k]] = from
        /\ \A i, k \in 1..Len(s) : s[i] = s[k] => i = k
    <2>1. s \in Seq(Elements) /\ s # <<>>
      BY <1>2 DEF IsRing
    <2>2. Len(s) \in Nat /\ Len(s) # 0
      BY <2>1, EmptySeq
    <2> QED BY <1>2, <2>1, <2>2 DEF IsRing
  <1>6. e \in Elements /\ member[e] = from /\ e # from /\ e # to /\ e = s[1]
    BY <1>5
  <1>7. b \in Nodes /\ b # e /\ b # from /\ (b \in Heads => b = to /\ j = 0) /\ (b \in Elements => member[b] = to)
    <2>1. CASE j = 0
      BY <1>4, <1>6, <2>1 DEF Nodes
    <2>2. CASE j # 0
      <3>1. j \in 1..j
        BY <1>3, <2>2
      <3> QED BY <1>3, <1>4, <1>6, <2>2, <3>1 DEF Nodes
    <2> QED BY <2>1, <2>2
  <1>8. m2[e] = to /\ \A x \in Elements : x # e => m2[x] = member[x]
    BY <1>1, <1>6
  <1>9. RemovesAt(n, member, n2, m2, from, s, 1)
    <2>1. ASSUME NEW k \in 1..Len(s), k # 1 PROVE n2[s[k]] = n[s[k]]
      <3>1. s[k] # e /\ s[k] # b /\ s[k] # from /\ s[k] \in Nodes
        BY <1>5, <1>6, <1>7, <2>1 DEF Nodes
      <3> QED BY <1>1, <3>1
    <2>2. m2[s[1]] # from /\ \A x \in Elements : x # s[1] => m2[x] = member[x]
      BY <1>6, <1>8
    <2> HIDE DEF n, n2, s
    <2> QED BY <2>1, <2>2 DEF RemovesAt
  <1>10. InsertsAt(n, member, n2, m2, to, u, j, e)
    <2>1. n2[e] = IF j = Len(u) THEN to ELSE u[j + 1]
      BY <1>1
    <2>2. j # 0 => n2[u[j]] = e
      BY <1>1, <1>4
    <2>3. ASSUME NEW k \in 1..Len(u), k # j PROVE n2[u[k]] = n[u[k]]
      <3>1. u[k] # b
        <4>1. j \in 1..j /\ j # 0
          BY <1>3, <2>3
        <4> QED BY <1>3, <1>4, <2>3, <4>1
      <3>2. u[k] # e /\ u[k] # from /\ u[k] \in Nodes
        BY <1>3, <1>6 DEF Nodes
      <3> QED BY <1>1, <3>1, <3>2
    <2>4. member[e] # to
      BY <1>6
    <2> HIDE DEF n, n2, u, j
    <2> QED BY <1>8, <2>1, <2>2, <2>3, <2>4 DEF InsertsAt
  <1>11. First(l2, p2, to) = IF j = 0 THEN e ELSE n[to]
    <2>1. CASE j = 0
      BY <1>1, <1>4, <2>1
    <2>2. CASE j # 0
      <3>1. to # b /\ to # e /\ to \in Nodes
        BY <1>3, <1>4, <1>6, <1>7, <2>2 DEF Nodes
      <3> QED BY <1>1, <2>2, <3>1
    <2> QED BY <2>1, <2>2
  <1>12. IsRing(n2, m2, from, First(l2, p2, from), Removed(s, 1))
    <2> DEFINE f == First(links, loop, from)
    <2>1. IsRing(n, member, from, f, s) /\ First(l2, p2, from) = n[s[1]]
      BY <1>2, <1>6
    <2> HIDE DEF n, n2, s, f
    <2>2. IsRing(n2, m2, from, IF 1 = 1 THEN n[s[1]] ELSE f, SubSeq(s, 1, 1 - 1) \o SubSeq(s, 1 + 1, Len(s)))
      BY <1>5, <1>9, <2>1, RingRemove
    <2> QED BY <2>1, <2>2 DEF Removed
  <1>13. IsRing(n2, m2, to, First(l2, p2, to), Inserted(u, j, e))
    <2> DEFINE f == n[to]
    <2>1. IsRing(n, member, to, f, u) /\ First(l2, p2, to) = IF j = 0 THEN e ELSE f
      BY <1>2, <1>11
    <2>2. j \in 0..Len(u)
      BY <1>3
    <2> HIDE DEF n, n2, u, f, j
    <2>3. IsRing(n2, m2, to, IF j = 0 THEN e ELSE f, SubSeq(u, 1, j) \o <<e>> \o SubSeq(u, j + 1, Len(u)))
      BY <1>6, <1>10, <2>1, <2>2, RingInsert
    <2> QED BY <2>1, <2>3 DEF Inserted
  <1>14. SameElsewhere(links, member, loop, l2, m2, p2, {from, to})
    <2> SUFFICES ASSUME NEW g \in Heads \ {from, to}
                 PROVE  /\ First(l2, p2, g) = First(links, loop, g)
                        /\ \A x \in Elements : m2[x] = g <=> member[x] = g
                        /\ \A x \in Elements : member[x] = g => n2[x] = n[x]
      BY DEF SameElsewhere
    <2>1. g \in Nodes /\ g # b /\ g # NullNode /\ g # e
      BY <1>6, <1>7 DEF Nodes
    <2>2. First(l2, p2, g) = First(links, loop, g)
      BY <1>1, <2>1
    <2>3. \A x \in Elements : m2[x] = g <=> member[x] = g
      BY <1>6, <1>8, <2>1
    <2>4. \A x \in Elements : member[x] = g => x # b /\ x # e /\ x # from /\ x \in Nodes
      BY <1>6, <1>7 DEF Nodes
    <2> QED BY <1>1, <2>2, <2>3, <2>4
  <1> DEFINE t == Removed(s, 1)
             v == Inserted(u, j, e)
             T == [C EXCEPT ![from] = t, ![to] = v]
  <1>15. AreRings(l2, m2, p2, T)
    <2>1. IsRing(l2.next, m2, from, First(l2, p2, from), t) /\ IsRing(l2.next, m2, to, First(l2, p2, to), v)
      BY <1>12, <1>13
    <2> HIDE DEF t, v
    <2>2. AreRings(l2, m2, p2, [C EXCEPT ![from] = t, ![to] = v])
      BY <1>14, <2>1, TwoListsChange
    <2> QED BY <2>2
  <1>16. t = Tail(s) /\ v = Append(u, Head(s))
    <2>1. s \in Seq(Elements) /\ u \in Seq(Elements) /\ 1 \in 1..Len(s) /\ e \in Elements /\ e = s[1] /\ j = Len(u)
      BY <1>3, <1>5, <1>6
    <2> HIDE DEF s, u, j
    <2>2. Removed(s, 1) = Tail(s) /\ Head(s) = s[1]
      BY <2>1, FirstRemoved
    <2>3. Inserted(u, Len(u), e) = Append(u, e)
      BY <2>1, LastInserted
    <2> QED BY <2>1, <2>2, <2>3
  <1>17. Becomes(C, T)
    <2>1. T = [C EXCEPT ![from] = Tail(C[from]), ![to] = Append(C[to], Head(C[from]))]
      <3> HIDE DEF t, v
      <3> QED BY <1>16
    <2> HIDE DEF T
    <2>2. \E from1, to1 \in Heads :
             /\ from1 # to1 /\ C[from1] # <<>>
             /\ T = [C EXCEPT ![from1] = Tail(C[from1]), ![to1] = Append(C[to1], Head(C[from1]))]
      BY <2>1
    <2> QED BY <2>2 DEF Becomes
  <1> HIDE DEF T
  <1> QED BY <1>15, <1>17 DEF StepsTo

\* value_replaceAllUses moves the first use, the one it is at.
LEMMA ReplaceUseSteps ==
  ASSUME ListInv, NEW C, AreRings(links, member, loop, C), ReplaceUse
  PROVE  StepsTo(C, links', member', loop')
  <1> DEFINE e == loop.current
             from == loop.from
             to == loop.to
             n == links.next
             n2 == links'.next
             s == C[from]
             u == C[to]
             b == links.prev[to]
             d == list_deattach(links, e)
  <1>1. /\ from \in Heads /\ to \in Heads /\ from # to /\ e = n[from] /\ e # from /\ Broken = {}
        /\ loop.kind = "replace" /\ loop'.kind = "replace"
        /\ n \in [Nodes -> Nodes \cup {NullNode}] /\ links.prev \in [Nodes -> Nodes \cup {NullNode}]
    BY DEF ReplaceUse, Broken, ListInv, ReplaceInv, ListType
  <1>2. /\ Len(s) \in Nat
        /\ n[from] = IF Len(s) = 0 THEN from ELSE s[1]
        /\ \A k \in 1..Len(s) : /\ s[k] \in Elements /\ member[s[k]] = from
                                /\ n[s[k]] = IF k = Len(s) THEN from ELSE s[k + 1]
                                /\ links.prev[s[k]] = IF k = 1 THEN from ELSE s[k - 1]
    <2> DEFINE h == from
    <2>1. h \in Heads /\ h \notin Broken
      BY <1>1
    <2> HIDE DEF h
    <2> QED BY <2>1, Around DEF h
  <1>3. /\ Len(u) \in Nat
        /\ b = IF Len(u) = 0 THEN to ELSE u[Len(u)]
        /\ \A k \in 1..Len(u) : u[k] \in Elements /\ member[u[k]] = to
    <2> DEFINE h == to
    <2>1. h \in Heads /\ h \notin Broken
      BY <1>1
    <2> HIDE DEF h
    <2> QED BY <2>1, Around DEF h
  <1>4. Len(s) # 0 /\ 1 \in 1..Len(s) /\ e = s[1]
    BY <1>1, <1>2
  <1>5. e \in Elements /\ member[e] = from /\ links.prev[e] = from /\ s # <<>>
    BY <1>2, <1>4
  <1>6. n[e] # to
    <2>1. CASE Len(s) = 1
      BY <1>1, <1>2, <1>4, <2>1
    <2>2. CASE Len(s) # 1
      <3>1. 2 \in 1..Len(s)
        <4>1. Len(s) \in Nat
          BY <1>2
        <4>2. Len(s) # 0
          BY <1>4
        <4>3. \A k \in Nat : k # 0 /\ k # 1 => 2 \in 1..k
          OBVIOUS
        <4> HIDE DEF s
        <4> QED BY <2>2, <4>1, <4>2, <4>3
      <3>2. n[e] = s[1 + 1]
        BY <1>2, <1>4, <2>2
      <3>3. s[2] \in Elements
        BY <1>2, <3>1
      <3> QED BY <1>1, <3>2, <3>3
    <2> QED BY <2>1, <2>2
  <1>7. b \in Nodes /\ b # e /\ b # from
    <2>1. CASE Len(u) = 0
      BY <1>1, <1>3, <1>5, <2>1 DEF Nodes
    <2>2. CASE Len(u) # 0
      <3>1. Len(u) \in 1..Len(u)
        BY <1>3, <2>2
      <3> QED BY <1>1, <1>3, <1>5, <2>2, <3>1 DEF Nodes
    <2> QED BY <2>1, <2>2
  <1>8. d.prev[to] = b /\ d.next = [n EXCEPT ![from] = n[e]]
    BY <1>1, <1>5, <1>6 DEF list_deattach, Nodes
  <1>9. n2 = [d.next EXCEPT ![e] = to, ![b] = e]
    <2>1. links' = list_add(d, to, e)
      BY DEF ReplaceUse
    <2> HIDE DEF d
    <2> QED BY <1>8, <2>1 DEF list_add
  <1>10. /\ n2[e] = to /\ n2[b] = e /\ n2[from] = n[e]
         /\ \A x \in Nodes : x \notin {e, b, from} => n2[x] = n[x]
    <2>1. d.next \in [Nodes -> Nodes \cup {NullNode}] /\ d.next[from] = n[e]
          /\ \A x \in Nodes : x # from => d.next[x] = n[x]
      BY <1>1, <1>5, <1>8 DEF Nodes
    <2> HIDE DEF d
    <2> QED BY <1>1, <1>5, <1>7, <1>9, <2>1 DEF Nodes
  <1>11. member' = [member EXCEPT ![e] = to]
    BY DEF ReplaceUse
  <1>12. Moves(n, member, n2, member', e, from, to, b)
    BY <1>10, <1>11 DEF Moves
  <1>13. First(links', loop', from) = n[e]
    BY <1>1, <1>10 DEF First
  <1>14. \A g \in Heads \ {from} : First(links', loop', g) = links'.next[g] /\ First(links, loop, g) = links.next[g]
    BY <1>1 DEF First
  <1> DEFINE l2 == links'
             m2 == member'
             p2 == loop'
  <1>15. /\ Moves(links.next, member, l2.next, m2, e, from, to, links.prev[to])
         /\ First(l2, p2, from) = links.next[e]
         /\ \A g \in Heads \ {from} : First(l2, p2, g) = l2.next[g] /\ First(links, loop, g) = links.next[g]
         /\ to \notin Broken /\ C[from] # <<>> /\ e = C[from][1] /\ from \in Heads /\ to \in Heads /\ from # to
    BY <1>1, <1>4, <1>5, <1>12, <1>13, <1>14
  <1> HIDE DEF l2, m2, p2, e, from, to
  <1>16. StepsTo(C, l2, m2, p2)
    BY <1>15, MoveSteps
  <1> QED BY <1>16 DEF l2, m2, p2

\* hashmap_rehash moves the first entry that is left.
LEMMA RehashEntrySteps ==
  ASSUME ListInv, NEW C, AreRings(links, member, loop, C), NEW to \in Heads, RehashEntry(to)
  PROVE  StepsTo(C, links', member', loop')
  <1> DEFINE e == loop.current
             from == loop.from
             n == links.next
             n2 == links'.next
             s == C[from]
             u == C[to]
             b == links.prev[to]
  <1>1. /\ from \in Heads /\ from # to /\ e # from /\ Broken = {from}
        /\ loop.kind = "rehash" /\ loop'.kind = "rehash" /\ loop'.from = from /\ loop'.current = n[e]
        /\ n \in [Nodes -> Nodes \cup {NullNode}]
    BY DEF RehashEntry, Broken, ListInv, RehashInv, ListType, SavedNext
  <1>2. IsRing(n, member, from, e, s)
    BY <1>1 DEF AreRings, First
  <1>3. Len(s) # 0 /\ e = s[1] /\ s \in Seq(Elements)
    BY <1>1, <1>2 DEF IsRing
  <1>4. 1 \in 1..Len(s) /\ s # <<>>
    BY <1>3
  <1>5. e \in Elements /\ member[e] = from
    BY <1>2, <1>3, <1>4 DEF IsRing
  <1>6. /\ Len(u) \in Nat
        /\ b = IF Len(u) = 0 THEN to ELSE u[Len(u)]
        /\ \A k \in 1..Len(u) : u[k] \in Elements /\ member[u[k]] = to
    BY <1>1, Around
  <1>7. b \in Nodes /\ b # e /\ b # from
    <2>1. CASE Len(u) = 0
      BY <1>1, <1>5, <1>6, <2>1 DEF Nodes
    <2>2. CASE Len(u) # 0
      <3>1. Len(u) \in 1..Len(u)
        BY <1>6, <2>2
      <3> QED BY <1>1, <1>5, <1>6, <2>2, <3>1 DEF Nodes
    <2> QED BY <2>1, <2>2
  <1>8. n2 = [n EXCEPT ![e] = to, ![b] = e] /\ member' = [member EXCEPT ![e] = to]
    BY DEF RehashEntry, list_add
  <1>9. n2[e] = to /\ n2[b] = e /\ \A x \in Nodes : x \notin {e, b, from} => n2[x] = n[x]
    BY <1>1, <1>5, <1>7, <1>8 DEF Nodes
  <1>10. Moves(n, member, n2, member', e, from, to, b)
    BY <1>8, <1>9 DEF Moves
  <1>11. First(links', loop', from) = n[e]
    BY <1>1 DEF First
  <1>12. \A g \in Heads \ {from} : First(links', loop', g) = links'.next[g] /\ First(links, loop, g) = links.next[g]
    BY <1>1 DEF First
  <1> DEFINE l2 == links'
             m2 == member'
             p2 == loop'
  <1>13. /\ Moves(links.next, member, l2.next, m2, e, from, to, links.prev[to])
         /\ First(l2, p2, from) = links.next[e]
         /\ \A g \in Heads \ {from} : First(l2, p2, g) = l2.next[g] /\ First(links, loop, g) = links.next[g]
         /\ to \notin Broken /\ C[from] # <<>> /\ e = C[from][1] /\ from \in Heads /\ from # to
    BY <1>1, <1>3, <1>4, <1>10, <1>11, <1>12
  <1> HIDE DEF l2, m2, p2, e, from
  <1>14. StepsTo(C, l2, m2, p2)
    BY <1>13, MoveSteps
  <1> QED BY <1>14 DEF l2, m2, p2

\* What changes neither a pointer nor a first node changes no list.
LEMMA SameRings ==
  ASSUME NEW l, NEW m, NEW p, NEW C, AreRings(l, m, p, C), NEW p2,
         \A h \in Heads : First(l, p2, h) = First(l, p, h)
  PROVE  StepsTo(C, l, m, p2)
  BY DEF AreRings, StepsTo

\* The loops begin at the first node of the list, and value_replaceAllUses ends
\* where there is nothing to do.
LEMMA LoopSteps ==
  ASSUME ListInv, NEW C, AreRings(links, member, loop, C),
         EndReplace \/ \E from, to \in Heads : value_replaceAllUses(from, to) \/ Rehash(from)
  PROVE  StepsTo(C, links', member', loop')
  <1>1. links' = links /\ member' = member
    BY DEF EndReplace, value_replaceAllUses, Rehash
  <1>2. \A h \in Heads : First(links, loop', h) = First(links, loop, h)
    BY DEF EndReplace, value_replaceAllUses, Rehash, First, NoLoop
  <1> DEFINE p2 == loop'
  <1>3. \A h \in Heads : First(links, p2, h) = First(links, loop, h)
    BY <1>2
  <1> HIDE DEF p2
  <1>4. StepsTo(C, links, member, p2)
    BY <1>3, SameRings
  <1> QED BY <1>1, <1>4 DEF p2

\* The old bucket is empty when hashmap_rehash leaves it.
LEMMA EndRehashSteps ==
  ASSUME ListInv, NEW C, AreRings(links, member, loop, C), EndRehash
  PROVE  StepsTo(C, links', member', loop')
  <1> DEFINE from == loop.from
             n == links.next
             n2 == links'.next
             m2 == member'
  <1>1. /\ from \in Heads /\ loop.kind = "rehash" /\ loop.current = from /\ loop'.kind = "none"
        /\ n \in [Nodes -> Nodes \cup {NullNode}]
        /\ n2 = [n EXCEPT ![from] = from]
        /\ m2 = [e \in Elements |-> IF member[e] = from THEN NullNode ELSE member[e]]
    BY DEF EndRehash, ListInv, RehashInv, ListType, LIST_INIT, NoLoop
  <1>2. IsRing(n, member, from, from, C[from])
    BY <1>1 DEF AreRings, First
  <1>3. C[from] = <<>> /\ \A e \in Elements : member[e] # from
    <2>1. C[from] \in Seq(Elements) /\ Len(C[from]) \in Nat
      BY <1>2 DEF IsRing
    <2>2. Len(C[from]) = 0
      <3> SUFFICES ASSUME Len(C[from]) # 0 PROVE FALSE
        OBVIOUS
      <3>1. 1 \in 1..Len(C[from])
        BY <2>1
      <3> QED BY <1>1, <1>2, <2>1, <3>1 DEF IsRing
    <2> QED BY <1>2, <2>1, <2>2 DEF IsRing
  <1>4. \A e \in Elements : m2[e] = member[e]
    BY <1>1, <1>3
  <1>5. \A x \in Nodes : x # from => n2[x] = n[x]
    BY <1>1
  <1>6. n2[from] = from
    BY <1>1 DEF Nodes
  <1>7. ASSUME NEW h \in Heads PROVE IsRing(n2, m2, h, First(links', loop', h), C[h])
    <2>1. CASE h = from
      <3>1. First(links', loop', h) = from
        BY <1>1, <1>6, <2>1 DEF First
      <3>2. <<>> \in Seq(Elements) /\ Len(<<>>) = 0 /\ C[h] = <<>>
        BY <1>3, <2>1
      <3>3. \A e \in Elements : m2[e] # h
        BY <1>3, <1>4, <2>1
      <3> HIDE DEF n, n2, m2
      <3>4. IsRing(n2, m2, h, h, <<>>)
        BY <3>2, <3>3 DEF IsRing
      <3> QED BY <2>1, <3>1, <3>2, <3>4
    <2>2. CASE h # from
      <3> DEFINE f == n[h]
                 s == C[h]
      <3>1. IsRing(n, member, h, f, s)
        BY <1>1, <2>2 DEF AreRings, First
      <3>2. First(links', loop', h) = f
        BY <1>1, <1>5, <2>2 DEF First, Nodes
      <3>3. \A e \in Elements : n2[e] = n[e]
        BY <1>1, <1>5 DEF Nodes
      <3>4. (\A e \in Elements : m2[e] = h <=> member[e] = h) /\ \A e \in Elements : member[e] = h => n2[e] = n[e]
        BY <1>4, <3>3
      <3> HIDE DEF n, n2, m2, f, s
      <3>5. IsRing(n2, m2, h, f, s)
        BY <3>1, <3>4, RingKept
      <3> QED BY <3>2, <3>5 DEF s
    <2> QED BY <2>1, <2>2
  <1>8. AreRings(links', member', loop', C)
    BY <1>7 DEF AreRings
  <1> QED BY <1>8 DEF StepsTo

-----------------------------------------------------------------------------
\* The refinement.

\* Every step changes the sequences as ListSpec does, or not at all.
LEMMA RingsStep ==
  ASSUME ListInv, NEW C, AreRings(links, member, loop, C), [ListNext]_listVars
  PROVE  StepsTo(C, links', member', loop')
  <1>1. ASSUME NEW h \in Heads, NEW e \in Elements, Add(h, e) PROVE StepsTo(C, links', member', loop')
    BY <1>1, AddSteps
  <1>2. ASSUME NEW b \in Nodes, NEW e \in Elements, AddAfter(b, e) PROVE StepsTo(C, links', member', loop')
    BY <1>2, AddAfterSteps
  <1>3. ASSUME NEW e \in Elements, Deattach(e) PROVE StepsTo(C, links', member', loop')
    BY <1>3, DeattachSteps
  <1>4. ASSUME NEW to \in Heads, RehashEntry(to) PROVE StepsTo(C, links', member', loop')
    BY <1>4, RehashEntrySteps
  <1>5. CASE EndReplace \/ \E from, to \in Heads : value_replaceAllUses(from, to) \/ Rehash(from)
    BY <1>5, LoopSteps
  <1>6. CASE ReplaceUse
    BY <1>6, ReplaceUseSteps
  <1>7. CASE EndRehash
    BY <1>7, EndRehashSteps
  <1>8. CASE UNCHANGED listVars
    BY <1>8 DEF listVars, StepsTo
  <1> QED BY <1>1, <1>2, <1>3, <1>4, <1>5, <1>6, <1>7, <1>8 DEF ListNext

\* The walks of Contents find the sequences.
Rings == AreRings(links, member, loop, Contents)

\* In the beginning there are no elements.
LEMMA RingsInit == ListInit => Rings /\ Contents = [h \in Heads |-> <<>>]
  <1> SUFFICES ASSUME ListInit PROVE Rings /\ Contents = [h \in Heads |-> <<>>]
    OBVIOUS
  <1> DEFINE S == [h \in Heads |-> <<>>]
  <1>1. ASSUME NEW h \in Heads PROVE IsRing(links.next, member, h, First(links, loop, h), S[h])
    <2>1. First(links, loop, h) = h /\ \A e \in Elements : member[e] # h
      BY DEF ListInit, First, NoLoop, Nodes
    <2>2. <<>> \in Seq(Elements) /\ Len(<<>>) = 0 /\ S[h] = <<>>
      OBVIOUS
    <2> HIDE DEF S
    <2> QED BY <2>1, <2>2 DEF IsRing
  <1>2. AreRings(links, member, loop, S)
    BY <1>1 DEF AreRings
  <1> HIDE DEF S
  <1>3. Contents = S
    BY <1>2, ContentsAre
  <1> QED BY <1>2, <1>3 DEF Rings, S

\* The walks find the sequences in the next state, too.
LEMMA ContentsNext == \A S, mem : AreRings(links', mem, loop', S) => Contents' = S
  <1>1. \A S, mem : AreRings(links, mem, loop, S) => Contents = S
    BY ContentsAre
  <1>2. (\A S, mem : AreRings(links, mem, loop, S) => Contents = S)'
    BY <1>1, PTL
  <1> QED BY <1>2

\* One step of the pointers is one step of the lists, or none.
LEMMA RingsKept ==
  ASSUME ListInv, Rings, [ListNext]_listVars
  PROVE  Rings' /\ (Contents' = Contents \/ Becomes(Contents, Contents'))
  <1>2. \A S, mem : AreRings(links', mem, loop', S) => Contents' = S
    BY ContentsNext
  <1>3. StepsTo(Contents, links', member', loop')
    BY RingsStep DEF Rings
  <1>4. PICK T : AreRings(links', member', loop', T) /\ (T = Contents \/ Becomes(Contents, T))
    BY <1>3 DEF StepsTo
  <1>5. Contents' = T
    BY <1>2, <1>4
  <1> QED BY <1>4, <1>5 DEF Rings

\* The steps of the sequences are those of ListSpec.
LEMMA BecomesIsNext ==
  ASSUME Contents \in [Heads -> Seq(Elements)], Contents' # Contents, Becomes(Contents, Contents')
  PROVE  AbstractList!Next
  <1>1. CASE \E h \in Heads, e \in Elements : \E i \in 0..Len(Contents[h]) :
                /\ \A g \in Heads : \A k \in 1..Len(Contents[g]) : Contents[g][k] # e
                /\ Contents' = [Contents EXCEPT ![h] = Inserted(Contents[h], i, e)]
    <2>p. PICK h \in Heads, e \in Elements : \E i \in 0..Len(Contents[h]) :
                /\ \A g \in Heads : \A k \in 1..Len(Contents[g]) : Contents[g][k] # e
                /\ Contents' = [Contents EXCEPT ![h] = Inserted(Contents[h], i, e)]
      BY <1>1
    <2>1. PICK i \in 0..Len(Contents[h]) :
                /\ \A g \in Heads : \A k \in 1..Len(Contents[g]) : Contents[g][k] # e
                /\ Contents' = [Contents EXCEPT ![h] = Inserted(Contents[h], i, e)]
      BY <2>p
    <2>2. AbstractList!Free(e)
      BY <2>1 DEF AbstractList!Free, AbstractList!In, AbstractList!ToSet
    <2>3. (i + 1) - 1 = i
      OBVIOUS
    <2>4. AbstractList!InsertAt(Contents[h], i + 1, e) = Inserted(Contents[h], i, e)
      BY <2>3 DEF AbstractList!InsertAt, Inserted
    <2>5. AbstractList!Insert(h, i, e)
      BY <2>1, <2>2, <2>4 DEF AbstractList!Insert
    <2> QED BY <2>5 DEF AbstractList!Next
  <1>2. CASE \E h \in Heads : \E i \in 1..Len(Contents[h]) :
                Contents' = [Contents EXCEPT ![h] = Removed(Contents[h], i)]
    <2>p. PICK h \in Heads : \E i \in 1..Len(Contents[h]) :
                Contents' = [Contents EXCEPT ![h] = Removed(Contents[h], i)]
      BY <1>2
    <2>1. PICK i \in 1..Len(Contents[h]) : Contents' = [Contents EXCEPT ![h] = Removed(Contents[h], i)]
      BY <2>p
    <2>2. AbstractList!RemoveAt(Contents[h], i) = Removed(Contents[h], i)
      BY DEF AbstractList!RemoveAt, Removed
    <2>3. AbstractList!Detach(h, i)
      BY <2>1, <2>2 DEF AbstractList!Detach
    <2>4. i \in DOMAIN Contents[h]
      OBVIOUS
    <2> QED BY <2>3, <2>4 DEF AbstractList!Next
  <1>3. CASE \E from, to \in Heads :
                /\ from # to /\ Contents[from] # <<>>
                /\ Contents' = [Contents EXCEPT ![from] = Tail(Contents[from]),
                                                ![to] = Append(Contents[to], Head(Contents[from]))]
    <2>1. PICK from \in Heads, to \in Heads :
                /\ from # to /\ Contents[from] # <<>>
                /\ Contents' = [Contents EXCEPT ![from] = Tail(Contents[from]),
                                                ![to] = Append(Contents[to], Head(Contents[from]))]
      BY <1>3
    <2>2. [Contents EXCEPT ![from] = Tail(@), ![to] = Append(@, Head(Contents[from]))]
          = [Contents EXCEPT ![from] = Tail(Contents[from]), ![to] = Append(Contents[to], Head(Contents[from]))]
      BY <2>1
    <2>3. AbstractList!MoveFirst(from, to)
      BY <2>1, <2>2 DEF AbstractList!MoveFirst
    <2> QED BY <2>1, <2>3 DEF AbstractList!Next
  <1> QED BY <1>1, <1>2, <1>3 DEF Becomes

\* The pointers of list.c implement lists, for any heads and finitely many
\* elements: list_add, list_addAfter and list_deattach put one element in or take
\* one out where the caller says, and value_replaceAllUses and hashmap_rehash
\* move the elements of a list one by one, in order, without losing any.
THEOREM ListIsSequence == ListSpecification => IsSequence
  <1>1. ListInit => ListInv /\ Rings /\ AbstractList!Init
    BY ListInitInv, RingsInit DEF AbstractList!Init
  <1>2. ListInv /\ Rings /\ [ListNext]_listVars => ListInv' /\ Rings'
    BY ListNextKeeps, RingsKept
  <1>3. ListInv /\ Rings /\ [ListNext]_listVars => [AbstractList!Next]_Contents
    <2> SUFFICES ASSUME ListInv, Rings, [ListNext]_listVars, Contents' # Contents PROVE AbstractList!Next
      OBVIOUS
    <2>1. Contents \in [Heads -> Seq(Elements)]
      BY DEF Rings, AreRings
    <2>2. Becomes(Contents, Contents')
      BY RingsKept
    <2> QED BY <2>1, <2>2, BecomesIsNext
  <1> QED BY <1>1, <1>2, <1>3, PTL DEF ListSpecification, IsSequence, AbstractList!Spec

-----------------------------------------------------------------------------
\* buffer.c

IsBuffer(d) ==
    /\ d = [mem |-> d.mem, capacity |-> d.capacity, usage |-> d.usage]
    /\ d.capacity \in Nat /\ d.capacity < SizeMod
    /\ d.usage \in Nat
    /\ Len(d.mem) \in Nat /\ DOMAIN d.mem = 1..Len(d.mem)

\* The memory is what dbuffer_initSize allocated, and then the capacity field
\* bounds the usage, or what dbuffer_ensureCap allocated later, and then it is
\* twice the capacity at least.
Sound(d) == (Len(d.mem) = d.capacity /\ d.usage <= d.capacity) \/ Len(d.mem) >= 2 * d.capacity

JobType ==
    [on : Buffers, form : {"bytes", "decimal", "hexadecimal"}, number : Int, bytes : Int,
     num : Int, left : Int, start : Int, first : Int]

BufferInv ==
    /\ buf = [b \in Buffers |-> buf[b]]
    /\ \A b \in Buffers : IsBuffer(buf[b]) /\ Sound(buf[b])
    /\ job = Idle \/ job \in JobType
    /\ SafeUpToTwice

USE SizesAssumption, ArgumentsAssumption

-----------------------------------------------------------------------------
\* A function on 1..n is a sequence of length n.
LEMMA FunctionIsSequence ==
  ASSUME NEW n \in Nat, NEW f, f = [i \in 1..n |-> f[i]]
  PROVE  Len(f) = n /\ DOMAIN f = 1..n
  <1> DEFINE S == {f[i] : i \in 1..n}
  <1>1. f \in [1..n -> S]
    OBVIOUS
  <1> HIDE DEF S
  <1>2. f \in Seq(S)
    BY <1>1, SeqDef
  <1>3. DOMAIN f = 1..Len(f) /\ Len(f) \in Nat /\ DOMAIN f = 1..n
    BY <1>1, <1>2, LenProperties
  <1>4. Len(f) = n
    BY <1>3
  <1> QED BY <1>3, <1>4

\* dbuffer_initSize starts with capacity and memory equal.
LEMMA InitSizeSound ==
  ASSUME NEW size \in InitSizes
  PROVE  IsBuffer(dbuffer_initSize(size)) /\ Sound(dbuffer_initSize(size))
  <1> DEFINE mem == [i \in 1..size |-> Garbage]
  <1>1. size \in Nat /\ size < SizeMod
    BY DEF SizesAssumption
  <1>2. Len(mem) = size /\ DOMAIN mem = 1..size
    BY <1>1, FunctionIsSequence
  <1> HIDE DEF mem
  <1> QED BY <1>1, <1>2 DEF dbuffer_initSize, Sound, IsBuffer, mem

LEMMA NewSizeDoubles ==
  ASSUME NEW d, IsBuffer(d), NEW size \in Nat
  PROVE  NewSize(d, size) \in Nat /\ NewSize(d, size) >= 2 * d.capacity
  <1>1. d.capacity \in Nat
    BY DEF IsBuffer
  <1>2. (d.capacity * 3) \div 2 \in Nat
    BY <1>1
  <1> QED BY <1>1, <1>2 DEF NewSize

\* As long as usage does not pass capacity, the difference is what is free.
LEMMA DifferenceIsFree ==
  ASSUME NEW d, IsBuffer(d), d.usage <= d.capacity
  PROVE  Difference(d.capacity, d.usage) = d.capacity - d.usage
  <1>1. SizeMod \in Nat /\ d.capacity - d.usage \in 0..(SizeMod - 1)
    BY DEF IsBuffer, SizesAssumption
  <1> QED BY <1>1 DEF Difference

\* After dbuffer_ensureCap either the bytes fit or the memory is at least twice
\* the capacity.
LEMMA EnsureCapSound ==
  ASSUME NEW d, IsBuffer(d), Sound(d), NEW size \in Nat
  PROVE  LET e == dbuffer_ensureCap(d, size)
         IN  /\ IsBuffer(e) /\ Sound(e)
             /\ e.usage = d.usage /\ e.capacity = d.capacity
             /\ d.usage + size <= Len(e.mem) \/ Len(e.mem) >= 2 * d.capacity
  <1> DEFINE mem == [i \in 1..NewSize(d, size) |-> IF i <= d.usage THEN d.mem[i] ELSE Garbage]
  <1>1. CASE size > Difference(d.capacity, d.usage)
    <2>1. Len(mem) = NewSize(d, size) /\ DOMAIN mem = 1..Len(mem)
      BY NewSizeDoubles, FunctionIsSequence
    <2> HIDE DEF mem
    <2>2. dbuffer_ensureCap(d, size) = [mem |-> mem, capacity |-> d.capacity, usage |-> d.usage]
      BY <1>1 DEF dbuffer_ensureCap, IsBuffer, mem
    <2> QED BY <2>1, <2>2, NewSizeDoubles DEF IsBuffer, Sound
  <1>2. CASE ~(size > Difference(d.capacity, d.usage))
    <2>1. dbuffer_ensureCap(d, size) = d
      BY <1>2 DEF dbuffer_ensureCap
    <2>2. d.usage <= d.capacity => size <= d.capacity - d.usage
      BY <1>2, DifferenceIsFree DEF IsBuffer
    <2> QED BY <2>1, <2>2 DEF IsBuffer, Sound
  <1> QED BY <1>1, <1>2

LEMMA PushDataSound ==
  ASSUME NEW d, IsBuffer(d), Sound(d), NEW bytes, Len(bytes) \in Nat, Fits(d, Len(bytes))
  PROVE  IsBuffer(dbuffer_pushData(d, bytes)) /\ Sound(dbuffer_pushData(d, bytes))
  <1> DEFINE e == dbuffer_ensureCap(d, Len(bytes))
             mem == [i \in DOMAIN e.mem |-> IF i \in (e.usage + 1)..(e.usage + Len(bytes))
                                            THEN bytes[i - e.usage] ELSE e.mem[i]]
  <1>1. IsBuffer(e) /\ Sound(e) /\ e.usage = d.usage
    BY EnsureCapSound
  <1>2. e.usage + Len(bytes) <= Len(e.mem)
    BY <1>1 DEF Fits
  <1> HIDE DEF e
  <1>3. Len(mem) = Len(e.mem) /\ DOMAIN mem = 1..Len(mem)
    BY <1>1, FunctionIsSequence DEF IsBuffer
  <1>4. dbuffer_pushData(d, bytes) = [e EXCEPT !.mem = mem, !.usage = e.usage + Len(bytes)]
    BY DEF dbuffer_pushData, e
  <1> HIDE DEF mem
  <1>5. dbuffer_pushData(d, bytes) = [mem |-> mem, capacity |-> e.capacity, usage |-> e.usage + Len(bytes)]
    BY <1>1, <1>4 DEF IsBuffer
  <1> QED BY <1>1, <1>2, <1>3, <1>5 DEF IsBuffer, Sound

LEMMA TruncatedSound ==
  ASSUME NEW d, IsBuffer(d), Sound(d), NEW size \in Nat, size <= d.usage
  PROVE  IsBuffer(Truncated(d, size)) /\ Sound(Truncated(d, size))
  <1> DEFINE mem == [i \in DOMAIN d.mem |-> IF i <= size THEN d.mem[i] ELSE Garbage]
  <1>1. Len(mem) = Len(d.mem) /\ DOMAIN mem = 1..Len(mem)
    BY FunctionIsSequence DEF IsBuffer
  <1>2. Truncated(d, size) = [d EXCEPT !.mem = mem, !.usage = size]
    BY DEF Truncated
  <1> HIDE DEF mem
  <1>3. Truncated(d, size) = [mem |-> mem, capacity |-> d.capacity, usage |-> size]
    BY <1>2 DEF IsBuffer
  <1> QED BY <1>1, <1>3 DEF IsBuffer, Sound

LEMMA ShiftedSound ==
  ASSUME NEW d, IsBuffer(d), Sound(d), NEW offset \in Nat, NEW size \in Nat, size <= d.usage
  PROVE  IsBuffer(Shifted(d, offset, size)) /\ Sound(Shifted(d, offset, size))
  <1> DEFINE mem == [i \in DOMAIN d.mem |->
                        IF i \in (offset + 1)..(d.usage - size) THEN d.mem[i + size] ELSE d.mem[i]]
             e == [mem |-> mem, capacity |-> d.capacity, usage |-> d.usage]
  <1>1. Len(mem) = Len(d.mem) /\ DOMAIN mem = 1..Len(mem)
    BY FunctionIsSequence DEF IsBuffer
  <1>2. Shifted(d, offset, size) = Truncated([d EXCEPT !.mem = mem], d.usage - size)
    BY DEF Shifted
  <1> HIDE DEF mem
  <1>3. [d EXCEPT !.mem = mem] = e
    BY DEF IsBuffer
  <1>4. IsBuffer(e) /\ Sound(e) /\ e.usage = d.usage
    BY <1>1 DEF IsBuffer, Sound
  <1> HIDE DEF e
  <1>5. d.usage - size \in Nat /\ d.usage - size <= d.usage
    BY DEF IsBuffer
  <1> QED BY <1>2, <1>3, <1>4, <1>5, TruncatedSound

LEMMA DigitsReversedSound ==
  ASSUME NEW d, IsBuffer(d), Sound(d), NEW from
  PROVE  IsBuffer(DigitsReversed(d, from)) /\ Sound(DigitsReversed(d, from))
  <1> DEFINE mem == [i \in DOMAIN d.mem |->
                        IF i \in (from + 1)..d.usage THEN d.mem[d.usage + from + 1 - i] ELSE d.mem[i]]
  <1>1. Len(mem) = Len(d.mem) /\ DOMAIN mem = 1..Len(mem)
    BY FunctionIsSequence DEF IsBuffer
  <1>2. DigitsReversed(d, from) = [d EXCEPT !.mem = mem]
    BY DEF DigitsReversed
  <1> HIDE DEF mem
  <1>3. DigitsReversed(d, from) = [mem |-> mem, capacity |-> d.capacity, usage |-> d.usage]
    BY <1>2 DEF IsBuffer
  <1> QED BY <1>1, <1>3 DEF IsBuffer, Sound

-----------------------------------------------------------------------------
\* What the actions have to keep of BufferInv besides the job.
BuffersInv ==
    /\ buf = [b \in Buffers |-> buf[b]]
    /\ \A b \in Buffers : IsBuffer(buf[b]) /\ Sound(buf[b])
    /\ SafeUpToTwice

\* Replacing one buffer by a sound one.
LEMMA OneBuffer ==
  ASSUME BufferInv, NEW b \in Buffers, NEW d, IsBuffer(d), Sound(d),
         fault = NoFault, UNCHANGED fault, buf' = [buf EXCEPT ![b] = d]
  PROVE  BuffersInv'
  <1>1. \A c \in Buffers : buf'[c] = IF c = b THEN d ELSE buf[c]
    BY DEF BufferInv
  <1>2. buf' = [c \in Buffers |-> buf'[c]]
    BY DEF BufferInv
  <1>3. \A c \in Buffers : IsBuffer(buf'[c]) /\ Sound(buf'[c])
    BY <1>1 DEF BufferInv
  <1>4. SafeUpToTwice'
    BY DEF SafeUpToTwice, NoFault
  <1> QED BY <1>2, <1>3, <1>4 DEF BuffersInv

\* A push that does not fit ends behind twice the capacity.
LEMMA PushedSound ==
  ASSUME BufferInv, NEW b \in Buffers, NEW d, IsBuffer(d), Sound(d),
         d.usage = buf[b].usage, d.capacity = buf[b].capacity, fault = NoFault,
         NEW bytes, Len(bytes) \in Nat, Pushed(b, d, bytes)
  PROVE  BuffersInv'
  <1>1. CASE Fits(d, Len(bytes))
    <2>1. buf' = [buf EXCEPT ![b] = dbuffer_pushData(d, bytes)] /\ UNCHANGED fault
      BY <1>1 DEF Pushed
    <2> QED BY <1>1, <2>1, PushDataSound, OneBuffer
  <1>2. CASE ~Fits(d, Len(bytes))
    <2>1. buf' = buf /\ fault' = [kind |-> "write", on |-> b, end |-> buf[b].usage + Len(bytes)]
      BY <1>2 DEF Pushed, Overrun
    <2> DEFINE e == dbuffer_ensureCap(d, Len(bytes))
    <2>2. Len(e.mem) >= 2 * d.capacity /\ IsBuffer(e)
      BY <1>2, EnsureCapSound DEF Fits
    <2>3. buf[b].usage + Len(bytes) > Len(e.mem)
      BY <1>2, <2>2 DEF Fits, IsBuffer
    <2>4. buf[b].usage + Len(bytes) > 2 * buf[b].capacity
      BY <2>2, <2>3, SMTT(30) DEF IsBuffer
    <2>5. fault'.on = b /\ fault'.end = buf[b].usage + Len(bytes) /\ buf'[b].capacity = buf[b].capacity
      BY <2>1
    <2>6. SafeUpToTwice'
      BY <2>4, <2>5 DEF SafeUpToTwice
    <2> QED BY <2>1, <2>6 DEF BuffersInv, BufferInv
  <1> QED BY <1>1, <1>2

\* A call that pushes a number starts with local variables of their types.
LEMMA BeginTyped ==
  ASSUME NEW b \in Buffers, NEW n \in Int, NEW form \in {"bytes", "decimal", "hexadecimal"},
         NEW bytes \in Int, NEW signs \in Int, buf[b].usage \in Int, Begin(b, n, form, bytes, signs)
  PROVE  job' \in JobType
  <1> DEFINE num == IF n < 0 THEN -n ELSE n
             first == buf[b].usage + signs
  <1>1. num \in Int /\ first \in Int
    OBVIOUS
  <1>2. job' = [on |-> b, form |-> form, number |-> n, bytes |-> bytes,
                num |-> num, left |-> bytes, start |-> buf[b].usage, first |-> first]
    BY DEF Begin
  <1> HIDE DEF num, first
  <1> QED BY <1>1, <1>2 DEF JobType

LEMMA StringsHaveLength ==
  ASSUME NEW s \in Strings
  PROVE  Len(s) \in Nat
  BY LenProperties DEF ArgumentsAssumption

-----------------------------------------------------------------------------
\* A buffer that starts with room for n bytes takes 2 * n, whatever is done to
\* it: a write of dbuffer_pushData outside of the memory that was allocated ends
\* behind 2 * capacity, although dbuffer_ensureCap forgets that it has grown.
THEOREM SafeUpToTwiceAlways == BufferSpecification => []SafeUpToTwice
<1>1. BufferInit => BufferInv
  <2> SUFFICES ASSUME BufferInit PROVE BufferInv
    OBVIOUS
  <2>1. PICK size \in InitSizes : buf = [b \in Buffers |-> dbuffer_initSize(size)]
    BY DEF BufferInit
  <2>2. \A b \in Buffers : IsBuffer(buf[b]) /\ Sound(buf[b])
    BY <2>1, InitSizeSound
  <2>3. SafeUpToTwice
    BY DEF BufferInit, SafeUpToTwice, NoFault
  <2> QED BY <2>1, <2>2, <2>3 DEF BufferInit, BufferInv
<1>2. BufferInv /\ [BufferNext]_bufferVars => BufferInv'
  <2> SUFFICES ASSUME BufferInv, [BufferNext]_bufferVars PROVE BufferInv'
    OBVIOUS
  <2>0. SUFFICES (job = Idle \/ job \in JobType)' /\ BuffersInv'
    BY DEF BufferInv, BuffersInv
  <2>1. ASSUME NEW b \in Buffers, NEW s \in Strings, Push(b, s)
        PROVE  (job = Idle \/ job \in JobType)' /\ BuffersInv'
    BY <2>1, StringsHaveLength, PushedSound DEF Push, Ready, BufferInv
  <2>2. ASSUME NEW b \in Buffers, NEW s \in Strings, PushPtr(b, s)
        PROVE  (job = Idle \/ job \in JobType)' /\ BuffersInv'
    <3> DEFINE d == dbuffer_ensureCap(buf[b], PtrSize)
    <3>1. IsBuffer(buf[b]) /\ Sound(buf[b]) /\ PtrSize \in Nat
      BY DEF BufferInv, SizesAssumption
    <3>2. IsBuffer(d) /\ Sound(d) /\ d.usage = buf[b].usage /\ d.capacity = buf[b].capacity
      BY <3>1, EnsureCapSound
    <3>3. Pushed(b, d, s) /\ fault = NoFault /\ job = Idle /\ job' = job
      BY <2>2 DEF PushPtr, Ready
    <3> HIDE DEF d
    <3> QED BY <3>2, <3>3, StringsHaveLength, PushedSound
  <2>3. ASSUME NEW b \in Buffers, NEW n \in Numbers, dbuffer_pushIntStr(b, n)
        PROVE  (job = Idle \/ job \in JobType)' /\ BuffersInv'
    <3>1. IsBuffer(buf[b]) /\ Sound(buf[b]) /\ buf[b].usage \in Nat /\ n \in Int /\ fault = NoFault
      BY <2>3 DEF BufferInv, IsBuffer, dbuffer_pushIntStr, Ready, ArgumentsAssumption
    <3>2. buf[b].usage \in Int /\ n \in Int
      BY <3>1
    <3>3. job' \in JobType
      <4>1. PICK signs \in {0, 1} : Begin(b, n, "decimal", -1, signs)
        BY <2>3 DEF dbuffer_pushIntStr
      <4>2. signs \in Int /\ -1 \in Int
        BY <4>1
      <4> QED BY <3>2, <4>1, <4>2, BeginTyped
    <3>4. UNCHANGED <<buf, fault>> \/ Pushed(b, buf[b], <<45>>)
      BY <2>3 DEF dbuffer_pushIntStr
    <3>5. CASE UNCHANGED <<buf, fault>>
      BY <3>3, <3>5 DEF BufferInv, BuffersInv, SafeUpToTwice
    <3>6. CASE Pushed(b, buf[b], <<45>>)
      <4>1. Len(<<45>>) \in Nat
        OBVIOUS
      <4> QED BY <3>1, <3>3, <3>6, <4>1, PushedSound
    <3> QED BY <3>4, <3>5, <3>6
  <2>4. ASSUME NEW b \in Buffers, NEW n \in Numbers, NEW bytes \in IntSizes, dbuffer_pushLong(b, n, bytes)
        PROVE  (job = Idle \/ job \in JobType)' /\ BuffersInv'
    <3>1. buf[b].usage \in Int /\ n \in Int /\ bytes \in Int
      BY DEF BufferInv, IsBuffer, ArgumentsAssumption
    <3>2. Begin(b, n, "bytes", bytes, 0) /\ UNCHANGED <<buf, fault>>
      BY <2>4 DEF dbuffer_pushLong
    <3>3. job' \in JobType
      BY <3>1, <3>2, BeginTyped
    <3> QED BY <3>2, <3>3 DEF BufferInv, BuffersInv, SafeUpToTwice
  <2>5. ASSUME NEW b \in Buffers, NEW n \in Numbers, dbuffer_pushUIntHexStr(b, n)
        PROVE  (job = Idle \/ job \in JobType)' /\ BuffersInv'
    <3>1. buf[b].usage \in Int /\ n \in Int
      BY DEF BufferInv, IsBuffer, ArgumentsAssumption
    <3>2. Begin(b, n, "hexadecimal", -1, 0) /\ UNCHANGED <<buf, fault>>
      BY <2>5 DEF dbuffer_pushUIntHexStr
    <3>3. job' \in JobType
      BY <3>1, <3>2, BeginTyped
    <3> QED BY <3>2, <3>3 DEF BufferInv, BuffersInv, SafeUpToTwice
  <2>6. ASSUME NEW b \in Buffers, dbuffer_popPtr(b)
        PROVE  (job = Idle \/ job \in JobType)' /\ BuffersInv'
    <3>1. IsBuffer(buf[b]) /\ Sound(buf[b])
      BY DEF BufferInv
    <3>2. buf[b].usage - PtrSize \in Nat /\ buf[b].usage - PtrSize <= buf[b].usage
      BY <2>6, <3>1 DEF dbuffer_popPtr, IsBuffer, SizesAssumption
    <3>3. buf' = [buf EXCEPT ![b] = Truncated(buf[b], buf[b].usage - PtrSize)]
      BY <2>6 DEF dbuffer_popPtr, BufferInv
    <3> QED BY <2>6, <3>1, <3>2, <3>3, TruncatedSound, OneBuffer DEF dbuffer_popPtr, Ready
  <2>7. ASSUME NEW b \in Buffers, NEW offset \in 0..buf[b].usage, NEW size \in 0..buf[b].usage,
               dbuffer_removeRange(b, offset, size)
        PROVE  (job = Idle \/ job \in JobType)' /\ BuffersInv'
    <3>1. IsBuffer(buf[b]) /\ Sound(buf[b]) /\ offset \in Nat /\ size \in Nat /\ size <= buf[b].usage
      BY DEF BufferInv, IsBuffer
    <3>2. CASE buf' = [buf EXCEPT ![b] = Shifted(@, offset, size)] /\ UNCHANGED fault
      <4>1. buf' = [buf EXCEPT ![b] = Shifted(buf[b], offset, size)]
        BY <3>2 DEF BufferInv
      <4> QED BY <2>7, <3>1, <3>2, <4>1, ShiftedSound, OneBuffer DEF dbuffer_removeRange, Ready
    <3>3. CASE fault' = [kind |-> "move", on |-> b, end |-> offset + size] /\ UNCHANGED buf
      BY <2>7, <3>3 DEF dbuffer_removeRange, Ready, BufferInv, BuffersInv, SafeUpToTwice
    <3> QED BY <2>7, <3>2, <3>3 DEF dbuffer_removeRange
  <2>8. ASSUME NEW b \in Buffers, dbuffer_clear(b)
        PROVE  (job = Idle \/ job \in JobType)' /\ BuffersInv'
    <3>1. IsBuffer(buf[b]) /\ Sound(buf[b]) /\ 0 <= buf[b].usage
      BY DEF BufferInv, IsBuffer
    <3>2. buf' = [buf EXCEPT ![b] = Truncated(buf[b], 0)]
      BY <2>8 DEF dbuffer_clear, BufferInv
    <3> QED BY <2>8, <3>1, <3>2, TruncatedSound, OneBuffer DEF dbuffer_clear, Ready
  <2>9. ASSUME NEW a \in Buffers, NEW b \in Buffers, dbuffer_swap(a, b)
        PROVE  (job = Idle \/ job \in JobType)' /\ BuffersInv'
    <3>1. buf' = [c \in Buffers |-> IF c = b THEN buf[a] ELSE IF c = a THEN buf[b] ELSE buf[c]]
      BY <2>9 DEF dbuffer_swap, BufferInv
    <3>2. \A c \in Buffers : IsBuffer(buf'[c]) /\ Sound(buf'[c])
      BY <3>1 DEF BufferInv
    <3>3. SafeUpToTwice'
      BY <2>9 DEF dbuffer_swap, Ready, SafeUpToTwice, NoFault
    <3> QED BY <2>9, <3>1, <3>2, <3>3 DEF dbuffer_swap, Ready, BuffersInv
  <2>10. CASE PushDigit
    <3>1. job \in JobType /\ job.on \in Buffers /\ fault = NoFault
      BY <2>10 DEF PushDigit, BufferInv, JobType
    <3>2. IsBuffer(buf[job.on]) /\ Sound(buf[job.on]) /\ Len(<<DigitByte(job)>>) \in Nat
      BY <3>1 DEF BufferInv
    <3>3. BuffersInv'
      BY <2>10, <3>1, <3>2, PushedSound DEF PushDigit
    <3> DEFINE rest == job.num \div Base(job)
               left == IF job.left > 0 THEN job.left - 1 ELSE IF rest = 0 THEN 0 ELSE job.left
    <3>4. rest \in Int /\ left \in Int
      BY <3>1 DEF JobType, Base
    <3>5. job' = [job EXCEPT !.num = rest, !.left = left]
      BY <2>10 DEF PushDigit
    <3> HIDE DEF rest, left
    <3>6. job' \in JobType
      BY <3>1, <3>4, <3>5 DEF JobType
    <3> QED BY <3>3, <3>6
  <2>11. CASE EndNumber
    <3>1. job \in JobType /\ job.on \in Buffers /\ fault = NoFault /\ fault' = fault /\ job' = Idle
      BY <2>11 DEF EndNumber, BufferInv, JobType
    <3>2. IsBuffer(buf[job.on]) /\ Sound(buf[job.on])
      BY <3>1 DEF BufferInv
    <3>3. CASE buf' = [buf EXCEPT ![job.on] = DigitsReversed(@, job.first)]
      <4>1. buf' = [buf EXCEPT ![job.on] = DigitsReversed(buf[job.on], job.first)]
        BY <3>3 DEF BufferInv
      <4> QED BY <3>1, <3>2, <4>1, DigitsReversedSound, OneBuffer
    <3>4. CASE buf' = buf
      BY <3>1, <3>4 DEF BufferInv, BuffersInv, SafeUpToTwice
    <3> QED BY <2>11, <3>3, <3>4 DEF EndNumber
  <2>12. CASE UNCHANGED bufferVars
    BY <2>12 DEF bufferVars, BufferInv, BuffersInv, SafeUpToTwice
  <2> QED BY <2>1, <2>2, <2>3, <2>4, <2>5, <2>6, <2>7, <2>8, <2>9, <2>10, <2>11, <2>12 DEF BufferNext
<1>3. BufferInv => SafeUpToTwice
  BY DEF BufferInv
<1> QED BY <1>1, <1>2, <1>3, PTL DEF BufferSpecification

-----------------------------------------------------------------------------
\* zone_alloc.c

-----------------------------------------------------------------------------
\* Chains of headers.

Header == [next : Nat, freed : BOOLEAN]

\* Headers point to zones that were allocated before.
Descending(zs) == zs \in Seq(Header) /\ \A z \in DOMAIN zs : zs[z].next < z

LEMMA NoChain ==
  ASSUME NEW zs
  PROVE  Chain(zs, 0) = {}
  <1>1. Links(zs, 0, {})
    BY DEF Links
  <1> QED BY <1>1 DEF Chain

LEMMA ChainStarts ==
  ASSUME NEW zs, NEW z \in DOMAIN zs, z # 0
  PROVE  Chain(zs, z) = {z} \cup Chain(zs, zs[z].next)
  <1> DEFINE n == zs[z].next
  <1>1. ASSUME NEW y \in Chain(zs, z), y # z PROVE y \in Chain(zs, n)
    <2>1. y \in DOMAIN zs
      BY DEF Chain
    <2>2. ASSUME NEW C \in SUBSET DOMAIN zs, Links(zs, n, C) PROVE y \in C
      <3>1. Links(zs, z, C \cup {z})
        BY <2>2 DEF Links
      <3>2. y \in C \cup {z}
        BY <3>1 DEF Chain
      <3> QED BY <3>2, <1>1
    <2> QED BY <2>1, <2>2 DEF Chain
  <1>2. ASSUME NEW C \in SUBSET DOMAIN zs, Links(zs, z, C) PROVE z \in C /\ Links(zs, n, C)
    BY <1>2 DEF Links
  <1>3. z \in Chain(zs, z)
    BY <1>2 DEF Chain
  <1>4. ASSUME NEW y \in Chain(zs, n) PROVE y \in Chain(zs, z)
    BY <1>2 DEF Chain
  <1> QED BY <1>1, <1>3, <1>4

LEMMA ChainDescends ==
  ASSUME NEW zs, Descending(zs), NEW z \in 0..Len(zs), NEW y \in Chain(zs, z)
  PROVE  y \in 1..z
  <1>1. DOMAIN zs = 1..Len(zs) /\ Len(zs) \in Nat
    BY DEF Descending
  <1>2. 1..z \in SUBSET DOMAIN zs
    BY <1>1
  <1>3. ASSUME NEW c \in 1..z, zs[c].next # 0 PROVE zs[c].next \in 1..z
    <2>1. c \in DOMAIN zs
      BY <1>2
    <2>2. zs[c] \in Header /\ zs[c].next < c
      BY <2>1, <1>1 DEF Descending
    <2> QED BY <2>2, <1>3 DEF Header
  <1>4. Links(zs, z, 1..z)
    BY <1>3 DEF Links
  <1> QED BY <1>2, <1>4 DEF Chain

\* A new zone is in no chain of older ones.
LEMMA ChainAppend ==
  ASSUME NEW zs, Descending(zs), NEW h \in Header, h.next \in 0..Len(zs), NEW z \in 0..Len(zs)
  PROVE  Chain(Append(zs, h), z) = Chain(zs, z) /\ Descending(Append(zs, h))
  <1> DEFINE more == Append(zs, h)
  <1>1. /\ DOMAIN zs = 1..Len(zs) /\ Len(zs) \in Nat
        /\ more \in Seq(Header) /\ Len(more) = Len(zs) + 1 /\ DOMAIN more = 1..(Len(zs) + 1)
        /\ \A i \in 1..Len(zs) : more[i] = zs[i]
        /\ more[Len(zs) + 1] = h
    BY DEF Descending
  <1>2. Descending(more)
    BY <1>1 DEF Descending
  <1> HIDE DEF more
  <1>3. ASSUME NEW y \in Chain(more, z) PROVE y \in Chain(zs, z)
    <2>1. y \in DOMAIN zs
      BY <1>1, <1>2, ChainDescends
    <2>2. ASSUME NEW C \in SUBSET DOMAIN zs, Links(zs, z, C) PROVE y \in C
      <3>1. C \in SUBSET DOMAIN more /\ Links(more, z, C)
        BY <1>1, <2>2 DEF Links
      <3> QED BY <3>1 DEF Chain
    <2> QED BY <2>1, <2>2 DEF Chain
  <1>4. ASSUME NEW y \in Chain(zs, z) PROVE y \in Chain(more, z)
    <2>1. y \in DOMAIN more
      BY <1>1 DEF Chain
    <2>2. ASSUME NEW C \in SUBSET DOMAIN more, Links(more, z, C) PROVE y \in C
      <3> DEFINE K == C \cap DOMAIN zs
      <3>1. z # 0 => z \in K
        BY <1>1, <2>2 DEF Links
      <3>2. ASSUME NEW c \in K, zs[c].next # 0 PROVE zs[c].next \in K
        <4>1. zs[c].next \in Nat /\ zs[c].next < c /\ zs[c].next \in C
          BY <1>1, <2>2, <3>2 DEF Descending, Header, Links
        <4> QED BY <1>1, <3>2, <4>1
      <3>3. Links(zs, z, K)
        BY <3>1, <3>2 DEF Links
      <3> QED BY <3>3 DEF Chain
    <2> QED BY <2>1, <2>2 DEF Chain
  <1> QED BY <1>2, <1>3, <1>4 DEF more

\* To free a zone does not change the chains.
LEMMA ChainKept ==
  ASSUME NEW zs, NEW ys, DOMAIN ys = DOMAIN zs, \A z \in DOMAIN zs : ys[z].next = zs[z].next, NEW z
  PROVE  Chain(ys, z) = Chain(zs, z)
  BY DEF Chain, Links

LEMMA HeaderFreed ==
  ASSUME NEW h \in Header, NEW b \in BOOLEAN
  PROVE  [h EXCEPT !.freed = b] = [next |-> h.next, freed |-> b]
  BY DEF Header

-----------------------------------------------------------------------------
\* The strengthening.

\* What was handed out lies between the header and the end of a zone that is
\* allocated; two of them in one zone lie one behind the other.
BlockType == [zone : Nat, from : Nat, size : Nat]

Placed(b) ==
    b.size > 0 => /\ b.zone \in DOMAIN zones /\ ~zones[b.zone].freed
                  /\ HeaderSize <= b.from /\ b.from + b.size <= ZONE_SIZE

Apart(b, c) ==
    (b.size > 0 /\ c.size > 0 /\ b.zone = c.zone) =>
        b.from + b.size <= c.from \/ c.from + c.size <= b.from

BlocksPlaced ==
    /\ blocks \in Seq(BlockType)
    /\ \A i \in DOMAIN blocks : Placed(blocks[i])
    /\ \A i, j \in DOMAIN blocks : i # j => Apart(blocks[i], blocks[j])

\* The free part of the newest zone is behind everything in it.
Room ==
    phase = "live" =>
        /\ zalloc.zone = zalloc.topZone
        /\ zalloc.remaining > 0 =>
              /\ zalloc.zone \in DOMAIN zones /\ ~zones[zalloc.zone].freed
              /\ HeaderSize <= zalloc.ptr /\ zalloc.ptr + zalloc.remaining <= ZONE_SIZE
              /\ \A i \in DOMAIN blocks :
                    (blocks[i].size > 0 /\ blocks[i].zone = zalloc.zone) =>
                        blocks[i].from + blocks[i].size <= zalloc.ptr

\* Every zone that is not freed is in the chain or was dropped, none is both.
ZonesOwned ==
    /\ Descending(zones)
    /\ dropped \subseteq DOMAIN zones
    /\ Held \cap dropped = {}
    /\ ZonesAccounted

ZoneTypes ==
    /\ zalloc \in [topZone : Nat, zone : Nat, ptr : Nat, remaining : Nat]
    /\ zalloc.topZone <= Len(zones)
    /\ phase \in {"none", "live", "freeing"}
    /\ current \in 0..Len(zones)
    /\ phase # "live" => blocks = <<>>

ZoneInv == ZoneTypes /\ ZonesOwned /\ BlocksPlaced /\ Room

\* The strengthening is as strong as the property.
LEMMA PlacedIsDisjoint ==
  ASSUME BlocksPlaced
  PROVE  BlocksDisjoint
  <1> USE ZoneAssumption
  <1>1. ASSUME NEW i \in DOMAIN blocks PROVE blocks[i] \in BlockType /\ Placed(blocks[i])
    BY <1>1 DEF BlocksPlaced
  <1>2. ASSUME NEW i \in DOMAIN blocks
        PROVE  /\ blocks[i].size > 0 => blocks[i].zone \in DOMAIN zones /\ ~zones[blocks[i].zone].freed
               /\ Bytes(blocks[i]) \subseteq HeaderSize..(ZONE_SIZE - 1)
    BY <1>1, <1>2 DEF Placed, Bytes, BlockType
  <1>3. ASSUME NEW i \in DOMAIN blocks, NEW j \in DOMAIN blocks \ {i}, blocks[i].zone = blocks[j].zone
        PROVE  Bytes(blocks[i]) \cap Bytes(blocks[j]) = {}
    <2>1. Apart(blocks[i], blocks[j])
      BY <1>3 DEF BlocksPlaced
    <2> QED BY <1>1, <1>3, <2>1 DEF Apart, Bytes, BlockType
  <1> QED BY <1>2, <1>3 DEF BlocksDisjoint

\* To take size bytes of a zone that has them.
LEMMA TakePlaced ==
  ASSUME BlocksPlaced, NEW a, a.zone \in Nat, a.ptr \in Nat, a.remaining \in Nat,
         NEW size \in Nat, size <= a.remaining,
         blocks' = Append(blocks, Block(a, size)),
         size > 0 => /\ a.zone \in DOMAIN zones' /\ ~zones'[a.zone].freed
                     /\ HeaderSize <= a.ptr /\ a.ptr + a.remaining <= ZONE_SIZE,
         \A i \in DOMAIN blocks :
            /\ Placed(blocks[i])'
            /\ (blocks[i].size > 0 /\ blocks[i].zone = a.zone /\ size > 0) =>
                   blocks[i].from + blocks[i].size <= a.ptr
  PROVE  BlocksPlaced'
  <1> DEFINE new == Block(a, size)
             n == Len(blocks)
  <1>0. HeaderSize \in Nat /\ ZONE_SIZE \in Nat
    BY ZoneAssumption
  <1>1. new = [zone |-> a.zone, from |-> a.ptr, size |-> size] /\ new \in BlockType
    BY DEF Block, BlockType
  <1> HIDE DEF new
  <1>2. /\ blocks \in Seq(BlockType) /\ n \in Nat /\ DOMAIN blocks = 1..n
        /\ blocks' \in Seq(BlockType) /\ DOMAIN blocks' = 1..(n + 1)
        /\ blocks'[n + 1] = new /\ \A i \in 1..n : blocks'[i] = blocks[i]
    BY <1>1 DEF BlocksPlaced, new
  <1>3. Placed(new)'
    BY <1>0, <1>1 DEF Placed
  <1>4. ASSUME NEW i \in 1..n PROVE Apart(blocks[i], new) /\ Apart(new, blocks[i])
    <2>1. /\ blocks[i] \in BlockType
          /\ (blocks[i].size > 0 /\ blocks[i].zone = a.zone /\ size > 0) =>
                 blocks[i].from + blocks[i].size <= a.ptr
      BY <1>2
    <2> QED BY <1>1, <2>1 DEF Apart, BlockType
  <1>5. ASSUME NEW i \in 1..(n + 1) PROVE Placed(blocks[i])'
    <2>1. CASE i = n + 1
      BY <1>2, <1>3, <2>1 DEF Placed
    <2>2. CASE i \in 1..n
      BY <1>2, <2>2
    <2> QED BY <1>2, <2>1, <2>2
  <1>6. ASSUME NEW i \in 1..(n + 1), NEW j \in 1..(n + 1), i # j PROVE Apart(blocks'[i], blocks'[j])
    <2>1. CASE i = n + 1
      BY <1>2, <1>4, <1>6, <2>1
    <2>2. CASE j = n + 1
      BY <1>2, <1>4, <1>6, <2>2
    <2>3. CASE i \in 1..n /\ j \in 1..n
      BY <1>2, <1>6, <2>3 DEF BlocksPlaced
    <2> QED BY <1>2, <2>1, <2>2, <2>3
  <1> QED BY <1>2, <1>5, <1>6 DEF BlocksPlaced

\* The chain of a zone that has just been added.
LEMMA NewChain ==
  ASSUME Descending(zones), NEW t \in 0..Len(zones),
         zones' = Append(zones, [next |-> t, freed |-> FALSE])
  PROVE  /\ Descending(zones')
         /\ Len(zones') = Len(zones) + 1
         /\ DOMAIN zones' = DOMAIN zones \cup {Len(zones) + 1}
         /\ Len(zones) + 1 \notin DOMAIN zones
         /\ Len(zones) + 1 \in Nat \ {0}
         /\ Chain(zones', Len(zones) + 1) = {Len(zones) + 1} \cup Chain(zones, t)
         /\ ~zones'[Len(zones) + 1].freed
         /\ \A z \in DOMAIN zones : zones'[z] = zones[z]
  <1> DEFINE h == [next |-> t, freed |-> FALSE]
             n == Len(zones) + 1
  <1>1. /\ zones \in Seq(Header) /\ Len(zones) \in Nat /\ DOMAIN zones = 1..Len(zones)
        /\ Len(zones') = n /\ DOMAIN zones' = 1..n /\ zones'[n] = h
        /\ \A z \in DOMAIN zones : zones'[z] = zones[z]
    BY DEF Descending
  <1>2. h \in Header /\ h.next \in 0..Len(zones)
    BY <1>1 DEF Header
  <1>3. Descending(zones') /\ Chain(zones', t) = Chain(zones, t)
    BY <1>2, ChainAppend
  <1>4. Chain(zones', n) = {n} \cup Chain(zones', t)
    <2>1. n \in DOMAIN zones' /\ n # 0
      BY <1>1
    <2>2. zones'[n].next = t
      BY <1>1
    <2> HIDE DEF n
    <2>3. Chain(zones', n) = {n} \cup Chain(zones', zones'[n].next)
      BY <2>1, ChainStarts
    <2> QED BY <2>2, <2>3
  <1>5. n \notin DOMAIN zones /\ n \in Nat \ {0} /\ DOMAIN zones' = DOMAIN zones \cup {n}
        /\ ~zones'[n].freed
    BY <1>1
  <1> QED BY <1>1, <1>3, <1>4, <1>5

LEMMA InitKeeps == ZoneInit => ZoneInv
  <1> SUFFICES ASSUME ZoneInit PROVE ZoneInv
    OBVIOUS
  <1>1. ZoneTypes
    BY DEF ZoneInit, ZoneTypes, Zeroed
  <1>2. BlocksPlaced /\ Room
    BY DEF ZoneInit, BlocksPlaced, Room
  <1>3. Descending(zones)
    BY DEF ZoneInit, Descending
  <1> QED BY <1>1, <1>2, <1>3 DEF ZoneInit, ZoneInv, ZonesOwned, ZonesAccounted, Held

LEMMA ZoneInitKeeps ==
  ASSUME ZoneInv, zone_init
  PROVE  ZoneInv'
  <1> DEFINE n == Len(zones) + 1
  <1> USE ZoneAssumption
  <1>1. zones' = Append(zones, [next |-> 0, freed |-> FALSE]) /\ Descending(zones) /\ Len(zones) \in Nat
    BY DEF zone_init, NewHeader, Zeroed, ZoneInv, ZonesOwned, Descending
  <1>2. /\ Descending(zones') /\ Len(zones') = n /\ DOMAIN zones' = DOMAIN zones \cup {n}
        /\ n \notin DOMAIN zones /\ n \in Nat \ {0}
        /\ Chain(zones', n) = {n} /\ ~zones'[n].freed
        /\ \A z \in DOMAIN zones : zones'[z] = zones[z]
    BY <1>1, NewChain, NoChain
  <1>3. zalloc' = [topZone |-> n, zone |-> n, ptr |-> HeaderSize, remaining |-> ZONE_SIZE - HeaderSize]
    BY DEF zone_init, NewZone, MAX_ZONE_ALLOCATION
  <1>4. blocks = <<>> /\ blocks' = <<>> /\ phase = "none" /\ phase' = "live" /\ current' = current /\ dropped' = dropped
    BY DEF zone_init, ZoneInv, ZoneTypes
  <1>5. ZoneTypes'
    BY <1>1, <1>2, <1>3, <1>4 DEF ZoneInv, ZoneTypes
  <1>6. BlocksPlaced'
    BY <1>4 DEF BlocksPlaced
  <1>7. Room'
    BY <1>2, <1>3, <1>4 DEF Room
  <1>8. Held = {} /\ Held' = {n}
    BY <1>2, <1>3, <1>4 DEF Held
  <1>9. ZonesOwned'
    BY <1>2, <1>4, <1>8 DEF ZoneInv, ZonesOwned, ZonesAccounted
  <1> QED BY <1>5, <1>6, <1>7, <1>9 DEF ZoneInv

LEMMA ParserInitKeeps ==
  ASSUME ZoneInv, parser_init
  PROVE  ZoneInv'
  <1> DEFINE n == Len(zones) + 1
  <1>1. zones' = Append(zones, [next |-> 0, freed |-> FALSE]) /\ Descending(zones) /\ Len(zones) \in Nat
    BY DEF parser_init, NewHeader, Zeroed, ZoneInv, ZonesOwned, Descending
  <1>2. /\ Descending(zones') /\ Len(zones') = n /\ DOMAIN zones' = DOMAIN zones \cup {n}
        /\ n \notin DOMAIN zones /\ n \in Nat \ {0} /\ ~zones'[n].freed
        /\ \A z \in DOMAIN zones : zones'[z] = zones[z]
    BY <1>1, NewChain
  <1>3. zalloc' = [topZone |-> 0, zone |-> 0, ptr |-> 0, remaining |-> 0]
    BY DEF parser_init, Zeroed
  <1>4. blocks = <<>> /\ blocks' = <<>> /\ phase = "none" /\ phase' = "live"
        /\ current' = current /\ dropped' = dropped \cup {n}
    BY DEF parser_init, ZoneInv, ZoneTypes
  <1>5. ZoneTypes'
    BY <1>1, <1>2, <1>3, <1>4 DEF ZoneInv, ZoneTypes
  <1>6. BlocksPlaced' /\ Room'
    BY <1>3, <1>4 DEF BlocksPlaced, Room
  <1>7. Held = {} /\ Held' = {}
    BY <1>3, <1>4, NoChain DEF Held
  <1>8. ZonesOwned'
    BY <1>2, <1>4, <1>7 DEF ZoneInv, ZonesOwned, ZonesAccounted
  <1> QED BY <1>5, <1>6, <1>8 DEF ZoneInv

LEMMA AllocKeeps ==
  ASSUME ZoneInv, NEW size \in Sizes, zone_alloc(size)
  PROVE  ZoneInv'
  <1> USE ZoneAssumption
  <1>0. /\ size \in Nat /\ phase = "live" /\ phase' = "live" /\ size <= ZONE_SIZE - HeaderSize
        /\ current' = current /\ dropped' = dropped /\ Descending(zones)
        /\ zalloc \in [topZone : Nat, zone : Nat, ptr : Nat, remaining : Nat]
    BY DEF zone_alloc, MAX_ZONE_ALLOCATION, ZoneInv, ZoneTypes, ZonesOwned
  <1>a. /\ blocks \in Seq(BlockType) /\ DOMAIN blocks = 1..Len(blocks) /\ Len(blocks) \in Nat
        /\ \A i \in DOMAIN blocks : blocks[i] \in BlockType /\ Placed(blocks[i])
    BY DEF ZoneInv, BlocksPlaced
  <1>1. CASE size <= zalloc.remaining
    <2>1. zalloc' = Taken(zalloc, size) /\ blocks' = Append(blocks, Block(zalloc, size)) /\ zones' = zones
      BY <1>0, <1>1 DEF zone_alloc
    <2>2. zalloc' = [topZone |-> zalloc.topZone, zone |-> zalloc.zone,
                     ptr |-> zalloc.ptr + size, remaining |-> zalloc.remaining - size]
      BY <1>0, <2>1 DEF Taken
    <2>3. ZoneTypes'
      BY <1>0, <1>1, <2>1, <2>2 DEF ZoneInv, ZoneTypes
    <2>4. ZonesOwned'
      BY <1>0, <2>1, <2>2 DEF ZoneInv, ZonesOwned, ZonesAccounted, Held
    <2>5. Room /\ (size > 0 => zalloc.remaining > 0)
      BY <1>0, <1>1 DEF ZoneInv
    <2>6. BlocksPlaced'
      <3>1. ASSUME NEW i \in DOMAIN blocks
            PROVE  /\ Placed(blocks[i])'
                   /\ (blocks[i].size > 0 /\ blocks[i].zone = zalloc.zone /\ size > 0) =>
                          blocks[i].from + blocks[i].size <= zalloc.ptr
        BY <1>0, <1>a, <2>1, <2>5 DEF Placed, Room
      <3>2. size > 0 => /\ zalloc.zone \in DOMAIN zones' /\ ~zones'[zalloc.zone].freed
                        /\ HeaderSize <= zalloc.ptr /\ zalloc.ptr + zalloc.remaining <= ZONE_SIZE
        BY <1>0, <2>1, <2>5 DEF Room
      <3> QED BY <1>0, <1>1, <2>1, <3>1, <3>2, TakePlaced DEF ZoneInv
    <2>7. Room'
      <3> SUFFICES ASSUME zalloc.remaining - size > 0 PROVE Room'
        BY <1>0, <2>1, <2>2, <2>5 DEF Room
      <3>1. zalloc.remaining > 0
        BY <1>0
      <3>2. ASSUME NEW i \in DOMAIN blocks', blocks'[i].size > 0, blocks'[i].zone = zalloc.zone
            PROVE  blocks'[i].from + blocks'[i].size <= zalloc.ptr + size
        <4>1. CASE i \in DOMAIN blocks
          <5>1. blocks'[i] = blocks[i] /\ blocks[i] \in BlockType
            BY <1>a, <2>1, <4>1
          <5>2. blocks[i].from + blocks[i].size <= zalloc.ptr
            BY <1>0, <2>5, <3>1, <3>2, <4>1, <5>1 DEF Room
          <5> QED BY <1>0, <5>1, <5>2 DEF BlockType
        <4>2. CASE i = Len(blocks) + 1
          BY <1>0, <1>a, <2>1, <4>2 DEF Block
        <4> QED BY <1>a, <2>1, <4>1, <4>2
      <3> QED BY <1>0, <2>1, <2>2, <2>5, <3>1, <3>2 DEF Room
    <2> QED BY <2>3, <2>4, <2>6, <2>7 DEF ZoneInv
  <1>2. CASE size > zalloc.remaining
    <2> DEFINE n == Len(zones) + 1
               a == NewZone(zalloc)
    <2>1. zalloc' = Taken(a, size) /\ blocks' = Append(blocks, Block(a, size))
          /\ zones' = Append(zones, [next |-> zalloc.topZone, freed |-> FALSE])
      BY <1>0, <1>2 DEF zone_alloc, NewHeader
    <2>2. a = [topZone |-> n, zone |-> n, ptr |-> HeaderSize, remaining |-> ZONE_SIZE - HeaderSize]
      BY DEF NewZone, MAX_ZONE_ALLOCATION
    <2>3. zalloc' = [topZone |-> n, zone |-> n, ptr |-> HeaderSize + size,
                     remaining |-> ZONE_SIZE - HeaderSize - size]
      <3> HIDE DEF a
      <3> QED BY <2>1, <2>2 DEF Taken
    <2>4. zalloc.topZone \in 0..Len(zones) /\ Len(zones) \in Nat /\ current \in 0..Len(zones)
      BY <1>0 DEF ZoneInv, ZoneTypes, Descending
    <2>5. /\ Descending(zones') /\ Len(zones') = n /\ DOMAIN zones' = DOMAIN zones \cup {n}
          /\ n \notin DOMAIN zones /\ n \in Nat \ {0}
          /\ Chain(zones', n) = {n} \cup Chain(zones, zalloc.topZone) /\ ~zones'[n].freed
          /\ \A z \in DOMAIN zones : zones'[z] = zones[z]
      BY <1>0, <2>1, <2>4, NewChain
    <2>6. ZoneTypes'
      BY <1>0, <2>3, <2>4, <2>5 DEF ZoneTypes
    <2>7. Held = Chain(zones, zalloc.topZone) /\ Held' = {n} \cup Held
      BY <1>0, <2>3, <2>5 DEF Held
    <2>8. ZonesOwned'
      BY <1>0, <2>5, <2>7 DEF ZoneInv, ZonesOwned, ZonesAccounted
    <2>9. ASSUME NEW i \in DOMAIN blocks
          PROVE  Placed(blocks[i])' /\ (blocks[i].size > 0 => blocks[i].zone # n)
      <3>1. Block(a, size) \in BlockType
        BY <1>0, <2>2, <2>4 DEF Block, BlockType
      <3>2. blocks'[i] = blocks[i]
        BY <1>a, <2>1, <3>1
      <3> QED BY <1>a, <2>5, <3>2 DEF Placed
    <2>10. BlocksPlaced'
      <3> HIDE DEF a
      <3>1. a.zone \in Nat /\ a.ptr \in Nat /\ a.remaining \in Nat /\ size <= a.remaining
        BY <1>0, <2>2, <2>5
      <3>2. size > 0 => /\ a.zone \in DOMAIN zones' /\ ~zones'[a.zone].freed
                        /\ HeaderSize <= a.ptr /\ a.ptr + a.remaining <= ZONE_SIZE
        BY <2>2, <2>5
      <3>3. ASSUME NEW i \in DOMAIN blocks
            PROVE  /\ Placed(blocks[i])'
                   /\ (blocks[i].size > 0 /\ blocks[i].zone = a.zone /\ size > 0) =>
                          blocks[i].from + blocks[i].size <= a.ptr
        <4>1. a.zone = n
          BY <2>2
        <4> QED BY <2>9, <4>1
      <3>4. BlocksPlaced /\ size \in Nat
        BY <1>0 DEF ZoneInv
      <3> QED BY <2>1, <3>1, <3>2, <3>3, <3>4, TakePlaced
    <2>11. Room'
      <3>1. ASSUME NEW i \in DOMAIN blocks', blocks'[i].size > 0, blocks'[i].zone = n
            PROVE  blocks'[i].from + blocks'[i].size <= HeaderSize + size
        <4>1. CASE i \in DOMAIN blocks
          <5>1. blocks'[i] = blocks[i]
            BY <1>a, <2>1, <4>1
          <5> QED BY <2>9, <3>1, <4>1, <5>1
        <4>2. CASE i = Len(blocks) + 1
          BY <1>0, <1>a, <2>1, <2>2, <4>2 DEF Block
        <4> QED BY <1>a, <2>1, <4>1, <4>2
      <3> QED BY <1>0, <2>3, <2>5, <3>1 DEF Room
    <2> QED BY <2>6, <2>8, <2>10, <2>11 DEF ZoneInv
  <1> QED BY <1>0, <1>1, <1>2

LEMMA FreeKeeps ==
  ASSUME ZoneInv, zone_free
  PROVE  ZoneInv'
  <1>1. phase = "live" /\ phase' = "freeing" /\ current' = zalloc.topZone /\ blocks' = <<>>
        /\ zalloc' = zalloc /\ zones' = zones /\ dropped' = dropped
    BY DEF zone_free
  <1>2. ZoneTypes'
    BY <1>1 DEF ZoneInv, ZoneTypes, ZonesOwned, Descending
  <1>3. BlocksPlaced' /\ Room'
    BY <1>1 DEF BlocksPlaced, Room
  <1>4. Held' = Held
    BY <1>1 DEF Held
  <1> QED BY <1>1, <1>2, <1>3, <1>4 DEF ZoneInv, ZonesOwned, ZonesAccounted

LEMMA FreeZoneKeeps ==
  ASSUME ZoneInv, FreeZone
  PROVE  ZoneInv'
  <1> DEFINE next == zones[current].next
  <1>1. phase = "freeing" /\ phase' = "freeing" /\ current # 0 /\ current' = next
        /\ zones' = [zones EXCEPT ![current].freed = TRUE]
        /\ zalloc' = zalloc /\ blocks' = blocks /\ dropped' = dropped /\ blocks = <<>>
    BY DEF FreeZone, ZoneInv, ZoneTypes
  <1>2. /\ zones \in Seq(Header) /\ Descending(zones) /\ current \in DOMAIN zones
        /\ DOMAIN zones = 1..Len(zones) /\ Len(zones) \in Nat
        /\ zones[current] \in Header /\ next \in Nat /\ next < current
    <2>1. zones \in Seq(Header) /\ Descending(zones) /\ current \in 0..Len(zones)
      BY DEF ZoneInv, ZoneTypes, ZonesOwned, Descending
    <2>2. DOMAIN zones = 1..Len(zones) /\ Len(zones) \in Nat /\ current \in DOMAIN zones
      BY <1>1, <2>1
    <2>3. zones[current] \in Header /\ next < current
      BY <2>1, <2>2 DEF Descending
    <2> QED BY <2>1, <2>2, <2>3 DEF Header
  <1>3. zones' = [zones EXCEPT ![current] = [next |-> next, freed |-> TRUE]]
    <2>1. [zones[current] EXCEPT !.freed = TRUE] = [next |-> next, freed |-> TRUE]
      BY <1>2, HeaderFreed
    <2>2. zones' = [zones EXCEPT ![current] = [zones[current] EXCEPT !.freed = TRUE]]
      BY <1>1
    <2> HIDE DEF next
    <2> QED BY <2>1, <2>2
  <1>4. /\ zones' \in Seq(Header) /\ DOMAIN zones' = DOMAIN zones /\ Len(zones') = Len(zones)
        /\ \A z \in DOMAIN zones : zones'[z] = IF z = current THEN [next |-> next, freed |-> TRUE]
                                               ELSE zones[z]
    BY <1>2, <1>3 DEF Header
  <1>5. \A z \in DOMAIN zones : zones'[z].next = zones[z].next
    BY <1>4
  <1>6. Descending(zones')
    BY <1>2, <1>4, <1>5 DEF Descending
  <1>7. Held = {current} \cup Chain(zones, next)
    BY <1>1, <1>2, ChainStarts DEF Held
  <1>8. Held' = Chain(zones, next)
    <2>1. PICK ys : ys = zones'
      OBVIOUS
    <2>2. DOMAIN ys = DOMAIN zones /\ \A z \in DOMAIN zones : ys[z].next = zones[z].next
      BY <1>4, <1>5, <2>1
    <2>3. Chain(ys, next) = Chain(zones, next)
      BY <2>2, ChainKept
    <2>4. Held' = Chain(ys, next)
      BY <1>1, <2>1 DEF Held
    <2> QED BY <2>3, <2>4
  <1>9. current \notin Chain(zones, next)
    BY <1>2, ChainDescends
  <1>10. {z \in DOMAIN zones' : ~zones'[z].freed} = {z \in DOMAIN zones : ~zones[z].freed} \ {current}
    BY <1>2, <1>4
  <1>11. ZonesOwned'
    BY <1>1, <1>2, <1>4, <1>6, <1>7, <1>8, <1>9, <1>10 DEF ZoneInv, ZonesOwned, ZonesAccounted
  <1>12. ZoneTypes'
    BY <1>1, <1>2, <1>4 DEF ZoneInv, ZoneTypes
  <1>13. BlocksPlaced' /\ Room'
    BY <1>1 DEF BlocksPlaced, Room
  <1> QED BY <1>11, <1>12, <1>13 DEF ZoneInv

LEMMA EndFreeKeeps ==
  ASSUME ZoneInv, EndFree
  PROVE  ZoneInv'
  <1>1. phase = "freeing" /\ phase' = "none" /\ current = 0 /\ UNCHANGED <<zalloc, zones, current, blocks, dropped>>
    BY DEF EndFree
  <1>2. ZoneTypes'
    BY <1>1 DEF ZoneInv, ZoneTypes
  <1>3. BlocksPlaced' /\ Room'
    BY <1>1 DEF ZoneInv, ZoneTypes, BlocksPlaced, Room
  <1>4. Held = {} /\ Held' = {}
    BY <1>1, NoChain DEF Held
  <1> QED BY <1>1, <1>2, <1>3, <1>4 DEF ZoneInv, ZonesOwned, ZonesAccounted

\* zone_alloc never hands out a byte twice, nor a byte of a header or outside of
\* a zone that is allocated; zone_free frees every zone once, and none is lost
\* but the one parser_init overwrites.  For any sizes and any number of zones.
THEOREM ZonesAlwaysSafe == ZoneSpecification => []ZonesSafe
<1>1. ZoneInit => ZoneInv
  BY InitKeeps
<1>2. ZoneInv /\ [ZoneNext]_zoneVars => ZoneInv'
  <2> SUFFICES ASSUME ZoneInv, [ZoneNext]_zoneVars PROVE ZoneInv'
    OBVIOUS
  <2>1. CASE zone_init
    BY <2>1, ZoneInitKeeps
  <2>2. CASE parser_init
    BY <2>2, ParserInitKeeps
  <2>3. ASSUME NEW size \in Sizes, zone_alloc(size) PROVE ZoneInv'
    BY <2>3, AllocKeeps
  <2>4. CASE zone_free
    BY <2>4, FreeKeeps
  <2>5. CASE FreeZone
    BY <2>5, FreeZoneKeeps
  <2>6. CASE EndFree
    BY <2>6, EndFreeKeeps
  <2>7. CASE UNCHANGED zoneVars
    BY <2>7 DEF zoneVars, ZoneInv, ZoneTypes, ZonesOwned, ZonesAccounted, Held, BlocksPlaced, Placed, Room
  <2> QED BY <2>1, <2>2, <2>3, <2>4, <2>5, <2>6, <2>7 DEF ZoneNext
<1>3. ZoneInv => ZonesSafe
  BY PlacedIsDisjoint DEF ZoneInv, ZonesSafe, ZonesOwned
<1> QED BY <1>1, <1>2, <1>3, PTL DEF ZoneSpecification
=============================================================================
