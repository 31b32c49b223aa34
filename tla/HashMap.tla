------------------------------ MODULE HashMap ------------------------------
(***************************************************************************)
(* hashmap.c: an array of circular linked lists that doubles when it is 80%  *)
(* full, used as a map, as a set, and through its iterator.                  *)
(*                                                                          *)
(* A bucket is the sequence of its entries.  The list of a bucket is         *)
(* initialised when it is first needed: buckets is a function on the         *)
(* buckets whose next pointer is not NULL.  Everything keyed by a hash map   *)
(* in the compiler (scopes, numbers of blocks, frontiers, phis) relies on it.*)
(***************************************************************************)
EXTENDS Integers, Sequences, FiniteSets, SequencesExt

CONSTANTS Keys,
          Hash,                     \* keyType.hashKey, equal keys have equal hashes
          Entries,                  \* the objects the entries are embedded in
          NULL,
          HM_INITIAL_BUCKET_SIZE

ASSUME HashAssumption == \A k \in Keys : Hash[k] \in Nat
ASSUME BucketAssumption == HM_INITIAL_BUCKET_SIZE \in Nat \ {0}
\* Callers give hashmap_set the address of an object, and test for NULL.
ASSUME EntryAssumption == NULL \notin Entries

VARIABLES buckets,      \* bucket index -> list of [key, data]
          bucketCount,
          size,
          old,          \* hashmap_rehash: what it has not moved yet of the array before
          it,           \* struct hashmap_it: bucket, and position in its list
          phase,        \* "ready", "rehashing", "iterating", "searching" or "crash" (a NULL dereference)
          visited,      \* how often the loop over the iterator was given each key
          result        \* what the last call returned

vars == <<buckets, bucketCount, size, old, it, phase, visited, result>>

-----------------------------------------------------------------------------
_hashmap_locateBucket(k) == Hash[k] % bucketCount

List(b) == IF b \in DOMAIN buckets THEN buckets[b] ELSE <<>>

\* _hashmap_findInBucket: the positions of the key, at most one.
FoundAt(k) == {p \in DOMAIN List(_hashmap_locateBucket(k)) :
                 List(_hashmap_locateBucket(k))[p].key = k}

Found(k) == FoundAt(k) # {}

hashmap_get(k) ==
    IF Found(k) THEN List(_hashmap_locateBucket(k))[Min(FoundAt(k))].data ELSE NULL

\* Mutant: a found entry stays in its list.
KeepFound(list, k) == list

\* list_deattach of the found entry, if there is one.
DetachFound(list, k) == IF Found(k) THEN RemoveAt(list, Min(FoundAt(k))) ELSE list

SizeWithout(k) == IF Found(k) THEN size - 1 ELSE size

\* LIST_INIT of a list that is needed for the first time, and list_add.
WithLast(b, entry) ==
    [x \in DOMAIN buckets \cup {b} |-> IF x = b THEN Append(List(b), entry) ELSE buckets[x]]

\* Mutant: the array grows only when it is full.
FullWhenEqual(n) == (n * 100) \div bucketCount < 101

HasRoom(n) == (n * 100) \div bucketCount < 80

\* hashmap_set: a found entry is replaced, the new one is the last of its list.
\* At 80% hashmap_rehash takes an empty array of twice the length.
hashmap_set(k, e) ==
    LET b == _hashmap_locateBucket(k)
        list == Append(DetachFound(List(b), k), [key |-> k, data |-> e])
        set == [x \in DOMAIN buckets \cup {b} |-> IF x = b THEN list ELSE buckets[x]]
    IN  /\ size' = SizeWithout(k) + 1
        /\ \/ /\ HasRoom(size')
              /\ buckets' = set
              /\ UNCHANGED <<bucketCount, old, phase>>
           \/ /\ ~HasRoom(size')
              /\ buckets' = <<>>
              /\ bucketCount' = 2 * bucketCount
              /\ old' = set
              /\ phase' = "rehashing"

-----------------------------------------------------------------------------
\* The iterator.  Position 0 is the NULL next pointer of a list that is not
\* initialised; the position after the last entry is the list head.

\* Between two loops the iterator is out of scope.
NoIterator == [bucket |-> 0, pos |-> 0]

FirstPos(b) == IF b \in DOMAIN buckets THEN 1 ELSE 0

_hashmap_it_bucketEnd(i) == i.bucket >= bucketCount \/ i.pos = Len(List(i.bucket)) + 1

NullDereferenced(i) == i.bucket < bucketCount /\ i.pos = 0

\* Mutant: an empty bucket is not passed.
StaysAtEmpty(i) ==
    IF List(i.bucket) = <<>> THEN i ELSE [bucket |-> i.bucket + 1, pos |-> FirstPos(i.bucket + 1)]

\* it->bucket++, and the first position there.
NextBucket(i) == [bucket |-> i.bucket + 1, pos |-> FirstPos(i.bucket + 1)]

\* How often the loop has been given each key; from 2 on it does not matter.
MaxVisits == 2
NoVisits == [k \in Keys |-> 0]
Visit(counts, k) == [counts EXCEPT ![k] = IF @ < MaxVisits THEN @ + 1 ELSE @]

-----------------------------------------------------------------------------
Init ==
    /\ buckets = <<>>
    /\ bucketCount = HM_INITIAL_BUCKET_SIZE
    /\ size = 0
    /\ old = <<>>
    /\ it = NoIterator
    /\ phase = "ready"
    /\ visited = NoVisits
    /\ result = NULL

\* hashmap_setRange, _setInt, _setPtr.  Here an entry is what the caller stores.  In
\* the code it is the structure the caller has embedded the bucket entry in, and
\* the caller is obliged to pass one that is in no list: the list node of a
\* structure set under two keys would be linked into two buckets.  Callers allocate
\* a structure for every set.
Set(k, e) ==
    /\ phase = "ready"
    /\ hashmap_set(k, e)
    /\ result' = NULL
    /\ UNCHANGED <<it, visited>>

\* One pass of the loop of hashmap_rehash, over the old array and the list of
\* each bucket: the entry goes to the end of its list in the new array.
hashmap_rehash ==
    /\ phase = "rehashing"
    /\ \E i \in DOMAIN old :
          /\ old[i] # <<>>
          /\ \A j \in DOMAIN old : j < i => old[j] = <<>>
          /\ buckets' = WithLast(_hashmap_locateBucket(Head(old[i]).key), Head(old[i]))
          /\ old' = [old EXCEPT ![i] = Tail(@)]
    /\ UNCHANGED <<bucketCount, size, it, phase, visited, result>>

\* free(old)
EndRehash ==
    /\ phase = "rehashing"
    /\ \A i \in DOMAIN old : old[i] = <<>>
    /\ old' = <<>>
    /\ phase' = "ready"
    /\ UNCHANGED <<buckets, bucketCount, size, it, visited, result>>

\* hashmap_getRange, _getInt, _getPtr, and the test of hashset_exists*
Get(k) ==
    /\ phase = "ready"
    /\ result' = hashmap_get(k)
    /\ UNCHANGED <<buckets, bucketCount, size, old, it, phase, visited>>

\* hashmap_removeRange, _removeInt, _removePtr, hashset_remove; the list stays
\* initialised.
hashmap_remove(k) ==
    LET b == _hashmap_locateBucket(k)
    IN  /\ phase = "ready"
        /\ buckets' = [x \in DOMAIN buckets |-> IF x = b THEN DetachFound(List(b), k) ELSE buckets[x]]
        /\ size' = SizeWithout(k)
        /\ result' = NULL
        /\ UNCHANGED <<bucketCount, old, it, phase, visited>>

\* hashset_insertPtr, hashset_insertInt
hashset_insert(k, e) ==
    /\ phase = "ready"
    /\ \/ /\ hashmap_get(k) # NULL
          /\ result' = 0
          /\ UNCHANGED <<buckets, bucketCount, size, old, phase>>
       \/ /\ hashmap_get(k) = NULL
          /\ hashmap_set(k, e)
          /\ result' = 1
    /\ UNCHANGED <<it, visited>>

\* for (it = hashmap_it_init(hm); !hashmap_it_end(&it); hashmap_it_next(&it))
\* as in hashmap_test.c; the map is not changed in the loop.
hashmap_it_init ==
    /\ phase = "ready"
    /\ it' = [bucket |-> 0, pos |-> FirstPos(0)]
    /\ phase' = "iterating"
    /\ visited' = NoVisits
    /\ result' = NULL
    /\ UNCHANGED <<buckets, bucketCount, size, old>>

\* One pass of the loop: hashmap_it_get and hashmap_it_next.
hashmap_it_next ==
    /\ phase = "iterating"
    /\ ~NullDereferenced(it)
    /\ ~_hashmap_it_bucketEnd(it)
    /\ visited' = Visit(visited, List(it.bucket)[it.pos].key)
    /\ result' = List(it.bucket)[it.pos].data
    /\ it' = [it EXCEPT !.pos = @ + 1]
    /\ UNCHANGED <<buckets, bucketCount, size, old, phase>>

\* hashmap_it_end: at the end of a bucket it looks for another one.
hashmap_it_end ==
    /\ phase = "iterating"
    /\ ~NullDereferenced(it)
    /\ _hashmap_it_bucketEnd(it)
    /\ it.bucket < bucketCount
    /\ it' = NextBucket(it)
    /\ phase' = "searching"
    /\ UNCHANGED <<buckets, bucketCount, size, old, visited, result>>

\* One pass of the loop of _hashmap_it_findNonEmptyBucket.
_hashmap_it_findNonEmptyBucket ==
    /\ phase = "searching"
    /\ \/ /\ it.bucket < bucketCount
          /\ List(it.bucket) = <<>>
          /\ it' = NextBucket(it)
          /\ UNCHANGED phase
       \/ /\ it.bucket >= bucketCount \/ List(it.bucket) # <<>>
          /\ phase' = "iterating"
          /\ UNCHANGED it
    /\ UNCHANGED <<buckets, bucketCount, size, old, visited, result>>

EndIteration ==
    /\ phase = "iterating"
    /\ it.bucket >= bucketCount
    /\ phase' = "ready"
    /\ it' = NoIterator
    /\ visited' = NoVisits
    /\ result' = NULL
    /\ UNCHANGED <<buckets, bucketCount, size, old>>

\* The first call of _hashmap_it_bucketEnd follows bucketPos, which is NULL
\* when bucket 0 has never been used.
IteratorCrash ==
    /\ phase = "iterating"
    /\ NullDereferenced(it)
    /\ phase' = "crash"
    /\ UNCHANGED <<buckets, bucketCount, size, old, it, visited, result>>

Iterate == \/ hashmap_it_next \/ hashmap_it_end \/ _hashmap_it_findNonEmptyBucket
           \/ EndIteration \/ IteratorCrash

Next == \/ \E k \in Keys, e \in Entries : Set(k, e) \/ hashset_insert(k, e)
        \/ \E k \in Keys : Get(k) \/ hashmap_remove(k)
        \/ hashmap_rehash \/ EndRehash
        \/ hashmap_it_init \/ Iterate

\* A loop, once begun, is run to its end.
Spec == Init /\ [][Next]_vars /\ WF_vars(hashmap_rehash \/ EndRehash \/ Iterate)

-----------------------------------------------------------------------------
\* What is stored, in the middle of hashmap_rehash in either of the arrays.
EntriesOf(lists) == UNION {ToSet(lists[b]) : b \in DOMAIN lists}
Stored == EntriesOf(buckets) \cup EntriesOf(old)
Mapped == {entry.key : entry \in Stored}

\* No two places of the lists hold the same key.
KeysOnce(lists) ==
    \A b, c \in DOMAIN lists : \A p \in DOMAIN lists[b], q \in DOMAIN lists[c] :
        lists[b][p].key = lists[c][q].key => b = c /\ p = q

\* Every entry lies in the bucket its key hashes to under the present length of
\* the array, no key occurs twice, neither in an array nor in the one before,
\* and size, which decides about rehashing, is the number of keys.  The lists
\* stay short: after every call the array is less than 80% full, so one doubling
\* per hashmap_set is enough.
WellFormed ==
    /\ \A b \in DOMAIN buckets : \A p \in DOMAIN buckets[b] :
          b = _hashmap_locateBucket(buckets[b][p].key)
    /\ KeysOnce(buckets)
    /\ KeysOnce(old)
    /\ \A e \in EntriesOf(buckets), f \in EntriesOf(old) : e.key # f.key
    /\ size = Cardinality(Mapped)
    /\ size * 100 < 80 * bucketCount

DataOf(k) == (CHOOSE entry \in Stored : entry.key = k).data
Contents == [k \in Mapped |-> DataOf(k)]

Map == INSTANCE MapSpec WITH
          map <- Contents,
          result <- result,
          iterating <- phase \in {"iterating", "searching", "crash"},
          visited <- {k \in Keys : visited[k] = 1}

\* The hash map is a map, through collisions, replacements, removals and
\* rehashing, and its iterator yields every entry exactly once.
IsAMap == Map!Spec

\* The loop over the iterator comes to an end.
IterationEnds == (phase = "iterating") ~> (phase \in {"ready", "crash"})

\* "the circular linked list gets lazily initialized. if the ->next is null that
\* means it is not initialized": the iterator copes with lists that are not.
IteratorHandlesUninitialized == phase # "crash"
=============================================================================
