---------------------------- MODULE HashMapProofs ----------------------------
(***************************************************************************)
(* The hash map is a map, for every set of keys, every hash function and     *)
(* every initial length of the array.                                        *)
(***************************************************************************)
EXTENDS HashMap, FiniteSetTheorems, SequenceTheorems, TLAPS

Entry == [key : Keys, data : Entries]

IsArray(lists) == lists \in [DOMAIN lists -> Seq(Entry)] /\ DOMAIN lists \subseteq Nat

\* Every entry is in the list of its home under the length count.
Located(lists, count) ==
    \A b \in DOMAIN lists : \A p \in DOMAIN lists[b] : b = Hash[lists[b][p].key] % count

Distinct(list) == \A p, q \in DOMAIN list : list[p].key = list[q].key => p = q

\* set is the array lists with one list set anew.
Replaces(set, lists, b, list) ==
    /\ DOMAIN set = DOMAIN lists \cup {b}
    /\ set[b] = list
    /\ \A x \in DOMAIN lists \ {b} : set[x] = lists[x]

-----------------------------------------------------------------------------
\* Lists and arrays of lists.

LEMMA InArray ==
  ASSUME NEW lists, NEW entry
  PROVE  entry \in EntriesOf(lists)
            <=> \E b \in DOMAIN lists : \E p \in DOMAIN lists[b] : lists[b][p] = entry
  BY DEF EntriesOf, ToSet

\* Taking out one place of a sequence.
LEMMA RemoveAtElements ==
  ASSUME NEW list \in Seq(Entry), NEW p \in DOMAIN list
  PROVE  /\ RemoveAt(list, p) \in Seq(Entry)
         /\ DOMAIN RemoveAt(list, p) = 1..(Len(list) - 1)
         /\ \A i \in 1..(Len(list) - 1) :
               RemoveAt(list, p)[i] = IF i < p THEN list[i] ELSE list[i + 1]
  <1> DEFINE before == SubSeq(list, 1, p - 1)
             after == SubSeq(list, p + 1, Len(list))
  <1>1. p \in 1..Len(list) /\ Len(list) \in Nat
    OBVIOUS
  <1>2. before \in Seq(Entry) /\ Len(before) = p - 1 /\ \A i \in 1..(p - 1) : before[i] = list[i]
    BY <1>1, SubSeqProperties
  <1>3. /\ after \in Seq(Entry) /\ Len(after) = Len(list) - p
        /\ \A i \in 1..(Len(list) - p) : after[i] = list[p + i]
    BY <1>1, SubSeqProperties
  <1> HIDE DEF before, after
  <1>4. before \o after \in Seq(Entry) /\ Len(before \o after) = Len(list) - 1
    BY <1>1, <1>2, <1>3, ConcatProperties
  <1>5. DOMAIN (before \o after) = 1..(Len(list) - 1)
    BY <1>4
  <1>6. ASSUME NEW i \in 1..(Len(list) - 1)
        PROVE  (before \o after)[i] = IF i < p THEN list[i] ELSE list[i + 1]
    <2>1. CASE i < p
      <3>1. i \in 1..(p - 1)
        BY <1>1, <2>1
      <3>2. (before \o after)[i] = before[i]
        BY <1>2, <1>3, <3>1, ConcatProperties
      <3> QED BY <1>2, <2>1, <3>1, <3>2
    <2>2. CASE ~(i < p)
      <3>0. /\ i \in 1..(Len(before) + Len(after)) /\ ~(i <= Len(before))
            /\ i - (p - 1) = (i - p) + 1 /\ i - Len(before) = i - (p - 1)
            /\ i - (p - 1) \in 1..(Len(list) - p) /\ p + (i - (p - 1)) = i + 1
        BY <1>1, <1>2, <1>3, <2>2
      <3>1. (before \o after)[i] = after[i - Len(before)]
        BY <1>2, <1>3, <3>0, ConcatProperties
      <3>2. after[i - (p - 1)] = list[i + 1]
        BY <1>3, <3>0
      <3> QED BY <2>2, <3>0, <3>1, <3>2
    <2> QED BY <2>1, <2>2
  <1> QED BY <1>4, <1>5, <1>6 DEF RemoveAt, before, after

\* Elements of an array of buckets in which one was replaced.
LEMMA ReplacedArray ==
  ASSUME NEW lists, IsArray(lists), NEW b \in Nat, NEW list \in Seq(Entry),
         NEW set, set = [x \in DOMAIN lists \cup {b} |-> IF x = b THEN list ELSE lists[x]]
  PROVE  IsArray(set) /\ Replaces(set, lists, b, list)
  BY DEF IsArray, Replaces

\* One list of an array is replaced by one of entries that have their home there.
LEMMA ListReplaced ==
  ASSUME NEW lists, IsArray(lists), NEW count \in Nat \ {0}, Located(lists, count), KeysOnce(lists),
         NEW b \in Nat, NEW list \in Seq(Entry), Distinct(list),
         \A p \in DOMAIN list : b = Hash[list[p].key] % count,
         NEW set, Replaces(set, lists, b, list)
  PROVE  /\ Located(set, count) /\ KeysOnce(set)
         /\ \A entry : entry \in EntriesOf(set)
              <=> entry \in ToSet(list) \/ (entry \in EntriesOf(lists) /\ Hash[entry.key] % count # b)
  <1>1. DOMAIN set = DOMAIN lists \cup {b} /\ set[b] = list /\ \A x \in DOMAIN lists \ {b} : set[x] = lists[x]
    BY DEF Replaces
  <1>3. Located(set, count)
    BY <1>1 DEF Located
  <1>4. KeysOnce(set)
    <2> SUFFICES ASSUME NEW x \in DOMAIN set, NEW y \in DOMAIN set,
                        NEW p \in DOMAIN set[x], NEW q \in DOMAIN set[y], set[x][p].key = set[y][q].key
                 PROVE  x = y /\ p = q
      BY DEF KeysOnce
    <2>1. x = y
      BY <1>3 DEF Located
    <2>2. CASE x = b
      BY <1>1, <2>1, <2>2 DEF Distinct
    <2>3. CASE x # b
      BY <1>1, <2>1, <2>3 DEF KeysOnce
    <2> QED BY <2>1, <2>2, <2>3
  <1>5. ASSUME NEW entry
        PROVE  entry \in EntriesOf(set)
                 <=> entry \in ToSet(list) \/ (entry \in EntriesOf(lists) /\ Hash[entry.key] % count # b)
    <2>1. entry \in EntriesOf(set) <=> \E x \in DOMAIN set : \E p \in DOMAIN set[x] : set[x][p] = entry
      BY InArray
    <2>2. entry \in EntriesOf(lists) <=> \E x \in DOMAIN lists : \E p \in DOMAIN lists[x] : lists[x][p] = entry
      BY InArray
    <2>3. entry \in ToSet(list) <=> \E p \in DOMAIN list : list[p] = entry
      BY DEF ToSet
    <2>4. ASSUME entry \in EntriesOf(set)
          PROVE  entry \in ToSet(list) \/ (entry \in EntriesOf(lists) /\ Hash[entry.key] % count # b)
      BY <1>1, <2>1, <2>2, <2>3, <2>4 DEF Located
    <2>5. ASSUME entry \in EntriesOf(lists), Hash[entry.key] % count # b PROVE entry \in EntriesOf(set)
      <3>1. PICK x \in DOMAIN lists : \E p \in DOMAIN lists[x] : lists[x][p] = entry
        BY <2>2, <2>5
      <3>2. x # b
        BY <2>5, <3>1 DEF Located
      <3> QED BY <1>1, <2>1, <3>1, <3>2
    <2>6. ASSUME entry \in ToSet(list) PROVE entry \in EntriesOf(set)
      BY <1>1, <2>1, <2>3, <2>6
    <2> QED BY <2>4, <2>5, <2>6
  <1> QED BY <1>3, <1>4, <1>5

\* An entry is added to its list; its key is in no other.
LEMMA AppendDistinct ==
  ASSUME NEW list \in Seq(Entry), Distinct(list), NEW entry \in Entry,
         \A p \in DOMAIN list : list[p].key # entry.key
  PROVE  /\ Append(list, entry) \in Seq(Entry) /\ Distinct(Append(list, entry))
         /\ ToSet(Append(list, entry)) = ToSet(list) \cup {entry}
         /\ \A p \in DOMAIN Append(list, entry) :
               Append(list, entry)[p] = entry \/ \E q \in DOMAIN list : Append(list, entry)[p] = list[q]
  <1> DEFINE more == Append(list, entry)
  <1>1. /\ more \in Seq(Entry) /\ DOMAIN more = 1..(Len(list) + 1) /\ DOMAIN list = 1..Len(list)
        /\ Len(list) \in Nat /\ more[Len(list) + 1] = entry
        /\ \A i \in 1..Len(list) : more[i] = list[i]
    BY AppendProperties
  <1> HIDE DEF more
  <1>2. Distinct(more)
    BY <1>1 DEF Distinct
  <1>3. ToSet(more) = ToSet(list) \cup {entry}
    BY <1>1 DEF ToSet
  <1>4. ASSUME NEW p \in DOMAIN more PROVE more[p] = entry \/ \E q \in DOMAIN list : more[p] = list[q]
    BY <1>1
  <1> QED BY <1>1, <1>2, <1>3, <1>4 DEF more

\* The first entry of a list is taken out of an array.
LEMMA HeadTaken ==
  ASSUME NEW lists, IsArray(lists), KeysOnce(lists), NEW i \in DOMAIN lists, lists[i] # <<>>,
         NEW rest, Replaces(rest, lists, i, Tail(lists[i]))
  PROVE  /\ Head(lists[i]) \in Entry /\ KeysOnce(rest)
         /\ \A entry : entry \in EntriesOf(lists) <=> entry = Head(lists[i]) \/ entry \in EntriesOf(rest)
         /\ \A entry \in EntriesOf(rest) : entry.key # Head(lists[i]).key
  <1> DEFINE list == lists[i]
             tail == Tail(list)
  <1>1. list \in Seq(Entry) /\ list # <<>> /\ DOMAIN list = 1..Len(list) /\ Len(list) \in Nat \ {0}
    BY EmptySeq DEF IsArray
  <1>2. /\ tail \in Seq(Entry) /\ DOMAIN tail = 1..(Len(list) - 1)
        /\ \A p \in 1..(Len(list) - 1) : tail[p] = list[p + 1]
        /\ Head(list) = list[1]
    BY <1>1, HeadTailProperties
  <1>3. DOMAIN rest = DOMAIN lists /\ rest[i] = tail /\ \A x \in DOMAIN lists \ {i} : rest[x] = lists[x]
    BY DEF Replaces
  <1> HIDE DEF tail
  <1>5. ASSUME NEW x \in DOMAIN rest, NEW p \in DOMAIN rest[x]
        PROVE  \E q \in DOMAIN lists[x] : /\ lists[x][q] = rest[x][p]
                                          /\ x = i => q = p + 1
                                          /\ x # i => q = p
    BY <1>1, <1>2, <1>3
  <1>6. KeysOnce(rest)
    <2> SUFFICES ASSUME NEW x \in DOMAIN rest, NEW y \in DOMAIN rest,
                        NEW p \in DOMAIN rest[x], NEW q \in DOMAIN rest[y], rest[x][p].key = rest[y][q].key
                 PROVE  x = y /\ p = q
      BY DEF KeysOnce
    <2>1. x = y
      BY <1>3, <1>5 DEF KeysOnce
    <2>2. CASE x = i
      <3>1. p \in 1..(Len(list) - 1) /\ q \in 1..(Len(list) - 1)
        BY <1>2, <1>3, <2>1, <2>2
      <3>2. p + 1 \in DOMAIN list /\ q + 1 \in DOMAIN list /\ list[p + 1].key = list[q + 1].key
        BY <1>1, <1>2, <1>3, <2>1, <2>2, <3>1
      <3>3. p + 1 = q + 1
        BY <3>2 DEF KeysOnce
      <3> QED BY <2>1, <3>1, <3>3
    <2>3. CASE x # i
      BY <1>3, <2>1, <2>3 DEF KeysOnce
    <2> QED BY <2>1, <2>2, <2>3
  <1>7. ASSUME NEW entry \in EntriesOf(rest)
        PROVE  entry \in EntriesOf(lists) /\ entry.key # Head(list).key
    <2>1. PICK x \in DOMAIN rest : \E p \in DOMAIN rest[x] : rest[x][p] = entry
      BY InArray
    <2>2. PICK p \in DOMAIN rest[x] : rest[x][p] = entry
      BY <2>1
    <2>3. PICK q \in DOMAIN lists[x] : lists[x][q] = entry /\ (x = i => q = p + 1)
      BY <1>5, <2>2
    <2>4. entry \in EntriesOf(lists)
      BY <1>3, <2>3, InArray
    <2>5. x = i => q # 1
      BY <1>2, <1>3, <2>3
    <2>6. 1 \in DOMAIN lists[i] /\ Head(list) = lists[i][1] /\ x \in DOMAIN lists
      BY <1>1, <1>2, <1>3
    <2>7. lists[x][q].key # lists[i][1].key
      BY <2>5, <2>6 DEF KeysOnce
    <2> QED BY <2>3, <2>4, <2>6, <2>7
  <1>8. ASSUME NEW entry \in EntriesOf(lists), entry # Head(list) PROVE entry \in EntriesOf(rest)
    <2>1. PICK x \in DOMAIN lists : \E p \in DOMAIN lists[x] : lists[x][p] = entry
      BY <1>8, InArray
    <2>2. PICK p \in DOMAIN lists[x] : lists[x][p] = entry
      BY <2>1
    <2>3. CASE x # i
      BY <1>3, <2>2, <2>3, InArray
    <2>4. CASE x = i
      <3>1. p \in 1..Len(list) /\ p # 1
        BY <1>1, <1>2, <1>8, <2>2, <2>4
      <3>2. p - 1 \in 1..(Len(list) - 1) /\ (p - 1) + 1 = p
        BY <1>1, <3>1
      <3>3. p - 1 \in DOMAIN rest[i] /\ rest[i][p - 1] = entry
        BY <1>2, <1>3, <2>2, <2>4, <3>2
      <3> QED BY <1>3, <3>3, InArray
    <2> QED BY <2>3, <2>4
  <1>9. Head(list) \in Entry /\ Head(list) \in EntriesOf(lists)
    <2>1. 1 \in DOMAIN list /\ Head(list) = list[1]
      BY <1>1, <1>2
    <2>2. Head(list) \in Entry
      BY <1>1, <2>1
    <2> QED BY <2>1, <2>2, InArray
  <1> QED BY <1>6, <1>7, <1>8, <1>9

-----------------------------------------------------------------------------
\* The invariant.

HashMapType ==
    /\ bucketCount \in Nat \ {0}
    /\ size \in Nat
    /\ IsArray(buckets)
    /\ IsArray(old)
    /\ phase \in {"ready", "rehashing", "iterating", "searching", "crash"}
    /\ phase # "rehashing" => old = <<>>
    /\ IsFiniteSet(Mapped)

\* The keys before a place of the iterator.
Passed(i) ==
    {k \in Keys : \E b \in DOMAIN buckets : \E p \in DOMAIN buckets[b] :
        /\ buckets[b][p].key = k
        /\ b < i.bucket \/ (b = i.bucket /\ p < i.pos)}

\* A place of the iterator: of an uninitialised list only position 0, which is
\* the NULL next pointer, of another one the entries and the head after them.
IsPlace(i) ==
    /\ i \in [bucket : Nat, pos : Nat]
    /\ i.bucket <= bucketCount
    /\ i.bucket \in DOMAIN buckets => i.pos \in 1..(Len(buckets[i.bucket]) + 1)
    /\ i.bucket \notin DOMAIN buckets => i.pos = 0

Looping == phase \in {"iterating", "searching", "crash"}

\* The loop was given the keys before the iterator once, and no other.
IteratorInv ==
    /\ ~Looping => visited = NoVisits
    /\ Looping => /\ IsPlace(it)
                  /\ visited = [k \in Keys |-> IF k \in Passed(it) THEN 1 ELSE 0]
    /\ phase = "searching" => it.pos = FirstPos(it.bucket)

HashMapInv == HashMapType /\ WellFormed /\ IteratorInv

USE HashAssumption, BucketAssumption, EntryAssumption

\* An entry that is found is in the bucket of its hash.
LEMMA LocatedInBuckets ==
  WellFormed <=> /\ Located(buckets, bucketCount)
                 /\ KeysOnce(buckets) /\ KeysOnce(old)
                 /\ \A e \in EntriesOf(buckets), f \in EntriesOf(old) : e.key # f.key
                 /\ size = Cardinality(Mapped)
                 /\ size * 100 < 80 * bucketCount
  BY DEF WellFormed, Located, _hashmap_locateBucket

\* The empty array holds nothing.
LEMMA NothingIn ==
  EntriesOf(<<>>) = {} /\ IsArray(<<>>) /\ KeysOnce(<<>>) /\ \A n : Located(<<>>, n)
  <1>1. DOMAIN <<>> = {} /\ <<>> = [x \in {} |-> <<>>]
    OBVIOUS
  <1> QED BY <1>1 DEF EntriesOf, IsArray, KeysOnce, Located

\* What is in a bucket is an entry.
LEMMA EntryTyped ==
  ASSUME NEW lists, IsArray(lists), NEW entry \in EntriesOf(lists)
  PROVE  entry \in Entry
  BY InArray DEF IsArray

\* No key has two entries.
LEMMA StoredOnce ==
  ASSUME WellFormed, NEW e \in Stored, NEW f \in Stored, e.key = f.key
  PROVE  e = f
  <1>1. ASSUME NEW lists, KeysOnce(lists), e \in EntriesOf(lists), f \in EntriesOf(lists)
        PROVE  e = f
    BY <1>1, InArray DEF KeysOnce
  <1> QED BY <1>1 DEF Stored, WellFormed

\* Contents has a key exactly if an entry of it is stored.
LEMMA ContentsAre ==
  ASSUME WellFormed, NEW entry \in Stored
  PROVE  entry.key \in Mapped /\ DataOf(entry.key) = entry.data
  BY StoredOnce DEF Mapped, DataOf

\* _hashmap_findInBucket looks in the right list and finds the only place.
LEMMA LookUp ==
  ASSUME HashMapType, WellFormed, old = <<>>, NEW k \in Keys
  PROVE  /\ _hashmap_locateBucket(k) \in Nat
         /\ List(_hashmap_locateBucket(k)) \in Seq(Entry)
         /\ Found(k) <=> k \in Mapped
         /\ Found(k) => /\ _hashmap_locateBucket(k) \in DOMAIN buckets
                        /\ Min(FoundAt(k)) \in DOMAIN List(_hashmap_locateBucket(k))
                        /\ FoundAt(k) = {Min(FoundAt(k))}
                        /\ List(_hashmap_locateBucket(k))[Min(FoundAt(k))].key = k
         /\ hashmap_get(k) = IF k \in Mapped THEN DataOf(k) ELSE NULL
  <1> DEFINE b == _hashmap_locateBucket(k)
  <1>1. b \in Nat /\ b = Hash[k] % bucketCount
    BY DEF _hashmap_locateBucket, HashMapType, HashAssumption
  <1>2. List(b) \in Seq(Entry)
    BY DEF List, HashMapType, IsArray
  <1>3. ASSUME Found(k)
        PROVE  /\ b \in DOMAIN buckets
               /\ \E p \in DOMAIN List(b) : FoundAt(k) = {p} /\ Min(FoundAt(k)) = p /\ List(b)[p].key = k
    <2>1. PICK p \in DOMAIN List(b) : List(b)[p].key = k
      BY <1>3 DEF Found, FoundAt
    <2>2. b \in DOMAIN buckets /\ List(b) = buckets[b]
      BY <2>1 DEF List
    <2>3. FoundAt(k) = {p}
      BY <2>1, <2>2 DEF FoundAt, WellFormed, KeysOnce
    <2>4. p \in Nat
      BY <1>2, <2>1
    <2>5. Min({p}) = p
      BY <2>4 DEF Min
    <2> QED BY <2>1, <2>2, <2>3, <2>5
  <1>4. Stored = EntriesOf(buckets)
    BY NothingIn DEF Stored
  <1>5. ASSUME Found(k) PROVE k \in Mapped /\ List(b)[Min(FoundAt(k))].data = DataOf(k)
    <2>1. PICK p \in DOMAIN List(b) : FoundAt(k) = {p} /\ Min(FoundAt(k)) = p /\ List(b)[p].key = k
      BY <1>3, <1>5
    <2>2. List(b)[p] \in Stored
      BY <1>3, <1>4, <1>5, <2>1, InArray DEF List
    <2> QED BY <2>1, <2>2, ContentsAre
  <1>6. ASSUME k \in Mapped PROVE Found(k)
    <2>1. PICK entry \in EntriesOf(buckets) : entry.key = k
      BY <1>4, <1>6 DEF Mapped
    <2>2. PICK c \in DOMAIN buckets : \E p \in DOMAIN buckets[c] : buckets[c][p] = entry
      BY InArray
    <2>3. PICK p \in DOMAIN buckets[c] : buckets[c][p] = entry
      BY <2>2
    <2>4. c = b
      BY <2>1, <2>3 DEF WellFormed
    <2> QED BY <2>1, <2>3, <2>4 DEF Found, FoundAt, List
  <1>7. hashmap_get(k) = IF k \in Mapped THEN DataOf(k) ELSE NULL
    BY <1>5, <1>6 DEF hashmap_get
  <1> QED BY <1>1, <1>2, <1>3, <1>5, <1>6, <1>7

\* What is left of the list of a key without its entry.
LEMMA Detached ==
  ASSUME HashMapType, WellFormed, old = <<>>, NEW k \in Keys,
         NEW list, list = DetachFound(List(_hashmap_locateBucket(k)), k)
  PROVE  /\ list \in Seq(Entry) /\ Distinct(list)
         /\ \A p \in DOMAIN list : list[p].key # k /\ _hashmap_locateBucket(list[p].key) = _hashmap_locateBucket(k)
         /\ ToSet(list) = {x \in ToSet(List(_hashmap_locateBucket(k))) : x.key # k}
  <1> DEFINE b == _hashmap_locateBucket(k)
             all == List(b)
  <1>1. all \in Seq(Entry) /\ b \in Nat
    BY LookUp
  <1>2. Distinct(all) /\ \A p \in DOMAIN all : _hashmap_locateBucket(all[p].key) = b
    BY DEF List, Distinct, WellFormed, KeysOnce
  <1>3. CASE ~Found(k)
    <2>1. list = all /\ \A p \in DOMAIN all : all[p].key # k
      BY <1>3 DEF DetachFound, Found, FoundAt
    <2>2. \A x \in ToSet(all) : x.key # k
      BY <2>1 DEF ToSet
    <2> HIDE DEF all
    <2> QED BY <1>1, <1>2, <2>1, <2>2 DEF all
  <1>4. CASE Found(k)
    <2>1. PICK m \in DOMAIN all : m = Min(FoundAt(k)) /\ all[m].key = k
      BY <1>4, LookUp
    <2>2. list = RemoveAt(all, m)
      BY <1>4, <2>1 DEF DetachFound
    <2> HIDE DEF all
    <2>3. /\ list \in Seq(Entry) /\ DOMAIN list = 1..(Len(all) - 1)
          /\ \A i \in 1..(Len(all) - 1) : list[i] = IF i < m THEN all[i] ELSE all[i + 1]
      BY <1>1, <2>1, <2>2, RemoveAtElements
    <2>4. DOMAIN all = 1..Len(all) /\ Len(all) \in Nat /\ m \in 1..Len(all)
      BY <1>1, <2>1
    <2> DEFINE from(i) == IF i < m THEN i ELSE i + 1
    <2>5. \A i \in DOMAIN list : list[i] = all[from(i)] /\ from(i) \in DOMAIN all /\ from(i) # m
      BY <2>3, <2>4
    <2>6. \A i, j \in DOMAIN list : from(i) = from(j) => i = j
      BY <2>3, <2>4
    <2>7. \A i \in DOMAIN all : i # m => \E j \in DOMAIN list : from(j) = i
      <3> TAKE i \in DOMAIN all
      <3> HAVE i # m
      <3>1. CASE i < m
        BY <2>3, <2>4, <3>1
      <3>2. CASE i > m
        <4>1. i - 1 \in DOMAIN list /\ from(i - 1) = i
          BY <2>3, <2>4, <3>2
        <4> QED BY <4>1
      <3> QED BY <2>4, <3>1, <3>2
    <2> HIDE DEF from
    <2>8. Distinct(list)
      BY <1>2, <2>5, <2>6 DEF Distinct
    <2>9. \A p \in DOMAIN list : list[p].key # k /\ _hashmap_locateBucket(list[p].key) = b
      BY <1>2, <2>1, <2>5 DEF Distinct, all
    <2>10. \A i \in DOMAIN all : all[i].key # k <=> i # m
      BY <1>2, <2>1 DEF Distinct
    <2>11. ToSet(list) = {x \in ToSet(all) : x.key # k}
      BY <2>5, <2>7, <2>10 DEF ToSet
    <2> QED BY <2>3, <2>8, <2>9, <2>11 DEF all
  <1> QED BY <1>3, <1>4

-----------------------------------------------------------------------------
\* What the operations do to the set of entries.

LEMMA ListHolds ==
  ASSUME WellFormed, NEW k, NEW x
  PROVE  x \in ToSet(List(_hashmap_locateBucket(k)))
           <=> x \in EntriesOf(buckets) /\ _hashmap_locateBucket(x.key) = _hashmap_locateBucket(k)
  <1> DEFINE b == _hashmap_locateBucket(k)
  <1>1. x \in ToSet(List(b)) <=> b \in DOMAIN buckets /\ \E p \in DOMAIN buckets[b] : buckets[b][p] = x
    BY DEF ToSet, List
  <1>2. x \in EntriesOf(buckets) <=> \E c \in DOMAIN buckets : \E p \in DOMAIN buckets[c] : buckets[c][p] = x
    BY InArray
  <1> QED BY <1>1, <1>2 DEF WellFormed

\* The test of hashmap_set without the rounded quotient.
LEMMA LoadBelow ==
  ASSUME NEW n \in Nat, HashMapType
  PROVE  HasRoom(n) <=> n * 100 < 80 * bucketCount
  <1> DEFINE q == (n * 100) \div bucketCount
  <1>1. bucketCount \in Nat \ {0} /\ n * 100 \in Nat
    BY DEF HashMapType
  <1>2. q \in Nat /\ bucketCount * q <= n * 100 /\ n * 100 < bucketCount * q + bucketCount
    BY <1>1
  <1> HIDE DEF q
  <1>3. CASE q < 80
    <2>1. bucketCount * q + bucketCount <= bucketCount * 80
      <3>1. bucketCount * (q + 1) <= bucketCount * 80
        BY <1>1, <1>2, <1>3
      <3>2. bucketCount * (q + 1) = bucketCount * q + bucketCount
        BY <1>1, <1>2
      <3> QED BY <3>1, <3>2
    <2>2. n * 100 < bucketCount * 80
      BY <1>1, <1>2, <2>1
    <2> QED BY <1>1, <1>3, <2>2 DEF HasRoom, q
  <1>4. CASE ~(q < 80)
    <2>1. bucketCount * 80 <= bucketCount * q
      BY <1>1, <1>2, <1>4
    <2>2. bucketCount * 80 <= n * 100
      BY <1>1, <1>2, <2>1
    <2> QED BY <1>1, <1>4, <2>2 DEF HasRoom, q
  <1> QED BY <1>3, <1>4

\* The size is the number of keys of Contents.
LEMMA SizeIsMapped ==
  ASSUME HashMapType, WellFormed, old = <<>>, NEW k \in Keys
  PROVE  /\ SizeWithout(k) \in Nat /\ SizeWithout(k) <= size
         /\ IsFiniteSet(Mapped \ {k}) /\ Cardinality(Mapped \ {k}) = SizeWithout(k)
         /\ IsFiniteSet(Mapped \cup {k}) /\ Cardinality(Mapped \cup {k}) = SizeWithout(k) + 1
  <1>1. /\ size \in Nat /\ size = Cardinality(Mapped) /\ IsFiniteSet(Mapped)
        /\ Found(k) <=> k \in Mapped
    BY LookUp DEF HashMapType, WellFormed
  <1>2. /\ IsFiniteSet(Mapped \ {k}) /\ IsFiniteSet(Mapped \cup {k})
        /\ Cardinality(Mapped \ {k}) = IF k \in Mapped THEN size - 1 ELSE size
        /\ Cardinality(Mapped \cup {k}) = IF k \in Mapped THEN size ELSE size + 1
    BY <1>1, FS_AddElement, FS_RemoveElement
  <1>3. Cardinality(Mapped \ {k}) \in Nat
    BY <1>2, FS_CardinalityType
  <1> QED BY <1>1, <1>2, <1>3 DEF SizeWithout

\* What hashmap_set does to the array.
LEMMA SetEffect ==
  ASSUME HashMapType, WellFormed, phase = "ready", NEW k \in Keys, NEW e \in Entries, hashmap_set(k, e)
  PROVE  /\ HashMapType' /\ WellFormed'
         /\ phase' \in {"ready", "rehashing"}
         /\ Stored' = {x \in Stored : x.key # k} \cup {[key |-> k, data |-> e]}
  <1> DEFINE b == _hashmap_locateBucket(k)
             new == [key |-> k, data |-> e]
             left == DetachFound(List(b), k)
             list == Append(left, new)
             set == [x \in DOMAIN buckets \cup {b} |-> IF x = b THEN list ELSE buckets[x]]
  <1>1. old = <<>> /\ b \in Nat /\ List(b) \in Seq(Entry)
    BY LookUp DEF HashMapType
  <1>2. /\ left \in Seq(Entry) /\ Distinct(left)
        /\ \A p \in DOMAIN left : left[p].key # k /\ _hashmap_locateBucket(left[p].key) = b
        /\ ToSet(left) = {x \in ToSet(List(b)) : x.key # k}
    BY <1>1, Detached
  <1>3. new \in Entry /\ new.key = k
    BY DEF Entry
  <1> HIDE DEF left, new
  <1>4. /\ list \in Seq(Entry) /\ Distinct(list) /\ ToSet(list) = ToSet(left) \cup {new}
        /\ \A p \in DOMAIN list : list[p] = new \/ \E q \in DOMAIN left : list[p] = left[q]
    BY <1>2, <1>3, AppendDistinct
  <1> HIDE DEF list
  <1>5. \A p \in DOMAIN list : b = Hash[list[p].key] % bucketCount
    BY <1>2, <1>3, <1>4 DEF _hashmap_locateBucket
  <1>6. IsArray(set) /\ Replaces(set, buckets, b, list)
    BY <1>1, <1>4, ReplacedArray DEF HashMapType
  <1>7. (buckets' = set /\ bucketCount' = bucketCount /\ old' = <<>> /\ phase' = "ready"
           /\ size' = SizeWithout(k) + 1 /\ HasRoom(size'))
        \/ (buckets' = <<>> /\ bucketCount' = 2 * bucketCount /\ old' = set /\ phase' = "rehashing"
           /\ size' = SizeWithout(k) + 1 /\ ~HasRoom(size'))
    BY <1>1 DEF hashmap_set, list, left, new
  <1> HIDE DEF set
  <1>8. /\ Located(set, bucketCount) /\ KeysOnce(set)
        /\ \A x : x \in EntriesOf(set)
             <=> x \in ToSet(list) \/ (x \in EntriesOf(buckets) /\ Hash[x.key] % bucketCount # b)
    <2>1. Located(buckets, bucketCount) /\ KeysOnce(buckets) /\ IsArray(buckets) /\ bucketCount \in Nat \ {0}
      BY LocatedInBuckets DEF HashMapType
    <2> HIDE DEF b
    <2> QED BY <1>1, <1>4, <1>5, <1>6, <2>1, ListReplaced
  <1>9. EntriesOf(set) = {x \in EntriesOf(buckets) : x.key # k} \cup {new}
    <2>1. \A x : x \in ToSet(List(b)) <=> x \in EntriesOf(buckets) /\ _hashmap_locateBucket(x.key) = b
      BY ListHolds
    <2>2. \A x : x.key = k => Hash[x.key] % bucketCount = b
      BY DEF _hashmap_locateBucket
    <2>3. \A x : _hashmap_locateBucket(x.key) = Hash[x.key] % bucketCount
      BY DEF _hashmap_locateBucket
    <2> HIDE DEF b
    <2> QED BY <1>2, <1>4, <1>8, <2>1, <2>2, <2>3
  <1>10. Stored' = {x \in Stored : x.key # k} \cup {new}
    BY <1>1, <1>7, <1>9, NothingIn DEF Stored
  <1>11. Mapped' = Mapped \cup {k}
    <2>1. Mapped' = {x.key : x \in Stored'}
      BY DEF Mapped
    <2> QED BY <1>3, <1>10, <2>1 DEF Mapped
  <1>12. size' \in Nat /\ size' <= size + 1 /\ size' = Cardinality(Mapped') /\ IsFiniteSet(Mapped')
    <2>1. /\ SizeWithout(k) \in Nat /\ SizeWithout(k) <= size
          /\ IsFiniteSet(Mapped \cup {k}) /\ Cardinality(Mapped \cup {k}) = SizeWithout(k) + 1
      BY <1>1, SizeIsMapped
    <2>2. size' = SizeWithout(k) + 1 /\ size \in Nat
      BY <1>7 DEF HashMapType
    <2> QED BY <1>11, <2>1, <2>2
  <1>13. size' * 100 < 80 * bucketCount'
    <2>1. HasRoom(size') <=> size' * 100 < 80 * bucketCount
      BY <1>12, LoadBelow
    <2>2. size * 100 < 80 * bucketCount /\ size \in Nat /\ bucketCount \in Nat \ {0}
      BY DEF WellFormed, HashMapType
    <2> QED BY <1>7, <1>12, <2>1, <2>2
  <1>14. HashMapType'
    BY <1>6, <1>7, <1>12, NothingIn DEF HashMapType
  <1>15. WellFormed'
    <2>1. /\ \A c \in DOMAIN buckets' : \A p \in DOMAIN buckets'[c] :
                c = Hash[buckets'[c][p].key] % bucketCount'
          /\ KeysOnce(buckets') /\ KeysOnce(old')
      BY <1>7, <1>8, NothingIn DEF Located
    <2>2. \A x \in EntriesOf(buckets'), y \in EntriesOf(old') : x.key # y.key
      BY <1>7, NothingIn
    <2> QED BY <1>12, <1>13, <2>1, <2>2 DEF WellFormed, _hashmap_locateBucket
  <1> QED BY <1>7, <1>10, <1>14, <1>15 DEF new

\* What hashmap_remove does to the array.
LEMMA RemoveEffect ==
  ASSUME HashMapType, WellFormed, NEW k \in Keys, hashmap_remove(k)
  PROVE  HashMapType' /\ WellFormed' /\ phase' = "ready" /\ Stored' = {x \in Stored : x.key # k}
  <1> DEFINE b == _hashmap_locateBucket(k)
             left == DetachFound(List(b), k)
  <1>1. old = <<>> /\ b \in Nat /\ List(b) \in Seq(Entry) /\ phase = "ready"
    BY LookUp DEF HashMapType, hashmap_remove
  <1>2. /\ left \in Seq(Entry) /\ Distinct(left)
        /\ \A p \in DOMAIN left : left[p].key # k /\ _hashmap_locateBucket(left[p].key) = b
        /\ ToSet(left) = {x \in ToSet(List(b)) : x.key # k}
    BY <1>1, Detached
  <1>3. /\ buckets' = [x \in DOMAIN buckets |-> IF x = b THEN left ELSE buckets[x]]
        /\ size' = SizeWithout(k)
        /\ UNCHANGED <<bucketCount, old, phase>>
    BY DEF hashmap_remove
  <1> HIDE DEF left
  <1>4. /\ IsArray(buckets') /\ Located(buckets', bucketCount) /\ KeysOnce(buckets')
        /\ \A x : x \in EntriesOf(buckets') <=> x \in EntriesOf(buckets) /\ x.key # k
    <2>1. Located(buckets, bucketCount) /\ KeysOnce(buckets) /\ IsArray(buckets) /\ bucketCount \in Nat \ {0}
      BY LocatedInBuckets DEF HashMapType
    <2>2. \A x : x \in ToSet(List(b)) <=> x \in EntriesOf(buckets) /\ _hashmap_locateBucket(x.key) = b
      BY ListHolds
    <2>3. CASE b \in DOMAIN buckets
      <3> DEFINE set == [x \in DOMAIN buckets \cup {b} |-> IF x = b THEN left ELSE buckets[x]]
      <3>1. buckets' = set
        BY <1>3, <2>3
      <3>2. IsArray(set) /\ Replaces(set, buckets, b, left)
        BY <1>1, <1>2, <2>1, ReplacedArray
      <3> HIDE DEF set
      <3>3. \A p \in DOMAIN left : b = Hash[left[p].key] % bucketCount
        BY <1>2 DEF _hashmap_locateBucket
      <3>4. \A x : _hashmap_locateBucket(x.key) = Hash[x.key] % bucketCount
        BY DEF _hashmap_locateBucket
      <3>5. \A x : x.key = k => _hashmap_locateBucket(x.key) = b
        OBVIOUS
      <3> HIDE DEF b
      <3>6. /\ Located(set, bucketCount) /\ KeysOnce(set)
            /\ \A x : x \in EntriesOf(set)
                 <=> x \in ToSet(left) \/ (x \in EntriesOf(buckets) /\ Hash[x.key] % bucketCount # b)
        BY <1>1, <1>2, <2>1, <3>2, <3>3, ListReplaced
      <3> QED BY <1>2, <2>2, <3>1, <3>2, <3>4, <3>5, <3>6
    <2>4. CASE b \notin DOMAIN buckets
      <3>1. buckets' = buckets
        BY <1>3, <2>1, <2>4 DEF IsArray
      <3>2. List(b) = <<>>
        BY <2>4 DEF List
      <3>3. \A x : x \in EntriesOf(buckets) => x.key # k
        BY <2>2, <3>2 DEF ToSet
      <3> QED BY <2>1, <3>1, <3>3
    <2> QED BY <2>3, <2>4
  <1>5. Stored' = {x \in Stored : x.key # k}
    BY <1>1, <1>3, <1>4, NothingIn DEF Stored
  <1>6. Mapped' = Mapped \ {k}
    <2>1. Mapped' = {x.key : x \in Stored'}
      BY DEF Mapped
    <2> QED BY <1>5, <2>1 DEF Mapped
  <1>7. size' \in Nat /\ size' <= size /\ size' = Cardinality(Mapped') /\ IsFiniteSet(Mapped')
    BY <1>1, <1>3, <1>6, SizeIsMapped
  <1>8. HashMapType'
    BY <1>1, <1>3, <1>4, <1>7 DEF HashMapType
  <1>9. size' * 100 < 80 * bucketCount
    <2>1. size * 100 < 80 * bucketCount /\ size \in Nat /\ bucketCount \in Nat
      BY DEF WellFormed, HashMapType
    <2> QED BY <1>7, <2>1
  <1>10. WellFormed'
    <2>1. /\ \A c \in DOMAIN buckets' : \A p \in DOMAIN buckets'[c] :
                c = Hash[buckets'[c][p].key] % bucketCount'
          /\ KeysOnce(buckets') /\ KeysOnce(old')
      BY <1>1, <1>3, <1>4, NothingIn DEF Located
    <2>2. \A x \in EntriesOf(buckets'), y \in EntriesOf(old') : x.key # y.key
      BY <1>1, <1>3, NothingIn
    <2> QED BY <1>3, <1>7, <1>9, <2>1, <2>2 DEF WellFormed, _hashmap_locateBucket
  <1> QED BY <1>1, <1>3, <1>5, <1>8, <1>10

\* One pass of hashmap_rehash takes an entry from one array to the other.
LEMMA RehashEffect ==
  ASSUME HashMapType, WellFormed, hashmap_rehash
  PROVE  HashMapType' /\ WellFormed' /\ Stored' = Stored
  <1>1. PICK i \in DOMAIN old :
          /\ old[i] # <<>>
          /\ buckets' = WithLast(_hashmap_locateBucket(Head(old[i]).key), Head(old[i]))
          /\ old' = [old EXCEPT ![i] = Tail(@)]
    BY DEF hashmap_rehash
  <1> DEFINE entry == Head(old[i])
             b == _hashmap_locateBucket(entry.key)
             list == Append(List(b), entry)
             rest == [old EXCEPT ![i] = Tail(@)]
             set == [x \in DOMAIN buckets \cup {b} |-> IF x = b THEN list ELSE buckets[x]]
  <1>2. /\ KeysOnce(buckets) /\ KeysOnce(old) /\ IsArray(buckets) /\ IsArray(old)
        /\ Located(buckets, bucketCount) /\ bucketCount \in Nat \ {0}
    BY LocatedInBuckets DEF HashMapType
  <1>3. Replaces(rest, old, i, Tail(old[i])) /\ IsArray(rest)
    <2>1. old[i] \in Seq(Entry)
      BY <1>2 DEF IsArray
    <2>2. Tail(old[i]) \in Seq(Entry)
      BY <1>1, <2>1
    <2> QED BY <1>2, <2>2 DEF Replaces, IsArray
  <1> HIDE DEF rest
  <1>4. /\ entry \in Entry /\ KeysOnce(rest)
        /\ \A x : x \in EntriesOf(old) <=> x = entry \/ x \in EntriesOf(rest)
        /\ \A x \in EntriesOf(rest) : x.key # entry.key
    BY <1>1, <1>2, <1>3, HeadTaken
  <1>5. \A x \in EntriesOf(buckets) : x.key # entry.key
    BY <1>4 DEF WellFormed
  <1>6. buckets' = set /\ old' = rest
    BY <1>1 DEF WithLast, rest
  <1> HIDE DEF entry
  <1>7. b \in Nat /\ b = Hash[entry.key] % bucketCount /\ List(b) \in Seq(Entry)
    <2>1. entry.key \in Keys
      BY <1>4 DEF Entry
    <2>2. Hash[entry.key] \in Nat
      BY <2>1, HashAssumption
    <2>3. b \in Nat /\ b = Hash[entry.key] % bucketCount
      BY <1>2, <2>2 DEF _hashmap_locateBucket
    <2> HIDE DEF b
    <2>4. List(b) \in Seq(Entry)
      BY <1>2 DEF List, IsArray
    <2> QED BY <2>3, <2>4
  <1>8. \A x : x \in ToSet(List(b)) <=> x \in EntriesOf(buckets) /\ _hashmap_locateBucket(x.key) = b
    BY ListHolds
  <1>9. Distinct(List(b)) /\ \A p \in DOMAIN List(b) : List(b)[p] \in ToSet(List(b))
    BY <1>2 DEF Distinct, List, KeysOnce, ToSet
  <1>10. \A p \in DOMAIN List(b) : List(b)[p].key # entry.key /\ Hash[List(b)[p].key] % bucketCount = b
    BY <1>5, <1>8, <1>9 DEF _hashmap_locateBucket
  <1>11. /\ list \in Seq(Entry) /\ Distinct(list) /\ ToSet(list) = ToSet(List(b)) \cup {entry}
         /\ \A p \in DOMAIN list : list[p] = entry \/ \E q \in DOMAIN List(b) : list[p] = List(b)[q]
    BY <1>4, <1>7, <1>9, <1>10, AppendDistinct
  <1> HIDE DEF list
  <1>12. \A p \in DOMAIN list : b = Hash[list[p].key] % bucketCount
    BY <1>7, <1>10, <1>11
  <1>13. IsArray(set) /\ Replaces(set, buckets, b, list)
    BY <1>2, <1>7, <1>11, ReplacedArray
  <1> HIDE DEF set
  <1>14. /\ Located(set, bucketCount) /\ KeysOnce(set)
         /\ \A x : x \in EntriesOf(set)
              <=> x \in ToSet(list) \/ (x \in EntriesOf(buckets) /\ Hash[x.key] % bucketCount # b)
    <2> HIDE DEF b
    <2> QED BY <1>2, <1>7, <1>11, <1>12, <1>13, ListReplaced
  <1>15. \A x : x \in EntriesOf(set) <=> x \in EntriesOf(buckets) \/ x = entry
    <2>1. \A x : _hashmap_locateBucket(x.key) = Hash[x.key] % bucketCount
      BY DEF _hashmap_locateBucket
    <2> HIDE DEF b
    <2> QED BY <1>8, <1>11, <1>14, <2>1
  <1>16. Stored' = Stored
    BY <1>4, <1>6, <1>15 DEF Stored
  <1>17. UNCHANGED <<bucketCount, size, phase>> /\ phase = "rehashing" /\ Mapped' = Mapped
    BY <1>16 DEF hashmap_rehash, Mapped
  <1>18. HashMapType'
    BY <1>3, <1>6, <1>13, <1>17 DEF HashMapType
  <1>19. WellFormed'
    <2>1. /\ \A c \in DOMAIN buckets' : \A p \in DOMAIN buckets'[c] :
                c = Hash[buckets'[c][p].key] % bucketCount'
          /\ KeysOnce(buckets') /\ KeysOnce(old')
      BY <1>4, <1>6, <1>14, <1>17 DEF Located
    <2>2. \A x \in EntriesOf(buckets'), y \in EntriesOf(old') : x.key # y.key
      BY <1>4, <1>5, <1>6, <1>15 DEF WellFormed
    <2>3. size' = Cardinality(Mapped') /\ size' * 100 < 80 * bucketCount'
      BY <1>17 DEF WellFormed
    <2> QED BY <2>1, <2>2, <2>3 DEF WellFormed, _hashmap_locateBucket
  <1> QED BY <1>16, <1>18, <1>19

-----------------------------------------------------------------------------
\* The iterator.

LEMMA SameMap ==
  ASSUME HashMapType, WellFormed, phase # "rehashing", UNCHANGED <<buckets, bucketCount, size, old>>,
         phase' \in {"ready", "iterating", "searching", "crash"}
  PROVE  HashMapType' /\ WellFormed' /\ Stored' = Stored
  <1>1. Stored' = Stored /\ Mapped' = Mapped
    BY DEF Stored, Mapped
  <1>2. HashMapType'
    BY <1>1 DEF HashMapType
  <1>3. WellFormed'
    BY <1>1 DEF WellFormed, _hashmap_locateBucket
  <1> QED BY <1>1, <1>2, <1>3

\* The start of a bucket is a place of the iterator.
LEMMA FirstPlace ==
  ASSUME HashMapType, NEW b \in 0..bucketCount
  PROVE  IsPlace([bucket |-> b, pos |-> FirstPos(b)])
  <1>1. b \in Nat /\ bucketCount \in Nat /\ b <= bucketCount
    BY DEF HashMapType
  <1>2. ASSUME b \in DOMAIN buckets PROVE Len(buckets[b]) \in Nat
    BY <1>2 DEF HashMapType, IsArray
  <1>3. FirstPos(b) \in Nat
    BY DEF FirstPos
  <1>4. b \in DOMAIN buckets => FirstPos(b) \in 1..(Len(buckets[b]) + 1)
    BY <1>2 DEF FirstPos
  <1> QED BY <1>1, <1>3, <1>4 DEF IsPlace, FirstPos

\* At the start the iterator has passed nothing.
LEMMA NothingPassed ==
  ASSUME HashMapType
  PROVE  Passed([bucket |-> 0, pos |-> FirstPos(0)]) = {}
  <1> SUFFICES ASSUME NEW b \in DOMAIN buckets, NEW p \in DOMAIN buckets[b],
                      b < 0 \/ (b = 0 /\ p < FirstPos(0))
               PROVE  FALSE
    BY DEF Passed
  <1>1. b \in Nat /\ buckets[b] \in Seq(Entry)
    BY DEF HashMapType, IsArray
  <1>2. p \in Nat \ {0}
    BY <1>1
  <1> QED BY <1>1, <1>2 DEF FirstPos

\* A step in a list passes one key, and one that was not passed before.
LEMMA OnePassed ==
  ASSUME HashMapType, WellFormed, NEW i, IsPlace(i), i.bucket \in DOMAIN buckets,
         i.pos \in DOMAIN buckets[i.bucket], NEW j, j = [bucket |-> i.bucket, pos |-> i.pos + 1]
  PROVE  /\ IsPlace(j)
         /\ buckets[i.bucket][i.pos].key \in Keys \ Passed(i)
         /\ Passed(j) = Passed(i) \cup {buckets[i.bucket][i.pos].key}
  <1> DEFINE k == buckets[i.bucket][i.pos].key
  <1>1. i.bucket \in Nat /\ i.pos \in Nat /\ buckets[i.bucket] \in Seq(Entry)
    BY DEF IsPlace, HashMapType, IsArray
  <1>2. buckets[i.bucket][i.pos] \in Entry
    BY <1>1
  <1>3. k \in Keys
    BY <1>2 DEF Entry
  <1>4. i.pos \in 1..Len(buckets[i.bucket]) /\ Len(buckets[i.bucket]) \in Nat
    BY <1>1
  <1>5. IsPlace(j)
    BY <1>1, <1>4 DEF IsPlace
  <1>6. \A b \in DOMAIN buckets : \A p \in DOMAIN buckets[b] : b \in Nat /\ p \in Nat
    BY DEF HashMapType, IsArray
  <1>7. k \notin Passed(i)
    <2> SUFFICES ASSUME NEW b \in DOMAIN buckets, NEW p \in DOMAIN buckets[b], buckets[b][p].key = k,
                        b < i.bucket \/ (b = i.bucket /\ p < i.pos)
                 PROVE  FALSE
      BY DEF Passed
    <2>1. b = i.bucket /\ p = i.pos
      BY DEF WellFormed, KeysOnce
    <2> QED BY <1>1, <2>1
  <1>8. ASSUME NEW b \in DOMAIN buckets, NEW p \in DOMAIN buckets[b]
        PROVE  (b < j.bucket \/ (b = j.bucket /\ p < j.pos))
                 <=> (b < i.bucket \/ (b = i.bucket /\ p < i.pos)) \/ (b = i.bucket /\ p = i.pos)
    <2>1. j.bucket = i.bucket /\ j.pos = i.pos + 1
      OBVIOUS
    <2> QED BY <1>1, <1>6, <2>1
  <1>9. Passed(j) = Passed(i) \cup {k}
    BY <1>3, <1>8 DEF Passed
  <1> QED BY <1>3, <1>5, <1>7, <1>9

\* From the end of a list, or from an empty one, to the next.
LEMMA NextPlace ==
  ASSUME HashMapType, NEW i, IsPlace(i), i.bucket < bucketCount,
         List(i.bucket) = <<>> \/ i.pos = Len(List(i.bucket)) + 1
  PROVE  IsPlace(NextBucket(i)) /\ Passed(NextBucket(i)) = Passed(i)
  <1>1. i.bucket \in Nat /\ i.pos \in Nat /\ bucketCount \in Nat /\ i.bucket + 1 \in 0..bucketCount
    BY DEF IsPlace, HashMapType
  <1>2. IsPlace(NextBucket(i))
    BY <1>1, FirstPlace DEF NextBucket
  <1>3. \A b \in DOMAIN buckets : \A p \in DOMAIN buckets[b] :
           b \in Nat /\ p \in Nat \ {0} /\ p <= Len(buckets[b])
    BY DEF HashMapType, IsArray
  <1>4. ASSUME NEW b \in DOMAIN buckets, NEW p \in DOMAIN buckets[b]
        PROVE  (b < i.bucket + 1 \/ (b = i.bucket + 1 /\ p < FirstPos(i.bucket + 1)))
                 <=> b < i.bucket \/ (b = i.bucket /\ p < i.pos)
    <2>1. ~(p < FirstPos(i.bucket + 1))
      BY <1>3 DEF FirstPos
    <2>2. ASSUME b = i.bucket PROVE p < i.pos
      <3>1. List(i.bucket) = buckets[b] /\ buckets[b] \in Seq(Entry)
        BY <2>2 DEF List, HashMapType, IsArray
      <3>2. List(i.bucket) # <<>>
        BY <3>1
      <3>3. p \in Nat /\ p <= Len(buckets[b]) /\ Len(buckets[b]) \in Nat
        BY <1>3, <3>1
      <3> QED BY <1>1, <3>1, <3>2, <3>3
    <2>3. b \in Nat
      BY <1>3
    <2> QED BY <1>1, <2>1, <2>2, <2>3
  <1>5. Passed(NextBucket(i)) = Passed(i)
    BY <1>4 DEF Passed, NextBucket
  <1> QED BY <1>2, <1>5

\* At the end it has passed everything.
LEMMA AllPassed ==
  ASSUME HashMapType, WellFormed, old = <<>>, NEW i, IsPlace(i), i.bucket >= bucketCount
  PROVE  Passed(i) = Mapped
  <1>1. i.bucket \in Nat /\ bucketCount \in Nat \ {0} /\ IsArray(buckets)
    BY DEF IsPlace, HashMapType
  <1>2. Stored = EntriesOf(buckets)
    BY NothingIn DEF Stored
  <1>3. ASSUME NEW b \in DOMAIN buckets, NEW p \in DOMAIN buckets[b]
        PROVE  b < i.bucket /\ buckets[b][p].key \in Keys
    <2>1. buckets[b][p] \in Entry
      BY <1>1 DEF IsArray
    <2>2. buckets[b][p].key \in Keys /\ Hash[buckets[b][p].key] \in Nat
      BY <2>1, HashAssumption DEF Entry
    <2>3. b = Hash[buckets[b][p].key] % bucketCount
      BY DEF WellFormed, _hashmap_locateBucket
    <2>4. b \in 0..(bucketCount - 1)
      BY <1>1, <2>2, <2>3
    <2> QED BY <1>1, <2>2, <2>4
  <1>4. \A k : k \in Mapped <=> \E b \in DOMAIN buckets : \E p \in DOMAIN buckets[b] : buckets[b][p].key = k
    BY <1>2, InArray DEF Mapped
  <1> QED BY <1>3, <1>4 DEF Passed

\* What was passed depends on the array only.
LEMMA PassedUnchanged ==
  ASSUME UNCHANGED <<buckets, bucketCount>>, NEW i
  PROVE  /\ Passed(i)' = Passed(i)
         /\ IsPlace(i)' = IsPlace(i)
         /\ (FirstPos(i.bucket) = FirstPos(i.bucket))'
  BY DEF Passed, IsPlace

-----------------------------------------------------------------------------
\* The map that is stored.

LEMMA SelectedEntry ==
  ASSUME NEW S, NEW x \in S, \A y \in S : y.key = x.key => y = x
  PROVE  (CHOOSE y \in S : y.key = x.key) = x
  OBVIOUS

\* hashmap_set changes one key of Contents.
LEMMA ContentsSet ==
  ASSUME WellFormed, NEW k \in Keys, NEW e \in Entries,
         Stored' = {x \in Stored : x.key # k} \cup {[key |-> k, data |-> e]}
  PROVE  Contents' = Map!With(Contents, k, e)
  <1> DEFINE new == [key |-> k, data |-> e]
  <1>1. DOMAIN Contents = Mapped /\ Mapped' = Mapped \cup {k}
    <2>1. Mapped' = {x.key : x \in Stored'}
      BY DEF Mapped
    <2>2. new.key = k /\ Stored' = {x \in Stored : x.key # k} \cup {new}
      OBVIOUS
    <2> HIDE DEF new
    <2>3. Mapped' = Mapped \cup {k}
      BY <2>1, <2>2 DEF Mapped
    <2> QED BY <2>3 DEF Contents
  <1>2. ASSUME NEW j \in Mapped' PROVE DataOf(j)' = IF j = k THEN e ELSE DataOf(j)
    <2>1. CASE j = k
      <3>1. new \in Stored'
        OBVIOUS
      <3>2. new.key = k /\ new.data = e
        OBVIOUS
      <3>4. ASSUME NEW y \in Stored', y.key = k PROVE y = new
        BY <3>4
      <3> HIDE DEF new
      <3>3. (CHOOSE y \in Stored' : y.key = new.key) = new
        BY <3>1, <3>2, <3>4, SelectedEntry
      <3> QED BY <2>1, <3>1, <3>2, <3>3 DEF DataOf
    <2>2. CASE j # k
      <3>1. PICK x \in Stored : x.key = j
        BY <1>1, <2>2 DEF Mapped
      <3>2. x \in Stored' /\ \A y \in Stored' : y.key = x.key => y = x
        BY <2>2, <3>1, StoredOnce
      <3>3. (CHOOSE y \in Stored' : y.key = x.key) = x
        BY <3>2, SelectedEntry
      <3>4. DataOf(j) = x.data
        BY <3>1, ContentsAre
      <3> QED BY <2>2, <3>1, <3>3, <3>4 DEF DataOf
    <2> QED BY <2>1, <2>2
  <1>3. Contents' = [j \in Mapped' |-> DataOf(j)']
    BY DEF Contents
  <1>4. \A j \in Mapped : Contents[j] = DataOf(j)
    BY DEF Contents
  <1>5. Map!With(Contents, k, e) = [j \in Mapped' |-> IF j = k THEN e ELSE Contents[j]]
    BY <1>1 DEF Map!With
  <1>6. \A j \in Mapped' : (IF j = k THEN e ELSE Contents[j]) = DataOf(j)'
    BY <1>1, <1>2, <1>4
  <1> QED BY <1>3, <1>5, <1>6

\* hashmap_remove takes one key out of Contents.
LEMMA ContentsWithout ==
  ASSUME WellFormed, NEW k \in Keys, Stored' = {x \in Stored : x.key # k}
  PROVE  Contents' = Map!Without(Contents, k)
  <1>1. DOMAIN Contents = Mapped /\ Mapped' = Mapped \ {k}
    <2>1. Mapped' = {x.key : x \in Stored'}
      BY DEF Mapped
    <2> QED BY <2>1 DEF Contents, Mapped
  <1>2. ASSUME NEW j \in Mapped' PROVE DataOf(j)' = DataOf(j)
    <2>1. PICK x \in Stored : x.key = j
      BY <1>1 DEF Mapped
    <2>2. x \in Stored' /\ \A y \in Stored' : y.key = x.key => y = x
      BY <1>1, <2>1, StoredOnce
    <2>3. (CHOOSE y \in Stored' : y.key = x.key) = x
      BY <2>2, SelectedEntry
    <2>4. DataOf(j) = x.data
      BY <2>1, ContentsAre
    <2> QED BY <2>1, <2>3, <2>4 DEF DataOf
  <1>3. Contents' = [j \in Mapped' |-> DataOf(j)']
    BY DEF Contents
  <1>4. \A j \in Mapped : Contents[j] = DataOf(j)
    BY DEF Contents
  <1>5. Map!Without(Contents, k) = [j \in Mapped' |-> Contents[j]]
    BY <1>1 DEF Map!Without
  <1>6. \A j \in Mapped' : Contents[j] = DataOf(j)'
    BY <1>1, <1>2, <1>4
  <1> QED BY <1>3, <1>5, <1>6

\* Contents depends on what is stored only, not on where.
LEMMA ContentsKept ==
  ASSUME Stored' = Stored
  PROVE  Contents' = Contents
  BY DEF Contents, Mapped, DataOf

\* NULL is not the data of any entry, so that the result of hashmap_get tells.
LEMMA GetFinds ==
  ASSUME HashMapType, WellFormed, old = <<>>, NEW k \in Keys
  PROVE  /\ hashmap_get(k) = Map!Lookup(Contents, k)
         /\ hashmap_get(k) # NULL <=> k \in DOMAIN Contents
  <1>1. DOMAIN Contents = Mapped /\ \A j \in Mapped : Contents[j] = DataOf(j)
    BY DEF Contents
  <1>2. ASSUME k \in Mapped PROVE DataOf(k) \in Entries
    <2>1. PICK x \in Stored : x.key = k
      BY <1>2 DEF Mapped
    <2>2. x \in Entry
      BY EntryTyped DEF Stored, HashMapType
    <2> QED BY <2>1, <2>2, ContentsAre DEF Entry
  <1>3. hashmap_get(k) = IF k \in Mapped THEN DataOf(k) ELSE NULL
    BY LookUp
  <1> QED BY <1>1, <1>2, <1>3 DEF Map!Lookup

-----------------------------------------------------------------------------
\* Every step keeps the invariant and is a step of the map, or none.

AbstractStep == Map!Next \/ UNCHANGED Map!vars

\* The invariant holds of hashmap_init.
LEMMA InitInv == Init => HashMapInv
  <1> SUFFICES ASSUME Init PROVE HashMapInv
    OBVIOUS
  <1>1. Stored = {} /\ Mapped = {}
    BY NothingIn DEF Init, Stored, Mapped
  <1>2. IsFiniteSet(Mapped) /\ Cardinality(Mapped) = 0
    BY <1>1, FS_EmptySet
  <1>3. HashMapType
    BY <1>2, NothingIn DEF Init, HashMapType
  <1>4. WellFormed
    BY <1>2, NothingIn, LocatedInBuckets DEF Init
  <1>5. IteratorInv
    BY DEF Init, IteratorInv, Looping
  <1> QED BY <1>3, <1>4, <1>5 DEF HashMapInv

\* hashmap_init makes the empty map.
LEMMA InitIsMap == Init => Map!Init
  <1> SUFFICES ASSUME Init PROVE Map!Init
    OBVIOUS
  <1>1. Mapped = {}
    BY NothingIn DEF Init, Stored, Mapped
  <1>2. Contents = [k \in {} |-> NULL]
    BY <1>1 DEF Contents
  <1> QED BY <1>2 DEF Init, Map!Init, NoVisits

\* Calls change neither the old array nor the iterator.
LEMMA ReadyKeeps ==
  ASSUME HashMapInv, ~Looping, HashMapType', WellFormed', phase' \in {"ready", "rehashing"}, UNCHANGED visited
  PROVE  HashMapInv' /\ (phase \in {"iterating", "searching", "crash"})' = (phase \in {"iterating", "searching", "crash"})
  BY DEF HashMapInv, IteratorInv, Looping

\* hashmap_set, which may begin a rehash.
LEMMA SetStep ==
  ASSUME HashMapInv, NEW k \in Keys, NEW e \in Entries, Set(k, e)
  PROVE  HashMapInv' /\ Map!Set(k, e)
  <1>1. phase = "ready" /\ hashmap_set(k, e) /\ result' = NULL /\ UNCHANGED <<it, visited>>
    BY DEF Set
  <1>2. /\ HashMapType' /\ WellFormed' /\ phase' \in {"ready", "rehashing"}
        /\ Stored' = {x \in Stored : x.key # k} \cup {[key |-> k, data |-> e]}
    BY <1>1, SetEffect DEF HashMapInv
  <1>3. HashMapInv'
    BY <1>1, <1>2, ReadyKeeps DEF Looping
  <1>4. Contents' = Map!With(Contents, k, e)
    BY <1>2, ContentsSet DEF HashMapInv
  <1> QED BY <1>1, <1>2, <1>3, <1>4 DEF Map!Set

\* hashmap_get.
LEMMA GetStep ==
  ASSUME HashMapInv, NEW k \in Keys, Get(k)
  PROVE  HashMapInv' /\ Map!Get(k)
  <1>1. /\ phase = "ready" /\ result' = hashmap_get(k)
        /\ UNCHANGED <<buckets, bucketCount, size, old, it, phase, visited>>
    BY DEF Get
  <1>2. HashMapType' /\ WellFormed' /\ Stored' = Stored
    BY <1>1, SameMap DEF HashMapInv
  <1>3. HashMapInv'
    BY <1>1, <1>2, ReadyKeeps DEF Looping
  <1>4. Contents' = Contents
    BY <1>2, ContentsKept
  <1>5. result' = Map!Lookup(Contents, k)
    BY <1>1, GetFinds DEF HashMapInv, HashMapType
  <1> QED BY <1>1, <1>3, <1>4, <1>5 DEF Map!Get

\* hashmap_remove.
LEMMA RemoveStep ==
  ASSUME HashMapInv, NEW k \in Keys, hashmap_remove(k)
  PROVE  HashMapInv' /\ Map!Remove(k)
  <1>1. phase = "ready" /\ result' = NULL /\ UNCHANGED <<it, visited>>
    BY DEF hashmap_remove
  <1>2. HashMapType' /\ WellFormed' /\ phase' = "ready" /\ Stored' = {x \in Stored : x.key # k}
    BY RemoveEffect DEF HashMapInv
  <1>3. HashMapInv'
    BY <1>1, <1>2, ReadyKeeps DEF Looping
  <1>4. Contents' = Map!Without(Contents, k)
    BY <1>2, ContentsWithout DEF HashMapInv
  <1> QED BY <1>1, <1>2, <1>3, <1>4 DEF Map!Remove

\* hashset_insert leaves a key alone that is there.
LEMMA InsertStep ==
  ASSUME HashMapInv, NEW k \in Keys, NEW e \in Entries, hashset_insert(k, e)
  PROVE  HashMapInv' /\ Map!Insert(k, e)
  <1>1. phase = "ready" /\ UNCHANGED <<it, visited>> /\ old = <<>>
    BY DEF hashset_insert, HashMapInv, HashMapType
  <1>2. hashmap_get(k) # NULL <=> k \in DOMAIN Contents
    BY <1>1, GetFinds DEF HashMapInv
  <1>3. CASE hashmap_get(k) # NULL
    <2>1. result' = 0 /\ UNCHANGED <<buckets, bucketCount, size, old, phase>>
      BY <1>3 DEF hashset_insert
    <2>2. HashMapType' /\ WellFormed' /\ Stored' = Stored
      BY <1>1, <2>1, SameMap DEF HashMapInv
    <2>3. HashMapInv'
      BY <1>1, <2>1, <2>2, ReadyKeeps DEF Looping
    <2>4. Contents' = Contents
      BY <2>2, ContentsKept
    <2> QED BY <1>1, <1>2, <1>3, <2>1, <2>3, <2>4 DEF Map!Insert
  <1>4. CASE hashmap_get(k) = NULL
    <2>1. result' = 1 /\ hashmap_set(k, e)
      BY <1>4 DEF hashset_insert
    <2>2. /\ HashMapType' /\ WellFormed' /\ phase' \in {"ready", "rehashing"}
          /\ Stored' = {x \in Stored : x.key # k} \cup {[key |-> k, data |-> e]}
      BY <1>1, <2>1, SetEffect DEF HashMapInv
    <2>3. HashMapInv'
      BY <1>1, <2>2, ReadyKeeps DEF Looping
    <2>4. Contents' = Map!With(Contents, k, e)
      BY <2>2, ContentsSet DEF HashMapInv
    <2> QED BY <1>1, <1>2, <1>4, <2>1, <2>2, <2>3, <2>4 DEF Map!Insert
  <1> QED BY <1>3, <1>4

\* One entry is moved, or the rehash is over.
LEMMA RehashStep ==
  ASSUME HashMapInv, hashmap_rehash \/ EndRehash
  PROVE  HashMapInv' /\ UNCHANGED Map!vars
  <1>1. /\ phase = "rehashing" /\ phase' \in {"ready", "rehashing"}
        /\ UNCHANGED <<it, visited, result>>
    BY DEF hashmap_rehash, EndRehash
  <1>2. HashMapType' /\ WellFormed' /\ Stored' = Stored
    <2>1. CASE hashmap_rehash
      BY <2>1, RehashEffect DEF HashMapInv
    <2>2. CASE EndRehash
      <3>1. EntriesOf(old) = {}
        BY <2>2 DEF EndRehash, EntriesOf, ToSet
      <3>2. old' = <<>> /\ phase' = "ready" /\ UNCHANGED <<buckets, bucketCount, size>>
        BY <2>2 DEF EndRehash
      <3>3. Stored' = Stored /\ Mapped' = Mapped
        BY <3>1, <3>2, NothingIn DEF Stored, Mapped
      <3>4. HashMapType'
        BY <3>2, <3>3, NothingIn DEF HashMapInv, HashMapType
      <3>5. WellFormed'
        BY <3>2, <3>3, NothingIn DEF HashMapInv, WellFormed, _hashmap_locateBucket
      <3> QED BY <3>3, <3>4, <3>5
    <2> QED BY <2>1, <2>2
  <1>3. HashMapInv'
    BY <1>1, <1>2, ReadyKeeps DEF Looping
  <1>4. Contents' = Contents
    BY <1>2, ContentsKept
  <1> QED BY <1>1, <1>3, <1>4 DEF Map!vars

\* An iteration begins.
LEMMA BeginStep ==
  ASSUME HashMapInv, hashmap_it_init
  PROVE  HashMapInv' /\ Map!BeginIteration
  <1> DEFINE i == [bucket |-> 0, pos |-> FirstPos(0)]
  <1>1. /\ phase = "ready" /\ phase' = "iterating" /\ it' = i /\ visited' = NoVisits /\ result' = NULL
        /\ UNCHANGED <<buckets, bucketCount, size, old>>
    BY DEF hashmap_it_init
  <1>2. HashMapType' /\ WellFormed' /\ Stored' = Stored
    BY <1>1, SameMap DEF HashMapInv
  <1>3. IsPlace(i) /\ Passed(i) = {}
    <2>1. 0 \in 0..bucketCount
      BY DEF HashMapInv, HashMapType
    <2> QED BY <2>1, FirstPlace, NothingPassed DEF HashMapInv
  <1> HIDE DEF i
  <1>4. IteratorInv'
    BY <1>1, <1>3 DEF IteratorInv, Looping, IsPlace, Passed, NoVisits
  <1>5. Contents' = Contents
    BY <1>2, ContentsKept
  <1>6. {k \in Keys : visited'[k] = 1} = {}
    BY <1>1 DEF NoVisits
  <1> QED BY <1>1, <1>2, <1>4, <1>5, <1>6 DEF HashMapInv, Map!BeginIteration

\* The keys that were yielded are those of the entries passed.
LEMMA SeenArePassed ==
  ASSUME HashMapInv, Looping
  PROVE  {k \in Keys : visited[k] = 1} = Passed(it)
  BY DEF HashMapInv, IteratorInv, Passed

\* The iterator yields an entry and moves on.
LEMMA YieldStep ==
  ASSUME HashMapInv, hashmap_it_next
  PROVE  HashMapInv' /\ \E k \in Keys : Map!Yield(k)
  <1> DEFINE b == it.bucket
             p == it.pos
             k == List(b)[p].key
             j == [bucket |-> b, pos |-> p + 1]
  <1>1. /\ phase = "iterating" /\ UNCHANGED <<buckets, bucketCount, size, old, phase>>
        /\ visited' = Visit(visited, k) /\ result' = List(b)[p].data
    BY DEF hashmap_it_next
  <1>2. IsPlace(it) /\ visited = [x \in Keys |-> IF x \in Passed(it) THEN 1 ELSE 0] /\ Looping
    BY <1>1 DEF HashMapInv, IteratorInv, Looping
  <1>3. it = [bucket |-> b, pos |-> p] /\ b \in Nat /\ p \in Nat
    BY <1>2 DEF IsPlace
  <1>4. it' = j
    <2>1. it' = [it EXCEPT !.pos = @ + 1]
      BY DEF hashmap_it_next
    <2> QED BY <1>3, <2>1
  <1>5. b < bucketCount /\ p # 0 /\ p # Len(List(b)) + 1
    BY <1>2 DEF hashmap_it_next, NullDereferenced, _hashmap_it_bucketEnd, IsPlace, HashMapInv, HashMapType
  <1>6. b \in DOMAIN buckets /\ List(b) = buckets[b] /\ p \in DOMAIN buckets[b] /\ buckets[b][p] \in Entry
    <2>1. b \in DOMAIN buckets /\ List(b) = buckets[b] /\ p \in 1..(Len(buckets[b]) + 1)
      BY <1>2, <1>5 DEF IsPlace, List
    <2>2. buckets[b] \in Seq(Entry)
      BY <2>1 DEF HashMapInv, HashMapType, IsArray
    <2>3. p \in DOMAIN buckets[b]
      BY <1>5, <2>1, <2>2
    <2> QED BY <2>1, <2>2, <2>3
  <1>7. HashMapType' /\ WellFormed' /\ Stored' = Stored
    BY <1>1, SameMap DEF HashMapInv
  <1>8. IsPlace(j) /\ k \in Keys \ Passed(it) /\ Passed(j) = Passed(it) \cup {k}
    BY <1>2, <1>6, OnePassed DEF HashMapInv
  <1>9. buckets[b][p] \in Stored
    BY <1>6, InArray DEF Stored
  <1>10. k \in DOMAIN Contents /\ Contents[k] = List(b)[p].data
    BY <1>6, <1>9, ContentsAre DEF HashMapInv, Contents
  <1> HIDE DEF k, j
  <1>11. visited' = [x \in Keys |-> IF x \in Passed(j) THEN 1 ELSE 0]
    BY <1>1, <1>2, <1>8 DEF Visit, MaxVisits
  <1>12. IteratorInv'
    BY <1>1, <1>4, <1>8, <1>11 DEF IteratorInv, Looping, IsPlace, Passed
  <1>13. Contents' = Contents
    BY <1>7, ContentsKept
  <1>14. {x \in Keys : visited'[x] = 1} = {x \in Keys : visited[x] = 1} \cup {k}
    <2>1. \A x \in Keys : visited'[x] = 1 <=> x \in Passed(j)
      BY <1>11
    <2> QED BY <1>2, <1>8, <2>1, SeenArePassed
  <1>15. k \notin {x \in Keys : visited[x] = 1}
    BY <1>2, <1>8, SeenArePassed
  <1>16. HashMapInv'
    BY <1>7, <1>12 DEF HashMapInv
  <1>17. \E x \in Keys : Map!Yield(x)
    <2>1. PICK x \in Keys : x = k
      BY <1>8
    <2>2. Map!Yield(x)
      BY <1>1, <1>10, <1>13, <1>14, <1>15, <2>1 DEF Map!Yield
    <2> QED BY <2>2
  <1> QED BY <1>16, <1>17

\* The steps that look for another list yield nothing.
LEMMA SearchStep ==
  ASSUME HashMapInv, hashmap_it_end \/ _hashmap_it_findNonEmptyBucket \/ IteratorCrash
  PROVE  HashMapInv' /\ UNCHANGED Map!vars
  <1>1. /\ Looping /\ phase # "rehashing" /\ phase' \in {"iterating", "searching", "crash"}
        /\ UNCHANGED <<buckets, bucketCount, size, old, visited, result>>
    BY DEF hashmap_it_end, _hashmap_it_findNonEmptyBucket, IteratorCrash, Looping
  <1>2. HashMapType' /\ WellFormed' /\ Stored' = Stored
    BY <1>1, SameMap DEF HashMapInv
  <1>3. IsPlace(it) /\ visited = [x \in Keys |-> IF x \in Passed(it) THEN 1 ELSE 0]
    BY <1>1 DEF HashMapInv, IteratorInv
  <1>4. \E j : /\ it' = j /\ IsPlace(j) /\ Passed(j) = Passed(it)
               /\ phase' = "searching" => j.pos = FirstPos(j.bucket)
    <2> DEFINE j == NextBucket(it)
    <2>1. j.pos = FirstPos(j.bucket)
      BY DEF NextBucket
    <2>2. CASE hashmap_it_end
      <3>1. it' = j /\ it.bucket < bucketCount /\ it.pos = Len(List(it.bucket)) + 1
        BY <1>3, <2>2 DEF hashmap_it_end, _hashmap_it_bucketEnd, IsPlace, HashMapInv, HashMapType
      <3>2. IsPlace(j) /\ Passed(j) = Passed(it)
        BY <1>3, <3>1, NextPlace DEF HashMapInv
      <3> QED BY <2>1, <3>1, <3>2
    <2>3. CASE _hashmap_it_findNonEmptyBucket /\ it' = j /\ it.bucket < bucketCount /\ List(it.bucket) = <<>>
      <3>1. IsPlace(j) /\ Passed(j) = Passed(it)
        BY <1>3, <2>3, NextPlace DEF HashMapInv
      <3> QED BY <2>1, <2>3, <3>1
    <2>4. CASE it' = it /\ phase' # "searching"
      BY <1>3, <2>4
    <2>5. CASE IteratorCrash
      BY <1>3, <2>5 DEF IteratorCrash
    <2> HIDE DEF j
    <2>6. _hashmap_it_findNonEmptyBucket =>
             \/ it' = j /\ it.bucket < bucketCount /\ List(it.bucket) = <<>>
             \/ it' = it /\ phase' # "searching"
      BY DEF _hashmap_it_findNonEmptyBucket, j
    <2> QED BY <2>2, <2>3, <2>4, <2>5, <2>6
  <1>5. PICK j : /\ it' = j /\ IsPlace(j) /\ Passed(j) = Passed(it)
                 /\ phase' = "searching" => j.pos = FirstPos(j.bucket)
    BY <1>4
  <1>6. IteratorInv'
    <2>1. Passed(it)' = Passed(j) /\ IsPlace(it)' = IsPlace(j)
      BY <1>1, <1>5 DEF Passed, IsPlace
    <2>2. phase' = "searching" => it'.pos = FirstPos(it.bucket)'
      BY <1>1, <1>5 DEF FirstPos
    <2>3. visited' = [x \in Keys |-> IF x \in Passed(it)' THEN 1 ELSE 0]
      BY <1>1, <1>3, <1>5, <2>1
    <2> QED BY <1>1, <1>5, <2>1, <2>2, <2>3 DEF IteratorInv, Looping
  <1>7. Contents' = Contents
    BY <1>2, ContentsKept
  <1> QED BY <1>1, <1>2, <1>6, <1>7 DEF HashMapInv, Looping, Map!vars

\* The iteration ends.
LEMMA EndStep ==
  ASSUME HashMapInv, EndIteration
  PROVE  HashMapInv' /\ Map!EndIteration
  <1>1. /\ phase = "iterating" /\ phase' = "ready" /\ it.bucket >= bucketCount
        /\ visited' = NoVisits /\ result' = NULL
        /\ UNCHANGED <<buckets, bucketCount, size, old>>
    BY DEF EndIteration
  <1>2. HashMapType' /\ WellFormed' /\ Stored' = Stored
    BY <1>1, SameMap DEF HashMapInv
  <1>3. IsPlace(it) /\ old = <<>> /\ Looping
    BY <1>1 DEF HashMapInv, IteratorInv, Looping, HashMapType
  <1>4. {k \in Keys : visited[k] = 1} = Mapped
    BY <1>1, <1>3, SeenArePassed, AllPassed DEF HashMapInv
  <1>5. DOMAIN Contents = Mapped
    BY DEF Contents
  <1>6. IteratorInv'
    BY <1>1 DEF IteratorInv, Looping
  <1>7. Contents' = Contents
    BY <1>2, ContentsKept
  <1>8. {k \in Keys : visited'[k] = 1} = {}
    BY <1>1 DEF NoVisits
  <1> QED BY <1>1, <1>2, <1>4, <1>5, <1>6, <1>7, <1>8 DEF HashMapInv, Map!EndIteration

\* Every step keeps the invariant and is one of MapSpec or a stutter.
LEMMA HashMapStep ==
  ASSUME HashMapInv, [Next]_vars
  PROVE  HashMapInv' /\ AbstractStep
  <1>1. ASSUME NEW k \in Keys, NEW e \in Entries, Set(k, e) PROVE HashMapInv' /\ AbstractStep
    BY <1>1, SetStep DEF AbstractStep, Map!Next
  <1>2. ASSUME NEW k \in Keys, NEW e \in Entries, hashset_insert(k, e) PROVE HashMapInv' /\ AbstractStep
    BY <1>2, InsertStep DEF AbstractStep, Map!Next
  <1>3. ASSUME NEW k \in Keys, Get(k) PROVE HashMapInv' /\ AbstractStep
    BY <1>3, GetStep DEF AbstractStep, Map!Next
  <1>4. ASSUME NEW k \in Keys, hashmap_remove(k) PROVE HashMapInv' /\ AbstractStep
    BY <1>4, RemoveStep DEF AbstractStep, Map!Next
  <1>5. CASE hashmap_rehash \/ EndRehash
    BY <1>5, RehashStep DEF AbstractStep
  <1>6. CASE hashmap_it_init
    BY <1>6, BeginStep DEF AbstractStep, Map!Next
  <1>7. CASE hashmap_it_next
    BY <1>7, YieldStep DEF AbstractStep, Map!Next
  <1>8. CASE hashmap_it_end \/ _hashmap_it_findNonEmptyBucket \/ IteratorCrash
    BY <1>8, SearchStep DEF AbstractStep
  <1>9. CASE EndIteration
    BY <1>9, EndStep DEF AbstractStep, Map!Next
  <1>10. CASE UNCHANGED vars
    <2>1. UNCHANGED <<buckets, bucketCount, size, old, it, phase, visited, result>>
      BY <1>10 DEF vars
    <2>2. Stored' = Stored /\ Mapped' = Mapped
      BY <2>1 DEF Stored, Mapped
    <2>3. HashMapInv'
      BY <2>1, <2>2 DEF HashMapInv, HashMapType, WellFormed, _hashmap_locateBucket, IteratorInv,
                        Looping, IsPlace, Passed, FirstPos
    <2>4. Contents' = Contents
      BY <2>2, ContentsKept
    <2> QED BY <2>1, <2>3, <2>4 DEF AbstractStep, Map!vars
  <1> QED BY <1>1, <1>2, <1>3, <1>4, <1>5, <1>6, <1>7, <1>8, <1>9, <1>10 DEF Next, Iterate

\* The buckets stay well formed: every entry in the list of its home, no key
\* twice, size the number of keys, and the array less than 80% full, so that
\* the one doubling of hashmap_set is enough whatever was set and removed.
THEOREM WellFormedAlways == Spec => []WellFormed
  <1>1. Init => HashMapInv
    BY InitInv
  <1>2. HashMapInv /\ [Next]_vars => HashMapInv'
    BY HashMapStep
  <1>3. HashMapInv => WellFormed
    BY DEF HashMapInv
  <1> QED BY <1>1, <1>2, <1>3, PTL DEF Spec

\* hashmap.c implements the map that hashmap.h promises: every call changes and
\* finds what it should, hashmap_rehash nothing, and the iterator yields every
\* entry once.
THEOREM HashMapIsAMap == Spec => IsAMap
  <1>1. Init => HashMapInv /\ Map!Init
    BY InitInv, InitIsMap
  <1>2. HashMapInv /\ [Next]_vars => HashMapInv' /\ [Map!Next]_(Map!vars)
    BY HashMapStep DEF AbstractStep
  <1> QED BY <1>1, <1>2, PTL DEF Spec, IsAMap, Map!Spec
=============================================================================
