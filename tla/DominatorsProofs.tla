-------------------------- MODULE DominatorsProofs --------------------------
(***************************************************************************)
(* dominators.c is right: for every control flow graph whose edges agree     *)
(* and every order of its predecessor lists that is Analysable, the sweeps   *)
(* end, if they end, with the immediate dominators, and the runners with     *)
(* the dominance frontiers.                                                  *)
(***************************************************************************)
EXTENDS Dominators, SequenceTheorems, FiniteSetTheorems, WellFoundedInduction, TLAPS

-----------------------------------------------------------------------------
\* Trees of numbers that grow towards the root n - 1.  A number outside the
\* tree, such as SIZE_MAX, says that there is no dominator yet.

IsTree(d, n) ==
    /\ n \in Nat \ {0}
    /\ d \in [0..(n - 1) -> Nat]
    /\ d[n - 1] = n - 1
    /\ \A i \in 0..(n - 1) : i # n - 1 /\ d[i] \in 0..(n - 1) => i < d[i] /\ d[d[i]] \in 0..(n - 1)

Climbs(d, C) == \A c \in C : d[c] \in DOMAIN d => d[c] \in C

\* i and what is above it in the tree.
Chain(d, i) == {j \in DOMAIN d : \A C \in SUBSET DOMAIN d : i \in C /\ Climbs(d, C) => j \in C}

\* A number is in its own chain.
LEMMA ChainStart ==
  ASSUME NEW d, NEW i \in DOMAIN d
  PROVE  i \in Chain(d, i)
  BY DEF Chain

\* A chain is closed under going up.
LEMMA ChainClimbs ==
  ASSUME NEW d, NEW i
  PROVE  Climbs(d, Chain(d, i))
  BY DEF Chain, Climbs

\* A chain is in every closed set with its start.
LEMMA ChainIn ==
  ASSUME NEW d, NEW i, NEW C \in SUBSET DOMAIN d, i \in C, Climbs(d, C)
  PROVE  Chain(d, i) \subseteq C
  BY DEF Chain

\* The chain of a member is part of the chain.
LEMMA ChainOfMember ==
  ASSUME NEW d, NEW i, NEW j \in Chain(d, i)
  PROVE  Chain(d, j) \subseteq Chain(d, i)
  <1>1. Chain(d, i) \in SUBSET DOMAIN d
    BY DEF Chain
  <1> QED BY <1>1, ChainClimbs, ChainIn

\* A chain is its start and the chain of what is above it.
LEMMA ChainNext ==
  ASSUME NEW d, NEW i \in DOMAIN d, d[i] \in DOMAIN d
  PROVE  d[i] \in Chain(d, i) /\ Chain(d, i) = {i} \cup Chain(d, d[i])
  <1>1. d[i] \in Chain(d, i)
    BY ChainStart, ChainClimbs DEF Climbs
  <1>2. Chain(d, d[i]) \subseteq Chain(d, i)
    BY <1>1, ChainOfMember
  <1> DEFINE C == {i} \cup Chain(d, d[i])
  <1>3. C \in SUBSET DOMAIN d /\ i \in C
    BY DEF Chain
  <1>4. Climbs(d, C)
    BY ChainStart, ChainClimbs DEF Climbs
  <1> HIDE DEF C
  <1>5. Chain(d, i) \subseteq C
    BY <1>3, <1>4, ChainIn
  <1> QED BY <1>1, <1>2, <1>5, ChainStart DEF C

\* Numbers grow along a chain.
LEMMA ChainAbove ==
  ASSUME NEW d, NEW n, IsTree(d, n), NEW i \in 0..(n - 1), NEW j \in Chain(d, i)
  PROVE  j \in i..(n - 1)
  <1>1. DOMAIN d = 0..(n - 1) /\ n \in Nat \ {0} /\ i \in Nat
    BY DEF IsTree
  <1>2. i..(n - 1) \in SUBSET DOMAIN d /\ i \in i..(n - 1)
    BY <1>1
  <1>3. ASSUME NEW c \in i..(n - 1), d[c] \in DOMAIN d PROVE d[c] \in i..(n - 1)
    BY <1>1, <1>3 DEF IsTree
  <1>4. Climbs(d, i..(n - 1))
    BY <1>3 DEF Climbs
  <1> QED BY <1>2, <1>4, ChainIn

\* The part of the tree that is set is closed.
LEMMA ChainSet ==
  ASSUME NEW d, NEW n, IsTree(d, n), NEW i \in 0..(n - 1), d[i] \in 0..(n - 1), NEW j \in Chain(d, i)
  PROVE  j \in 0..(n - 1) /\ d[j] \in 0..(n - 1)
  <1> DEFINE C == {c \in 0..(n - 1) : d[c] \in 0..(n - 1)}
  <1>1. DOMAIN d = 0..(n - 1) /\ n \in Nat \ {0} /\ n - 1 \in 0..(n - 1)
    BY DEF IsTree
  <1>2. C \in SUBSET DOMAIN d /\ i \in C
    BY <1>1
  <1>3. Climbs(d, C)
    BY <1>1 DEF Climbs, IsTree
  <1> HIDE DEF C
  <1>4. j \in C
    BY <1>2, <1>3, ChainIn
  <1> QED BY <1>4 DEF C

\* Of two in one chain, the one above is in the chain of the one below the top.
LEMMA ChainStrict ==
  ASSUME NEW d, NEW i \in DOMAIN d, d[i] \in DOMAIN d, NEW j \in Chain(d, i), j # i
  PROVE  j \in Chain(d, d[i])
  BY ChainNext

\* The chain of the root is the root.
LEMMA RootChain ==
  ASSUME NEW d, NEW n, IsTree(d, n)
  PROVE  Chain(d, n - 1) = {n - 1}
  <1>1. DOMAIN d = 0..(n - 1) /\ n \in Nat \ {0} /\ n - 1 \in DOMAIN d /\ d[n - 1] = n - 1
    BY DEF IsTree
  <1>2. {n - 1} \in SUBSET DOMAIN d /\ Climbs(d, {n - 1})
    BY <1>1 DEF Climbs
  <1> QED BY <1>1, <1>2, ChainIn, ChainStart

\* The set of numbers with some defect has a greatest element.
LEMMA Greatest ==
  ASSUME NEW n \in Nat, NEW T, T \subseteq 0..n, T # {}
  PROVE  \E x \in T : \A y \in T : y <= x
  <1> DEFINE U == {u \in Nat : \E x \in T : u = n - x}
  <1>1. U \subseteq Nat /\ U # {}
    <2>1. PICK x \in T : TRUE
      OBVIOUS
    <2>2. n - x \in U
      BY <2>1
    <2> QED BY <2>2
  <1> HIDE DEF U
  <1>2. PICK u \in U : \A v \in U : ~(<<v, u>> \in OpToRel(<, Nat))
    BY <1>1, NatLessThanWellFounded, WFMin
  <1>3. PICK x \in T : u = n - x
    BY <1>2 DEF U
  <1>4. ASSUME NEW y \in T, ~(y <= x) PROVE FALSE
    <2>1. n - y \in U /\ n - y < u /\ u \in Nat /\ n - y \in Nat
      BY <1>1, <1>3, <1>4 DEF U
    <2>2. <<n - y, u>> \in OpToRel(<, Nat)
      BY <2>1 DEF OpToRel
    <2> QED BY <1>2, <2>1, <2>2
  <1> QED BY <1>4

\* A set of numbers has a least element.
LEMMA LeastNumber ==
  ASSUME NEW T, T \subseteq Nat, T # {}
  PROVE  \E n \in T : \A m \in T : n <= m
  <1>1. PICK n \in T : \A m \in T : ~(<<m, n>> \in OpToRel(<, Nat))
    BY NatLessThanWellFounded, WFMin
  <1>2. ASSUME NEW m \in T, ~(n <= m) PROVE FALSE
    <2>1. m \in Nat /\ n \in Nat /\ m < n
      BY <1>2
    <2>2. <<m, n>> \in OpToRel(<, Nat)
      BY <2>1 DEF OpToRel
    <2> QED BY <1>1, <2>2
  <1> QED BY <1>2

-----------------------------------------------------------------------------
\* What the sweeps keep, on numbers 0..n - 1.  R: pairs of a number and a
\* strictly dominated one; E: pairs of the numbers of a predecessor and of its
\* successor.

\* Whatever strictly dominates j dominates f.
Covers(R, j, f) == \A s : <<s, j>> \in R => s = f \/ <<s, f>> \in R

IsAbove(R, E, n) ==
    /\ n \in Nat \ {0}
    /\ R \subseteq (0..(n - 1)) \X (0..(n - 1))
    /\ \A s : <<s, s>> \notin R /\ <<s, n - 1>> \notin R
    /\ E \subseteq (0..(n - 1)) \X (0..(n - 1))
    /\ \A p, j : <<p, j>> \in E => j # n - 1 /\ Covers(R, j, p)

\* doms[j] is dominated by everything that strictly dominates j.
Respects(d, n, R) ==
    \A j \in 0..(n - 1) : j # n - 1 /\ d[j] \in 0..(n - 1) => Covers(R, j, d[j])

\* A sweep that visits j would not change doms[j].
Settled(d, n, E, j) ==
    \A p \in 0..(n - 1) : <<p, j>> \in E /\ d[p] \in 0..(n - 1) => d[j] \in Chain(d, p)

\* What dominates a number, in terms of the edges alone, is greater.
LEMMA AboveIsGreater ==
  ASSUME NEW d, NEW n, NEW R, NEW E, IsTree(d, n), IsAbove(R, E, n), Respects(d, n, R),
         NEW j \in 0..(n - 1), d[j] \in 0..(n - 1), NEW s, <<s, j>> \in R
  PROVE  s \in 0..(n - 1) /\ s > j
  <1>n. n \in Nat \ {0}
    BY DEF IsTree
  <1> DEFINE T == {f \in 0..(n - 1) : d[f] \in 0..(n - 1) /\ \E t \in 0..(n - 1) : <<t, f>> \in R /\ ~(t > f)}
  <1>1. s \in 0..(n - 1)
    BY DEF IsAbove
  <1>2. ASSUME T # {} PROVE FALSE
    <2>1. PICK f \in T : \A g \in T : g <= f
      BY <1>n, <1>2, Greatest, T \subseteq 0..(n - 1), n - 1 \in Nat
    <2>2. PICK t \in 0..(n - 1) : <<t, f>> \in R /\ ~(t > f)
      BY <2>1
    <2>3. f # n - 1
      BY <2>2 DEF IsAbove
    <2>4. f \in 0..(n - 1) /\ d[f] \in 0..(n - 1) /\ f < d[f] /\ d[d[f]] \in 0..(n - 1)
      BY <2>1, <2>3, <1>n DEF IsTree
    <2>5. t # d[f]
      BY <2>2, <2>4, <1>n
    <2>6. <<t, d[f]>> \in R
      BY <2>2, <2>3, <2>4, <2>5 DEF Respects, Covers
    <2>7. ~(t > d[f])
      BY <2>2, <2>4, <1>n
    <2>8. d[f] \in T
      <3>1. d[d[f]] \in 0..(n - 1) /\ d[f] \in 0..(n - 1)
        BY <2>4
      <3>2. \E u \in 0..(n - 1) : <<u, d[f]>> \in R /\ ~(u > d[f])
        BY <2>6, <2>7
      <3> QED BY <3>1, <3>2
    <2> QED BY <2>1, <2>4, <2>8, <1>n
  <1> QED BY <1>1, <1>2

\* A chain is what dominates: one half needs only that doms respects dominance.
LEMMA AboveInChain ==
  ASSUME NEW d, NEW n, NEW R, NEW E, IsTree(d, n), IsAbove(R, E, n), Respects(d, n, R),
         \A j \in 0..(n - 1) : d[j] \in 0..(n - 1),
         NEW s, NEW b, <<s, b>> \in R
  PROVE  s \in Chain(d, b) /\ b # n - 1 /\ s \in Chain(d, d[b])
  <1>n. n \in Nat \ {0} /\ DOMAIN d = 0..(n - 1)
    BY DEF IsTree
  <1> DEFINE T == {f \in 0..(n - 1) : \E t \in 0..(n - 1) : <<t, f>> \in R /\ t \notin Chain(d, f)}
  <1>2. ASSUME T # {} PROVE FALSE
    <2>1. PICK f \in T : \A g \in T : g <= f
      BY <1>n, <1>2, Greatest, T \subseteq 0..(n - 1), n - 1 \in Nat
    <2>2. PICK t \in 0..(n - 1) : <<t, f>> \in R /\ t \notin Chain(d, f)
      BY <2>1
    <2>3. f # n - 1
      BY <2>2 DEF IsAbove
    <2>4. f \in 0..(n - 1) /\ d[f] \in 0..(n - 1) /\ f < d[f]
      BY <2>1, <2>3, <1>n DEF IsTree
    <2>5. Chain(d, f) = {f} \cup Chain(d, d[f]) /\ d[f] \in Chain(d, d[f])
      BY <1>n, <2>4, ChainNext, ChainStart
    <2>6. <<t, d[f]>> \in R
      BY <2>2, <2>3, <2>4, <2>5 DEF Respects, Covers
    <2>7. t \notin Chain(d, d[f])
      BY <2>2, <2>5
    <2>8. d[f] \in T
      <3>1. \E u \in 0..(n - 1) : <<u, d[f]>> \in R /\ u \notin Chain(d, d[f])
        BY <2>6, <2>7
      <3> QED BY <2>4, <3>1
    <2>9. d[f] <= f
      BY <2>1, <2>8
    <2> QED BY <2>4, <2>9, <1>n
  <1>3. b \in 0..(n - 1) /\ s \in 0..(n - 1) /\ b # n - 1 /\ s # b
    BY DEF IsAbove
  <1>4. s \in Chain(d, b)
    BY <1>2, <1>3
  <1> QED BY <1>3, <1>4, <1>n, ChainStrict

\* intersect: when the finger that is behind climbs, what must cover i still does.
LEMMA FingerClimbs ==
  ASSUME NEW d, NEW n, NEW R, NEW E, IsTree(d, n), IsAbove(R, E, n), Respects(d, n, R), NEW i,
         NEW f \in 0..(n - 1), d[f] \in 0..(n - 1), Covers(R, i, f),
         NEW g \in 0..(n - 1), d[g] \in 0..(n - 1), Covers(R, i, g), f < g
  PROVE  /\ d[f] \in 0..(n - 1) /\ d[d[f]] \in 0..(n - 1) /\ Covers(R, i, d[f])
         /\ f \in Chain(d, f) /\ d[f] \in Chain(d, f)
         /\ \A x \in 0..(n - 1) : f \in Chain(d, x) => d[f] \in Chain(d, x)
  <1>n. n \in Nat \ {0} /\ DOMAIN d = 0..(n - 1)
    BY DEF IsTree
  <1>1. f # n - 1
    BY <1>n
  <1>2. d[d[f]] \in 0..(n - 1)
    BY <1>1 DEF IsTree
  <1>3. f \in Chain(d, f) /\ d[f] \in Chain(d, f)
    BY <1>n, ChainNext, ChainStart
  <1>4. \A x \in 0..(n - 1) : f \in Chain(d, x) => d[f] \in Chain(d, x)
    BY <1>n, ChainClimbs DEF Climbs
  <1>5. ASSUME NEW s, <<s, i>> \in R, s # d[f] PROVE <<s, d[f]>> \in R
    <2>1. CASE s = f
      <3>1. <<s, g>> \in R
        BY <1>5, <2>1, <1>n DEF Covers
      <3>2. s > g
        BY <3>1, AboveIsGreater
      <3> QED BY <3>2, <2>1, <1>n
    <2>2. CASE s # f
      <3>1. <<s, f>> \in R
        BY <1>5, <2>2 DEF Covers
      <3> QED BY <3>1, <1>1, <1>5 DEF Respects, Covers
    <2> QED BY <2>1, <2>2
  <1> QED BY <1>2, <1>3, <1>4, <1>5 DEF Covers

\* A new value of doms[i], for a number i below it.
LEMMA Assigned ==
  ASSUME NEW d, NEW n, NEW R, NEW E, IsTree(d, n), IsAbove(R, E, n), Respects(d, n, R),
         NEW i \in 0..(n - 1), NEW m \in 0..(n - 1), d[m] \in 0..(n - 1),
         IF i = n - 1 THEN m = n - 1 ELSE m > i /\ Covers(R, i, m),
         NEW e \in [0..(n - 1) -> Nat], \A j \in 0..(n - 1) : e[j] = IF j = i THEN m ELSE d[j]
  PROVE  IsTree(e, n) /\ Respects(e, n, R)
  <1>n. n \in Nat \ {0} /\ DOMAIN d = 0..(n - 1) /\ d \in [0..(n - 1) -> Nat] /\ m \in Nat
    BY DEF IsTree
  <1>2. \A j \in 0..(n - 1) : e[j] = IF j = i THEN m ELSE d[j]
    OBVIOUS
  <1>3. e[n - 1] = n - 1
    BY <1>2, <1>n DEF IsTree
  <1>4. ASSUME NEW j \in 0..(n - 1), j # n - 1, e[j] \in 0..(n - 1)
        PROVE  j < e[j] /\ e[e[j]] \in 0..(n - 1) /\ Covers(R, j, e[j])
    <2>1. CASE j = i
      <3>1. e[j] = m /\ m > i /\ Covers(R, i, m)
        BY <1>2, <1>4, <2>1
      <3>2. e[m] \in 0..(n - 1)
        BY <1>2, <1>n
      <3> QED BY <3>1, <3>2, <2>1, <1>n
    <2>2. CASE j # i
      <3>1. e[j] = d[j]
        BY <1>2, <2>2
      <3>2. j < d[j] /\ d[d[j]] \in 0..(n - 1) /\ Covers(R, j, d[j])
        BY <3>1, <1>4 DEF IsTree, Respects
      <3>3. e[d[j]] \in 0..(n - 1)
        BY <3>1, <3>2, <1>2, <1>4
      <3> QED BY <3>1, <3>2, <3>3
    <2> QED BY <2>1, <2>2
  <1> QED BY <1>n, <1>3, <1>4 DEF IsTree, Respects

-----------------------------------------------------------------------------
\* The inductive invariant.

\* A part of the graph with the entry in which the edges agree.
Part(c, e) == CHOOSE R \in SUBSET Blocks(c) : e \in R /\ EdgesAgree(c, R)

GraphInv ==
    /\ Len(ir.block) \in Nat /\ Blocks(ir) = 1..Len(ir.block)
    /\ Part(ir, entry) \subseteq Blocks(ir) /\ entry \in Part(ir, entry)
    /\ EdgesAgree(ir, Part(ir, entry))

Succs(b) == ToSet(block_successor(ir, b))
Preds(b) == ToSet(block_predecessor(ir, b))

\* A part of the graph with the entry that its jumps do not lead out of.
Closed(R) ==
    /\ Len(ir.block) \in Nat /\ Blocks(ir) = 1..Len(ir.block)
    /\ R \subseteq Blocks(ir) /\ entry \in R
    /\ \A b \in R : block_successor(ir, b) \in Seq(R)

FrameType(R) == [block : R, succs : Seq(R)]

\* The depth-first search, in such a part.
VisitInv(R) ==
    /\ visit \in Seq(FrameType(R)) /\ visit # <<>>
    /\ visit[Len(visit)].block = entry
    /\ \A k, l \in 1..Len(visit) : visit[k].block = visit[l].block => k = l
    /\ \A k \in 1..Len(visit) : visit[k].block \notin ToSet(postorder)
    /\ seen = ToSet(postorder) \cup {visit[k].block : k \in 1..Len(visit)}
    /\ \A k \in 1..Len(visit) : /\ ToSet(visit[k].succs) \subseteq Succs(visit[k].block)
                                /\ Succs(visit[k].block) \subseteq seen \cup ToSet(visit[k].succs)
    /\ postorder \in Seq(R)
    /\ number \in [ToSet(postorder) -> Nat]
    /\ \A k \in 1..Len(postorder) : number[postorder[k]] = k - 1
    /\ \A b \in ToSet(postorder) : Succs(b) \subseteq seen
    /\ cursor = [i |-> 0, preds |-> <<>>, newDom |-> 0, a |-> 0, b |-> 0,
                 changed |-> FALSE, runner |-> 0]

\* What it leaves behind.
Numbers == 0..(Count - 1)

Numbered ==
    /\ postorder \in Seq(Part(ir, entry)) /\ Count \in Nat \ {0} /\ Count <= Len(ir.block)
    /\ seen = ToSet(postorder)
    /\ number \in [seen -> Numbers]
    /\ \A k \in Numbers : number[BlockNo(k)] = k
    /\ \A b \in seen : BlockNo(number[b]) = b
    /\ BlockNo(Count - 1) = entry
    /\ \A b \in seen : Succs(b) \subseteq seen

Above == {e \in Numbers \X Numbers : StrictlyDominates(BlockNo(e[1]), BlockNo(e[2]))}
Edge == {e \in Numbers \X Numbers : BlockNo(e[1]) \in Preds(BlockNo(e[2]))}

CursorOf(I, P) == [i : I, preds : P, newDom : Nat, a : Nat, b : Nat,
                   changed : BOOLEAN, runner : Nat]

CursorType == CursorOf(Numbers, Seq(Part(ir, entry)))

DomsInv ==
    /\ IsTree(doms, Count)
    /\ \A j \in Numbers : doms[j] \in Numbers \/ doms[j] = SIZE_MAX
    /\ Respects(doms, Count, Above)

SweepInv ==
    /\ DomsInv
    /\ \A j \in Numbers : j > cursor.i => doms[j] \in Numbers
    /\ ~cursor.changed => \A j \in Numbers : j > cursor.i => Settled(doms, Count, Edge, j)

\* The predecessors of block cursor.i that the loop has been over.
Passed == {p \in Numbers : <<p, cursor.i>> \in Edge /\ BlockNo(p) \notin ToSet(cursor.preds)}

\* Within one iteration over the blocks.
BlockInv ==
    /\ ToSet(cursor.preds) \subseteq Preds(BlockNo(cursor.i))
    /\ cursor.newDom \in Numbers /\ doms[cursor.newDom] \in Numbers
    /\ cursor.i = Count - 1 => cursor.newDom = Count - 1 /\ pc = "preds"
    /\ cursor.i # Count - 1 => cursor.newDom > cursor.i /\ Covers(Above, cursor.i, cursor.newDom)
    /\ \A p \in Passed : doms[p] \in Numbers =>
          \/ cursor.newDom \in Chain(doms, p)
          \/ pc = "intersect" /\ cursor.a \in Chain(doms, p)

FingersInv ==
    /\ cursor.b \in Chain(doms, cursor.newDom)
    /\ cursor.a \in Numbers /\ doms[cursor.a] \in Numbers /\ Covers(Above, cursor.i, cursor.a)
    /\ cursor.b \in Numbers /\ doms[cursor.b] \in Numbers /\ Covers(Above, cursor.i, cursor.b)

\* The tree is done.
TreeInv ==
    /\ DomsInv
    /\ \A j \in Numbers : doms[j] \in Numbers /\ Settled(doms, Count, Edge, j)

\* x has y in its frontier because of p.
Between(x, p, y) == number[x] \in Chain(doms, number[p]) \ Chain(doms, doms[number[y]])

FrontierInv ==
    /\ TreeInv
    /\ df \in [Blocks(ir) -> Seq(Part(ir, entry))]
    /\ ToSet(cursor.preds) \subseteq Preds(BlockNo(cursor.i))
    /\ \A x \in seen : \A y \in ToSet(df[x]) : y \in seen /\ \E p \in Preds(y) : Between(x, p, y)
    /\ \A x, y \in seen : \A p \in Preds(y) :
          Between(x, p, y) =>
            \/ y \in ToSet(df[x])
            \/ number[y] > cursor.i
            \/ y = BlockNo(cursor.i) /\ p \in ToSet(cursor.preds)
            \/ y = BlockNo(cursor.i) /\ pc = "runner" /\ number[x] \in Chain(doms, number[cursor.runner])

RunnerInv ==
    /\ cursor.i # Count - 1
    /\ cursor.runner \in seen
    /\ doms[cursor.i] \in Chain(doms, number[cursor.runner])
    /\ \E p \in Preds(BlockNo(cursor.i)) : number[cursor.runner] \in Chain(doms, number[p])

AnalysisInv ==
    /\ cursor \in CursorType
    /\ pc \in {"sweep", "preds", "intersect"} => SweepInv
    /\ pc \in {"preds", "intersect"} => BlockInv
    /\ pc = "intersect" => FingersInv
    /\ pc = "tree" => TreeInv
    /\ pc \in {"df", "runner", "ssa"} => FrontierInv
    /\ pc = "runner" => RunnerInv
    /\ pc = "ssa" => cursor.i = Count - 1 /\ cursor.preds = <<>>

Phases == {"dominators", "visit", "sweep", "preds", "intersect", "tree", "df", "runner", "ssa", "crash"}

DominatorsInv ==
    /\ GraphInv
    /\ pc \in Phases
    /\ pc = "dominators" => InitDominators
    /\ pc = "visit" => \E R : R = Part(ir, entry) /\ VisitInv(R)
    /\ pc \notin {"dominators", "visit"} => Numbered
    /\ pc \notin {"dominators", "visit", "crash"} /\ Analysable => AnalysisInv

-----------------------------------------------------------------------------
\* Dominance, in the graph.

LEMMA ToSetIn ==
  ASSUME NEW S, NEW q \in Seq(S)
  PROVE  /\ ToSet(q) \subseteq S
         /\ \A k \in 1..Len(q) : q[k] \in ToSet(q)
         /\ \A x \in ToSet(q) : \E k \in 1..Len(q) : x = q[k]
  BY LenProperties, ElementOfSeq DEF ToSet

\* The elements of a list are its head and those of its tail.
LEMMA HeadTailSet ==
  ASSUME NEW S, NEW q \in Seq(S), q # <<>>
  PROVE  /\ Head(q) \in S /\ Head(q) \in ToSet(q) /\ Tail(q) \in Seq(S)
         /\ ToSet(Tail(q)) \subseteq ToSet(q)
         /\ ToSet(q) = {Head(q)} \cup ToSet(Tail(q))
  <1>1. /\ Len(q) \in Nat \ {0} /\ DOMAIN q = 1..Len(q) /\ Head(q) = q[1] /\ Head(q) \in S
        /\ Tail(q) \in Seq(S) /\ Len(Tail(q)) = Len(q) - 1 /\ DOMAIN Tail(q) = 1..(Len(q) - 1)
        /\ \A i \in 1..(Len(q) - 1) : Tail(q)[i] = q[i + 1]
    BY HeadTailProperties, LenProperties, EmptySeq
  <1>2. Head(q) \in ToSet(q)
    BY <1>1 DEF ToSet
  <1>3. ASSUME NEW x \in ToSet(Tail(q)) PROVE x \in ToSet(q)
    <2>1. PICK i \in 1..(Len(q) - 1) : x = q[i + 1]
      BY <1>1 DEF ToSet
    <2>2. i + 1 \in 1..Len(q)
      BY <1>1
    <2> QED BY <2>1, <2>2, <1>1 DEF ToSet
  <1>4. ASSUME NEW x \in ToSet(q), x # Head(q) PROVE x \in ToSet(Tail(q))
    <2>1. PICK i \in 1..Len(q) : x = q[i]
      BY <1>1 DEF ToSet
    <2>2. i - 1 \in 1..(Len(q) - 1) /\ (i - 1) + 1 = i
      BY <2>1, <1>1, <1>4
    <2>3. x = Tail(q)[i - 1]
      BY <2>1, <2>2, <1>1
    <2> QED BY <2>2, <2>3, <1>1 DEF ToSet
  <1> QED BY <1>1, <1>2, <1>3, <1>4

\* Appending adds one element.
LEMMA AppendSet ==
  ASSUME NEW S, NEW q \in Seq(S), NEW x \in S
  PROVE  /\ Append(q, x) \in Seq(S) /\ Len(Append(q, x)) = Len(q) + 1
         /\ \A k \in 1..Len(q) : Append(q, x)[k] = q[k]
         /\ Append(q, x)[Len(q) + 1] = x
         /\ ToSet(Append(q, x)) = ToSet(q) \cup {x}
  <1> DEFINE e == Append(q, x)
  <1>1. /\ e \in Seq(S) /\ Len(e) = Len(q) + 1 /\ Len(q) \in Nat
        /\ \A k \in 1..Len(q) : e[k] = q[k]
        /\ e[Len(q) + 1] = x
        /\ DOMAIN e = 1..(Len(q) + 1) /\ DOMAIN q = 1..Len(q)
    BY LenProperties
  <1> HIDE DEF e
  <1>2. ToSet(e) = ToSet(q) \cup {x}
    BY <1>1 DEF ToSet
  <1> QED BY <1>1, <1>2 DEF e

\* Successors and predecessors are the same edges.
LEMMA GraphEdges ==
  ASSUME GraphInv, NEW b \in Part(ir, entry)
  PROVE  /\ block_successor(ir, b) \in Seq(Part(ir, entry)) /\ Succs(b) \subseteq Part(ir, entry)
         /\ block_predecessor(ir, b) \in Seq(Part(ir, entry)) /\ Preds(b) \subseteq Part(ir, entry)
         /\ \A c \in Part(ir, entry) : c \in Succs(b) <=> b \in Preds(c)
  <1>1. /\ block_successor(ir, b) \in Seq(Part(ir, entry))
        /\ block_predecessor(ir, b) \in Seq(Part(ir, entry))
        /\ \A c \in Part(ir, entry) : c \in Succs(b) <=> b \in Preds(c)
    BY DEF GraphInv, EdgesAgree, Succs, Preds
  <1> QED BY <1>1, ToSetIn DEF Succs, Preds

\* What dominates a block strictly dominates each of its predecessors.
LEMMA DominatesPredecessor ==
  ASSUME GraphInv, NEW b \in Part(ir, entry), NEW p \in Preds(b), NEW s, StrictlyDominates(s, b)
  PROVE  p \in Part(ir, entry) /\ Dominates(s, p)
  <1>1. p \in Part(ir, entry) /\ b \in Succs(p)
    BY GraphEdges
  <1>2. ASSUME s # p, p \in ReachableAvoiding(s) PROVE b \in ReachableAvoiding(s)
    <2> SUFFICES ASSUME NEW R \in SUBSET Blocks(ir), {entry} \ {s} \subseteq R,
                        SuccessorsOf(ir, R) \ {s} \subseteq R
                 PROVE  b \in R
      BY DEF ReachableAvoiding, GraphInv
    <2>1. p \in R
      BY <1>2 DEF ReachableAvoiding
    <2>2. b \in SuccessorsOf(ir, R)
      BY <1>1, <2>1 DEF SuccessorsOf, Succs, ToSet
    <2>3. b # s
      BY DEF StrictlyDominates
    <2> QED BY <2>2, <2>3
  <1> QED BY <1>1, <1>2 DEF StrictlyDominates, Dominates

\* The entry has no strict dominator.
LEMMA NothingAboveEntry ==
  ASSUME GraphInv, NEW s
  PROVE  ~StrictlyDominates(s, entry)
  BY DEF GraphInv, StrictlyDominates, Dominates, ReachableAvoiding

\* Numbers and blocks correspond, once the search is over.
LEMMA NumberedFacts ==
  ASSUME GraphInv, Numbered
  PROVE  /\ Count \in Nat \ {0} /\ Numbers = 0..(Count - 1) /\ Count - 1 \in Numbers
         /\ Len(ir.block) \in Nat /\ SIZE_MAX \notin Numbers
         /\ \A k \in Numbers : BlockNo(k) \in seen /\ number[BlockNo(k)] = k
         /\ \A b \in seen : number[b] \in Numbers /\ BlockNo(number[b]) = b
         /\ entry \in seen /\ number[entry] = Count - 1
         /\ seen \subseteq Part(ir, entry) /\ seen \subseteq Blocks(ir)
  <1>1. Count \in Nat \ {0} /\ Count <= Len(ir.block) /\ Len(ir.block) \in Nat
    BY DEF Numbered, GraphInv
  <1>2. \A k \in Numbers : k + 1 \in 1..Count
    BY <1>1 DEF Numbers
  <1>3. postorder \in Seq(Part(ir, entry)) /\ DOMAIN postorder = 1..Count
    BY LenProperties DEF Numbered, Count
  <1>4. \A k \in Numbers : BlockNo(k) \in seen
    BY <1>2, <1>3 DEF Numbered, ToSet, BlockNo
  <1>5. seen \subseteq Part(ir, entry) /\ Part(ir, entry) \subseteq Blocks(ir)
    BY <1>3, ElementOfSeq DEF Numbered, ToSet, Count, GraphInv
  <1> QED BY <1>1, <1>4, <1>5 DEF Numbered, Numbers, SIZE_MAX

\* Dominance between blocks is IsAbove between their numbers.
LEMMA AboveIs ==
  ASSUME GraphInv, Numbered, Analysable
  PROVE  IsAbove(Above, Edge, Count)
  <1>1. ASSUME NEW j \in Numbers, NEW p \in Numbers, <<p, j>> \in Edge
        PROVE  j # Count - 1 /\ Covers(Above, j, p)
    <2>1. BlockNo(p) \in Preds(BlockNo(j)) /\ BlockNo(j) \in Part(ir, entry)
      BY <1>1, NumberedFacts DEF Edge
    <2>2. BlockNo(j) # entry
      BY <2>1 DEF Analysable, Preds, ToSet
    <2>3. ASSUME NEW s, <<s, j>> \in Above PROVE s = p \/ <<s, p>> \in Above
      <3>1. s \in Numbers /\ StrictlyDominates(BlockNo(s), BlockNo(j))
        BY <2>3 DEF Above
      <3>2. Dominates(BlockNo(s), BlockNo(p))
        BY <3>1, <2>1, DominatesPredecessor
      <3>3. BlockNo(s) = BlockNo(p) => s = p
        BY <3>1, NumberedFacts
      <3> QED BY <3>1, <3>2, <3>3 DEF Above, StrictlyDominates
    <2>4. BlockNo(Count - 1) = entry
      BY DEF Numbered
    <2> QED BY <2>2, <2>3, <2>4 DEF Covers
  <1>2. ASSUME NEW s PROVE <<s, s>> \notin Above /\ <<s, Count - 1>> \notin Above
    <2>1. <<s, s>> \notin Above
      BY DEF Above, StrictlyDominates
    <2>2. <<s, Count - 1>> \notin Above
      BY NothingAboveEntry DEF Above, Numbered
    <2> QED BY <2>1, <2>2
  <1>3. Above \subseteq Numbers \X Numbers /\ Edge \subseteq Numbers \X Numbers
    BY DEF Above, Edge
  <1> QED BY <1>1, <1>2, <1>3, NumberedFacts DEF IsAbove, Numbers

\* The other half: what is above j in a settled tree dominates j, because the
\* blocks that do not have m above them cannot be left other than to m.
LEMMA ChainIsAbove ==
  ASSUME GraphInv, Numbered, Analysable, TreeInv,
         NEW j \in Numbers, NEW m \in Chain(doms, j), m # j
  PROVE  <<m, j>> \in Above
  <1>n. /\ Count \in Nat \ {0} /\ Numbers = 0..(Count - 1) /\ DOMAIN doms = Numbers
        /\ IsTree(doms, Count) /\ IsAbove(Above, Edge, Count)
        /\ \A k \in Numbers : doms[k] \in Numbers
    BY NumberedFacts, AboveIs DEF TreeInv, DomsInv, IsTree
  <1>m. m \in Numbers
    BY <1>n DEF Chain
  <1> DEFINE C == {b \in seen : m \notin Chain(doms, number[b])}
  <1>1. {entry} \ {BlockNo(m)} \subseteq C
    <2>1. entry \in seen /\ number[entry] = Count - 1 /\ BlockNo(Count - 1) = entry
      BY NumberedFacts DEF Numbered
    <2>2. Chain(doms, Count - 1) = {Count - 1}
      BY <1>n, RootChain
    <2> QED BY <2>1, <2>2
  <1>2. ASSUME NEW y \in SuccessorsOf(ir, C), y # BlockNo(m) PROVE y \in C
    <2>1. PICK x \in C : y \in Succs(x)
      BY <1>2 DEF SuccessorsOf, Succs
    <2>2. y \in seen /\ x \in seen /\ x \in Part(ir, entry) /\ y \in Part(ir, entry)
      BY <2>1, NumberedFacts DEF Numbered
    <2>3. x \in Preds(y)
      BY <2>1, <2>2, GraphEdges
    <2>4. number[x] \in Numbers /\ number[y] \in Numbers /\ <<number[x], number[y]>> \in Edge
      BY <2>2, <2>3, NumberedFacts DEF Edge
    <2>5. doms[number[y]] \in Chain(doms, number[x])
      BY <2>4, <1>n DEF TreeInv, Settled
    <2>6. number[y] # m
      BY <1>2, <2>2, NumberedFacts
    <2>7. ASSUME m \in Chain(doms, number[y]) PROVE FALSE
      <3>1. m \in Chain(doms, doms[number[y]])
        BY <2>4, <2>6, <2>7, <1>n, ChainStrict
      <3>2. m \in Chain(doms, number[x])
        BY <3>1, <2>5, ChainOfMember
      <3> QED BY <3>2, <2>1
    <2> QED BY <2>2, <2>7
  <1>3. BlockNo(j) \notin C /\ BlockNo(j) \in Blocks(ir) /\ C \in SUBSET Blocks(ir)
    BY NumberedFacts
  <1>4. BlockNo(j) \notin ReachableAvoiding(BlockNo(m))
    <2> HIDE DEF C
    <2>1. SuccessorsOf(ir, C) \ {BlockNo(m)} \subseteq C
      BY <1>2
    <2> QED BY <1>1, <1>3, <2>1 DEF ReachableAvoiding
  <1>5. BlockNo(m) # BlockNo(j)
    BY <1>m, NumberedFacts
  <1> QED BY <1>4, <1>5, <1>m DEF Above, StrictlyDominates, Dominates

\* When the sweeps are over, the dominators of a block are its chain in doms.
LEMMA DominanceIsChain ==
  ASSUME GraphInv, Numbered, Analysable, TreeInv, NEW s \in seen, NEW b \in seen
  PROVE  /\ Dominates(s, b) <=> number[s] \in Chain(doms, number[b])
         /\ StrictlyDominates(s, b) <=> <<number[s], number[b]>> \in Above
  <1>n. /\ Count \in Nat \ {0} /\ Numbers = 0..(Count - 1) /\ DOMAIN doms = Numbers
        /\ IsTree(doms, Count) /\ IsAbove(Above, Edge, Count) /\ Respects(doms, Count, Above)
        /\ \A k \in Numbers : doms[k] \in Numbers
    BY NumberedFacts, AboveIs DEF TreeInv, DomsInv, IsTree
  <1>1. /\ number[s] \in Numbers /\ BlockNo(number[s]) = s
        /\ number[b] \in Numbers /\ BlockNo(number[b]) = b
    BY NumberedFacts
  <1>2. StrictlyDominates(s, b) <=> <<number[s], number[b]>> \in Above
    BY <1>1 DEF Above
  <1>3. s # b => (StrictlyDominates(s, b) <=> Dominates(s, b))
    BY DEF StrictlyDominates
  <1>4. CASE s = b
    BY <1>4, <1>1, <1>2, <1>n, ChainStart DEF Dominates
  <1>5. CASE s # b
    <2>1. number[s] # number[b]
      BY <1>5, <1>1
    <2>2. <<number[s], number[b]>> \in Above => number[s] \in Chain(doms, number[b])
      BY <1>n, AboveInChain
    <2>3. number[s] \in Chain(doms, number[b]) => <<number[s], number[b]>> \in Above
      BY <2>1, <1>1, ChainIsAbove
    <2> QED BY <1>2, <1>3, <1>5, <2>2, <2>3
  <1> QED BY <1>2, <1>4, <1>5

\* The immediate dominator is then the closest one.
LEMMA TreeIsClosest ==
  ASSUME GraphInv, Numbered, Analysable, TreeInv
  PROVE  /\ dominators_getIDom(entry) = entry
         /\ \A b \in seen \ {entry} :
              LET d == dominators_getIDom(b)
              IN  /\ StrictlyDominates(d, b)
                  /\ \A s \in seen : StrictlyDominates(s, b) => Dominates(s, d)
  <1>n. /\ Count \in Nat \ {0} /\ Numbers = 0..(Count - 1) /\ DOMAIN doms = Numbers
        /\ IsTree(doms, Count) /\ IsAbove(Above, Edge, Count) /\ Respects(doms, Count, Above)
        /\ \A k \in Numbers : doms[k] \in Numbers
    BY NumberedFacts, AboveIs DEF TreeInv, DomsInv, IsTree
  <1>1. dominators_getIDom(entry) = entry
    BY <1>n, NumberedFacts DEF dominators_getIDom, Numbered, IsTree
  <1>2. ASSUME NEW b \in seen \ {entry}
        PROVE  /\ StrictlyDominates(dominators_getIDom(b), b)
               /\ \A s \in seen : StrictlyDominates(s, b) => Dominates(s, dominators_getIDom(b))
    <2> DEFINE j == number[b]
    <2>1. j \in Numbers /\ BlockNo(j) = b /\ j # Count - 1 /\ doms[j] \in Numbers
      BY <1>n, NumberedFacts DEF Numbered
    <2>2. doms[j] > j
      BY <2>1, <1>n DEF IsTree
    <2> DEFINE d == BlockNo(doms[j])
    <2>3. d \in seen /\ number[d] = doms[j] /\ d = dominators_getIDom(b)
      BY <2>1, NumberedFacts DEF dominators_getIDom
    <2>4. doms[j] \in Chain(doms, j)
      BY <2>1, <1>n, ChainNext
    <2>5. <<doms[j], j>> \in Above
      <3>1. doms[j] # j
        BY <2>1, <2>2, <1>n
      <3> QED BY <2>1, <2>4, <3>1, ChainIsAbove
    <2>6. StrictlyDominates(d, b)
      BY <2>3, <2>5, DominanceIsChain
    <2>7. ASSUME NEW s \in seen, StrictlyDominates(s, b) PROVE Dominates(s, d)
      <3>1. <<number[s], j>> \in Above
        BY <2>7, DominanceIsChain
      <3>2. number[s] \in Chain(doms, doms[j])
        BY <3>1, <1>n, AboveInChain
      <3> QED BY <3>2, <2>3, DominanceIsChain
    <2> QED BY <2>3, <2>6, <2>7
  <1> QED BY <1>1, <1>2

\* The frontiers that the runners have collected at the end are exact.
LEMMA FrontierAtEnd ==
  ASSUME GraphInv, Numbered, Analysable, FrontierInv, pc = "ssa", cursor.i = Count - 1,
         cursor.preds = <<>>, NEW b \in seen
  PROVE  ToSet(df[b]) = {y \in seen : /\ ~StrictlyDominates(b, y)
                                      /\ \E p \in Preds(y) : Dominates(b, p)}
  <1>n. /\ Count \in Nat \ {0} /\ Numbers = 0..(Count - 1) /\ DOMAIN doms = Numbers
        /\ IsTree(doms, Count) /\ IsAbove(Above, Edge, Count) /\ Respects(doms, Count, Above)
        /\ \A k \in Numbers : doms[k] \in Numbers
        /\ TreeInv
    BY NumberedFacts, AboveIs DEF FrontierInv, TreeInv, DomsInv, IsTree
  <1>1. ASSUME NEW y \in seen, NEW p \in Preds(y)
        PROVE  Between(b, p, y) <=> ~StrictlyDominates(b, y) /\ Dominates(b, p)
    <2>1. y # entry /\ p \in seen
      BY <1>1 DEF Analysable, Preds, ToSet
    <2> DEFINE j == number[y]  nb == number[b]
    <2>2. j \in Numbers /\ BlockNo(j) = y /\ j # Count - 1 /\ nb \in Numbers /\ BlockNo(nb) = b
      BY <2>1, NumberedFacts DEF Numbered
    <2>3. j < doms[j] /\ doms[j] \in Numbers
      BY <2>2, <1>n DEF IsTree
    <2>4. <<nb, j>> \in Above => nb \in Chain(doms, doms[j])
      BY <1>n, AboveInChain
    <2>5. ASSUME nb \in Chain(doms, doms[j]) PROVE <<nb, j>> \in Above
      <3>1. nb \in doms[j]..(Count - 1)
        BY <2>3, <2>5, <1>n, ChainAbove
      <3>2. nb \in Chain(doms, j)
        BY <2>2, <2>3, <2>5, <1>n, ChainNext
      <3>3. nb # j
        BY <3>1, <2>2, <2>3, <1>n
      <3> QED BY <3>2, <3>3, <2>2, <1>n, ChainIsAbove
    <2>6. StrictlyDominates(b, y) <=> <<nb, j>> \in Above
      BY <1>n, DominanceIsChain
    <2>7. Dominates(b, p) <=> nb \in Chain(doms, number[p])
      BY <2>1, <1>n, DominanceIsChain
    <2>8. Between(b, p, y) <=> nb \in Chain(doms, number[p]) /\ ~(nb \in Chain(doms, doms[j]))
      BY DEF Between
    <2>9. <<nb, j>> \in Above <=> nb \in Chain(doms, doms[j])
      BY <2>4, <2>5
    <2> HIDE DEF j, nb
    <2> QED BY <2>6, <2>7, <2>8, <2>9
  <1>2. ASSUME NEW y \in ToSet(df[b])
        PROVE  y \in seen /\ ~StrictlyDominates(b, y) /\ \E p \in Preds(y) : Dominates(b, p)
    <2>1. y \in seen /\ \E p \in Preds(y) : Between(b, p, y)
      BY <1>2 DEF FrontierInv
    <2> QED BY <2>1, <1>1
  <1>3. ASSUME NEW y \in seen, ~StrictlyDominates(b, y), NEW p \in Preds(y), Dominates(b, p)
        PROVE  y \in ToSet(df[b])
    <2>1. Between(b, p, y)
      BY <1>3, <1>1
    <2>2. ~(number[y] > cursor.i)
      <3>1. number[y] \in 0..(Count - 1)
        BY NumberedFacts
      <3> QED BY <3>1, <1>n
    <2>3. p \notin ToSet(cursor.preds)
      BY DEF ToSet
    <2> QED BY <2>1, <2>2, <2>3 DEF FrontierInv
  <1> QED BY <1>2, <1>3

-----------------------------------------------------------------------------
\* The steps after the search.

LEMMA CursorFields ==
  ASSUME NEW I, NEW P, NEW c \in CursorOf(I, P)
  PROVE  c.i \in I /\ c.preds \in P /\ c.newDom \in Nat /\ c.changed \in BOOLEAN /\ c.runner \in Nat
  BY DEF CursorOf

\* They leave alone everything that the facts about dominance are about.
LEMMA Kept ==
  ASSUME GraphInv, Numbered, Analysable, UNCHANGED <<ir, entry, number, seen, postorder>>
  PROVE  /\ GraphInv' /\ Numbered' /\ Analysable'
         /\ Count' = Count /\ Numbers' = Numbers /\ SIZE_MAX' = SIZE_MAX
         /\ Above' = Above /\ Edge' = Edge
         /\ CursorType' = CursorType
  <1>1. GraphInv'
    BY DEF GraphInv, EdgesAgree
  <1>2. Count' = Count /\ Numbers' = Numbers /\ SIZE_MAX' = SIZE_MAX
    BY DEF Count, Numbers, SIZE_MAX
  <1>3. Numbered'
    BY DEF Numbered, Count, Numbers, BlockNo, Succs
  <1>4. Analysable'
    BY DEF Analysable
  <1>5. Above' = Above
    BY DEF Above, Numbers, Count, BlockNo, StrictlyDominates, Dominates, ReachableAvoiding
  <1>6. Edge' = Edge
    BY DEF Edge, Numbers, Count, BlockNo, Preds
  <1>7. CursorType' = CursorType
    BY <1>2 DEF CursorType
  <1> QED BY <1>1, <1>2, <1>3, <1>4, <1>5, <1>6, <1>7

\* What every step of the sweeps may rely on.
LEMMA Context ==
  ASSUME GraphInv, Numbered, Analysable
  PROVE  /\ Count \in Nat \ {0} /\ Numbers = 0..(Count - 1) /\ Count - 1 \in Numbers
         /\ SIZE_MAX \notin Numbers
         /\ IsAbove(Above, Edge, Count)
         /\ \A j \in Numbers : block_predecessor(ir, BlockNo(j)) \in Seq(Part(ir, entry))
         /\ \A j \in Numbers : j = Count - 1 <=> block_predecessor(ir, BlockNo(j)) = <<>>
         /\ \A j \in Numbers : \A p \in Preds(BlockNo(j)) :
              /\ p \in seen /\ number[p] \in Numbers /\ BlockNo(number[p]) = p
              /\ <<number[p], j>> \in Edge
         /\ \A p, j \in Numbers : <<p, j>> \in Edge => BlockNo(p) \in Preds(BlockNo(j)) /\ j # Count - 1
  <1>1. /\ Count \in Nat \ {0} /\ Numbers = 0..(Count - 1) /\ Count - 1 \in Numbers
        /\ SIZE_MAX \notin Numbers /\ IsAbove(Above, Edge, Count)
    BY NumberedFacts, AboveIs
  <1>2. ASSUME NEW j \in Numbers
        PROVE  /\ block_predecessor(ir, BlockNo(j)) \in Seq(Part(ir, entry))
               /\ j = Count - 1 <=> block_predecessor(ir, BlockNo(j)) = <<>>
               /\ \A p \in Preds(BlockNo(j)) : p \in seen
    <2>1. BlockNo(j) \in seen /\ BlockNo(j) \in Part(ir, entry) /\ (j = Count - 1 <=> BlockNo(j) = entry)
      BY NumberedFacts DEF Numbered
    <2>2. block_predecessor(ir, BlockNo(j)) \in Seq(Part(ir, entry))
      BY <2>1, GraphEdges
    <2>3. CASE j = Count - 1
      <3>1. block_predecessor(ir, BlockNo(j)) = <<>>
        BY <2>1, <2>3 DEF Analysable
      <3> QED BY <2>2, <2>3, <3>1 DEF Preds, ToSet
    <2>4. CASE j # Count - 1
      BY <2>1, <2>2, <2>4 DEF Analysable, Preds
    <2> QED BY <2>3, <2>4
  <1>3. ASSUME NEW j \in Numbers, NEW p \in Preds(BlockNo(j))
        PROVE  /\ p \in seen /\ number[p] \in Numbers /\ BlockNo(number[p]) = p
               /\ <<number[p], j>> \in Edge
    BY <1>2, NumberedFacts DEF Edge
  <1>4. ASSUME NEW p \in Numbers, NEW j \in Numbers, <<p, j>> \in Edge
        PROVE  BlockNo(p) \in Preds(BlockNo(j)) /\ j # Count - 1
    BY <1>1, <1>4 DEF Edge, IsAbove
  <1> QED BY <1>1, <1>2, <1>3, <1>4

\* A sweep begins, or the sweeps end.
LEMMA BeginBlockKeeps ==
  ASSUME GraphInv, Numbered, Analysable, AnalysisInv, UNCHANGED <<ir, entry>>, BeginBlock
  PROVE  AnalysisInv'
  <1> DEFINE i == cursor.i
             preds == block_predecessor(ir, BlockNo(i))
  <1>0. /\ pc = "sweep" /\ SweepInv /\ cursor \in CursorType /\ i \in Numbers
        /\ UNCHANGED <<ir, entry, number, seen, postorder, doms>>
    BY CursorFields DEF BeginBlock, AnalysisInv, CursorType, Crash, domVars
  <1>k. /\ Count' = Count /\ Numbers' = Numbers /\ SIZE_MAX' = SIZE_MAX
        /\ Above' = Above /\ Edge' = Edge /\ CursorType' = CursorType
    BY <1>0, Kept
  <1>c. /\ Count \in Nat \ {0} /\ Numbers = 0..(Count - 1) /\ Count - 1 \in Numbers
        /\ IsAbove(Above, Edge, Count) /\ IsTree(doms, Count) /\ DOMAIN doms = Numbers
        /\ preds \in Seq(Part(ir, entry)) /\ (i = Count - 1 <=> preds = <<>>)
    BY <1>0, Context DEF SweepInv, DomsInv, IsTree
  <1>b. \A j \in Numbers : BlockNo(j)' = BlockNo(j) /\ Preds(BlockNo(j))' = Preds(BlockNo(j))
    BY <1>0 DEF BlockNo, Preds
  <1>1. CASE preds = <<>>
    <2>1. /\ cursor' = [cursor EXCEPT !.newDom = doms[i], !.preds = <<>>] /\ pc' = "preds"
      BY <1>1 DEF BeginBlock
    <2>2. i = Count - 1 /\ doms[i] = Count - 1 /\ doms[i] \in Numbers
      BY <1>1, <1>c DEF IsTree
    <2>3. /\ cursor' \in CursorType /\ cursor'.i = i /\ cursor'.preds = <<>>
          /\ cursor'.newDom = Count - 1 /\ cursor'.changed = cursor.changed
      <3>1. doms[i] \in Nat /\ <<>> \in Seq(Part(ir, entry)) /\ cursor \in CursorOf(Numbers, Seq(Part(ir, entry)))
        BY <2>2, <1>0, <1>c, EmptySeq DEF CursorType
      <3>2. /\ cursor' \in CursorOf(Numbers, Seq(Part(ir, entry))) /\ cursor'.i = cursor.i
            /\ cursor'.preds = <<>> /\ cursor'.newDom = doms[i] /\ cursor'.changed = cursor.changed
        BY <3>1, <2>1 DEF CursorOf
      <3> QED BY <3>2, <2>2 DEF CursorType
    <2>4. SweepInv'
      BY <2>3, <1>0, <1>k DEF SweepInv, DomsInv
    <2>5. BlockInv'
      <3>1. Passed' = {}
        BY <2>2, <2>3, <1>k, <1>c DEF Passed, IsAbove
      <3>2. ToSet(cursor'.preds) = {}
        BY <2>3 DEF ToSet
      <3> QED BY <2>1, <2>2, <2>3, <3>1, <3>2, <1>0, <1>k, <1>c DEF BlockInv
    <2> QED BY <2>1, <2>3, <2>4, <2>5, <1>k DEF AnalysisInv
  <1>2. CASE preds # <<>>
    <2> DEFINE h == Head(preds)
    <2>1. /\ h \in Preds(BlockNo(i)) /\ Tail(preds) \in Seq(Part(ir, entry))
          /\ ToSet(Tail(preds)) \subseteq Preds(BlockNo(i))
          /\ Preds(BlockNo(i)) \subseteq {h} \cup ToSet(Tail(preds))
      BY <1>2, <1>c, HeadTailSet DEF Preds
    <2>2. h \in seen /\ number[h] \in Numbers /\ BlockNo(number[h]) = h /\ <<number[h], i>> \in Edge
      BY <2>1, <1>0, Context
    <2>3. /\ cursor' = [cursor EXCEPT !.newDom = number[h], !.preds = Tail(preds)] /\ pc' = "preds"
      BY <1>2, <2>2 DEF BeginBlock
    <2>4. /\ cursor' \in CursorType /\ cursor'.i = i /\ cursor'.preds = Tail(preds)
          /\ cursor'.newDom = number[h] /\ cursor'.changed = cursor.changed
      <3>1. number[h] \in Nat /\ cursor \in CursorOf(Numbers, Seq(Part(ir, entry)))
        BY <2>2, <1>0, <1>c DEF CursorType
      <3>2. /\ cursor' \in CursorOf(Numbers, Seq(Part(ir, entry))) /\ cursor'.i = cursor.i
            /\ cursor'.preds = Tail(preds) /\ cursor'.newDom = number[h]
            /\ cursor'.changed = cursor.changed
        BY <3>1, <2>1, <2>3 DEF CursorOf
      <3> QED BY <3>2 DEF CursorType
    <2>5. SweepInv'
      BY <2>4, <1>0, <1>k DEF SweepInv, DomsInv
    <2>6. number[h] > i /\ i # Count - 1
      <3>1. BlockNo(i) \in seen \ {entry} /\ number[BlockNo(i)] = i
        BY <1>0, <1>2, <1>c, NumberedFacts DEF Analysable
      <3> QED BY <3>1, <1>2, <1>c DEF Analysable
    <2>7. doms[number[h]] \in Numbers
      BY <2>2, <2>6, <1>0 DEF SweepInv
    <2>8. Covers(Above, i, number[h])
      BY <2>2, <1>c DEF IsAbove
    <2>9. ASSUME NEW p \in Numbers, <<p, i>> \in Edge, BlockNo(p) \notin ToSet(Tail(preds))
          PROVE  number[h] \in Chain(doms, p)
      <3>1. BlockNo(p) = h
        BY <2>1, <2>9, <1>0, Context
      <3>2. p = number[h]
        BY <2>9, <3>1, NumberedFacts
      <3> QED BY <3>2, <2>2, <1>c, ChainStart
    <2>10. BlockInv'
      <3>1. \A p \in Passed' : number[h] \in Chain(doms, p)
        BY <2>9, <2>4, <1>k, <1>b DEF Passed
      <3> QED BY <2>1, <2>2, <2>4, <2>6, <2>7, <2>8, <3>1, <1>0, <1>k, <1>b DEF BlockInv
    <2> QED BY <2>3, <2>4, <2>5, <2>10, <1>k DEF AnalysisInv
  <1> QED BY <1>1, <1>2

\* The next predecessor of a block is taken; the first sets doms.
LEMMA NextPredecessorKeeps ==
  ASSUME GraphInv, Numbered, Analysable, AnalysisInv, UNCHANGED <<ir, entry>>, NextPredecessor
  PROVE  AnalysisInv'
  <1> DEFINE i == cursor.i
             pred == Head(cursor.preds)
             f == number[pred]
             rest == Tail(cursor.preds)
  <1>0. /\ pc = "preds" /\ SweepInv /\ BlockInv /\ cursor \in CursorType /\ i \in Numbers
        /\ cursor.preds \in Seq(Part(ir, entry)) /\ cursor.preds # <<>>
        /\ UNCHANGED <<ir, entry, number, seen, postorder, doms>>
    BY CursorFields DEF NextPredecessor, AnalysisInv, CursorType, Crash, domVars
  <1>k. /\ Count' = Count /\ Numbers' = Numbers /\ SIZE_MAX' = SIZE_MAX
        /\ Above' = Above /\ Edge' = Edge /\ CursorType' = CursorType
    BY <1>0, Kept
  <1>c. /\ Count \in Nat \ {0} /\ Numbers = 0..(Count - 1)
        /\ IsAbove(Above, Edge, Count) /\ IsTree(doms, Count) /\ DOMAIN doms = Numbers
        /\ SIZE_MAX \notin Numbers
    BY <1>0, Context DEF SweepInv, DomsInv, IsTree
  <1>b. \A j \in Numbers : BlockNo(j)' = BlockNo(j) /\ Preds(BlockNo(j))' = Preds(BlockNo(j))
    BY <1>0 DEF BlockNo, Preds
  <1>1. /\ pred \in Preds(BlockNo(i)) /\ rest \in Seq(Part(ir, entry))
        /\ ToSet(rest) \subseteq Preds(BlockNo(i))
        /\ ToSet(cursor.preds) = {pred} \cup ToSet(rest)
    BY <1>0, HeadTailSet DEF BlockInv
  <1>2. /\ pred \in seen /\ f \in Numbers /\ BlockNo(f) = pred /\ <<f, i>> \in Edge
        /\ i # Count - 1
    BY <1>0, <1>1, Context
  <1>3. \A p \in Numbers : <<p, i>> \in Edge /\ BlockNo(p) \notin ToSet(rest) => p \in Passed \/ p = f
    BY <1>1, NumberedFacts DEF Passed
  <1>4. CASE doms[f] = SIZE_MAX
    <2>1. cursor' = [cursor EXCEPT !.preds = rest] /\ pc' = pc
      BY <1>2, <1>4 DEF NextPredecessor
    <2>2. /\ cursor' \in CursorType /\ cursor'.i = i /\ cursor'.preds = rest
          /\ cursor'.newDom = cursor.newDom /\ cursor'.changed = cursor.changed
      BY <2>1, <1>0, <1>1 DEF CursorType, CursorOf
    <2>3. SweepInv'
      BY <2>2, <1>0, <1>k DEF SweepInv, DomsInv
    <2>4. \A p \in Passed' : p \in Passed \/ p = f
      BY <1>3, <1>0, <1>b, <1>k, <2>2 DEF Passed
    <2>5. doms[f] \notin Numbers
      BY <1>4, <1>c
    <2>6. \A p \in Passed' : doms[p] \in Numbers => cursor.newDom \in Chain(doms, p)
      BY <2>4, <2>5, <1>0 DEF BlockInv
    <2>7. BlockInv'
      BY <2>1, <2>2, <2>6, <1>0, <1>1, <1>b, <1>k DEF BlockInv
    <2> QED BY <2>1, <2>2, <2>3, <2>7, <1>0, <1>k DEF AnalysisInv
  <1>5. CASE doms[f] # SIZE_MAX
    <2>1. cursor' = [[cursor EXCEPT !.preds = rest] EXCEPT !.a = f, !.b = cursor.newDom]
          /\ pc' = "intersect"
      BY <1>2, <1>5 DEF NextPredecessor
    <2>n. cursor.newDom \in Nat /\ f \in Nat
      BY <1>0, <1>c, <1>2 DEF BlockInv
    <2>2. /\ cursor' \in CursorType /\ cursor'.i = i /\ cursor'.preds = rest
          /\ cursor'.newDom = cursor.newDom /\ cursor'.changed = cursor.changed
          /\ cursor'.a = f /\ cursor'.b = cursor.newDom
      BY <2>1, <2>n, <1>0, <1>1 DEF CursorType, CursorOf
    <2>3. SweepInv'
      BY <2>2, <1>0, <1>k DEF SweepInv, DomsInv
    <2>4. \A p \in Passed' : p \in Passed \/ p = f
      BY <1>3, <1>0, <1>b, <1>k, <2>2 DEF Passed
    <2>5. doms[f] \in Numbers /\ f \in Chain(doms, f)
      BY <1>2, <1>5, <1>0, <1>c, ChainStart DEF SweepInv, DomsInv
    <2>6. \A p \in Passed' : doms[p] \in Numbers =>
             cursor.newDom \in Chain(doms, p) \/ f \in Chain(doms, p)
      BY <2>4, <2>5, <1>0 DEF BlockInv
    <2>7. BlockInv'
      BY <2>1, <2>2, <2>6, <1>0, <1>1, <1>2, <1>b, <1>k DEF BlockInv
    <2>8. FingersInv'
      <3>1. cursor.newDom \in Chain(doms, cursor.newDom) /\ Covers(Above, i, cursor.newDom)
        BY <1>0, <1>2, <1>c, ChainStart DEF BlockInv
      <3>2. Covers(Above, i, f)
        BY <1>2, <1>c DEF IsAbove
      <3> QED BY <3>1, <3>2, <2>2, <2>5, <1>0, <1>2, <1>k DEF FingersInv, BlockInv
    <2> QED BY <2>1, <2>2, <2>3, <2>7, <2>8, <1>k DEF AnalysisInv
  <1> QED BY <1>4, <1>5

\* A step of intersect: one finger climbs, or the fingers have met.
LEMMA IntersectStepKeeps ==
  ASSUME GraphInv, Numbered, Analysable, AnalysisInv, UNCHANGED <<ir, entry>>, IntersectStep
  PROVE  AnalysisInv'
  <1> DEFINE i == cursor.i
             a == cursor.a
             b == cursor.b
             m == cursor.newDom
  <1>0. /\ pc = "intersect" /\ SweepInv /\ BlockInv /\ FingersInv
        /\ cursor \in CursorType /\ i \in Numbers
        /\ UNCHANGED <<ir, entry, number, seen, postorder, doms>>
    BY CursorFields DEF IntersectStep, AnalysisInv, CursorType
  <1>k. /\ Count' = Count /\ Numbers' = Numbers /\ SIZE_MAX' = SIZE_MAX
        /\ Above' = Above /\ Edge' = Edge /\ CursorType' = CursorType
    BY <1>0, Kept
  <1>c. /\ Count \in Nat \ {0} /\ Numbers = 0..(Count - 1) /\ IsAbove(Above, Edge, Count)
        /\ IsTree(doms, Count) /\ DOMAIN doms = Numbers /\ Respects(doms, Count, Above)
    BY <1>0, Context DEF SweepInv, DomsInv, IsTree
  <1>b. \A j \in Numbers : BlockNo(j)' = BlockNo(j) /\ Preds(BlockNo(j))' = Preds(BlockNo(j))
    BY <1>0 DEF BlockNo, Preds
  <1>1. /\ a \in Numbers /\ doms[a] \in Numbers /\ Covers(Above, i, a)
        /\ b \in Numbers /\ doms[b] \in Numbers /\ Covers(Above, i, b)
        /\ b \in Chain(doms, m) /\ m \in Numbers /\ doms[m] \in Numbers
        /\ i # Count - 1 /\ m > i
    BY <1>0 DEF FingersInv, BlockInv
  <1>2. \A p \in Passed : p \in Numbers /\ (doms[p] \in Numbers => m \in Chain(doms, p) \/ a \in Chain(doms, p))
    BY <1>0 DEF BlockInv, Passed
  <1>3. CASE a = b
    <2>1. cursor' = [cursor EXCEPT !.newDom = a] /\ pc' = "preds"
      BY <1>3 DEF IntersectStep
    <2>n. a \in Nat
      BY <1>1, <1>c
    <2>2. /\ cursor' \in CursorType /\ cursor'.i = i /\ cursor'.preds = cursor.preds
          /\ cursor'.newDom = a /\ cursor'.changed = cursor.changed
      BY <2>1, <2>n, <1>0 DEF CursorType, CursorOf
    <2>3. SweepInv'
      BY <2>2, <1>0, <1>k DEF SweepInv, DomsInv
    <2>4. Passed' = Passed
      BY <1>0, <1>b, <1>k, <2>2 DEF Passed
    <2>5. \A p \in Passed : doms[p] \in Numbers => a \in Chain(doms, p)
      <3>1. ASSUME NEW p \in Passed, m \in Chain(doms, p) PROVE a \in Chain(doms, p)
        BY <3>1, <1>1, <1>3, ChainOfMember
      <3> QED BY <3>1, <1>2
    <2>6. a > i
      <3>1. a \in m..(Count - 1)
        BY <1>1, <1>3, <1>c, ChainAbove
      <3> QED BY <3>1, <1>1, <1>0, <1>c
    <2>7. BlockInv'
      BY <2>1, <2>2, <2>4, <2>5, <2>6, <1>0, <1>1, <1>b, <1>k DEF BlockInv
    <2> QED BY <2>1, <2>2, <2>3, <2>7, <1>k DEF AnalysisInv
  <1>4. CASE a # b
    <2>1. cursor' = Climb(cursor) /\ pc' = "intersect"
      BY <1>0, <1>4 DEF IntersectStep
    <2>n. doms[a] \in Nat /\ doms[b] \in Nat
      BY <1>1, <1>c
    <2>2. CASE a < b
      <3>1. cursor' = [cursor EXCEPT !.a = doms[a]]
        BY <2>1, <2>2 DEF Climb
      <3>2. /\ cursor' \in CursorType /\ cursor'.i = i /\ cursor'.preds = cursor.preds
            /\ cursor'.newDom = m /\ cursor'.changed = cursor.changed
            /\ cursor'.a = doms[a] /\ cursor'.b = b
        BY <3>1, <2>n, <1>0 DEF CursorType, CursorOf
      <3>3. /\ doms[doms[a]] \in Numbers /\ Covers(Above, i, doms[a])
            /\ \A x \in Numbers : a \in Chain(doms, x) => doms[a] \in Chain(doms, x)
        BY <1>1, <1>c, <2>2, FingerClimbs
      <3>4. SweepInv'
        BY <3>2, <1>0, <1>k DEF SweepInv, DomsInv
      <3>5. Passed' = Passed
        BY <1>0, <1>b, <1>k, <3>2 DEF Passed
      <3>6. \A p \in Passed : doms[p] \in Numbers => m \in Chain(doms, p) \/ doms[a] \in Chain(doms, p)
        BY <1>2, <3>3
      <3>7. BlockInv'
        BY <2>1, <3>2, <3>5, <3>6, <1>0, <1>1, <1>b, <1>k DEF BlockInv
      <3>8. FingersInv'
        BY <3>2, <3>3, <1>0, <1>1, <1>k DEF FingersInv
      <3> QED BY <2>1, <3>2, <3>4, <3>7, <3>8, <1>k DEF AnalysisInv
    <2>3. CASE ~(a < b)
      <3>0. b < a
        BY <2>3, <1>1, <1>4, <1>c
      <3>1. cursor' = [cursor EXCEPT !.b = doms[b]]
        BY <2>1, <2>3 DEF Climb
      <3>2. /\ cursor' \in CursorType /\ cursor'.i = i /\ cursor'.preds = cursor.preds
            /\ cursor'.newDom = m /\ cursor'.changed = cursor.changed
            /\ cursor'.a = a /\ cursor'.b = doms[b]
        BY <3>1, <2>n, <1>0 DEF CursorType, CursorOf
      <3>3. /\ doms[doms[b]] \in Numbers /\ Covers(Above, i, doms[b])
            /\ \A x \in Numbers : b \in Chain(doms, x) => doms[b] \in Chain(doms, x)
        BY <1>1, <1>c, <3>0, FingerClimbs
      <3>4. SweepInv'
        BY <3>2, <1>0, <1>k DEF SweepInv, DomsInv
      <3>5. Passed' = Passed
        BY <1>0, <1>b, <1>k, <3>2 DEF Passed
      <3>7. BlockInv'
        BY <2>1, <3>2, <3>5, <1>0, <1>1, <1>2, <1>b, <1>k DEF BlockInv
      <3>8. FingersInv'
        BY <3>2, <3>3, <1>0, <1>1, <1>k DEF FingersInv
      <3> QED BY <2>1, <3>2, <3>4, <3>7, <3>8, <1>k DEF AnalysisInv
    <2> QED BY <2>2, <2>3
  <1> QED BY <1>3, <1>4

\* A block has been visited; the next number is the one below.
LEMMA EndBlockKeeps ==
  ASSUME GraphInv, Numbered, Analysable, AnalysisInv, UNCHANGED <<ir, entry>>, EndBlock
  PROVE  AnalysisInv'
  <1> DEFINE i == cursor.i
             m == cursor.newDom
             changed == cursor.changed \/ doms[i] # m
  <1>0. /\ pc = "preds" /\ SweepInv /\ BlockInv /\ cursor \in CursorType /\ i \in Numbers
        /\ cursor.preds = <<>> /\ doms' = [doms EXCEPT ![i] = m]
        /\ UNCHANGED <<ir, entry, number, seen, postorder>>
    BY CursorFields DEF EndBlock, AnalysisInv, CursorType
  <1>k. /\ Count' = Count /\ Numbers' = Numbers /\ SIZE_MAX' = SIZE_MAX
        /\ Above' = Above /\ Edge' = Edge /\ CursorType' = CursorType
    BY <1>0, Kept
  <1>c. /\ Count \in Nat \ {0} /\ Numbers = 0..(Count - 1) /\ Count - 1 \in Numbers
        /\ IsAbove(Above, Edge, Count) /\ IsTree(doms, Count) /\ Respects(doms, Count, Above)
        /\ doms \in [Numbers -> Nat]
    BY <1>0, Context DEF SweepInv, DomsInv, IsTree
  <1>1. /\ m \in Numbers /\ doms[m] \in Numbers
        /\ IF i = Count - 1 THEN m = Count - 1 ELSE m > i /\ Covers(Above, i, m)
    BY <1>0 DEF BlockInv
  <1>2. /\ IsTree(doms', Count) /\ Respects(doms', Count, Above)
        /\ \A j \in Numbers : doms'[j] = IF j = i THEN m ELSE doms[j]
    <2>1. doms' \in [Numbers -> Nat] /\ \A j \in Numbers : doms'[j] = IF j = i THEN m ELSE doms[j]
      BY <1>0, <1>1, <1>c
    <2>2. doms' \in [0..(Count - 1) -> Nat] /\ i \in 0..(Count - 1) /\ m \in 0..(Count - 1)
          /\ doms[m] \in 0..(Count - 1)
          /\ \A j \in 0..(Count - 1) : doms'[j] = IF j = i THEN m ELSE doms[j]
      BY <2>1, <1>0, <1>1, <1>c
    <2>3. IsTree(doms', Count) /\ Respects(doms', Count, Above)
      <3> DEFINE e == doms'
      <3>1. e \in [0..(Count - 1) -> Nat] /\ \A j \in 0..(Count - 1) : e[j] = IF j = i THEN m ELSE doms[j]
        BY <2>2
      <3> HIDE DEF e, i, m
      <3>2. IsTree(e, Count) /\ Respects(e, Count, Above)
        BY <3>1, <2>2, <1>1, <1>c, Assigned
      <3> QED BY <3>2 DEF e
    <2> QED BY <2>1, <2>3
  <1>3. \A j \in Numbers : doms'[j] \in Numbers \/ doms'[j] = SIZE_MAX
    BY <1>0, <1>1, <1>2 DEF SweepInv, DomsInv
  <1>4. DomsInv'
    BY <1>2, <1>3, <1>k DEF DomsInv
  <1>5. \A j \in Numbers : j >= i => doms'[j] \in Numbers
    BY <1>0, <1>1, <1>2, <1>c DEF SweepInv
  <1>6. ASSUME ~changed, NEW j \in Numbers, j >= i PROVE Settled(doms', Count, Edge, j)
    <2>1. doms[i] = m /\ ~cursor.changed
      BY <1>6
    <2>2. doms' = doms
      BY <2>1, <1>0, <1>c
    <2>3. Settled(doms, Count, Edge, j)
      <3>1. CASE j = i
        <4>1. ASSUME NEW p \in Numbers, <<p, i>> \in Edge, doms[p] \in Numbers
              PROVE  doms[i] \in Chain(doms, p)
          <5>1. p \in Passed
            BY <4>1, <1>0 DEF Passed, ToSet
          <5> QED BY <5>1, <4>1, <2>1, <1>0 DEF BlockInv
        <4> QED BY <4>1, <3>1, <1>c DEF Settled
      <3>2. CASE j # i
        BY <3>2, <1>6, <2>1, <1>0, <1>c DEF SweepInv
      <3> QED BY <3>1, <3>2
    <2> QED BY <2>2, <2>3
  <1>t. changed \in BOOLEAN
    BY <1>0, CursorFields DEF CursorType
  <1>7. CASE i > 0 /\ cursor' = [cursor EXCEPT !.i = i - 1, !.changed = changed] /\ pc' = "sweep"
    <2>0. i - 1 \in Numbers
      BY <1>7, <1>0, <1>c
    <2>1. cursor' \in CursorType /\ cursor'.i = i - 1 /\ (cursor'.changed <=> changed)
      <3>1. ASSUME NEW y \in BOOLEAN, cursor' = [cursor EXCEPT !.i = i - 1, !.changed = y]
            PROVE  cursor' \in CursorType /\ cursor'.i = i - 1 /\ cursor'.changed = y
        BY <3>1, <2>0, <1>0 DEF CursorType, CursorOf
      <3> HIDE DEF changed
      <3> QED BY <3>1, <1>7, <1>t
    <2>2. \A j \in Numbers : j > i - 1 => j >= i
      BY <1>c, <1>0
    <2>3. SweepInv'
      <3> HIDE DEF changed
      <3> QED BY <2>1, <2>2, <1>4, <1>5, <1>6, <1>k DEF SweepInv
    <2> QED BY <1>7, <2>1, <2>3, <1>k DEF AnalysisInv
  <1>8. CASE i = 0 /\ cursor' = [cursor EXCEPT !.i = Count - 1, !.changed = FALSE] /\ pc' = "sweep"
    <2>1. cursor' \in CursorType /\ cursor'.i = Count - 1
      BY <1>8, <1>0, <1>c DEF CursorType, CursorOf
    <2>2. \A j \in Numbers : ~(j > Count - 1)
      BY <1>c
    <2>3. SweepInv'
      BY <2>1, <2>2, <1>4, <1>k DEF SweepInv
    <2> QED BY <1>8, <2>1, <2>3, <1>k DEF AnalysisInv
  <1>9. CASE i = 0 /\ ~changed /\ pc' = "tree" /\ cursor' = cursor
    <2>1. \A j \in Numbers : j >= i
      BY <1>9, <1>c
    <2>2. TreeInv'
      BY <2>1, <1>9, <1>4, <1>5, <1>6, <1>k DEF TreeInv
    <2> QED BY <1>9, <2>2, <1>0, <1>k DEF AnalysisInv
  <1> QED BY <1>7, <1>8, <1>9 DEF EndBlock

\* The children lists are built, and the frontiers are empty.
LEMMA BuildTreeKeeps ==
  ASSUME GraphInv, Numbered, Analysable, AnalysisInv, UNCHANGED <<ir, entry>>, BuildTree
  PROVE  AnalysisInv'
  <1>0. pc = "tree" /\ TreeInv /\ cursor \in CursorType
    BY DEF BuildTree, AnalysisInv
  <1>c. /\ Count \in Nat \ {0} /\ Numbers = 0..(Count - 1) /\ DOMAIN doms = Numbers
        /\ 0 \in Numbers /\ SIZE_MAX \notin Numbers
    BY <1>0, Context DEF TreeInv, DomsInv, IsTree
  <1> DEFINE preds == block_predecessor(ir, BlockNo(0))
  <1>1. /\ pc' = "df" /\ df' = [b \in Blocks(ir) |-> <<>>]
        /\ cursor' = [cursor EXCEPT !.i = 0, !.preds = preds]
        /\ UNCHANGED <<ir, entry, number, seen, postorder, doms>>
    BY <1>0, <1>c DEF BuildTree, TreeInv
  <1>k. /\ Count' = Count /\ Numbers' = Numbers /\ SIZE_MAX' = SIZE_MAX
        /\ Above' = Above /\ Edge' = Edge /\ CursorType' = CursorType
    BY <1>1, Kept
  <1>2. preds \in Seq(Part(ir, entry)) /\ ToSet(preds) = Preds(BlockNo(0))
    BY <1>c, Context DEF Preds
  <1>3. cursor' \in CursorType /\ cursor'.i = 0 /\ cursor'.preds = preds
    BY <1>0, <1>1, <1>2, <1>c DEF CursorType, CursorOf
  <1>4. TreeInv'
    BY <1>0, <1>1, <1>k DEF TreeInv, DomsInv
  <1>5. FrontierInv'
    <2>1. df' \in [Blocks(ir) -> Seq(Part(ir, entry))]
      BY <1>1, EmptySeq
    <2>2. \A x \in seen : ToSet(df'[x]) = {}
      <3>1. \A x \in seen : df'[x] = <<>>
        BY <1>1, NumberedFacts
      <3> QED BY <3>1 DEF ToSet
    <2>3. \A y \in seen : number[y] \in Numbers /\ (~(number[y] > 0) => y = BlockNo(0))
      <3>1. ASSUME NEW y \in seen PROVE number[y] \in Numbers /\ (~(number[y] > 0) => y = BlockNo(0))
        <4>1. number[y] \in Numbers /\ BlockNo(number[y]) = y
          BY NumberedFacts
        <4>2. ~(number[y] > 0) => number[y] = 0
          BY <4>1, <1>c
        <4> QED BY <4>1, <4>2
      <3> QED BY <3>1
    <2> HIDE DEF preds
    <2>4. \A y \in seen : ~(number[y] > 0) => y = BlockNo(0) /\ Preds(y) = ToSet(preds)
      <3>1. Preds(BlockNo(0)) = ToSet(preds)
        BY <1>2
      <3>2. ASSUME NEW y \in seen, ~(number[y] > 0) PROVE y = BlockNo(0) /\ Preds(y) = ToSet(preds)
        <4>1. y = BlockNo(0)
          BY <2>3, <3>2
        <4>2. Preds(y) = Preds(BlockNo(0))
          BY <4>1
        <4> QED BY <4>1, <4>2, <3>1
      <3> QED BY <3>2
    <2>5. BlockNo(0)' = BlockNo(0) /\ \A y : Preds(y)' = Preds(y)
      BY <1>1 DEF BlockNo, Preds
    <2> QED BY <2>1, <2>2, <2>4, <2>5, <1>1, <1>2, <1>3, <1>4 DEF FrontierInv, BlockNo, Preds
  <1> QED BY <1>1, <1>3, <1>5, <1>k DEF AnalysisInv

\* FrontierInv of the next state, when only the cursor moves: the new places
\* from which a block can still be missing cover the old ones.
LEMMA FrontierMoves ==
  ASSUME GraphInv, Numbered, Analysable, FrontierInv,
         UNCHANGED <<ir, entry, number, seen, postorder, doms, df>>,
         ToSet(cursor'.preds) \subseteq Preds(BlockNo(cursor'.i)),
         \A x, y \in seen : \A p \in Preds(y) :
            Between(x, p, y) /\ y \notin ToSet(df[x]) =>
              \/ number[y] > cursor'.i
              \/ y = BlockNo(cursor'.i) /\ p \in ToSet(cursor'.preds)
              \/ y = BlockNo(cursor'.i) /\ pc' = "runner"
                                        /\ number[x] \in Chain(doms, number[cursor'.runner])
  PROVE  FrontierInv'
  <1>k. /\ Count' = Count /\ Numbers' = Numbers /\ SIZE_MAX' = SIZE_MAX
        /\ Above' = Above /\ Edge' = Edge
    BY Kept
  <1>1. TreeInv'
    BY <1>k DEF FrontierInv, TreeInv, DomsInv
  <1>2. \A x, p, y : Between(x, p, y)' <=> Between(x, p, y)
    BY DEF Between
  <1>3. \A b : Preds(b)' = Preds(b)
    BY DEF Preds
  <1>4. \A k : BlockNo(k)' = BlockNo(k)
    BY DEF BlockNo
  <1>5. (df \in [Blocks(ir) -> Seq(Part(ir, entry))])'
    BY DEF FrontierInv
  <1>6. \A x \in seen' : \A y \in ToSet(df'[x]) : y \in seen' /\ \E p \in Preds(y)' : Between(x, p, y)'
    <2>1. \A x \in seen : \A y \in ToSet(df[x]) : y \in seen /\ \E p \in Preds(y) : Between(x, p, y)
      BY DEF FrontierInv
    <2> QED BY <2>1, <1>2, <1>3
  <1>7. \A x, y \in seen' : \A p \in Preds(y)' :
          Between(x, p, y)' =>
            \/ y \in ToSet(df'[x])
            \/ number'[y] > cursor'.i
            \/ y = BlockNo(cursor'.i) /\ p \in ToSet(cursor'.preds)
            \/ y = BlockNo(cursor'.i) /\ pc' = "runner"
                                      /\ number'[x] \in Chain(doms', number'[cursor'.runner])
    BY <1>2, <1>3
  <1> QED BY <1>1, <1>2, <1>3, <1>4, <1>5, <1>6, <1>7 DEF FrontierInv, BlockNo, Preds, Between

\* A runner starts at a predecessor.
LEMMA DfPredecessorKeeps ==
  ASSUME GraphInv, Numbered, Analysable, AnalysisInv, UNCHANGED <<ir, entry>>, DfPredecessor
  PROVE  AnalysisInv'
  <1> DEFINE i == cursor.i
             h == Head(cursor.preds)
             rest == Tail(cursor.preds)
  <1>0. /\ pc = "df" /\ pc' = "runner" /\ FrontierInv /\ TreeInv /\ cursor \in CursorType /\ i \in Numbers
        /\ cursor.preds # <<>> /\ cursor.preds \in Seq(Part(ir, entry))
        /\ cursor' = [cursor EXCEPT !.runner = h, !.preds = rest]
        /\ UNCHANGED <<ir, entry, number, seen, postorder, doms, df>>
    BY CursorFields DEF DfPredecessor, AnalysisInv, FrontierInv, CursorType
  <1>k. CursorType' = CursorType /\ Count' = Count /\ Count \in Nat \ {0} /\ Numbers = 0..(Count - 1)
    BY <1>0, Kept, Context
  <1>1. /\ h \in Preds(BlockNo(i)) /\ rest \in Seq(Part(ir, entry))
        /\ ToSet(rest) \subseteq Preds(BlockNo(i))
        /\ ToSet(cursor.preds) = {h} \cup ToSet(rest)
    BY <1>0, HeadTailSet DEF FrontierInv
  <1>2. h \in seen /\ number[h] \in Numbers /\ <<number[h], i>> \in Edge /\ i # Count - 1 /\ h \in Nat
    <2>1. h \in seen /\ number[h] \in Numbers /\ <<number[h], i>> \in Edge
      BY <1>0, <1>1, Context
    <2>2. i # Count - 1
      BY <2>1, <1>0, Context
    <2>3. h \in Nat
      BY <2>1, NumberedFacts DEF GraphInv
    <2> QED BY <2>1, <2>2, <2>3
  <1>3. /\ cursor' \in CursorType /\ cursor'.i = i /\ cursor'.runner = h /\ cursor'.preds = rest
    BY <1>0, <1>1, <1>2 DEF CursorType, CursorOf
  <1>4. FrontierInv'
    <2>1. ASSUME NEW x \in seen, NEW y \in seen, NEW p \in Preds(y), Between(x, p, y), y \notin ToSet(df[x])
          PROVE  \/ number[y] > i
                 \/ y = BlockNo(i) /\ p \in ToSet(rest)
                 \/ y = BlockNo(i) /\ number[x] \in Chain(doms, number[h])
      <3>1. \/ number[y] > i
            \/ y = BlockNo(i) /\ p \in ToSet(cursor.preds)
        BY <2>1, <1>0 DEF FrontierInv
      <3>2. number[x] \in Chain(doms, number[p])
        BY <2>1 DEF Between
      <3> QED BY <3>1, <3>2, <1>1
    <2> QED BY <2>1, <1>0, <1>1, <1>3, FrontierMoves
  <1>5. RunnerInv'
    <2>1. doms[i] \in Chain(doms, number[h])
      BY <1>0, <1>2, <1>k DEF TreeInv, Settled
    <2>2. number[h] \in Chain(doms, number[h])
      BY <1>0, <1>2, <1>k, ChainStart DEF TreeInv, DomsInv, IsTree
    <2>3. \E p \in Preds(BlockNo(i)) : number[h] \in Chain(doms, number[p])
      BY <2>2, <1>1
    <2>4. Preds(BlockNo(cursor.i))' = Preds(BlockNo(cursor.i))
      BY <1>0, <1>3 DEF Preds, BlockNo
    <2>5. UNCHANGED <<number, seen, doms>>
      BY <1>0
    <2> QED BY <2>1, <2>3, <2>4, <2>5, <1>2, <1>3, <1>k DEF RunnerInv
  <1> QED BY <1>0, <1>3, <1>4, <1>5, <1>k DEF AnalysisInv

\* A block has been added to all the frontiers it belongs to.
LEMMA DfEndBlockKeeps ==
  ASSUME GraphInv, Numbered, Analysable, AnalysisInv, UNCHANGED <<ir, entry>>, DfEndBlock
  PROVE  AnalysisInv'
  <1> DEFINE i == cursor.i
             preds == block_predecessor(ir, BlockNo(i + 1))
  <1>0. /\ pc = "df" /\ FrontierInv /\ cursor \in CursorType /\ i \in Numbers
        /\ cursor.preds = <<>>
        /\ UNCHANGED <<ir, entry, number, seen, postorder, doms, df>>
    BY CursorFields DEF DfEndBlock, AnalysisInv, FrontierInv, CursorType
  <1>k. CursorType' = CursorType /\ Count' = Count /\ Count \in Nat \ {0} /\ Numbers = 0..(Count - 1)
    BY <1>0, Kept, Context
  <1>1. ASSUME NEW x \in seen, NEW y \in seen, NEW p \in Preds(y), Between(x, p, y), y \notin ToSet(df[x])
        PROVE  number[y] > i
    BY <1>1, <1>0 DEF FrontierInv, ToSet
  <1>2. CASE i + 1 < Count /\ cursor' = [cursor EXCEPT !.i = i + 1, !.preds = preds] /\ pc' = pc
    <2>1. i + 1 \in Numbers
      BY <1>2, <1>0, <1>k
    <2>2. preds \in Seq(Part(ir, entry)) /\ ToSet(preds) = Preds(BlockNo(i + 1))
      BY <2>1, Context DEF Preds
    <2>3. cursor' \in CursorType /\ cursor'.i = i + 1 /\ cursor'.preds = preds
      BY <2>1, <2>2, <1>0, <1>2 DEF CursorType, CursorOf
    <2>4. FrontierInv'
      <3>1. ASSUME NEW x \in seen, NEW y \in seen, NEW p \in Preds(y), Between(x, p, y), y \notin ToSet(df[x])
            PROVE  \/ number[y] > i + 1
                   \/ y = BlockNo(i + 1) /\ p \in ToSet(preds)
        <4>1. number[y] > i /\ number[y] \in Numbers /\ BlockNo(number[y]) = y
          BY <1>1, <3>1, NumberedFacts
        <4>2. CASE number[y] = i + 1
          BY <4>1, <4>2, <2>2
        <4>3. CASE number[y] # i + 1
          BY <4>1, <4>3, <1>0, <1>k
        <4> QED BY <4>2, <4>3
      <3> HIDE DEF i, preds
      <3> QED BY <3>1, <2>2, <2>3, <1>0, FrontierMoves
    <2> QED BY <1>0, <1>2, <2>3, <2>4, <1>k DEF AnalysisInv
  <1>3. CASE i + 1 = Count /\ pc' = "ssa" /\ cursor' = cursor
    <2>1. FrontierInv'
      <3>1. ToSet(cursor'.preds) \subseteq Preds(BlockNo(cursor'.i))
        BY <1>0, <1>3 DEF FrontierInv
      <3> QED BY <3>1, <1>0, <1>1, <1>3, FrontierMoves
    <2>2. i = Count - 1
      BY <1>3, <1>0, <1>k
    <2> QED BY <2>1, <2>2, <1>0, <1>3, <1>k DEF AnalysisInv
  <1> QED BY <1>2, <1>3 DEF DfEndBlock

\* The runner adds the block to a frontier and climbs, or is at its dominator.
LEMMA RunnerStepKeeps ==
  ASSUME GraphInv, Numbered, Analysable, AnalysisInv, UNCHANGED <<ir, entry>>, RunnerStep
  PROVE  AnalysisInv'
  <1> DEFINE i == cursor.i
             y0 == BlockNo(i)
             r == cursor.runner
             m == number[r]
  <1>0. /\ pc = "runner" /\ FrontierInv /\ RunnerInv /\ TreeInv /\ cursor \in CursorType
        /\ i \in Numbers /\ cursor.preds \in Seq(Part(ir, entry))
        /\ UNCHANGED <<ir, entry, number, seen, postorder, doms>>
    BY CursorFields DEF RunnerStep, AnalysisInv, FrontierInv, CursorType
  <1>c. /\ CursorType' = CursorType /\ Count' = Count /\ Count \in Nat \ {0} /\ Numbers = 0..(Count - 1)
        /\ IsTree(doms, Count) /\ DOMAIN doms = Numbers
        /\ \A j \in Numbers : doms[j] \in Numbers
    BY <1>0, Kept, Context DEF TreeInv, DomsInv, IsTree
  <1>1. /\ r \in seen /\ m \in Numbers /\ BlockNo(m) = r /\ y0 \in seen /\ number[y0] = i
        /\ i # Count - 1 /\ doms[i] \in Numbers /\ doms[m] \in Numbers
        /\ doms[i] \in Chain(doms, m)
        /\ dominators_getIDom(y0) = BlockNo(doms[i]) /\ dominators_getIDom(r) = BlockNo(doms[m])
        /\ number[BlockNo(doms[i])] = doms[i]
        /\ BlockNo(doms[m]) \in seen /\ number[BlockNo(doms[m])] = doms[m]
    BY <1>0, <1>c, NumberedFacts DEF RunnerInv, dominators_getIDom
  <1>2. CASE r = dominators_getIDom(y0)
    <2>1. pc' = "df" /\ UNCHANGED <<df, cursor>>
      BY <1>2 DEF RunnerStep
    <2>2. m = doms[i]
      BY <1>1, <1>2
    <2>3. ASSUME NEW x \in seen, NEW y \in seen, NEW p \in Preds(y), Between(x, p, y), y \notin ToSet(df[x])
          PROVE  \/ number[y] > i
                 \/ y = y0 /\ p \in ToSet(cursor.preds)
      <3>1. number[x] \notin Chain(doms, doms[number[y]])
        BY <2>3 DEF Between
      <3>2. ~(y = y0 /\ number[x] \in Chain(doms, m))
        BY <3>1, <2>2, <1>1
      <3> QED BY <2>3, <3>2, <1>0 DEF FrontierInv
    <2>4. FrontierInv'
      <3>1. ToSet(cursor'.preds) \subseteq Preds(BlockNo(cursor'.i))
        BY <1>0, <2>1 DEF FrontierInv
      <3> QED BY <2>1, <2>3, <3>1, <1>0, FrontierMoves
    <2> QED BY <2>1, <2>4, <1>0, <1>c DEF AnalysisInv
  <1>3. CASE r # dominators_getIDom(y0)
    <2>1. /\ pc' = "runner" /\ df' = [df EXCEPT ![r] = Append(@, y0)]
          /\ cursor' = [cursor EXCEPT !.runner = BlockNo(doms[m])]
      BY <1>0, <1>1, <1>3 DEF RunnerStep, AddToFrontier
    <2>2. /\ cursor' \in CursorType /\ cursor'.i = i /\ cursor'.runner = BlockNo(doms[m])
          /\ cursor'.preds = cursor.preds
      <3>1. BlockNo(doms[m]) \in Nat
        BY <1>1, NumberedFacts DEF GraphInv
      <3> QED BY <3>1, <2>1, <1>0 DEF CursorType, CursorOf
    <2>3. m # doms[i] /\ doms[i] \in Chain(doms, doms[m]) /\ Chain(doms, m) = {m} \cup Chain(doms, doms[m])
      <3>1. m # doms[i]
        BY <1>1, <1>3
      <3> QED BY <3>1, <1>1, <1>c, ChainStrict, ChainNext
    <2>4. m \notin Chain(doms, doms[i])
      <3>0. doms[i] \in m..(Count - 1)
        BY <1>1, <1>c, ChainAbove
      <3>1. doms[i] > m
        <4>1. m # doms[i] /\ m \in Nat /\ Count \in Nat
          BY <2>3, <1>1, <1>c
        <4> HIDE DEF m, i
        <4> QED BY <3>0, <4>1
      <3>2. m \in Chain(doms, doms[i]) => m \in doms[i]..(Count - 1)
        <4>1. IsTree(doms, Count) /\ doms[i] \in 0..(Count - 1)
          BY <1>1, <1>c
        <4> HIDE DEF m, i
        <4> QED BY <4>1, ChainAbove
      <3> QED BY <3>1, <3>2, <1>1, <1>c
    <2>5. PICK q \in Preds(y0) : m \in Chain(doms, number[q])
      BY <1>0 DEF RunnerInv
    <2>6. Between(r, q, y0)
      BY <2>4, <2>5, <1>1 DEF Between
    <2>7. /\ df' \in [Blocks(ir) -> Seq(Part(ir, entry))]
          /\ \A x \in seen : ToSet(df'[x]) = IF x = r THEN ToSet(df[x]) \cup {y0} ELSE ToSet(df[x])
      <3>1. df \in [Blocks(ir) -> Seq(Part(ir, entry))] /\ seen \subseteq Blocks(ir) /\ y0 \in Part(ir, entry)
        BY <1>0, <1>1, NumberedFacts DEF FrontierInv
      <3>2. Append(df[r], y0) \in Seq(Part(ir, entry)) /\ ToSet(Append(df[r], y0)) = ToSet(df[r]) \cup {y0}
        BY <3>1, <1>1, AppendSet
      <3> QED BY <3>1, <3>2, <2>1
    <2>8. \A x, p, y : Between(x, p, y)' <=> Between(x, p, y)
      BY <1>0 DEF Between
    <2>9. (\A b : Preds(b)' = Preds(b)) /\ (\A k : BlockNo(k)' = BlockNo(k))
      BY <1>0 DEF Preds, BlockNo
    <2>10. TreeInv'
      <3>1. Count' = Count /\ Numbers' = Numbers /\ SIZE_MAX' = SIZE_MAX /\ Above' = Above /\ Edge' = Edge
        BY <1>0, Kept
      <3> QED BY <3>1, <1>0 DEF TreeInv, DomsInv
    <2>11. \A x \in seen' : \A y \in ToSet(df'[x]) : y \in seen' /\ \E p \in Preds(y)' : Between(x, p, y)'
      <3>1. ASSUME NEW x \in seen, NEW y \in ToSet(df'[x])
            PROVE  y \in seen /\ \E p \in Preds(y) : Between(x, p, y)
        <4>1. CASE y \in ToSet(df[x])
          BY <4>1, <1>0 DEF FrontierInv
        <4>2. CASE y \notin ToSet(df[x])
          <5>1. x = r /\ y = y0
            BY <4>2, <3>1, <2>7
          <5> QED BY <5>1, <2>5, <2>6, <1>1
        <4> QED BY <4>1, <4>2
      <3>2. seen' = seen
        BY <1>0
      <3> QED BY <3>1, <3>2, <2>8, <2>9
    <2>12. ASSUME NEW x \in seen, NEW y \in seen, NEW p \in Preds(y), Between(x, p, y)
           PROVE  \/ y \in ToSet(df'[x])
                  \/ number[y] > i
                  \/ y = y0 /\ p \in ToSet(cursor.preds)
                  \/ y = y0 /\ number[x] \in Chain(doms, doms[m])
      <3>1. CASE y = y0 /\ number[x] = m
        <4>1. x = r
          BY <3>1, <1>1, NumberedFacts
        <4> QED BY <4>1, <3>1, <2>7
      <3>2. CASE ~(y = y0 /\ number[x] = m)
        <4>1. \/ y \in ToSet(df[x])
              \/ number[y] > i
              \/ y = y0 /\ p \in ToSet(cursor.preds)
              \/ y = y0 /\ number[x] \in Chain(doms, m)
          BY <2>12, <1>0 DEF FrontierInv
        <4>2. y = y0 /\ number[x] \in Chain(doms, m) => number[x] \in Chain(doms, doms[m])
          BY <3>2, <2>3
        <4>3. y \in ToSet(df[x]) => y \in ToSet(df'[x])
          BY <2>7
        <4> QED BY <4>1, <4>2, <4>3
      <3> QED BY <3>1, <3>2
    <2>13. FrontierInv'
      <3>1. number[cursor'.runner] = doms[m] /\ UNCHANGED <<ir, entry, number, seen, doms>>
        BY <2>2, <1>0, <1>1
      <3>2. ToSet(cursor'.preds) \subseteq Preds(BlockNo(cursor'.i))
        BY <2>2, <1>0 DEF FrontierInv
      <3>3. \A x, y \in seen' : \A p \in Preds(y)' :
          Between(x, p, y)' =>
            \/ y \in ToSet(df'[x])
            \/ number'[y] > cursor'.i
            \/ y = BlockNo(cursor'.i) /\ p \in ToSet(cursor'.preds)
            \/ y = BlockNo(cursor'.i) /\ pc' = "runner"
                                      /\ number'[x] \in Chain(doms', number'[cursor'.runner])
        BY <2>1, <2>2, <2>8, <2>9, <2>12, <3>1
      <3>4. (df \in [Blocks(ir) -> Seq(Part(ir, entry))])'
        BY <2>7, <3>1
      <3> HIDE DEF i, y0, r, m
      <3> QED BY <2>8, <2>9, <2>10, <2>11, <3>2, <3>3, <3>4 DEF FrontierInv, BlockNo, Preds, Between
    <2>14. RunnerInv'
      <3>1. doms[m] \in Chain(doms, number[q])
        BY <2>3, <2>5, <1>1, <1>c, ChainStart, ChainOfMember
      <3>2. Preds(BlockNo(cursor.i))' = Preds(BlockNo(cursor.i))
        BY <1>0, <2>2 DEF Preds, BlockNo
      <3>3. UNCHANGED <<number, seen, doms>>
        BY <1>0
      <3> QED BY <2>2, <2>3, <2>5, <3>1, <3>2, <3>3, <1>1, <1>c DEF RunnerInv
    <2> QED BY <2>1, <2>2, <2>13, <2>14, <1>c DEF AnalysisInv
  <1> QED BY <1>2, <1>3

-----------------------------------------------------------------------------
\* The depth-first search.

\* A sequence without repetition over 1..n has at most n elements.
LEMMA NoMoreThan ==
  ASSUME NEW n \in Nat, NEW q \in Seq(1..n), \A k, l \in 1..Len(q) : q[k] = q[l] => k = l
  PROVE  Len(q) <= n
  <1>1. q \in [1..Len(q) -> 1..n] /\ Len(q) \in Nat
    BY LenProperties
  <1>2. IsFiniteSet(1..n) /\ Cardinality(1..n) = n
    BY FS_Interval
  <1>3. IsFiniteSet(1..Len(q)) /\ Cardinality(1..Len(q)) = Len(q)
    <2> DEFINE m == Len(q)
    <2>1. m \in Nat
      BY <1>1
    <2> HIDE DEF m
    <2>2. IsFiniteSet(1..m) /\ Cardinality(1..m) = m
      BY <2>1, FS_Interval
    <2> QED BY <2>2 DEF m
  <1>4. ~(Cardinality(1..n) < Cardinality(1..Len(q)))
    BY <1>1, <1>2, <1>3, FS_PigeonHole
  <1> QED BY <1>1, <1>2, <1>3, <1>4

\* The stack with its top replaced, and with a new frame on it.
LEMMA ConsProperties ==
  ASSUME NEW S, NEW q \in Seq(S), NEW x \in S
  PROVE  /\ Cons(x, q) \in Seq(S) /\ Len(Cons(x, q)) = Len(q) + 1 /\ Len(q) \in Nat
         /\ Cons(x, q)[1] = x
         /\ \A k \in 1..Len(q) : Cons(x, q)[k + 1] = q[k]
  <1>1. <<x>> \in Seq(S) /\ Len(<<x>>) = 1 /\ <<x>>[1] = x
    OBVIOUS
  <1>2. Len(q) \in Nat /\ \A k \in 1..Len(q) : k + 1 \in 1..(1 + Len(q)) /\ ~(k + 1 <= 1) /\ (k + 1) - 1 = k
    BY LenProperties
  <1>3. /\ <<x>> \o q \in Seq(S) /\ Len(<<x>> \o q) = 1 + Len(q)
        /\ \A i \in 1..(1 + Len(q)) : (<<x>> \o q)[i] = IF i <= 1 THEN <<x>>[i] ELSE q[i - 1]
    BY <1>1, ConcatProperties
  <1>4. (<<x>> \o q)[1] = x
    BY <1>1, <1>2, <1>3
  <1>5. \A k \in 1..Len(q) : (<<x>> \o q)[k + 1] = q[k]
    BY <1>2, <1>3
  <1> QED BY <1>2, <1>3, <1>4, <1>5 DEF Cons

\* A frame of the search moves to its next successor.
LEMMA FrameAdvances ==
  ASSUME NEW B, NEW v \in Seq([block : B, succs : Seq(B)]), v # <<>>, Head(v).succs # <<>>
  PROVE  LET e == Cons([Head(v) EXCEPT !.succs = Tail(@)], Tail(v))
         IN  /\ e \in Seq([block : B, succs : Seq(B)]) /\ Len(e) = Len(v)
             /\ e[1].block = v[1].block /\ e[1].succs = Tail(v[1].succs)
             /\ \A k \in 2..Len(v) : e[k] = v[k]
  <1> DEFINE F == [block : B, succs : Seq(B)]
             x == [Head(v) EXCEPT !.succs = Tail(@)]
             t == Tail(v)
  <1>1. /\ Head(v) = v[1] /\ v[1] \in F /\ t \in Seq(F) /\ Len(t) = Len(v) - 1 /\ Len(v) \in Nat \ {0}
        /\ \A k \in 1..(Len(v) - 1) : t[k] = v[k + 1]
    <2>1. v \in Seq(F)
      OBVIOUS
    <2> HIDE DEF F
    <2>2. Len(v) \in Nat \ {0} /\ 1 \in 1..Len(v)
      BY <2>1, LenProperties, EmptySeq
    <2>3. v[1] \in F /\ Head(v) = v[1]
      BY <2>1, <2>2, ElementOfSeq
    <2>4. t \in Seq(F) /\ Len(t) = Len(v) - 1 /\ \A k \in 1..Len(t) : t[k] = v[k + 1]
      BY <2>1, HeadTailProperties
    <2> HIDE DEF t
    <2> QED BY <2>2, <2>3, <2>4
  <1>2. Tail(v[1].succs) \in Seq(B)
    BY <1>1, HeadTailProperties
  <1>3. x \in F /\ x.block = v[1].block /\ x.succs = Tail(v[1].succs)
    BY <1>1, <1>2
  <1> HIDE DEF x, F, t
  <1>4. /\ Cons(x, t) \in Seq(F) /\ Len(Cons(x, t)) = Len(t) + 1 /\ Cons(x, t)[1] = x
        /\ \A k \in 1..Len(t) : Cons(x, t)[k + 1] = t[k]
    BY <1>1, <1>3, ConsProperties
  <1>5. ASSUME NEW k \in 2..Len(v) PROVE Cons(x, t)[k] = v[k]
    <2>1. k - 1 \in 1..Len(t) /\ k - 1 \in 1..(Len(v) - 1) /\ (k - 1) + 1 = k
      BY <1>1
    <2>2. Cons(x, t)[(k - 1) + 1] = t[k - 1]
      BY <2>1, <1>4
    <2>3. t[k - 1] = v[(k - 1) + 1]
      BY <2>1, <1>1
    <2> QED BY <2>1, <2>2, <2>3
  <1>6. Len(Cons(x, t)) = Len(v)
    BY <1>1, <1>4
  <1>7. /\ Cons(x, t) \in Seq(F) /\ Cons(x, t)[1].block = v[1].block
        /\ Cons(x, t)[1].succs = Tail(v[1].succs)
    BY <1>3, <1>4
  <1> QED BY <1>5, <1>6, <1>7 DEF F, x, t

\* A graph with edges that agree is such a part of itself.
LEMMA GraphIsClosed ==
  ASSUME GraphInv, NEW R, R = Part(ir, entry)
  PROVE  Closed(R)
  BY DEF GraphInv, EdgesAgree, Closed

\* The search stands still while nothing changes.
LEMMA VisitKept ==
  ASSUME NEW R, VisitInv(R), UNCHANGED <<ir, entry, visit, number, seen, postorder, cursor>>
  PROVE  VisitInv(R)'
  <1>1. /\ ir' = ir /\ entry' = entry /\ visit' = visit /\ number' = number /\ seen' = seen
        /\ postorder' = postorder /\ cursor' = cursor
    OBVIOUS
  <1>2. \A k \in 1..Len(visit) : /\ ToSet(visit[k].succs) \subseteq ToSet(block_successor(ir, visit[k].block))
                                 /\ ToSet(block_successor(ir, visit[k].block)) \subseteq seen \cup ToSet(visit[k].succs)
    BY DEF VisitInv, Succs
  <1>3. \A b \in ToSet(postorder) : ToSet(block_successor(ir, b)) \subseteq seen
    BY DEF VisitInv, Succs
  <1>4. \A k \in 1..Len(visit') : /\ ToSet(visit'[k].succs) \subseteq ToSet(block_successor(ir', visit'[k].block))
                                  /\ ToSet(block_successor(ir', visit'[k].block)) \subseteq seen' \cup ToSet(visit'[k].succs)
    BY <1>1, <1>2
  <1>5. \A b \in ToSet(postorder') : ToSet(block_successor(ir', b)) \subseteq seen'
    BY <1>1, <1>3
  <1>6. /\ visit' \in Seq(FrameType(R)) /\ visit' # <<>>
        /\ visit'[Len(visit')].block = entry'
        /\ \A k, l \in 1..Len(visit') : visit'[k].block = visit'[l].block => k = l
        /\ \A k \in 1..Len(visit') : visit'[k].block \notin ToSet(postorder')
        /\ postorder' \in Seq(R)
        /\ number' \in [ToSet(postorder') -> Nat]
        /\ \A k \in 1..Len(postorder') : number'[postorder'[k]] = k - 1
    BY <1>1 DEF VisitInv
  <1>8. seen' = ToSet(postorder') \cup {visit'[k].block : k \in 1..Len(visit')}
    <2>1. seen = ToSet(postorder) \cup {visit[k].block : k \in 1..Len(visit)}
      BY DEF VisitInv
    <2>2. {visit[k].block : k \in 1..Len(visit)} = {visit'[k].block : k \in 1..Len(visit')}
      BY <1>1
    <2> QED BY <1>1, <2>1, <2>2
  <1>7. cursor' = [i |-> 0, preds |-> <<>>, newDom |-> 0, a |-> 0, b |-> 0,
                   changed |-> FALSE, runner |-> 0]
    BY <1>1 DEF VisitInv
  <1> QED BY <1>4, <1>5, <1>6, <1>7, <1>8 DEF VisitInv, FrameType, Succs

\* The search starts at the entry.
LEMMA VisitEntryKeeps ==
  ASSUME NEW R, Closed(R), pc = "dominators", InitDominators, UNCHANGED <<ir, entry>>, VisitEntry
  PROVE  VisitInv(R)'
  <1> DEFINE f == Visiting(entry)
  <1>1. /\ f \in FrameType(R) /\ f.block = entry /\ f.succs = block_successor(ir, entry)
    BY DEF Closed, Visiting, FrameType
  <1>2. /\ visit' = <<f>> /\ seen' = {entry} /\ postorder' = <<>> /\ number' = <<>>
        /\ UNCHANGED <<ir, entry, cursor>>
    BY DEF VisitEntry, InitDominators
  <1>3. FrameType(R)' = FrameType(R) /\ \A b : Succs(b)' = Succs(b)
    BY <1>2 DEF FrameType, Succs
  <1> HIDE DEF f
  <1>4. visit' \in Seq(FrameType(R)) /\ Len(visit') = 1 /\ visit'[1] = f /\ visit' # <<>>
    BY <1>1, <1>2
  <1>5. ToSet(postorder') = {} /\ postorder' \in Seq(R) /\ Len(postorder') = 0
    BY <1>2, EmptySeq DEF ToSet
  <1>6. number' \in [ToSet(postorder') -> Nat]
    BY <1>2, <1>5
  <1>7. \A k \in 1..Len(visit') : k = 1
    BY <1>4
  <1>8. \A k \in 1..Len(visit') : Succs(visit'[k].block) = ToSet(visit'[k].succs)
    BY <1>1, <1>4, <1>7 DEF Succs
  <1>9. seen' = {visit'[k].block : k \in 1..Len(visit')}
    BY <1>1, <1>2, <1>4
  <1> QED BY <1>1, <1>2, <1>3, <1>4, <1>5, <1>6, <1>7, <1>8, <1>9 DEF VisitInv, InitDominators, Succs, FrameType

\* A successor is entered, or was seen before.
LEMMA VisitSuccessorKeeps ==
  ASSUME NEW R, Closed(R), VisitInv(R), UNCHANGED <<ir, entry>>, VisitSuccessor
  PROVE  VisitInv(R)'
  <1> DEFINE n == Len(visit)
             succ == Head(Head(visit).succs)
             back == Cons([Head(visit) EXCEPT !.succs = Tail(@)], Tail(visit))
             t == visit[1].succs
  <1>0. /\ visit \in Seq(FrameType(R)) /\ visit # <<>> /\ Head(visit) = visit[1] /\ t # <<>>
        /\ n \in Nat \ {0} /\ \A k \in 1..n : visit[k] \in FrameType(R)
    <2>1. visit \in Seq(FrameType(R)) /\ visit # <<>>
      BY DEF VisitInv
    <2>2. n \in Nat \ {0} /\ \A k \in 1..n : visit[k] \in FrameType(R)
      BY <2>1, LenProperties, EmptySeq, ElementOfSeq
    <2>3. Head(visit) = visit[1]
      OBVIOUS
    <2> QED BY <2>1, <2>2, <2>3 DEF VisitSuccessor
  <1>1. /\ seen' = seen \cup {succ}
        /\ visit' = IF succ \in seen THEN back ELSE Cons(Visiting(succ), back)
        /\ UNCHANGED <<ir, entry, number, postorder, cursor>>
    BY DEF VisitSuccessor
  <1>2. /\ back \in Seq(FrameType(R)) /\ Len(back) = n
        /\ back[1].block = visit[1].block /\ back[1].succs = Tail(t)
        /\ \A k \in 2..n : back[k] = visit[k]
    <2>1. visit \in Seq([block : R, succs : Seq(R)]) /\ visit # <<>>
          /\ Head(visit).succs # <<>>
      BY <1>0 DEF FrameType
    <2> QED BY <2>1, FrameAdvances DEF FrameType
  <1>3. /\ succ \in R /\ ToSet(t) = {succ} \cup ToSet(Tail(t))
    <2>0. visit[1] \in FrameType(R) /\ succ = Head(t)
      BY <1>0
    <2>1. t \in Seq(R) /\ succ = Head(t)
      BY <2>0 DEF FrameType
    <2> QED BY <2>1, <1>0, HeadTailSet
  <1>4. FrameType(R)' = FrameType(R) /\ \A b : Succs(b)' = Succs(b)
    BY <1>1 DEF FrameType, Succs
  <1> HIDE DEF back, succ
  <1>5. \A k \in 1..n : back[k].block = visit[k].block
    BY <1>0, <1>2
  <1>6. \A k \in 1..n : /\ ToSet(back[k].succs) \subseteq Succs(visit[k].block)
                        /\ Succs(visit[k].block) \subseteq seen' \cup ToSet(back[k].succs)
    <2>1. ASSUME NEW k \in 1..n
          PROVE  ToSet(visit[k].succs) \subseteq {succ} \cup ToSet(back[k].succs) /\ ToSet(back[k].succs) \subseteq ToSet(visit[k].succs)
      BY <1>0, <1>2, <1>3
    <2> QED BY <2>1, <1>1 DEF VisitInv
  <1>7. /\ seen = ToSet(postorder) \cup {visit[k].block : k \in 1..n}
        /\ \A k, l \in 1..n : visit[k].block = visit[l].block => k = l
        /\ \A k \in 1..n : visit[k].block \notin ToSet(postorder)
        /\ visit[n].block = entry
    BY DEF VisitInv
  <1>8. \A b \in ToSet(postorder) : Succs(b) \subseteq seen'
    BY <1>1 DEF VisitInv
  <1>9. CASE succ \in seen
    <2>1. visit' = back /\ seen' = seen
      BY <1>1, <1>9
    <2>2. visit' \in Seq(FrameType(R)) /\ visit' # <<>> /\ Len(visit') = n
      BY <2>1, <1>2, <1>0
    <2>3. seen = ToSet(postorder) \cup {back[k].block : k \in 1..n}
      BY <1>5, <1>7
    <2>4. n \in 1..n
      BY <1>0
    <2>5. /\ visit'[Len(visit')].block = entry
          /\ \A k, l \in 1..Len(visit') : visit'[k].block = visit'[l].block => k = l
          /\ \A k \in 1..Len(visit') : visit'[k].block \notin ToSet(postorder)
          /\ seen' = ToSet(postorder) \cup {visit'[k].block : k \in 1..Len(visit')}
      BY <2>1, <2>2, <2>3, <2>4, <1>5, <1>7
    <2>6. \A k \in 1..Len(visit') : /\ ToSet(visit'[k].succs) \subseteq Succs(visit'[k].block)
                                    /\ Succs(visit'[k].block) \subseteq seen' \cup ToSet(visit'[k].succs)
      BY <2>1, <2>2, <1>5, <1>6
    <2> QED BY <2>2, <2>5, <2>6, <1>1, <1>4, <1>8 DEF VisitInv, FrameType, Succs
  <1>10. CASE succ \notin seen
    <2> DEFINE f == Visiting(succ)
    <2>1. /\ f \in FrameType(R) /\ f.block = succ /\ f.succs = block_successor(ir, succ)
      BY <1>3 DEF Closed, Visiting, FrameType
    <2>2. visit' = Cons(f, back)
      BY <1>1, <1>10
    <2> HIDE DEF f
    <2>3. /\ visit' \in Seq(FrameType(R)) /\ Len(visit') = n + 1 /\ visit'[1] = f
          /\ \A k \in 1..n : visit'[k + 1] = back[k]
      <3>1. /\ Cons(f, back) \in Seq(FrameType(R)) /\ Len(Cons(f, back)) = n + 1 /\ Cons(f, back)[1] = f
            /\ \A k \in 1..n : Cons(f, back)[k + 1] = back[k]
        <4>1. back \in Seq(FrameType(R)) /\ f \in FrameType(R)
          BY <2>1, <1>2
        <4>2. ASSUME NEW x \in FrameType(R), NEW q \in Seq(FrameType(R))
              PROVE  /\ Cons(x, q) \in Seq(FrameType(R)) /\ Len(Cons(x, q)) = Len(q) + 1
                     /\ Cons(x, q)[1] = x /\ \A k \in 1..Len(q) : Cons(x, q)[k + 1] = q[k]
          <5> DEFINE S == FrameType(R)
          <5>1. q \in Seq(S) /\ x \in S
            OBVIOUS
          <5> HIDE DEF S
          <5>2. /\ Cons(x, q) \in Seq(S) /\ Len(Cons(x, q)) = Len(q) + 1
                /\ Cons(x, q)[1] = x /\ \A k \in 1..Len(q) : Cons(x, q)[k + 1] = q[k]
            BY <5>1, ConsProperties
          <5> QED BY <5>2 DEF S
        <4>3. /\ Cons(f, back) \in Seq(FrameType(R)) /\ Len(Cons(f, back)) = Len(back) + 1
              /\ Cons(f, back)[1] = f
          BY <4>1, <4>2
        <4>4. \A k \in 1..Len(back) : Cons(f, back)[k + 1] = back[k]
          BY <4>1, <4>2
        <4> QED BY <4>3, <4>4, <1>2
      <3> QED BY <2>2, <3>1
    <2>4. \A k \in 1..Len(visit') : k = 1 \/ (k # 1 /\ k - 1 \in 1..n /\ visit'[k] = back[k - 1])
      <3>1. ASSUME NEW k \in 1..Len(visit'), k # 1 PROVE k - 1 \in 1..n /\ visit'[k] = back[k - 1]
        <4>1. k - 1 \in 1..n /\ (k - 1) + 1 = k
          BY <3>1, <2>3, <1>0
        <4> QED BY <4>1, <2>3
      <3> QED BY <3>1
    <2>5. visit' # <<>> /\ visit'[Len(visit')].block = entry
      <3>1. n \in 1..n /\ Len(visit') # 0
        BY <1>0, <2>3
      <3> QED BY <3>1, <2>3, <1>5, <1>7
    <2>6. succ \notin ToSet(postorder) /\ \A k \in 1..n : visit[k].block # succ
      BY <1>7, <1>10
    <2>7. ASSUME NEW k \in 1..Len(visit') PROVE visit'[k].block \notin ToSet(postorder)
      <3>1. CASE k = 1
        BY <3>1, <2>1, <2>3, <2>6
      <3>2. CASE k # 1
        <4>1. k - 1 \in 1..n /\ visit'[k].block = visit[k - 1].block
          BY <3>2, <2>4, <1>5
        <4> QED BY <4>1, <1>7
      <3> QED BY <3>1, <3>2
    <2>8. \A k, l \in 1..Len(visit') : visit'[k].block = visit'[l].block => k = l
      <3>1. SUFFICES ASSUME NEW k \in 1..Len(visit'), NEW l \in 1..Len(visit'),
                            visit'[k].block = visit'[l].block
                     PROVE  k = l
        OBVIOUS
      <3>2. CASE k = 1 /\ l = 1
        BY <3>2
      <3>3. CASE k = 1 /\ l # 1
        BY <3>1, <3>3, <2>1, <2>3, <2>4, <2>6, <1>5
      <3>4. CASE k # 1 /\ l = 1
        BY <3>1, <3>4, <2>1, <2>3, <2>4, <2>6, <1>5
      <3>5. CASE k # 1 /\ l # 1
        <4>k. k - 1 \in 1..n /\ visit'[k].block = visit[k - 1].block
          BY <3>5, <2>4, <1>5
        <4>l. l - 1 \in 1..n /\ visit'[l].block = visit[l - 1].block
          BY <3>5, <2>4, <1>5
        <4>1. visit[k - 1].block = visit[l - 1].block
          BY <4>k, <4>l, <3>1
        <4>2. k - 1 = l - 1
          BY <4>k, <4>l, <4>1, <1>7
        <4>3. k \in Int /\ l \in Int
          BY <2>3, <1>0
        <4> QED BY <4>2, <4>3
      <3> QED BY <3>2, <3>3, <3>4, <3>5
    <2>9. seen' = ToSet(postorder) \cup {visit'[k].block : k \in 1..Len(visit')}
      <3>1. ASSUME NEW k \in 1..Len(visit') PROVE visit'[k].block \in seen'
        <4>1. CASE k = 1
          BY <4>1, <2>1, <2>3, <1>1
        <4>2. CASE k # 1
          <5>1. k - 1 \in 1..n /\ visit'[k].block = visit[k - 1].block
            BY <4>2, <2>4, <1>5
          <5> QED BY <5>1, <1>1, <1>7
        <4> QED BY <4>1, <4>2
      <3>2. ASSUME NEW b \in seen', b \notin ToSet(postorder)
            PROVE  \E k \in 1..Len(visit') : visit'[k].block = b
        <4>1. CASE b = succ
          <5>1. 1 \in 1..Len(visit')
            BY <2>3, <1>0
          <5> QED BY <4>1, <5>1, <2>1, <2>3
        <4>2. CASE b # succ
          <5>1. PICK k \in 1..n : visit[k].block = b
            BY <4>2, <3>2, <1>1, <1>7
          <5>2. k + 1 \in 1..Len(visit')
            BY <2>3, <1>0
          <5> QED BY <5>1, <5>2, <2>3, <1>5
        <4> QED BY <4>1, <4>2
      <3>3. ToSet(postorder) \subseteq seen'
        BY <1>1, <1>7
      <3> QED BY <3>1, <3>2, <3>3
    <2>10. \A k \in 1..Len(visit') : /\ ToSet(visit'[k].succs) \subseteq Succs(visit'[k].block)
                                     /\ Succs(visit'[k].block) \subseteq seen' \cup ToSet(visit'[k].succs)
      <3>1. Succs(succ) = ToSet(f.succs)
        BY <2>1 DEF Succs
      <3>2. ASSUME NEW k \in 1..Len(visit'), k # 1
            PROVE  /\ ToSet(visit'[k].succs) \subseteq Succs(visit'[k].block)
                   /\ Succs(visit'[k].block) \subseteq seen' \cup ToSet(visit'[k].succs)
        <4>1. k - 1 \in 1..n /\ visit'[k] = back[k - 1] /\ visit'[k].block = visit[k - 1].block
          BY <3>2, <2>4, <1>5
        <4> QED BY <4>1, <1>6
      <3> QED BY <3>1, <3>2, <2>1, <2>3
    <2> QED BY <2>3, <2>5, <2>7, <2>8, <2>9, <2>10, <1>1, <1>4, <1>8 DEF VisitInv, FrameType, Succs
  <1> QED BY <1>9, <1>10

\* The block on top is numbered; the other frames stay.
LEMMA VisitLeaveNumbers ==
  ASSUME NEW R, Closed(R), VisitInv(R), UNCHANGED <<ir, entry>>, VisitLeave
  PROVE  /\ visit[1] \in FrameType(R) /\ Len(visit) \in Nat \ {0}
         /\ visit' = Tail(visit) /\ visit' \in Seq(FrameType(R)) /\ Len(visit') = Len(visit) - 1
         /\ \A k \in 1..Len(visit') : visit'[k] = visit[k + 1]
         /\ postorder' \in Seq(R) /\ Len(postorder') = Len(postorder) + 1
         /\ Len(postorder) \in Nat
         /\ ToSet(postorder') = ToSet(postorder) \cup {visit[1].block}
         /\ postorder'[Len(postorder) + 1] = visit[1].block
         /\ number' \in [ToSet(postorder') -> Nat]
         /\ \A k \in 1..Len(postorder') : number'[postorder'[k]] = k - 1
         /\ seen' = seen
         /\ \A b \in ToSet(postorder') : Succs(b) \subseteq seen
  <1> DEFINE b == visit[1].block
  <1>1. visit \in Seq(FrameType(R)) /\ visit # <<>>
    BY DEF VisitInv
  <1>2. Len(visit) \in Nat \ {0} /\ 1 \in 1..Len(visit)
    BY <1>1, LenProperties, EmptySeq
  <1>3. visit[1] \in FrameType(R)
    BY <1>1, <1>2, ElementOfSeq
  <1>4. Head(visit) = visit[1]
    OBVIOUS
  <1>5. /\ visit[1].succs = <<>> /\ visit' = Tail(visit) /\ postorder' = Append(postorder, b)
        /\ number' = [c \in DOMAIN number \cup {b} |-> IF c = b THEN Len(postorder) ELSE number[c]]
        /\ seen' = seen
    BY <1>4 DEF VisitLeave, NextNumber
  <1>6. Tail(visit) \in Seq(FrameType(R)) /\ Len(Tail(visit)) = Len(visit) - 1
        /\ \A k \in 1..Len(Tail(visit)) : Tail(visit)[k] = visit[k + 1]
    <2> DEFINE F == FrameType(R)
    <2>1. visit \in Seq(F) /\ visit # <<>>
      BY <1>1
    <2> HIDE DEF F
    <2>2. Tail(visit) \in Seq(F) /\ Len(Tail(visit)) = Len(visit) - 1
          /\ \A k \in 1..Len(Tail(visit)) : Tail(visit)[k] = visit[k + 1]
      BY <2>1, HeadTailProperties
    <2> QED BY <2>2 DEF F
  <1>7. b \in R /\ b \notin ToSet(postorder)
    BY <1>2, <1>3 DEF FrameType, VisitInv
  <1>8. /\ postorder \in Seq(R) /\ number \in [ToSet(postorder) -> Nat]
        /\ \A k \in 1..Len(postorder) : number[postorder[k]] = k - 1
    BY DEF VisitInv
  <1>9. /\ postorder' \in Seq(R) /\ Len(postorder') = Len(postorder) + 1
        /\ Len(postorder) \in Nat
        /\ ToSet(postorder') = ToSet(postorder) \cup {b}
        /\ postorder'[Len(postorder) + 1] = b
        /\ number' \in [ToSet(postorder') -> Nat]
        /\ \A k \in 1..Len(postorder') : number'[postorder'[k]] = k - 1
    <2> DEFINE S == R
               e == number'
    <2>1. /\ postorder \in Seq(S) /\ b \in S /\ number \in [ToSet(postorder) -> Nat]
          /\ b \notin ToSet(postorder) /\ Len(postorder) \in Nat
          /\ \A k \in 1..Len(postorder) : number[postorder[k]] = k - 1
      BY <1>7, <1>8, LenProperties
    <2>2. e \in [ToSet(postorder) \cup {b} -> Nat] /\ e[b] = Len(postorder)
          /\ \A c \in ToSet(postorder) : e[c] = number[c]
      BY <2>1, <1>5
    <2> HIDE DEF S, e, b
    <2> DEFINE q == Append(postorder, b)
    <2>3. /\ q \in Seq(S) /\ Len(q) = Len(postorder) + 1 /\ ToSet(q) = ToSet(postorder) \cup {b}
          /\ (\A k \in 1..Len(postorder) : q[k] = postorder[k]) /\ q[Len(postorder) + 1] = b
      BY <2>1, AppendSet
    <2> HIDE DEF q
    <2>4. ASSUME NEW k \in 1..Len(q) PROVE e[q[k]] = k - 1
      <3>1. CASE k = Len(postorder) + 1
        BY <3>1, <2>1, <2>2, <2>3
      <3>2. CASE k # Len(postorder) + 1
        <4>1. k \in 1..Len(postorder)
          BY <3>2, <2>1, <2>3
        <4>2. q[k] = postorder[k] /\ postorder[k] \in ToSet(postorder)
          BY <4>1, <2>1, <2>3, ToSetIn
        <4> QED BY <4>1, <4>2, <2>1, <2>2
      <3> QED BY <3>1, <3>2
    <2>5. postorder' = q
      BY <1>5 DEF q, b
    <2>6. e \in [ToSet(q) -> Nat]
      BY <2>2, <2>3
    <2> QED BY <2>1, <2>3, <2>4, <2>5, <2>6 DEF S, e
  <1>10. Succs(b) \subseteq seen
    <2>1. ToSet(visit[1].succs) = {}
      BY <1>5 DEF ToSet
    <2> QED BY <2>1, <1>2 DEF VisitInv
  <1>11. \A c \in ToSet(postorder') : Succs(c) \subseteq seen
    BY <1>9, <1>10 DEF VisitInv
  <1> QED BY <1>2, <1>3, <1>5, <1>6, <1>9, <1>11

\* A block without further successors gets its number.
LEMMA VisitLeaveKeeps ==
  ASSUME NEW R, Closed(R), VisitInv(R), UNCHANGED <<ir, entry>>, VisitLeave, Tail(visit) # <<>>
  PROVE  VisitInv(R)'
  <1> DEFINE n == Len(visit)
             b == visit[1].block
  <1>1. /\ n \in Nat \ {0} /\ visit' = Tail(visit) /\ visit' \in Seq(FrameType(R)) /\ Len(visit') = n - 1
        /\ \A k \in 1..Len(visit') : visit'[k] = visit[k + 1]
        /\ postorder' \in Seq(R) /\ ToSet(postorder') = ToSet(postorder) \cup {b}
        /\ number' \in [ToSet(postorder') -> Nat]
        /\ \A k \in 1..Len(postorder') : number'[postorder'[k]] = k - 1
        /\ seen' = seen
        /\ \A c \in ToSet(postorder') : Succs(c) \subseteq seen
    BY VisitLeaveNumbers
  <1>2. visit' # <<>> /\ Len(visit') # 0 /\ UNCHANGED cursor
    BY <1>1, EmptySeq DEF VisitLeave
  <1>3. /\ seen = ToSet(postorder) \cup {visit[k].block : k \in 1..n}
        /\ \A k, l \in 1..n : visit[k].block = visit[l].block => k = l
        /\ \A k \in 1..n : visit[k].block \notin ToSet(postorder)
        /\ visit[n].block = entry
        /\ \A k \in 1..n : /\ ToSet(visit[k].succs) \subseteq Succs(visit[k].block)
                           /\ Succs(visit[k].block) \subseteq seen \cup ToSet(visit[k].succs)
    BY DEF VisitInv
  <1>4. FrameType(R)' = FrameType(R) /\ \A c : Succs(c)' = Succs(c)
    BY DEF FrameType, Succs
  <1>5. ASSUME NEW k \in 1..Len(visit') PROVE k \in Int /\ k + 1 \in 1..n /\ k + 1 # 1
    BY <1>1
  <1>6. visit'[Len(visit')].block = entry
    <2>1. Len(visit') \in 1..Len(visit') /\ Len(visit') + 1 = n
      BY <1>1, <1>2
    <2> QED BY <2>1, <1>1, <1>3
  <1>7. \A k \in 1..Len(visit') : visit'[k].block \notin ToSet(postorder')
    <2>1. SUFFICES ASSUME NEW k \in 1..Len(visit') PROVE visit'[k].block \notin ToSet(postorder')
      OBVIOUS
    <2>2. visit'[k] = visit[k + 1] /\ k + 1 \in 1..n /\ k + 1 # 1 /\ 1 \in 1..n
      BY <1>1, <1>5
    <2>3. visit[k + 1].block # b
      BY <2>2, <1>3
    <2> QED BY <2>2, <2>3, <1>1, <1>3
  <1>8. \A k, l \in 1..Len(visit') : visit'[k].block = visit'[l].block => k = l
    <2>1. SUFFICES ASSUME NEW k \in 1..Len(visit'), NEW l \in 1..Len(visit'),
                          visit'[k].block = visit'[l].block
                   PROVE  k = l
      OBVIOUS
    <2>2. k \in Int /\ l \in Int /\ k + 1 \in 1..n /\ l + 1 \in 1..n
      BY <1>5
    <2>3. visit[k + 1].block = visit[l + 1].block
      BY <1>1, <2>1
    <2>4. k + 1 = l + 1
      BY <2>2, <2>3, <1>3
    <2> QED BY <2>2, <2>4
  <1>9. seen' = ToSet(postorder') \cup {visit'[k].block : k \in 1..Len(visit')}
    <2>1. \A k \in 1..Len(visit') : visit'[k].block \in seen
      BY <1>1, <1>3, <1>5
    <2>2. ToSet(postorder') \subseteq seen
      <3>1. 1 \in 1..n
        BY <1>1
      <3> QED BY <3>1, <1>1, <1>3
    <2>3. ASSUME NEW c \in seen, c \notin ToSet(postorder')
          PROVE  \E k \in 1..Len(visit') : visit'[k].block = c
      <3>1. PICK k \in 1..n : visit[k].block = c
        BY <2>3, <1>1, <1>3
      <3>2. k # 1
        BY <3>1, <2>3, <1>1
      <3>3. k - 1 \in 1..Len(visit') /\ (k - 1) + 1 = k
        BY <3>2, <1>1
      <3>4. visit'[k - 1].block = c
        BY <3>1, <3>3, <1>1
      <3> QED BY <3>3, <3>4
    <2> QED BY <2>1, <2>2, <2>3, <1>1
  <1>10. \A k \in 1..Len(visit') : /\ ToSet(visit'[k].succs) \subseteq Succs(visit'[k].block)
                                   /\ Succs(visit'[k].block) \subseteq seen' \cup ToSet(visit'[k].succs)
    BY <1>1, <1>3, <1>5
  <1>11. cursor = [i |-> 0, preds |-> <<>>, newDom |-> 0, a |-> 0, b |-> 0,
                   changed |-> FALSE, runner |-> 0]
    BY DEF VisitInv
  <1> HIDE DEF n, b
  <1> QED BY <1>1, <1>2, <1>4, <1>6, <1>7, <1>8, <1>9, <1>10, <1>11 DEF VisitInv, FrameType, Succs

\* The entry is left last: every seen block has a number.
LEMMA VisitEnds ==
  ASSUME GraphInv, NEW R, R = Part(ir, entry), VisitInv(R), UNCHANGED <<ir, entry>>, VisitLeave, Tail(visit) = <<>>
  PROVE  Numbered' /\ AnalysisInv' /\ pc' = "sweep"
  <1> DEFINE last == Len(postorder)
             b == visit[1].block
  <1>1. /\ visit[1] \in FrameType(R) /\ Len(visit) \in Nat \ {0} /\ visit' = Tail(visit)
        /\ Len(visit') = Len(visit) - 1
        /\ postorder' \in Seq(R) /\ Len(postorder') = last + 1 /\ last \in Nat
        /\ ToSet(postorder') = ToSet(postorder) \cup {b} /\ postorder'[last + 1] = b
        /\ number' \in [ToSet(postorder') -> Nat]
        /\ \A k \in 1..Len(postorder') : number'[postorder'[k]] = k - 1
        /\ seen' = seen
        /\ \A c \in ToSet(postorder') : Succs(c) \subseteq seen
    BY GraphIsClosed, VisitLeaveNumbers
  <1>2. /\ pc' = "sweep" /\ doms' = [i \in 0..last |-> IF i = last THEN last ELSE SIZE_MAX]
        /\ cursor' = [cursor EXCEPT !.i = last, !.changed = FALSE]
    BY DEF VisitLeave
  <1>3. Len(visit) = 1
    <2>1. Len(visit') = 0
      BY <1>1
    <2> QED BY <2>1, <1>1
  <1>4. b = entry /\ seen = ToSet(postorder')
    <2>1. b = entry
      BY <1>3 DEF VisitInv
    <2>2. seen = ToSet(postorder) \cup {visit[k].block : k \in 1..1}
      BY <1>3 DEF VisitInv
    <2>3. {visit[k].block : k \in 1..1} = {b}
      OBVIOUS
    <2> QED BY <2>1, <2>2, <2>3, <1>1
  <1>5. /\ Count' = last + 1 /\ Count' \in Nat \ {0} /\ Numbers' = 0..last
        /\ SIZE_MAX' = SIZE_MAX /\ SIZE_MAX = Len(ir.block)
    BY <1>1 DEF Count, Numbers, SIZE_MAX
  <1>6. \A k, l \in 1..Len(postorder') : postorder'[k] = postorder'[l] => k = l
    <2>1. SUFFICES ASSUME NEW k \in 1..Len(postorder'), NEW l \in 1..Len(postorder'),
                          postorder'[k] = postorder'[l]
                   PROVE  k = l
      OBVIOUS
    <2>2. k - 1 = l - 1
      BY <2>1, <1>1
    <2> QED BY <2>2, <1>1
  <1>7. Count' <= Len(ir.block) /\ Len(ir.block) \in Nat
    <2>1. Len(ir.block) \in Nat /\ R \subseteq 1..Len(ir.block)
      BY DEF GraphInv
    <2> DEFINE q == postorder'
               n == Len(ir.block)
    <2>2. n \in Nat /\ q \in Seq(1..n) /\ \A k, l \in 1..Len(q) : q[k] = q[l] => k = l
      BY <2>1, <1>1, <1>6
    <2> HIDE DEF q, n
    <2>3. Len(q) <= n
      BY <2>2, NoMoreThan
    <2> QED BY <2>1, <2>3 DEF q, n, Count
  <1>8. \A k \in Numbers' : BlockNo(k)' = postorder'[k + 1] /\ k + 1 \in 1..Len(postorder') /\ (k + 1) - 1 = k
    BY <1>1, <1>5 DEF BlockNo
  <1>9. \A k \in Numbers' : number'[BlockNo(k)'] = k
    BY <1>1, <1>8
  <1>10. ASSUME NEW c \in seen PROVE number'[c] \in Numbers' /\ postorder'[number'[c] + 1] = c
    <2>1. PICK k \in 1..Len(postorder') : c = postorder'[k]
      BY <1>1, <1>4, ToSetIn
    <2>2. number'[c] = k - 1
      BY <2>1, <1>1
    <2>3. k - 1 \in 0..last /\ (k - 1) + 1 = k
      BY <1>1
    <2> QED BY <2>1, <2>2, <2>3, <1>5
  <1>11. Numbered'
    <2>1. number' \in [seen' -> Numbers']
      BY <1>1, <1>4, <1>10
    <2>2. \A c \in seen' : postorder'[number'[c] + 1] = c
      BY <1>1, <1>10
    <2>3. postorder'[(Count' - 1) + 1] = entry'
      BY <1>1, <1>4, <1>5
    <2>4. \A k \in Numbers' : number'[postorder'[k + 1]] = k
      BY <1>8, <1>9
    <2> HIDE DEF last, b
    <2> QED BY <1>1, <1>4, <1>5, <1>7, <2>1, <2>2, <2>3, <2>4 DEF Numbered, BlockNo, Succs
  <1>12. /\ cursor' \in CursorType' /\ cursor'.i = last
    <2>1. cursor = [i |-> 0, preds |-> <<>>, newDom |-> 0, a |-> 0, b |-> 0,
                    changed |-> FALSE, runner |-> 0]
      BY DEF VisitInv
    <2>2. cursor' = [i |-> last, preds |-> <<>>, newDom |-> 0, a |-> 0, b |-> 0,
                     changed |-> FALSE, runner |-> 0]
      BY <2>1, <1>2
    <2>3. last \in Numbers' /\ <<>> \in Seq(Part(ir, entry))
      BY <1>1, <1>5, EmptySeq
    <2>4. CursorType' = CursorOf(Numbers', Seq(Part(ir, entry)))
      BY DEF CursorType
    <2> HIDE DEF last
    <2> QED BY <2>2, <2>3, <2>4 DEF CursorOf
  <1>13. /\ doms' \in [0..last -> Nat]
         /\ \A i \in 0..last : doms'[i] = IF i = last THEN last ELSE SIZE_MAX
    <2>1. doms' = [i \in 0..last |-> IF i = last THEN last ELSE SIZE_MAX]
      BY <1>2
    <2>2. last \in Nat /\ SIZE_MAX \in Nat
      BY <1>1, <1>5, <1>7
    <2> HIDE DEF last
    <2> QED BY <2>1, <2>2
  <1>14. SIZE_MAX \notin 0..last
    BY <1>1, <1>5, <1>7
  <1>15. IsTree(doms', Count') /\ Respects(doms', Count', Above')
    <2>1. Count' - 1 = last
      BY <1>1, <1>5
    <2> HIDE DEF last
    <2>2. \A i \in 0..last : i # last => doms'[i] \notin 0..last
      BY <1>13, <1>14
    <2>3. last \in 0..last
      BY <1>1 DEF last
    <2> QED BY <2>1, <2>2, <2>3, <1>5, <1>13 DEF IsTree, Respects
  <1>16. DomsInv'
    <2>1. \A j \in Numbers' : doms'[j] \in Numbers' \/ doms'[j] = SIZE_MAX'
      BY <1>1, <1>5, <1>13
    <2> QED BY <2>1, <1>15 DEF DomsInv
  <1>17. SweepInv'
    <2>1. \A j \in Numbers' : ~(j > cursor'.i)
      BY <1>1, <1>5, <1>12
    <2> QED BY <2>1, <1>16 DEF SweepInv
  <1> QED BY <1>2, <1>11, <1>12, <1>17 DEF AnalysisInv

-----------------------------------------------------------------------------
\* No step changes the graph.
LEMMA GraphKept ==
  ASSUME GraphInv, UNCHANGED <<ir, entry>>
  PROVE  GraphInv'
  BY DEF GraphInv, EdgesAgree

\* After the search no step changes the numbers.
LEMMA NumberedKept ==
  ASSUME Numbered, UNCHANGED <<ir, entry, number, seen, postorder>>
  PROVE  Numbered' /\ (Analysable' <=> Analysable)
  <1>1. Numbered'
    BY DEF Numbered, Count, Numbers, BlockNo, Succs
  <1>2. Analysable' <=> Analysable
    BY DEF Analysable
  <1> QED BY <1>1, <1>2

\* The steps after the search.
Later ==
    \/ BeginBlock \/ NextPredecessor \/ IntersectStep \/ EndBlock
    \/ BuildTree \/ DfPredecessor \/ RunnerStep \/ DfEndBlock

\* What the steps after the search leave alone.
LEMMA LaterFrame ==
  ASSUME Later, pc \in Phases
  PROVE  /\ pc \notin {"dominators", "visit", "crash"}
         /\ pc' \in Phases /\ pc' \notin {"dominators", "visit"}
         /\ UNCHANGED <<number, seen, postorder>>
  <1>1. CASE BeginBlock
    BY <1>1 DEF BeginBlock, Crash, domVars, Phases
  <1>2. CASE NextPredecessor
    BY <1>2 DEF NextPredecessor, Crash, domVars, Phases
  <1>3. CASE IntersectStep
    BY <1>3 DEF IntersectStep, Phases
  <1>4. CASE EndBlock
    BY <1>4 DEF EndBlock, Phases
  <1>5. CASE BuildTree
    BY <1>5 DEF BuildTree, Crash, domVars, Phases
  <1>6. CASE DfPredecessor
    BY <1>6 DEF DfPredecessor, Phases
  <1>7. CASE RunnerStep
    BY <1>7 DEF RunnerStep, Phases
  <1>8. CASE DfEndBlock
    BY <1>8 DEF DfEndBlock, Phases
  <1> QED BY <1>1, <1>2, <1>3, <1>4, <1>5, <1>6, <1>7, <1>8 DEF Later

\* The invariant is kept by the steps after the search.
LEMMA LaterKeeps ==
  ASSUME DominatorsInv, Later, UNCHANGED <<ir, entry>>
  PROVE  DominatorsInv'
  <1>1. GraphInv /\ pc \in Phases
    BY DEF DominatorsInv
  <1>2. /\ pc \notin {"dominators", "visit", "crash"}
        /\ pc' \in Phases /\ pc' \notin {"dominators", "visit"}
        /\ UNCHANGED <<ir, entry, number, seen, postorder>>
    BY <1>1, LaterFrame
  <1>3. Numbered
    BY <1>2 DEF DominatorsInv
  <1>4. GraphInv' /\ Numbered' /\ (Analysable' <=> Analysable)
    BY <1>1, <1>2, <1>3, GraphKept, NumberedKept
  <1>5. ASSUME Analysable PROVE AnalysisInv'
    <2>1. AnalysisInv
      BY <1>2, <1>5 DEF DominatorsInv
    <2> QED BY <1>1, <1>3, <1>5, <2>1, BeginBlockKeeps, NextPredecessorKeeps, IntersectStepKeeps,
               EndBlockKeeps, BuildTreeKeeps, DfPredecessorKeeps, RunnerStepKeeps, DfEndBlockKeeps
            DEF Later
  <1> QED BY <1>2, <1>4, <1>5 DEF DominatorsInv

\* The invariant is kept by every step.
LEMMA DominatorsStep ==
  ASSUME DominatorsInv, [Next]_vars
  PROVE  DominatorsInv'
  <1>1. CASE UNCHANGED vars
    <2>1. /\ UNCHANGED <<ir, entry, pc, visit, number, seen, postorder, doms, cursor, children, df>>
      BY <1>1 DEF vars, domVars
    <2>2. GraphInv'
      BY <2>1, GraphKept DEF DominatorsInv
    <2>3. pc = "dominators" => InitDominators'
      BY <2>1 DEF DominatorsInv, InitDominators
    <2>4. ASSUME pc = "visit" PROVE \E R : R = Part(ir, entry)' /\ VisitInv(R)'
      <3>1. PICK R : R = Part(ir, entry) /\ VisitInv(R)
        BY <2>4 DEF DominatorsInv
      <3>2. VisitInv(R)'
        BY <2>1, <3>1, VisitKept
      <3> QED BY <2>1, <3>1, <3>2
    <2>5. pc \notin {"dominators", "visit"} => Numbered' /\ (Analysable' <=> Analysable)
      BY <2>1, NumberedKept DEF DominatorsInv
    <2>6. ASSUME AnalysisInv, Numbered, Analysable PROVE AnalysisInv'
      <3>1. /\ Count' = Count /\ Numbers' = Numbers /\ SIZE_MAX' = SIZE_MAX
            /\ Above' = Above /\ Edge' = Edge /\ CursorType' = CursorType
        BY <2>1, <2>6, Kept DEF DominatorsInv
      <3>2. DomsInv => DomsInv'
        BY <2>1, <3>1 DEF DomsInv
      <3>3. SweepInv => SweepInv'
        BY <2>1, <3>1, <3>2 DEF SweepInv
      <3>4. BlockInv => BlockInv'
        BY <2>1, <3>1 DEF BlockInv, Passed, BlockNo, Preds
      <3>5. FingersInv => FingersInv'
        BY <2>1, <3>1 DEF FingersInv
      <3>6. TreeInv => TreeInv'
        BY <2>1, <3>1, <3>2 DEF TreeInv
      <3>7. FrontierInv => FrontierInv'
        BY <2>1, <3>6 DEF FrontierInv, BlockNo, Preds, Between
      <3>8. RunnerInv => RunnerInv'
        BY <2>1, <3>1 DEF RunnerInv, BlockNo, Preds
      <3> QED BY <2>1, <2>6, <3>1, <3>3, <3>4, <3>5, <3>6, <3>7, <3>8 DEF AnalysisInv
    <2> QED BY <2>1, <2>2, <2>3, <2>4, <2>5, <2>6 DEF DominatorsInv
  <1>2. CASE Next
    <2>0. GraphInv /\ UNCHANGED <<ir, entry>> /\ GraphInv'
      BY <1>2, GraphKept DEF Next, DominatorsInv
    <2>1. CASE VisitEntry
      <3>1. pc = "dominators" /\ pc' = "visit" /\ InitDominators
        BY <2>1 DEF VisitEntry, DominatorsInv
      <3>2. PICK R : R = Part(ir, entry) /\ R = Part(ir, entry)'
        BY <2>0
      <3>3. VisitInv(R)'
        BY <2>0, <2>1, <3>1, <3>2, GraphIsClosed, VisitEntryKeeps
      <3> QED BY <2>0, <3>1, <3>2, <3>3 DEF DominatorsInv, Phases
    <2>2. CASE VisitSuccessor
      <3>1. pc = "visit" /\ pc' = "visit"
        BY <2>2 DEF VisitSuccessor
      <3>2. PICK R : R = Part(ir, entry) /\ R = Part(ir, entry)' /\ VisitInv(R)
        BY <2>0, <3>1 DEF DominatorsInv
      <3>3. VisitInv(R)'
        BY <2>0, <2>2, <3>2, GraphIsClosed, VisitSuccessorKeeps
      <3> QED BY <2>0, <3>1, <3>2, <3>3 DEF DominatorsInv, Phases
    <2>3. CASE VisitLeave
      <3>1. pc = "visit"
        BY <2>3 DEF VisitLeave
      <3>4. PICK R : R = Part(ir, entry) /\ R = Part(ir, entry)' /\ VisitInv(R)
        BY <2>0, <3>1 DEF DominatorsInv
      <3>2. CASE Tail(visit) # <<>>
        <4>1. pc' = "visit"
          BY <2>3, <3>1, <3>2 DEF VisitLeave
        <4>2. VisitInv(R)'
          BY <2>0, <2>3, <3>2, <3>4, GraphIsClosed, VisitLeaveKeeps
        <4> QED BY <2>0, <3>4, <4>1, <4>2 DEF DominatorsInv, Phases
      <3>3. CASE Tail(visit) = <<>>
        <4>1. Numbered' /\ AnalysisInv' /\ pc' = "sweep"
          BY <2>0, <2>3, <3>3, <3>4, VisitEnds
        <4> QED BY <2>0, <4>1 DEF DominatorsInv, Phases
      <3> QED BY <3>2, <3>3
    <2>4. CASE Later
      BY <2>0, <2>4, LaterKeeps
    <2> QED BY <1>2, <2>1, <2>2, <2>3, <2>4 DEF Next, Later
  <1> QED BY <1>1, <1>2

\* The invariant holds where the analyses start.
LEMMA StartsRight == StartAnalysis => DominatorsInv
  <1>1. SUFFICES ASSUME StartAnalysis PROVE DominatorsInv
    OBVIOUS
  <1>2. \E R \in SUBSET Blocks(ir) : entry \in R /\ EdgesAgree(ir, R)
    BY <1>1 DEF StartAnalysis
  <1>3. Part(ir, entry) \in SUBSET Blocks(ir) /\ entry \in Part(ir, entry) /\ EdgesAgree(ir, Part(ir, entry))
    BY <1>2, Zenon DEF Part
  <1> QED BY <1>1, <1>3 DEF StartAnalysis, DominatorsInv, GraphInv, Phases

\* When the sweeps are over, the tree is right.
LEMMA IDomIs == DominatorsInv => IDomIsClosest
  <1> SUFFICES ASSUME DominatorsInv, pc = "tree", Analysable
               PROVE  /\ dominators_getIDom(entry) = entry
                      /\ \A b \in seen \ {entry} :
                            LET d == dominators_getIDom(b)
                            IN  /\ StrictlyDominates(d, b)
                                /\ \A s \in seen : StrictlyDominates(s, b) => Dominates(s, d)
    BY DEF IDomIsClosest
  <1>1. GraphInv /\ Numbered /\ TreeInv
    BY DEF DominatorsInv, AnalysisInv
  <1> QED BY <1>1, TreeIsClosest

\* When the runners are done, the frontiers are complete.
LEMMA FrontierIs == DominatorsInv => FrontierIsExact
  <1> SUFFICES ASSUME DominatorsInv, pc = "ssa", Analysable, NEW b \in seen
               PROVE  ToSet(df[b]) = {y \in seen : /\ ~StrictlyDominates(b, y)
                                                   /\ \E p \in Preds(y) : Dominates(b, p)}
    BY DEF FrontierIsExact, Preds
  <1>1. GraphInv /\ Numbered /\ FrontierInv /\ cursor.i = Count - 1 /\ cursor.preds = <<>>
    BY DEF DominatorsInv, AnalysisInv
  <1> QED BY <1>1, FrontierAtEnd

\* The inductive invariant of dominators_compute and domfrontiers_compute: the
\* search numbers the blocks in postorder, doms is a tree that respects dominance
\* and is settled when a sweep changes nothing, and the frontiers are complete up
\* to the runner.
THEOREM DominatorsInvariant == AnalysisSpec => []DominatorsInv
  <1>1. DominatorsInv /\ [Next]_vars => DominatorsInv'
    BY DominatorsStep
  <1> QED BY <1>1, StartsRight, PTL DEF AnalysisSpec

\* dominators_getIDom is the closest strict dominator when the sweeps of
\* dominators_compute are over, in every graph that the search leaves Analysable.
THEOREM IDomIsClosestAlways == AnalysisSpec => []IDomIsClosest
  BY IDomIs, DominatorsInvariant, PTL

\* The frontier lists that domfrontiers_compute leaves behind hold exactly the
\* dominance frontiers, in every graph that the search leaves Analysable.
THEOREM FrontierIsExactAlways == AnalysisSpec => []FrontierIsExact
  BY FrontierIs, DominatorsInvariant, PTL

-----------------------------------------------------------------------------
\* The graphs that ir_creation makes are Analysable.

\* In a part of the graph that control enters from block p only, every block on
\* the stack of the search lies above p, and gets its number before p does.
Behind(R) ==
    \A A \in SUBSET R : \A p \in R \ A : entry \notin A /\ OnlyEntry(ir, R, A, p) =>
        /\ \A k \in 1..Len(visit) : visit[k].block \in A =>
              \E l \in 1..Len(visit) : l > k /\ visit[l].block = p
        /\ \A b \in A \cap ToSet(postorder) :
              p \in seen /\ (p \in ToSet(postorder) => number[b] < number[p])

\* The search starts with the entry, which is in no such part.
LEMMA BehindStarts ==
  ASSUME NEW R, Closed(R), InitDominators, UNCHANGED <<ir, entry>>, VisitEntry
  PROVE  Behind(R)'
  <1>1. visit' = <<Visiting(entry)>> /\ postorder' = <<>>
    BY DEF VisitEntry, InitDominators
  <1>2. Len(visit') = 1 /\ \A k \in 1..Len(visit') : visit'[k].block = entry
    BY <1>1 DEF Visiting
  <1>3. ToSet(postorder') = {}
    BY <1>1 DEF ToSet
  <1> QED BY <1>2, <1>3 DEF Behind

\* The frames of the search keep their blocks, and the successor of the innermost
\* block goes on top of them if it was not seen before.
LEMMA VisitSuccessorMoves ==
  ASSUME NEW R, Closed(R), VisitInv(R), VisitSuccessor
  PROVE  LET n == Len(visit)
             succ == Head(visit[1].succs)
         IN  /\ n \in Nat \ {0} /\ visit[1].block \in R
             /\ succ \in R /\ succ \in Succs(visit[1].block)
             /\ seen' = seen \cup {succ} /\ UNCHANGED <<number, postorder>>
             /\ \/ succ \in seen /\ Len(visit') = n /\ \A k \in 1..n : visit'[k].block = visit[k].block
                \/ /\ succ \notin seen /\ Len(visit') = n + 1 /\ visit'[1].block = succ
                   /\ \A k \in 1..n : visit'[k + 1].block = visit[k].block
  <1> DEFINE n == Len(visit)
             succ == Head(visit[1].succs)
             F == [block : R, succs : Seq(R)]
             back == Cons([Head(visit) EXCEPT !.succs = Tail(@)], Tail(visit))
             f == Visiting(succ)
  <1>1. /\ visit \in Seq(F) /\ visit # <<>> /\ Head(visit) = visit[1] /\ Head(visit).succs # <<>>
    BY DEF VisitInv, FrameType, VisitSuccessor
  <1>2. n \in Nat \ {0} /\ visit[1] \in F
    <2> HIDE DEF F
    <2>1. n \in Nat \ {0} /\ 1 \in 1..n
      BY <1>1, LenProperties, EmptySeq
    <2> QED BY <1>1, <2>1, ElementOfSeq
  <1>3. /\ visit[1].block \in R /\ visit[1].succs \in Seq(R) /\ visit[1].succs # <<>>
    BY <1>1, <1>2
  <1>4. succ \in R /\ succ \in ToSet(visit[1].succs)
    BY <1>3, HeadTailSet
  <1>5. succ \in Succs(visit[1].block)
    <2>1. \A k \in 1..n : ToSet(visit[k].succs) \subseteq Succs(visit[k].block)
      BY DEF VisitInv
    <2>2. 1 \in 1..n
      BY <1>2
    <2> HIDE DEF succ
    <2> QED BY <1>4, <2>1, <2>2
  <1>6. /\ seen' = seen \cup {succ} /\ UNCHANGED <<number, postorder>>
        /\ visit' = IF succ \in seen THEN back ELSE Cons(f, back)
    BY <1>1 DEF VisitSuccessor
  <1>7. back \in Seq(F) /\ Len(back) = n /\ \A k \in 1..n : back[k].block = visit[k].block
    <2>1. /\ back \in Seq(F) /\ Len(back) = n /\ back[1].block = visit[1].block
          /\ \A k \in 2..n : back[k] = visit[k]
      BY <1>1, FrameAdvances
    <2> HIDE DEF back
    <2> QED BY <1>2, <2>1
  <1>8. f \in F /\ f.block = succ
    BY <1>4 DEF Closed, Visiting
  <1> HIDE DEF F, f, back
  <1>9. CASE succ \in seen
    <2>1. Len(visit') = n /\ \A k \in 1..n : visit'[k].block = visit[k].block
      BY <1>6, <1>7, <1>9
    <2>2. n \in Nat \ {0} /\ visit[1].block \in R /\ succ \in R /\ succ \in Succs(visit[1].block)
      BY <1>2, <1>3, <1>4, <1>5
    <2>3. seen' = seen \cup {succ} /\ UNCHANGED <<number, postorder>>
      BY <1>6
    <2> QED BY <1>9, <2>1, <2>2, <2>3
  <1>10. CASE succ \notin seen
    <2>1. /\ Len(Cons(f, back)) = Len(back) + 1 /\ Cons(f, back)[1] = f
          /\ \A k \in 1..Len(back) : Cons(f, back)[k + 1] = back[k]
      <3>1. back \in Seq(F) /\ f \in F
        BY <1>7, <1>8
      <3>2. ASSUME NEW q \in Seq(F), NEW x \in F
            PROVE  /\ Len(Cons(x, q)) = Len(q) + 1 /\ Cons(x, q)[1] = x
                   /\ \A k \in 1..Len(q) : Cons(x, q)[k + 1] = q[k]
        BY ConsProperties
      <3>3. Len(Cons(f, back)) = Len(back) + 1 /\ Cons(f, back)[1] = f
        BY <3>1, <3>2
      <3>4. \A k \in 1..Len(back) : Cons(f, back)[k + 1] = back[k]
        BY <3>1, <3>2
      <3> QED BY <3>3, <3>4
    <2>2. visit' = Cons(f, back)
      BY <1>6, <1>10
    <2>3. /\ Len(visit') = n + 1 /\ visit'[1].block = succ
          /\ \A k \in 1..n : visit'[k + 1].block = visit[k].block
      BY <1>7, <1>8, <2>1, <2>2
    <2>4. n \in Nat \ {0} /\ visit[1].block \in R /\ succ \in R /\ succ \in Succs(visit[1].block)
      BY <1>2, <1>3, <1>4, <1>5
    <2>5. seen' = seen \cup {succ} /\ UNCHANGED <<number, postorder>>
      BY <1>6
    <2> QED BY <1>10, <2>3, <2>4, <2>5
  <1> QED BY <1>9, <1>10

\* The first block of such a part goes on the stack when p is innermost.
LEMMA BehindSuccessor ==
  ASSUME NEW R, Closed(R), VisitInv(R), Behind(R), UNCHANGED <<ir, entry>>, VisitSuccessor
  PROVE  Behind(R)'
  <1> DEFINE n == Len(visit)
             succ == Head(visit[1].succs)
  <1>1. /\ n \in Nat \ {0} /\ visit[1].block \in R
        /\ succ \in R /\ succ \in Succs(visit[1].block)
        /\ seen' = seen \cup {succ} /\ number' = number /\ postorder' = postorder /\ ir' = ir /\ entry' = entry
        /\ \/ succ \in seen /\ Len(visit') = n /\ \A k \in 1..n : visit'[k].block = visit[k].block
           \/ /\ succ \notin seen /\ Len(visit') = n + 1 /\ visit'[1].block = succ
              /\ \A k \in 1..n : visit'[k + 1].block = visit[k].block
    BY VisitSuccessorMoves
  <1> HIDE DEF succ
  <1>2. ASSUME NEW A \in SUBSET R, NEW p \in R \ A, entry \notin A, OnlyEntry(ir, R, A, p)
        PROVE  /\ \A k \in 1..Len(visit') : visit'[k].block \in A =>
                     \E l \in 1..Len(visit') : l > k /\ visit'[l].block = p
               /\ \A b \in A \cap ToSet(postorder') :
                     p \in seen' /\ (p \in ToSet(postorder') => number'[b] < number'[p])
    <2>1. \A k \in 1..n : visit[k].block \in A => \E l \in 1..n : l > k /\ visit[l].block = p
      BY <1>2 DEF Behind
    <2>2. \A b \in A \cap ToSet(postorder) : p \in seen /\ (p \in ToSet(postorder) => number[b] < number[p])
      BY <1>2 DEF Behind
    <2>3. \A b \in A \cap ToSet(postorder') : p \in seen' /\ (p \in ToSet(postorder') => number'[b] < number'[p])
      BY <1>1, <2>2
    <2>4. CASE succ \in seen
      <3>1. Len(visit') = n /\ \A k \in 1..n : visit'[k].block = visit[k].block
        BY <1>1, <2>4
      <3> QED BY <2>1, <2>3, <3>1
    <2>5. CASE succ \notin seen
      <3>1. /\ Len(visit') = n + 1 /\ visit'[1].block = succ
            /\ \A k \in 1..n : visit'[k + 1].block = visit[k].block
        BY <1>1, <2>5
      <3>2. ASSUME NEW k \in 1..Len(visit'), visit'[k].block \in A
            PROVE  \E l \in 1..Len(visit') : l > k /\ visit'[l].block = p
        <4>1. CASE k = 1
          <5>1. succ \in A
            BY <3>1, <3>2, <4>1
          <5>2. visit[1].block \in A \/ visit[1].block = p
            <6>1. succ \in ToSet(block_successor(ir, visit[1].block))
              BY <1>1 DEF Succs
            <6> QED BY <1>1, <1>2, <5>1, <6>1 DEF OnlyEntry
          <5>3. PICK l \in 1..n : visit[l].block = p
            BY <1>1, <2>1, <5>2
          <5>4. l + 1 \in 1..Len(visit') /\ l + 1 > k /\ visit'[l + 1].block = p
            BY <1>1, <3>1, <4>1, <5>3
          <5> QED BY <5>4
        <4>2. CASE k # 1
          <5>1. k - 1 \in 1..n /\ (k - 1) + 1 = k
            BY <1>1, <3>1, <4>2
          <5>2. visit[k - 1].block \in A
            BY <3>1, <3>2, <5>1
          <5>3. PICK l \in 1..n : l > k - 1 /\ visit[l].block = p
            BY <2>1, <5>1, <5>2
          <5>4. l + 1 \in 1..Len(visit') /\ l + 1 > k /\ visit'[l + 1].block = p
            BY <1>1, <3>1, <5>1, <5>3
          <5> QED BY <5>4
        <4> QED BY <4>1, <4>2
      <3> QED BY <2>3, <3>2
    <2> QED BY <2>4, <2>5
  <1>3. ir' = ir /\ entry' = entry
    BY <1>1
  <1> QED BY <1>2, <1>3 DEF Behind

\* A block of such a part is left while p is still on the stack.
LEMMA BehindLeave ==
  ASSUME NEW R, Closed(R), VisitInv(R), Behind(R), UNCHANGED <<ir, entry>>, VisitLeave
  PROVE  Behind(R)'
  <1> DEFINE n == Len(visit)
             b == visit[1].block
             last == Len(postorder)
  <1>1. /\ n \in Nat \ {0} /\ Len(visit') = n - 1 /\ last \in Nat
        /\ \A k \in 1..Len(visit') : visit'[k] = visit[k + 1]
        /\ ToSet(postorder') = ToSet(postorder) \cup {b}
        /\ seen' = seen /\ ir' = ir /\ entry' = entry
    BY VisitLeaveNumbers
  <1>2. /\ seen = ToSet(postorder) \cup {visit[k].block : k \in 1..n}
        /\ \A k, l \in 1..n : visit[k].block = visit[l].block => k = l
        /\ \A k \in 1..n : visit[k].block \notin ToSet(postorder)
        /\ number \in [ToSet(postorder) -> Nat] /\ postorder \in Seq(R)
        /\ \A k \in 1..last : number[postorder[k]] = k - 1
    BY DEF VisitInv
  <1>3. /\ number'[b] = last
        /\ \A c \in ToSet(postorder) : number'[c] = number[c] /\ number[c] < last
    <2>1. number' = [c \in DOMAIN number \cup {b} |-> IF c = b THEN last ELSE number[c]]
      <3>1. Head(visit) = visit[1]
        OBVIOUS
      <3> QED BY <3>1 DEF VisitLeave, NextNumber
    <2>2. DOMAIN number = ToSet(postorder) /\ b \notin ToSet(postorder)
      BY <1>1, <1>2
    <2>3. ASSUME NEW c \in ToSet(postorder) PROVE number[c] < last
      <3>1. PICK k \in 1..last : c = postorder[k]
        BY <1>2, <2>3, ToSetIn
      <3> QED BY <1>1, <1>2, <3>1
    <2> QED BY <2>1, <2>2, <2>3
  <1> HIDE DEF b, last
  <1>4. ASSUME NEW A \in SUBSET R, NEW p \in R \ A, entry \notin A, OnlyEntry(ir, R, A, p)
        PROVE  /\ \A k \in 1..Len(visit') : visit'[k].block \in A =>
                     \E l \in 1..Len(visit') : l > k /\ visit'[l].block = p
               /\ \A c \in A \cap ToSet(postorder') :
                     p \in seen' /\ (p \in ToSet(postorder') => number'[c] < number'[p])
    <2>1. \A k \in 1..n : visit[k].block \in A => \E l \in 1..n : l > k /\ visit[l].block = p
      BY <1>4 DEF Behind
    <2>2. \A c \in A \cap ToSet(postorder) : p \in seen /\ (p \in ToSet(postorder) => number[c] < number[p])
      BY <1>4 DEF Behind
    <2>3. ASSUME NEW k \in 1..Len(visit'), visit'[k].block \in A
          PROVE  \E l \in 1..Len(visit') : l > k /\ visit'[l].block = p
      <3>1. k + 1 \in 1..n /\ visit[k + 1].block \in A
        BY <1>1, <2>3
      <3>2. PICK l \in 1..n : l > k + 1 /\ visit[l].block = p
        BY <2>1, <3>1
      <3>3. l - 1 \in 1..Len(visit') /\ l - 1 > k /\ (l - 1) + 1 = l
        BY <1>1, <3>1, <3>2
      <3>4. visit'[l - 1].block = p
        BY <1>1, <3>2, <3>3
      <3> QED BY <3>3, <3>4
    <2>4. ASSUME NEW c \in A \cap ToSet(postorder')
          PROVE  p \in seen' /\ (p \in ToSet(postorder') => number'[c] < number'[p])
      <3>1. CASE c = b
        <4>1. 1 \in 1..n /\ visit[1].block \in A
          BY <1>1, <2>4, <3>1 DEF b
        <4>2. PICK l \in 1..n : l > 1 /\ visit[l].block = p
          BY <2>1, <4>1
        <4>3. p \in seen /\ p \notin ToSet(postorder)
          BY <1>2, <4>2
        <4>4. p # b
          BY <1>2, <4>1, <4>2 DEF b
        <4> QED BY <1>1, <4>3, <4>4
      <3>2. CASE c # b
        <4>1. c \in A \cap ToSet(postorder)
          BY <1>1, <2>4, <3>2
        <4>2. CASE p = b
          BY <1>1, <1>3, <2>2, <4>1, <4>2
        <4>3. CASE p # b
          BY <1>1, <1>3, <2>2, <4>1, <4>3
        <4> QED BY <4>2, <4>3
      <3> QED BY <3>1, <3>2
    <2> QED BY <2>3, <2>4
  <1>5. ir' = ir /\ entry' = entry
    BY <1>1
  <1> QED BY <1>4, <1>5 DEF Behind

\* The graph stays as it is.
LEMMA HeadedKept ==
  ASSUME NEW R, HeadedBy(ir, entry, R), UNCHANGED <<ir, entry>>
  PROVE  HeadedBy(ir, entry, R)'
  <1>1. ir' = ir /\ entry' = entry
    OBVIOUS
  <1> QED BY <1>1, Zenon

\* The search goes on as long as there are frames.
LEMMA HeadedIsClosed ==
  ASSUME Len(ir.block) \in Nat, Blocks(ir) = 1..Len(ir.block), NEW R \in SUBSET Blocks(ir), HeadedBy(ir, entry, R)
  PROVE  Closed(R)
  BY DEF HeadedBy, EdgesAgree, Closed

\* The search has seen all of the part of the graph that the entry heads when it
\* ends: every other block has a predecessor made before it.
LEMMA OrderedEnds ==
  ASSUME NEW R, Closed(R), HeadedBy(ir, entry, R), VisitInv(R), Behind(R), UNCHANGED <<ir, entry>>,
         VisitLeave, Tail(visit) = <<>>
  PROVE  Analysable'
  <1> DEFINE preds(b) == block_predecessor(ir, b)
  <1>1. /\ visit' = Tail(visit) /\ Len(visit') = Len(visit) - 1 /\ Len(visit) \in Nat
        /\ postorder' \in Seq(R) /\ ToSet(postorder') = ToSet(postorder) \cup {visit[1].block}
        /\ seen' = seen /\ ir' = ir /\ entry' = entry
        /\ \A b \in ToSet(postorder') : Succs(b) \subseteq seen
    BY VisitLeaveNumbers
  <1>2. seen = ToSet(postorder')
    <2>1. Len(visit') = 0
      BY <1>1
    <2>2. Len(visit) = 1
      BY <1>1, <2>1
    <2>3. seen = ToSet(postorder) \cup {visit[k].block : k \in 1..1}
      BY <2>2 DEF VisitInv
    <2>4. {visit[k].block : k \in 1..1} = {visit[1].block}
      OBVIOUS
    <2> QED BY <1>1, <2>3, <2>4
  <1>3. seen \subseteq R
    <2>1. ToSet(postorder') \subseteq R
      BY <1>1, ToSetIn
    <2> QED BY <1>2, <2>1
  <1>4. entry \in seen
    <2>1. Len(visit) \in 1..Len(visit)
      <3>1. visit \in Seq(FrameType(R)) /\ visit # <<>>
        BY DEF VisitInv
      <3> HIDE DEF FrameType
      <3> QED BY <3>1, LenProperties, EmptySeq
    <2> QED BY <2>1 DEF VisitInv
  <1>5. R \subseteq seen
    <2> DEFINE T == R \ seen
    <2>1. SUFFICES ASSUME T # {} PROVE FALSE
      OBVIOUS
    <2>2. T \subseteq Nat
      BY DEF Closed
    <2> HIDE DEF T
    <2>3. PICK b \in T : \A x \in T : b <= x
      BY <2>1, <2>2, LeastNumber
    <2>4. b \in R \ {entry} /\ b \notin seen
      BY <1>4, <2>3 DEF T
    <2>5. PICK x \in R : x < b /\ b \in ToSet(block_successor(ir, x))
      BY <2>4 DEF HeadedBy
    <2>6. x \in seen
      <3>1. x \in Nat /\ b \in Nat
        BY <2>2, <2>3, <2>5 DEF Closed
      <3> QED BY <2>3, <2>5, <3>1 DEF T
    <2> QED BY <1>1, <1>2, <2>4, <2>5, <2>6 DEF Succs
  <1>6. Behind(R)'
    BY BehindLeave
  <1>7. ASSUME NEW b \in R \ {entry}
        PROVE  ToSet(preds(b)) \subseteq R /\ preds(b) # <<>> /\ number'[Head(preds(b))] > number'[b]
    <2> DEFINE p == Head(preds(b))
    <2>1. preds(b) \in Seq(R) /\ preds(b) # <<>>
      BY <1>7 DEF HeadedBy, EdgesAgree
    <2>2. ToSet(preds(b)) \subseteq R /\ p \in R
      BY <2>1, ToSetIn, HeadTailSet
    <2>3. PICK A \in SUBSET R : b \in A /\ p \notin A /\ entry \notin A /\ OnlyEntry(ir, R, A, p)
      BY <1>7 DEF HeadedBy
    <2> HIDE DEF p, preds
    <2>4. \A c \in A \cap ToSet(postorder') : p \in ToSet(postorder') => number'[c] < number'[p]
      BY <1>1, <1>6, <2>2, <2>3 DEF Behind
    <2>5. b \in A \cap ToSet(postorder') /\ p \in ToSet(postorder')
      BY <1>2, <1>5, <2>2, <2>3
    <2>6. number' \in [ToSet(postorder') -> Nat]
      BY VisitLeaveNumbers
    <2>7. number'[b] \in Nat /\ number'[p] \in Nat
      BY <2>5, <2>6
    <2> QED BY <2>1, <2>2, <2>4, <2>5, <2>7 DEF p
  <1>8. preds(entry) = <<>>
    BY DEF HeadedBy
  <1> HIDE DEF preds
  <1>9. \A b \in seen \ {entry} : ToSet(preds(b)) \subseteq seen /\ preds(b) # <<>> /\ number'[Head(preds(b))] > number'[b]
    BY <1>3, <1>5, <1>7
  <1> QED BY <1>1, <1>8, <1>9 DEF Analysable, preds

OrderedInv ==
    /\ Len(ir.block) \in Nat /\ Blocks(ir) = 1..Len(ir.block)
    /\ pc \in Phases
    /\ \E R \in SUBSET Blocks(ir) :
          /\ HeadedBy(ir, entry, R)
          /\ pc = "visit" => VisitInv(R) /\ Behind(R)
    /\ pc = "dominators" => InitDominators
    /\ pc \notin {"dominators", "visit"} => Analysable

\* Every step keeps the order of the search, and what the search leaves behind.
LEMMA OrderedStep ==
  ASSUME OrderedInv, [Next]_vars
  PROVE  OrderedInv'
  <1>1. PICK R \in SUBSET Blocks(ir) :
          HeadedBy(ir, entry, R) /\ (pc = "visit" => VisitInv(R) /\ Behind(R))
    BY DEF OrderedInv
  <1>2. /\ ir' = ir /\ entry' = entry /\ UNCHANGED <<ir, entry>>
        /\ Len(ir.block) \in Nat /\ Blocks(ir) = 1..Len(ir.block)
        /\ Len(ir'.block) \in Nat /\ Blocks(ir') = 1..Len(ir'.block)
    BY DEF Next, vars, OrderedInv
  <1>3. Closed(R) /\ HeadedBy(ir, entry, R)' /\ R \in SUBSET Blocks(ir)'
    BY <1>1, <1>2, HeadedIsClosed, HeadedKept
  <1>4. CASE UNCHANGED vars
    <2>1. UNCHANGED <<ir, entry, pc, visit, number, seen, postorder, doms, cursor, children, df>>
      BY <1>4 DEF vars, domVars
    <2>2. ASSUME pc' = "visit" PROVE VisitInv(R)' /\ Behind(R)'
      <3>1. VisitInv(R) /\ Behind(R)
        BY <1>1, <2>1, <2>2
      <3>2. VisitInv(R)'
        BY <2>1, <3>1, VisitKept
      <3>3. Behind(R)'
        BY <2>1, <3>1 DEF Behind
      <3> QED BY <3>2, <3>3
    <2>3. pc' = "dominators" => InitDominators'
      BY <2>1 DEF OrderedInv, InitDominators
    <2>4. pc' \notin {"dominators", "visit"} => Analysable'
      BY <2>1 DEF OrderedInv, Analysable
    <2>5. pc' \in Phases
      BY <2>1 DEF OrderedInv, Phases
    <2> QED BY <1>2, <1>3, <2>2, <2>3, <2>4, <2>5 DEF OrderedInv
  <1>5. CASE VisitEntry
    <2>1. pc = "dominators" /\ pc' = "visit" /\ InitDominators
      BY <1>5 DEF VisitEntry, OrderedInv
    <2>2. VisitInv(R)' /\ Behind(R)'
      BY <1>2, <1>3, <1>5, <2>1, VisitEntryKeeps, BehindStarts
    <2> QED BY <1>2, <1>3, <2>1, <2>2 DEF OrderedInv, Phases
  <1>6. CASE VisitSuccessor
    <2>1. pc = "visit" /\ pc' = "visit"
      BY <1>6 DEF VisitSuccessor
    <2>2. VisitInv(R)' /\ Behind(R)'
      BY <1>1, <1>2, <1>3, <1>6, <2>1, VisitSuccessorKeeps, BehindSuccessor
    <2> QED BY <1>2, <1>3, <2>1, <2>2 DEF OrderedInv, Phases
  <1>7. CASE VisitLeave
    <2>1. pc = "visit" /\ VisitInv(R) /\ Behind(R)
      BY <1>1, <1>7 DEF VisitLeave
    <2>2. CASE Tail(visit) # <<>>
      <3>1. pc' = "visit"
        BY <1>7, <2>1, <2>2 DEF VisitLeave
      <3>2. VisitInv(R)' /\ Behind(R)'
        BY <1>2, <1>3, <1>7, <2>1, <2>2, VisitLeaveKeeps, BehindLeave
      <3> QED BY <1>2, <1>3, <3>1, <3>2 DEF OrderedInv, Phases
    <2>3. CASE Tail(visit) = <<>>
      <3>1. pc' = "sweep"
        BY <1>7, <2>3 DEF VisitLeave
      <3>2. Analysable'
        BY <1>1, <1>2, <1>3, <1>7, <2>1, <2>3, OrderedEnds
      <3> QED BY <1>2, <1>3, <3>1, <3>2 DEF OrderedInv, Phases
    <2> QED BY <2>2, <2>3
  <1>8. CASE Later
    <2>1. /\ pc \notin {"dominators", "visit"} /\ pc' \in Phases /\ pc' \notin {"dominators", "visit"}
          /\ UNCHANGED <<number, seen, postorder>>
      BY <1>8, LaterFrame DEF OrderedInv
    <2>2. Analysable'
      BY <1>2, <2>1 DEF OrderedInv, Analysable
    <2> QED BY <1>2, <1>3, <2>1, <2>2 DEF OrderedInv
  <1> QED BY <1>4, <1>5, <1>6, <1>7, <1>8 DEF Next, Later

\* Where the first predecessor of each block dominates it, the edges agree.
LEMMA OrderedGraph == StartOrdered => StartAnalysis
  BY DEF StartOrdered, StartAnalysis, FirstPredecessorDominates, HeadedBy

\* What _visit leaves behind: every block is numbered, and its first predecessor
\* has a higher number, so that BeginBlock finds a dominator for each block.
THEOREM OrderedIsAnalysable == OrderedSpec => [](pc \notin {"dominators", "visit"} => Analysable)
  <1>1. StartOrdered => OrderedInv
    BY DEF StartOrdered, OrderedInv, FirstPredecessorDominates, Phases
  <1>2. OrderedInv /\ [Next]_vars => OrderedInv'
    BY OrderedStep
  <1>3. OrderedInv => (pc \notin {"dominators", "visit"} => Analysable)
    BY DEF OrderedInv
  <1> QED BY <1>1, <1>2, <1>3, PTL DEF OrderedSpec

\* On an Analysable graph no step reads through NULL or past the end of doms.
LEMMA NoCrashStep ==
  ASSUME DominatorsInv, pc # "crash", pc \notin {"dominators", "visit"} => Analysable, [Next]_vars
  PROVE  pc' # "crash"
  <1>1. CASE UNCHANGED vars
    BY <1>1 DEF vars
  <1>2. ASSUME Later PROVE GraphInv /\ Numbered /\ Analysable /\ AnalysisInv
    <2>1. pc \notin {"dominators", "visit", "crash"}
      BY <1>2, LaterFrame DEF DominatorsInv
    <2> QED BY <2>1 DEF DominatorsInv
  <1>3. CASE BeginBlock
    <2> DEFINE q == block_predecessor(ir, BlockNo(cursor.i))
    <2>1. GraphInv /\ Numbered /\ Analysable /\ AnalysisInv /\ pc = "sweep"
      BY <1>2, <1>3 DEF Later, BeginBlock
    <2>2. cursor.i \in Numbers
      BY <2>1 DEF AnalysisInv, CursorType, CursorOf
    <2>3. q \in Seq(Part(ir, entry)) /\ \A p \in ToSet(q) : p \in seen
      BY <2>1, <2>2, Context DEF Preds
    <2>4. q # <<>> => Head(q) \in seen
      BY <2>3, HeadTailSet
    <2> HIDE DEF q
    <2> QED BY <1>3, <2>4 DEF BeginBlock, q
  <1>4. CASE NextPredecessor
    <2>1. GraphInv /\ Numbered /\ Analysable /\ AnalysisInv /\ pc = "preds" /\ cursor.preds # <<>>
      BY <1>2, <1>4 DEF Later, NextPredecessor
    <2>2. cursor.i \in Numbers /\ cursor.preds \in Seq(Part(ir, entry)) /\ ToSet(cursor.preds) \subseteq Preds(BlockNo(cursor.i))
      BY <2>1 DEF AnalysisInv, CursorType, CursorOf, BlockInv
    <2>3. Head(cursor.preds) \in seen
      BY <2>1, <2>2, HeadTailSet, Context
    <2> QED BY <1>4, <2>3 DEF NextPredecessor
  <1>5. CASE BuildTree
    <2>1. GraphInv /\ Numbered /\ Analysable /\ AnalysisInv /\ pc = "tree"
      BY <1>2, <1>5 DEF Later, BuildTree
    <2>2. DOMAIN doms = Numbers /\ \A j \in Numbers : doms[j] # SIZE_MAX
      BY <2>1, Context DEF AnalysisInv, TreeInv, DomsInv, IsTree
    <2> QED BY <1>5, <2>2 DEF BuildTree
  <1>6. CASE VisitEntry \/ VisitSuccessor \/ VisitLeave
    BY <1>6 DEF VisitEntry, VisitSuccessor, VisitLeave
  <1>7. CASE IntersectStep \/ EndBlock
    BY <1>7 DEF IntersectStep, EndBlock
  <1>8. CASE DfPredecessor \/ RunnerStep \/ DfEndBlock
    BY <1>8 DEF DfPredecessor, RunnerStep, DfEndBlock
  <1> QED BY <1>1, <1>3, <1>4, <1>5, <1>6, <1>7, <1>8 DEF Next

\* What holds on such a graph.
OrderedSafe == DominatorsInv /\ OrderedInv /\ pc # "crash"

LEMMA OrderedSafeInit == StartOrdered => OrderedSafe
  BY OrderedGraph, StartsRight DEF StartOrdered, OrderedSafe, OrderedInv, FirstPredecessorDominates, Phases

LEMMA OrderedSafeStep ==
  ASSUME OrderedSafe, [Next]_vars
  PROVE  OrderedSafe'
  <1>1. DominatorsInv /\ OrderedInv /\ pc # "crash" /\ (pc \notin {"dominators", "visit"} => Analysable)
    BY DEF OrderedSafe, OrderedInv
  <1> QED BY <1>1, DominatorsStep, OrderedStep, NoCrashStep DEF OrderedSafe

LEMMA OrderedSafeIsRight == OrderedSafe => pc # "crash" /\ IDomIsClosest /\ FrontierIsExact
  BY IDomIs, FrontierIs DEF OrderedSafe

\* dominators_compute and domfrontiers_compute follow no NULL pointer on a
\* function such as ir_creation makes, and what they compute is right.
THEOREM OrderedIsRight == OrderedSpec => [](pc # "crash" /\ IDomIsClosest /\ FrontierIsExact)
  BY OrderedSafeInit, OrderedSafeStep, OrderedSafeIsRight, PTL DEF OrderedSpec
=============================================================================
