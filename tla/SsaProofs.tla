----------------------------- MODULE SsaProofs -----------------------------
(***************************************************************************)
(* Step 2 of ssa_convert: for every control-flow graph, any dominance        *)
(* frontiers, and any number of registers and assignments, phis end up       *)
(* exactly at the iterated dominance frontier of the assignments, for every  *)
(* register but the first.                                                   *)
(***************************************************************************)
EXTENDS SsaConversion, SequenceTheorems, FiniteSetTheorems, WellFoundedInduction, TLAPS

\* A sequence, whatever its elements are.
IsSeq(s) == s \in Seq(ToSet(s))

\* An IR context, as far as step 2 reads it.
IsContext(c) ==
    /\ c = [inst |-> c.inst, block |-> c.block, consts |-> c.consts, uses |-> c.uses]
    /\ IsSeq(c.inst)

\* The state that step 2 works on, as the accumulator of PlacePhis.
IsAcc(acc) ==
    /\ acc = [ir |-> acc.ir, blockInfo |-> acc.blockInfo, lastIteration |-> acc.lastIteration, list |-> acc.list]
    /\ IsContext(acc.ir)
    /\ acc.blockInfo = [n \in Numbers |-> acc.blockInfo[n]]
    /\ \A n \in Numbers : /\ acc.blockInfo[n] = [loadAssigns |-> acc.blockInfo[n].loadAssigns,
                                                 phiList |-> acc.blockInfo[n].phiList,
                                                 isRenamed |-> acc.blockInfo[n].isRenamed]
                          /\ IsSeq(acc.blockInfo[n].phiList)
    /\ acc.lastIteration \in [Numbers -> Nat]
    /\ IsSeq(acc.list)

Acc == [ir |-> ir, blockInfo |-> blockInfo, lastIteration |-> lastIteration, list |-> work.list]

\* The blocks with a phi for register r; those that iteration i has visited; those
\* that still wait in the worklist.
PhisIn(acc, r) == {b \in Reached : HasPhi(acc.blockInfo[number[b]], r)}
VisitedIn(acc, i) == {b \in Reached : acc.lastIteration[number[b]] = i}
ListedIn(acc) == {acc.list[k][2] : k \in 1..Len(acc.list)}

UpTo(acc, i) == \A n \in Numbers : acc.lastIteration[n] <= i

\* The blocks that assign register r, in context c.
Starts(c, r) == {c.inst[assigns[r][k]].parent : k \in DOMAIN assigns[r]}

SameStarts(acc, d) == \A r \in ToSet(variableList) : Starts(d.ir, r) = Starts(acc.ir, r)

\* X is closed: a block in the frontier of one of its blocks is in it.
ClosedFrom(X, S) == Frontier(S) \subseteq X /\ Frontier(X) \subseteq X

\* X is the iterated dominance frontier of S.
Complete(X, S) == ClosedFrom(X, S) /\ \A Y \in SUBSET Reached : ClosedFrom(Y, S) => X \subseteq Y

\* What is left unchanged: the numbering, the frontiers, the registers.
Tables ==
    /\ postorder \in Seq(Nat) /\ IsInjective(postorder)
    /\ \A n \in Numbers : number[BlockNo(n)] = n
    /\ \A b \in Reached : df[b] \in Seq(Reached)
    /\ variableList \in Seq(Nat) /\ IsInjective(variableList)
    /\ \A r \in ToSet(variableList) : assigns[r] \in Seq(Nat)

\* The assignments are instructions of numbered blocks.
AssignsIn(c) ==
    \A r \in ToSet(variableList) : \A k \in 1..Len(assigns[r]) :
        assigns[r][k] \in 1..Len(c.inst) /\ c.inst[assigns[r][k]].parent \in Reached

\* The worklist of register r in iteration i: who has an assignment or a phi has
\* been visited, and unless it waits, the blocks of its frontier have a phi; no
\* phi stands where none is needed.
Working(acc, r, i, S) ==
    /\ VisitedIn(acc, i) = S \cup PhisIn(acc, r)
    /\ ListedIn(acc) \subseteq VisitedIn(acc, i)
    /\ \A b \in VisitedIn(acc, i) \ ListedIn(acc) : ToSet(df[b]) \subseteq PhisIn(acc, r)
    /\ \A Y \in SUBSET Reached : ClosedFrom(Y, S) => PhisIn(acc, r) \subseteq Y

\* In phase p of iteration i: the registers before the i-th have their phis, and
\* those after it have none.
PlacementOf(acc, i, p) ==
    /\ p \in {"variable", "worklist", "rename"}
    /\ Tables /\ IsAcc(acc) /\ AssignsIn(acc.ir)
    /\ i \in 0..Len(variableList)
    /\ p = "worklist" => i < Len(variableList)
    /\ p = "rename" => i = Len(variableList)
    /\ UpTo(acc, i)
    /\ p = "variable" /\ i > 0 => UpTo(acc, i - 1)
    /\ \A k \in 2..Len(variableList) :
          /\ k <= i => Complete(PhisIn(acc, variableList[k]), Starts(acc.ir, variableList[k]))
          /\ k > i + 1 \/ (k = i + 1 /\ p = "variable") => PhisIn(acc, variableList[k]) = {}
    /\ p = "worklist" => ListedIn(acc) \subseteq Reached
    /\ p = "worklist" /\ i > 0 => Working(acc, variableList[i + 1], i, Starts(acc.ir, variableList[i + 1]))

PlacementInv == work = [i |-> work.i, list |-> work.list] /\ PlacementOf(Acc, work.i, pc)

-----------------------------------------------------------------------------
\* Sequences and numbers.

LEMMA ToSetIs ==
  ASSUME NEW s, IsSeq(s)
  PROVE  /\ Len(s) \in Nat /\ DOMAIN s = 1..Len(s)
         /\ \A x : x \in ToSet(s) <=> \E k \in 1..Len(s) : s[k] = x
  <1>1. Len(s) \in Nat /\ DOMAIN s = 1..Len(s)
    BY DEF IsSeq
  <1> QED BY <1>1 DEF ToSet

LEMMA SeqIsSeq ==
  ASSUME NEW S, NEW s \in Seq(S)
  PROVE  IsSeq(s) /\ ToSet(s) \subseteq S
  <1>1. Len(s) \in Nat /\ DOMAIN s = 1..Len(s) /\ \A k \in 1..Len(s) : s[k] \in S
    OBVIOUS
  <1>2. \A k \in 1..Len(s) : s[k] \in ToSet(s)
    BY <1>1 DEF ToSet
  <1>3. ToSet(s) \subseteq S
    BY <1>1 DEF ToSet
  <1>4. s = [k \in 1..Len(s) |-> s[k]]
    BY <1>1
  <1>5. s \in Seq(ToSet(s))
    <2>1. s \in [1..Len(s) -> ToSet(s)]
      BY <1>2, <1>4
    <2> QED BY <1>1, <2>1
  <1> QED BY <1>3, <1>5 DEF IsSeq

LEMMA SeqAppend ==
  ASSUME NEW s, IsSeq(s), NEW x
  PROVE  /\ IsSeq(Append(s, x)) /\ Len(Append(s, x)) = Len(s) + 1
         /\ Append(s, x)[Len(s) + 1] = x
         /\ \A k \in 1..Len(s) : Append(s, x)[k] = s[k]
         /\ \A k \in 1..(Len(s) + 1) : k \in 1..Len(s) \/ k = Len(s) + 1
  <1> DEFINE S == ToSet(s) \cup {x}
  <1>1. s \in Seq(S) /\ x \in S
    BY DEF IsSeq
  <1> HIDE DEF S
  <1>2. /\ Append(s, x) \in Seq(S) /\ Len(Append(s, x)) = Len(s) + 1 /\ Len(s) \in Nat
        /\ Append(s, x)[Len(s) + 1] = x /\ \A k \in 1..Len(s) : Append(s, x)[k] = s[k]
    BY <1>1
  <1>3. IsSeq(Append(s, x))
    BY <1>2, SeqIsSeq
  <1>4. \A k \in 1..(Len(s) + 1) : k \in 1..Len(s) \/ k = Len(s) + 1
    BY <1>2
  <1> QED BY <1>2, <1>3, <1>4

LEMMA IsSeqOf ==
  ASSUME NEW n \in Nat, NEW t, t = [k \in 1..n |-> t[k]]
  PROVE  IsSeq(t) /\ Len(t) = n
  <1> DEFINE S == {t[k] : k \in 1..n}
  <1>1. t \in [1..n -> S]
    OBVIOUS
  <1> HIDE DEF S
  <1>2. t \in Seq(S) /\ Len(t) = n
    BY <1>1
  <1> QED BY <1>2, SeqIsSeq

LEMMA SeqOfNumbers ==
  ASSUME NEW T, T \subseteq Nat, NEW s \in Seq(T)
  PROVE  s \in Seq(Nat) /\ Len(s) \in Nat /\ \A k \in 1..Len(s) : s[k] \in T
  <1>1. Len(s) \in Nat /\ s \in [1..Len(s) -> T]
    OBVIOUS
  <1>2. s \in [1..Len(s) -> Nat]
    BY <1>1
  <1>3. s \in Seq(Nat)
    BY <1>1, <1>2
  <1> QED BY <1>1, <1>3

\* A set of numbers has a least element.
LEMMA LeastNumber ==
  ASSUME NEW T, T \subseteq Nat, T # {}
  PROVE  \E n \in T : \A m \in T : n <= m
  <1>1. PICK n \in T : \A m \in T : ~(<<m, n>> \in OpToRel(<, Nat))
    BY NatLessThanWellFounded, WFMin
  <1>2. ASSUME NEW m \in T, ~(n <= m) PROVE FALSE
    <2>1. m \in Nat /\ n \in Nat /\ m < n
      BY <1>2
    <2>2. <<m, n>> \in OpToRel(<, Nat)
      BY <2>1 DEF OpToRel
    <2> QED BY <1>1, <2>2
  <1> QED BY <1>2

-----------------------------------------------------------------------------
\* Blocks and their numbers.

LEMMA NumberOf ==
  ASSUME Tables, NEW b \in Reached
  PROVE  number[b] \in Numbers /\ BlockNo(number[b]) = b
  <1>1. IsSeq(postorder) /\ Len(postorder) \in Nat
    <2> HIDE DEF IsSeq
    <2> QED BY SeqIsSeq DEF Tables
  <1>2. PICK k \in 1..Len(postorder) : postorder[k] = b
    BY <1>1, ToSetIs DEF Reached
  <1>3. k - 1 \in Numbers /\ (k - 1) + 1 = k
    BY <1>1 DEF Numbers
  <1>4. BlockNo(k - 1) = b
    BY <1>2, <1>3 DEF BlockNo
  <1> QED BY <1>3, <1>4 DEF Tables

LEMMA NumbersDiffer ==
  ASSUME Tables, NEW b \in Reached, NEW c \in Reached, number[b] = number[c]
  PROVE  b = c
  BY NumberOf

LEMMA FrontierIn ==
  ASSUME Tables, NEW S, S \subseteq Reached
  PROVE  /\ Frontier(S) \subseteq Reached
         /\ \A x : x \in Frontier(S) <=> \E b \in S : x \in ToSet(df[b])
  <1>1. \A b \in S : ToSet(df[b]) \subseteq Reached
    BY SeqIsSeq DEF Tables
  <1> QED BY <1>1 DEF Frontier

LEMMA FrontierGrows ==
  ASSUME NEW S, NEW X, S \subseteq X
  PROVE  Frontier(S) \subseteq Frontier(X)
  BY DEF Frontier

-----------------------------------------------------------------------------
\* One phi.

\* From acc to d, each block of X has got a phi for register r, and if iteration i
\* had not visited it, a place in the worklist.
Places(acc, d, X, r, i) ==
    /\ IsAcc(d)
    /\ Len(acc.ir.inst) <= Len(d.ir.inst)
    /\ \A k \in 1..Len(acc.ir.inst) : d.ir.inst[k] = acc.ir.inst[k]
    /\ PhisIn(d, r) = PhisIn(acc, r) \cup X
    /\ \A q : q # r => PhisIn(d, q) = PhisIn(acc, q)
    /\ UpTo(d, i)
    /\ VisitedIn(d, i) = VisitedIn(acc, i) \cup X
    /\ ListedIn(d) = ListedIn(acc) \cup (VisitedIn(d, i) \ VisitedIn(acc, i))

NewPhi(c, r, dataType) == Len(inst_new_phi(c, dataType, r).inst)

WithPhi(c, b, r, dataType) == block_insertTop(inst_new_phi(c, dataType, r), b, NewPhi(c, r, dataType))

\* The phi is a new instruction, and the others stay as they are.
LEMMA MadePhi ==
  ASSUME NEW c, IsContext(c), NEW b, NEW r, NEW dataType
  PROVE  /\ IsContext(WithPhi(c, b, r, dataType))
         /\ Len(c.inst) <= Len(WithPhi(c, b, r, dataType).inst)
         /\ \A k \in 1..Len(c.inst) : WithPhi(c, b, r, dataType).inst[k] = c.inst[k]
  <1> DEFINE phi == [type |-> "INST_PHI", dataType |-> dataType, rId |-> r, parent |-> 0,
                     uses |-> [s \in 1..0 |-> NoValue]]
             c1 == [c EXCEPT !.inst = Append(@, phi)]
             w == [x \in DOMAIN c1.uses \cup {InstValue(Len(c.inst) + 1)} |->
                     IF x = InstValue(Len(c.inst) + 1) THEN <<>> ELSE c1.uses[x]]
             made == inst_new_phi(c, dataType, r)
             d == WithPhi(c, b, r, dataType)
  <1>1. made = [c1 EXCEPT !.uses = w]
    BY DEF inst_new_phi, InstNew, ValueInit
  <1> HIDE DEF phi, w
  <1>2. c1 = [inst |-> Append(c.inst, phi), block |-> c.block, consts |-> c.consts, uses |-> c.uses]
    BY DEF IsContext
  <1> HIDE DEF c1
  <1>3. made = [inst |-> Append(c.inst, phi), block |-> c.block, consts |-> c.consts, uses |-> w]
    <2> HIDE DEF made
    <2> QED BY <1>1, <1>2
  <1> HIDE DEF made
  <1> DEFINE m == Len(made.inst)
             bs == [made.block EXCEPT ![b] = Cons(m, @)]
             is == [made.inst EXCEPT ![m].parent = b]
  <1>4. d = [made EXCEPT !.block[b] = Cons(m, @), !.inst[m].parent = b]
    BY DEF block_insertTop, WithPhi, NewPhi, made
  <1> HIDE DEF m
  <1>5. d = [inst |-> is, block |-> bs, consts |-> made.consts, uses |-> made.uses]
    <2> HIDE DEF d
    <2> QED BY <1>3, <1>4
  <1> HIDE DEF d, bs
  <1>6. /\ IsSeq(made.inst) /\ m = Len(c.inst) + 1 /\ Len(c.inst) \in Nat
        /\ \A k \in 1..Len(c.inst) : made.inst[k] = c.inst[k]
    <2>1. made.inst = Append(c.inst, phi)
      BY <1>3
    <2> HIDE DEF m
    <2>2. m = Len(made.inst)
      BY DEF m
    <2>3. IsSeq(c.inst)
      BY DEF IsContext
    <2> QED BY <2>1, <2>2, <2>3, SeqAppend, ToSetIs
  <1>7. m = Len(made.inst) /\ m \in 1..Len(made.inst)
    BY <1>6 DEF m
  <1> DEFINE e == [made.inst[m] EXCEPT !.parent = b]
  <1>8. is = [made.inst EXCEPT ![m] = e]
    OBVIOUS
  <1> HIDE DEF is, e
  <1>9. IsSeq(is) /\ Len(is) = m /\ \A k \in 1..m : k # m => is[k] = made.inst[k]
    <2> DEFINE t == made.inst
    <2>1. IsSeq(t) /\ m \in 1..Len(t) /\ is = [t EXCEPT ![m] = e] /\ Len(t) = m
      BY <1>6, <1>7, <1>8
    <2> HIDE DEF t
    <2>2. DOMAIN t = 1..m /\ m \in Nat
      BY <2>1, ToSetIs
    <2>3. is = [k \in 1..m |-> is[k]] /\ \A k \in 1..m : k # m => is[k] = t[k]
      BY <2>1, <2>2
    <2>4. IsSeq(is) /\ Len(is) = m
      BY <2>2, <2>3, IsSeqOf
    <2> QED BY <2>3, <2>4 DEF t
  <1>10. \A k \in 1..Len(c.inst) : k \in 1..m /\ k # m
    BY <1>6
  <1>11. d.inst = is /\ d = [inst |-> d.inst, block |-> d.block, consts |-> d.consts, uses |-> d.uses]
    BY <1>5
  <1>12. Len(c.inst) <= m
    BY <1>6
  <1> QED BY <1>6, <1>9, <1>10, <1>11, <1>12 DEF d, made, IsContext

\* From acc to d, block b has got a phi for register r.
Creates(acc, d, b, r) ==
    /\ IsAcc(d)
    /\ Len(acc.ir.inst) <= Len(d.ir.inst)
    /\ \A k \in 1..Len(acc.ir.inst) : d.ir.inst[k] = acc.ir.inst[k]
    /\ d.lastIteration = acc.lastIteration /\ d.list = acc.list
    /\ \A n \in Numbers : \A q :
          HasPhi(d.blockInfo[n], q) <=> HasPhi(acc.blockInfo[n], q) \/ (n = number[b] /\ q = r)

\* block_info_getOrCreatePhi changes the instructions and the phis of block b.
LEMMA GetOrCreate ==
  ASSUME Tables, NEW acc, IsAcc(acc), NEW b \in Reached, NEW r, NEW dataType
  PROVE  Creates(acc, block_info_getOrCreatePhi(acc, b, r, dataType), b, r)
  <1> DEFINE d == block_info_getOrCreatePhi(acc, b, r, dataType)
             n == number[b]
  <1> SUFFICES Creates(acc, d, b, r)
    OBVIOUS
  <1>1. n \in Numbers
    BY NumberOf
  <1>2. Len(acc.ir.inst) \in Nat
    BY ToSetIs DEF IsAcc, IsContext
  <1>3. CASE HasPhi(acc.blockInfo[n], r)
    <2>1. d = acc
      BY <1>3 DEF block_info_getOrCreatePhi
    <2> HIDE DEF d
    <2> QED BY <1>2, <1>3, <2>1 DEF Creates
  <1>4. CASE ~HasPhi(acc.blockInfo[n], r)
    <2> DEFINE c == WithPhi(acc.ir, b, r, dataType)
               phi == NewPhi(acc.ir, r, dataType)
               l == acc.blockInfo[n].phiList
               new == Append(l, [rId |-> r, phi |-> phi])
    <2>1. /\ IsContext(c) /\ Len(acc.ir.inst) <= Len(c.inst)
          /\ \A k \in 1..Len(acc.ir.inst) : c.inst[k] = acc.ir.inst[k]
      <3>1. IsContext(acc.ir)
        BY DEF IsAcc
      <3> QED BY <3>1, MadePhi
    <2> DEFINE p == phi
               bi == [acc.blockInfo EXCEPT ![n].phiList = Append(@, [rId |-> r, phi |-> p])]
    <2>2. d = [acc EXCEPT !.ir = c, !.blockInfo = bi]
      BY <1>4 DEF block_info_getOrCreatePhi, WithPhi, NewPhi
    <2> HIDE DEF c, d, p
    <2>3. d = [ir |-> c, blockInfo |-> bi, lastIteration |-> acc.lastIteration, list |-> acc.list]
      <3> HIDE DEF bi
      <3>1. acc = [ir |-> acc.ir, blockInfo |-> acc.blockInfo, lastIteration |-> acc.lastIteration, list |-> acc.list]
        BY DEF IsAcc
      <3> QED BY <2>2, <3>1
    <2>4. IsSeq(l)
      BY <1>1 DEF IsAcc
    <2> DEFINE e == [acc.blockInfo[n] EXCEPT !.phiList = new]
    <2>5. bi = [acc.blockInfo EXCEPT ![n] = e] /\ phi = p
      BY DEF p
    <2>6. new = Append(l, [rId |-> r, phi |-> p])
      BY <2>5
    <2> HIDE DEF bi, phi, new
    <2>7. e = [loadAssigns |-> acc.blockInfo[n].loadAssigns, phiList |-> new, isRenamed |-> acc.blockInfo[n].isRenamed]
      <3>1. acc.blockInfo[n] = [loadAssigns |-> acc.blockInfo[n].loadAssigns, phiList |-> acc.blockInfo[n].phiList,
                                isRenamed |-> acc.blockInfo[n].isRenamed]
        BY <1>1 DEF IsAcc
      <3> QED BY <3>1
    <2> HIDE DEF e
    <2>8. acc.blockInfo = [m \in Numbers |-> acc.blockInfo[m]]
      BY DEF IsAcc
    <2>9. /\ bi = [m \in Numbers |-> bi[m]] /\ bi[n] = e
          /\ \A m \in Numbers : m # n => bi[m] = acc.blockInfo[m]
      BY <1>1, <2>5, <2>8
    <2>10. IsSeq(new) /\ Len(new) = Len(l) + 1 /\ new[Len(l) + 1] = [rId |-> r, phi |-> p]
           /\ (\A k \in 1..Len(l) : new[k] = l[k]) /\ \A k \in 1..(Len(l) + 1) : k \in 1..Len(l) \/ k = Len(l) + 1
      <3>1. PICK x : x = [rId |-> r, phi |-> p]
        OBVIOUS
      <3>2. new = Append(l, x)
        BY <2>6, <3>1
      <3>3. /\ IsSeq(Append(l, x)) /\ Len(Append(l, x)) = Len(l) + 1 /\ Append(l, x)[Len(l) + 1] = x
            /\ \A k \in 1..Len(l) : Append(l, x)[k] = l[k]
            /\ \A k \in 1..(Len(l) + 1) : k \in 1..Len(l) \/ k = Len(l) + 1
        BY <2>4, SeqAppend
      <3> QED BY <3>1, <3>2, <3>3
    <2>11. /\ DOMAIN l = 1..Len(l) /\ Len(l) \in Nat /\ DOMAIN new = 1..(Len(l) + 1)
      BY <2>4, <2>10, ToSetIs
    <2> HIDE DEF l
    <2>12. ASSUME NEW q PROVE HasPhi(e, q) <=> HasPhi(acc.blockInfo[n], q) \/ q = r
      <3>1. e.phiList = new /\ acc.blockInfo[n].phiList = l
        BY <2>7 DEF l
      <3>2. HasPhi(e, q) <=> \E k \in 1..(Len(l) + 1) : new[k].rId = q
        BY <2>11, <3>1 DEF HasPhi
      <3>3. HasPhi(acc.blockInfo[n], q) <=> \E k \in 1..Len(l) : l[k].rId = q
        BY <2>11, <3>1 DEF HasPhi
      <3>4. Len(l) + 1 \in 1..(Len(l) + 1) /\ \A k \in 1..Len(l) : k \in 1..(Len(l) + 1)
        BY <2>11
      <3>5. new[Len(l) + 1].rId = r
        BY <2>10
      <3> QED BY <2>10, <3>2, <3>3, <3>4, <3>5
    <2>13. \A m \in Numbers : \A q : HasPhi(bi[m], q) <=> HasPhi(acc.blockInfo[m], q) \/ (m = n /\ q = r)
      BY <2>9, <2>12
    <2>14. d.ir = c /\ d.blockInfo = bi /\ d.lastIteration = acc.lastIteration /\ d.list = acc.list
      BY <2>3
    <2>15. IsAcc(d)
      <3>1. \A m \in Numbers : /\ bi[m] = [loadAssigns |-> bi[m].loadAssigns, phiList |-> bi[m].phiList,
                                            isRenamed |-> bi[m].isRenamed]
                                /\ IsSeq(bi[m].phiList)
        <4>1. e = [loadAssigns |-> e.loadAssigns, phiList |-> e.phiList, isRenamed |-> e.isRenamed] /\ IsSeq(e.phiList)
          BY <2>7, <2>10
        <4> QED BY <2>9, <4>1 DEF IsAcc
      <3>2. d = [ir |-> d.ir, blockInfo |-> d.blockInfo, lastIteration |-> d.lastIteration, list |-> d.list]
        BY <2>3
      <3>3. acc.lastIteration \in [Numbers -> Nat] /\ IsSeq(acc.list)
        BY DEF IsAcc
      <3> QED BY <2>1, <2>9, <2>14, <3>1, <3>2, <3>3 DEF IsAcc
    <2> QED BY <2>1, <2>13, <2>14, <2>15 DEF Creates
  <1> QED BY <1>3, <1>4

\* PlacePhi: the phi, and the worklist if iteration i comes by for the first time.
LEMMA PlacesOne ==
  ASSUME Tables, NEW acc, IsAcc(acc), NEW b \in Reached, NEW r, NEW i \in Nat, UpTo(acc, i), NEW dataType
  PROVE  Places(acc, PlacePhi(acc, b, r, i, dataType), {b}, r, i)
  <1> DEFINE placed == block_info_getOrCreatePhi(acc, b, r, dataType)
             phi == PhiOf(placed.blockInfo[number[b]], r)
             d == PlacePhi(acc, b, r, i, dataType)
             n == number[b]
  <1> SUFFICES Places(acc, d, {b}, r, i)
    OBVIOUS
  <1>1. n \in Numbers
    BY NumberOf
  <1>2. /\ IsAcc(placed)
        /\ Len(acc.ir.inst) <= Len(placed.ir.inst)
        /\ \A k \in 1..Len(acc.ir.inst) : placed.ir.inst[k] = acc.ir.inst[k]
        /\ placed.lastIteration = acc.lastIteration /\ placed.list = acc.list
        /\ \A m \in Numbers : \A q :
              HasPhi(placed.blockInfo[m], q) <=> HasPhi(acc.blockInfo[m], q) \/ (m = n /\ q = r)
    <2>1. Creates(acc, placed, b, r)
      BY GetOrCreate
    <2> QED BY <2>1 DEF Creates
  <1>3. d = IF NotVisited(acc.lastIteration, n, i)
            THEN [placed EXCEPT !.lastIteration[n] = i, !.list = Append(@, <<InstValue(phi), b>>)]
            ELSE placed
    BY DEF PlacePhi
  <1> HIDE DEF placed, phi, d
  <1>4. placed = [ir |-> placed.ir, blockInfo |-> placed.blockInfo, lastIteration |-> placed.lastIteration, list |-> placed.list]
    BY <1>2 DEF IsAcc
  <1>5. /\ acc.lastIteration \in [Numbers -> Nat] /\ IsSeq(acc.list)
        /\ \A m \in Numbers : acc.lastIteration[m] <= i
    BY DEF IsAcc, UpTo
  <1>6. d.ir = placed.ir /\ d.blockInfo = placed.blockInfo
    <2>1. CASE NotVisited(acc.lastIteration, n, i)
      BY <1>3, <1>4, <2>1
    <2>2. CASE ~NotVisited(acc.lastIteration, n, i)
      BY <1>3, <2>2
    <2> QED BY <2>1, <2>2
  <1>7. /\ PhisIn(d, r) = PhisIn(acc, r) \cup {b}
        /\ \A q : q # r => PhisIn(d, q) = PhisIn(acc, q)
    <2>1. \A x \in Reached : \A q :
             HasPhi(d.blockInfo[number[x]], q) <=> HasPhi(acc.blockInfo[number[x]], q) \/ (x = b /\ q = r)
      <3>1. \A x \in Reached : number[x] \in Numbers /\ (number[x] = n <=> x = b)
        BY NumberOf, NumbersDiffer
      <3> QED BY <1>2, <1>6, <3>1
    <2> QED BY <2>1 DEF PhisIn
  <1>8. CASE NotVisited(acc.lastIteration, n, i)
    <2> DEFINE x == <<InstValue(phi), b>>
               last == [acc.lastIteration EXCEPT ![n] = i]
               l == acc.list
    <2>1. d = [placed EXCEPT !.lastIteration = last, !.list = Append(l, x)]
      <3>1. d = [placed EXCEPT !.lastIteration[n] = i, !.list = Append(@, x)]
        BY <1>3, <1>8
      <3> HIDE DEF x
      <3> QED BY <1>2, <1>4, <3>1
    <2>2. x[2] = b
      OBVIOUS
    <2> HIDE DEF last, x
    <2>3. d = [ir |-> placed.ir, blockInfo |-> placed.blockInfo, lastIteration |-> last, list |-> Append(l, x)]
      BY <1>4, <2>1
    <2>4. last \in [Numbers -> Nat] /\ last[n] = i /\ \A m \in Numbers : m # n => last[m] = acc.lastIteration[m]
      BY <1>1, <1>5 DEF last
    <2>5. /\ IsSeq(Append(l, x)) /\ Len(Append(l, x)) = Len(l) + 1 /\ Append(l, x)[Len(l) + 1] = x
          /\ (\A k \in 1..Len(l) : Append(l, x)[k] = l[k]) /\ \A k \in 1..(Len(l) + 1) : k \in 1..Len(l) \/ k = Len(l) + 1
      BY <1>5, SeqAppend
    <2>6. Len(l) \in Nat
      BY <1>5, ToSetIs
    <2>7. d.lastIteration = last /\ d.list = Append(l, x)
      BY <2>3
    <2>8. IsAcc(d)
      <3>1. d = [ir |-> d.ir, blockInfo |-> d.blockInfo, lastIteration |-> d.lastIteration, list |-> d.list]
        BY <2>3
      <3> QED BY <1>2, <1>6, <2>4, <2>5, <2>7, <3>1 DEF IsAcc
    <2>9. UpTo(d, i)
      <3>1. \A m \in Numbers : last[m] <= i
        BY <1>5, <2>4
      <3> QED BY <2>7, <3>1 DEF UpTo
    <2>10. VisitedIn(d, i) = VisitedIn(acc, i) \cup {b}
      <3>1. \A y \in Reached : number[y] \in Numbers /\ (number[y] = n <=> y = b)
        BY NumberOf, NumbersDiffer
      <3>2. \A y \in Reached : last[number[y]] = i <=> acc.lastIteration[number[y]] = i \/ y = b
        BY <2>4, <3>1
      <3> QED BY <2>7, <3>2 DEF VisitedIn
    <2>11. b \notin VisitedIn(acc, i)
      <3>1. acc.lastIteration[n] # i
        BY <1>1, <1>5, <1>8 DEF NotVisited
      <3> QED BY <3>1 DEF VisitedIn
    <2>12. ListedIn(d) = ListedIn(acc) \cup {b}
      <3>1. ListedIn(d) = {Append(l, x)[k][2] : k \in 1..(Len(l) + 1)}
        BY <2>5, <2>7 DEF ListedIn
      <3>2. ListedIn(acc) = {l[k][2] : k \in 1..Len(l)}
        BY DEF ListedIn
      <3>3. Len(l) + 1 \in 1..(Len(l) + 1) /\ \A k \in 1..Len(l) : k \in 1..(Len(l) + 1)
        BY <2>6
      <3> HIDE DEF l
      <3>4. ASSUME NEW y \in {Append(l, x)[k][2] : k \in 1..(Len(l) + 1)} PROVE y \in {l[k][2] : k \in 1..Len(l)} \cup {b}
        <4>1. PICK k \in 1..(Len(l) + 1) : y = Append(l, x)[k][2]
          BY <3>4
        <4> QED BY <2>2, <2>5, <4>1
      <3>5. ASSUME NEW y \in {l[k][2] : k \in 1..Len(l)} \cup {b} PROVE y \in {Append(l, x)[k][2] : k \in 1..(Len(l) + 1)}
        <4>1. CASE y = b
          BY <2>2, <2>5, <3>3, <4>1
        <4>2. CASE y \in {l[k][2] : k \in 1..Len(l)}
          <5>1. PICK k \in 1..Len(l) : y = l[k][2]
            BY <4>2
          <5> QED BY <2>5, <3>3, <5>1
        <4> QED BY <3>5, <4>1, <4>2
      <3> QED BY <3>1, <3>2, <3>4, <3>5
    <2>13. ListedIn(d) = ListedIn(acc) \cup (VisitedIn(d, i) \ VisitedIn(acc, i))
      BY <2>10, <2>11, <2>12
    <2> QED BY <1>2, <1>6, <1>7, <2>8, <2>9, <2>10, <2>13 DEF Places
  <1>9. CASE ~NotVisited(acc.lastIteration, n, i)
    <2>1. d = placed
      BY <1>3, <1>9
    <2>2. acc.lastIteration[n] = i
      BY <1>1, <1>5, <1>9 DEF NotVisited
    <2>3. VisitedIn(d, i) = VisitedIn(acc, i) /\ b \in VisitedIn(acc, i) /\ ListedIn(d) = ListedIn(acc)
      BY <1>2, <2>1, <2>2 DEF VisitedIn, ListedIn
    <2>4. UpTo(d, i)
      BY <1>2, <2>1 DEF UpTo
    <2>5. /\ VisitedIn(d, i) = VisitedIn(acc, i) \cup {b}
          /\ ListedIn(d) = ListedIn(acc) \cup (VisitedIn(d, i) \ VisitedIn(acc, i))
      BY <2>3
    <2> QED BY <1>2, <1>6, <1>7, <2>1, <2>4, <2>5 DEF Places
  <1> QED BY <1>8, <1>9

\* One after the other.
LEMMA PlacesMore ==
  ASSUME NEW acc, NEW d, NEW e, NEW X, NEW Y, NEW r, NEW i, Places(acc, d, X, r, i), Places(d, e, Y, r, i),
         Len(acc.ir.inst) \in Nat, Len(d.ir.inst) \in Nat, Len(e.ir.inst) \in Nat
  PROVE  Places(acc, e, X \cup Y, r, i)
  <1>1. Len(acc.ir.inst) <= Len(e.ir.inst) /\ \A k \in 1..Len(acc.ir.inst) : e.ir.inst[k] = acc.ir.inst[k]
    <2>1. Len(acc.ir.inst) <= Len(d.ir.inst) /\ Len(d.ir.inst) <= Len(e.ir.inst)
      BY DEF Places
    <2>2. \A k \in 1..Len(acc.ir.inst) : k \in 1..Len(d.ir.inst)
      BY <2>1
    <2>3. /\ \A k \in 1..Len(acc.ir.inst) : d.ir.inst[k] = acc.ir.inst[k]
          /\ \A k \in 1..Len(d.ir.inst) : e.ir.inst[k] = d.ir.inst[k]
      BY DEF Places
    <2>4. Len(acc.ir.inst) <= Len(e.ir.inst)
      BY <2>1
    <2> QED BY <2>2, <2>3, <2>4
  <1>2. /\ PhisIn(e, r) = PhisIn(acc, r) \cup (X \cup Y)
        /\ \A q : q # r => PhisIn(e, q) = PhisIn(acc, q)
        /\ VisitedIn(e, i) = VisitedIn(acc, i) \cup (X \cup Y)
    BY DEF Places
  <1>3. ListedIn(e) = ListedIn(acc) \cup (VisitedIn(e, i) \ VisitedIn(acc, i))
    <2>1. /\ ListedIn(e) = ListedIn(d) \cup (VisitedIn(e, i) \ VisitedIn(d, i))
          /\ ListedIn(d) = ListedIn(acc) \cup (VisitedIn(d, i) \ VisitedIn(acc, i))
          /\ VisitedIn(acc, i) \subseteq VisitedIn(d, i) /\ VisitedIn(d, i) \subseteq VisitedIn(e, i)
      BY DEF Places
    <2> QED BY <2>1
  <1>4. IsAcc(e) /\ UpTo(e, i)
    BY DEF Places
  <1> QED BY <1>1, <1>2, <1>3, <1>4 DEF Places

\* The recursion over the frontier.
IsPlacing(f, acc, s, r, i, dataType) ==
    f = [k \in 0..Len(s) |-> IF k = 0 THEN acc ELSE PlacePhi(f[k - 1], s[k], r, i, dataType)]

LEMMA PlacingExists ==
  ASSUME NEW acc, NEW S, NEW s \in Seq(S), NEW r, NEW i, NEW dataType
  PROVE  \E f : IsPlacing(f, acc, s, r, i, dataType)
  <1> DEFINE next(d, k) == PlacePhi(d, s[k], r, i, dataType)
             P(m) == \E f : f = [k \in 0..m |-> IF k = 0 THEN acc ELSE next(f[k - 1], k)]
             T == {m \in Nat : ~P(m)}
             n == Len(s)
  <1>1. n \in Nat
    OBVIOUS
  <1>2. SUFFICES ASSUME T # {} PROVE FALSE
    <2>1. P(n)
      <3> HIDE DEF P, n
      <3> QED BY <1>1, <1>2
    <2> QED BY <2>1 DEF IsPlacing
  <1> HIDE DEF next, n
  <1>3. PICK m \in T : \A y \in T : m <= y
    <2> HIDE DEF T
    <2>1. T \subseteq Nat
      BY DEF T
    <2> QED BY <1>2, <2>1, LeastNumber
  <1>4. m \in Nat /\ ~P(m)
    OBVIOUS
  <1>5. CASE m = 0
    <2> DEFINE f == [k \in 0..0 |-> acc]
    <2>1. f = [k \in 0..0 |-> IF k = 0 THEN acc ELSE next(f[k - 1], k)]
      OBVIOUS
    <2> HIDE DEF f
    <2>2. P(0)
      BY <2>1
    <2> HIDE DEF P
    <2> QED BY <1>4, <1>5, <2>2
  <1>6. CASE m # 0
    <2>1. m - 1 \in Nat /\ ~(m <= m - 1)
      BY <1>4, <1>6
    <2>2. P(m - 1)
      <3> HIDE DEF P
      <3> QED BY <1>3, <2>1
    <2>3. PICK g : g = [k \in 0..(m - 1) |-> IF k = 0 THEN acc ELSE next(g[k - 1], k)]
      BY <2>2
    <2> DEFINE f == [k \in 0..m |-> IF k = m THEN next(g[m - 1], m) ELSE g[k]]
    <2>4. /\ f = [k \in 0..m |-> f[k]] /\ f[m] = next(g[m - 1], m)
          /\ \A k \in 0..(m - 1) : k \in 0..m /\ f[k] = g[k]
      BY <1>4
    <2> HIDE DEF f
    <2>5. \A k \in 0..(m - 1) : g[k] = IF k = 0 THEN acc ELSE next(g[k - 1], k)
      BY <2>3
    <2>6. ASSUME NEW k \in 0..m PROVE f[k] = IF k = 0 THEN acc ELSE next(f[k - 1], k)
      <3>1. CASE k = m
        <4>1. m - 1 \in 0..(m - 1)
          BY <2>1
        <4>2. f[k - 1] = g[m - 1]
          BY <2>4, <3>1, <4>1
        <4> QED BY <1>6, <2>4, <3>1, <4>2
      <3>2. CASE k # m
        <4>1. k \in 0..(m - 1)
          BY <1>4, <3>2
        <4>2. CASE k = 0
          BY <2>4, <2>5, <4>1, <4>2
        <4>3. CASE k # 0
          <5>1. k - 1 \in 0..(m - 1)
            BY <1>4, <4>1, <4>3
          <5>2. f[k - 1] = g[k - 1] /\ f[k] = g[k]
            BY <2>4, <4>1, <5>1
          <5> QED BY <2>5, <4>1, <4>3, <5>2
        <4> QED BY <4>2, <4>3
      <3> QED BY <3>1, <3>2
    <2>7. f = [k \in 0..m |-> IF k = 0 THEN acc ELSE next(f[k - 1], k)]
      BY <2>4, <2>6
    <2>8. P(m)
      BY <2>7
    <2> HIDE DEF P
    <2> QED BY <1>4, <2>8
  <1> QED BY <1>5, <1>6

\* The whole frontier of a block.
LEMMA PlacesAll ==
  ASSUME Tables, NEW acc, IsAcc(acc), NEW s \in Seq(Reached), NEW r, NEW i \in Nat, UpTo(acc, i), NEW dataType
  PROVE  Places(acc, PlacePhis(acc, s, r, i, dataType), ToSet(s), r, i)
  <1> DEFINE n == Len(s)
             f == CHOOSE g : g = [k \in 0..Len(s) |-> IF k = 0 THEN acc ELSE PlacePhi(g[k - 1], s[k], r, i, dataType)]
             prefix(k) == {s[j] : j \in 1..k}
  <1>1. n \in Nat /\ \A k \in 1..n : s[k] \in Reached
    OBVIOUS
  <1>2. IsPlacing(f, acc, s, r, i, dataType)
    BY PlacingExists DEF IsPlacing
  <1>3. PlacePhis(acc, s, r, i, dataType) = f[n]
    BY DEF PlacePhis
  <1> HIDE DEF f
  <1>4. f[0] = acc /\ \A k \in 1..n : f[k] = PlacePhi(f[k - 1], s[k], r, i, dataType)
    <2>1. 0 \in 0..n /\ \A k \in 1..n : k \in 0..n /\ k # 0
      BY <1>1
    <2> QED BY <1>2, <2>1 DEF IsPlacing
  <1> DEFINE T == {k \in 0..n : ~Places(acc, f[k], prefix(k), r, i)}
  <1>5. T = {}
    <2>1. SUFFICES ASSUME T # {} PROVE FALSE
      OBVIOUS
    <2>2. PICK m \in T : \A y \in T : m <= y
      <3>1. T \subseteq Nat
        BY <1>1
      <3> HIDE DEF T
      <3> QED BY <2>1, <3>1, LeastNumber
    <2>3. m \in 0..n /\ ~Places(acc, f[m], prefix(m), r, i)
      OBVIOUS
    <2>4. CASE m = 0
      <3>1. prefix(0) = {}
        OBVIOUS
      <3> HIDE DEF prefix
      <3>2. Places(acc, acc, {}, r, i)
        <4>1. Len(acc.ir.inst) \in Nat
          BY ToSetIs DEF IsAcc, IsContext
        <4> QED BY <4>1 DEF Places
      <3> QED BY <1>4, <2>3, <2>4, <3>1, <3>2
    <2>5. CASE m # 0
      <3>1. m - 1 \in 0..n /\ m \in 1..n /\ ~(m <= m - 1)
        BY <1>1, <2>3, <2>5
      <3>2. Places(acc, f[m - 1], prefix(m - 1), r, i)
        <4> HIDE DEF prefix
        <4> QED BY <2>2, <3>1
      <3>3. prefix(m) = prefix(m - 1) \cup {s[m]}
        <4>1. \A j : j \in 1..m <=> j \in 1..(m - 1) \/ j = m
          BY <3>1
        <4> QED BY <4>1
      <3> HIDE DEF prefix, T
      <3>4. IsAcc(f[m - 1]) /\ UpTo(f[m - 1], i)
        BY <3>2 DEF Places
      <3>5. Places(f[m - 1], f[m], {s[m]}, r, i)
        BY <1>1, <1>4, <3>1, <3>4, PlacesOne
      <3>6. Len(acc.ir.inst) \in Nat /\ Len(f[m - 1].ir.inst) \in Nat /\ Len(f[m].ir.inst) \in Nat
        <4>1. IsAcc(f[m])
          BY <3>5 DEF Places
        <4> QED BY <3>4, <4>1, ToSetIs DEF IsAcc, IsContext
      <3>7. Places(acc, f[m], prefix(m - 1) \cup {s[m]}, r, i)
        BY <3>2, <3>5, <3>6, PlacesMore
      <3> QED BY <2>3, <3>3, <3>7
    <2> QED BY <2>4, <2>5
  <1>6. n \in 0..n
    BY <1>1
  <1>7. prefix(n) = ToSet(s)
    <2>1. IsSeq(s)
      BY SeqIsSeq
    <2> QED BY <2>1, ToSetIs
  <1> HIDE DEF prefix
  <1> QED BY <1>3, <1>5, <1>6, <1>7

-----------------------------------------------------------------------------
\* The iterated dominance frontier.

\* The recursion of Closure.
IsGrowing(f, S, n) ==
    f = [k \in 0..n |-> IF k = 0 THEN S ELSE f[k - 1] \cup Frontier(f[k - 1])]

LEMMA GrowingExists ==
  ASSUME NEW S, NEW n \in Nat
  PROVE  \E f : IsGrowing(f, S, n)
  <1> DEFINE next(X) == X \cup Frontier(X)
             P(m) == \E f : f = [k \in 0..m |-> IF k = 0 THEN S ELSE next(f[k - 1])]
             T == {m \in Nat : ~P(m)}
  <1>1. SUFFICES ASSUME T # {} PROVE FALSE
    <2>1. P(n)
      <3> HIDE DEF P
      <3> QED BY <1>1
    <2> QED BY <2>1 DEF IsGrowing
  <1> HIDE DEF next
  <1>2. PICK m \in T : \A y \in T : m <= y
    <2> HIDE DEF T
    <2>1. T \subseteq Nat
      BY DEF T
    <2> QED BY <1>1, <2>1, LeastNumber
  <1>3. m \in Nat /\ ~P(m)
    OBVIOUS
  <1>4. CASE m = 0
    <2> DEFINE f == [k \in 0..0 |-> S]
    <2>1. f = [k \in 0..0 |-> IF k = 0 THEN S ELSE next(f[k - 1])]
      OBVIOUS
    <2> HIDE DEF f
    <2>2. P(0)
      BY <2>1
    <2> HIDE DEF P
    <2> QED BY <1>3, <1>4, <2>2
  <1>5. CASE m # 0
    <2>1. m - 1 \in Nat /\ ~(m <= m - 1)
      BY <1>3, <1>5
    <2>2. P(m - 1)
      <3> HIDE DEF P
      <3> QED BY <1>2, <2>1
    <2>3. PICK g : g = [k \in 0..(m - 1) |-> IF k = 0 THEN S ELSE next(g[k - 1])]
      BY <2>2
    <2> DEFINE f == [k \in 0..m |-> IF k = m THEN next(g[m - 1]) ELSE g[k]]
    <2>4. /\ f = [k \in 0..m |-> f[k]] /\ f[m] = next(g[m - 1])
          /\ \A k \in 0..(m - 1) : k \in 0..m /\ f[k] = g[k]
      BY <1>3
    <2> HIDE DEF f
    <2>5. \A k \in 0..(m - 1) : g[k] = IF k = 0 THEN S ELSE next(g[k - 1])
      BY <2>3
    <2>6. ASSUME NEW k \in 0..m PROVE f[k] = IF k = 0 THEN S ELSE next(f[k - 1])
      <3>1. CASE k = m
        <4>1. m - 1 \in 0..(m - 1)
          BY <2>1
        <4>2. f[k - 1] = g[m - 1]
          BY <2>4, <3>1, <4>1
        <4> QED BY <1>5, <2>4, <3>1, <4>2
      <3>2. CASE k # m
        <4>1. k \in 0..(m - 1)
          BY <1>3, <3>2
        <4>2. CASE k = 0
          BY <2>4, <2>5, <4>1, <4>2
        <4>3. CASE k # 0
          <5>1. k - 1 \in 0..(m - 1)
            BY <1>3, <4>1, <4>3
          <5>2. f[k - 1] = g[k - 1] /\ f[k] = g[k]
            BY <2>4, <4>1, <5>1
          <5> QED BY <2>5, <4>1, <4>3, <5>2
        <4> QED BY <4>2, <4>3
      <3> QED BY <3>1, <3>2
    <2>7. f = [k \in 0..m |-> IF k = 0 THEN S ELSE next(f[k - 1])]
      BY <2>4, <2>6
    <2>8. P(m)
      BY <2>7
    <2> HIDE DEF P
    <2> QED BY <1>3, <2>8
  <1> QED BY <1>4, <1>5

LEMMA ReachedFinite ==
  ASSUME Tables
  PROVE  IsFiniteSet(Reached) /\ Cardinality(Reached) \in Nat /\ Cardinality(Reached) <= Len(postorder)
  <1> DEFINE n == Len(postorder)
             g == [k \in 1..n |-> postorder[k]]
  <1>1. IsSeq(postorder)
    BY SeqIsSeq DEF Tables
  <1>2. n \in Nat
    BY <1>1, ToSetIs
  <1>3. g \in Surjection(1..n, Reached)
    <2>1. \A x : x \in Reached <=> \E k \in 1..n : postorder[k] = x
      BY <1>1, ToSetIs DEF Reached
    <2> QED BY <2>1 DEF Surjection
  <1> HIDE DEF g, n
  <1>4. IsFiniteSet(1..n) /\ Cardinality(1..n) = n
    <2>1. n \in Int /\ 1 \in Int
      BY <1>2
    <2>2. IsFiniteSet(1..n) /\ Cardinality(1..n) = IF 1 > n THEN 0 ELSE n - 1 + 1
      BY <2>1, FS_Interval
    <2>3. \A k \in Nat : (IF 1 > k THEN 0 ELSE k - 1 + 1) = k
      OBVIOUS
    <2> QED BY <1>2, <2>2, <2>3
  <1>5. IsFiniteSet(Reached) /\ Cardinality(Reached) <= n
    BY <1>3, <1>4, FS_Surjection
  <1> QED BY <1>5, FS_CardinalityType DEF n

\* A set that grows by its frontier at most as often as there are blocks is
\* closed in the end.
LEMMA GrowthStops ==
  ASSUME Tables, NEW S, S \subseteq Reached, NEW f, IsGrowing(f, S, Len(postorder))
  PROVE  /\ f[Len(postorder)] \subseteq Reached
         /\ S \subseteq f[Len(postorder)]
         /\ Frontier(f[Len(postorder)]) \subseteq f[Len(postorder)]
  <1> DEFINE n == Len(postorder)
  <1>1. n \in Nat
    <2>1. IsSeq(postorder)
      BY SeqIsSeq DEF Tables
    <2> QED BY <2>1, ToSetIs
  <1>2. f[0] = S /\ \A k \in 1..n : f[k] = f[k - 1] \cup Frontier(f[k - 1])
    <2>1. 0 \in 0..n /\ \A k \in 1..n : k \in 0..n /\ k # 0
      BY <1>1
    <2> QED BY <2>1 DEF IsGrowing
  <1> HIDE DEF n
  <1>3. \A k \in 0..n : f[k] \subseteq Reached /\ S \subseteq f[k]
    <2> DEFINE T == {k \in 0..n : ~(f[k] \subseteq Reached /\ S \subseteq f[k])}
    <2>1. SUFFICES ASSUME T # {} PROVE FALSE
      OBVIOUS
    <2>2. PICK m \in T : \A y \in T : m <= y
      <3>1. T \subseteq Nat
        BY <1>1
      <3> HIDE DEF T
      <3> QED BY <2>1, <3>1, LeastNumber
    <2>3. m # 0
      BY <1>2, <2>2
    <2>4. m - 1 \in 0..n /\ ~(m <= m - 1) /\ m \in 1..n
      BY <1>1, <2>2, <2>3
    <2>5. f[m - 1] \subseteq Reached /\ S \subseteq f[m - 1]
      BY <2>2, <2>4
    <2>6. Frontier(f[m - 1]) \subseteq Reached
      BY <2>5, FrontierIn
    <2> QED BY <1>2, <2>2, <2>4, <2>5, <2>6
  <1>4. SUFFICES ASSUME ~(Frontier(f[n]) \subseteq f[n]) PROVE FALSE
    <2>1. n \in 0..n
      BY <1>1
    <2> QED BY <1>3, <1>4, <2>1 DEF n
  <1>5. ASSUME NEW k \in 0..n, Frontier(f[k]) \subseteq f[k] PROVE FALSE
    <2> DEFINE T == {j \in k..n : f[j] # f[k]}
    <2>1. T # {}
      <3>1. n \in k..n
        BY <1>1
      <3> QED BY <1>4, <1>5, <3>1
    <2>2. PICK m \in T : \A y \in T : m <= y
      <3>1. T \subseteq Nat
        BY <1>1
      <3> HIDE DEF T
      <3> QED BY <2>1, <3>1, LeastNumber
    <2>3. m # k
      BY <2>2
    <2>4. m - 1 \in k..n /\ ~(m <= m - 1) /\ m \in 1..n
      BY <1>1, <2>2, <2>3
    <2>5. f[m - 1] = f[k]
      BY <2>2, <2>4
    <2>6. f[m] = f[k]
      BY <1>2, <1>5, <2>4, <2>5
    <2> QED BY <2>2, <2>6
  <1>6. ASSUME NEW k \in 0..n PROVE IsFiniteSet(f[k]) /\ Cardinality(f[k]) \in Nat
    BY <1>3, <1>6, ReachedFinite, FS_Subset, FS_CardinalityType
  <1>7. \A k \in 0..n : Cardinality(f[k]) >= k + 1
    <2> DEFINE T == {k \in 0..n : ~(Cardinality(f[k]) >= k + 1)}
    <2>1. SUFFICES ASSUME T # {} PROVE FALSE
      OBVIOUS
    <2>2. PICK m \in T : \A y \in T : m <= y
      <3>1. T \subseteq Nat
        BY <1>1
      <3> HIDE DEF T
      <3> QED BY <2>1, <3>1, LeastNumber
    <2>3. m \in 0..n /\ ~(Cardinality(f[m]) >= m + 1)
      BY <2>2
    <2>4. CASE m = 0
      <3>1. f[0] # {}
        <4>1. 0 \in 0..n
          BY <1>1
        <4>2. ~(Frontier(f[0]) \subseteq f[0])
          BY <1>5, <4>1
        <4>3. Frontier({}) = {}
          BY DEF Frontier
        <4> QED BY <4>2, <4>3
      <3>2. IsFiniteSet(f[0]) /\ Cardinality(f[0]) \in Nat
        BY <1>6, <2>3, <2>4
      <3>3. Cardinality(f[0]) # 0
        BY <3>1, <3>2, FS_EmptySet
      <3>4. Cardinality(f[0]) >= 0 + 1
        BY <3>2, <3>3
      <3> QED BY <2>3, <2>4, <3>4
    <2>5. CASE m # 0
      <3>1. m - 1 \in 0..n /\ m \in 1..n /\ ~(m <= m - 1) /\ m \in Nat
        BY <1>1, <2>3, <2>5
      <3>2. Cardinality(f[m - 1]) >= (m - 1) + 1
        BY <2>2, <3>1
      <3>3. f[m - 1] \subseteq f[m] /\ f[m - 1] # f[m]
        <4>1. f[m] = f[m - 1] \cup Frontier(f[m - 1])
          BY <1>2, <3>1
        <4>2. ~(Frontier(f[m - 1]) \subseteq f[m - 1])
          BY <1>5, <3>1
        <4> QED BY <4>1, <4>2
      <3>4. /\ IsFiniteSet(f[m]) /\ Cardinality(f[m]) \in Nat
            /\ IsFiniteSet(f[m - 1]) /\ Cardinality(f[m - 1]) \in Nat
        BY <1>6, <2>3, <3>1
      <3>5. Cardinality(f[m - 1]) < Cardinality(f[m])
        BY <3>3, <3>4, FS_Subset
      <3>6. Cardinality(f[m]) >= m + 1
        BY <3>1, <3>2, <3>4, <3>5
      <3> QED BY <2>3, <3>6
    <2> QED BY <2>4, <2>5
  <1>8. n \in 0..n
    BY <1>1
  <1>9. Cardinality(f[n]) <= Cardinality(Reached)
    BY <1>3, <1>8, ReachedFinite, FS_Subset
  <1>10. Cardinality(Reached) <= n /\ Cardinality(Reached) \in Nat
    BY ReachedFinite DEF n
  <1>11. Cardinality(f[n]) >= n + 1 /\ Cardinality(f[n]) \in Nat
    BY <1>6, <1>7, <1>8
  <1> QED BY <1>1, <1>9, <1>10, <1>11

\* Closure finds the iterated dominance frontier.
LEMMA JoinIs ==
  ASSUME Tables, NEW S, S \subseteq Reached, NEW X, X \subseteq Reached, Complete(X, S)
  PROVE  Closure(Frontier, Frontier(S), Len(postorder)) = X
  <1> DEFINE n == Len(postorder)
             f == CHOOSE g : g = [k \in 0..n |-> IF k = 0 THEN Frontier(S) ELSE g[k - 1] \cup Frontier(g[k - 1])]
  <1>1. n \in Nat
    <2>1. IsSeq(postorder)
      BY SeqIsSeq DEF Tables
    <2> QED BY <2>1, ToSetIs
  <1>2. IsGrowing(f, Frontier(S), n)
    <2> DEFINE A == Frontier(S)
    <2>1. \E g : IsGrowing(g, A, n)
      <3> HIDE DEF A, n, f
      <3> QED BY <1>1, GrowingExists
    <2>2. \E g : g = [k \in 0..n |-> IF k = 0 THEN A ELSE g[k - 1] \cup Frontier(g[k - 1])]
      <3> HIDE DEF A, n, f
      <3> QED BY <2>1 DEF IsGrowing
    <2> QED BY <2>2 DEF IsGrowing
  <1>3. Closure(Frontier, Frontier(S), n) = f[n]
    BY DEF Closure
  <1> HIDE DEF f
  <1>4. Frontier(S) \subseteq Reached
    BY FrontierIn
  <1>5. f[n] \subseteq Reached /\ ClosedFrom(f[n], S)
    <2> DEFINE A == Frontier(S)
    <2>1. IsGrowing(f, A, Len(postorder)) /\ A \subseteq Reached
      BY <1>2, <1>4
    <2> HIDE DEF A, n
    <2>2. /\ f[Len(postorder)] \subseteq Reached
          /\ A \subseteq f[Len(postorder)]
          /\ Frontier(f[Len(postorder)]) \subseteq f[Len(postorder)]
      BY <2>1, GrowthStops
    <2> QED BY <2>2 DEF ClosedFrom, A, n
  <1>6. X \subseteq f[n]
    BY <1>5 DEF Complete
  <1>7. f[0] = Frontier(S) /\ \A k \in 1..n : f[k] = f[k - 1] \cup Frontier(f[k - 1])
    <2>1. 0 \in 0..n /\ \A k \in 1..n : k \in 0..n /\ k # 0
      BY <1>1
    <2> QED BY <1>2, <2>1 DEF IsGrowing
  <1>8. \A k \in 0..n : f[k] \subseteq X
    <2> DEFINE T == {k \in 0..n : ~(f[k] \subseteq X)}
    <2>1. SUFFICES ASSUME T # {} PROVE FALSE
      OBVIOUS
    <2>2. PICK m \in T : \A y \in T : m <= y
      <3>1. T \subseteq Nat
        BY <1>1
      <3> HIDE DEF T
      <3> QED BY <2>1, <3>1, LeastNumber
    <2>3. m # 0
      BY <1>7, <2>2 DEF Complete, ClosedFrom
    <2>4. m - 1 \in 0..n /\ ~(m <= m - 1) /\ m \in 1..n
      BY <1>1, <2>2, <2>3
    <2>5. f[m - 1] \subseteq X
      BY <2>2, <2>4
    <2>6. Frontier(f[m - 1]) \subseteq X
      BY <2>5, FrontierGrows DEF Complete, ClosedFrom
    <2> QED BY <1>7, <2>2, <2>4, <2>5, <2>6
  <1>9. n \in 0..n
    BY <1>1
  <1> QED BY <1>3, <1>6, <1>8, <1>9

-----------------------------------------------------------------------------
\* The steps of step 2.

LEMMA StartsIn ==
  ASSUME Tables, NEW c, AssignsIn(c), NEW r \in ToSet(variableList)
  PROVE  Starts(c, r) \subseteq Reached
  <1>1. DOMAIN assigns[r] = 1..Len(assigns[r])
    BY DEF Tables
  <1> QED BY <1>1 DEF Starts, AssignsIn

\* New instructions do not change who assigns a register.
LEMMA StartsKept ==
  ASSUME Tables, NEW c, NEW d, AssignsIn(c), Len(c.inst) \in Nat, Len(d.inst) \in Nat, Len(c.inst) <= Len(d.inst),
         \A k \in 1..Len(c.inst) : d.inst[k] = c.inst[k]
  PROVE  AssignsIn(d) /\ \A r \in ToSet(variableList) : Starts(d, r) = Starts(c, r)
  <1>1. \A r \in ToSet(variableList) : DOMAIN assigns[r] = 1..Len(assigns[r])
    BY DEF Tables
  <1>2. \A r \in ToSet(variableList) : \A k \in 1..Len(assigns[r]) : d.inst[assigns[r][k]] = c.inst[assigns[r][k]]
    BY DEF AssignsIn
  <1>3. 1..Len(c.inst) \subseteq 1..Len(d.inst)
    OBVIOUS
  <1>4. AssignsIn(d)
    BY <1>2, <1>3 DEF AssignsIn
  <1>5. ASSUME NEW r \in ToSet(variableList) PROVE Starts(d, r) = Starts(c, r)
    <2>1. \A k \in DOMAIN assigns[r] : d.inst[assigns[r][k]].parent = c.inst[assigns[r][k]].parent
      BY <1>1, <1>2
    <2> QED BY <2>1 DEF Starts
  <1> QED BY <1>4, <1>5

LEMMA Variables ==
  ASSUME Tables
  PROVE  /\ Len(variableList) \in Nat
         /\ \A k \in 1..Len(variableList) : variableList[k] \in ToSet(variableList)
         /\ \A k, l \in 1..Len(variableList) : variableList[k] = variableList[l] => k = l
  <1>1. IsSeq(variableList)
    BY SeqIsSeq DEF Tables
  <1>2. Len(variableList) \in Nat /\ DOMAIN variableList = 1..Len(variableList)
    BY <1>1, ToSetIs
  <1>3. \A k \in 1..Len(variableList) : variableList[k] \in ToSet(variableList)
    BY <1>1, ToSetIs
  <1>4. \A k, l \in 1..Len(variableList) : variableList[k] = variableList[l] => k = l
    BY <1>2 DEF Tables, IsInjective
  <1> QED BY <1>2, <1>3, <1>4

\* One element of the worklist.
LEMMA WorkItemKeeps ==
  ASSUME NEW acc, NEW i, PlacementOf(acc, i, "worklist"), acc.list # <<>>, NEW dataType,
         NEW rest, rest = [acc EXCEPT !.list = Tail(@)]
  PROVE  /\ PlacementOf(PlacePhis(rest, df[Head(acc.list)[2]], variableList[i + 1], i, dataType), i, "worklist")
         /\ SameStarts(acc, PlacePhis(rest, df[Head(acc.list)[2]], variableList[i + 1], i, dataType))
  <1> DEFINE d == PlacePhis(rest, df[Head(acc.list)[2]], variableList[i + 1], i, dataType)
             r == variableList[i + 1]
             b == Head(acc.list)[2]
             V == variableList
  <1> SUFFICES PlacementOf(d, i, "worklist") /\ SameStarts(acc, d)
    OBVIOUS
  <1>1. /\ Tables /\ IsAcc(acc) /\ AssignsIn(acc.ir) /\ i \in 0..Len(V) /\ i < Len(V) /\ UpTo(acc, i)
        /\ ListedIn(acc) \subseteq Reached
    BY DEF PlacementOf
  <1>2. Len(V) \in Nat /\ i \in Nat /\ i + 1 \in 1..Len(V)
    BY <1>1, Variables
  <1>3. IsSeq(acc.list) /\ Len(acc.list) \in Nat /\ acc.list \in Seq(ToSet(acc.list))
    BY <1>1, ToSetIs DEF IsAcc, IsSeq
  <1>4. /\ Len(acc.list) >= 1 /\ Head(acc.list) = acc.list[1]
        /\ IsSeq(Tail(acc.list)) /\ Len(Tail(acc.list)) = Len(acc.list) - 1
        /\ \A k \in 1..(Len(acc.list) - 1) : Tail(acc.list)[k] = acc.list[k + 1]
    <2> DEFINE S == ToSet(acc.list)
               l == acc.list
    <2>1. l \in Seq(S) /\ l # <<>>
      BY <1>3
    <2> HIDE DEF S, l
    <2>2. /\ Len(l) >= 1 /\ Head(l) = l[1] /\ Tail(l) \in Seq(S) /\ Len(Tail(l)) = Len(l) - 1
          /\ \A k \in 1..(Len(l) - 1) : Tail(l)[k] = l[k + 1]
      BY <2>1
    <2>3. IsSeq(Tail(l))
      BY <2>2, SeqIsSeq
    <2> QED BY <2>2, <2>3 DEF l
  <1>5. /\ rest = [ir |-> acc.ir, blockInfo |-> acc.blockInfo, lastIteration |-> acc.lastIteration, list |-> Tail(acc.list)]
        /\ rest.ir = acc.ir /\ rest.blockInfo = acc.blockInfo /\ rest.lastIteration = acc.lastIteration
        /\ rest.list = Tail(acc.list)
    <2>1. acc = [ir |-> acc.ir, blockInfo |-> acc.blockInfo, lastIteration |-> acc.lastIteration, list |-> acc.list]
      BY <1>1 DEF IsAcc
    <2> QED BY <2>1
  <1>6. IsAcc(rest) /\ UpTo(rest, i)
    <2>1. rest = [ir |-> rest.ir, blockInfo |-> rest.blockInfo, lastIteration |-> rest.lastIteration, list |-> rest.list]
      BY <1>5
    <2>2. IsSeq(rest.list)
      BY <1>4, <1>5
    <2>3. IsAcc(rest)
      BY <1>1, <1>5, <2>1, <2>2 DEF IsAcc
    <2> QED BY <1>1, <1>5, <2>3 DEF UpTo
  <1>7. ListedIn(acc) = ListedIn(rest) \cup {b}
    <2> DEFINE l == acc.list
               t == Tail(acc.list)
    <2>1. ListedIn(acc) = {l[k][2] : k \in 1..Len(l)} /\ ListedIn(rest) = {t[k][2] : k \in 1..(Len(l) - 1)}
      BY <1>4, <1>5 DEF ListedIn
    <2>2. /\ b = l[1][2] /\ 1 \in 1..Len(l) /\ Len(l) \in Nat
          /\ \A k \in 1..(Len(l) - 1) : t[k] = l[k + 1] /\ k + 1 \in 1..Len(l)
          /\ \A k \in 1..Len(l) : k = 1 \/ (k - 1 \in 1..(Len(l) - 1) /\ (k - 1) + 1 = k)
      BY <1>3, <1>4
    <2> HIDE DEF l, t, b
    <2>3. ASSUME NEW x \in ListedIn(acc) PROVE x \in ListedIn(rest) \cup {b}
      <3>1. PICK k \in 1..Len(l) : x = l[k][2]
        BY <2>1
      <3>2. CASE k = 1
        BY <2>2, <3>1, <3>2
      <3>3. CASE k - 1 \in 1..(Len(l) - 1) /\ (k - 1) + 1 = k
        <4>1. t[k - 1] = l[k]
          BY <2>2, <3>3
        <4> QED BY <2>1, <3>1, <3>3, <4>1
      <3> QED BY <2>2, <3>2, <3>3
    <2>4. ASSUME NEW x \in ListedIn(rest) \cup {b} PROVE x \in ListedIn(acc)
      <3>1. CASE x = b
        BY <2>1, <2>2, <3>1
      <3>2. CASE x \in ListedIn(rest)
        <4>1. PICK k \in 1..(Len(l) - 1) : x = t[k][2]
          BY <2>1, <3>2
        <4> QED BY <2>1, <2>2, <4>1
      <3> QED BY <2>4, <3>1, <3>2
    <2> QED BY <2>3, <2>4
  <1>8. b \in Reached /\ df[b] \in Seq(Reached)
    BY <1>1, <1>7 DEF Tables
  <1>9. Places(rest, d, ToSet(df[b]), r, i)
    <2> DEFINE s == df[b]
    <2>1. s \in Seq(Reached)
      BY <1>8
    <2> HIDE DEF s, r
    <2>2. Places(rest, PlacePhis(rest, s, r, i, dataType), ToSet(s), r, i)
      BY <1>1, <1>2, <1>6, <2>1, PlacesAll
    <2> QED BY <2>2 DEF s, r
  <1> HIDE DEF d, b, r
  <1>10. /\ IsAcc(d) /\ UpTo(d, i) /\ Len(acc.ir.inst) \in Nat /\ Len(d.ir.inst) \in Nat
         /\ AssignsIn(d.ir) /\ \A q \in ToSet(V) : Starts(d.ir, q) = Starts(acc.ir, q)
    <2>1. /\ IsAcc(d) /\ UpTo(d, i) /\ Len(acc.ir.inst) <= Len(d.ir.inst)
          /\ \A k \in 1..Len(acc.ir.inst) : d.ir.inst[k] = acc.ir.inst[k]
      BY <1>5, <1>9 DEF Places
    <2>2. Len(acc.ir.inst) \in Nat /\ Len(d.ir.inst) \in Nat
      BY <1>1, <2>1, ToSetIs DEF IsAcc, IsContext
    <2>3. AssignsIn(d.ir) /\ \A q \in ToSet(V) : Starts(d.ir, q) = Starts(acc.ir, q)
      BY <1>1, <2>1, <2>2, StartsKept
    <2> QED BY <2>1, <2>2, <2>3
  <1>11. /\ \A q : PhisIn(rest, q) = PhisIn(acc, q)
         /\ VisitedIn(rest, i) = VisitedIn(acc, i)
    BY <1>5 DEF PhisIn, VisitedIn
  <1>12. /\ PhisIn(d, r) = PhisIn(acc, r) \cup ToSet(df[b])
         /\ \A q : q # r => PhisIn(d, q) = PhisIn(acc, q)
         /\ VisitedIn(d, i) = VisitedIn(acc, i) \cup ToSet(df[b])
         /\ ListedIn(d) = ListedIn(rest) \cup (VisitedIn(d, i) \ VisitedIn(acc, i))
    BY <1>9, <1>11 DEF Places
  <1>13. ASSUME NEW k \in 2..Len(V), k # i + 1 PROVE PhisIn(d, V[k]) = PhisIn(acc, V[k]) /\ Starts(d.ir, V[k]) = Starts(acc.ir, V[k])
    <2>1. k \in 1..Len(V)
      BY <1>2
    <2>2. V[k] # r /\ V[k] \in ToSet(V)
      BY <1>1, <1>2, <1>13, <2>1, Variables DEF r
    <2> QED BY <1>10, <1>12, <2>2
  <1>14. \A k \in 2..Len(V) :
            /\ k <= i => Complete(PhisIn(d, V[k]), Starts(d.ir, V[k]))
            /\ k > i + 1 \/ (k = i + 1 /\ "worklist" = "variable") => PhisIn(d, V[k]) = {}
    <2> TAKE k \in 2..Len(V)
    <2>1. /\ k <= i => Complete(PhisIn(acc, V[k]), Starts(acc.ir, V[k]))
          /\ k > i + 1 => PhisIn(acc, V[k]) = {}
      BY DEF PlacementOf
    <2>2. k <= i \/ k > i + 1 => k # i + 1
      BY <1>2
    <2> QED BY <1>13, <2>1, <2>2
  <1>15. ListedIn(d) \subseteq Reached
    <2>1. VisitedIn(d, i) \subseteq Reached
      BY DEF VisitedIn
    <2> QED BY <1>1, <1>7, <1>12, <2>1
  <1>16. ASSUME i > 0 PROVE Working(d, r, i, Starts(d.ir, r))
    <2> DEFINE S == Starts(acc.ir, r)
    <2>1. r \in ToSet(V)
      BY <1>1, <1>2, Variables DEF r
    <2>2. Starts(d.ir, r) = S /\ S \subseteq Reached
      BY <1>1, <1>10, <2>1, StartsIn
    <2>3. Working(acc, r, i, S)
      BY <1>16 DEF PlacementOf, r
    <2> HIDE DEF S
    <2>4. b \in S \cup PhisIn(acc, r)
      BY <1>7, <2>3 DEF Working
    <2>5. VisitedIn(d, i) = S \cup PhisIn(d, r)
      BY <1>12, <2>3 DEF Working
    <2>6. ListedIn(d) \subseteq VisitedIn(d, i)
      BY <1>7, <1>12, <2>3 DEF Working
    <2>7. \A x \in VisitedIn(d, i) \ ListedIn(d) : ToSet(df[x]) \subseteq PhisIn(d, r)
      <3> TAKE x \in VisitedIn(d, i) \ ListedIn(d)
      <3>1. x \in VisitedIn(acc, i) /\ (x = b \/ x \notin ListedIn(acc))
        BY <1>7, <1>12
      <3>2. CASE x = b
        BY <1>12, <3>2
      <3>3. CASE x \notin ListedIn(acc)
        BY <1>12, <2>3, <3>1, <3>3 DEF Working
      <3> QED BY <3>1, <3>2, <3>3
    <2>8. ASSUME NEW Y \in SUBSET Reached, ClosedFrom(Y, S) PROVE PhisIn(d, r) \subseteq Y
      <3>1. PhisIn(acc, r) \subseteq Y
        BY <2>3, <2>8 DEF Working
      <3>2. ToSet(df[b]) \subseteq Y
        <4>1. CASE b \in S
          BY <2>8, <4>1 DEF ClosedFrom, Frontier
        <4>2. CASE b \in PhisIn(acc, r)
          BY <2>8, <3>1, <4>2 DEF ClosedFrom, Frontier
        <4> QED BY <2>4, <4>1, <4>2
      <3> QED BY <1>12, <3>1, <3>2
    <2>9. Working(d, r, i, S)
      BY <2>5, <2>6, <2>7, <2>8 DEF Working
    <2> QED BY <2>2, <2>9
  <1>17. ASSUME i > 0 PROVE Working(d, V[i + 1], i, Starts(d.ir, V[i + 1]))
    BY <1>16, <1>17 DEF r
  <1>18. PlacementOf(d, i, "worklist")
    BY <1>1, <1>10, <1>14, <1>15, <1>17 DEF PlacementOf
  <1>19. SameStarts(acc, d)
    BY <1>10 DEF SameStarts
  <1> QED BY <1>18, <1>19

\* From acc to d, iteration i begins with the assignments as.
Begins(acc, d, as, i) ==
    /\ d = [ir |-> acc.ir, blockInfo |-> acc.blockInfo, lastIteration |-> d.lastIteration, list |-> d.list]
    /\ d.list = [k \in DOMAIN as |-> <<acc.ir.inst[as[k]].uses[1], acc.ir.inst[as[k]].parent>>]
    /\ d.lastIteration = [n \in Numbers |->
            IF \E k \in DOMAIN as : number[acc.ir.inst[as[k]].parent] = n THEN i ELSE acc.lastIteration[n]]

\* The next register: its assignments make the worklist.
LEMMA BeginKeeps ==
  ASSUME NEW acc, NEW i, PlacementOf(acc, i, "variable"), i < Len(variableList), NEW d,
         NEW as, as = assigns[variableList[i + 1]], Begins(acc, d, as, i)
  PROVE  PlacementOf(d, i, "worklist")
  <1> DEFINE V == variableList
             r == V[i + 1]
             S == Starts(acc.ir, r)
  <1>1. /\ Tables /\ IsAcc(acc) /\ AssignsIn(acc.ir) /\ i \in 0..Len(V) /\ UpTo(acc, i)
        /\ i > 0 => UpTo(acc, i - 1)
    BY DEF PlacementOf
  <1>2. Len(V) \in Nat /\ i \in Nat /\ i + 1 \in 1..Len(V) /\ r \in ToSet(V)
    BY <1>1, Variables
  <1>3. DOMAIN as = 1..Len(as) /\ Len(as) \in Nat
    BY <1>1, <1>2 DEF Tables
  <1>4. S \subseteq Reached /\ \A x : x \in S <=> \E k \in DOMAIN as : acc.ir.inst[as[k]].parent = x
    BY <1>1, <1>2, StartsIn DEF Starts
  <1> HIDE DEF S, r
  <1>a. /\ d = [ir |-> d.ir, blockInfo |-> d.blockInfo, lastIteration |-> d.lastIteration, list |-> d.list]
        /\ d.ir = acc.ir /\ d.blockInfo = acc.blockInfo
    <2>1. d = [ir |-> acc.ir, blockInfo |-> acc.blockInfo, lastIteration |-> d.lastIteration, list |-> d.list]
      BY DEF Begins
    <2> QED BY <2>1
  <1>b. /\ d.lastIteration = [n \in Numbers |-> d.lastIteration[n]]
        /\ \A n \in Numbers : d.lastIteration[n] =
              IF \E k \in DOMAIN as : number[acc.ir.inst[as[k]].parent] = n THEN i ELSE acc.lastIteration[n]
    BY DEF Begins
  <1>c. d.list = [k \in 1..Len(as) |-> d.list[k]] /\ \A k \in 1..Len(as) : d.list[k][2] = acc.ir.inst[as[k]].parent
    <2>1. d.list = [k \in DOMAIN as |-> <<acc.ir.inst[as[k]].uses[1], acc.ir.inst[as[k]].parent>>]
      BY DEF Begins
    <2> DEFINE F(k) == acc.ir.inst[as[k]].uses[1]
               G(k) == acc.ir.inst[as[k]].parent
    <2>2. d.list = [k \in 1..Len(as) |-> <<F(k), G(k)>>]
      BY <1>3, <2>1
    <2> HIDE DEF F, G
    <2>3. PICK l : l = d.list
      OBVIOUS
    <2>4. l = [k \in 1..Len(as) |-> <<F(k), G(k)>>]
      BY <2>2, <2>3
    <2>5. \A k \in 1..Len(as) : l[k] = <<F(k), G(k)>>
      BY <2>4
    <2>6. l = [k \in 1..Len(as) |-> l[k]]
      BY <2>4
    <2>7. \A k \in 1..Len(as) : l[k][2] = G(k)
      BY <2>5
    <2> QED BY <2>3, <2>6, <2>7 DEF G
  <1>5. IsSeq(d.list) /\ Len(d.list) = Len(as)
    <2> DEFINE l == d.list
    <2>1. l = [k \in 1..Len(as) |-> l[k]]
      BY <1>c
    <2> HIDE DEF l
    <2>2. IsSeq(l) /\ Len(l) = Len(as)
      BY <1>3, <2>1, IsSeqOf
    <2> QED BY <2>2 DEF l
  <1>6. d.lastIteration \in [Numbers -> Nat] /\ UpTo(d, i)
    <2>1. acc.lastIteration \in [Numbers -> Nat]
      BY <1>1 DEF IsAcc
    <2>2. \A n \in Numbers : d.lastIteration[n] \in Nat
      BY <1>2, <1>b, <2>1
    <2>3. \A n \in Numbers : d.lastIteration[n] <= i
      <3> TAKE n \in Numbers
      <3>1. acc.lastIteration[n] <= i
        BY <1>1 DEF UpTo
      <3>2. d.lastIteration[n] = i \/ d.lastIteration[n] = acc.lastIteration[n]
        BY <1>b
      <3> QED BY <1>2, <3>1, <3>2
    <2>4. d.lastIteration \in [Numbers -> Nat]
      BY <1>b, <2>2
    <2> QED BY <2>3, <2>4 DEF UpTo
  <1>7. IsAcc(d)
    BY <1>1, <1>5, <1>6, <1>a DEF IsAcc
  <1>8. ListedIn(d) = S
    <2>1. \A x : x \in ListedIn(d) <=> \E k \in 1..Len(as) : d.list[k][2] = x
      BY <1>5 DEF ListedIn
    <2>2. \A x : x \in S <=> \E k \in 1..Len(as) : acc.ir.inst[as[k]].parent = x
      BY <1>3, <1>4
    <2>3. \A k \in 1..Len(as) : d.list[k][2] = acc.ir.inst[as[k]].parent
      BY <1>c
    <2>4. ASSUME NEW x \in ListedIn(d) PROVE x \in S
      <3>1. PICK k \in 1..Len(as) : d.list[k][2] = x
        BY <2>1
      <3> QED BY <2>2, <2>3, <3>1
    <2>5. ASSUME NEW x \in S PROVE x \in ListedIn(d)
      <3>1. PICK k \in 1..Len(as) : acc.ir.inst[as[k]].parent = x
        BY <2>2
      <3> QED BY <2>1, <2>3, <3>1
    <2> QED BY <2>4, <2>5
  <1>9. \A q : PhisIn(d, q) = PhisIn(acc, q)
    BY <1>a DEF PhisIn
  <1>10. \A k \in 2..Len(V) :
            /\ k <= i => Complete(PhisIn(d, V[k]), Starts(d.ir, V[k]))
            /\ k > i + 1 => PhisIn(d, V[k]) = {}
    BY <1>9, <1>a DEF PlacementOf
  <1>11. ASSUME i > 0 PROVE Working(d, r, i, Starts(d.ir, r))
    <2>1. i + 1 \in 2..Len(V)
      BY <1>2, <1>11
    <2>2. PhisIn(d, r) = {}
      BY <1>9, <2>1 DEF PlacementOf, r
    <2>3. VisitedIn(d, i) = S
      <3>1. ASSUME NEW b \in Reached PROVE d.lastIteration[number[b]] = i <=> b \in S
        <4>1. number[b] \in Numbers
          BY <1>1, NumberOf
        <4>2. acc.lastIteration[number[b]] # i
          <5>1. acc.lastIteration[number[b]] \in Nat
            BY <1>1, <4>1 DEF IsAcc
          <5>2. acc.lastIteration[number[b]] <= i - 1
            BY <1>1, <1>11, <4>1 DEF UpTo
          <5> QED BY <1>2, <5>1, <5>2
        <4>3. d.lastIteration[number[b]] = i <=> \E k \in DOMAIN as : number[acc.ir.inst[as[k]].parent] = number[b]
          BY <1>b, <4>1, <4>2
        <4>4. \A k \in DOMAIN as : acc.ir.inst[as[k]].parent \in Reached
          BY <1>4
        <4>5. \A k \in DOMAIN as : number[acc.ir.inst[as[k]].parent] = number[b] <=> acc.ir.inst[as[k]].parent = b
          BY <1>1, <4>4, NumbersDiffer
        <4>6. (\E k \in DOMAIN as : number[acc.ir.inst[as[k]].parent] = number[b])
                <=> (\E k \in DOMAIN as : acc.ir.inst[as[k]].parent = b)
          BY <4>5
        <4> QED BY <1>4, <4>3, <4>6
      <3> QED BY <1>4, <3>1 DEF VisitedIn
    <2>4. Working(d, r, i, S)
      BY <1>8, <2>2, <2>3 DEF Working
    <2> QED BY <1>a, <2>4 DEF S
  <1>12. i > 0 => Working(d, V[i + 1], i, Starts(d.ir, V[i + 1]))
    BY <1>11 DEF r
  <1>13. AssignsIn(d.ir) /\ ListedIn(d) \subseteq Reached
    BY <1>1, <1>4, <1>8, <1>a
  <1> QED BY <1>1, <1>2, <1>6, <1>7, <1>10, <1>12, <1>13 DEF PlacementOf

\* An empty worklist: the register has all its phis.
LEMMA EndKeeps ==
  ASSUME NEW acc, NEW i, PlacementOf(acc, i, "worklist"), acc.list = <<>>
  PROVE  PlacementOf(acc, i + 1, "variable")
  <1> DEFINE V == variableList
  <1>1. /\ Tables /\ IsAcc(acc) /\ AssignsIn(acc.ir) /\ i \in 0..Len(V) /\ i < Len(V) /\ UpTo(acc, i)
        /\ i > 0 => Working(acc, V[i + 1], i, Starts(acc.ir, V[i + 1]))
    BY DEF PlacementOf
  <1>2. Len(V) \in Nat /\ i \in Nat /\ i + 1 \in 1..Len(V)
    BY <1>1, Variables
  <1>3. ListedIn(acc) = {}
    <2>1. 1..Len(acc.list) = {}
      OBVIOUS
    <2> QED BY <2>1 DEF ListedIn
  <1>4. ASSUME i > 0 PROVE Complete(PhisIn(acc, V[i + 1]), Starts(acc.ir, V[i + 1]))
    <2> DEFINE X == PhisIn(acc, V[i + 1])
               S == Starts(acc.ir, V[i + 1])
    <2>1. /\ \A b \in S \cup X : ToSet(df[b]) \subseteq X
          /\ \A Y \in SUBSET Reached : ClosedFrom(Y, S) => X \subseteq Y
      BY <1>1, <1>3, <1>4 DEF Working
    <2> HIDE DEF X, S
    <2>2. ClosedFrom(X, S)
      BY <2>1 DEF ClosedFrom, Frontier
    <2>3. Complete(X, S)
      BY <2>1, <2>2 DEF Complete
    <2> QED BY <2>3 DEF X, S
  <1>5. UpTo(acc, i + 1) /\ UpTo(acc, (i + 1) - 1)
    <2>1. \A n \in Numbers : acc.lastIteration[n] \in Nat /\ acc.lastIteration[n] <= i
      BY <1>1 DEF IsAcc, UpTo
    <2> QED BY <1>2, <2>1 DEF UpTo
  <1>6. \A k \in 2..Len(V) :
            /\ k <= i + 1 => Complete(PhisIn(acc, V[k]), Starts(acc.ir, V[k]))
            /\ k > (i + 1) + 1 \/ (k = (i + 1) + 1 /\ "variable" = "variable") => PhisIn(acc, V[k]) = {}
    <2> TAKE k \in 2..Len(V)
    <2>1. /\ k <= i => Complete(PhisIn(acc, V[k]), Starts(acc.ir, V[k]))
          /\ k > i + 1 => PhisIn(acc, V[k]) = {}
      BY DEF PlacementOf
    <2>2. /\ k <= i + 1 => k <= i \/ (k = i + 1 /\ i > 0)
          /\ k > (i + 1) + 1 \/ k = (i + 1) + 1 => k > i + 1
      BY <1>2
    <2> QED BY <1>4, <2>1, <2>2
  <1>7. i + 1 \in 0..Len(V)
    BY <1>2
  <1> QED BY <1>1, <1>5, <1>6, <1>7 DEF PlacementOf

\* Past the last register.
LEMMA DoneKeeps ==
  ASSUME NEW acc, NEW i, PlacementOf(acc, i, "variable"), i = Len(variableList)
  PROVE  PlacementOf(acc, i, "rename")
  BY DEF PlacementOf

-----------------------------------------------------------------------------
\* The invariant.

\* The state that a step leaves, when it changes nothing that step 2 only reads.
LEMMA Transfer ==
  ASSUME UNCHANGED <<number, postorder, df, variableList, assigns>>,
         NEW d, NEW i, NEW p, PlacementOf(d, i, p), Acc' = d, work.i' = i, pc' = p
  PROVE  PlacementOf(Acc, work.i, pc)'
  <1>1. (Tables /\ IsAcc(Acc))'
    BY DEF PlacementOf, Tables, IsAcc, Reached, Numbers, BlockNo, IsSeq
  <1>2. AssignsIn(Acc.ir)'
    BY DEF PlacementOf, AssignsIn, Reached
  <1>3. UpTo(Acc, work.i)' /\ (pc = "variable" /\ work.i > 0 => UpTo(Acc, work.i - 1))'
    BY DEF PlacementOf, UpTo, Numbers
  <1>4. /\ (pc \in {"variable", "worklist", "rename"})' /\ (work.i \in 0..Len(variableList))'
        /\ (pc = "worklist" => work.i < Len(variableList))' /\ (pc = "rename" => work.i = Len(variableList))'
    BY DEF PlacementOf
  <1>5. (pc = "worklist" => ListedIn(Acc) \subseteq Reached)'
    BY DEF PlacementOf, ListedIn, Reached
  <1>6. (\A k \in 2..Len(variableList) : k > work.i + 1 \/ (k = work.i + 1 /\ pc = "variable")
                                            => PhisIn(Acc, variableList[k]) = {})'
    <2> SUFFICES ASSUME NEW k \in 2..Len(variableList'), k > i + 1 \/ (k = i + 1 /\ p = "variable")
                 PROVE  PhisIn(Acc, variableList[k])' = {}
      OBVIOUS
    <2>1. PhisIn(Acc, variableList[k])' = PhisIn(d, variableList[k])
      BY DEF PhisIn, HasPhi, Reached
    <2>2. k \in 2..Len(variableList)
      OBVIOUS
    <2> QED BY <2>1, <2>2 DEF PlacementOf
  <1>7. (\A k \in 2..Len(variableList) : k <= work.i => Complete(PhisIn(Acc, variableList[k]), Starts(Acc.ir, variableList[k])))'
    <2> SUFFICES ASSUME NEW k \in 2..Len(variableList'), k <= work.i'
                 PROVE  Complete(PhisIn(Acc, variableList[k]), Starts(Acc.ir, variableList[k]))'
      OBVIOUS
    <2>1. PICK X, S : X = PhisIn(d, variableList[k]) /\ S = Starts(d.ir, variableList[k])
      OBVIOUS
    <2>2. PhisIn(Acc, variableList[k])' = X
      BY <2>1 DEF PhisIn, HasPhi, Reached
    <2>3. Starts(Acc.ir, variableList[k])' = S
      BY <2>1 DEF Starts
    <2>4. Complete(X, S)
      <3>1. k \in 2..Len(variableList) /\ k <= i
        OBVIOUS
      <3> QED BY <2>1, <3>1 DEF PlacementOf
    <2>5. Frontier(PhisIn(Acc, variableList[k]))' = Frontier(X)
      BY <2>2 DEF Frontier
    <2>6. Frontier(Starts(Acc.ir, variableList[k]))' = Frontier(S)
      BY <2>3 DEF Frontier
    <2>7. Reached' = Reached /\ \A Y : Frontier(Y)' = Frontier(Y)
      BY DEF Reached, Frontier
    <2>8. ClosedFrom(PhisIn(Acc, variableList[k]), Starts(Acc.ir, variableList[k]))'
      BY <2>2, <2>4, <2>5, <2>6 DEF ClosedFrom, Complete
    <2>9. ASSUME NEW Y \in SUBSET Reached, ClosedFrom(Y, Starts(Acc.ir, variableList[k]))'
          PROVE  PhisIn(Acc, variableList[k])' \subseteq Y
      <3>1. ClosedFrom(Y, S)
        BY <2>6, <2>7, <2>9 DEF ClosedFrom
      <3> QED BY <2>2, <2>4, <3>1 DEF Complete
    <2> QED BY <2>7, <2>8, <2>9 DEF Complete
  <1>8. (pc = "worklist" /\ work.i > 0 => Working(Acc, variableList[work.i + 1], work.i, Starts(Acc.ir, variableList[work.i + 1])))'
    <2> SUFFICES ASSUME p = "worklist", i > 0
                 PROVE  Working(Acc, variableList[work.i + 1], work.i, Starts(Acc.ir, variableList[work.i + 1]))'
      OBVIOUS
    <2>1. PICK X, S, r : X = PhisIn(d, r) /\ S = Starts(d.ir, r) /\ r = variableList[i + 1]
      OBVIOUS
    <2>2. PhisIn(Acc, variableList[work.i + 1])' = X
      BY <2>1 DEF PhisIn, HasPhi, Reached
    <2>3. Starts(Acc.ir, variableList[work.i + 1])' = S
      BY <2>1 DEF Starts
    <2>4. Working(d, r, i, S)
      BY <2>1 DEF PlacementOf
    <2>5. VisitedIn(Acc, work.i)' = VisitedIn(d, i)
      BY DEF VisitedIn, Reached
    <2>6. Frontier(Starts(Acc.ir, variableList[work.i + 1]))' = Frontier(S)
      BY <2>3 DEF Frontier
    <2>7. Reached' = Reached /\ \A Y : Frontier(Y)' = Frontier(Y)
      BY DEF Reached, Frontier
    <2>8. ListedIn(Acc)' = ListedIn(d)
      BY DEF ListedIn
    <2>9. ASSUME NEW Y \in SUBSET Reached, ClosedFrom(Y, Starts(Acc.ir, variableList[work.i + 1]))'
          PROVE  PhisIn(Acc, variableList[work.i + 1])' \subseteq Y
      <3>1. ClosedFrom(Y, S)
        BY <2>6, <2>7, <2>9 DEF ClosedFrom
      <3> QED BY <2>1, <2>2, <2>4, <3>1 DEF Working
    <2>10. \A b \in VisitedIn(d, i) \ ListedIn(d) : ToSet(df'[b]) \subseteq X
      BY <2>1, <2>4 DEF Working
    <2> QED BY <2>1, <2>2, <2>3, <2>4, <2>5, <2>7, <2>8, <2>9, <2>10 DEF Working
  <1> QED BY <1>1, <1>2, <1>3, <1>4, <1>5, <1>6, <1>7, <1>8 DEF PlacementOf

LEMMA StartIsPlacement == StartPlacement => PlacementInv
  <1> SUFFICES ASSUME StartPlacement PROVE PlacementInv
    OBVIOUS
  <1> DEFINE V == variableList
  <1>1. pc = "variable" /\ work = [i |-> 0, list |-> <<>>] /\ work.i = 0 /\ work.list = <<>>
    BY DEF StartPlacement
  <1>2. IsContext(ir)
    BY DEF StartPlacement, IsContext, IsSeq
  <1>3. /\ blockInfo = [n \in Numbers |-> blockInfo[n]]
        /\ \A n \in Numbers : /\ blockInfo[n] = [loadAssigns |-> blockInfo[n].loadAssigns,
                                                 phiList |-> blockInfo[n].phiList,
                                                 isRenamed |-> blockInfo[n].isRenamed]
                              /\ blockInfo[n].phiList = <<>>
    <2>1. PICK L, R : blockInfo = [n \in Numbers |-> [loadAssigns |-> L[n], phiList |-> <<>>, isRenamed |-> R[n]]]
      <3> DEFINE L == [n \in Numbers |-> blockInfo[n].loadAssigns]
                 R == [n \in Numbers |-> blockInfo[n].isRenamed]
      <3>1. blockInfo = [n \in Numbers |-> [loadAssigns |-> blockInfo[n].loadAssigns, phiList |-> <<>>,
                                            isRenamed |-> blockInfo[n].isRenamed]]
        BY DEF StartPlacement
      <3>2. \A n \in Numbers : L[n] = blockInfo[n].loadAssigns /\ R[n] = blockInfo[n].isRenamed
        OBVIOUS
      <3> HIDE DEF L, R
      <3>3. blockInfo = [n \in Numbers |-> [loadAssigns |-> L[n], phiList |-> <<>>, isRenamed |-> R[n]]]
        BY <3>1, <3>2
      <3> QED BY <3>3
    <2>2. \A n \in Numbers : blockInfo[n] = [loadAssigns |-> L[n], phiList |-> <<>>, isRenamed |-> R[n]]
      BY <2>1
    <2>3. blockInfo = [n \in Numbers |-> blockInfo[n]]
      BY <2>1
    <2> QED BY <2>2, <2>3
  <1>4. \A n \in Numbers : IsSeq(blockInfo[n].phiList)
    <2>1. IsSeq(<<>>)
      <3>1. <<>> \in Seq({})
        OBVIOUS
      <3> QED BY <3>1, SeqIsSeq
    <2> QED BY <1>3, <2>1
  <1>5. lastIteration \in [Numbers -> Nat] /\ \A n \in Numbers : lastIteration[n] = 0
    BY DEF StartPlacement
  <1>6. IsAcc(Acc) /\ Acc.ir = ir /\ Acc.blockInfo = blockInfo /\ Acc.lastIteration = lastIteration
    <2>1. IsSeq(work.list)
      <3>1. <<>> \in Seq({})
        OBVIOUS
      <3> QED BY <1>1, <3>1, SeqIsSeq
    <2>2. /\ Acc = [ir |-> Acc.ir, blockInfo |-> Acc.blockInfo, lastIteration |-> Acc.lastIteration, list |-> Acc.list]
          /\ Acc.ir = ir /\ Acc.blockInfo = blockInfo /\ Acc.lastIteration = lastIteration /\ Acc.list = work.list
      BY DEF Acc
    <2> QED BY <1>2, <1>3, <1>4, <1>5, <2>1, <2>2 DEF IsAcc
  <1>7. Len(ir.inst) \in Nat /\ DOMAIN ir.inst = 1..Len(ir.inst)
    BY <1>2, ToSetIs DEF IsContext
  <1>8. ASSUME NEW r \in ToSet(V)
        PROVE  /\ assigns[r] \in Seq(Nat)
               /\ \A k \in 1..Len(assigns[r]) : assigns[r][k] \in 1..Len(ir.inst) /\ ir.inst[assigns[r][k]].parent \in Reached
    <2>1. assigns[r] \in Seq(1..Len(ir.inst)) /\ \A i \in ToSet(assigns[r]) : ir.inst[i].parent \in Reached
      BY <1>7, <1>8 DEF StartPlacement
    <2> DEFINE as == assigns[r]
               n == Len(ir.inst)
    <2>2. as \in Seq(1..n) /\ n \in Nat
      BY <1>7, <2>1
    <2> HIDE DEF as, n
    <2>3. as \in Seq(Nat) /\ Len(as) \in Nat /\ \A k \in 1..Len(as) : as[k] \in 1..n
      <3>1. 1..n \subseteq Nat
        BY <2>2
      <3> QED BY <2>2, <3>1, SeqOfNumbers
    <2>4. \A k \in 1..Len(as) : as[k] \in ToSet(as)
      <3>1. IsSeq(as)
        BY <2>2, SeqIsSeq
      <3> QED BY <3>1, ToSetIs
    <2>5. \A i \in ToSet(as) : ir.inst[i].parent \in Reached
      BY <2>1 DEF as
    <2> QED BY <2>3, <2>4, <2>5 DEF as, n
  <1>9. Tables /\ AssignsIn(ir)
    BY <1>8 DEF StartPlacement, Tables, AssignsIn
  <1>10. Len(V) \in Nat
    BY <1>9, Variables
  <1>11. \A r : PhisIn(Acc, r) = {}
    <2>1. \A b \in Reached : blockInfo[number[b]].phiList = <<>>
      BY <1>3, <1>9, NumberOf
    <2> QED BY <1>6, <2>1 DEF PhisIn, HasPhi
  <1>12. UpTo(Acc, 0)
    BY <1>5, <1>6 DEF UpTo
  <1>13. \A k \in 2..Len(V) : ~(k <= 0)
    OBVIOUS
  <1>14. PlacementOf(Acc, 0, "variable")
    <2>1. 0 \in 0..Len(V)
      BY <1>10
    <2> HIDE DEF Acc
    <2> QED BY <1>6, <1>9, <1>11, <1>12, <1>13, <2>1 DEF PlacementOf
  <1> QED BY <1>1, <1>14 DEF PlacementInv

LEMMA PlacementStep == PlacementInv /\ [PlacementNext]_placementVars => PlacementInv'
  <1> SUFFICES ASSUME PlacementInv, [PlacementNext]_placementVars PROVE PlacementInv'
    OBVIOUS
  <1> DEFINE V == variableList
  <1>1. PICK acc, i, p : acc = Acc /\ i = work.i /\ p = pc
    OBVIOUS
  <1>2. PlacementOf(acc, i, p) /\ work = [i |-> work.i, list |-> work.list]
    BY <1>1 DEF PlacementInv
  <1>3. acc.ir = ir /\ acc.blockInfo = blockInfo /\ acc.lastIteration = lastIteration /\ acc.list = work.list
    BY <1>1 DEF Acc
  <1>4. SUFFICES ASSUME ~PlacementInv' PROVE FALSE
    OBVIOUS
  <1>5. ASSUME UNCHANGED <<number, postorder, df, variableList, assigns>>, NEW d, Acc' = d,
               NEW j, work' = [i |-> j, list |-> work'.list], NEW q, pc' = q, PlacementOf(d, j, q)
        PROVE  FALSE
    <2>1. work.i' = j /\ (work = [i |-> work.i, list |-> work.list])'
      BY <1>5
    <2>2. PlacementOf(Acc, work.i, pc)'
      BY <1>5, <2>1, Transfer
    <2> QED BY <1>4, <2>1, <2>2 DEF PlacementInv
  <1>6. CASE UNCHANGED placementVars
    <2>1. UNCHANGED <<number, postorder, df, variableList, assigns>> /\ pc' = p
      BY <1>1, <1>6 DEF placementVars, ssaVars
    <2>2. Acc' = acc
      BY <1>1, <1>6 DEF Acc, placementVars, ssaVars
    <2>3. work' = [i |-> i, list |-> work'.list]
      BY <1>1, <1>2, <1>6 DEF placementVars, ssaVars
    <2> QED BY <1>2, <1>5, <2>1, <2>2, <2>3
  <1>7. ASSUME BeginVariable, UNCHANGED <<number, postorder, children, df>> PROVE FALSE
    <2>1. PICK as : as = assigns[V[i + 1]]
      OBVIOUS
    <2>2. PICK d : d = Acc'
      OBVIOUS
    <2>3. p = "variable" /\ i < Len(V) /\ pc' = "worklist"
      BY <1>1, <1>7 DEF BeginVariable
    <2>4. UNCHANGED <<number, postorder, df, variableList, assigns, ir, blockInfo>>
      BY <1>7 DEF BeginVariable
    <2>5. /\ work' = [i |-> i, list |-> work'.list]
          /\ work'.list = [k \in DOMAIN as |-> <<acc.ir.inst[as[k]].uses[1], acc.ir.inst[as[k]].parent>>]
      BY <1>1, <1>2, <1>3, <1>7, <2>1 DEF BeginVariable
    <2>6. lastIteration' = [n \in Numbers |->
            IF \E k \in DOMAIN as : number[acc.ir.inst[as[k]].parent] = n THEN i ELSE acc.lastIteration[n]]
      BY <1>1, <1>3, <1>7, <2>1 DEF BeginVariable
    <2>7. /\ d = [ir |-> ir', blockInfo |-> blockInfo', lastIteration |-> lastIteration', list |-> work'.list]
          /\ d.lastIteration = lastIteration' /\ d.list = work'.list
      BY <2>2 DEF Acc
    <2>8. Begins(acc, d, as, i)
      BY <1>3, <2>4, <2>5, <2>6, <2>7 DEF Begins
    <2>9. PlacementOf(d, i, "worklist")
      BY <1>2, <2>1, <2>3, <2>8, BeginKeeps
    <2> QED BY <1>5, <2>2, <2>3, <2>4, <2>5, <2>9
  <1>8. ASSUME WorkItem, UNCHANGED <<number, postorder, children, df>> PROVE FALSE
    <2>1. PICK dataType : dataType = DataTypeOf(ir, Head(work.list)[1])
      OBVIOUS
    <2>2. PICK rest : rest = [acc EXCEPT !.list = Tail(@)]
      OBVIOUS
    <2>3. PICK d : d = PlacePhis(rest, df[Head(acc.list)[2]], V[i + 1], i, dataType)
      OBVIOUS
    <2>4. p = "worklist" /\ acc.list # <<>> /\ pc' = p
      BY <1>1, <1>3, <1>8 DEF WorkItem
    <2>5. PlacementOf(d, i, "worklist")
      <3>1. PlacementOf(acc, i, "worklist")
        BY <1>2, <2>4
      <3>2. PlacementOf(PlacePhis(rest, df[Head(acc.list)[2]], V[i + 1], i, dataType), i, "worklist")
        BY <2>2, <2>4, <3>1, WorkItemKeeps
      <3> QED BY <2>3, <3>2
    <2>6. rest = [ir |-> ir, blockInfo |-> blockInfo, lastIteration |-> lastIteration, list |-> Tail(work.list)]
      BY <1>1, <2>2 DEF Acc
    <2>7. d = PlacePhis([ir |-> ir, blockInfo |-> blockInfo, lastIteration |-> lastIteration, list |-> Tail(work.list)],
                        df[Head(work.list)[2]], variableList[work.i + 1], work.i, DataTypeOf(ir, Head(work.list)[1]))
      BY <1>1, <1>3, <2>1, <2>3, <2>6
    <2>8. /\ ir' = d.ir /\ blockInfo' = d.blockInfo /\ lastIteration' = d.lastIteration
          /\ work' = [work EXCEPT !.list = d.list]
          /\ UNCHANGED <<number, postorder, df, variableList, assigns>>
      BY <1>8, <2>7 DEF WorkItem
    <2>9. work' = [i |-> i, list |-> work'.list] /\ work'.list = d.list
      BY <1>1, <1>2, <2>8
    <2>10. d = [ir |-> d.ir, blockInfo |-> d.blockInfo, lastIteration |-> d.lastIteration, list |-> d.list]
      BY <2>5 DEF PlacementOf, IsAcc
    <2>11. Acc' = d
      BY <2>8, <2>9, <2>10 DEF Acc
    <2> QED BY <1>5, <2>4, <2>5, <2>8, <2>9, <2>11
  <1>9. ASSUME EndVariable, UNCHANGED <<number, postorder, children, df>> PROVE FALSE
    <2>1. p = "worklist" /\ acc.list = <<>> /\ pc' = "variable"
      BY <1>1, <1>3, <1>9 DEF EndVariable
    <2>2. UNCHANGED <<number, postorder, df, variableList, assigns, ir, blockInfo, lastIteration>>
      BY <1>9 DEF EndVariable
    <2>3. work' = [i |-> i + 1, list |-> work'.list] /\ work'.list = work.list
      BY <1>1, <1>2, <1>9 DEF EndVariable
    <2>4. Acc' = acc
      BY <1>1, <2>2, <2>3 DEF Acc
    <2>5. PICK j : j = i + 1
      OBVIOUS
    <2>6. PlacementOf(acc, j, "variable")
      BY <1>2, <2>1, <2>5, EndKeeps
    <2> QED BY <1>5, <2>1, <2>2, <2>3, <2>4, <2>5, <2>6
  <1>10. ASSUME PlacementDone, UNCHANGED <<number, postorder, children, df>> PROVE FALSE
    <2>1. p = "variable" /\ i = Len(V) /\ pc' = "rename"
      BY <1>1, <1>10 DEF PlacementDone
    <2>2. UNCHANGED <<number, postorder, df, variableList, assigns, ir, blockInfo, lastIteration, work>>
      BY <1>10 DEF PlacementDone, ssaVars
    <2>3. work' = [i |-> i, list |-> work'.list] /\ Acc' = acc
      BY <1>1, <1>2, <2>2 DEF Acc
    <2>4. PlacementOf(acc, i, "rename")
      BY <1>2, <2>1, DoneKeeps
    <2> QED BY <1>5, <2>1, <2>2, <2>3, <2>4
  <1> QED BY <1>6, <1>7, <1>8, <1>9, <1>10 DEF PlacementNext

\* The first register is begun once, in the first state.
AtStart == pc = "variable" /\ work.i = 0 => StartPlacement

LEMMA StartOnce == PlacementInv /\ AtStart /\ [PlacementNext]_placementVars => AtStart'
  <1> SUFFICES ASSUME PlacementInv, AtStart, [PlacementNext]_placementVars PROVE AtStart'
    OBVIOUS
  <1>1. work.i \in Nat /\ work = [i |-> work.i, list |-> work.list]
    <2>1. /\ work.i \in 0..Len(variableList) /\ Tables /\ work = [i |-> work.i, list |-> work.list]
      BY DEF PlacementInv, PlacementOf
    <2>2. Len(variableList) \in Nat
      BY <2>1, Variables
    <2> QED BY <2>1, <2>2
  <1>2. CASE UNCHANGED placementVars
    BY <1>2 DEF AtStart, StartPlacement, placementVars, ssaVars, Numbers, BlockNo, Reached
  <1>3. CASE BeginVariable \/ WorkItem \/ PlacementDone
    <2>1. pc' # "variable"
      BY <1>3 DEF BeginVariable, WorkItem, PlacementDone
    <2> QED BY <2>1 DEF AtStart
  <1>4. CASE EndVariable
    <2>1. work.i' = work.i + 1
      BY <1>1, <1>4 DEF EndVariable
    <2>2. work.i' # 0
      BY <1>1, <2>1
    <2> QED BY <2>2 DEF AtStart
  <1> QED BY <1>2, <1>3, <1>4 DEF PlacementNext

\* What JoinBlocks reads in the IR as it was before the conversion.
SourceKept == \A r \in ToSet(variableList) : Starts(source, r) = Starts(ir, r)

LEMMA SourceStays == PlacementInv /\ SourceKept /\ [PlacementNext]_placementVars => SourceKept'
  <1> SUFFICES ASSUME PlacementInv, SourceKept, [PlacementNext]_placementVars PROVE SourceKept'
    OBVIOUS
  <1>1. CASE UNCHANGED <<ir, source, variableList, assigns>>
    <2>1. SUFFICES ASSUME NEW r \in ToSet(variableList) PROVE (Starts(source, r) = Starts(ir, r))'
      BY <1>1 DEF SourceKept
    <2>2. Starts(source, r)' = Starts(source, r) /\ Starts(ir, r)' = Starts(ir, r)
      BY <1>1 DEF Starts
    <2> QED BY <2>2 DEF SourceKept
  <1>2. CASE UNCHANGED placementVars
    BY <1>1, <1>2 DEF placementVars, ssaVars
  <1>3. CASE BeginVariable \/ EndVariable \/ PlacementDone
    BY <1>1, <1>3 DEF BeginVariable, EndVariable, PlacementDone, ssaVars
  <1>4. CASE WorkItem
    <2>1. PICK acc, i, dataType : acc = Acc /\ i = work.i /\ dataType = DataTypeOf(ir, Head(work.list)[1])
      OBVIOUS
    <2>2. PICK rest : rest = [acc EXCEPT !.list = Tail(@)]
      OBVIOUS
    <2>3. PICK d : d = PlacePhis(rest, df[Head(acc.list)[2]], variableList[i + 1], i, dataType)
      OBVIOUS
    <2>4. acc.ir = ir /\ acc.list = work.list
      BY <2>1 DEF Acc
    <2>5. PlacementOf(acc, i, "worklist") /\ acc.list # <<>>
      BY <1>4, <2>1, <2>4 DEF PlacementInv, WorkItem
    <2>6. SameStarts(acc, PlacePhis(rest, df[Head(acc.list)[2]], variableList[i + 1], i, dataType))
      BY <2>2, <2>5, WorkItemKeeps
    <2>7. rest = [ir |-> ir, blockInfo |-> blockInfo, lastIteration |-> lastIteration, list |-> Tail(work.list)]
      BY <2>1, <2>2 DEF Acc
    <2>8. d = PlacePhis([ir |-> ir, blockInfo |-> blockInfo, lastIteration |-> lastIteration, list |-> Tail(work.list)],
                        df[Head(work.list)[2]], variableList[work.i + 1], work.i, DataTypeOf(ir, Head(work.list)[1]))
      BY <2>1, <2>3, <2>4, <2>7
    <2>9. ir' = d.ir /\ UNCHANGED <<source, variableList, assigns>>
      BY <1>4, <2>8 DEF WorkItem
    <2>10. \A r \in ToSet(variableList) : Starts(d.ir, r) = Starts(source, r)
      BY <2>3, <2>4, <2>6 DEF SameStarts, SourceKept
    <2>11. SUFFICES ASSUME NEW r \in ToSet(variableList) PROVE (Starts(source, r) = Starts(ir, r))'
      BY <2>9 DEF SourceKept
    <2>12. Starts(source, r)' = Starts(source, r) /\ Starts(ir, r)' = Starts(d.ir, r)
      BY <2>9 DEF Starts
    <2> QED BY <2>10, <2>12
  <1> QED BY <1>2, <1>3, <1>4 DEF PlacementNext

\* When the registers are through, each of them but the first has its phis
\* where the comment in ssa_convert wants them.
LEMMA PlacementIsRight == PlacementInv /\ AtStart /\ SourceKept => PhisAtJoinsAfterFirst
  <1> SUFFICES ASSUME PlacementInv, SourceKept, Placed, NEW k \in 2..Len(variableList)
               PROVE  PhiBlocks(variableList[k]) = JoinBlocks(variableList[k])
    BY DEF PhisAtJoinsAfterFirst, AtStart
  <1> DEFINE r == variableList[k]
             X == PhisIn(Acc, r)
             S == Starts(ir, r)
  <1>1. /\ Tables /\ AssignsIn(Acc.ir) /\ work.i = Len(variableList)
        /\ k <= work.i => Complete(X, Starts(Acc.ir, r))
    BY DEF PlacementInv, PlacementOf, Placed
  <1>2. Acc.ir = ir /\ Acc.blockInfo = blockInfo
    BY DEF Acc
  <1>3. Len(variableList) \in Nat /\ r \in ToSet(variableList)
    BY <1>1, Variables
  <1>4. Complete(X, S) /\ S \subseteq Reached
    BY <1>1, <1>2, <1>3, StartsIn
  <1>5. X \subseteq Reached /\ PhiBlocks(r) = X
    BY <1>2 DEF PhisIn, PhiBlocks
  <1>6. JoinBlocks(r) = Closure(Frontier, Frontier(S), Len(postorder))
    <2>1. S = Starts(source, r)
      BY <1>3 DEF SourceKept
    <2> HIDE DEF S
    <2> QED BY <2>1 DEF JoinBlocks, Starts
  <1> HIDE DEF X, S
  <1>7. Closure(Frontier, Frontier(S), Len(postorder)) = X
    BY <1>1, <1>4, <1>5, JoinIs
  <1> QED BY <1>5, <1>6, <1>7

\* In every state of step 2, the registers that are done have their phis exactly
\* on the iterated dominance frontier of their assignments, the worklist of the
\* current one holds every block that still has to be looked at, and those to
\* come have no phi.
THEOREM PlacementInvariant == PlacementSpec => []PlacementInv
  <1>1. StartPlacement => PlacementInv
    BY StartIsPlacement
  <1>2. PlacementInv /\ [PlacementNext]_placementVars => PlacementInv'
    BY PlacementStep
  <1> QED BY <1>1, <1>2, PTL DEF PlacementSpec

\* "When we insert a new phi it is a new assignment. so we need a worklist
\* algorithm" (ssa_convert): when step 2 is over, every register but the first has
\* its phis exactly on the iterated dominance frontier of its assignments.
THEOREM PhisAtJoinsAfterFirstAlways == PlacementSpec => []PhisAtJoinsAfterFirst
  <1>1. StartPlacement => AtStart
    BY DEF AtStart
  <1>2. PlacementInv /\ AtStart /\ [PlacementNext]_placementVars => AtStart'
    BY StartOnce
  <1>3. StartPlacement => SourceKept
    BY DEF StartPlacement, SourceKept
  <1>4. PlacementInv /\ SourceKept /\ [PlacementNext]_placementVars => SourceKept'
    BY SourceStays
  <1>5. PlacementInv /\ AtStart /\ SourceKept => PhisAtJoinsAfterFirst
    BY PlacementIsRight
  <1> QED BY <1>1, <1>2, <1>3, <1>4, <1>5, PlacementInvariant, PTL DEF PlacementSpec

-----------------------------------------------------------------------------
\* Step 1, for the blocks that are done.

\* What the analyses leave: numbered blocks with frontiers among them, whose
\* instructions know their block.
Given ==
    /\ postorder \in Seq(Nat) /\ IsInjective(postorder) /\ postorder # <<>>
    /\ \A n \in Numbers : number[BlockNo(n)] = n
    /\ \A b \in Reached : df[b] \in Seq(Reached)
    /\ IsContext(ir)
    /\ \A b \in Reached : \A k \in 1..Len(ir.block[b]) :
          /\ ir.block[b][k] \in 1..Len(ir.inst)
          /\ ir.inst[ir.block[b][k]].parent = b
          /\ ir.inst[ir.block[b][k]].rId \in Nat
    /\ \A b \in Reached : IsSeq(ir.block[b])

\* The registers that have been found are listed once, and their assignments lie
\* in numbered blocks.
Found(list, as) ==
    /\ list \in Seq(Nat) /\ IsInjective(list)
    /\ \A r \in ToSet(list) :
          /\ as[r] \in Seq(1..Len(ir.inst))
          /\ \A k \in 1..Len(as[r]) : ir.inst[as[r][k]].parent \in Reached

\* The blocks up to the m-th have been analysed.
BlocksDone(info, m) ==
    info = [n \in 0..(m - 1) |-> [loadAssigns |-> info[n].loadAssigns, phiList |-> <<>>, isRenamed |-> info[n].isRenamed]]

AnalyzedInv ==
    /\ Given
    /\ pc = "ssa"
    /\ work = [i |-> 0, list |-> <<>>]
    /\ \E m \in 0..Len(postorder) : BlocksDone(blockInfo, m) /\ (m > 0 => source = ir)
    /\ Found(variableList, assigns)

-----------------------------------------------------------------------------
\* Recursion over the numbers up to n, within a set of values.

Recurs(f, a, step, n) == f = [k \in 0..n |-> IF k = 0 THEN a ELSE step[k][f[k - 1]]]

LEMMA RecursionExists ==
  ASSUME NEW a, NEW step, NEW n \in Nat
  PROVE  \E f : Recurs(f, a, step, n)
  <1> DEFINE next(x, k) == step[k][x]
             P(m) == \E f : f = [k \in 0..m |-> IF k = 0 THEN a ELSE next(f[k - 1], k)]
             T == {m \in Nat : ~P(m)}
  <1>1. SUFFICES ASSUME T # {} PROVE FALSE
    <2>1. P(n)
      <3> HIDE DEF P
      <3> QED BY <1>1
    <2> QED BY <2>1 DEF Recurs
  <1> HIDE DEF next
  <1>2. PICK m \in T : \A y \in T : m <= y
    <2> HIDE DEF T
    <2>1. T \subseteq Nat
      BY DEF T
    <2> QED BY <1>1, <2>1, LeastNumber
  <1>3. m \in Nat /\ ~P(m)
    OBVIOUS
  <1>4. CASE m = 0
    <2> DEFINE f == [k \in 0..0 |-> a]
    <2>1. f = [k \in 0..0 |-> IF k = 0 THEN a ELSE next(f[k - 1], k)]
      OBVIOUS
    <2> HIDE DEF f
    <2>2. P(0)
      BY <2>1
    <2> HIDE DEF P
    <2> QED BY <1>3, <1>4, <2>2
  <1>5. CASE m # 0
    <2>1. m - 1 \in Nat /\ ~(m <= m - 1)
      BY <1>3, <1>5
    <2>2. P(m - 1)
      <3> HIDE DEF P
      <3> QED BY <1>2, <2>1
    <2>3. PICK g : g = [k \in 0..(m - 1) |-> IF k = 0 THEN a ELSE next(g[k - 1], k)]
      BY <2>2
    <2> DEFINE f == [k \in 0..m |-> IF k = m THEN next(g[m - 1], m) ELSE g[k]]
    <2>4. /\ f = [k \in 0..m |-> f[k]] /\ f[m] = next(g[m - 1], m)
          /\ \A k \in 0..(m - 1) : k \in 0..m /\ f[k] = g[k]
      BY <1>3
    <2> HIDE DEF f
    <2>5. \A k \in 0..(m - 1) : g[k] = IF k = 0 THEN a ELSE next(g[k - 1], k)
      BY <2>3
    <2>6. ASSUME NEW k \in 0..m PROVE f[k] = IF k = 0 THEN a ELSE next(f[k - 1], k)
      <3>1. CASE k = m
        <4>1. m - 1 \in 0..(m - 1)
          BY <2>1
        <4>2. f[k - 1] = g[m - 1]
          BY <2>4, <3>1, <4>1
        <4> QED BY <1>5, <2>4, <3>1, <4>2
      <3>2. CASE k # m
        <4>1. k \in 0..(m - 1)
          BY <1>3, <3>2
        <4>2. CASE k = 0
          BY <2>4, <2>5, <4>1, <4>2
        <4>3. CASE k # 0
          <5>1. k - 1 \in 0..(m - 1)
            BY <1>3, <4>1, <4>3
          <5>2. f[k - 1] = g[k - 1] /\ f[k] = g[k]
            BY <2>4, <4>1, <5>1
          <5> QED BY <2>5, <4>1, <4>3, <5>2
        <4> QED BY <4>2, <4>3
      <3> QED BY <3>1, <3>2
    <2>7. f = [k \in 0..m |-> IF k = 0 THEN a ELSE next(f[k - 1], k)]
      BY <2>4, <2>6
    <2>8. P(m)
      BY <2>7
    <2> HIDE DEF P
    <2> QED BY <1>3, <2>8
  <1> QED BY <1>4, <1>5

\* What holds for the first value, and for each from the one before, holds for all.
LEMMA RecursionStays ==
  ASSUME NEW n \in Nat, NEW f, NEW V, f[0] \in V,
         \A k \in 1..n : f[k - 1] \in V => f[k] \in V
  PROVE  \A k \in 0..n : f[k] \in V
  <1> DEFINE T == {k \in 0..n : f[k] \notin V}
  <1>1. SUFFICES ASSUME T # {} PROVE FALSE
    OBVIOUS
  <1>2. PICK m \in T : \A y \in T : m <= y
    <2>1. T \subseteq Nat
      OBVIOUS
    <2> HIDE DEF T
    <2> QED BY <1>1, <2>1, LeastNumber
  <1>3. m \in 0..n /\ m # 0 /\ f[m] \notin V
    OBVIOUS
  <1>4. m - 1 \in 0..n /\ m \in 1..n /\ ~(m <= m - 1)
    BY <1>3
  <1>5. f[m - 1] \in V
    BY <1>2, <1>4
  <1> QED BY <1>3, <1>4, <1>5

-----------------------------------------------------------------------------
\* The operators of step 1.

\* The loads and assignments of a block are instructions of it.
LEMMA LoadsOfBlock ==
  ASSUME NEW b, NEW T, ir.block[b] \in Seq(T)
  PROVE  LoadAssigns(b) \in Seq(T)
  <1> DEFINE code == ir.block[b]
             n == Len(code)
             chosen(k) == ir.inst[code[k]].type \in {"INST_LOAD_VAR", "INST_ASSIGN_VAR"}
             V == Seq(T)
             step == [k \in 1..n |-> [x \in V |-> IF chosen(k) THEN Append(x, code[k]) ELSE x]]
             f == CHOOSE g : g = [k \in 0..n |-> IF k = 0 THEN <<>>
                                    ELSE IF chosen(k) THEN Append(g[k - 1], code[k]) ELSE g[k - 1]]
  <1>1. n \in Nat /\ \A k \in 1..n : code[k] \in T
    OBVIOUS
  <1>2. LoadAssigns(b) = f[n]
    BY DEF LoadAssigns
  <1> HIDE DEF f, code, n, chosen
  <1>3. <<>> \in V
    OBVIOUS
  <1>4. ASSUME NEW k \in 1..n, NEW x \in V PROVE (IF chosen(k) THEN Append(x, code[k]) ELSE x) \in V
    BY <1>1
  <1>5. \A k \in 1..n : \A x \in V : step[k][x] = IF chosen(k) THEN Append(x, code[k]) ELSE x
    <2> HIDE DEF V
    <2> QED OBVIOUS
  <1> HIDE DEF V, step
  <1>6. \E g : g = [k \in 0..n |-> IF k = 0 THEN <<>>
                      ELSE IF chosen(k) THEN Append(g[k - 1], code[k]) ELSE g[k - 1]]
    <2>1. PICK g : Recurs(g, <<>>, step, n)
      BY <1>1, RecursionExists
    <2>2. g = [k \in 0..n |-> IF k = 0 THEN <<>> ELSE step[k][g[k - 1]]]
      BY <2>1 DEF Recurs
    <2>3. g[0] = <<>> /\ \A k \in 1..n : k \in 0..n /\ g[k] = step[k][g[k - 1]]
      <3>1. 0 \in 0..n /\ \A k \in 1..n : k \in 0..n /\ k # 0
        BY <1>1
      <3> QED BY <2>2, <3>1
    <2>4. \A k \in 0..n : g[k] \in V
      <3>1. \A k \in 1..n : g[k - 1] \in V => g[k] \in V
        BY <1>4, <1>5, <2>3
      <3> QED BY <1>1, <1>3, <2>3, <3>1, RecursionStays
    <2>5. ASSUME NEW k \in 0..n
          PROVE  g[k] = IF k = 0 THEN <<>> ELSE IF chosen(k) THEN Append(g[k - 1], code[k]) ELSE g[k - 1]
      <3>1. CASE k = 0
        BY <2>3, <3>1
      <3>2. CASE k # 0
        <4>1. k \in 1..n /\ k - 1 \in 0..n
          BY <1>1, <3>2
        <4> QED BY <1>5, <2>3, <2>4, <3>2, <4>1
      <3> QED BY <3>1, <3>2
    <2>6. g = [k \in 0..n |-> g[k]]
      BY <2>2
    <2> QED BY <2>5, <2>6
  <1>7. f = [k \in 0..n |-> IF k = 0 THEN <<>>
                      ELSE IF chosen(k) THEN Append(f[k - 1], code[k]) ELSE f[k - 1]]
    BY <1>6 DEF f
  <1>8. f[0] = <<>> /\ \A k \in 1..n : f[k] = IF chosen(k) THEN Append(f[k - 1], code[k]) ELSE f[k - 1]
    <2>1. 0 \in 0..n /\ \A k \in 1..n : k \in 0..n /\ k # 0
      BY <1>1
    <2> QED BY <1>7, <2>1
  <1>9. \A k \in 0..n : f[k] \in V
    <2>1. \A k \in 1..n : f[k - 1] \in V => f[k] \in V
      BY <1>4, <1>8
    <2> QED BY <1>1, <1>3, <1>8, <2>1, RecursionStays
  <1>10. n \in 0..n
    BY <1>1
  <1> QED BY <1>2, <1>9, <1>10 DEF V

\* A list without repetitions stays so when something else is added.
LEMMA InjectiveAppend ==
  ASSUME NEW list \in Seq(Nat), IsInjective(list), NEW r \in Nat, ~Contains(list, r)
  PROVE  Append(list, r) \in Seq(Nat) /\ IsInjective(Append(list, r))
  <1> DEFINE l == Append(list, r)
             n == Len(list)
  <1>1. /\ n \in Nat /\ DOMAIN list = 1..n /\ l \in Seq(Nat) /\ DOMAIN l = 1..(n + 1)
        /\ l[n + 1] = r /\ \A k \in 1..n : l[k] = list[k]
    OBVIOUS
  <1>2. \A k \in 1..n : list[k] # r
    BY <1>1 DEF Contains
  <1>3. \A j, k \in 1..n : list[j] = list[k] => j = k
    BY <1>1 DEF IsInjective
  <1> HIDE DEF l, n
  <1>4. ASSUME NEW j \in 1..(n + 1), NEW k \in 1..(n + 1), l[j] = l[k] PROVE j = k
    <2>1. (j \in 1..n \/ j = n + 1) /\ (k \in 1..n \/ k = n + 1)
      BY <1>1
    <2> QED BY <1>1, <1>2, <1>3, <1>4, <2>1
  <1> QED BY <1>1, <1>4 DEF IsInjective, l

\* The list of registers still holds each of them once.
LEMMA RegistersListed ==
  ASSUME NEW list \in Seq(Nat), IsInjective(list), NEW insts, Len(insts) \in Nat,
         \A k \in 1..Len(insts) : ir.inst[insts[k]].rId \in Nat
  PROVE  WithRegisters(list, insts) \in Seq(Nat) /\ IsInjective(WithRegisters(list, insts))
  <1> DEFINE n == Len(insts)
             r(k) == ir.inst[insts[k]].rId
             V == {x \in Seq(Nat) : IsInjective(x)}
             next(x, k) == IF Contains(x, r(k)) THEN x ELSE Append(x, r(k))
             step == [k \in 1..n |-> [x \in V |-> next(x, k)]]
             f == CHOOSE g : g = [k \in 0..n |-> IF k = 0 THEN list ELSE next(g[k - 1], k)]
  <1>1. n \in Nat /\ \A k \in 1..n : r(k) \in Nat
    OBVIOUS
  <1>2. WithRegisters(list, insts) = f[n]
    BY DEF WithRegisters
  <1>3. list \in V
    OBVIOUS
  <1> HIDE DEF f, n, r
  <1>4. ASSUME NEW k \in 1..n, NEW x \in V PROVE next(x, k) \in V
    <2>1. x \in Seq(Nat) /\ IsInjective(x) /\ r(k) \in Nat
      BY <1>1
    <2>2. CASE Contains(x, r(k))
      BY <2>2
    <2>3. CASE ~Contains(x, r(k))
      BY <2>1, <2>3, InjectiveAppend
    <2> QED BY <2>2, <2>3
  <1> HIDE DEF next
  <1>5. \A k \in 1..n : \A x \in V : step[k][x] = next(x, k)
    <2> HIDE DEF V
    <2> QED OBVIOUS
  <1> HIDE DEF V, step
  <1>6. \E g : g = [k \in 0..n |-> IF k = 0 THEN list ELSE next(g[k - 1], k)]
    <2>1. PICK g : Recurs(g, list, step, n)
      BY <1>1, RecursionExists
    <2>2. g = [k \in 0..n |-> IF k = 0 THEN list ELSE step[k][g[k - 1]]]
      BY <2>1 DEF Recurs
    <2>3. g[0] = list /\ \A k \in 1..n : k \in 0..n /\ g[k] = step[k][g[k - 1]]
      <3>1. 0 \in 0..n /\ \A k \in 1..n : k \in 0..n /\ k # 0
        BY <1>1
      <3> QED BY <2>2, <3>1
    <2>4. \A k \in 0..n : g[k] \in V
      <3>1. \A k \in 1..n : g[k - 1] \in V => g[k] \in V
        BY <1>4, <1>5, <2>3
      <3> QED BY <1>1, <1>3, <2>3, <3>1, RecursionStays
    <2>5. ASSUME NEW k \in 0..n PROVE g[k] = IF k = 0 THEN list ELSE next(g[k - 1], k)
      <3>1. CASE k = 0
        BY <2>3, <3>1
      <3>2. CASE k # 0
        <4>1. k \in 1..n /\ k - 1 \in 0..n
          BY <1>1, <3>2
        <4> QED BY <1>5, <2>3, <2>4, <3>2, <4>1
      <3> QED BY <3>1, <3>2
    <2>6. g = [k \in 0..n |-> g[k]]
      BY <2>2
    <2> QED BY <2>5, <2>6
  <1>7. f = [k \in 0..n |-> IF k = 0 THEN list ELSE next(f[k - 1], k)]
    BY <1>6 DEF f
  <1>8. f[0] = list /\ \A k \in 1..n : f[k] = next(f[k - 1], k)
    <2>1. 0 \in 0..n /\ \A k \in 1..n : k \in 0..n /\ k # 0
      BY <1>1
    <2> QED BY <1>7, <2>1
  <1>9. \A k \in 0..n : f[k] \in V
    <2>1. \A k \in 1..n : f[k - 1] \in V => f[k] \in V
      BY <1>4, <1>8
    <2> QED BY <1>1, <1>3, <1>8, <2>1, RecursionStays
  <1>10. n \in 0..n
    BY <1>1
  <1> QED BY <1>2, <1>9, <1>10 DEF V

\* The last assignment of a register is one of the instructions.
LEMMA LastAssigned ==
  ASSUME NEW T, NEW insts \in Seq(T), NEW r
  PROVE  LastAssign(insts, r) \in Seq(T)
  <1> DEFINE n == Len(insts)
             of == {k \in DOMAIN insts : ir.inst[insts[k]].type = "INST_ASSIGN_VAR" /\ ir.inst[insts[k]].rId = r}
  <1>1. n \in Nat /\ of \subseteq 1..n /\ \A k \in 1..n : insts[k] \in T
    OBVIOUS
  <1>2. LastAssign(insts, r) = IF of = {} THEN <<>> ELSE <<insts[Max(of)]>>
    BY DEF LastAssign
  <1> HIDE DEF of, n
  <1>3. CASE of = {}
    BY <1>2, <1>3
  <1>4. CASE of # {}
    <2> DEFINE U == {m \in Nat : \A k \in of : k <= m}
    <2>1. n \in U
      BY <1>1
    <2>2. PICK m \in U : \A y \in U : m <= y
      <3>1. U \subseteq Nat /\ U # {}
        BY <2>1
      <3> HIDE DEF U
      <3> QED BY <3>1, LeastNumber
    <2>3. m \in of
      <3>1. SUFFICES ASSUME m \notin of PROVE FALSE
        OBVIOUS
      <3>2. PICK k0 \in of : TRUE
        BY <1>4
      <3>3. k0 \in 1..n /\ k0 <= m /\ m \in Nat
        BY <1>1, <3>2
      <3>4. m - 1 \in Nat /\ ~(m <= m - 1)
        BY <1>1, <3>3
      <3>5. \A k \in of : k <= m - 1
        BY <1>1, <3>1, <3>3
      <3> QED BY <2>2, <3>4, <3>5
    <2>4. \A y \in of : m >= y
      OBVIOUS
    <2>5. Max(of) \in of
      BY <2>3, <2>4 DEF Max
    <2>6. insts[Max(of)] \in T
      BY <1>1, <2>5
    <2> QED BY <1>2, <1>4, <2>6
  <1> QED BY <1>3, <1>4

-----------------------------------------------------------------------------
\* The steps of step 1.

\* The numbers up to m are m numbers.
LEMMA NumbersUpTo ==
  ASSUME NEW m \in Nat
  PROVE  Cardinality(0..(m - 1)) = m
  <1>1. m - 1 \in Int /\ 0 \in Int
    OBVIOUS
  <1>2. Cardinality(0..(m - 1)) = IF 0 > m - 1 THEN 0 ELSE (m - 1) - 0 + 1
    BY <1>1, FS_Interval
  <1> QED BY <1>2

LEMMA SeqOfSome ==
  ASSUME NEW S, NEW T, NEW s \in Seq(S), \A k \in 1..Len(s) : s[k] \in S => s[k] \in T
  PROVE  s \in Seq(T) /\ \A k \in 1..Len(s) : s[k] \in T
  <1>1. Len(s) \in Nat /\ s = [k \in 1..Len(s) |-> s[k]] /\ \A k \in 1..Len(s) : s[k] \in S
    OBVIOUS
  <1>2. s \in [1..Len(s) -> T]
    BY <1>1
  <1> QED BY <1>1, <1>2

LEMMA AnalyzedInit == Given /\ pc = "ssa" /\ InitSsa => AnalyzedInv
  <1> SUFFICES ASSUME Given, pc = "ssa", InitSsa PROVE AnalyzedInv
    OBVIOUS
  <1>1. BlocksDone(blockInfo, 0)
    BY DEF InitSsa, BlocksDone
  <1>2. 0 \in 0..Len(postorder) /\ ~(0 > 0)
    BY DEF Given
  <1>3. Found(variableList, assigns)
    BY DEF InitSsa, Found, IsInjective, ToSet
  <1> QED BY <1>1, <1>2, <1>3 DEF AnalyzedInv, InitSsa

\* The registers after one more block.
More(ms, l, list, as, insts) ==
    ms = [r \in ToSet(l) |-> (IF Contains(list, r) THEN as[r] ELSE <<>>) \o LastAssign(insts, r)]

LEMMA FoundMore ==
  ASSUME Given, NEW list, NEW as, Found(list, as), NEW b \in Reached,
         NEW insts, insts = LoadAssigns(b), NEW l, l = WithRegisters(list, insts),
         NEW ms, More(ms, l, list, as, insts)
  PROVE  Found(l, ms)
  <1> DEFINE T == {i \in 1..Len(ir.inst) : ir.inst[i].parent = b /\ ir.inst[i].rId \in Nat}
  <1>1. ir.block[b] \in Seq(T)
    <2> DEFINE code == ir.block[b]
    <2>1. IsSeq(code) /\ \A k \in 1..Len(code) : code[k] \in T
      BY DEF Given
    <2> HIDE DEF code, T
    <2>2. Len(code) \in Nat /\ code \in Seq(ToSet(code)) /\ ToSet(code) \subseteq T
      BY <2>1, ToSetIs DEF IsSeq
    <2>3. code \in Seq(T)
      BY <2>2
    <2> QED BY <2>3 DEF code
  <1>2. insts \in Seq(T)
    <2> HIDE DEF T
    <2> QED BY <1>1, LoadsOfBlock
  <1>3. Len(insts) \in Nat /\ \A k \in 1..Len(insts) : ir.inst[insts[k]].rId \in Nat
    BY <1>2
  <1>4. l \in Seq(Nat) /\ IsInjective(l)
    BY <1>3, RegistersListed DEF Found
  <1>5. ASSUME NEW r \in ToSet(l)
        PROVE  /\ ms[r] \in Seq(1..Len(ir.inst))
               /\ \A k \in 1..Len(ms[r]) : ir.inst[ms[r][k]].parent \in Reached
    <2> DEFINE P == {i \in 1..Len(ir.inst) : ir.inst[i].parent \in Reached}
               old == IF Contains(list, r) THEN as[r] ELSE <<>>
               new == LastAssign(insts, r)
    <2>1. ms[r] = old \o new
      BY <1>5 DEF More
    <2>2. new \in Seq(P)
      <3>1. insts \in Seq(P)
        <4>1. T \subseteq P
          OBVIOUS
        <4> HIDE DEF T, P
        <4> QED BY <1>2, <4>1
      <3> HIDE DEF P
      <3> QED BY <3>1, LastAssigned
    <2>3. old \in Seq(P)
      <3>1. CASE Contains(list, r)
        <4>1. r \in ToSet(list)
          BY <3>1 DEF Contains, ToSet
        <4>2. as[r] \in Seq(1..Len(ir.inst)) /\ \A k \in 1..Len(as[r]) : ir.inst[as[r][k]].parent \in Reached
          BY <4>1 DEF Found
        <4>3. \A k \in 1..Len(as[r]) : as[r][k] \in 1..Len(ir.inst) => as[r][k] \in P
          BY <4>2
        <4> HIDE DEF P
        <4>4. as[r] \in Seq(P)
          BY <4>2, <4>3, SeqOfSome
        <4> QED BY <3>1, <4>4
      <3>2. CASE ~Contains(list, r)
        BY <3>2
      <3> QED BY <3>1, <3>2
    <2> HIDE DEF old, new
    <2>4. old \o new \in Seq(P)
      <3> HIDE DEF P
      <3> QED BY <2>2, <2>3
    <2> DEFINE s == old \o new
    <2>5. s \in Seq(P)
      BY <2>4
    <2> HIDE DEF s
    <2>6. s \in Seq(1..Len(ir.inst)) /\ \A k \in 1..Len(s) : s[k] \in P
      <3>1. \A x \in P : x \in 1..Len(ir.inst)
        OBVIOUS
      <3>2. \A k \in 1..Len(s) : s[k] \in P
        <4> HIDE DEF P
        <4> QED BY <2>5
      <3> HIDE DEF P
      <3> QED BY <2>5, <3>1, <3>2, SeqOfSome
    <2> QED BY <2>1, <2>6 DEF s
  <1> QED BY <1>4, <1>5 DEF Found

LEMMA AnalyzeKeeps ==
  ASSUME AnalyzedInv, AnalyzeBlock, UNCHANGED <<number, postorder, df>>
  PROVE  AnalyzedInv'
  <1>1. PICK m \in 0..Len(postorder) : BlocksDone(blockInfo, m)
    BY DEF AnalyzedInv
  <1>2. Len(postorder) \in Nat /\ m \in Nat
    BY DEF AnalyzedInv, Given
  <1>3. DOMAIN blockInfo = 0..(m - 1)
    BY <1>1 DEF BlocksDone
  <1>4. Cardinality(DOMAIN blockInfo) = m
    BY <1>2, <1>3, NumbersUpTo
  <1> DEFINE insts == LoadAssigns(BlockNo(m))
             l == WithRegisters(variableList, insts)
  <1>5. /\ m \in Numbers /\ pc = "ssa"
        /\ blockInfo' = [n \in 0..m |-> IF n = m THEN [loadAssigns |-> insts, phiList |-> <<>>, isRenamed |-> FALSE]
                                        ELSE blockInfo[n]]
        /\ variableList' = l
        /\ assigns' = [r \in ToSet(l) |->
                         (IF Contains(variableList, r) THEN assigns[r] ELSE <<>>) \o LastAssign(insts, r)]
        /\ source' = ir
        /\ UNCHANGED <<ir, pc, work>>
    BY <1>4 DEF AnalyzeBlock
  <1>6. PICK is, list : is = insts /\ list = l
    OBVIOUS
  <1>7. Found(list, assigns')
    <2>1. BlockNo(m) \in Reached
      <3>1. m + 1 \in DOMAIN postorder
        BY <1>2, <1>5 DEF Numbers, AnalyzedInv, Given
      <3> QED BY <3>1 DEF BlockNo, Reached, ToSet
    <2>2. PICK b : b = BlockNo(m)
      OBVIOUS
    <2>3. is = LoadAssigns(b) /\ list = WithRegisters(variableList, is)
      BY <1>6, <2>2
    <2>4. More(assigns', list, variableList, assigns, is)
      BY <1>5, <1>6 DEF More
    <2>5. PICK ms : ms = assigns'
      OBVIOUS
    <2>6. Given /\ Found(variableList, assigns) /\ b \in Reached
      BY <2>1, <2>2 DEF AnalyzedInv
    <2> HIDE DEF insts, l
    <2>7. Found(list, ms)
      BY <2>3, <2>4, <2>5, <2>6, FoundMore
    <2> QED BY <2>5, <2>7
  <1>8. Found(variableList, assigns)'
    BY <1>5, <1>6, <1>7 DEF Found, Reached
  <1>9. Given'
    BY <1>5 DEF AnalyzedInv, Given, Numbers, BlockNo, Reached, IsContext, IsSeq
  <1>10. BlocksDone(blockInfo', m + 1)
    <2>1. (m + 1) - 1 = m
      BY <1>2
    <2>2. \A n \in 0..m : blockInfo'[n] = [loadAssigns |-> blockInfo'[n].loadAssigns, phiList |-> <<>>, isRenamed |-> blockInfo'[n].isRenamed]
      <3> SUFFICES ASSUME NEW n \in 0..m
                   PROVE  blockInfo'[n] = [loadAssigns |-> blockInfo'[n].loadAssigns, phiList |-> <<>>, isRenamed |-> blockInfo'[n].isRenamed]
        OBVIOUS
      <3>1. CASE n = m
        <4>1. blockInfo'[n] = [loadAssigns |-> insts, phiList |-> <<>>, isRenamed |-> FALSE]
          BY <1>5, <3>1
        <4> HIDE DEF insts
        <4> QED BY <4>1
      <3>2. CASE n # m
        <4>1. n \in 0..(m - 1)
          BY <1>2, <3>2
        <4>2. blockInfo'[n] = blockInfo[n]
          BY <1>5, <3>2
        <4> QED BY <1>1, <4>1, <4>2 DEF BlocksDone
      <3> QED BY <3>1, <3>2
    <2>3. blockInfo' = [n \in 0..m |-> blockInfo'[n]]
      BY <1>5
    <2> QED BY <2>1, <2>2, <2>3 DEF BlocksDone
  <1>11. m + 1 \in 0..Len(postorder)
    BY <1>2, <1>5 DEF Numbers
  <1>12. Len(postorder)' = Len(postorder) /\ source' = ir' /\ pc' = "ssa" /\ work' = work
    BY <1>5
  <1>13. work' = [i |-> 0, list |-> <<>>]
    BY <1>12 DEF AnalyzedInv
  <1>14. \E j \in 0..Len(postorder') : BlocksDone(blockInfo', j) /\ (j > 0 => source' = ir')
    BY <1>10, <1>11, <1>12
  <1> QED BY <1>8, <1>9, <1>12, <1>13, <1>14 DEF AnalyzedInv, BlocksDone

LEMMA AnalysisLeaves ==
  ASSUME AnalyzedInv, AnalysisDone, UNCHANGED <<number, postorder, df>>
  PROVE  StartPlacement'
  <1>1. /\ pc' = "variable" /\ DOMAIN blockInfo = Numbers /\ lastIteration' = [n \in Numbers |-> 0]
        /\ UNCHANGED <<ir, source, blockInfo, variableList, assigns, work>>
    BY DEF AnalysisDone
  <1>2. PICK m \in 0..Len(postorder) : BlocksDone(blockInfo, m) /\ (m > 0 => source = ir)
    BY DEF AnalyzedInv
  <1>3. Len(postorder) \in Nat \ {0}
    BY DEF AnalyzedInv, Given
  <1>4. m = Len(postorder) /\ 0..(m - 1) = Numbers
    <2>1. 0..(m - 1) = 0..(Len(postorder) - 1)
      BY <1>1, <1>2 DEF BlocksDone, Numbers
    <2>2. Len(postorder) - 1 \in 0..(m - 1)
      BY <1>3, <2>1
    <2> QED BY <1>3, <2>1, <2>2 DEF Numbers
  <1>5. blockInfo = [n \in Numbers |-> [loadAssigns |-> blockInfo[n].loadAssigns, phiList |-> <<>>,
                                       isRenamed |-> blockInfo[n].isRenamed]]
    BY <1>2, <1>4 DEF BlocksDone
  <1>6. source = ir
    BY <1>2, <1>3, <1>4
  <1>7. \A r \in ToSet(variableList) :
          /\ assigns[r] \in Seq(DOMAIN ir.inst)
          /\ \A i \in ToSet(assigns[r]) : ir.inst[i].parent \in Reached
    <2> SUFFICES ASSUME NEW r \in ToSet(variableList)
                 PROVE  /\ assigns[r] \in Seq(DOMAIN ir.inst)
                        /\ \A i \in ToSet(assigns[r]) : ir.inst[i].parent \in Reached
      OBVIOUS
    <2>1. assigns[r] \in Seq(1..Len(ir.inst)) /\ \A k \in 1..Len(assigns[r]) : ir.inst[assigns[r][k]].parent \in Reached
      BY DEF AnalyzedInv, Found
    <2>2. DOMAIN ir.inst = 1..Len(ir.inst)
      BY ToSetIs DEF AnalyzedInv, Given, IsContext
    <2>3. \A i \in ToSet(assigns[r]) : \E k \in 1..Len(assigns[r]) : assigns[r][k] = i
      BY <2>1 DEF ToSet
    <2> QED BY <2>1, <2>2, <2>3
  <1>8. /\ postorder \in Seq(Nat) /\ IsInjective(postorder)
        /\ \A n \in Numbers : number[BlockNo(n)] = n
        /\ \A b \in Reached : df[b] \in Seq(Reached)
        /\ ir = [inst |-> ir.inst, block |-> ir.block, consts |-> ir.consts, uses |-> ir.uses]
        /\ ir.inst \in Seq(ToSet(ir.inst))
    BY DEF AnalyzedInv, Given, IsContext, IsSeq
  <1>9. work = [i |-> 0, list |-> <<>>] /\ variableList \in Seq(Nat) /\ IsInjective(variableList)
    BY DEF AnalyzedInv, Found
  <1>10. Reached' = Reached /\ Numbers' = Numbers /\ \A n : BlockNo(n)' = BlockNo(n)
    BY DEF Reached, Numbers, BlockNo
  <1>11. (blockInfo = [n \in Numbers |-> [loadAssigns |-> blockInfo[n].loadAssigns, phiList |-> <<>>,
                                          isRenamed |-> blockInfo[n].isRenamed]])'
    BY <1>1, <1>5, <1>10
  <1>12. (lastIteration = [n \in Numbers |-> 0])'
    BY <1>1, <1>10
  <1>13. (\A n \in Numbers : number[BlockNo(n)] = n)'
    BY <1>8, <1>10 DEF BlockNo
  <1> QED BY <1>1, <1>6, <1>7, <1>8, <1>9, <1>10, <1>11, <1>12, <1>13 DEF StartPlacement

-----------------------------------------------------------------------------
\* The whole conversion.

\* The phis as step 3 finds them, which only marks the blocks it has been to.
PhisPlaced ==
    /\ \A b \in Reached : number[b] \in Numbers
    /\ blockInfo = [n \in Numbers |-> [loadAssigns |-> blockInfo[n].loadAssigns, phiList |-> blockInfo[n].phiList,
                                       isRenamed |-> blockInfo[n].isRenamed]]
    /\ \A k \in 2..Len(variableList) : PhiBlocks(variableList[k]) = JoinBlocks(variableList[k])

ConversionInv ==
    \/ pc = "ssa" /\ AnalyzedInv
    \/ pc \in {"variable", "worklist"} /\ PlacementInv /\ AtStart /\ SourceKept
    \/ pc = "rename" /\ PhisPlaced
    \/ pc \in {"abort", "cleanup", "done"}

LEMMA ConversionPlacesPhis == ConversionInv => PhisAtJoinsAfterFirst
  BY DEF ConversionInv, AtStart, PhisPlaced, PhisAtJoinsAfterFirst, Placed

\* Step 2 ends with the phis where they belong.
LEMMA PlacementLeaves ==
  ASSUME PlacementInv, AtStart, SourceKept, PlacementDone, UNCHANGED <<number, postorder, children, df>>
  PROVE  PhisPlaced'
  <1>1. PlacementInv' /\ AtStart' /\ SourceKept'
    BY PlacementStep, StartOnce, SourceStays DEF PlacementNext
  <1>2. (PlacementInv /\ AtStart /\ SourceKept => PhisAtJoinsAfterFirst)'
    BY PlacementIsRight, PTL
  <1>3. (\A k \in 2..Len(variableList) : PhiBlocks(variableList[k]) = JoinBlocks(variableList[k]))'
    BY <1>1, <1>2 DEF PlacementDone, PhisAtJoinsAfterFirst, Placed
  <1>4. Tables /\ IsAcc(Acc)
    BY DEF PlacementInv, PlacementOf
  <1>5. \A b \in Reached : number[b] \in Numbers
    BY <1>4, NumberOf
  <1>6. blockInfo = [n \in Numbers |-> [loadAssigns |-> blockInfo[n].loadAssigns, phiList |-> blockInfo[n].phiList,
                                        isRenamed |-> blockInfo[n].isRenamed]]
    <2>1. Acc.blockInfo = blockInfo
      BY DEF Acc
    <2> QED BY <1>4, <2>1 DEF IsAcc
  <1>7. blockInfo' = blockInfo /\ number' = number /\ Reached' = Reached /\ Numbers' = Numbers
    BY DEF PlacementDone, ssaVars, Reached, Numbers
  <1> QED BY <1>3, <1>5, <1>6, <1>7 DEF PhisPlaced

\* Step 3 moves no phi to another block.
LEMMA RenamingKeeps ==
  ASSUME PhisPlaced, UNCHANGED <<number, postorder, df, source, variableList, assigns>>,
         \/ UNCHANGED blockInfo
         \/ \E n : blockInfo' = [blockInfo EXCEPT ![n].isRenamed = TRUE]
  PROVE  PhisPlaced'
  <1> DEFINE info == blockInfo
             after == blockInfo'
  <1>1. info = [n \in Numbers |-> [loadAssigns |-> info[n].loadAssigns, phiList |-> info[n].phiList,
                                   isRenamed |-> info[n].isRenamed]]
    BY DEF PhisPlaced
  <1>2. /\ after = [n \in Numbers |-> [loadAssigns |-> after[n].loadAssigns, phiList |-> after[n].phiList,
                                       isRenamed |-> after[n].isRenamed]]
        /\ \A n \in Numbers : after[n].phiList = info[n].phiList
    <2>1. CASE UNCHANGED blockInfo
      BY <1>1, <2>1
    <2>2. CASE \E n : blockInfo' = [blockInfo EXCEPT ![n].isRenamed = TRUE]
      <3>1. PICK m : after = [info EXCEPT ![m].isRenamed = TRUE]
        BY <2>2
      <3>2. DOMAIN info = Numbers
        BY <1>1
      <3>3. after = [n \in Numbers |-> IF n = m THEN [info[m] EXCEPT !.isRenamed = TRUE] ELSE info[n]]
        BY <3>1, <3>2
      <3>4. ASSUME NEW n \in Numbers
            PROVE  /\ after[n] = [loadAssigns |-> after[n].loadAssigns, phiList |-> after[n].phiList,
                                  isRenamed |-> after[n].isRenamed]
                   /\ after[n].phiList = info[n].phiList
        <4>1. PICK x : x = info[n]
          OBVIOUS
        <4>2. x = [loadAssigns |-> x.loadAssigns, phiList |-> x.phiList, isRenamed |-> x.isRenamed]
          BY <1>1, <4>1
        <4>3. PICK y : y = after[n]
          OBVIOUS
        <4>4. y = x \/ y = [x EXCEPT !.isRenamed = TRUE]
          BY <3>3, <4>1, <4>3
        <4> HIDE DEF info, after
        <4>5. /\ y = [loadAssigns |-> y.loadAssigns, phiList |-> y.phiList, isRenamed |-> y.isRenamed]
              /\ y.phiList = x.phiList
          BY <4>2, <4>4
        <4> QED BY <4>1, <4>3, <4>5
      <3>5. after = [n \in Numbers |-> after[n]]
        BY <3>3
      <3> HIDE DEF info, after
      <3> QED BY <3>4, <3>5
    <2> QED BY <2>1, <2>2
  <1>3. /\ number' = number /\ Reached' = Reached /\ Numbers' = Numbers
    BY DEF Reached, Numbers
  <1>4. \A b \in Reached : number[b] \in Numbers
    BY DEF PhisPlaced
  <1>5. ASSUME NEW k \in 2..Len(variableList)
        PROVE  (PhiBlocks(variableList[k]) = JoinBlocks(variableList[k]))'
    <2>1. PICK r : r = variableList[k]
      OBVIOUS
    <2>2. variableList'[k] = r
      BY <2>1
    <2>3. JoinBlocks(r)' = JoinBlocks(r)
      BY DEF JoinBlocks, Frontier, Closure
    <2>4. ASSUME NEW b \in Reached
          PROVE  HasPhi(after[number[b]], r) <=> HasPhi(info[number[b]], r)
      BY <1>2, <1>4 DEF HasPhi
    <2>5. PhiBlocks(r)' = PhiBlocks(r)
      BY <1>3, <2>4 DEF PhiBlocks
    <2>6. PhiBlocks(r) = JoinBlocks(r)
      BY <2>1 DEF PhisPlaced
    <2> QED BY <2>2, <2>3, <2>5, <2>6
  <1> QED BY <1>2, <1>3, <1>4, <1>5 DEF PhisPlaced

LEMMA ConversionStep ==
  ASSUME ConversionInv, (Next /\ UNCHANGED <<number, postorder, children, df>>) \/ UNCHANGED placementVars
  PROVE  ConversionInv'
  <1>1. CASE AnalyzeBlock /\ UNCHANGED <<number, postorder, children, df>>
    <2>1. AnalyzedInv /\ pc' = "ssa"
      BY <1>1 DEF ConversionInv, AnalyzeBlock
    <2> QED BY <1>1, <2>1, AnalyzeKeeps DEF ConversionInv
  <1>2. CASE AnalysisDone /\ UNCHANGED <<number, postorder, children, df>>
    <2>1. AnalyzedInv /\ pc' = "variable"
      BY <1>2 DEF ConversionInv, AnalysisDone
    <2>2. StartPlacement'
      BY <1>2, <2>1, AnalysisLeaves
    <2>3. (StartPlacement => PlacementInv)'
      BY StartIsPlacement, PTL
    <2>4. AtStart' /\ SourceKept'
      BY <2>2 DEF AtStart, SourceKept, StartPlacement
    <2> QED BY <2>1, <2>2, <2>3, <2>4 DEF ConversionInv
  <1>3. CASE (BeginVariable \/ WorkItem \/ EndVariable) /\ UNCHANGED <<number, postorder, children, df>>
    <2>1. PlacementInv /\ AtStart /\ SourceKept /\ pc' \in {"variable", "worklist"}
      BY <1>3 DEF ConversionInv, BeginVariable, WorkItem, EndVariable
    <2>2. PlacementInv' /\ AtStart' /\ SourceKept'
      BY <1>3, <2>1, PlacementStep, StartOnce, SourceStays DEF PlacementNext
    <2> QED BY <2>1, <2>2 DEF ConversionInv
  <1>4. CASE PlacementDone /\ UNCHANGED <<number, postorder, children, df>>
    <2>1. PlacementInv /\ AtStart /\ SourceKept /\ pc' = "rename"
      BY <1>4 DEF ConversionInv, PlacementDone
    <2> QED BY <1>4, <2>1, PlacementLeaves DEF ConversionInv
  <1>5. CASE (RenameEntry \/ RenameChild \/ RenameReturn) /\ UNCHANGED <<number, postorder, children, df>>
    <2>1. PhisPlaced /\ pc' \in {"rename", "abort", "cleanup"}
      BY <1>5 DEF ConversionInv, RenameEntry, RenameChild, RenameReturn, Rename
    <2>2. /\ UNCHANGED <<source, variableList, assigns>>
          /\ UNCHANGED blockInfo \/ \E n : blockInfo' = [blockInfo EXCEPT ![n].isRenamed = TRUE]
      BY <1>5 DEF RenameEntry, RenameChild, RenameReturn, Rename
    <2>3. PhisPlaced'
      BY <1>5, <2>1, <2>2, RenamingKeeps
    <2> QED BY <2>1, <2>3 DEF ConversionInv
  <1>6. CASE Cleanup /\ UNCHANGED <<number, postorder, children, df>>
    BY <1>6 DEF ConversionInv, Cleanup
  <1>7. CASE UNCHANGED placementVars
    <2>1. /\ UNCHANGED <<number, postorder, df, ir, source, pc, variableList, assigns, blockInfo, work>>
          /\ [PlacementNext]_placementVars
      BY <1>7 DEF placementVars, ssaVars
    <2>2. CASE AnalyzedInv
      <3>1. Reached' = Reached /\ Numbers' = Numbers /\ \A n : BlockNo(n)' = BlockNo(n)
        BY <2>1 DEF Reached, Numbers, BlockNo
      <3>2. Given'
        <4>1. (\A n \in Numbers : number[BlockNo(n)] = n)'
          BY <2>1, <2>2, <3>1 DEF AnalyzedInv, Given, BlockNo
        <4>2. (\A b \in Reached : df[b] \in Seq(Reached))'
          BY <2>1, <2>2, <3>1 DEF AnalyzedInv, Given
        <4>3. (postorder \in Seq(Nat) /\ IsInjective(postorder) /\ postorder # <<>> /\ IsContext(ir))'
          BY <2>1, <2>2 DEF AnalyzedInv, Given
        <4>4. (/\ \A b \in Reached : \A k \in 1..Len(ir.block[b]) :
                    /\ ir.block[b][k] \in 1..Len(ir.inst)
                    /\ ir.inst[ir.block[b][k]].parent = b
                    /\ ir.inst[ir.block[b][k]].rId \in Nat
               /\ \A b \in Reached : IsSeq(ir.block[b]))'
          BY <2>1, <2>2, <3>1 DEF AnalyzedInv, Given
        <4> QED BY <4>1, <4>2, <4>3, <4>4 DEF Given
      <3>3. Found(variableList, assigns)'
        BY <2>1, <2>2, <3>1 DEF AnalyzedInv, Found
      <3>4. (\E m \in 0..Len(postorder) : BlocksDone(blockInfo, m) /\ (m > 0 => source = ir))'
        BY <2>1, <2>2 DEF AnalyzedInv
      <3>5. AnalyzedInv'
        BY <2>1, <2>2, <3>2, <3>3, <3>4 DEF AnalyzedInv
      <3> QED BY <3>5 DEF ConversionInv, AnalyzedInv
    <2>3. CASE pc \in {"variable", "worklist"} /\ PlacementInv /\ AtStart /\ SourceKept
      <3>1. PlacementInv' /\ AtStart' /\ SourceKept'
        BY <2>1, <2>3, PlacementStep, StartOnce, SourceStays
      <3> QED BY <2>1, <2>3, <3>1 DEF ConversionInv
    <2>4. CASE pc = "rename" /\ PhisPlaced
      <3>1. PhisPlaced'
        BY <2>1, <2>4, RenamingKeeps
      <3> QED BY <2>1, <2>4, <3>1 DEF ConversionInv
    <2>5. CASE pc \in {"abort", "cleanup", "done"}
      BY <2>1, <2>5 DEF ConversionInv
    <2> QED BY <2>2, <2>3, <2>4, <2>5 DEF ConversionInv
  <1> QED BY <1>1, <1>2, <1>3, <1>4, <1>5, <1>6, <1>7 DEF Next
=============================================================================
