---------------------------- MODULE ParserProofs ----------------------------
(***************************************************************************)
(* The error flag of the parser, for texts of any length and nesting: it is  *)
(* set exactly while NULL, or a tree with NULL in it, is on its way out.     *)
(***************************************************************************)
EXTENDS Parser, SequenceTheorems, TLAPS

IsSeq(s) == \E S : s \in Seq(S)

\* The pointers of an operator, of which only the left one may be NULL.
GoodBinary(h, n) ==
    /\ h[n] = BinaryExp(h[n].op, h[n].left, h[n].right)
    /\ h[n].left \in 0..Len(h) /\ h[n].right \in 1..Len(h)

IsHeap(h) == IsSeq(h) /\ \A n \in 1..Len(h) : h[n].type = "BINARY_EXP" => GoodBinary(h, n)

\* What an expression consists of, among the nodes.
Operands(h) == {n \in 1..Len(h) : h[n].type = "BINARY_EXP" \/ h[n] = Leaf(h[n].type)}

HasIncomplete(h) == \E n \in 1..Len(h) : h[n].type = "BINARY_EXP" /\ h[n].left = 0

\* A level without a left operand has seen no operator but the last one.
IsLevel(h, s) ==
    /\ s = [left |-> s.left, op |-> s.op, precs |-> s.precs, prefix |-> s.prefix, ops |-> s.ops]
    /\ s.left \in {0} \cup Operands(h)
    /\ s.op = "" /\ s.left = 0 => s.precs = <<>>

\* A level whose next operand is being read: the right one of an operator, or its
\* first.
Waits(s) == s.op = "" => s.left = 0

IsStack(h, s) ==
    /\ IsSeq(s) /\ Len(s) > 0
    /\ \A k \in 1..Len(s) : IsLevel(h, s[k])
    /\ \A k \in 2..Len(s) : Waits(s[k])

\* The operator that waits for its right operand has NULL for its left one.
HangsAt(s) == s.op # "" /\ s.left = 0
HangsBelow(s) == \E k \in 2..Len(s) : HangsAt(s[k])
Hangs(s) == HangsAt(s[1]) \/ HangsBelow(s)

Reading == mode \in {"atom", "operator", "return"}

ReadingInv ==
    Reading =>
        /\ IsStack(heap, stack)
        /\ IF mode = "atom" THEN Waits(stack[1]) ELSE stack[1].op = ""
        /\ mode = "return" /\ stack[1].precs # <<>> => result # 0

ResultInv == mode \in {"return", "done"} => result \in {0} \cup Operands(heap)

\* NULL, or a tree with NULL in it, is on its way out.
Failed ==
    \/ HasIncomplete(heap)
    \/ Reading /\ Hangs(stack)
    \/ mode = "operator" /\ stack[1].left = 0
    \/ mode \in {"return", "done", "returned"} /\ result = 0

ErrorInv == mode # "undefined" => (error <=> Failed)

ParserInv == IsHeap(heap) /\ ReadingInv /\ ResultInv /\ ErrorInv

-----------------------------------------------------------------------------
\* Sequences.

\* The first element is replaced.
LEMMA ReplaceTop ==
  ASSUME NEW s, IsSeq(s), Len(s) > 0, NEW x
  PROVE  LET t == <<x>> \o Tail(s)
         IN  IsSeq(t) /\ Len(t) = Len(s) /\ t[1] = x /\ \A k \in 2..Len(s) : t[k] = s[k]
  <1>1. PICK S : s \in Seq(S)
    BY DEF IsSeq
  <1> DEFINE U == S \cup {x}
             r == Tail(s)
             t == <<x>> \o r
  <1>2. s \in Seq(U) /\ s # <<>> /\ Len(s) \in Nat
    BY <1>1
  <1>3. r \in Seq(U) /\ Len(r) = Len(s) - 1 /\ \A i \in 1..Len(r) : r[i] = s[i + 1]
    <2> HIDE DEF U
    <2> QED BY <1>2, HeadTailProperties
  <1>4. <<x>> \in Seq(U) /\ Len(<<x>>) = 1 /\ <<x>>[1] = x
    OBVIOUS
  <1> HIDE DEF U, r
  <1>5. /\ t \in Seq(U) /\ Len(t) = 1 + Len(r)
        /\ \A i \in 1..(1 + Len(r)) : t[i] = IF i <= 1 THEN <<x>>[i] ELSE r[i - 1]
    BY <1>3, <1>4
  <1> HIDE DEF t
  <1>6. Len(t) = Len(s) /\ t[1] = x
    BY <1>2, <1>3, <1>4, <1>5
  <1>7. ASSUME NEW k \in 2..Len(s) PROVE t[k] = s[k]
    <2>1. k \in 1..(1 + Len(r)) /\ ~(k <= 1) /\ k - 1 \in 1..Len(r) /\ (k - 1) + 1 = k
      BY <1>2, <1>3
    <2> QED BY <1>3, <1>5, <2>1
  <1> QED BY <1>5, <1>6, <1>7 DEF IsSeq, t, r

\* An element comes in front.
LEMMA PushTop ==
  ASSUME NEW s, IsSeq(s), NEW x
  PROVE  LET t == <<x>> \o s
         IN  IsSeq(t) /\ Len(t) = Len(s) + 1 /\ Len(s) \in Nat /\ t[1] = x /\ \A k \in 2..(Len(s) + 1) : t[k] = s[k - 1]
  <1>1. PICK S : s \in Seq(S)
    BY DEF IsSeq
  <1> DEFINE U == S \cup {x}
             t == <<x>> \o s
  <1>2. s \in Seq(U) /\ Len(s) \in Nat
    BY <1>1
  <1>3. <<x>> \in Seq(U) /\ Len(<<x>>) = 1 /\ <<x>>[1] = x
    OBVIOUS
  <1> HIDE DEF U
  <1>4. /\ t \in Seq(U) /\ Len(t) = 1 + Len(s)
        /\ \A i \in 1..(1 + Len(s)) : t[i] = IF i <= 1 THEN <<x>>[i] ELSE s[i - 1]
    BY <1>2, <1>3
  <1> HIDE DEF t
  <1> QED BY <1>2, <1>3, <1>4 DEF IsSeq, t

\* The first element goes.
LEMMA PopTop ==
  ASSUME NEW s, IsSeq(s), Len(s) > 0
  PROVE  LET t == Tail(s)
         IN  IsSeq(t) /\ Len(t) = Len(s) - 1 /\ Len(s) \in Nat /\ \A k \in 1..Len(t) : t[k] = s[k + 1]
  <1>1. PICK S : s \in Seq(S)
    BY DEF IsSeq
  <1>2. s # <<>> /\ Len(s) \in Nat
    BY <1>1
  <1> QED BY <1>1, <1>2, HeadTailProperties DEF IsSeq

\* Nodes are allocated behind the others.
LEMMA Allocated ==
  ASSUME NEW h, IsSeq(h), NEW nodes, IsSeq(nodes)
  PROVE  LET g == h \o nodes
         IN  /\ IsSeq(g) /\ Len(h) \in Nat /\ Len(nodes) \in Nat /\ Len(g) = Len(h) + Len(nodes)
             /\ \A n \in 1..Len(h) : g[n] = h[n]
             /\ \A n \in (Len(h) + 1)..(Len(h) + Len(nodes)) : n - Len(h) \in 1..Len(nodes) /\ g[n] = nodes[n - Len(h)]
  <1>1. PICK S, T : h \in Seq(S) /\ nodes \in Seq(T)
    BY DEF IsSeq
  <1> DEFINE U == S \cup T
             g == h \o nodes
  <1>2. h \in Seq(U) /\ nodes \in Seq(U) /\ Len(h) \in Nat /\ Len(nodes) \in Nat
    BY <1>1
  <1> HIDE DEF U
  <1>3. /\ g \in Seq(U) /\ Len(g) = Len(h) + Len(nodes)
        /\ \A i \in 1..(Len(h) + Len(nodes)) : g[i] = IF i <= Len(h) THEN h[i] ELSE nodes[i - Len(h)]
    BY <1>2
  <1> HIDE DEF g
  <1> QED BY <1>2, <1>3 DEF IsSeq, g

-----------------------------------------------------------------------------
\* The nodes.

\* The new nodes point to nodes that are there.
GoodNodes(h, nodes) ==
    LET n == Len(h) + Len(nodes)
    IN  \A k \in 1..Len(nodes) : nodes[k].type = "BINARY_EXP" =>
            /\ nodes[k] = BinaryExp(nodes[k].op, nodes[k].left, nodes[k].right)
            /\ nodes[k].left \in 0..n /\ nodes[k].right \in 1..n

\* What was an operand is one still.
Keeps(h, g) == Operands(h) \subseteq Operands(g)

\* What allocating nodes does to the trees that are there: nothing.
Grows(h, g) ==
    /\ IsHeap(g)
    /\ Len(h) \in Nat /\ Len(g) \in Nat /\ Len(h) <= Len(g)
    /\ \A n \in 1..Len(h) : g[n] = h[n]
    /\ Keeps(h, g)

\* g is h with the new nodes behind.
GrowsBy(h, nodes, g) ==
    /\ Grows(h, g)
    /\ HasIncomplete(g) <=> (HasIncomplete(h) \/ HasIncomplete(nodes))
    /\ Len(h) \in Nat /\ Len(nodes) \in Nat /\ Len(g) = Len(h) + Len(nodes)
    /\ \A k \in 1..Len(nodes) : g[Len(h) + k] = nodes[k]

\* Nodes that point to nodes are allocated: the trees that are there stay.
LEMMA NodesAllocated ==
  ASSUME NEW h, IsHeap(h), NEW nodes, IsSeq(nodes), GoodNodes(h, nodes)
  PROVE  GrowsBy(h, nodes, h \o nodes)
  <1> DEFINE g == h \o nodes
  <1>1. /\ IsSeq(g) /\ Len(h) \in Nat /\ Len(nodes) \in Nat /\ Len(g) = Len(h) + Len(nodes)
        /\ \A n \in 1..Len(h) : g[n] = h[n]
        /\ \A n \in (Len(h) + 1)..(Len(h) + Len(nodes)) : n - Len(h) \in 1..Len(nodes) /\ g[n] = nodes[n - Len(h)]
    BY Allocated DEF IsHeap
  <1> HIDE DEF g
  <1>2. ASSUME NEW n \in 1..Len(g)
        PROVE  n \in 1..Len(h) \/ n \in (Len(h) + 1)..(Len(h) + Len(nodes))
    BY <1>1
  <1>3. ASSUME NEW k \in 1..Len(nodes)
        PROVE  Len(h) + k \in 1..Len(g) /\ g[Len(h) + k] = nodes[k]
    <2>1. Len(h) + k \in (Len(h) + 1)..(Len(h) + Len(nodes)) /\ (Len(h) + k) - Len(h) = k
      BY <1>1
    <2> QED BY <1>1, <2>1
  <1>4. ASSUME NEW n \in 1..Len(g), g[n].type = "BINARY_EXP" PROVE GoodBinary(g, n)
    <2>1. CASE n \in 1..Len(h)
      <3>1. g[n] = h[n] /\ GoodBinary(h, n)
        BY <1>1, <1>4, <2>1 DEF IsHeap
      <3>2. g[n].left \in 0..Len(g) /\ g[n].right \in 1..Len(g)
        BY <1>1, <3>1 DEF GoodBinary
      <3> QED BY <3>1, <3>2 DEF GoodBinary
    <2>2. CASE n \in (Len(h) + 1)..(Len(h) + Len(nodes))
      <3>1. n - Len(h) \in 1..Len(nodes) /\ g[n] = nodes[n - Len(h)]
        BY <1>1, <2>2
      <3> QED BY <1>1, <1>4, <3>1 DEF GoodNodes, GoodBinary
    <2> QED BY <1>2, <2>1, <2>2
  <1>5. IsHeap(g)
    BY <1>1, <1>4 DEF IsHeap
  <1>6. \A n \in 1..Len(h) : n \in 1..Len(g) /\ g[n] = h[n]
    BY <1>1
  <1>7. Operands(h) \subseteq Operands(g)
    BY <1>6 DEF Operands
  <1>8. HasIncomplete(g) => (HasIncomplete(h) \/ HasIncomplete(nodes))
    <2> SUFFICES ASSUME NEW n \in 1..Len(g), g[n].type = "BINARY_EXP", g[n].left = 0
                 PROVE  HasIncomplete(h) \/ HasIncomplete(nodes)
      BY DEF HasIncomplete
    <2>1. CASE n \in 1..Len(h)
      BY <1>1, <2>1 DEF HasIncomplete
    <2>2. CASE n \in (Len(h) + 1)..(Len(h) + Len(nodes))
      BY <1>1, <2>2 DEF HasIncomplete
    <2> QED BY <1>2, <2>1, <2>2
  <1>9. HasIncomplete(h) \/ HasIncomplete(nodes) => HasIncomplete(g)
    BY <1>3, <1>6 DEF HasIncomplete
  <1>10. Len(h) <= Len(g) /\ Len(g) \in Nat
    BY <1>1
  <1> QED BY <1>1, <1>3, <1>5, <1>7, <1>8, <1>9, <1>10 DEF Grows, GrowsBy, Keeps, g

\* One node is allocated.
LEMMA NodeAllocated ==
  ASSUME NEW h, IsHeap(h), NEW x, GoodNodes(h, <<x>>)
  PROVE  /\ Grows(h, Append(h, x))
         /\ HasIncomplete(Append(h, x)) <=> HasIncomplete(h) \/ (x.type = "BINARY_EXP" /\ x.left = 0)
         /\ Len(h) \in Nat /\ Len(h) + 1 # 0
         /\ x.type = "BINARY_EXP" \/ x = Leaf(x.type) => Len(h) + 1 \in Operands(Append(h, x))
  <1>1. PICK S : h \in Seq(S)
    BY DEF IsHeap, IsSeq
  <1>2. Append(h, x) = h \o <<x>>
    <2> DEFINE U == S \cup {x}
    <2>1. h \in Seq(U) /\ x \in U
      BY <1>1
    <2> HIDE DEF U
    <2> QED BY <2>1, AppendIsConcat
  <1>3. IsSeq(<<x>>) /\ Len(<<x>>) = 1 /\ <<x>>[1] = x
    <2>1. <<x>> \in Seq({x})
      OBVIOUS
    <2> QED BY <2>1 DEF IsSeq
  <1> DEFINE nodes == <<x>>
             g == h \o nodes
  <1>4. nodes = <<x>>
    OBVIOUS
  <1>5. IsSeq(nodes) /\ Len(nodes) = 1 /\ nodes[1] = x /\ GoodNodes(h, nodes)
    BY <1>3
  <1> HIDE DEF nodes
  <1>6. GrowsBy(h, nodes, g)
    BY <1>5, NodesAllocated
  <1> HIDE DEF g
  <1>7. g[Len(h) + 1] = x /\ Len(g) = Len(h) + 1 /\ Grows(h, g) /\ Len(h) \in Nat
    BY <1>5, <1>6 DEF GrowsBy
  <1>8. HasIncomplete(g) <=> HasIncomplete(h) \/ (x.type = "BINARY_EXP" /\ x.left = 0)
    <2>1. HasIncomplete(nodes) <=> x.type = "BINARY_EXP" /\ x.left = 0
      BY <1>5 DEF HasIncomplete
    <2> QED BY <1>6, <2>1 DEF GrowsBy
  <1>9. Len(h) + 1 \in 1..Len(g) /\ Len(h) + 1 # 0
    BY <1>7
  <1>10. x.type = "BINARY_EXP" \/ x = Leaf(x.type) => Len(h) + 1 \in Operands(g)
    BY <1>7, <1>9 DEF Operands
  <1> QED BY <1>2, <1>4, <1>7, <1>8, <1>9, <1>10 DEF g

-----------------------------------------------------------------------------
\* The levels.

\* What the assignments to a level leave.
LEMMA LevelAssigned ==
  ASSUME NEW h, NEW s, IsLevel(h, s)
  PROVE  /\ \A v : [s EXCEPT !.left = v] = [left |-> v, op |-> s.op, precs |-> s.precs, prefix |-> s.prefix, ops |-> s.ops]
         /\ \A precs : [s EXCEPT !.precs = precs] = [left |-> s.left, op |-> s.op, precs |-> precs, prefix |-> s.prefix, ops |-> s.ops]
  <1> DEFINE a == s.left
             b == s.op
             c == s.precs
             d == s.prefix
             e == s.ops
  <1>1. s = [left |-> a, op |-> b, precs |-> c, prefix |-> d, ops |-> e]
    BY DEF IsLevel
  <1> HIDE DEF a, b, c, d, e
  <1>2. ASSUME NEW v PROVE [s EXCEPT !.left = v] = [left |-> v, op |-> b, precs |-> c, prefix |-> d, ops |-> e]
    BY <1>1
  <1>3. ASSUME NEW precs PROVE [s EXCEPT !.precs = precs] = [left |-> a, op |-> b, precs |-> precs, prefix |-> d, ops |-> e]
    BY <1>1
  <1>4. /\ \A v : [s EXCEPT !.left = v] = [left |-> v, op |-> b, precs |-> c, prefix |-> d, ops |-> e]
        /\ \A precs : [s EXCEPT !.precs = precs] = [left |-> a, op |-> b, precs |-> precs, prefix |-> d, ops |-> e]
    BY <1>2, <1>3, Zenon
  <1> QED BY <1>4, Zenon DEF a, b, c, d, e

\* The level after parser_parseBinary has put the left operand and the operator
\* into a node.
LEMMA OperandMoved ==
  ASSUME NEW h, NEW s, IsLevel(h, s), NEW v, NEW op
  PROVE  [s EXCEPT !.left = v, !.op = op] = [left |-> v, op |-> op, precs |-> s.precs, prefix |-> s.prefix, ops |-> s.ops]
  <1> DEFINE c == s.precs
             d == s.prefix
             e == s.ops
             t == [s EXCEPT !.left = v]
  <1>1. s = [left |-> s.left, op |-> s.op, precs |-> c, prefix |-> d, ops |-> e]
    BY DEF IsLevel
  <1> HIDE DEF c, d, e
  <1>2. t = [left |-> v, op |-> s.op, precs |-> c, prefix |-> d, ops |-> e]
    BY <1>1
  <1>3. [s EXCEPT !.left = v, !.op = op] = [t EXCEPT !.op = op]
    OBVIOUS
  <1> HIDE DEF t
  <1>4. [t EXCEPT !.op = op] = [left |-> v, op |-> op, precs |-> c, prefix |-> d, ops |-> e]
    BY <1>2
  <1> QED BY <1>3, <1>4 DEF c, d, e

\* The level as parser_parseBinary leaves it for NULL.
LEMMA OperatorDropped ==
  ASSUME NEW h, NEW s, IsLevel(h, s), NEW precs, NEW op
  PROVE  [s EXCEPT !.precs = precs, !.op = op] = [left |-> s.left, op |-> op, precs |-> precs, prefix |-> s.prefix, ops |-> s.ops]
  <1> DEFINE a == s.left
             d == s.prefix
             e == s.ops
             t == [s EXCEPT !.precs = precs]
  <1>1. s = [left |-> a, op |-> s.op, precs |-> s.precs, prefix |-> d, ops |-> e]
    BY DEF IsLevel
  <1> HIDE DEF a, d, e
  <1>2. t = [left |-> a, op |-> s.op, precs |-> precs, prefix |-> d, ops |-> e]
    BY <1>1
  <1>3. [s EXCEPT !.precs = precs, !.op = op] = [t EXCEPT !.op = op]
    OBVIOUS
  <1> HIDE DEF t
  <1>4. [t EXCEPT !.op = op] = [left |-> a, op |-> op, precs |-> precs, prefix |-> d, ops |-> e]
    BY <1>2
  <1> QED BY <1>3, <1>4 DEF a, d, e

\* The level with one more operator.
LEMMA OperatorAssigned ==
  ASSUME NEW h, NEW s, IsLevel(h, s), NEW op, NEW precs, NEW ops
  PROVE  [s EXCEPT !.op = op, !.precs = precs, !.ops = ops]
           = [left |-> s.left, op |-> op, precs |-> precs, prefix |-> s.prefix, ops |-> ops]
  <1> DEFINE a == s.left
             d == s.prefix
             t == [s EXCEPT !.op = op]
             u == [t EXCEPT !.precs = precs]
  <1>1. s = [left |-> a, op |-> s.op, precs |-> s.precs, prefix |-> d, ops |-> s.ops]
    BY DEF IsLevel
  <1> HIDE DEF a, d
  <1>2. t = [left |-> a, op |-> op, precs |-> s.precs, prefix |-> d, ops |-> s.ops]
    BY <1>1
  <1>3. [s EXCEPT !.op = op, !.precs = precs, !.ops = ops] = [u EXCEPT !.ops = ops]
    OBVIOUS
  <1> HIDE DEF t
  <1>4. u = [left |-> a, op |-> op, precs |-> precs, prefix |-> d, ops |-> s.ops]
    BY <1>2
  <1> HIDE DEF u
  <1>5. [u EXCEPT !.ops = ops] = [left |-> a, op |-> op, precs |-> precs, prefix |-> d, ops |-> ops]
    BY <1>4
  <1> QED BY <1>3, <1>5 DEF a, d

\* The innermost level is one.
LEMMA TopLevel ==
  ASSUME NEW h, NEW s, IsStack(h, s)
  PROVE  Head(s) = s[1] /\ IsLevel(h, s[1])
  <1>1. IsSeq(s) /\ Len(s) > 0
    BY DEF IsStack
  <1>2. PICK S : s \in Seq(S)
    BY <1>1 DEF IsSeq
  <1>3. 1 \in 1..Len(s)
    BY <1>1, <1>2
  <1> QED BY <1>1, <1>2, <1>3 DEF IsStack

\* Operands are nodes.
LEMMA OperandsAreNodes ==
  ASSUME NEW h, IsHeap(h)
  PROVE  Len(h) \in Nat /\ \A n \in Operands(h) : n \in 1..Len(h)
  BY DEF Operands, IsHeap, IsSeq

\* The innermost level goes on as x.
Replaced(s, x) == <<x>> \o Tail(s)

\* Replaced keeps the levels below, and what hangs there.
LEMMA LevelReplaced ==
  ASSUME NEW h, NEW g, Keeps(h, g), NEW s, IsStack(h, s), NEW x, IsLevel(g, x)
  PROVE  LET t == Replaced(s, x)
         IN  IsStack(g, t) /\ t[1] = x /\ (HangsBelow(t) <=> HangsBelow(s))
  <1> DEFINE t == Replaced(s, x)
  <1>1. IsSeq(t) /\ Len(t) = Len(s) /\ t[1] = x /\ \A k \in 2..Len(s) : t[k] = s[k]
    BY ReplaceTop DEF IsStack, Replaced
  <1> HIDE DEF t
  <1>2. Len(s) \in Nat /\ Len(s) > 0
    BY DEF IsStack, IsSeq
  <1>3. ASSUME NEW k \in 1..Len(t) PROVE IsLevel(g, t[k])
    <2>1. CASE k = 1
      BY <1>1, <2>1
    <2>2. CASE k # 1
      <3>1. k \in 2..Len(s) /\ k \in 1..Len(s)
        BY <1>1, <1>2, <2>2
      <3>2. t[k] = s[k] /\ IsLevel(h, s[k])
        BY <1>1, <3>1 DEF IsStack
      <3> QED BY <3>2 DEF IsLevel, Keeps
    <2> QED BY <2>1, <2>2
  <1>4. \A k \in 2..Len(t) : Waits(t[k])
    BY <1>1 DEF IsStack
  <1>5. IsStack(g, t)
    BY <1>1, <1>2, <1>3, <1>4 DEF IsStack
  <1>6. HangsBelow(t) <=> HangsBelow(s)
    BY <1>1 DEF HangsBelow
  <1> QED BY <1>1, <1>5, <1>6 DEF t

\* Another level begins.
LEMMA LevelPushed ==
  ASSUME NEW h, NEW s, IsStack(h, s), Waits(s[1]), NEW x, IsLevel(h, x)
  PROVE  LET t == <<x>> \o s
         IN  IsStack(h, t) /\ t[1] = x /\ (HangsBelow(t) <=> Hangs(s))
  <1> DEFINE t == <<x>> \o s
  <1>1. IsSeq(t) /\ Len(t) = Len(s) + 1 /\ Len(s) \in Nat /\ t[1] = x /\ \A k \in 2..(Len(s) + 1) : t[k] = s[k - 1]
    BY PushTop DEF IsStack
  <1> HIDE DEF t
  <1>2. Len(s) > 0
    BY DEF IsStack
  <1>3. ASSUME NEW k \in 2..Len(t)
        PROVE  k - 1 \in 1..Len(s) /\ t[k] = s[k - 1] /\ IsLevel(h, t[k]) /\ Waits(t[k])
    <2>1. k - 1 \in 1..Len(s) /\ t[k] = s[k - 1]
      BY <1>1
    <2>2. k - 1 = 1 \/ k - 1 \in 2..Len(s)
      BY <1>1, <2>1
    <2> QED BY <2>1, <2>2 DEF IsStack
  <1>4. \A k \in 1..Len(t) : k = 1 \/ k \in 2..Len(t)
    BY <1>1
  <1>5. IsStack(h, t)
    <2>1. \A k \in 1..Len(t) : IsLevel(h, t[k])
      BY <1>1, <1>3, <1>4
    <2>2. Len(t) > 0
      BY <1>1
    <2> QED BY <1>1, <1>3, <2>1, <2>2 DEF IsStack
  <1>6. HangsBelow(t) => Hangs(s)
    <2> SUFFICES ASSUME NEW k \in 2..Len(t), HangsAt(t[k]) PROVE Hangs(s)
      BY DEF HangsBelow
    <2>1. k - 1 = 1 \/ k - 1 \in 2..Len(s)
      BY <1>1, <1>3
    <2> QED BY <1>3, <2>1 DEF Hangs, HangsBelow
  <1>7. ASSUME NEW k \in 1..Len(s), HangsAt(s[k]) PROVE HangsBelow(t)
    <2>1. k + 1 \in 2..Len(t) /\ (k + 1) - 1 = k
      BY <1>1
    <2>2. t[k + 1] = s[k]
      BY <1>3, <2>1
    <2> QED BY <1>7, <2>1, <2>2 DEF HangsBelow
  <1>8. Hangs(s) => HangsBelow(t)
    <2>1. 1 \in 1..Len(s) /\ \A k \in 2..Len(s) : k \in 1..Len(s)
      BY <1>1, <1>2
    <2> QED BY <1>7, <2>1 DEF Hangs, HangsBelow
  <1> QED BY <1>1, <1>5, <1>6, <1>8 DEF t

\* The innermost level ends.
LEMMA LevelPopped ==
  ASSUME NEW h, NEW s, IsStack(h, s), Tail(s) # <<>>
  PROVE  LET t == Tail(s)
         IN  IsStack(h, t) /\ Waits(t[1]) /\ (Hangs(t) <=> HangsBelow(s))
  <1> DEFINE t == Tail(s)
  <1>1. IsSeq(t) /\ Len(t) = Len(s) - 1 /\ Len(s) \in Nat /\ \A k \in 1..Len(t) : t[k] = s[k + 1]
    BY PopTop DEF IsStack
  <1>2. t # <<>>
    OBVIOUS
  <1> HIDE DEF t
  <1>3. Len(t) > 0
    <2>1. PICK S : t \in Seq(S)
      BY <1>1 DEF IsSeq
    <2> QED BY <1>2, <2>1
  <1>4. ASSUME NEW k \in 1..Len(t)
        PROVE  k + 1 \in 2..Len(s) /\ t[k] = s[k + 1] /\ IsLevel(h, t[k]) /\ Waits(t[k])
    <2>1. k + 1 \in 2..Len(s) /\ k + 1 \in 1..Len(s) /\ t[k] = s[k + 1]
      BY <1>1
    <2> QED BY <2>1 DEF IsStack
  <1>5. 1 \in 1..Len(t) /\ \A k \in 2..Len(t) : k \in 1..Len(t)
    BY <1>1, <1>3
  <1>6. IsStack(h, t) /\ Waits(t[1])
    BY <1>1, <1>3, <1>4, <1>5 DEF IsStack
  <1>7. Hangs(t) => HangsBelow(s)
    BY <1>4, <1>5 DEF Hangs, HangsBelow
  <1>8. HangsBelow(s) => Hangs(t)
    <2> SUFFICES ASSUME NEW k \in 2..Len(s), HangsAt(s[k]) PROVE Hangs(t)
      BY DEF HangsBelow
    <2>1. k - 1 \in 1..Len(t) /\ (k - 1) + 1 = k
      BY <1>1
    <2>2. t[k - 1] = s[k]
      BY <1>4, <2>1
    <2>3. k - 1 = 1 \/ k - 1 \in 2..Len(t)
      BY <1>1, <2>1
    <2> QED BY <2>2, <2>3 DEF Hangs, HangsBelow
  <1> QED BY <1>6, <1>7, <1>8 DEF t

\* A call begins with one level.
LEMMA LevelAlone ==
  ASSUME NEW h, NEW p
  PROVE  IsStack(h, <<Level(p)>>) /\ Waits(Level(p)) /\ <<Level(p)>>[1] = Level(p) /\ ~Hangs(<<Level(p)>>)
  <1>1. IsLevel(h, Level(p)) /\ Waits(Level(p)) /\ ~HangsAt(Level(p))
    BY DEF IsLevel, Level, Waits, HangsAt
  <1> DEFINE x == Level(p)
             s == <<x>>
  <1>2. s \in Seq({x}) /\ Len(s) = 1 /\ s[1] = x
    BY DEF s
  <1>3. x = Level(p)
    OBVIOUS
  <1> HIDE DEF s, x
  <1>4. IsSeq(s)
    BY <1>2 DEF IsSeq
  <1>5. \A k \in 1..1 : k = 1
    OBVIOUS
  <1>6. 2..1 = {}
    OBVIOUS
  <1>7. IsStack(h, s)
    BY <1>1, <1>2, <1>3, <1>4, <1>5, <1>6 DEF IsStack
  <1>8. ~Hangs(s)
    BY <1>1, <1>2, <1>3, <1>6 DEF Hangs, HangsBelow
  <1> QED BY <1>1, <1>2, <1>3, <1>7, <1>8 DEF s, x

\* Allocation does not invalidate a level.
LEMMA StackStays ==
  ASSUME NEW h, NEW g, Keeps(h, g), NEW s, IsStack(h, s)
  PROVE  IsStack(g, s)
  BY DEF IsStack, IsLevel, Keeps

-----------------------------------------------------------------------------
\* The steps in an expression.

\* An operand, or NULL, has been returned to a level.
LEMMA OperandTaken ==
  ASSUME NEW nodes, NEW s, NEW node,
         IsHeap(nodes), IsStack(nodes, s), Waits(s[1]), node \in {0} \cup Operands(nodes),
         Operand(nodes, s, node)
  PROVE  /\ IsHeap(heap') /\ ReadingInv' /\ ResultInv' /\ mode' # "undefined"
         /\ Failed' <=> HasIncomplete(nodes) \/ Hangs(s) \/ node = 0
  <1> DEFINE top == Head(s)
  <1>1. top = s[1] /\ IsLevel(nodes, top)
    BY TopLevel
  <1>2. \/ /\ top.op = "" /\ heap' = nodes /\ mode' = "operator"
           /\ stack' = <<[top EXCEPT !.left = node]>> \o Tail(s)
        \/ /\ top.op # "" /\ node # 0 /\ heap' = Append(nodes, BinaryExp(top.op, top.left, node)) /\ mode' = "operator"
           /\ stack' = <<[top EXCEPT !.left = Len(nodes) + 1, !.op = ""]>> \o Tail(s)
        \/ /\ top.op # "" /\ node = 0 /\ heap' = nodes /\ mode' = "return" /\ result' = 0
           /\ stack' = <<[top EXCEPT !.precs = <<>>, !.op = ""]>> \o Tail(s)
    BY DEF Operand
  <1> HIDE DEF top
  <1>3. CASE /\ top.op = "" /\ heap' = nodes /\ mode' = "operator"
             /\ stack' = <<[top EXCEPT !.left = node]>> \o Tail(s)
    <2> DEFINE x == [top EXCEPT !.left = node]
    <2>1. IsLevel(nodes, x) /\ x.op = "" /\ x.left = node
      <3>1. x = [left |-> node, op |-> top.op, precs |-> top.precs, prefix |-> top.prefix, ops |-> top.ops]
        BY <1>1, LevelAssigned, Zenon
      <3>2. top.precs = <<>>
        BY <1>1, <1>3 DEF IsLevel, Waits
      <3> HIDE DEF x
      <3> QED BY <1>3, <3>1, <3>2 DEF IsLevel
    <2> HIDE DEF x
    <2>2. IsStack(nodes, stack') /\ stack'[1] = x /\ (HangsBelow(stack') <=> HangsBelow(s))
      <3>1. stack' = Replaced(s, x)
        BY <1>3 DEF x, Replaced
      <3>2. Keeps(nodes, nodes)
        BY DEF Keeps
      <3>3. IsLevel(nodes, x)
        BY <2>1
      <3> QED BY <3>1, <3>2, <3>3, LevelReplaced
    <2> QED BY <1>1, <1>3, <2>1, <2>2 DEF ReadingInv, Reading, ResultInv, Failed, Hangs, HangsAt
  <1>4. CASE /\ top.op # "" /\ node # 0 /\ heap' = Append(nodes, BinaryExp(top.op, top.left, node)) /\ mode' = "operator"
             /\ stack' = <<[top EXCEPT !.left = Len(nodes) + 1, !.op = ""]>> \o Tail(s)
    <2> DEFINE b == BinaryExp(top.op, top.left, node)
               x == [top EXCEPT !.left = Len(nodes) + 1, !.op = ""]
    <2>1. b.type = "BINARY_EXP" /\ b = BinaryExp(b.op, b.left, b.right) /\ b.left = top.left /\ b.right = node
      BY DEF BinaryExp
    <2>2. heap' = Append(nodes, b)
      BY <1>4
    <2> HIDE DEF b
    <2>3. GoodNodes(nodes, <<b>>)
      <3>1. Len(nodes) \in Nat
        BY DEF IsHeap, IsSeq
      <3>2. b.left \in 0..(Len(nodes) + 1) /\ b.right \in 1..(Len(nodes) + 1)
        <4>1. top.left \in {0} \cup Operands(nodes)
          BY <1>1 DEF IsLevel
        <4>2. node \in 1..Len(nodes)
          BY <1>4, OperandsAreNodes
        <4>3. top.left \in 0..Len(nodes)
          BY <3>1, <4>1, OperandsAreNodes
        <4> QED BY <2>1, <3>1, <4>2, <4>3
      <3> QED BY <2>1, <3>1, <3>2 DEF GoodNodes
    <2>4. /\ Grows(nodes, heap')
          /\ HasIncomplete(heap') <=> HasIncomplete(nodes) \/ b.left = 0
          /\ Len(nodes) + 1 \in Operands(heap') /\ Len(nodes) + 1 # 0
      BY <2>1, <2>2, <2>3, NodeAllocated
    <2>5. IsLevel(heap', x) /\ x.op = "" /\ x.left = Len(nodes) + 1
      <3>1. x = [left |-> Len(nodes) + 1, op |-> "", precs |-> top.precs, prefix |-> top.prefix, ops |-> top.ops]
        <4>1. IsLevel(nodes, top)
          BY <1>1
        <4> QED BY <4>1, OperandMoved
      <3> HIDE DEF x
      <3> QED BY <2>4, <3>1 DEF IsLevel
    <2> HIDE DEF x
    <2>6. IsStack(heap', stack') /\ stack'[1] = x /\ (HangsBelow(stack') <=> HangsBelow(s))
      <3>1. stack' = Replaced(s, x)
        BY <1>4 DEF x, Replaced
      <3>2. Keeps(nodes, heap') /\ IsLevel(heap', x)
        BY <2>4, <2>5 DEF Grows
      <3> QED BY <3>1, <3>2, LevelReplaced
    <2>7. Hangs(s) <=> top.left = 0 \/ HangsBelow(s)
      BY <1>1, <1>4 DEF Hangs, HangsAt
    <2> QED BY <1>4, <2>1, <2>4, <2>5, <2>6, <2>7 DEF ReadingInv, Reading, ResultInv, Failed, Hangs, HangsAt, Grows
  <1>5. CASE /\ top.op # "" /\ node = 0 /\ heap' = nodes /\ mode' = "return" /\ result' = 0
             /\ stack' = <<[top EXCEPT !.precs = <<>>, !.op = ""]>> \o Tail(s)
    <2> DEFINE x == [top EXCEPT !.precs = <<>>, !.op = ""]
    <2>1. IsLevel(nodes, x) /\ x.op = "" /\ x.precs = <<>>
      <3>1. x = [left |-> top.left, op |-> "", precs |-> <<>>, prefix |-> top.prefix, ops |-> top.ops]
        <4>1. IsLevel(nodes, top)
          BY <1>1
        <4> QED BY <4>1, OperatorDropped
      <3>2. top.left \in {0} \cup Operands(nodes)
        BY <1>1 DEF IsLevel
      <3> HIDE DEF x
      <3> QED BY <3>1, <3>2 DEF IsLevel
    <2> HIDE DEF x
    <2>2. IsStack(nodes, stack') /\ stack'[1] = x
      <3>1. stack' = Replaced(s, x)
        BY <1>5 DEF x, Replaced
      <3>2. Keeps(nodes, nodes)
        BY DEF Keeps
      <3>3. IsLevel(nodes, x)
        BY <2>1
      <3> QED BY <3>1, <3>2, <3>3, LevelReplaced
    <2> QED BY <1>5, <2>1, <2>2 DEF ReadingInv, Reading, ResultInv, Failed
  <1> QED BY <1>2, <1>3, <1>4, <1>5

\* After undefined behaviour only the nodes are known to be nodes.
LEMMA UndefinedStep ==
  ParserInv /\ Undefined => ParserInv'
  BY DEF ParserInv, Undefined, ReadingInv, Reading, ResultInv, ErrorInv

\* A sign changes neither nodes nor levels.
LEMMA ReadPrefixStep ==
  ASSUME ParserInv, NEW l, ReadPrefix(l) PROVE ParserInv'
  BY DEF ParserInv, ReadPrefix, ReadingInv, Reading, ResultInv, ErrorInv, Failed

\* A number or a variable is an operand, and not NULL.
LEMMA ReadLeafStep ==
  ASSUME ParserInv, NEW l, ReadLeaf(l) PROVE ParserInv'
  <1>1. mode = "atom" /\ l \in {"one", "a"}
    BY DEF ReadLeaf
  <1>2. IsHeap(heap) /\ IsStack(heap, stack) /\ Waits(stack[1]) /\ (error <=> HasIncomplete(heap) \/ Hangs(stack))
    BY <1>1 DEF ParserInv, ReadingInv, Reading, ErrorInv, Failed
  <1>3. CASE Operand(Append(heap, Leaf(TokenType[l])), stack, Len(heap) + 1) /\ UNCHANGED error
    <2> DEFINE x == Leaf(TokenType[l])
               g == Append(heap, x)
    <2>1. x.type # "BINARY_EXP" /\ x = Leaf(x.type)
      BY <1>1 DEF Leaf, TokenType
    <2> HIDE DEF x
    <2>2. GoodNodes(heap, <<x>>)
      BY <2>1 DEF GoodNodes
    <2>3. /\ Grows(heap, g) /\ (HasIncomplete(g) <=> HasIncomplete(heap))
          /\ Len(heap) + 1 \in Operands(g) /\ Len(heap) + 1 # 0
      BY <1>2, <2>1, <2>2, NodeAllocated
    <2>4. Operand(g, stack, Len(heap) + 1)
      BY <1>3 DEF x
    <2> HIDE DEF g
    <2>5. IsHeap(g) /\ IsStack(g, stack)
      BY <1>2, <2>3, StackStays DEF Grows
    <2>6. /\ IsHeap(heap') /\ ReadingInv' /\ ResultInv' /\ mode' # "undefined"
          /\ Failed' <=> HasIncomplete(g) \/ Hangs(stack) \/ Len(heap) + 1 = 0
      BY <1>2, <2>3, <2>4, <2>5, OperandTaken
    <2> QED BY <1>2, <1>3, <2>3, <2>6 DEF ParserInv, ErrorInv
  <1> QED BY <1>3, UndefinedStep DEF ReadLeaf

\* The new level has no operator that could hang.
LEMMA ReadOpenStep ==
  ASSUME ParserInv, NEW l, ReadOpen(l) PROVE ParserInv'
  <1>1. /\ mode = "atom" /\ stack' = <<Level(hasPrefix)>> \o stack
        /\ UNCHANGED <<heap, mode, error, result>>
    BY DEF ReadOpen
  <1>2. IsHeap(heap) /\ IsStack(heap, stack) /\ Waits(stack[1]) /\ (error <=> HasIncomplete(heap) \/ Hangs(stack))
    BY <1>1 DEF ParserInv, ReadingInv, Reading, ErrorInv, Failed
  <1> DEFINE x == Level(hasPrefix)
  <1>3. IsLevel(heap, x) /\ Waits(x) /\ ~HangsAt(x)
    BY DEF IsLevel, Level, Waits, HangsAt
  <1> HIDE DEF x
  <1>4. IsStack(heap, stack') /\ stack'[1] = x /\ (HangsBelow(stack') <=> Hangs(stack))
    <2>1. stack' = <<x>> \o stack
      BY <1>1 DEF x
    <2> QED BY <1>2, <1>3, <2>1, LevelPushed
  <1> QED BY <1>1, <1>2, <1>3, <1>4 DEF ParserInv, ReadingInv, Reading, ResultInv, ErrorInv, Failed, Hangs

\* An operator behind NULL hangs from now on; the end of a level returns its operand.
LEMMA ReadOperatorStep ==
  ASSUME ParserInv, NEW l, ReadOperator(l) PROVE ParserInv'
  <1> DEFINE top == Head(stack)
             type == TokenType[l]
             prec == getPresedence(type)
             x == [top EXCEPT !.op = type, !.precs = Append(@, prec), !.ops = Append(@, prec)]
  <1>1. mode = "operator" /\ heap' = heap /\ error' = error
    BY DEF ReadOperator
  <1>2. /\ IsHeap(heap) /\ IsStack(heap, stack) /\ stack[1].op = ""
        /\ error <=> HasIncomplete(heap) \/ Hangs(stack) \/ stack[1].left = 0
    BY <1>1 DEF ParserInv, ReadingInv, Reading, ErrorInv, Failed
  <1>3. top = stack[1] /\ IsLevel(heap, top)
    BY <1>2, TopLevel
  <1>4. \/ prec # -1 /\ stack' = <<x>> \o Tail(stack) /\ mode' = "atom"
        \/ result' = top.left /\ mode' = "return" /\ stack' = stack
    BY DEF ReadOperator
  <1>5. prec # -1 => type # ""
    BY DEF getPresedence
  <1> HIDE DEF top, type, prec
  <1>6. CASE prec # -1 /\ stack' = <<x>> \o Tail(stack) /\ mode' = "atom"
    <2>1. IsLevel(heap, x) /\ x.op # "" /\ x.left = top.left
      <3> DEFINE ps == Append(top.precs, prec)
                 os == Append(top.ops, prec)
      <3>1. x = [left |-> top.left, op |-> type, precs |-> ps, prefix |-> top.prefix, ops |-> os]
        <4>1. IsLevel(heap, top)
          BY <1>3
        <4> QED BY <4>1, OperatorAssigned
      <3>2. top.left \in {0} \cup Operands(heap) /\ type # ""
        BY <1>3, <1>5, <1>6 DEF IsLevel
      <3> HIDE DEF x, ps, os
      <3> QED BY <3>1, <3>2 DEF IsLevel
    <2>2. stack' = Replaced(stack, x)
      BY <1>6 DEF Replaced
    <2> HIDE DEF x
    <2>3. IsStack(heap, stack') /\ stack'[1] = x /\ (HangsBelow(stack') <=> HangsBelow(stack))
      <3>1. Keeps(heap, heap)
        BY DEF Keeps
      <3>2. IsStack(heap, stack) /\ IsLevel(heap, x)
        BY <1>2, <2>1
      <3> QED BY <2>2, <3>1, <3>2, LevelReplaced
    <2> QED BY <1>1, <1>2, <1>3, <1>6, <2>1, <2>3
            DEF ParserInv, ReadingInv, Reading, ResultInv, ErrorInv, Failed, Hangs, HangsAt, Waits
  <1>7. CASE result' = top.left /\ mode' = "return" /\ stack' = stack
    BY <1>1, <1>2, <1>3, <1>7 DEF ParserInv, ReadingInv, Reading, ResultInv, ErrorInv, Failed, IsLevel
  <1> QED BY <1>4, <1>6, <1>7

\* One node of an expression gets other pointers.
LEMMA PointersAssigned ==
  ASSUME NEW h, IsHeap(h), NEW n \in 1..Len(h), h[n].type = "BINARY_EXP",
         NEW op, NEW left \in 0..Len(h), NEW right \in 1..Len(h), left = 0 <=> h[n].left = 0
  PROVE  LET x == BinaryExp(op, left, right)
             g == [h EXCEPT ![n] = x]
         IN  /\ IsHeap(g) /\ Len(g) = Len(h) /\ Keeps(h, g) /\ (HasIncomplete(g) <=> HasIncomplete(h))
             /\ g[n] = x /\ \A k \in 1..Len(h) : k # n => g[k] = h[k]
  <1> DEFINE x == BinaryExp(op, left, right)
             g == [h EXCEPT ![n] = x]
  <1>1. PICK S : h \in Seq(S)
    BY DEF IsHeap, IsSeq
  <1> DEFINE U == S \cup {x}
  <1>2. h \in Seq(U) /\ x \in U
    BY <1>1
  <1>3. x.type = "BINARY_EXP" /\ x = BinaryExp(x.op, x.left, x.right) /\ x.left = left /\ x.right = right
    BY DEF BinaryExp
  <1> HIDE DEF U, x
  <1>4. g \in Seq(U) /\ Len(g) = Len(h) /\ g[n] = x /\ \A k \in 1..Len(h) : k # n => g[k] = h[k]
    BY <1>2
  <1> HIDE DEF g
  <1>5. ASSUME NEW k \in 1..Len(g), g[k].type = "BINARY_EXP" PROVE GoodBinary(g, k)
    <2>1. CASE k = n
      BY <1>3, <1>4, <2>1 DEF GoodBinary
    <2>2. CASE k # n
      BY <1>4, <1>5, <2>2 DEF IsHeap, GoodBinary
    <2> QED BY <2>1, <2>2
  <1>6. IsHeap(g)
    BY <1>4, <1>5 DEF IsHeap, IsSeq
  <1>7. Keeps(h, g)
    BY <1>3, <1>4 DEF Keeps, Operands
  <1>8. HasIncomplete(g) <=> HasIncomplete(h)
    BY <1>3, <1>4 DEF HasIncomplete
  <1> QED BY <1>4, <1>6, <1>7, <1>8 DEF g, x

\* The rotation of a tree whose root is no leaf loses no operand and adds no NULL.
LEMMA Rotated ==
  ASSUME NEW h, IsHeap(h), NEW r \in Operands(h), h[r].left # 0, h[h[r].left].type = "BINARY_EXP"
  PROVE  LET g == Rotate(h, r)
         IN  IsHeap(g) /\ Keeps(h, g) /\ (HasIncomplete(g) <=> HasIncomplete(h)) /\ h[r].left \in Operands(g)
  <1> DEFINE l == h[r].left
  <1>1. r \in 1..Len(h) /\ h[r].type = "BINARY_EXP" /\ GoodBinary(h, r)
    <2>1. r \in 1..Len(h) /\ (h[r].type = "BINARY_EXP" \/ h[r] = Leaf(h[r].type))
      BY DEF Operands
    <2>2. h[r] # Leaf(h[r].type)
      <3> DEFINE t == h[r].type
      <3>1. Leaf(t).left = 0
        BY DEF Leaf
      <3> QED BY <3>1
    <2> QED BY <2>1, <2>2 DEF IsHeap
  <1>2. l \in 1..Len(h) /\ h[l].type = "BINARY_EXP" /\ GoodBinary(h, l)
    BY <1>1 DEF GoodBinary, IsHeap, IsSeq
  <1>3. l # 0 /\ l = h[r].left
    OBVIOUS
  <1> HIDE DEF l
  <1> DEFINE a == h[l].op
             b == h[l].left
             c == h[l].right
             x == BinaryExp(a, b, r)
             g1 == [h EXCEPT ![l] = x]
  <1>4. h[l] = BinaryExp(a, b, c) /\ b \in 0..Len(h) /\ c \in 1..Len(h) /\ b = h[l].left
    BY <1>2 DEF GoodBinary
  <1> HIDE DEF a, b, c
  <1>5. [h[l] EXCEPT !.right = r] = x
    BY <1>4 DEF BinaryExp
  <1>6. /\ IsHeap(g1) /\ Len(g1) = Len(h) /\ Keeps(h, g1) /\ (HasIncomplete(g1) <=> HasIncomplete(h))
        /\ g1[l] = x /\ \A k \in 1..Len(h) : k # l => g1[k] = h[k]
    BY <1>1, <1>2, <1>4, PointersAssigned
  <1>7. x.left = b /\ x.type = "BINARY_EXP"
    BY DEF BinaryExp
  <1> HIDE DEF x
  <1>8. g1[r].type = "BINARY_EXP" /\ g1[r].left # 0
    BY <1>1, <1>3, <1>4, <1>6, <1>7
  <1>9. [h EXCEPT ![l].right = r] = g1
    BY <1>5
  <1>10. Rotate(h, r) = [g1 EXCEPT ![r].left = c]
    BY <1>9 DEF Rotate, l, c
  <1> HIDE DEF g1
  <1> DEFINE d == g1[r].op
             e == g1[r].right
             y == BinaryExp(d, c, e)
             g2 == [g1 EXCEPT ![r] = y]
  <1>11. g1[r] = BinaryExp(d, g1[r].left, e) /\ e \in 1..Len(g1)
    BY <1>1, <1>6, <1>8 DEF IsHeap, GoodBinary
  <1> HIDE DEF d, e
  <1>12. [g1[r] EXCEPT !.left = c] = y
    <2> DEFINE f == g1[r].left
    <2>1. g1[r] = BinaryExp(d, f, e)
      BY <1>11
    <2> HIDE DEF f
    <2> QED BY <2>1 DEF BinaryExp
  <1>13. Rotate(h, r) = g2
    BY <1>10, <1>12
  <1>14. c \in 0..Len(g1) /\ c # 0 /\ r \in 1..Len(g1)
    BY <1>1, <1>4, <1>6
  <1>15. IsHeap(g2) /\ Keeps(g1, g2) /\ (HasIncomplete(g2) <=> HasIncomplete(g1))
    BY <1>6, <1>8, <1>11, <1>14, PointersAssigned
  <1> HIDE DEF g2
  <1>16. l \in Operands(h)
    BY <1>2 DEF Operands
  <1>17. Keeps(h, g2) /\ l \in Operands(g2)
    BY <1>6, <1>15, <1>16 DEF Keeps
  <1> QED BY <1>3, <1>6, <1>13, <1>15, <1>17

\* A call of parser_parseBinary goes on only with a result: it is rotated, or not.
LEMMA ReturnBinaryStep ==
  ASSUME ParserInv, ReturnBinary PROVE ParserInv'
  <1> DEFINE top == Head(stack)
             ps == Front(top.precs)
             x == [top EXCEPT !.precs = ps]
  <1>1. mode = "return" /\ top.precs # <<>>
    BY DEF ReturnBinary
  <1>2. /\ IsHeap(heap) /\ IsStack(heap, stack) /\ stack[1].op = "" /\ result \in {0} \cup Operands(heap)
        /\ stack[1].precs # <<>> => result # 0
        /\ error <=> HasIncomplete(heap) \/ Hangs(stack) \/ result = 0
    BY <1>1 DEF ParserInv, ReadingInv, Reading, ResultInv, ErrorInv, Failed
  <1>3. top = stack[1] /\ IsLevel(heap, top)
    BY <1>2, TopLevel
  <1>4. \/ /\ heap[result].left # 0 /\ heap[heap[result].left].type = "BINARY_EXP"
           /\ heap' = Rotate(heap, result) /\ result' = heap[result].left
           /\ stack' = <<x>> \o Tail(stack) /\ UNCHANGED <<mode, error>>
        \/ stack' = <<x>> \o Tail(stack) /\ UNCHANGED <<heap, mode, error, result>>
        \/ Undefined
    BY DEF ReturnBinary, NeedsRotation
  <1> HIDE DEF top, ps
  <1>5. result \in Operands(heap) /\ result # 0
    BY <1>1, <1>2, <1>3
  <1>6. IsLevel(heap, x) /\ x.op = "" /\ x.left # 0
    <2>1. x = [left |-> top.left, op |-> top.op, precs |-> ps, prefix |-> top.prefix, ops |-> top.ops]
      <3>1. IsLevel(heap, top)
        BY <1>3
      <3> QED BY <3>1, LevelAssigned
    <2>2. top.op = "" /\ top.left # 0 /\ top.left \in {0} \cup Operands(heap)
      BY <1>1, <1>2, <1>3 DEF IsLevel
    <2> HIDE DEF x
    <2> QED BY <2>1, <2>2 DEF IsLevel
  <1>7. ASSUME stack' = <<x>> \o Tail(stack), Keeps(heap, heap'), mode' = mode, error' = error,
               HasIncomplete(heap') <=> HasIncomplete(heap), IsHeap(heap'), result' \in Operands(heap'), result' # 0
        PROVE  ParserInv'
    <2>1. stack' = Replaced(stack, x)
      BY <1>7 DEF Replaced
    <2>2. IsLevel(heap', x)
      BY <1>6, <1>7 DEF IsLevel, Keeps
    <2>3. x.op = "" /\ x.left # 0
      BY <1>6
    <2> HIDE DEF x
    <2>4. IsStack(heap', stack') /\ stack'[1] = x /\ (HangsBelow(stack') <=> HangsBelow(stack))
      <3>1. Keeps(heap, heap') /\ IsStack(heap, stack)
        BY <1>2, <1>7
      <3> QED BY <2>1, <2>2, <3>1, LevelReplaced
    <2>5. Hangs(stack') <=> Hangs(stack)
      BY <1>2, <2>3, <2>4 DEF Hangs, HangsAt
    <2> QED BY <1>1, <1>2, <1>5, <1>7, <2>3, <2>4, <2>5 DEF ParserInv, ReadingInv, Reading, ResultInv, ErrorInv, Failed
  <1>8. CASE /\ heap[result].left # 0 /\ heap[heap[result].left].type = "BINARY_EXP"
             /\ heap' = Rotate(heap, result) /\ result' = heap[result].left
             /\ stack' = <<x>> \o Tail(stack) /\ UNCHANGED <<mode, error>>
    <2> HIDE DEF x
    <2>1. IsHeap(heap') /\ Keeps(heap, heap') /\ (HasIncomplete(heap') <=> HasIncomplete(heap)) /\ result' \in Operands(heap')
      BY <1>2, <1>5, <1>8, Rotated
    <2> QED BY <1>7, <1>8, <2>1
  <1>9. CASE stack' = <<x>> \o Tail(stack) /\ UNCHANGED <<heap, mode, error, result>>
    <2> HIDE DEF x
    <2>1. Keeps(heap, heap') /\ (HasIncomplete(heap') <=> HasIncomplete(heap)) /\ IsHeap(heap')
      BY <1>2, <1>9 DEF Keeps
    <2> QED BY <1>5, <1>7, <1>9, <2>1
  <1> QED BY <1>4, <1>8, <1>9, UndefinedStep

\* A missing parenthesis sets the error, and is NULL for the level around it.
LEMMA ReturnToAtomStep ==
  ASSUME ParserInv, NEW l, ReturnToAtom(l) PROVE ParserInv'
  <1> DEFINE outer == Tail(stack)
             node == IF l = "close" THEN result ELSE 0
  <1>1. mode = "return" /\ Head(stack).precs = <<>> /\ outer # <<>>
    BY DEF ReturnToAtom
  <1>2. /\ IsHeap(heap) /\ IsStack(heap, stack) /\ stack[1].op = "" /\ result \in {0} \cup Operands(heap)
        /\ error <=> HasIncomplete(heap) \/ Hangs(stack) \/ result = 0
    BY <1>1 DEF ParserInv, ReadingInv, Reading, ResultInv, ErrorInv, Failed
  <1>3. (Operand(heap, outer, node) /\ error' = (error \/ ~(l = "close"))) \/ Undefined
    BY DEF ReturnToAtom
  <1>4. node \in {0} \cup Operands(heap) /\ (l = "close" => node = result) /\ (l # "close" => node = 0)
    BY <1>2
  <1>5. IsStack(heap, outer) /\ Waits(outer[1]) /\ (Hangs(outer) <=> HangsBelow(stack))
    BY <1>1, <1>2, LevelPopped
  <1>6. Hangs(stack) <=> Hangs(outer)
    BY <1>2, <1>5 DEF Hangs, HangsAt
  <1> HIDE DEF outer, node
  <1>7. CASE Operand(heap, outer, node) /\ error' = (error \/ ~(l = "close"))
    <2>1. /\ IsHeap(heap') /\ ReadingInv' /\ ResultInv' /\ mode' # "undefined"
          /\ Failed' <=> HasIncomplete(heap) \/ Hangs(outer) \/ node = 0
      BY <1>2, <1>4, <1>5, <1>7, OperandTaken
    <2>2. error' <=> error \/ l # "close"
      BY <1>7
    <2>3. error' <=> HasIncomplete(heap) \/ Hangs(outer) \/ node = 0
      BY <1>2, <1>4, <1>6, <2>2
    <2> QED BY <2>1, <2>3 DEF ParserInv, ErrorInv
  <1> QED BY <1>3, <1>7, UndefinedStep

\* At the end of the only level nothing hangs.
LEMMA ReturnStep ==
  ASSUME ParserInv, Return PROVE ParserInv'
  <1>1. mode = "return" /\ Tail(stack) = <<>> /\ mode' = "done" /\ UNCHANGED <<heap, stack, error, result>>
    BY DEF Return
  <1>2. /\ IsHeap(heap) /\ IsStack(heap, stack) /\ stack[1].op = "" /\ result \in {0} \cup Operands(heap)
        /\ error <=> HasIncomplete(heap) \/ Hangs(stack) \/ result = 0
    BY <1>1 DEF ParserInv, ReadingInv, Reading, ResultInv, ErrorInv, Failed
  <1>3. Len(stack) = 1
    <2>1. IsSeq(stack) /\ Len(stack) > 0
      BY <1>2 DEF IsStack
    <2> DEFINE t == Tail(stack)
    <2>2. Len(t) = Len(stack) - 1 /\ Len(stack) \in Nat
      BY <2>1, PopTop
    <2>3. t = <<>>
      BY <1>1
    <2> HIDE DEF t
    <2> QED BY <2>2, <2>3
  <1>4. ~Hangs(stack)
    <2>1. 2..1 = {}
      OBVIOUS
    <2> QED BY <1>2, <1>3, <2>1 DEF Hangs, HangsAt, HangsBelow
  <1> QED BY <1>1, <1>2, <1>4 DEF ParserInv, ReadingInv, Reading, ResultInv, ErrorInv, Failed

\* Every step of an expression keeps the invariant.
LEMMA ExpressionStep ==
  ASSUME ParserInv, ExpressionNext PROVE ParserInv'
  <1>1. ASSUME NEW l, ReadOther(l) PROVE ParserInv'
    BY <1>1, UndefinedStep DEF ReadOther
  <1> QED BY <1>1, ReadPrefixStep, ReadLeafStep, ReadOpenStep, ReadOperatorStep, ReturnBinaryStep,
             ReturnToAtomStep, ReturnStep DEF ExpressionNext

-----------------------------------------------------------------------------
\* The steps of a statement.

\* A function that calls no other returns, or goes on.
LEMMA Running ==
  /\ ParserInv /\ mode = "call" => IsHeap(heap) /\ (error <=> HasIncomplete(heap))
  /\ ParserInv /\ mode \in {"done", "returned"} => IsHeap(heap) /\ (error <=> HasIncomplete(heap) \/ result = 0)
  /\ ParserInv /\ mode = "done" => result \in {0} \cup Operands(heap)
  BY DEF ParserInv, ReadingInv, Reading, ResultInv, ErrorInv, Failed

\* What is left of the invariant in a function of the statements.
LEMMA Called ==
  IsHeap(heap') /\ mode' = "call" /\ (error' <=> HasIncomplete(heap')) => ParserInv'
  BY DEF ParserInv, ReadingInv, Reading, ResultInv, ErrorInv, Failed

\* What is left of it between two functions.
LEMMA Returned ==
  IsHeap(heap') /\ mode' = "returned" /\ (error' <=> HasIncomplete(heap') \/ result' = 0) => ParserInv'
  BY DEF ParserInv, ReadingInv, Reading, ResultInv, ErrorInv, Failed

\* The error is set, and NULL returned.
LEMMA FailsStep ==
  IsHeap(heap) /\ UNCHANGED heap /\ Fails => ParserInv'
  BY Returned DEF Fails, Returns

\* An expression begins.
LEMMA CallExpressionStep ==
  IsHeap(heap) /\ (error <=> HasIncomplete(heap)) /\ UNCHANGED <<heap, error>> /\ CallExpression => ParserInv'
  <1> SUFFICES ASSUME IsHeap(heap), error <=> HasIncomplete(heap), UNCHANGED <<heap, error>>, CallExpression
               PROVE  ParserInv'
    OBVIOUS
  <1>1. mode' = "atom" /\ stack' = <<Level("")>>
    BY DEF CallExpression
  <1> DEFINE s == <<Level("")>>
  <1>2. IsStack(heap', s) /\ Waits(s[1]) /\ ~Hangs(s)
    BY LevelAlone
  <1>3. stack' = s
    BY <1>1
  <1> HIDE DEF s
  <1> QED BY <1>1, <1>2, <1>3 DEF ParserInv, ReadingInv, Reading, ResultInv, ErrorInv, Failed

\* New nodes are returned, none of which has NULL for an operand.
LEMMA ReturnsNewStep ==
  ASSUME NEW nodes, IsHeap(heap), error <=> HasIncomplete(heap), ReturnsNew(nodes),
         IsSeq(nodes), Len(nodes) # 0, GoodNodes(heap, nodes), ~HasIncomplete(nodes)
  PROVE  ParserInv'
  <1>1. heap' = heap \o nodes /\ mode' = "returned" /\ result' = Len(heap) + Len(nodes) /\ error' = error
    BY DEF ReturnsNew, Returns
  <1>2. GrowsBy(heap, nodes, heap')
    BY <1>1, NodesAllocated
  <1>3. IsHeap(heap') /\ (HasIncomplete(heap') <=> HasIncomplete(heap)) /\ Len(heap) \in Nat /\ Len(nodes) \in Nat
    BY <1>2 DEF GrowsBy, Grows
  <1>4. result' # 0
    BY <1>1, <1>3
  <1> QED BY <1>1, <1>3, <1>4, Returned

\* One new node that is no operator.
LEMMA ReturnsNodeStep ==
  ASSUME NEW x, x.type # "BINARY_EXP", IsHeap(heap), error <=> HasIncomplete(heap), ReturnsNew(<<x>>)
  PROVE  ParserInv'
  <1> DEFINE nodes == <<x>>
  <1>1. nodes \in Seq({x}) /\ Len(nodes) = 1 /\ nodes[1] = x /\ ReturnsNew(nodes)
    OBVIOUS
  <1> HIDE DEF nodes
  <1>2. IsSeq(nodes) /\ Len(nodes) # 0 /\ \A k \in 1..Len(nodes) : nodes[k].type # "BINARY_EXP"
    BY <1>1 DEF IsSeq
  <1>3. GoodNodes(heap, nodes) /\ ~HasIncomplete(nodes)
    BY <1>2 DEF GoodNodes, HasIncomplete
  <1> QED BY <1>1, <1>2, <1>3, ReturnsNewStep

\* The function of the innermost frame goes on, or calls another one.
LEMMA GoesOnStep ==
  ASSUME NEW f, IsHeap(heap), error <=> HasIncomplete(heap), UNCHANGED <<heap, error>>
  PROVE  /\ GoesOn(f) => ParserInv'
         /\ \A fn : CallsFrom(f, fn) => ParserInv'
  BY Called DEF GoesOn, CallsFrom

-----------------------------------------------------------------------------
\* A token that starts no statement is an error.
LEMMA parser_parseStatementStep ==
  ASSUME ParserInv, NEW l, parser_parseStatement(l) PROVE ParserInv'
  <1>1. mode = "call" /\ heap' = heap
    BY DEF parser_parseStatement, At
  <1>2. IsHeap(heap) /\ (error <=> HasIncomplete(heap))
    BY <1>1, Running
  <1>3. (\E f : GoesOn(f) /\ error' = error) \/ Fails
    BY DEF parser_parseStatement
  <1> QED BY <1>1, <1>2, <1>3, GoesOnStep, FailsStep

\* The name of a declaration is not checked.
LEMMA DeclarationNameStep ==
  ASSUME ParserInv, NEW l, DeclarationName(l) PROVE ParserInv'
  <1>1. mode = "call" /\ heap' = heap /\ error' = error
    BY DEF DeclarationName, At
  <1>2. IsHeap(heap) /\ (error <=> HasIncomplete(heap))
    BY <1>1, Running
  <1>3. \E f : GoesOn(f)
    BY DEF DeclarationName
  <1> QED BY <1>1, <1>2, <1>3, GoesOnStep

\* The value of an assignment is an expression; only parser_parseAssignmentOrCall can fail before.
LEMMA parser_parseAssignmentStep ==
  ASSUME ParserInv, NEW l, parser_parseAssignment(l) PROVE ParserInv'
  <1>1. mode = "call" /\ heap' = heap
    BY DEF parser_parseAssignment, At
  <1>2. IsHeap(heap) /\ (error <=> HasIncomplete(heap))
    BY <1>1, Running
  <1>3. (CallExpression /\ error' = error) \/ Fails
    BY DEF parser_parseAssignment, NotAssignment
  <1> QED BY <1>1, <1>2, <1>3, CallExpressionStep, FailsStep

\* The nodes of an assignment, or of a declaration: the value is the right operand.
LEMMA AssignmentNodesStep ==
  ASSUME IsHeap(heap), error <=> HasIncomplete(heap), result \in Operands(heap), ReturnsNew(AssignmentNodes)
  PROVE  ParserInv'
  <1> DEFINE n == Len(heap)
             a == Leaf("TK_ID")
             b == Assignment(n + 1, result)
             c == Declaration(Top.dataType, n + 2)
  <1>1. n \in Nat /\ result \in 1..n /\ n = Len(heap)
    BY OperandsAreNodes
  <1>2. a.type # "BINARY_EXP" /\ c.type # "BINARY_EXP"
    BY DEF Leaf, Declaration
  <1>3. b = BinaryExp(b.op, b.left, b.right) /\ b.left = n + 1 /\ b.right = result
    BY DEF Assignment, BinaryExp
  <1>4. AssignmentNodes = <<a, b>> \o (IF Top.fn = "declaration" THEN <<c>> ELSE <<>>)
    BY DEF AssignmentNodes
  <1> HIDE DEF n, a, b, c
  <1>5. CASE Top.fn = "declaration"
    <2> DEFINE p == <<a, b>>
               q == <<c>>
               nodes == p \o q
    <2>1. AssignmentNodes = nodes
      BY <1>4, <1>5
    <2>2. nodes \in Seq({a, b, c}) /\ Len(nodes) = 3 /\ nodes[1] = a /\ nodes[2] = b /\ nodes[3] = c
      <3>1. p \in Seq({a, b, c}) /\ Len(p) = 2 /\ p[1] = a /\ p[2] = b
        OBVIOUS
      <3>2. q \in Seq({a, b, c}) /\ Len(q) = 1 /\ q[1] = c
        OBVIOUS
      <3> DEFINE U == {a, b, c}
      <3> HIDE DEF p, q, U
      <3>3. p \in Seq(U) /\ q \in Seq(U)
        BY <3>1, <3>2 DEF U
      <3>4. /\ nodes \in Seq(U) /\ Len(nodes) = Len(p) + Len(q)
            /\ \A i \in 1..(Len(p) + Len(q)) : nodes[i] = IF i <= Len(p) THEN p[i] ELSE q[i - Len(p)]
        BY <3>3
      <3> HIDE DEF nodes
      <3>5. Len(nodes) = 3
        BY <3>1, <3>2, <3>4
      <3>6. nodes[1] = p[1] /\ nodes[2] = p[2] /\ nodes[3] = q[1]
        BY <3>1, <3>2, <3>4
      <3> QED BY <3>1, <3>2, <3>4, <3>5, <3>6 DEF U
    <2> HIDE DEF nodes
    <2>3. \A k \in 1..Len(nodes) : nodes[k] = a \/ nodes[k] = b \/ nodes[k] = c
      BY <2>2
    <2>4. IsSeq(nodes) /\ Len(nodes) # 0
      BY <2>2 DEF IsSeq
    <2>5. GoodNodes(heap, nodes) /\ ~HasIncomplete(nodes)
      <3>1. b.left \in 0..(n + 3) /\ b.right \in 1..(n + 3) /\ b.left # 0
        BY <1>1, <1>3
      <3>2. Len(heap) + Len(nodes) = n + 3
        BY <1>1, <2>2
      <3> QED BY <1>2, <1>3, <2>3, <3>1, <3>2 DEF GoodNodes, HasIncomplete
    <2> QED BY <2>1, <2>4, <2>5, ReturnsNewStep
  <1>6. CASE Top.fn # "declaration"
    <2> DEFINE nodes == <<a, b>>
    <2>1. AssignmentNodes = nodes
      BY <1>4, <1>6
    <2>2. nodes \in Seq({a, b}) /\ Len(nodes) = 2 /\ nodes[1] = a /\ nodes[2] = b
      OBVIOUS
    <2> HIDE DEF nodes
    <2>3. \A k \in 1..Len(nodes) : nodes[k] = a \/ nodes[k] = b
      BY <2>2
    <2>4. IsSeq(nodes) /\ Len(nodes) # 0
      BY <2>2 DEF IsSeq
    <2>5. GoodNodes(heap, nodes) /\ ~HasIncomplete(nodes)
      <3>1. b.left \in 0..(n + 2) /\ b.right \in 1..(n + 2) /\ b.left # 0
        BY <1>1, <1>3
      <3>2. Len(heap) + Len(nodes) = n + 2
        BY <1>1, <2>2
      <3> QED BY <1>2, <1>3, <2>3, <3>1, <3>2 DEF GoodNodes, HasIncomplete
    <2> QED BY <2>1, <2>4, <2>5, ReturnsNewStep
  <1> QED BY <1>5, <1>6

\* Without a value the error is set already; without a semicolon it is set here.
LEMMA AssignmentEndsStep ==
  ASSUME ParserInv, NEW l, AssignmentEnds(l) PROVE ParserInv'
  <1>1. mode = "done"
    BY DEF AssignmentEnds, At
  <1>2. IsHeap(heap) /\ (error <=> HasIncomplete(heap) \/ result = 0) /\ result \in {0} \cup Operands(heap)
    BY <1>1, Running
  <1>3. \/ result # 0 /\ ReturnsNew(AssignmentNodes)
        \/ result = 0 /\ Returns(0) /\ UNCHANGED <<heap, error>>
        \/ Fails /\ UNCHANGED heap
    BY DEF AssignmentEnds
  <1>4. CASE result # 0 /\ ReturnsNew(AssignmentNodes)
    BY <1>2, <1>4, AssignmentNodesStep
  <1>5. CASE result = 0 /\ Returns(0) /\ UNCHANGED <<heap, error>>
    BY <1>2, <1>5, Returned DEF Returns
  <1>6. CASE Fails /\ UNCHANGED heap
    BY <1>2, <1>6, FailsStep
  <1> QED BY <1>3, <1>4, <1>5, <1>6

\* parser_check_silent returns NULL for NULL: the error is set already.
LEMMA ExpressionFailsStep ==
  ASSUME ParserInv, ExpressionFails PROVE ParserInv'
  <1>1. mode = "done" /\ result = 0 /\ Returns(0) /\ UNCHANGED <<heap, error>>
    BY DEF ExpressionFails, At
  <1>2. IsHeap(heap) /\ (error <=> HasIncomplete(heap) \/ result = 0)
    BY <1>1, Running
  <1> QED BY <1>1, <1>2, Returned DEF Returns

\* The condition is an expression behind a parenthesis.
LEMMA ConditionOpensStep ==
  ASSUME ParserInv, NEW l, ConditionOpens(l) PROVE ParserInv'
  <1>1. mode = "call" /\ heap' = heap
    BY DEF ConditionOpens, At
  <1>2. IsHeap(heap) /\ (error <=> HasIncomplete(heap))
    BY <1>1, Running
  <1>3. (CallExpression /\ error' = error) \/ Fails
    BY DEF ConditionOpens
  <1> QED BY <1>1, <1>2, <1>3, CallExpressionStep, FailsStep

\* A block follows the condition, or the parenthesis is missing.
LEMMA ConditionEndsStep ==
  ASSUME ParserInv, NEW l, ConditionEnds(l) PROVE ParserInv'
  <1>1. mode = "done" /\ result # 0 /\ heap' = heap
    BY DEF ConditionEnds, At
  <1>2. IsHeap(heap) /\ (error <=> HasIncomplete(heap))
    BY <1>1, Running
  <1>3. (\E f : CallsFrom(f, "block") /\ error' = error) \/ Fails
    BY DEF ConditionEnds
  <1> QED BY <1>1, <1>2, <1>3, GoesOnStep, FailsStep

\* NULL is passed on, a block becomes a part of the node that had it parsed.
LEMMA BlockReturnedStep ==
  ASSUME ParserInv, BlockReturned PROVE ParserInv'
  <1>1. mode = "returned" /\ Top.fn \in {"if", "while", "function"}
    BY DEF BlockReturned, At, Top
  <1>2. IsHeap(heap) /\ (error <=> HasIncomplete(heap) \/ result = 0)
    BY <1>1, Running
  <1>3. CASE result = 0
    BY <1>2, <1>3, Returned DEF BlockReturned, Returns
  <1>4. CASE result # 0
    <2> DEFINE x == CASE Top.fn = "if" -> If(Top.condition, result)
                      [] Top.fn = "while" -> While(Top.condition, result)
                      [] Top.fn = "function" -> Function(Top.dataType, result)
    <2>1. ReturnsNew(<<x>>)
      BY <1>4 DEF BlockReturned
    <2>2. x = If(Top.condition, result) \/ x = While(Top.condition, result) \/ x = Function(Top.dataType, result)
      BY <1>1
    <2> HIDE DEF x
    <2>3. x.type # "BINARY_EXP"
      BY <2>2 DEF If, While, Function
    <2> QED BY <1>2, <1>4, <2>1, <2>3, ReturnsNodeStep
  <1> QED BY <1>3, <1>4

\* A return statement has a semicolon.
LEMMA parser_parseReturnStep ==
  ASSUME ParserInv, NEW l, parser_parseReturn(l) PROVE ParserInv'
  <1> DEFINE x == [type |-> "RETURN"]
  <1>1. mode = "call" /\ (ReturnsNew(<<x>>) \/ (Fails /\ heap' = heap))
    BY DEF parser_parseReturn, At
  <1>2. IsHeap(heap) /\ (error <=> HasIncomplete(heap))
    BY <1>1, Running
  <1>3. x.type # "BINARY_EXP"
    OBVIOUS
  <1> HIDE DEF x
  <1> QED BY <1>1, <1>2, <1>3, ReturnsNodeStep, FailsStep

\* A block calls for a statement, or for its first one.
LEMMA BlockStartsStep ==
  ASSUME ParserInv, NEW l, BlockStarts(l) PROVE ParserInv'
  <1>1. mode = "call" /\ heap' = heap /\ error' = error
    BY DEF BlockStarts, At
  <1>2. IsHeap(heap) /\ (error <=> HasIncomplete(heap))
    BY <1>1, Running
  <1>3. \E f : GoesOn(f) \/ CallsFrom(f, "statement")
    BY DEF BlockStarts
  <1> QED BY <1>1, <1>2, <1>3, GoesOnStep

\* The end of the text in a block is an error.
LEMMA BlockLoopStep ==
  ASSUME ParserInv, NEW l, BlockLoop(l) PROVE ParserInv'
  <1> DEFINE x == Block(Top.childs)
  <1>1. mode = "call"
    BY DEF BlockLoop, At
  <1>2. IsHeap(heap) /\ (error <=> HasIncomplete(heap))
    BY <1>1, Running
  <1>3. \/ Fails /\ heap' = heap
        \/ ReturnsNew(<<x>>)
        \/ CallsFrom(Top, "statement") /\ UNCHANGED <<heap, error>>
    BY DEF BlockLoop
  <1>4. x.type # "BINARY_EXP"
    BY DEF Block
  <1> HIDE DEF x
  <1> QED BY <1>2, <1>3, <1>4, FailsStep, ReturnsNodeStep, GoesOnStep

\* NULL is passed on, a statement becomes a child of the block.
LEMMA StatementReturnedStep ==
  ASSUME ParserInv, StatementReturned PROVE ParserInv'
  <1> DEFINE childs == Append(Top.childs, result)
             x == Block(childs)
  <1>1. mode = "returned"
    BY DEF StatementReturned
  <1>2. IsHeap(heap) /\ (error <=> HasIncomplete(heap) \/ result = 0)
    BY <1>1, Running
  <1>3. \/ result = 0 /\ Returns(0) /\ UNCHANGED <<heap, error>>
        \/ result # 0 /\ (\E f : GoesOn(f)) /\ UNCHANGED <<heap, error>>
        \/ result # 0 /\ ReturnsNew(<<x>>)
        \/ mode' = "undefined" /\ heap' = heap
    BY DEF StatementReturned, StatementFailed
  <1>4. x.type # "BINARY_EXP"
    BY DEF Block
  <1> HIDE DEF x
  <1>5. CASE result = 0 /\ Returns(0) /\ UNCHANGED <<heap, error>>
    BY <1>2, <1>5, Returned DEF Returns
  <1>6. CASE result # 0 /\ (\E f : GoesOn(f)) /\ UNCHANGED <<heap, error>>
    BY <1>2, <1>6, GoesOnStep
  <1>7. CASE result # 0 /\ ReturnsNew(<<x>>)
    BY <1>2, <1>4, <1>7, ReturnsNodeStep
  <1>8. CASE mode' = "undefined" /\ heap' = heap
    BY <1>2, <1>8 DEF ParserInv, ReadingInv, Reading, ResultInv, ErrorInv
  <1> QED BY <1>3, <1>5, <1>6, <1>7, <1>8

\* A token that a function does not want is an error.
LEMMA parser_parseFunctionStep ==
  ASSUME ParserInv, NEW l, parser_parseFunction(l) PROVE ParserInv'
  <1>1. mode = "call" /\ heap' = heap
    BY DEF parser_parseFunction
  <1>2. IsHeap(heap) /\ (error <=> HasIncomplete(heap))
    BY <1>1, Running
  <1>3. (\E f : (GoesOn(f) \/ CallsFrom(f, "block")) /\ error' = error) \/ Fails
    BY DEF parser_parseFunction
  <1> QED BY <1>1, <1>2, <1>3, GoesOnStep, FailsStep

\* parser_module sets no error: it does not come to an end.
LEMMA parser_moduleStep ==
  ASSUME ParserInv, NEW l, parser_module(l) PROVE ParserInv'
  <1>1. mode = "call" /\ mode' \in {"call", "undefined"} /\ UNCHANGED <<heap, error>>
    BY DEF parser_module, At
  <1>2. IsHeap(heap) /\ (error <=> HasIncomplete(heap))
    BY <1>1, Running
  <1> QED BY <1>1, <1>2 DEF ParserInv, ReadingInv, Reading, ResultInv, ErrorInv, Failed

-----------------------------------------------------------------------------
\* Every step of a statement keeps the invariant.
LEMMA StatementStep ==
  ASSUME ParserInv, StatementNext PROVE ParserInv'
  BY parser_parseStatementStep, DeclarationNameStep, parser_parseAssignmentStep, AssignmentEndsStep, ConditionOpensStep,
     ConditionEndsStep, parser_parseReturnStep, BlockStartsStep, BlockLoopStep, parser_parseFunctionStep, parser_moduleStep,
     ExpressionFailsStep, BlockReturnedStep, StatementReturnedStep
  DEF StatementNext

\* The invariant holds initially.
LEMMA InitParserInv ==
  Init => ParserInv
  <1> SUFFICES ASSUME Init PROVE ParserInv
    OBVIOUS
  <1>1. /\ heap = <<>> /\ stack = <<Level("")>> /\ mode \in {"atom", "call"} /\ error = FALSE
    BY DEF Init, ExpressionInit, ParserInit
  <1>2. IsHeap(heap) /\ ~HasIncomplete(heap)
    <2> DEFINE h == <<>>
    <2>1. h \in Seq({}) /\ Len(h) = 0
      OBVIOUS
    <2>2. heap = h
      BY <1>1
    <2>3. 1..0 = {}
      OBVIOUS
    <2> HIDE DEF h
    <2> QED BY <2>1, <2>2, <2>3 DEF IsHeap, IsSeq, HasIncomplete
  <1> DEFINE s == <<Level("")>>
  <1>3. IsStack(heap, s) /\ Waits(s[1]) /\ ~Hangs(s)
    BY LevelAlone
  <1>4. stack = s
    BY <1>1
  <1> HIDE DEF s
  <1> QED BY <1>1, <1>2, <1>3, <1>4 DEF ParserInv, ReadingInv, Reading, ResultInv, ErrorInv, Failed

\* Every step keeps the invariant.
LEMMA NextParserInv ==
  ParserInv /\ [Next]_vars => ParserInv'
  <1> SUFFICES ASSUME ParserInv, [Next]_vars PROVE ParserInv'
    OBVIOUS
  <1>1. CASE ExpressionNext
    BY <1>1, ExpressionStep
  <1>2. CASE StatementNext
    BY <1>2, StatementStep
  <1>3. CASE UNCHANGED vars
    <2>1. UNCHANGED <<heap, stack, mode, error, result>>
      BY <1>3 DEF vars, expressionVars
    <2> QED BY <2>1 DEF ParserInv, ReadingInv, Reading, ResultInv, ErrorInv, Failed
  <1> QED BY <1>1, <1>2, <1>3 DEF Next, Stopped

\* The invariant says what is asked for.
LEMMA ParserInvIsEnough ==
  ParserInv => FailureReported
  <1> SUFFICES ASSUME ParserInv, Finished PROVE error <=> result = 0 \/ Incomplete
    BY DEF FailureReported
  <1>1. mode \in {"done", "returned"}
    BY DEF Finished
  <1>2. IsHeap(heap) /\ (error <=> HasIncomplete(heap) \/ result = 0)
    BY <1>1, Running
  <1>3. DOMAIN heap = 1..Len(heap)
    <2>1. PICK S : heap \in Seq(S)
      BY <1>2 DEF IsHeap, IsSeq
    <2> QED BY <2>1
  <1> QED BY <1>2, <1>3 DEF Incomplete, HasIncomplete

\* However deep the call was that met an error, and whatever was parsed before it:
\* when parsing ends, parser->error is set exactly if NULL is returned, or a tree
\* that has NULL for the first operand of an expression.
THEOREM FailureReportedAlways == Spec => []FailureReported
  <1>1. Spec => []ParserInv
    BY InitParserInv, NextParserInv, PTL DEF Spec
  <1>2. ParserInv => FailureReported
    BY ParserInvIsEnough
  <1> QED BY <1>1, <1>2, PTL
=============================================================================
