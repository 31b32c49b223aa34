------------------------- MODULE IrCreationProofs -------------------------
(***************************************************************************)
(* What ir_creation.c guarantees for every program, of any length and any   *)
(* nesting: scoping puts an assignment before every load, a second jump     *)
(* stands in a block only where a loop is closed in the first block of its  *)
(* body, and apart from that all blocks are connected.                      *)
(***************************************************************************)
EXTENDS IrCreation, SequenceTheorems, FiniteSetTheorems, WellFoundedInduction, TLAPS

-----------------------------------------------------------------------------
\* Types.

Values == {"V_BLOCK", "INST", "CONST", "NULL"} \X Nat

\* What a node of an expression leaves.
Operands == {"INST", "CONST"} \X Nat

InstTypes == {"INST_LOAD_VAR", "INST_ASSIGN_VAR", "INST_BINARY", "INST_JUMP", "INST_JUMP_COND", "INST_RETURN"}

ValueTypes == {"INT64", "VOID", "DT_BLOCK"}

Inst == [type : InstTypes, dataType : ValueTypes, rId : Nat, parent : Nat, uses : Seq(Values)]

IsIR(c) ==
    /\ c = [inst |-> c.inst, block |-> c.block, consts |-> c.consts, uses |-> c.uses]
    /\ c.inst \in Seq(Inst)
    /\ c.block \in Seq(Seq(Nat))
    /\ c.consts \in Nat

IsJump(i) == i.type \in {"INST_JUMP", "INST_JUMP_COND"}

\* The kinds of instruction that ir_creation.c makes, and their operands; n is
\* the number of blocks.
Shaped(i, n) ==
    \/ i.type = "INST_LOAD_VAR" /\ Len(i.uses) = 0
    \/ i.type = "INST_RETURN" /\ Len(i.uses) = 0
    \/ i.type = "INST_ASSIGN_VAR" /\ Len(i.uses) = 1 /\ i.uses[1] \in Operands
    \/ i.type = "INST_BINARY" /\ Len(i.uses) = 2 /\ i.uses[1] \in Operands /\ i.uses[2] \in Operands
    \/ i.type = "INST_JUMP" /\ Len(i.uses) = 1 /\ \E t \in 1..n : i.uses[1] = BlockValue(t)
    \/ /\ i.type = "INST_JUMP_COND" /\ Len(i.uses) = 3
       /\ \E t, u \in 1..n : i.uses[1] = BlockValue(t) /\ i.uses[2] = BlockValue(u)
       /\ i.uses[3] \in Operands

\* The use list of block t.
UsersOf(c, t) == c.uses[BlockValue(t)]

HasUsers(c, t) == BlockValue(t) \in DOMAIN c.uses /\ UsersOf(c, t) \in Seq(Nat \X Nat)

\* The use list of block t names the operands that are t, those of earlier
\* instructions first.
Listed(c, t) ==
    /\ HasUsers(c, t)
    /\ \A k \in 1..Len(UsersOf(c, t)) : \E i \in 1..Len(c.inst) : \E s \in 1..Len(c.inst[i].uses) :
          UsersOf(c, t)[k][1] = i /\ UsersOf(c, t)[k][2] = s /\ c.inst[i].uses[s] = BlockValue(t)
    /\ \A k \in 1..Len(UsersOf(c, t)) : \A m \in 1..k : UsersOf(c, t)[m][1] <= UsersOf(c, t)[k][1]
    /\ \A i \in 1..Len(c.inst) : \A s \in 1..Len(c.inst[i].uses) :
          c.inst[i].uses[s] = BlockValue(t) => \E k \in 1..Len(UsersOf(c, t)) : UsersOf(c, t)[k][1] = i /\ UsersOf(c, t)[k][2] = s

\* Instructions and their blocks point to each other, and so do blocks and the
\* operands that name them.
Linked(c) ==
    /\ \A b \in 1..Len(c.block) : \A k \in 1..Len(c.block[b]) : c.inst[c.block[b][k]].parent = b
    /\ \A i \in 1..Len(c.inst) : \E b \in 1..Len(c.block) : \E k \in 1..Len(c.block[b]) : c.block[b][k] = i
    /\ \A t \in 1..Len(c.block) : Listed(c, t)

\* Every instruction has its operands, and blocks hold instructions.
Built(c) ==
    /\ IsIR(c)
    /\ \A i \in 1..Len(c.inst) : Shaped(c.inst[i], Len(c.block))
    /\ \A b \in 1..Len(c.block) : \A k \in 1..Len(c.block[b]) : c.block[b][k] \in 1..Len(c.inst)
    /\ Linked(c)

-----------------------------------------------------------------------------
\* The operations of the IR.

\* The use list of block t has gained the operands of instruction n that are t.
Gains(l, m, n, uses, t) ==
    /\ m \in Seq(Nat \X Nat) /\ Len(l) <= Len(m)
    /\ \A k \in 1..Len(l) : m[k] = l[k]
    /\ \A k \in (Len(l) + 1)..Len(m) : \E s \in 1..Len(uses) : m[k][1] = n /\ m[k][2] = s /\ uses[s] = BlockValue(t)
    /\ \A s \in 1..Len(uses) : uses[s] = BlockValue(t) => \E k \in 1..Len(m) : m[k][1] = n /\ m[k][2] = s

\* Every block knows the new instruction that uses it.
Gained(c, d, uses) ==
    \A t \in Nat : HasUsers(c, t) =>
        BlockValue(t) \in DOMAIN d.uses /\ Gains(UsersOf(c, t), UsersOf(d, t), Len(c.inst) + 1, uses, t)

\* d is c with one more instruction, in no block.
Makes(c, d, type, r, uses) ==
    /\ IsIR(d)
    /\ d.block = c.block
    /\ Len(d.inst) = Len(c.inst) + 1
    /\ \A i \in 1..Len(c.inst) : d.inst[i] = c.inst[i]
    /\ d.inst[Len(c.inst) + 1].type = type
    /\ d.inst[Len(c.inst) + 1].rId = r
    /\ d.inst[Len(c.inst) + 1].uses = uses
    /\ Gained(c, d, uses)

\* _inst_new_*.
LEMMA NewInst ==
  ASSUME NEW c, IsIR(c), NEW type \in InstTypes, NEW dataType \in ValueTypes, NEW r \in Nat, NEW n \in Nat
  PROVE  Makes(c, InstNew(c, type, dataType, r, n), type, r, [s \in 1..n |-> NoValue])
  <1> DEFINE i == [type |-> type, dataType |-> dataType, rId |-> r, parent |-> 0, uses |-> [s \in 1..n |-> NoValue]]
             d == InstNew(c, type, dataType, r, n)
  <1>1. NoValue \in Values
    BY DEF NoValue, Values
  <1>2. [s \in 1..n |-> NoValue] \in Seq(Values)
    BY <1>1
  <1>3. i \in Inst
    BY <1>2 DEF Inst
  <1> DEFINE c1 == [c EXCEPT !.inst = Append(@, i)]
             w == [x \in DOMAIN c1.uses \cup {InstValue(Len(c.inst) + 1)} |->
                     IF x = InstValue(Len(c.inst) + 1) THEN <<>> ELSE c1.uses[x]]
  <1>0. c1 = [inst |-> Append(c.inst, i), block |-> c.block, consts |-> c.consts, uses |-> c.uses]
    <2>1. c = [inst |-> c.inst, block |-> c.block, consts |-> c.consts, uses |-> c.uses]
      BY DEF IsIR
    <2> HIDE DEF i
    <2> QED BY <2>1
  <1>4. d = [c1 EXCEPT !.uses = w]
    BY DEF InstNew, ValueInit
  <1> HIDE DEF c1, w, d
  <1>4a. d.inst = Append(c.inst, i) /\ d.block = c.block /\ d.consts = c.consts
    <2> HIDE DEF i
    <2> QED BY <1>0, <1>4
  <1>5. d = [inst |-> d.inst, block |-> d.block, consts |-> d.consts, uses |-> d.uses]
    <2> HIDE DEF i
    <2> QED BY <1>0, <1>4
  <1>6. c.inst \in Seq(Inst) /\ Len(c.inst) \in Nat
    BY DEF IsIR
  <1>7. d.inst \in Seq(Inst) /\ Len(d.inst) = Len(c.inst) + 1
    BY <1>3, <1>4a, <1>6
  <1>8. \A k \in 1..Len(c.inst) : d.inst[k] = c.inst[k]
    BY <1>3, <1>4a, <1>6
  <1>9. d.inst[Len(c.inst) + 1] = i
    BY <1>3, <1>4a, <1>6
  <1>10. IsIR(d)
    BY <1>4a, <1>5, <1>7 DEF IsIR
  <1>11. ASSUME NEW t \in Nat, HasUsers(c, t)
         PROVE  BlockValue(t) \in DOMAIN d.uses /\ Gains(UsersOf(c, t), UsersOf(d, t), Len(c.inst) + 1, [s \in 1..n |-> NoValue], t)
    <2>1. d.uses = w /\ c1.uses = c.uses
      <3> HIDE DEF i
      <3> QED BY <1>0, <1>4
    <2>2. BlockValue(t) # InstValue(Len(c.inst) + 1) /\ BlockValue(t) # NoValue
      BY DEF BlockValue, InstValue, NoValue
    <2>3. BlockValue(t) \in DOMAIN d.uses /\ UsersOf(d, t) = UsersOf(c, t)
      BY <1>11, <2>1, <2>2 DEF w, HasUsers, UsersOf
    <2>4. UsersOf(c, t) \in Seq(Nat \X Nat)
      BY <1>11 DEF HasUsers
    <2>5. Gains(UsersOf(c, t), UsersOf(c, t), Len(c.inst) + 1, [s \in 1..n |-> NoValue], t)
      BY <1>2, <2>2, <2>4 DEF Gains
    <2> QED BY <2>3, <2>5
  <1>12. Gained(c, d, [s \in 1..n |-> NoValue])
    BY <1>11 DEF Gained
  <1> QED BY <1>4a, <1>7, <1>8, <1>9, <1>10, <1>12 DEF Makes, d

\* list_add puts the new use behind the others, on the list of its own value only.
LEMMA GainsUse ==
  ASSUME NEW t \in Nat, NEW n \in Nat, NEW uses \in Seq(Values), NEW s \in 1..Len(uses), NEW v \in Values,
         uses[s] # BlockValue(t),
         NEW l \in Seq(Nat \X Nat), NEW m, Gains(l, m, n, uses, t)
  PROVE  Gains(l, IF BlockValue(t) = v THEN Append(m, <<n, s>>) ELSE m, n, [uses EXCEPT ![s] = v], t)
  <1> DEFINE u == [uses EXCEPT ![s] = v]
  <1>1. Len(u) = Len(uses) /\ u[s] = v /\ \A k \in 1..Len(uses) : k # s => u[k] = uses[k]
    OBVIOUS
  <1> HIDE DEF u
  <1>2. /\ m \in Seq(Nat \X Nat) /\ Len(l) <= Len(m) /\ Len(l) \in Nat /\ Len(m) \in Nat
        /\ \A k \in 1..Len(l) : m[k] = l[k]
        /\ \A k \in (Len(l) + 1)..Len(m) : \E q \in 1..Len(uses) : m[k][1] = n /\ m[k][2] = q /\ uses[q] = BlockValue(t)
        /\ \A q \in 1..Len(uses) : uses[q] = BlockValue(t) => \E k \in 1..Len(m) : m[k][1] = n /\ m[k][2] = q
    BY DEF Gains
  <1>3. CASE BlockValue(t) # v
    <2>1. \A q \in 1..Len(uses) : u[q] = BlockValue(t) <=> uses[q] = BlockValue(t)
      BY <1>1, <1>3
    <2> QED BY <1>1, <1>2, <1>3, <2>1 DEF Gains, u
  <1>4. CASE BlockValue(t) = v
    <2> DEFINE a == Append(m, <<n, s>>)
    <2>1. <<n, s>> \in Nat \X Nat
      OBVIOUS
    <2>2. /\ a \in Seq(Nat \X Nat) /\ Len(a) = Len(m) + 1 /\ a[Len(m) + 1][1] = n /\ a[Len(m) + 1][2] = s
          /\ \A k \in 1..Len(m) : a[k] = m[k]
      BY <1>2, <2>1
    <2> HIDE DEF a
    <2>3. Len(l) <= Len(a) /\ \A k \in 1..Len(l) : a[k] = l[k]
      BY <1>2, <2>2
    <2>4. ASSUME NEW k \in (Len(l) + 1)..Len(a) PROVE \E q \in 1..Len(u) : a[k][1] = n /\ a[k][2] = q /\ u[q] = BlockValue(t)
      <3>1. CASE k = Len(m) + 1
        BY <1>1, <1>4, <2>2, <3>1
      <3>2. CASE k # Len(m) + 1
        <4>1. k \in (Len(l) + 1)..Len(m) /\ k \in 1..Len(m)
          BY <1>2, <2>2, <3>2
        <4>2. PICK q \in 1..Len(uses) : m[k][1] = n /\ m[k][2] = q /\ uses[q] = BlockValue(t)
          BY <1>2, <4>1
        <4> QED BY <1>1, <2>2, <4>1, <4>2
      <3> QED BY <3>1, <3>2
    <2>5. ASSUME NEW q \in 1..Len(u), u[q] = BlockValue(t) PROVE \E k \in 1..Len(a) : a[k][1] = n /\ a[k][2] = q
      <3>1. CASE q = s
        <4>1. Len(m) + 1 \in 1..Len(a)
          BY <1>2, <2>2
        <4> QED BY <2>2, <3>1, <4>1
      <3>2. CASE q # s
        <4>1. PICK k \in 1..Len(m) : m[k][1] = n /\ m[k][2] = q
          BY <1>1, <1>2, <2>5, <3>2
        <4>2. k \in 1..Len(a)
          BY <1>2, <2>2
        <4> QED BY <2>2, <4>1, <4>2
      <3> QED BY <3>1, <3>2
    <2>6. Gains(l, a, n, u, t)
      BY <2>2, <2>3, <2>4, <2>5 DEF Gains
    <2> QED BY <1>4, <2>6 DEF a, u
  <1> QED BY <1>3, <1>4

\* inst_setUse of an operand that was not set.
LEMMA SetUse ==
  ASSUME NEW c, NEW d, NEW type, NEW r, NEW uses \in Seq(Values), Makes(c, d, type, r, uses), IsIR(c),
         NEW s \in 1..Len(uses), uses[s] = NoValue, NEW v \in Values
  PROVE  Makes(c, inst_setUse(d, Len(c.inst) + 1, s, v), type, r, [uses EXCEPT ![s] = v])
  <1> DEFINE i == Len(c.inst) + 1
             e == inst_setUse(d, Len(c.inst) + 1, s, v)
  <1>1. /\ IsIR(d) /\ d.block = c.block /\ Len(d.inst) = i /\ i \in Nat /\ i \in 1..Len(d.inst)
        /\ d.inst[i].uses = uses /\ d.inst[i].type = type /\ d.inst[i].rId = r
        /\ c.inst \in Seq(Inst) /\ Len(c.inst) \in Nat
    BY DEF Makes, IsIR
  <1> DEFINE made == [d.inst EXCEPT ![i].uses[s] = v]
             w == [d.uses EXCEPT ![v] = Append(@, <<i, s>>)]
  <1>a. e = [d EXCEPT !.inst[i].uses[s] = v, !.uses = w]
    BY <1>1 DEF inst_setUse
  <1>b. d = [inst |-> d.inst, block |-> d.block, consts |-> d.consts, uses |-> d.uses]
    BY <1>1 DEF IsIR
  <1>c. e = [inst |-> made, block |-> d.block, consts |-> d.consts, uses |-> w]
    <2> HIDE DEF e, w
    <2> QED BY <1>a, <1>b
  <1> HIDE DEF e, made
  <1>2. e.inst = [d.inst EXCEPT ![i].uses[s] = v] /\ e.block = d.block /\ e.consts = d.consts
    BY <1>c DEF made
  <1>3. e = [inst |-> e.inst, block |-> e.block, consts |-> e.consts, uses |-> e.uses]
    BY <1>c
  <1>4. d.inst \in Seq(Inst) /\ d.inst[i] \in Inst
    BY <1>1 DEF IsIR
  <1> DEFINE x == [d.inst[i] EXCEPT !.uses[s] = v]
  <1>5. [uses EXCEPT ![s] = v] \in Seq(Values)
    OBVIOUS
  <1>6. x \in Inst /\ x.uses = [uses EXCEPT ![s] = v] /\ x.type = type /\ x.rId = r
    BY <1>1, <1>4, <1>5 DEF Inst
  <1>7. e.inst = [d.inst EXCEPT ![i] = x]
    BY <1>2
  <1> HIDE DEF x
  <1>8. e.inst \in Seq(Inst) /\ Len(e.inst) = i /\ e.inst[i] = x
    BY <1>1, <1>4, <1>6, <1>7
  <1>9. \A k \in 1..Len(c.inst) : e.inst[k] = c.inst[k]
    <2> TAKE k \in 1..Len(c.inst)
    <2>1. k \in 1..Len(d.inst) /\ k # i
      BY <1>1
    <2>2. e.inst[k] = d.inst[k]
      BY <1>4, <1>7, <2>1
    <2> QED BY <2>2 DEF Makes
  <1>10. IsIR(e)
    BY <1>1, <1>2, <1>3, <1>8 DEF IsIR
  <1>11. ASSUME NEW t \in Nat, HasUsers(c, t)
         PROVE  BlockValue(t) \in DOMAIN e.uses /\ Gains(UsersOf(c, t), UsersOf(e, t), i, [uses EXCEPT ![s] = v], t)
    <2>1. BlockValue(t) \in DOMAIN d.uses /\ Gains(UsersOf(c, t), UsersOf(d, t), i, uses, t)
      BY <1>11 DEF Makes, Gained
    <2>2. e.uses = [d.uses EXCEPT ![v] = Append(@, <<i, s>>)]
      BY <1>c DEF w
    <2>3. BlockValue(t) \in DOMAIN e.uses
          /\ UsersOf(e, t) = IF BlockValue(t) = v THEN Append(UsersOf(d, t), <<i, s>>) ELSE UsersOf(d, t)
      BY <2>1, <2>2 DEF UsersOf
    <2>4. uses[s] # BlockValue(t)
      BY DEF NoValue, BlockValue
    <2>5. UsersOf(c, t) \in Seq(Nat \X Nat) /\ i \in Nat
      BY <1>1, <1>11 DEF HasUsers
    <2>6. Gains(UsersOf(c, t), IF BlockValue(t) = v THEN Append(UsersOf(d, t), <<i, s>>) ELSE UsersOf(d, t), i,
                [uses EXCEPT ![s] = v], t)
      <3> HIDE DEF i
      <3> QED BY <2>1, <2>4, <2>5, GainsUse
    <2> QED BY <2>3, <2>6
  <1>12. Gained(c, e, [uses EXCEPT ![s] = v])
    BY <1>11 DEF Gained
  <1> QED BY <1>1, <1>2, <1>6, <1>8, <1>9, <1>10, <1>12 DEF Makes, e

\* Sequences of operands are the same if they have the same operands.
LEMMA SameUses ==
  ASSUME NEW u \in Seq(Values), NEW w \in Seq(Values), Len(u) = Len(w), \A s \in 1..Len(u) : u[s] = w[s]
  PROVE  u = w
  OBVIOUS

\* The three kinds of value are told apart by their tag.
LEMMA ValuesAre ==
  /\ \A t \in Nat : BlockValue(t) \in Values
  /\ \A t \in Nat : InstValue(t) \in Operands /\ ConstValue(t) \in Operands
  /\ \A v \in Operands : v \in Values /\ v[1] # "V_BLOCK"
  /\ \A t \in Nat : BlockValue(t)[1] = "V_BLOCK" /\ BlockValue(t)[2] = t
  /\ NoValue \in Values
  BY DEF BlockValue, Values, Operands, InstValue, ConstValue, NoValue

\* One operand is set.
LEMMA UseSet ==
  ASSUME NEW u \in Seq(Values), NEW s \in 1..Len(u), NEW v \in Values
  PROVE  /\ [u EXCEPT ![s] = v] \in Seq(Values)
         /\ Len([u EXCEPT ![s] = v]) = Len(u)
         /\ [u EXCEPT ![s] = v][s] = v
         /\ \A k \in 1..Len(u) : k # s => [u EXCEPT ![s] = v][k] = u[k]
  BY ExceptSeq

\* The instructions ir_creation.c makes.
LEMMA MadeLoad ==
  ASSUME NEW c, IsIR(c), NEW r \in Nat, NEW dataType \in ValueTypes
  PROVE  \E u \in Seq(Values) : Len(u) = 0 /\ Makes(c, inst_new_load_var(c, r, dataType), "INST_LOAD_VAR", r, u)
  <1>1. Makes(c, InstNew(c, "INST_LOAD_VAR", dataType, r, 0), "INST_LOAD_VAR", r, [s \in 1..0 |-> NoValue])
    BY NewInst DEF InstTypes, ValueTypes
  <1>2. [s \in 1..0 |-> NoValue] \in Seq(Values) /\ Len([s \in 1..0 |-> NoValue]) = 0
    BY ValuesAre
  <1> QED BY <1>1, <1>2 DEF inst_new_load_var

\* inst_new_return makes a return.
LEMMA MadeReturn ==
  ASSUME NEW c, IsIR(c)
  PROVE  \E u \in Seq(Values) : Len(u) = 0 /\ Makes(c, inst_new_return(c), "INST_RETURN", 0, u)
  <1>1. Makes(c, InstNew(c, "INST_RETURN", "VOID", 0, 0), "INST_RETURN", 0, [s \in 1..0 |-> NoValue])
    BY NewInst DEF InstTypes, ValueTypes
  <1>2. [s \in 1..0 |-> NoValue] \in Seq(Values) /\ Len([s \in 1..0 |-> NoValue]) = 0
    BY ValuesAre
  <1> QED BY <1>1, <1>2 DEF inst_new_return

\* An instruction with one operand, as inst_new_assign_var and inst_new_jump make it.
LEMMA MadeOne ==
  ASSUME NEW c, IsIR(c), NEW type \in InstTypes, NEW r \in Nat, NEW v \in Values
  PROVE  \E u \in Seq(Values) :
           /\ Len(u) = 1 /\ u[1] = v
           /\ Makes(c, inst_setUse(InstNew(c, type, "VOID", r, 1), Len(c.inst) + 1, 1, v), type, r, u)
  <1> DEFINE u == [s \in 1..1 |-> NoValue]
  <1>1. Makes(c, InstNew(c, type, "VOID", r, 1), type, r, u)
    BY NewInst DEF InstTypes, ValueTypes
  <1>2. u \in Seq(Values) /\ Len(u) = 1 /\ u[1] = NoValue
    BY ValuesAre
  <1> HIDE DEF u
  <1>3. Makes(c, inst_setUse(InstNew(c, type, "VOID", r, 1), Len(c.inst) + 1, 1, v), type, r, [u EXCEPT ![1] = v])
    BY <1>1, <1>2, SetUse, 1 \in 1..Len(u)
  <1>4. [u EXCEPT ![1] = v] \in Seq(Values) /\ Len([u EXCEPT ![1] = v]) = 1 /\ [u EXCEPT ![1] = v][1] = v
    BY <1>2, UseSet, 1 \in 1..Len(u)
  <1> QED BY <1>3, <1>4

\* inst_new_binary makes a binary instruction with its two operands.
LEMMA MadeBinary ==
  ASSUME NEW c, IsIR(c), NEW v \in Values, NEW w \in Values, DataTypeOf(c, v) \in ValueTypes
  PROVE  \E u \in Seq(Values) :
           /\ Len(u) = 2 /\ u[1] = v /\ u[2] = w
           /\ Makes(c, inst_new_binary(c, v, w), "INST_BINARY", 0, u)
  <1> DEFINE u == [s \in 1..2 |-> NoValue]
             u1 == [u EXCEPT ![1] = v]
             u2 == [u1 EXCEPT ![2] = w]
             d == InstNew(c, "INST_BINARY", DataTypeOf(c, v), 0, 2)
             d1 == inst_setUse(d, Len(c.inst) + 1, 1, v)
             d2 == inst_setUse(d1, Len(c.inst) + 1, 2, w)
  <1>1. Makes(c, d, "INST_BINARY", 0, u)
    BY NewInst DEF InstTypes, ValueTypes
  <1>2. u \in Seq(Values) /\ Len(u) = 2 /\ u[1] = NoValue /\ u[2] = NoValue
    BY ValuesAre
  <1>3. u1 \in Seq(Values) /\ Len(u1) = 2 /\ u1[1] = v /\ u1[2] = NoValue
    BY <1>2
  <1>4. u2 \in Seq(Values) /\ Len(u2) = 2 /\ u2[1] = v /\ u2[2] = w
    <2> HIDE DEF u1
    <2> QED BY <1>3, UseSet, 1 \in 1..Len(u1), 2 \in 1..Len(u1)
  <1> HIDE DEF u, d
  <1>5. Makes(c, d1, "INST_BINARY", 0, u1)
    BY <1>1, <1>2, SetUse, 1 \in 1..Len(u)
  <1> HIDE DEF u1, d1
  <1>6. Makes(c, d2, "INST_BINARY", 0, u2)
    BY <1>3, <1>5, SetUse, 2 \in 1..Len(u1)
  <1>7. d2 = inst_new_binary(c, v, w)
    BY DEF inst_new_binary, d, d1
  <1> QED BY <1>4, <1>6, <1>7

\* An instruction with three operands.
LEMMA MadeThree ==
  ASSUME NEW c, IsIR(c), NEW x \in Values, NEW y \in Values, NEW z \in Values
  PROVE  \E u \in Seq(Values) :
           /\ Len(u) = 3 /\ u[1] = x /\ u[2] = y /\ u[3] = z
           /\ Makes(c, inst_setUse(inst_setUse(inst_setUse(InstNew(c, "INST_JUMP_COND", "VOID", 0, 3),
                          Len(c.inst) + 1, 1, x), Len(c.inst) + 1, 2, y), Len(c.inst) + 1, 3, z),
                    "INST_JUMP_COND", 0, u)
  <1> DEFINE u == [s \in 1..3 |-> NoValue]
             u1 == [u EXCEPT ![1] = x]
             u2 == [u1 EXCEPT ![2] = y]
             u3 == [u2 EXCEPT ![3] = z]
             d == InstNew(c, "INST_JUMP_COND", "VOID", 0, 3)
             d1 == inst_setUse(d, Len(c.inst) + 1, 1, x)
             d2 == inst_setUse(d1, Len(c.inst) + 1, 2, y)
             d3 == inst_setUse(d2, Len(c.inst) + 1, 3, z)
  <1>1. Makes(c, d, "INST_JUMP_COND", 0, u)
    BY NewInst DEF InstTypes, ValueTypes
  <1>2. u \in Seq(Values) /\ Len(u) = 3 /\ u[1] = NoValue /\ u[2] = NoValue /\ u[3] = NoValue
    BY ValuesAre
  <1>3. u1 \in Seq(Values) /\ Len(u1) = 3 /\ u1[1] = x /\ u1[2] = NoValue /\ u1[3] = NoValue
    <2> HIDE DEF u
    <2>1. /\ u1 \in Seq(Values) /\ Len(u1) = Len(u) /\ u1[1] = x
          /\ \A k \in 1..Len(u) : k # 1 => u1[k] = u[k]
      <3>1. u \in Seq(Values) /\ 1 \in 1..Len(u)
        BY <1>2
      <3> QED BY <3>1, UseSet
    <2> HIDE DEF u1
    <2> QED BY <1>2, <2>1
  <1>4. u2 \in Seq(Values) /\ Len(u2) = 3 /\ u2[1] = x /\ u2[2] = y /\ u2[3] = NoValue
    <2> HIDE DEF u1
    <2> QED BY <1>3, UseSet, 1 \in 1..Len(u1), 2 \in 1..Len(u1), 3 \in 1..Len(u1)
  <1>5. u3 \in Seq(Values) /\ Len(u3) = 3 /\ u3[1] = x /\ u3[2] = y /\ u3[3] = z
    <2> HIDE DEF u2
    <2> QED BY <1>4, UseSet, 1 \in 1..Len(u2), 2 \in 1..Len(u2), 3 \in 1..Len(u2), SMTT(30)
  <1> HIDE DEF u, d
  <1>6. Makes(c, d1, "INST_JUMP_COND", 0, u1)
    BY <1>1, <1>2, SetUse, 1 \in 1..Len(u)
  <1> HIDE DEF u1, d1
  <1>7. Makes(c, d2, "INST_JUMP_COND", 0, u2)
    BY <1>3, <1>6, SetUse, 2 \in 1..Len(u1)
  <1> HIDE DEF u2, d2
  <1>8. Makes(c, d3, "INST_JUMP_COND", 0, u3)
    BY <1>4, <1>7, SetUse, 3 \in 1..Len(u2)
  <1> QED BY <1>5, <1>8 DEF d, d1, d2

\* inst_new_jump_cond makes a conditional jump: two targets and the condition.
LEMMA MadeJumpCond ==
  ASSUME NEW c, IsIR(c), NEW t \in Nat, NEW w \in Nat, NEW v \in Operands
  PROVE  \E u \in Seq(Values) :
           /\ Len(u) = 3 /\ u[1] = BlockValue(t) /\ u[2] = BlockValue(w) /\ u[3] = v
           /\ Makes(c, inst_new_jump_cond(c, t, w, v), "INST_JUMP_COND", 0, u)
  <1>1. BlockValue(t) \in Values /\ BlockValue(w) \in Values /\ v \in Values
    BY ValuesAre
  <1> QED BY <1>1, MadeThree DEF inst_new_jump_cond

-----------------------------------------------------------------------------
\* The operations on a context whose instructions are shaped.

\* More blocks leave an instruction as good as it was.
LEMMA ShapedGrows ==
  ASSUME NEW i, NEW n \in Nat, NEW m \in Nat, n <= m, Shaped(i, n)
  PROVE  Shaped(i, m)
  <1>1. 1..n \subseteq 1..m
    OBVIOUS
  <1> QED BY <1>1 DEF Shaped

\* d is c with more instructions, all of them in New and at the end of block b.
Extends(c, d, b, New) ==
    /\ Built(d)
    /\ Len(c.inst) <= Len(d.inst)
    /\ \A i \in 1..Len(c.inst) : d.inst[i] = c.inst[i]
    /\ \A i \in (Len(c.inst) + 1)..Len(d.inst) : d.inst[i] \in New
    /\ Len(d.block) = Len(c.block)
    /\ \A x \in 1..Len(c.block) : x # b => d.block[x] = c.block[x]
    /\ Len(c.block[b]) <= Len(d.block[b])
    /\ \A k \in 1..Len(c.block[b]) : d.block[b][k] = c.block[b][k]
    /\ \A k \in (Len(c.block[b]) + 1)..Len(d.block[b]) : d.block[b][k] \in (Len(c.inst) + 1)..Len(d.inst)

\* d is c with one more instruction at the end of block b.
Adds(c, d, b, type, r, uses) ==
    /\ Extends(c, d, b, {d.inst[Len(c.inst) + 1]})
    /\ Len(d.inst) = Len(c.inst) + 1
    /\ Len(d.block[b]) = Len(c.block[b]) + 1
    /\ d.block[b][Len(c.block[b]) + 1] = Len(c.inst) + 1
    /\ d.inst[Len(c.inst) + 1].type = type
    /\ d.inst[Len(c.inst) + 1].rId = r
    /\ d.inst[Len(c.inst) + 1].uses = uses

\* The types in a context that is Built.
LEMMA BuiltLens ==
  ASSUME NEW c, Built(c)
  PROVE  /\ c.inst \in Seq(Inst) /\ Len(c.inst) \in Nat
         /\ c.block \in Seq(Seq(Nat)) /\ Len(c.block) \in Nat
         /\ \A b \in 1..Len(c.block) : c.block[b] \in Seq(Nat) /\ Len(c.block[b]) \in Nat
         /\ \A i \in 1..Len(c.inst) : c.inst[i] \in Inst
         /\ IsIR(c)
  BY DEF Built, IsIR

\* Setting the parent of an instruction leaves the rest of it alone.
LEMMA ParentSet ==
  ASSUME NEW x \in Inst, NEW b \in Nat
  PROVE  LET y == [x EXCEPT !.parent = b]
         IN  y \in Inst /\ y.type = x.type /\ y.rId = x.rId /\ y.uses = x.uses
  BY DEF Inst

\* What block_insert changes.
LEMMA InsertedFields ==
  ASSUME NEW d, IsIR(d), NEW b, NEW n
  PROVE  block_insert(d, b, n) =
           [inst |-> [d.inst EXCEPT ![n] = [d.inst[n] EXCEPT !.parent = b]],
            block |-> [d.block EXCEPT ![b] = Append(d.block[b], n)],
            consts |-> d.consts, uses |-> d.uses]
  <1> DEFINE insts == d.inst
             blocks == d.block
             consts == d.consts
             uses == d.uses
             list == [blocks EXCEPT ![b] = Append(blocks[b], n)]
             more == [insts EXCEPT ![n] = [insts[n] EXCEPT !.parent = b]]
             r1 == [inst |-> insts, block |-> list, consts |-> consts, uses |-> uses]
             e == block_insert(d, b, n)
  <1>1. d = [inst |-> insts, block |-> blocks, consts |-> consts, uses |-> uses]
    BY DEF IsIR
  <1>2. e = [[d EXCEPT !.block = list] EXCEPT !.inst[n].parent = b]
    BY DEF block_insert
  <1> HIDE DEF list, insts, blocks, consts, uses
  <1>3. [d EXCEPT !.block = list] = r1
    BY <1>1
  <1>4. [r1 EXCEPT !.inst[n].parent = b] = [r1 EXCEPT !.inst = more]
    BY r1.inst = insts
  <1> HIDE DEF more
  <1>5. [r1 EXCEPT !.inst = more] = [inst |-> more, block |-> list, consts |-> consts, uses |-> uses]
    OBVIOUS
  <1> HIDE DEF e, r1
  <1>6. e = [inst |-> more, block |-> list, consts |-> consts, uses |-> uses]
    BY <1>2, <1>3, <1>4, <1>5
  <1> QED BY <1>6 DEF list, more, insts, blocks, consts, uses, e

\* The elements of a sequence with one more at the end.
LEMMA Appended ==
  ASSUME NEW S, NEW s \in Seq(S), NEW x \in S
  PROVE  /\ Append(s, x) \in Seq(S) /\ Len(Append(s, x)) = Len(s) + 1 /\ Append(s, x)[Len(s) + 1] = x
         /\ \A k \in 1..Len(s) : Append(s, x)[k] = s[k]
  BY AppendProperties

\* e has one instruction more than c.
Longer(c, e, uses) ==
    /\ Len(c.inst) \in Nat /\ Len(e.inst) = Len(c.inst) + 1
    /\ \A i \in 1..Len(c.inst) : e.inst[i] = c.inst[i]
    /\ e.inst[Len(c.inst) + 1].uses = uses

\* The use list of a block that gains its operands still agrees with them.
LEMMA ListedGrows ==
  ASSUME NEW c, NEW e, NEW uses, Longer(c, e, uses), NEW t, Listed(c, t), BlockValue(t) \in DOMAIN e.uses,
         NEW n, n = Len(c.inst) + 1, Gains(UsersOf(c, t), UsersOf(e, t), n, uses, t)
  PROVE  Listed(e, t)
  <1> DEFINE l == UsersOf(c, t)
             m == UsersOf(e, t)
             v == BlockValue(t)
             Naming(i, s, x) == s \in 1..Len(x.inst[i].uses) /\ x.inst[i].uses[s] = v
  <1>1. /\ Len(c.inst) \in Nat /\ n \in Nat /\ Len(e.inst) = n /\ n \in 1..Len(e.inst) /\ e.inst[n].uses = uses
        /\ \A i \in 1..Len(c.inst) : i \in 1..Len(e.inst) /\ i <= n
        /\ \A i \in 1..Len(e.inst) : i = n \/ i \in 1..Len(c.inst)
    <2>1. Len(c.inst) \in Nat /\ Len(e.inst) = n /\ e.inst[n].uses = uses
      BY DEF Longer
    <2> QED BY <2>1
  <1>2. \A i \in 1..Len(c.inst) : e.inst[i] = c.inst[i]
    BY Zenon DEF Longer
  <1>3. \A k \in 1..Len(l) : \E i \in 1..Len(c.inst) : \E s : l[k][1] = i /\ l[k][2] = s /\ Naming(i, s, c)
    <2>1. \A k \in 1..Len(l) : \E i \in 1..Len(c.inst) : \E s \in 1..Len(c.inst[i].uses) :
             l[k][1] = i /\ l[k][2] = s /\ c.inst[i].uses[s] = v
      BY Zenon DEF Listed
    <2> HIDE DEF l, m, v
    <2> TAKE k \in 1..Len(l)
    <2>2. PICK i \in 1..Len(c.inst) : \E s \in 1..Len(c.inst[i].uses) :
             l[k][1] = i /\ l[k][2] = s /\ c.inst[i].uses[s] = v
      BY <2>1, Zenon
    <2>3. PICK s \in 1..Len(c.inst[i].uses) : l[k][1] = i /\ l[k][2] = s /\ c.inst[i].uses[s] = v
      BY <2>2, Zenon
    <2>4. Naming(i, s, c)
      BY <2>3
    <2> HIDE DEF Naming
    <2> QED BY <2>3, <2>4, Zenon
  <1>4. \A k \in 1..Len(l) : \A j \in 1..k : l[j][1] <= l[k][1]
    BY DEF Listed
  <1>5. \A i \in 1..Len(c.inst) : \A s : Naming(i, s, c) => \E k \in 1..Len(l) : l[k][1] = i /\ l[k][2] = s
    BY DEF Listed
  <1>6. l \in Seq(Nat \X Nat) /\ m \in Seq(Nat \X Nat) /\ Len(l) <= Len(m)
    BY DEF Gains, Listed, HasUsers
  <1>7. \A k \in 1..Len(l) : m[k] = l[k]
    BY DEF Gains
  <1>8. \A k \in (Len(l) + 1)..Len(m) : \E s \in 1..Len(uses) : m[k][1] = n /\ m[k][2] = s /\ uses[s] = v
    BY DEF Gains
  <1>9. \A s \in 1..Len(uses) : uses[s] = v => \E k \in 1..Len(m) : m[k][1] = n /\ m[k][2] = s
    BY DEF Gains
  <1> HIDE DEF l, m, v
  <1>10. Len(l) \in Nat /\ Len(m) \in Nat
    BY <1>6
  <1>11. /\ \A k \in 1..Len(m) : k \in 1..Len(l) \/ k \in (Len(l) + 1)..Len(m)
         /\ \A k \in 1..Len(l) : k \in 1..Len(m)
    BY <1>6, <1>10
  <1>12. \A i \in 1..Len(c.inst) : \A s : Naming(i, s, e) <=> Naming(i, s, c)
    BY <1>2
  <1>13. \A s : Naming(n, s, e) <=> s \in 1..Len(uses) /\ uses[s] = v
    BY <1>1
  <1> HIDE DEF Naming
  <1>14. ASSUME NEW k \in 1..Len(m)
         PROVE  \E i \in 1..Len(e.inst) : \E s : m[k][1] = i /\ m[k][2] = s /\ Naming(i, s, e)
    <2>1. CASE k \in 1..Len(l)
      <3>1. PICK i \in 1..Len(c.inst) : \E s : l[k][1] = i /\ l[k][2] = s /\ Naming(i, s, c)
        BY <1>3, <2>1, Zenon
      <3>2. PICK s : l[k][1] = i /\ l[k][2] = s /\ Naming(i, s, c)
        BY <3>1, Zenon
      <3>3. m[k] = l[k] /\ i \in 1..Len(e.inst) /\ Naming(i, s, e)
        BY <1>1, <1>7, <1>12, <2>1, <3>2, Zenon
      <3> QED BY <3>2, <3>3, Zenon
    <2>2. CASE k \in (Len(l) + 1)..Len(m)
      <3>1. PICK s \in 1..Len(uses) : m[k][1] = n /\ m[k][2] = s /\ uses[s] = v
        BY <1>8, <2>2, Zenon
      <3>2. n \in 1..Len(e.inst) /\ Naming(n, s, e)
        BY <1>1, <1>13, <3>1, Zenon
      <3> QED BY <3>1, <3>2, Zenon
    <2> QED BY <1>11, <2>1, <2>2, Zenon
  <1>15. ASSUME NEW k \in 1..Len(m), NEW j \in 1..k PROVE m[j][1] <= m[k][1]
    <2>1. CASE k \in 1..Len(l)
      <3>1. j \in 1..Len(l)
        BY <1>10, <2>1
      <3>2. l[j][1] <= l[k][1]
        BY <1>4, <2>1, Zenon
      <3> QED BY <1>7, <2>1, <3>1, <3>2, Zenon
    <2>2. CASE k \in (Len(l) + 1)..Len(m)
      <3>1. m[k][1] = n
        BY <1>8, <2>2, Zenon
      <3>2. j \in 1..Len(m)
        BY <1>10
      <3>3. CASE j \in (Len(l) + 1)..Len(m)
        <4>1. m[j][1] = n /\ n <= n
          BY <1>1, <1>8, <3>3
        <4> QED BY <3>1, <4>1
      <3>4. CASE j \in 1..Len(l)
        <4>1. PICK i \in 1..Len(c.inst) : l[j][1] = i
          BY <1>3, <3>4, Zenon
        <4>2. m[j][1] = i /\ i <= n
          BY <1>1, <1>7, <3>4, <4>1, Zenon
        <4> QED BY <3>1, <4>2, Zenon
      <3> QED BY <1>11, <3>2, <3>3, <3>4, Zenon
    <2> QED BY <1>11, <2>1, <2>2, Zenon
  <1>16. ASSUME NEW i \in 1..Len(e.inst), NEW s, Naming(i, s, e) PROVE \E k \in 1..Len(m) : m[k][1] = i /\ m[k][2] = s
    <2>1. CASE i = n
      <3>1. s \in 1..Len(uses) /\ uses[s] = v
        BY <1>13, <1>16, <2>1, Zenon
      <3> QED BY <1>9, <2>1, <3>1, Zenon
    <2>2. CASE i \in 1..Len(c.inst)
      <3>1. Naming(i, s, c)
        BY <1>12, <1>16, <2>2, Zenon
      <3>2. PICK k \in 1..Len(l) : l[k][1] = i /\ l[k][2] = s
        BY <1>5, <2>2, <3>1, Zenon
      <3>3. k \in 1..Len(m) /\ m[k] = l[k]
        BY <1>7, <1>11, Zenon
      <3> QED BY <3>2, <3>3, Zenon
    <2> QED BY <1>1, <2>1, <2>2, Zenon
  <1>17. HasUsers(e, t)
    BY <1>6 DEF HasUsers, m
  <1>18. \A k \in 1..Len(m) : \E i \in 1..Len(e.inst) : \E s \in 1..Len(e.inst[i].uses) :
            m[k][1] = i /\ m[k][2] = s /\ e.inst[i].uses[s] = v
    BY <1>14, Zenon DEF Naming
  <1>19. \A i \in 1..Len(e.inst) : \A s \in 1..Len(e.inst[i].uses) :
            e.inst[i].uses[s] = v => \E k \in 1..Len(m) : m[k][1] = i /\ m[k][2] = s
    <2> TAKE i \in 1..Len(e.inst)
    <2> TAKE s \in 1..Len(e.inst[i].uses)
    <2> HAVE e.inst[i].uses[s] = v
    <2>1. Naming(i, s, e)
      BY DEF Naming
    <2> QED BY <1>16, <2>1, Zenon
  <1>20. \A k \in 1..Len(m) : \A j \in 1..k : m[j][1] <= m[k][1]
    BY <1>15, Zenon
  <1> SUFFICES /\ HasUsers(e, t)
               /\ \A k \in 1..Len(m) : \E i \in 1..Len(e.inst) : \E s \in 1..Len(e.inst[i].uses) :
                     m[k][1] = i /\ m[k][2] = s /\ e.inst[i].uses[s] = v
               /\ \A k \in 1..Len(m) : \A j \in 1..k : m[j][1] <= m[k][1]
               /\ \A i \in 1..Len(e.inst) : \A s \in 1..Len(e.inst[i].uses) :
                     e.inst[i].uses[s] = v => \E k \in 1..Len(m) : m[k][1] = i /\ m[k][2] = s
    BY DEF Listed, m, v
  <1> QED BY <1>17, <1>18, <1>19, <1>20, Zenon

\* block_insert sets the parent, so that an instruction and its block point to
\* each other, and what the instruction uses is on the use lists by then.
LEMMA LinkedInserted ==
  ASSUME NEW c, Built(c), NEW e, NEW b \in 1..Len(c.block), NEW uses, Gained(c, e, uses),
         Len(e.inst) = Len(c.inst) + 1, e.inst[Len(c.inst) + 1].parent = b, e.inst[Len(c.inst) + 1].uses = uses,
         \A k \in 1..Len(c.inst) : e.inst[k] = c.inst[k],
         Len(e.block) = Len(c.block), Len(e.block[b]) = Len(c.block[b]) + 1,
         e.block[b][Len(c.block[b]) + 1] = Len(c.inst) + 1,
         \A x \in 1..Len(c.block) : x # b => e.block[x] = c.block[x],
         \A k \in 1..Len(c.block[b]) : e.block[b][k] = c.block[b][k]
  PROVE  Linked(e)
  <1> DEFINE n == Len(c.inst) + 1
  <1>1. /\ Len(c.inst) \in Nat /\ Len(c.block) \in Nat /\ \A x \in 1..Len(c.block) : Len(c.block[x]) \in Nat
        /\ \A x \in 1..Len(c.block) : \A k \in 1..Len(c.block[x]) : c.block[x][k] \in 1..Len(c.inst)
        /\ \A x \in 1..Len(c.block) : \A k \in 1..Len(c.block[x]) : c.inst[c.block[x][k]].parent = x
        /\ \A i \in 1..Len(c.inst) : \E x \in 1..Len(c.block) : \E k \in 1..Len(c.block[x]) : c.block[x][k] = i
    BY BuiltLens DEF Built, Linked
  <1>2. ASSUME NEW x \in 1..Len(e.block), NEW k \in 1..Len(e.block[x]) PROVE e.inst[e.block[x][k]].parent = x
    <2>1. CASE x = b /\ k = Len(c.block[b]) + 1
      BY <2>1
    <2>2. CASE ~(x = b /\ k = Len(c.block[b]) + 1)
      <3>1. x \in 1..Len(c.block) /\ k \in 1..Len(c.block[x])
        <4>1. CASE x = b
          <5>1. Len(c.block[b]) \in Nat
            BY <1>1
          <5> QED BY <2>2, <4>1, <5>1
        <4>2. CASE x # b
          BY <4>2
        <4> QED BY <4>1, <4>2
      <3>2. e.block[x][k] = c.block[x][k]
        BY <3>1
      <3>3. c.block[x][k] \in 1..Len(c.inst) /\ c.inst[c.block[x][k]].parent = x
        BY <1>1, <3>1
      <3> QED BY <3>2, <3>3
    <2> QED BY <2>1, <2>2
  <1>3. ASSUME NEW i \in 1..Len(e.inst) PROVE \E x \in 1..Len(e.block) : \E k \in 1..Len(e.block[x]) : e.block[x][k] = i
    <2>1. CASE i = n
      <3>1. Len(c.block[b]) + 1 \in 1..Len(e.block[b])
        BY <1>1
      <3> QED BY <2>1, <3>1
    <2>2. CASE i # n
      <3>1. i \in 1..Len(c.inst)
        BY <1>1, <2>2
      <3>2. PICK x \in 1..Len(c.block) : \E k \in 1..Len(c.block[x]) : c.block[x][k] = i
        BY <1>1, <3>1
      <3>3. PICK k \in 1..Len(c.block[x]) : c.block[x][k] = i
        BY <3>2
      <3>4. k \in 1..Len(e.block[x]) /\ e.block[x][k] = i
        <4>1. CASE x = b
          <5>1. Len(c.block[b]) \in Nat
            BY <1>1
          <5> QED BY <3>3, <4>1, <5>1
        <4>2. CASE x # b
          BY <3>3, <4>2
        <4> QED BY <4>1, <4>2
      <3> QED BY <3>4
    <2> QED BY <2>1, <2>2
  <1>4. ASSUME NEW t \in 1..Len(e.block) PROVE Listed(e, t)
    <2>1. Listed(c, t) /\ t \in Nat
      BY <1>1 DEF Built, Linked
    <2>2. BlockValue(t) \in DOMAIN e.uses /\ Gains(UsersOf(c, t), UsersOf(e, t), n, uses, t)
      BY <2>1 DEF Gained, Listed
    <2>3. Longer(c, e, uses)
      BY <1>1 DEF Longer
    <2> HIDE DEF n
    <2>4. n = Len(c.inst) + 1
      BY DEF n
    <2> QED BY <2>1, <2>2, <2>3, <2>4, ListedGrows
  <1> QED BY <1>2, <1>3, <1>4 DEF Linked

\* block_insert of an instruction that was just made.
LEMMA Inserted ==
  ASSUME NEW c, Built(c), NEW d, NEW type, NEW r, NEW uses, Makes(c, d, type, r, uses),
         Shaped(d.inst[Len(c.inst) + 1], Len(c.block)), NEW b \in 1..Len(c.block)
  PROVE  Adds(c, block_insert(d, b, Len(c.inst) + 1), b, type, r, uses)
  <1> DEFINE n == Len(c.inst) + 1
             e == block_insert(d, b, n)
             i == [d.inst[n] EXCEPT !.parent = b]
  <1>1. /\ IsIR(d) /\ d.block = c.block /\ Len(d.inst) = n /\ n \in Nat \ {0}
        /\ \A k \in 1..Len(c.inst) : d.inst[k] = c.inst[k]
        /\ d.inst[n].type = type /\ d.inst[n].rId = r /\ d.inst[n].uses = uses
    BY BuiltLens DEF Makes
  <1>2. d = [inst |-> d.inst, block |-> d.block, consts |-> d.consts, uses |-> d.uses]
    BY <1>1 DEF IsIR
  <1>3. /\ e.block = [d.block EXCEPT ![b] = Append(d.block[b], n)]
        /\ e.inst = [d.inst EXCEPT ![n] = i]
        /\ e.consts = d.consts
        /\ e = [inst |-> e.inst, block |-> e.block, consts |-> e.consts, uses |-> e.uses]
    <2>1. e = [inst |-> [d.inst EXCEPT ![n] = i], block |-> [d.block EXCEPT ![b] = Append(d.block[b], n)],
               consts |-> d.consts, uses |-> d.uses]
      <3>1. IsIR(d)
        BY <1>1
      <3> HIDE DEF n
      <3> QED BY <3>1, InsertedFields, Zenon
    <2> HIDE DEF e, i, n
    <2> QED BY <2>1
  <1>3a. e.uses = d.uses
    <2>1. IsIR(d)
      BY <1>1
    <2> HIDE DEF n
    <2>2. block_insert(d, b, n) = [inst |-> [d.inst EXCEPT ![n] = [d.inst[n] EXCEPT !.parent = b]],
            block |-> [d.block EXCEPT ![b] = Append(d.block[b], n)], consts |-> d.consts, uses |-> d.uses]
      BY <2>1, InsertedFields, Zenon
    <2> QED BY <2>2
  <1> HIDE DEF e
  <1>4. /\ d.inst \in Seq(Inst) /\ d.inst[n] \in Inst /\ d.block \in Seq(Seq(Nat)) /\ d.consts \in Nat
        /\ b \in 1..Len(d.block) /\ d.block[b] \in Seq(Nat) /\ n \in 1..Len(d.inst)
    BY <1>1, BuiltLens DEF IsIR
  <1>5. i \in Inst /\ i.type = type /\ i.rId = r /\ i.uses = uses
    <2>1. d.inst[n] \in Inst /\ b \in Nat
      BY <1>4
    <2> QED BY <1>1, <2>1, ParentSet
  <1> HIDE DEF i
  <1>6. /\ e.inst \in Seq(Inst) /\ Len(e.inst) = n /\ e.inst[n] = i
        /\ \A k \in 1..Len(c.inst) : e.inst[k] = c.inst[k]
    <2>1. /\ e.inst \in Seq(Inst) /\ Len(e.inst) = Len(d.inst)
          /\ \A k \in 1..Len(d.inst) : e.inst[k] = IF k = n THEN i ELSE d.inst[k]
      BY <1>3, <1>4, <1>5, ExceptSeq, SMTT(30)
    <2>2. Len(c.inst) \in Nat /\ n = Len(c.inst) + 1
      BY BuiltLens
    <2> QED BY <1>1, <2>1, <2>2, SMTT(30)
  <1> DEFINE list == Append(c.block[b], n)
  <1>7. /\ list \in Seq(Nat) /\ Len(list) = Len(c.block[b]) + 1 /\ list[Len(c.block[b]) + 1] = n
        /\ \A k \in 1..Len(c.block[b]) : list[k] = c.block[b][k]
    <2>1. c.block[b] \in Seq(Nat) /\ n \in Nat
      BY <1>1, <1>4
    <2> QED BY <2>1, Appended, SMTT(30)
  <1>8. /\ e.block \in Seq(Seq(Nat)) /\ Len(e.block) = Len(c.block) /\ e.block[b] = list
        /\ \A x \in 1..Len(c.block) : x # b => e.block[x] = c.block[x]
    <2>1. e.block = [c.block EXCEPT ![b] = list] /\ c.block \in Seq(Seq(Nat))
      BY <1>1, <1>3, <1>4
    <2> HIDE DEF list
    <2> QED BY <1>7, <2>1, ExceptSeq, SMTT(30)
  <1> HIDE DEF list
  <1>9. IsIR(e)
    BY <1>1, <1>3, <1>4, <1>6, <1>8 DEF IsIR
  <1>10. \A k \in 1..Len(e.inst) : Shaped(e.inst[k], Len(e.block))
    <2> TAKE k \in 1..Len(e.inst)
    <2>1. CASE k = n
      <3>1. Shaped(i, Len(c.block))
        BY <1>1, <1>5 DEF Shaped
      <3> QED BY <2>1, <3>1, <1>6, <1>8
    <2>2. CASE k # n
      <3>1. k \in 1..Len(c.inst)
        BY <2>2, <1>6, BuiltLens
      <3> QED BY <3>1, <1>6, <1>8 DEF Built
    <2> QED BY <2>1, <2>2
  <1>11. \A x \in 1..Len(e.block) : \A k \in 1..Len(e.block[x]) : e.block[x][k] \in 1..Len(e.inst)
    <2> TAKE x \in 1..Len(e.block)
    <2> TAKE k \in 1..Len(e.block[x])
    <2>0. Len(c.inst) \in Nat /\ Len(c.block[b]) \in Nat /\ 1..Len(c.inst) \subseteq 1..n /\ n \in 1..n
      BY BuiltLens, SMTT(30)
    <2>1. CASE x = b
      <3>1. CASE k = Len(c.block[b]) + 1
        BY <2>0, <2>1, <3>1, <1>6, <1>7, <1>8
      <3>2. CASE k # Len(c.block[b]) + 1
        <4>1. k \in 1..Len(c.block[b])
          BY <2>0, <2>1, <3>2, <1>7, <1>8, SMTT(30)
        <4>2. c.block[b][k] \in 1..Len(c.inst)
          BY <4>1 DEF Built
        <4> QED BY <2>0, <2>1, <4>1, <4>2, <1>6, <1>7, <1>8
      <3> QED BY <3>1, <3>2
    <2>2. CASE x # b
      <3>1. c.block[x][k] \in 1..Len(c.inst)
        BY <2>2, <1>8 DEF Built
      <3> QED BY <2>0, <2>2, <3>1, <1>6, <1>8
    <2> QED BY <2>1, <2>2
  <1>12. Built(e)
    <2>1. e.inst[n].parent = b
      <3>1. i.parent = b
        BY <1>4 DEF i, Inst
      <3> QED BY <1>6, <3>1
    <2>2. e.uses = d.uses
      BY <1>3a
    <2>3. Gained(c, e, uses)
      BY <2>2 DEF Makes, Gained, UsersOf
    <2>4. /\ Len(e.inst) = Len(c.inst) + 1 /\ e.inst[Len(c.inst) + 1].parent = b /\ e.inst[Len(c.inst) + 1].uses = uses
          /\ \A k \in 1..Len(c.inst) : e.inst[k] = c.inst[k]
      BY <1>5, <1>6, <2>1
    <2>5. /\ Len(e.block) = Len(c.block) /\ Len(e.block[b]) = Len(c.block[b]) + 1
          /\ e.block[b][Len(c.block[b]) + 1] = Len(c.inst) + 1
          /\ \A x \in 1..Len(c.block) : x # b => e.block[x] = c.block[x]
          /\ \A k \in 1..Len(c.block[b]) : e.block[b][k] = c.block[b][k]
      BY <1>7, <1>8
    <2>6. Linked(e)
      BY <2>3, <2>4, <2>5, LinkedInserted
    <2> QED BY <1>9, <1>10, <1>11, <2>6 DEF Built
  <1>13. Extends(c, e, b, {e.inst[n]})
    <2>1. Len(c.inst) \in Nat /\ Len(c.block[b]) \in Nat /\ n = Len(c.inst) + 1
      BY BuiltLens
    <2>2. \A k \in (Len(c.inst) + 1)..Len(e.inst) : e.inst[k] \in {e.inst[n]}
      BY <2>1, <1>6
    <2>3. Len(c.inst) <= Len(e.inst) /\ Len(c.block[b]) <= Len(e.block[b])
      BY <2>1, <1>6, <1>7, <1>8, SMTT(30)
    <2>4. \A k \in (Len(c.block[b]) + 1)..Len(e.block[b]) : e.block[b][k] \in (Len(c.inst) + 1)..Len(e.inst)
      BY <2>1, <1>6, <1>7, <1>8
    <2> QED BY <1>6, <1>7, <1>8, <1>12, <2>2, <2>3, <2>4 DEF Extends
  <1> QED BY <1>5, <1>6, <1>7, <1>8, <1>13 DEF Adds, e

\* Every operand is a value or a block that exists.
LEMMA ShapedUse ==
  ASSUME NEW i, NEW n, Shaped(i, n), NEW s \in 1..Len(i.uses)
  PROVE  i.uses[s] \in Operands \/ \E t \in 1..n : i.uses[s] = BlockValue(t)
  <1> DEFINE u == i.uses
  <1>1. \/ Len(u) = 0
        \/ Len(u) = 1 /\ u[1] \in Operands
        \/ Len(u) = 2 /\ u[1] \in Operands /\ u[2] \in Operands
        \/ Len(u) = 1 /\ \E t \in 1..n : u[1] = BlockValue(t)
        \/ Len(u) = 3 /\ (\E t \in 1..n : u[1] = BlockValue(t)) /\ (\E t \in 1..n : u[2] = BlockValue(t)) /\ u[3] \in Operands
    BY Zenon DEF Shaped
  <1>2. s \in 1..Len(u)
    OBVIOUS
  <1> HIDE DEF u
  <1>3. u[s] \in Operands \/ \E t \in 1..n : u[s] = BlockValue(t)
    <2>1. CASE Len(u) = 0
      BY <1>2, <2>1
    <2>2. CASE Len(u) = 1
      <3>1. s = 1
        BY <1>2, <2>2
      <3> QED BY <1>1, <2>2, <3>1
    <2>3. CASE Len(u) = 2
      <3>1. s = 1 \/ s = 2
        BY <1>2, <2>3
      <3> QED BY <1>1, <2>3, <3>1
    <2>4. CASE Len(u) = 3
      <3>1. s = 1 \/ s = 2 \/ s = 3
        BY <1>2, <2>4
      <3> QED BY <1>1, <2>4, <3>1
    <2> QED BY <1>1, <2>1, <2>2, <2>3, <2>4
  <1> QED BY <1>3 DEF u

\* block_new.
LEMMA BlockMade ==
  ASSUME NEW c, Built(c)
  PROVE  /\ Built(block_new(c))
         /\ block_new(c).inst = c.inst
         /\ Len(block_new(c).block) = Len(c.block) + 1
         /\ \A b \in 1..Len(c.block) : block_new(c).block[b] = c.block[b]
         /\ block_new(c).block[Len(c.block) + 1] = <<>>
  <1> DEFINE d == block_new(c)
             n == Len(c.block) + 1
             c1 == [c EXCEPT !.block = Append(@, <<>>)]
             w == [x \in DOMAIN c1.uses \cup {BlockValue(n)} |-> IF x = BlockValue(n) THEN <<>> ELSE c1.uses[x]]
  <1>1. c = [inst |-> c.inst, block |-> c.block, consts |-> c.consts, uses |-> c.uses]
    BY DEF Built, IsIR
  <1>2. c1 = [inst |-> c.inst, block |-> Append(c.block, <<>>), consts |-> c.consts, uses |-> c.uses]
    BY <1>1
  <1>3. d = [c1 EXCEPT !.uses = w]
    BY DEF block_new, ValueInit
  <1> HIDE DEF c1, w, d
  <1>4. d = [inst |-> c.inst, block |-> Append(c.block, <<>>), consts |-> c.consts, uses |-> w]
    BY <1>2, <1>3
  <1>5. /\ d.inst = c.inst /\ d.block = Append(c.block, <<>>) /\ d.consts = c.consts
        /\ d = [inst |-> d.inst, block |-> d.block, consts |-> d.consts, uses |-> d.uses]
    BY <1>4
  <1>6. /\ d.block \in Seq(Seq(Nat)) /\ Len(d.block) = n /\ d.block[n] = <<>> /\ n \in Nat /\ n = Len(c.block) + 1
        /\ \A b \in 1..Len(c.block) : d.block[b] = c.block[b]
    BY <1>5, BuiltLens
  <1>7. IsIR(d)
    BY <1>5, <1>6, BuiltLens DEF IsIR
  <1>8. \A i \in 1..Len(d.inst) : Shaped(d.inst[i], Len(d.block))
    <2> TAKE i \in 1..Len(d.inst)
    <2>1. Shaped(c.inst[i], Len(c.block)) /\ Len(c.block) \in Nat /\ Len(c.block) <= n
      BY <1>5, BuiltLens DEF Built
    <2> QED BY <2>1, <1>5, <1>6, ShapedGrows
  <1>9. \A b \in 1..Len(d.block) : \A k \in 1..Len(d.block[b]) : d.block[b][k] \in 1..Len(d.inst)
    <2> TAKE b \in 1..Len(d.block)
    <2>1. CASE b = n
      BY <2>1, <1>6
    <2>2. CASE b # n
      <3>1. b \in 1..Len(c.block)
        BY <2>2, <1>6, BuiltLens
      <3> QED BY <3>1, <1>5, <1>6 DEF Built
    <2> QED BY <2>1, <2>2
  <1>10. Linked(d)
    <2>1. d.uses = w /\ c1.uses = c.uses
      BY <1>2, <1>4
    <2>2. ASSUME NEW t \in 1..Len(d.block) PROVE Listed(d, t)
      <3>1. CASE t = n
        <4>1. HasUsers(d, t) /\ UsersOf(d, t) = <<>>
          <5>1. d.uses = [x \in DOMAIN c1.uses \cup {BlockValue(n)} |-> IF x = BlockValue(n) THEN <<>> ELSE c1.uses[x]]
            BY <2>1 DEF w
          <5>2. BlockValue(n) \in DOMAIN d.uses /\ d.uses[BlockValue(n)] = <<>>
            <6> HIDE DEF n
            <6> QED BY <5>1
          <5>3. <<>> \in Seq(Nat \X Nat)
            OBVIOUS
          <5> HIDE DEF n
          <5> QED BY <3>1, <5>2, <5>3 DEF HasUsers, UsersOf
        <4>2. ASSUME NEW i \in 1..Len(d.inst), NEW s \in 1..Len(d.inst[i].uses) PROVE d.inst[i].uses[s] # BlockValue(t)
          <5>1. Shaped(c.inst[i], Len(c.block)) /\ n \notin 1..Len(c.block) /\ n \in Nat /\ \A x \in 1..Len(c.block) : x \in Nat
            BY <1>5, <1>6, BuiltLens DEF Built
          <5>2. \A v \in Operands : v # BlockValue(n)
            BY <5>1, ValuesAre
          <5>3. \A x \in 1..Len(c.block) : BlockValue(x) # BlockValue(n)
            BY <5>1, ValuesAre
          <5>4. s \in 1..Len(c.inst[i].uses) /\ i \in 1..Len(c.inst) /\ d.inst[i] = c.inst[i]
            BY <1>5
          <5> HIDE DEF n
          <5>5. c.inst[i].uses[s] \in Operands \/ \E x \in 1..Len(c.block) : c.inst[i].uses[s] = BlockValue(x)
            BY <5>1, <5>4, ShapedUse
          <5> QED BY <3>1, <5>2, <5>3, <5>4, <5>5
        <4> QED BY <4>1, <4>2 DEF Listed
      <3>2. CASE t # n
        <4>1. t \in 1..Len(c.block) /\ t \in Nat
          BY <1>6, <3>2, BuiltLens
        <4>2. Listed(c, t)
          BY <4>1 DEF Built, Linked
        <4>3. BlockValue(t) # BlockValue(n)
          BY <1>6, <3>2, <4>1, ValuesAre
        <4>4. BlockValue(t) \in DOMAIN d.uses /\ UsersOf(d, t) = UsersOf(c, t)
          BY <2>1, <4>2, <4>3 DEF Listed, HasUsers, UsersOf, w
        <4> QED BY <1>5, <4>2, <4>4 DEF Listed, HasUsers
      <3> QED BY <3>1, <3>2
    <2>3. ASSUME NEW b \in 1..Len(d.block), NEW k \in 1..Len(d.block[b]) PROVE d.inst[d.block[b][k]].parent = b
      <3>1. CASE b = n
        BY <1>6, <2>3, <3>1
      <3>2. CASE b # n
        <4>1. b \in 1..Len(c.block)
          BY <1>6, <3>2, BuiltLens
        <4>2. d.block[b] = c.block[b] /\ d.inst = c.inst
          BY <1>5, <1>6, <4>1
        <4>3. k \in 1..Len(c.block[b])
          BY <4>2
        <4>4. c.inst[c.block[b][k]].parent = b
          BY <4>1, <4>3 DEF Built, Linked
        <4> QED BY <4>2, <4>4
      <3> QED BY <3>1, <3>2
    <2>4. ASSUME NEW i \in 1..Len(d.inst) PROVE \E b \in 1..Len(d.block) : \E k \in 1..Len(d.block[b]) : d.block[b][k] = i
      <3>1. PICK b \in 1..Len(c.block) : \E k \in 1..Len(c.block[b]) : c.block[b][k] = i
        BY <1>5 DEF Built, Linked
      <3>2. b \in 1..Len(d.block) /\ d.block[b] = c.block[b]
        BY <1>6, BuiltLens
      <3> QED BY <3>1, <3>2
    <2> QED BY <2>2, <2>3, <2>4 DEF Linked
  <1> QED BY <1>5, <1>6, <1>7, <1>8, <1>9, <1>10 DEF Built, d

\* ir_constant_value makes a value and nothing else.
LEMMA ConstantMade ==
  ASSUME NEW c, Built(c)
  PROVE  /\ Built(ir_constant_value(c))
         /\ ir_constant_value(c).inst = c.inst
         /\ ir_constant_value(c).block = c.block
  <1> DEFINE d == ir_constant_value(c)
             v == ConstValue(c.consts + 1)
             c1 == [c EXCEPT !.consts = @ + 1]
             w == [x \in DOMAIN c1.uses \cup {v} |-> IF x = v THEN <<>> ELSE c1.uses[x]]
  <1>1. c = [inst |-> c.inst, block |-> c.block, consts |-> c.consts, uses |-> c.uses]
    BY DEF Built, IsIR
  <1>2. c1 = [inst |-> c.inst, block |-> c.block, consts |-> c.consts + 1, uses |-> c.uses]
    BY <1>1
  <1>3. d = [c1 EXCEPT !.uses = w]
    BY DEF ir_constant_value, ValueInit
  <1> HIDE DEF c1, w, d
  <1>4. d = [inst |-> c.inst, block |-> c.block, consts |-> c.consts + 1, uses |-> w]
    BY <1>2, <1>3
  <1>5. /\ d.inst = c.inst /\ d.block = c.block /\ d.consts = c.consts + 1
        /\ d = [inst |-> d.inst, block |-> d.block, consts |-> d.consts, uses |-> d.uses]
    BY <1>4
  <1>6. c.consts + 1 \in Nat
    BY DEF Built, IsIR
  <1>7. IsIR(d)
    BY <1>5, <1>6, BuiltLens DEF IsIR
  <1>8. Linked(d)
    <2>1. ASSUME NEW t \in 1..Len(c.block) PROVE Listed(d, t)
      <3>1. Listed(c, t) /\ d.uses = w /\ c1.uses = c.uses /\ BlockValue(t) # v
        BY <1>2, <1>4 DEF Built, Linked, BlockValue, ConstValue
      <3>2. BlockValue(t) \in DOMAIN d.uses /\ UsersOf(d, t) = UsersOf(c, t)
        <4> HIDE DEF v
        <4> QED BY <3>1 DEF Listed, HasUsers, UsersOf, w
      <3> QED BY <1>5, <3>1, <3>2 DEF Listed, HasUsers
    <2>2. Linked(c)
      BY DEF Built
    <2> QED BY <1>5, <2>1, <2>2 DEF Linked
  <1> QED BY <1>5, <1>7, <1>8 DEF Built, d

-----------------------------------------------------------------------------
\* create_value.

Var == [rId : Nat, dataType : ValueTypes]

Scope == UNION {[A -> Var] : A \in SUBSET Names}

Visible(map) == {map[x].rId : x \in DOMAIN map}

IsVisible(maps, r) == \E k \in 1..Len(maps) : r \in Visible(maps[k])

\* What create_value puts into a block.
Loaded(maps) == {i \in Inst : \/ i.type = "INST_LOAD_VAR" /\ IsVisible(maps, i.rId)
                              \/ i.type = "INST_BINARY"}

\* An instruction list that grew in two steps.
LEMMA ExtendsTwice ==
  ASSUME NEW c, Built(c), NEW d, NEW e, NEW b \in 1..Len(c.block), NEW New, NEW M, NEW N,
         Extends(c, d, b, M), Extends(d, e, b, N), M \subseteq New, N \subseteq New
  PROVE  Extends(c, e, b, New)
  <1>1. /\ Len(c.inst) \in Nat /\ Len(d.inst) \in Nat /\ Len(e.inst) \in Nat
        /\ Len(c.block[b]) \in Nat /\ Len(d.block[b]) \in Nat /\ Len(e.block[b]) \in Nat
        /\ Len(c.inst) <= Len(d.inst) /\ Len(d.inst) <= Len(e.inst)
        /\ Len(c.block[b]) <= Len(d.block[b]) /\ Len(d.block[b]) <= Len(e.block[b])
        /\ Len(d.block) = Len(c.block) /\ Len(e.block) = Len(c.block) /\ Built(e)
    BY BuiltLens DEF Extends
  <1>2. \A i \in 1..Len(c.inst) : e.inst[i] = c.inst[i]
    <2> TAKE i \in 1..Len(c.inst)
    <2>1. i \in 1..Len(d.inst)
      BY <1>1
    <2> QED BY <2>1 DEF Extends
  <1>3. \A i \in (Len(c.inst) + 1)..Len(e.inst) : e.inst[i] \in New
    <2> TAKE i \in (Len(c.inst) + 1)..Len(e.inst)
    <2>1. CASE i \in 1..Len(d.inst)
      <3>1. i \in (Len(c.inst) + 1)..Len(d.inst)
        BY <1>1, <2>1
      <3> QED BY <2>1, <3>1 DEF Extends
    <2>2. CASE i \notin 1..Len(d.inst)
      <3>1. i \in (Len(d.inst) + 1)..Len(e.inst)
        BY <1>1, <2>2
      <3> QED BY <3>1 DEF Extends
    <2> QED BY <2>1, <2>2
  <1>4. \A x \in 1..Len(c.block) : x # b => e.block[x] = c.block[x]
    BY <1>1 DEF Extends
  <1>5. \A k \in 1..Len(c.block[b]) : e.block[b][k] = c.block[b][k]
    <2> TAKE k \in 1..Len(c.block[b])
    <2>1. k \in 1..Len(d.block[b])
      BY <1>1
    <2> QED BY <2>1 DEF Extends
  <1>6. \A k \in (Len(c.block[b]) + 1)..Len(e.block[b]) : e.block[b][k] \in (Len(c.inst) + 1)..Len(e.inst)
    <2> TAKE k \in (Len(c.block[b]) + 1)..Len(e.block[b])
    <2>1. CASE k \in 1..Len(d.block[b])
      <3>1. k \in (Len(c.block[b]) + 1)..Len(d.block[b])
        BY <1>1, <2>1
      <3>2. d.block[b][k] \in (Len(c.inst) + 1)..Len(d.inst)
        BY <3>1 DEF Extends
      <3>3. e.block[b][k] = d.block[b][k]
        BY <2>1 DEF Extends
      <3> QED BY <1>1, <3>2, <3>3, SMTT(30)
    <2>2. CASE k \notin 1..Len(d.block[b])
      <3>1. k \in (Len(d.block[b]) + 1)..Len(e.block[b])
        BY <1>1, <2>2
      <3>2. e.block[b][k] \in (Len(d.inst) + 1)..Len(e.inst)
        BY <3>1 DEF Extends
      <3> QED BY <1>1, <3>2, SMTT(30)
    <2> QED BY <2>1, <2>2
  <1>7. Len(c.inst) <= Len(e.inst) /\ Len(c.block[b]) <= Len(e.block[b])
    <2>1. \A x, y, z \in Nat : x <= y /\ y <= z => x <= z
      OBVIOUS
    <2> QED BY <1>1, <2>1
  <1> QED BY <1>1, <1>2, <1>3, <1>4, <1>5, <1>6, <1>7 DEF Extends

\* A context with the same instructions and blocks extends the old one.
LEMMA ExtendsNothing ==
  ASSUME NEW c, Built(c), NEW d, Built(d), d.inst = c.inst, d.block = c.block, NEW b \in 1..Len(c.block), NEW New
  PROVE  Extends(c, d, b, New)
  <1>1. Len(c.inst) \in Nat /\ Len(c.block[b]) \in Nat
    BY BuiltLens
  <1> QED BY <1>1 DEF Extends

\* A set of naturals has a least element.
LEMMA Least ==
  ASSUME NEW T, T \subseteq Nat, T # {}
  PROVE  \E n \in T : \A m \in T : n <= m
  <1>1. PICK n \in T : \A m \in T : ~(<<m, n>> \in OpToRel(<, Nat))
    BY NatLessThanWellFounded, WFMin
  <1>2. ASSUME NEW m \in T, ~(n <= m) PROVE FALSE
    <2>1. m \in Nat /\ n \in Nat /\ m < n
      BY <1>2
    <2>2. <<m, n>> \in OpToRel(<, Nat)
      BY <2>1 DEF OpToRel
    <2> QED BY <1>1, <2>2
  <1> QED BY <1>2

\* _findReg returns an entry of the innermost scope that has the name.
LEMMA Found ==
  ASSUME NEW maps \in Seq(Scope), NEW x, Declared(maps, x)
  PROVE  \E k \in 1..Len(maps) :
           /\ x \in DOMAIN maps[k] /\ _findReg(maps, x) = maps[k][x]
           /\ \A m \in 1..(k - 1) : x \notin DOMAIN maps[m]
           /\ _findReg(maps, x) \in Var /\ _findReg(maps, x).rId \in Visible(maps[k])
  <1> DEFINE T == {k \in 1..Len(maps) : x \in DOMAIN maps[k]}
             P(n) == n \in DOMAIN maps /\ x \in DOMAIN maps[n] /\ \A m \in 1..(n - 1) : x \notin DOMAIN maps[m]
             k == CHOOSE n \in DOMAIN maps : x \in DOMAIN maps[n] /\ \A m \in 1..(n - 1) : x \notin DOMAIN maps[m]
  <1>1. DOMAIN maps = 1..Len(maps) /\ Len(maps) \in Nat
    OBVIOUS
  <1>2. T # {} /\ T \subseteq Nat
    BY <1>1 DEF Declared
  <1>3. PICK n \in T : \A m \in T : n <= m
    <2> HIDE DEF T
    <2> QED BY <1>2, Least
  <1>4. P(n)
    BY <1>1, <1>3
  <1>5. k \in DOMAIN maps /\ x \in DOMAIN maps[k] /\ \A m \in 1..(k - 1) : x \notin DOMAIN maps[m]
    BY <1>4
  <1>6. _findReg(maps, x) = maps[k][x]
    BY DEF _findReg
  <1> HIDE DEF k
  <1>7. maps[k] \in Scope
    BY <1>1, <1>5
  <1>8. maps[k][x] \in Var
    BY <1>5, <1>7 DEF Scope
  <1> QED BY <1>1, <1>5, <1>6, <1>8 DEF Visible

\* The values an instruction of c may use.
Known(c) == {ConstValue(n) : n \in Nat} \cup {InstValue(n) : n \in 1..Len(c.inst)}

\* A known value is an operand and has a data type.
LEMMA KnownValues ==
  ASSUME NEW c, Built(c), NEW v \in Known(c)
  PROVE  v \in Operands /\ DataTypeOf(c, v) \in ValueTypes
  <1>1. CASE v \in {ConstValue(n) : n \in Nat}
    BY <1>1 DEF ConstValue, Operands, DataTypeOf, ValueTypes
  <1>2. CASE v \in {InstValue(n) : n \in 1..Len(c.inst)}
    <2>1. PICK n \in 1..Len(c.inst) : v = InstValue(n)
      BY <1>2
    <2>2. c.inst[n] \in Inst /\ n \in Nat
      BY BuiltLens
    <2>3. v \in Operands
      BY <2>1, <2>2 DEF InstValue, Operands
    <2>4. DataTypeOf(c, v) = c.inst[n].dataType
      BY <2>1 DEF InstValue, DataTypeOf
    <2> QED BY <2>2, <2>3, <2>4 DEF Inst
  <1> QED BY <1>1, <1>2 DEF Known

\* Instructions are never removed, so known values stay known.
LEMMA KnownGrows ==
  ASSUME NEW c, Built(c), NEW d, Built(d), Len(c.inst) <= Len(d.inst)
  PROVE  Known(c) \subseteq Known(d)
  <1>1. 1..Len(c.inst) \subseteq 1..Len(d.inst)
    BY BuiltLens
  <1> QED BY <1>1 DEF Known

\* What has been computed of an expression: h values wait.
Evaluated(c, maps, b, acc, h) ==
    /\ acc = [ir |-> acc.ir, stack |-> acc.stack, ok |-> acc.ok]
    /\ Extends(c, acc.ir, b, Loaded(maps))
    /\ acc.stack \in Seq(Values) /\ Len(acc.stack) = h
    /\ \A k \in 1..h : acc.stack[k] \in Known(acc.ir)

\* The values that wait are still known in a larger context.
LEMMA StackKept ==
  ASSUME NEW c, Built(c), NEW d, Built(d), Len(c.inst) <= Len(d.inst), NEW s \in Seq(Values), NEW v \in Known(d),
         \A k \in 1..Len(s) : s[k] \in Known(c)
  PROVE  /\ Append(s, v) \in Seq(Values) /\ Len(Append(s, v)) = Len(s) + 1
         /\ \A k \in 1..(Len(s) + 1) : Append(s, v)[k] \in Known(d)
  <1>1. v \in Values
    BY KnownValues, ValuesAre
  <1>2. Known(c) \subseteq Known(d)
    BY KnownGrows
  <1>3. /\ Append(s, v) \in Seq(Values) /\ Len(Append(s, v)) = Len(s) + 1 /\ Append(s, v)[Len(s) + 1] = v
        /\ \A k \in 1..Len(s) : Append(s, v)[k] = s[k]
    BY <1>1, Appended
  <1>4. ASSUME NEW k \in 1..(Len(s) + 1) PROVE Append(s, v)[k] \in Known(d)
    <2>1. CASE k = Len(s) + 1
      BY <2>1, <1>3
    <2>2. CASE k # Len(s) + 1
      <3>1. k \in 1..Len(s)
        BY <2>2
      <3> QED BY <3>1, <1>2, <1>3
    <2> QED BY <2>1, <2>2
  <1> QED BY <1>3, <1>4

\* create_number.
LEMMA NumberNode ==
  ASSUME NEW c, Built(c), NEW b \in 1..Len(c.block), NEW maps \in Seq(Scope), NEW acc, NEW h \in Nat,
         Evaluated(c, maps, b, acc, h), acc.ok
  PROVE  Evaluated(c, maps, b, CreateNode(maps, b, acc, <<"NUMBER">>), h + 1)
  <1> DEFINE d == acc.ir
             e == ir_constant_value(d)
             s == acc.stack
             ok == acc.ok
             v == ConstValue(d.consts + 1)
             next == CreateNode(maps, b, acc, <<"NUMBER">>)
  <1>1. Extends(c, d, b, Loaded(maps)) /\ Built(d) /\ s \in Seq(Values) /\ Len(s) = h
    BY DEF Evaluated, Extends
  <1>2. Built(e) /\ e.inst = d.inst /\ e.block = d.block
    BY <1>1, ConstantMade
  <1>3. acc = [ir |-> d, stack |-> s, ok |-> ok]
    BY DEF Evaluated
  <1>4. next = [acc EXCEPT !.ir = e, !.stack = Append(s, v)]
    BY DEF CreateNode
  <1> HIDE DEF d, s, ok, v, e, next
  <1>5. next = [ir |-> e, stack |-> Append(s, v), ok |-> ok]
    BY <1>3, <1>4
  <1>6. v \in Known(e)
    <2>1. d.consts + 1 \in Nat
      BY <1>1 DEF Built, IsIR
    <2> QED BY <2>1 DEF Known, v
  <1>7. b \in 1..Len(d.block) /\ Len(d.inst) \in Nat
    BY <1>1, BuiltLens DEF Extends
  <1>8. Extends(c, e, b, Loaded(maps))
    <2>1. Extends(d, e, b, Loaded(maps))
      BY <1>1, <1>2, <1>7, ExtendsNothing
    <2> QED BY <1>1, <2>1, ExtendsTwice
  <1>9. \A k \in 1..Len(s) : s[k] \in Known(d)
    BY <1>1 DEF Evaluated, s, d
  <1>10. /\ Append(s, v) \in Seq(Values) /\ Len(Append(s, v)) = h + 1
         /\ \A k \in 1..(h + 1) : Append(s, v)[k] \in Known(e)
    <2>1. Len(d.inst) <= Len(e.inst)
      BY <1>2, <1>7
    <2>2. /\ Append(s, v) \in Seq(Values) /\ Len(Append(s, v)) = Len(s) + 1
          /\ \A k \in 1..(Len(s) + 1) : Append(s, v)[k] \in Known(e)
      BY <1>1, <1>2, <1>6, <1>9, <2>1, StackKept
    <2> QED BY <1>1, <2>2
  <1>11. next.ir = e /\ next.stack = Append(s, v) /\ next.ok = ok
    BY <1>5
  <1> QED BY <1>5, <1>8, <1>10, <1>11 DEF Evaluated, next

\* An instruction that was made for one node.
LEMMA NodeInstruction ==
  ASSUME NEW c, Built(c), NEW b \in 1..Len(c.block), NEW maps \in Seq(Scope), NEW acc, NEW h \in Nat,
         Evaluated(c, maps, b, acc, h), NEW g \in 0..h,
         NEW d, NEW type, NEW r, NEW uses, Adds(acc.ir, d, b, type, r, uses),
         (type = "INST_LOAD_VAR" /\ IsVisible(maps, r)) \/ type = "INST_BINARY"
  PROVE  LET n == Len(acc.ir.inst) + 1
         IN  Evaluated(c, maps, b, [ir |-> d, stack |-> Append(SubSeq(acc.stack, 1, g), InstValue(n)), ok |-> acc.ok], g + 1)
  <1> DEFINE e == acc.ir
             n == Len(e.inst) + 1
             s == SubSeq(acc.stack, 1, g)
             v == InstValue(n)
             ok == acc.ok
             next == [ir |-> d, stack |-> Append(s, v), ok |-> ok]
  <1>1. Extends(c, e, b, Loaded(maps)) /\ Built(e) /\ acc.stack \in Seq(Values) /\ Len(acc.stack) = h
        /\ \A k \in 1..h : acc.stack[k] \in Known(e)
    BY DEF Evaluated, Extends
  <1>2. s \in Seq(Values) /\ Len(s) = g /\ \A k \in 1..Len(s) : s[k] \in Known(e)
    <2>1. acc.stack \in Seq(Values) /\ g \in 0..Len(acc.stack)
      BY <1>1
    <2>2. s \in Seq(Values) /\ Len(s) = g /\ \A k \in 1..g : s[k] = acc.stack[k]
      BY <2>1
    <2> QED BY <1>1, <2>2
  <1> HIDE DEF s
  <1>3. Built(d) /\ Len(d.inst) = n /\ Len(e.inst) \in Nat /\ n \in 1..Len(d.inst) /\ d.inst[n] \in Inst
        /\ d.inst[n].type = type /\ d.inst[n].rId = r /\ Extends(e, d, b, {d.inst[n]})
    <2>1. Built(d) /\ Len(d.inst) = n /\ d.inst[n].type = type /\ d.inst[n].rId = r /\ Extends(e, d, b, {d.inst[n]})
      BY DEF Adds, Extends
    <2>2. Len(e.inst) \in Nat
      BY <1>1, BuiltLens
    <2> QED BY <2>1, <2>2, BuiltLens, SMTT(30)
  <1>4. {d.inst[n]} \subseteq Loaded(maps)
    BY <1>3 DEF Loaded
  <1>5. Extends(c, d, b, Loaded(maps))
    BY <1>1, <1>3, <1>4, ExtendsTwice
  <1>6. v \in Known(d)
    BY <1>3 DEF Known
  <1> HIDE DEF v, e, ok
  <1>7. /\ Append(s, v) \in Seq(Values) /\ Len(Append(s, v)) = g + 1
        /\ \A k \in 1..(g + 1) : Append(s, v)[k] \in Known(d)
    <2>1. Len(e.inst) <= Len(d.inst)
      BY <1>3
    <2>2. /\ Append(s, v) \in Seq(Values) /\ Len(Append(s, v)) = Len(s) + 1
          /\ \A k \in 1..(Len(s) + 1) : Append(s, v)[k] \in Known(d)
      BY <1>1, <1>2, <1>3, <1>6, <2>1, StackKept
    <2> QED BY <1>2, <2>2
  <1>8. Evaluated(c, maps, b, next, g + 1)
    BY <1>5, <1>7 DEF Evaluated
  <1> QED BY <1>8 DEF s, v, e, ok

\* An instruction that was made and has its operands goes to the end of a block.
LEMMA AddLoad ==
  ASSUME NEW c, Built(c), NEW b \in 1..Len(c.block), NEW r \in Nat, NEW dataType \in ValueTypes
  PROVE  \E u \in Seq(Values) :
           /\ Len(u) = 0
           /\ Adds(c, block_insert(inst_new_load_var(c, r, dataType), b, Len(c.inst) + 1), b, "INST_LOAD_VAR", r, u)
  <1>1. PICK u \in Seq(Values) : Len(u) = 0 /\ Makes(c, inst_new_load_var(c, r, dataType), "INST_LOAD_VAR", r, u)
    BY BuiltLens, MadeLoad
  <1>2. Shaped(inst_new_load_var(c, r, dataType).inst[Len(c.inst) + 1], Len(c.block))
    BY <1>1 DEF Makes, Shaped
  <1> QED BY <1>1, <1>2, Inserted

\* create_statement of a return adds a return to the block.
LEMMA AddReturn ==
  ASSUME NEW c, Built(c), NEW b \in 1..Len(c.block)
  PROVE  \E u \in Seq(Values) :
           /\ Len(u) = 0
           /\ Adds(c, block_insert(inst_new_return(c), b, Len(c.inst) + 1), b, "INST_RETURN", 0, u)
  <1>1. PICK u \in Seq(Values) : Len(u) = 0 /\ Makes(c, inst_new_return(c), "INST_RETURN", 0, u)
    BY BuiltLens, MadeReturn
  <1>2. Shaped(inst_new_return(c).inst[Len(c.inst) + 1], Len(c.block))
    BY <1>1 DEF Makes, Shaped
  <1> QED BY <1>1, <1>2, Inserted

\* An assignment or a declaration adds an assignment to the block.
LEMMA AddAssign ==
  ASSUME NEW c, Built(c), NEW b \in 1..Len(c.block), NEW r \in Nat, NEW v \in Operands
  PROVE  \E u \in Seq(Values) :
           /\ Len(u) = 1 /\ u[1] = v
           /\ Adds(c, block_insert(inst_new_assign_var(c, r, v), b, Len(c.inst) + 1), b, "INST_ASSIGN_VAR", r, u)
  <1>1. IsIR(c) /\ v \in Values /\ "INST_ASSIGN_VAR" \in InstTypes
    BY BuiltLens, ValuesAre DEF InstTypes
  <1>2. PICK u \in Seq(Values) : Len(u) = 1 /\ u[1] = v
                                 /\ Makes(c, inst_new_assign_var(c, r, v), "INST_ASSIGN_VAR", r, u)
    BY <1>1, MadeOne DEF inst_new_assign_var
  <1>3. Shaped(inst_new_assign_var(c, r, v).inst[Len(c.inst) + 1], Len(c.block))
    BY <1>2 DEF Makes, Shaped
  <1> QED BY <1>2, <1>3, Inserted

\* create_expression adds a binary instruction to the block.
LEMMA AddBinary ==
  ASSUME NEW c, Built(c), NEW b \in 1..Len(c.block), NEW v \in Known(c), NEW w \in Known(c)
  PROVE  \E u \in Seq(Values) :
           Adds(c, block_insert(inst_new_binary(c, v, w), b, Len(c.inst) + 1), b, "INST_BINARY", 0, u)
  <1>1. IsIR(c) /\ v \in Operands /\ w \in Operands /\ v \in Values /\ w \in Values /\ DataTypeOf(c, v) \in ValueTypes
    BY BuiltLens, KnownValues, ValuesAre
  <1>2. PICK u \in Seq(Values) : Len(u) = 2 /\ u[1] = v /\ u[2] = w
                                 /\ Makes(c, inst_new_binary(c, v, w), "INST_BINARY", 0, u)
    BY <1>1, MadeBinary
  <1>3. Shaped(inst_new_binary(c, v, w).inst[Len(c.inst) + 1], Len(c.block))
    BY <1>1, <1>2 DEF Makes, Shaped
  <1> QED BY <1>2, <1>3, Inserted

\* A jump to an existing block is added to the block.
LEMMA AddJump ==
  ASSUME NEW c, Built(c), NEW b \in 1..Len(c.block), NEW t \in 1..Len(c.block)
  PROVE  /\ Len(inst_new_jump(c, t).inst) = Len(c.inst) + 1
         /\ \E u \in Seq(Values) :
              /\ Len(u) = 1 /\ u[1] = BlockValue(t)
              /\ Adds(c, block_insert(inst_new_jump(c, t), b, Len(c.inst) + 1), b, "INST_JUMP", 0, u)
  <1>1. IsIR(c) /\ BlockValue(t) \in Values /\ "INST_JUMP" \in InstTypes /\ 0 \in Nat
    BY BuiltLens, ValuesAre DEF InstTypes
  <1>2. PICK u \in Seq(Values) : Len(u) = 1 /\ u[1] = BlockValue(t)
                                 /\ Makes(c, inst_new_jump(c, t), "INST_JUMP", 0, u)
    BY <1>1, MadeOne DEF inst_new_jump
  <1>3. Shaped(inst_new_jump(c, t).inst[Len(c.inst) + 1], Len(c.block))
    BY <1>2 DEF Makes, Shaped
  <1>4. Len(inst_new_jump(c, t).inst) = Len(c.inst) + 1
    BY <1>2 DEF Makes
  <1> QED BY <1>2, <1>3, <1>4, Inserted

\* A conditional jump to two existing blocks is added to the block.
LEMMA AddJumpCond ==
  ASSUME NEW c, Built(c), NEW b \in 1..Len(c.block), NEW t \in 1..Len(c.block), NEW w \in 1..Len(c.block),
         NEW v \in Operands
  PROVE  /\ Len(inst_new_jump_cond(c, t, w, v).inst) = Len(c.inst) + 1
         /\ \E u \in Seq(Values) :
              /\ Len(u) = 3 /\ u[1] = BlockValue(t) /\ u[2] = BlockValue(w) /\ u[3] = v
              /\ Adds(c, block_insert(inst_new_jump_cond(c, t, w, v), b, Len(c.inst) + 1), b, "INST_JUMP_COND", 0, u)
  <1>1. IsIR(c) /\ t \in Nat /\ w \in Nat
    BY BuiltLens
  <1>2. PICK u \in Seq(Values) : Len(u) = 3 /\ u[1] = BlockValue(t) /\ u[2] = BlockValue(w) /\ u[3] = v
                                 /\ Makes(c, inst_new_jump_cond(c, t, w, v), "INST_JUMP_COND", 0, u)
    BY <1>1, MadeJumpCond
  <1>3. Shaped(inst_new_jump_cond(c, t, w, v).inst[Len(c.inst) + 1], Len(c.block))
    BY <1>2 DEF Makes, Shaped
  <1>4. Len(inst_new_jump_cond(c, t, w, v).inst) = Len(c.inst) + 1
    BY <1>2 DEF Makes
  <1> QED BY <1>2, <1>3, <1>4, Inserted

\* create_variable.
LEMMA VariableNode ==
  ASSUME NEW c, Built(c), NEW b \in 1..Len(c.block), NEW maps \in Seq(Scope), NEW acc, NEW h \in Nat,
         Evaluated(c, maps, b, acc, h), acc.ok, NEW x \in Names
  PROVE  LET next == CreateNode(maps, b, acc, <<"VARIABLE", x>>)
         IN  next.ok => Evaluated(c, maps, b, next, h + 1)
  <1> DEFINE e == acc.ir
             n == Len(e.inst) + 1
             s == acc.stack
             ok == acc.ok
             var == _findReg(maps, x)
             d == block_insert(inst_new_load_var(e, var.rId, var.dataType), b, n)
             next == CreateNode(maps, b, acc, <<"VARIABLE", x>>)
  <1>1. CASE ~Declared(maps, x)
    <2>1. next = [acc EXCEPT !.ok = FALSE]
      BY <1>1 DEF CreateNode
    <2>2. ~next.ok
      <3>1. acc = [ir |-> e, stack |-> s, ok |-> ok]
        BY DEF Evaluated
      <3> HIDE DEF next, e, s, ok
      <3> QED BY <2>1, <3>1
    <2> QED BY <2>2
  <1>2. CASE Declared(maps, x)
    <2>1. PICK k \in 1..Len(maps) : var \in Var /\ var.rId \in Visible(maps[k])
      BY <1>2, Found
    <2>2. IsVisible(maps, var.rId) /\ var.rId \in Nat /\ var.dataType \in ValueTypes
      BY <2>1 DEF IsVisible, Var
    <2>3. Built(e) /\ b \in 1..Len(e.block) /\ s \in Seq(Values) /\ Len(s) = h
      BY DEF Evaluated, Extends
    <2>4. PICK u : Adds(e, d, b, "INST_LOAD_VAR", var.rId, u)
      BY <2>2, <2>3, AddLoad
    <2>5. next = [acc EXCEPT !.ir = d, !.stack = Append(s, InstValue(n))]
      BY <1>2 DEF CreateNode
    <2>6. acc = [ir |-> e, stack |-> s, ok |-> ok]
      BY DEF Evaluated
    <2>7. Evaluated(c, maps, b, [ir |-> d, stack |-> Append(SubSeq(s, 1, h), InstValue(n)), ok |-> ok], h + 1)
      <3>1. h \in 0..h
        OBVIOUS
      <3> HIDE DEF d, var
      <3> QED BY <2>2, <2>4, <3>1, NodeInstruction
    <2>8. SubSeq(s, 1, h) = s
      <3> HIDE DEF s
      <3> QED BY <2>3
    <2> HIDE DEF d, s, e, ok, n, next
    <2>9. next = [ir |-> d, stack |-> Append(s, InstValue(n)), ok |-> ok]
      BY <2>5, <2>6
    <2> QED BY <2>7, <2>8, <2>9 DEF next
  <1> QED BY <1>1, <1>2

\* create_binary.
LEMMA BinaryNode ==
  ASSUME NEW c, Built(c), NEW b \in 1..Len(c.block), NEW maps \in Seq(Scope), NEW acc, NEW h \in Nat,
         Evaluated(c, maps, b, acc, h), acc.ok, h > 1
  PROVE  LET next == CreateNode(maps, b, acc, <<"BINARY_EXP">>)
         IN  next.ok => Evaluated(c, maps, b, next, h - 1)
  <1> DEFINE e == acc.ir
             n == Len(e.inst) + 1
             s == acc.stack
             ok == acc.ok
             left == s[Len(s) - 1]
             right == s[Len(s)]
             d == block_insert(inst_new_binary(e, left, right), b, n)
             next == CreateNode(maps, b, acc, <<"BINARY_EXP">>)
  <1>0. acc = [ir |-> e, stack |-> s, ok |-> ok]
    BY DEF Evaluated
  <1>1. CASE DataTypeOf(e, left) # DataTypeOf(e, right)
    <2>1. next = [acc EXCEPT !.ok = FALSE]
      BY <1>1 DEF CreateNode
    <2>2. ~next.ok
      <3> HIDE DEF next, e, s, ok
      <3> QED BY <1>0, <2>1
    <2> QED BY <2>2
  <1>2. CASE DataTypeOf(e, left) = DataTypeOf(e, right)
    <2>1. next = [acc EXCEPT !.ir = d, !.stack = Append(SubSeq(s, 1, Len(s) - 2), InstValue(n))]
      BY <1>2 DEF CreateNode
    <2>2. Built(e) /\ b \in 1..Len(e.block) /\ s \in Seq(Values) /\ Len(s) = h /\ \A k \in 1..h : s[k] \in Known(e)
      BY DEF Evaluated, Extends
    <2>3. left \in Known(e) /\ right \in Known(e)
      <3>1. Len(s) \in 1..h /\ Len(s) - 1 \in 1..h
        BY <2>2
      <3> QED BY <2>2, <3>1
    <2>4. PICK u : Adds(e, d, b, "INST_BINARY", 0, u)
      <3> HIDE DEF left, right
      <3> QED BY <2>2, <2>3, AddBinary
    <2>5. h - 2 \in 0..h /\ (h - 2) + 1 = h - 1
      OBVIOUS
    <2> DEFINE g == h - 2
    <2>6. Evaluated(c, maps, b, [ir |-> d, stack |-> Append(SubSeq(s, 1, g), InstValue(n)), ok |-> ok], g + 1)
      <3>1. g \in 0..h
        BY <2>5
      <3> HIDE DEF d, g
      <3> QED BY <2>4, <3>1, NodeInstruction
    <2> HIDE DEF d, s, e, ok, n, next
    <2>7. next = [ir |-> d, stack |-> Append(SubSeq(s, 1, Len(s) - 2), InstValue(n)), ok |-> ok]
      BY <1>0, <2>1
    <2>8. next = [ir |-> d, stack |-> Append(SubSeq(s, 1, g), InstValue(n)), ok |-> ok]
      BY <2>2, <2>7
    <2>9. Evaluated(c, maps, b, next, g + 1)
      BY <2>6, <2>8
    <2> QED BY <2>5, <2>9 DEF next
  <1> QED BY <1>1, <1>2

\* The recursion over the nodes of an expression has a value at every node.
IsCreated(f, c, maps, b, e, n) ==
    f = [k \in 0..n |-> IF k = 0 THEN [ir |-> c, stack |-> <<>>, ok |-> TRUE]
                        ELSE CreateNode(maps, b, f[k - 1], e[k])]

\* The recursion of create_expression has a solution.
LEMMA CreatedExists ==
  ASSUME NEW c, NEW maps, NEW b, NEW e, NEW n \in Nat
  PROVE  \E f : IsCreated(f, c, maps, b, e, n)
  <1> DEFINE A == [ir |-> c, stack |-> <<>>, ok |-> TRUE]
             P(m) == \E f : f = [k \in 0..m |-> IF k = 0 THEN A ELSE CreateNode(maps, b, f[k - 1], e[k])]
             T == {m \in Nat : ~P(m)}
  <1> HIDE DEF A
  <1>1. SUFFICES ASSUME T # {} PROVE FALSE
    BY <1>1 DEF A, IsCreated
  <1>2. PICK m \in T : \A y \in T : m <= y
    <2> HIDE DEF T
    <2>1. T \subseteq Nat
      BY DEF T
    <2> QED BY <1>1, <2>1, Least
  <1>3. m \in Nat /\ ~P(m)
    OBVIOUS
  <1>4. CASE m = 0
    <2> DEFINE f == [k \in 0..0 |-> A]
    <2>1. f = [k \in 0..0 |-> IF k = 0 THEN A ELSE CreateNode(maps, b, f[k - 1], e[k])]
      OBVIOUS
    <2>2. P(0)
      <3> HIDE DEF f
      <3> QED BY <2>1
    <2> HIDE DEF P
    <2> QED BY <1>3, <1>4, <2>2
  <1>5. CASE m # 0
    <2>1. m - 1 \in Nat /\ ~(m <= m - 1) /\ 0..m = (0..(m - 1)) \cup {m}
      BY <1>3, <1>5
    <2>2. P(m - 1)
      <3> HIDE DEF P
      <3> QED BY <1>2, <2>1
    <2>3. PICK g : g = [k \in 0..(m - 1) |-> IF k = 0 THEN A ELSE CreateNode(maps, b, g[k - 1], e[k])]
      BY <2>2
    <2> DEFINE x == CreateNode(maps, b, g[m - 1], e[m])
               f == [k \in 0..m |-> IF k = m THEN x ELSE g[k]]
    <2>4. \A k \in 0..(m - 1) : f[k] = g[k]
      BY <2>1
    <2>5. ASSUME NEW k \in 0..m PROVE f[k] = IF k = 0 THEN A ELSE CreateNode(maps, b, f[k - 1], e[k])
      <3>1. CASE k = m
        <4>1. f[k] = x /\ f[m - 1] = g[m - 1]
          BY <2>1, <2>4, <3>1
        <4> HIDE DEF f
        <4> QED BY <1>5, <3>1, <4>1
      <3>2. CASE k = 0
        <4>1. g[0] = A /\ f[0] = g[0]
          <5> HIDE DEF f
          <5> QED BY <2>1, <2>3, <2>4
        <4> HIDE DEF f
        <4> QED BY <3>2, <4>1
      <3>3. CASE k # m /\ k # 0
        <4>1. k \in 0..(m - 1) /\ k - 1 \in 0..(m - 1)
          BY <1>3, <3>3
        <4>2. g[k] = CreateNode(maps, b, g[k - 1], e[k])
          BY <2>3, <3>3, <4>1
        <4> HIDE DEF f
        <4> QED BY <2>4, <3>3, <4>1, <4>2
      <3> QED BY <3>1, <3>2, <3>3
    <2>6. f = [k \in 0..m |-> f[k]]
      OBVIOUS
    <2> HIDE DEF f
    <2>7. f = [k \in 0..m |-> IF k = 0 THEN A ELSE CreateNode(maps, b, f[k - 1], e[k])]
      BY <2>5, <2>6
    <2>8. P(m)
      BY <2>7
    <2> HIDE DEF P
    <2> QED BY <1>3, <2>8
  <1> QED BY <1>4, <1>5

\* create_value puts loads of visible variables and binary operations at the
\* end of the block and returns an operand, unless an assert fails.
LEMMA ValueCreated ==
  ASSUME NEW c, Built(c), NEW b \in 1..Len(c.block), NEW maps \in Seq(Scope), NEW e \in Expressions \cup Conditions,
         create_value(c, maps, b, e).ok
  PROVE  LET val == create_value(c, maps, b, e)
         IN  Extends(c, val.ir, b, Loaded(maps)) /\ ValueOf(val) \in Operands
  <1> DEFINE A == [ir |-> c, stack |-> <<>>, ok |-> TRUE]
             n == Len(e)
             created == CHOOSE f : f = [k \in 0..n |-> IF k = 0 THEN A ELSE CreateNode(maps, b, f[k - 1], e[k])]
             val == create_value(c, maps, b, e)
  <1>1. IsExpression(e)
    BY ExpressionsAssumption
  <1>2. n \in Nat /\ \A k \in 1..n : e[k] \in Nodes
    BY <1>1 DEF IsExpression
  <1>3. PICK height \in [0..n -> 0..n] :
          /\ height[0] = 0
          /\ height[n] = 1
          /\ \A k \in 1..n :
                IF e[k] = <<"BINARY_EXP">> THEN height[k - 1] > 1 /\ height[k] = height[k - 1] - 1
                ELSE height[k] = height[k - 1] + 1
    BY <1>1 DEF IsExpression
  <1>4. val = created[n]
    BY DEF create_value
  <1>5. created = [k \in 0..n |-> IF k = 0 THEN A ELSE CreateNode(maps, b, created[k - 1], e[k])]
    <2>1. n \in Nat
      BY <1>2
    <2> HIDE DEF n
    <2>2. \E f : IsCreated(f, c, maps, b, e, n)
      BY <2>1, CreatedExists
    <2>3. PICK f : f = [k \in 0..n |-> IF k = 0 THEN A ELSE CreateNode(maps, b, f[k - 1], e[k])]
      BY <2>2 DEF IsCreated
    <2> HIDE DEF A
    <2> QED BY <2>3
  <1> HIDE DEF created, n, val
  <1>6. created[0] = A /\ \A k \in 1..n : created[k] = CreateNode(maps, b, created[k - 1], e[k])
    <2>1. 0 \in 0..n /\ \A k \in 1..n : k \in 0..n /\ k # 0
      BY <1>2
    <2> HIDE DEF A
    <2> QED BY <1>5, <2>1
  <1>7. Evaluated(c, maps, b, A, 0)
    <2>1. A.ir = c /\ A.stack = <<>> /\ A.ok = TRUE /\ <<>> \in Seq(Values) /\ Len(<<>>) = 0
      OBVIOUS
    <2>2. Extends(c, c, b, Loaded(maps))
      BY ExtendsNothing
    <2> QED BY <2>1, <2>2 DEF Evaluated
  <1> HIDE DEF A
  <1> DEFINE P(k) == created[k].ok => Evaluated(c, maps, b, created[k], height[k])
             T == {k \in 0..n : ~P(k)}
  <1>8. ASSUME NEW k \in 1..n, P(k - 1) PROVE P(k)
    <2>1. k - 1 \in 0..n /\ height[k - 1] \in Nat /\ e[k] \in Nodes /\ height[k] \in Nat
      BY <1>2, <1>3
    <2> DEFINE acc == created[k - 1]
    <2>2. SUFFICES ASSUME created[k].ok PROVE Evaluated(c, maps, b, created[k], height[k])
      OBVIOUS
    <2>3. created[k] = CreateNode(maps, b, acc, e[k])
      BY <1>6
    <2> HIDE DEF acc
    <2>4. acc.ok
      <3>1. ~acc.ok => CreateNode(maps, b, acc, e[k]) = acc
        BY DEF CreateNode
      <3> QED BY <2>2, <2>3, <3>1
    <2>5. Evaluated(c, maps, b, acc, height[k - 1])
      BY <1>8, <2>4 DEF acc
    <2> DEFINE h == height[k - 1]
    <2>6. h \in Nat
      BY <2>1
    <2>7. CASE e[k] = <<"BINARY_EXP">>
      <3>1. h > 1 /\ height[k] = h - 1
        BY <1>3, <2>7
      <3> HIDE DEF h
      <3> QED BY <2>2, <2>3, <2>4, <2>5, <2>6, <2>7, <3>1, BinaryNode DEF h
    <2>8. CASE e[k] # <<"BINARY_EXP">>
      <3>1. height[k] = h + 1
        BY <1>3, <2>8
      <3>2. CASE e[k] = <<"NUMBER">>
        <4> HIDE DEF h
        <4> QED BY <2>3, <2>4, <2>5, <2>6, <3>1, <3>2, NumberNode DEF h
      <3>3. CASE e[k] # <<"NUMBER">>
        <4>1. PICK x \in Names : e[k] = <<"VARIABLE", x>>
          BY <2>1, <2>8, <3>3 DEF Nodes
        <4> HIDE DEF h
        <4> QED BY <2>2, <2>3, <2>4, <2>5, <2>6, <3>1, <4>1, VariableNode DEF h
      <3> QED BY <3>2, <3>3
    <2> QED BY <2>7, <2>8
  <1>9. P(0)
    BY <1>3, <1>6, <1>7
  <1> HIDE DEF P
  <1>10. T = {}
    <2>1. SUFFICES ASSUME T # {} PROVE FALSE
      OBVIOUS
    <2>2. T \subseteq Nat
      OBVIOUS
    <2>3. PICK k \in T : \A y \in T : k <= y
      <3> HIDE DEF T
      <3> QED BY <2>1, <2>2, Least
    <2>4. k \in 0..n /\ ~P(k) /\ k # 0 /\ k \in 1..n /\ k - 1 \in 0..n /\ ~(k <= k - 1)
      BY <1>2, <1>9, SMTT(30)
    <2>5. P(k - 1)
      BY <2>3, <2>4
    <2> QED BY <1>8, <2>4, <2>5
  <1>11. P(n)
    <2>1. n \in 0..n
      BY <1>2
    <2>2. n \notin T
      BY <1>10
    <2> QED BY <2>1, <2>2
  <1>12. Evaluated(c, maps, b, val, 1)
    BY <1>3, <1>4, <1>11 DEF P, val
  <1>13. Extends(c, val.ir, b, Loaded(maps)) /\ val.stack[1] \in Known(val.ir) /\ Built(val.ir)
    BY <1>12 DEF Evaluated, Extends
  <1> QED BY <1>13, KnownValues DEF val, ValueOf

-----------------------------------------------------------------------------
\* Where the instructions of a context stand.

At(c, b, k) == c.inst[c.block[b][k]]

JumpAt(c, b, k) == IsJump(At(c, b, k))

NoJump(c, b) == \A k \in 1..Len(c.block[b]) : ~JumpAt(c, b, k)

\* Every position of d is one of c or holds one of the new instructions.
LEMMA ExtendsAt ==
  ASSUME NEW c, Built(c), NEW b \in 1..Len(c.block), NEW d, NEW New, Extends(c, d, b, New),
         NEW x \in 1..Len(d.block), NEW k \in 1..Len(d.block[x])
  PROVE  \/ /\ k \in 1..Len(c.block[x]) /\ d.block[x][k] = c.block[x][k] /\ At(d, x, k) = At(c, x, k)
            /\ c.block[x][k] \in 1..Len(c.inst)
         \/ /\ x = b /\ k \in (Len(c.block[b]) + 1)..Len(d.block[b])
            /\ d.block[x][k] \in (Len(c.inst) + 1)..Len(d.inst) /\ At(d, x, k) \in New
  <1>1. x \in 1..Len(c.block) /\ Len(c.block[x]) \in Nat /\ Len(c.block[b]) \in Nat /\ Len(d.block[b]) \in Nat
    BY BuiltLens DEF Extends
  <1>2. CASE k \in 1..Len(c.block[x])
    <2>1. d.block[x][k] = c.block[x][k]
      BY <1>1, <1>2 DEF Extends
    <2>2. c.block[x][k] \in 1..Len(c.inst)
      BY <1>1, <1>2 DEF Built
    <2>3. At(d, x, k) = At(c, x, k)
      BY <2>1, <2>2, SMTT(30) DEF Extends, At
    <2> QED BY <1>2, <2>1, <2>2, <2>3
  <1>3. CASE k \notin 1..Len(c.block[x])
    <2>1. x = b
      BY <1>1, <1>3 DEF Extends
    <2>2. k \in (Len(c.block[b]) + 1)..Len(d.block[b])
      BY <1>1, <1>3, <2>1
    <2>3. d.block[x][k] \in (Len(c.inst) + 1)..Len(d.inst)
      BY <2>1, <2>2 DEF Extends
    <2>4. At(d, x, k) \in New
      BY <2>3 DEF Extends, At
    <2> QED BY <2>1, <2>2, <2>3, <2>4
  <1> QED BY <1>2, <1>3

\* Every position of c is one of d.
LEMMA ExtendsKeeps ==
  ASSUME NEW c, Built(c), NEW b \in 1..Len(c.block), NEW d, NEW New, Extends(c, d, b, New),
         NEW x \in 1..Len(c.block)
  PROVE  /\ x \in 1..Len(d.block) /\ Len(c.block[x]) \in Nat /\ Len(d.block[x]) \in Nat
         /\ Len(c.block[x]) <= Len(d.block[x])
         /\ x # b => d.block[x] = c.block[x]
         /\ \A k \in 1..Len(c.block[x]) :
              /\ k \in 1..Len(d.block[x]) /\ d.block[x][k] = c.block[x][k] /\ At(d, x, k) = At(c, x, k)
              /\ c.block[x][k] \in 1..Len(c.inst)
  <1>1. x \in 1..Len(d.block) /\ Len(c.block[x]) \in Nat /\ Len(d.block[x]) \in Nat
        /\ Len(c.block[x]) <= Len(d.block[x]) /\ (x # b => d.block[x] = c.block[x])
    <2>1. x \in 1..Len(d.block) /\ Len(c.block[x]) \in Nat /\ Len(d.block[x]) \in Nat
      BY BuiltLens DEF Extends
    <2>2. CASE x = b
      BY <2>1, <2>2 DEF Extends
    <2>3. CASE x # b
      BY <2>1, <2>3 DEF Extends
    <2> QED BY <2>1, <2>2, <2>3
  <1>2. ASSUME NEW k \in 1..Len(c.block[x])
        PROVE  /\ k \in 1..Len(d.block[x]) /\ d.block[x][k] = c.block[x][k] /\ At(d, x, k) = At(c, x, k)
               /\ c.block[x][k] \in 1..Len(c.inst)
    <2>1. k \in 1..Len(d.block[x])
      BY <1>1
    <2>2. k \notin (Len(c.block[x]) + 1)..Len(d.block[x])
      BY <1>1
    <2>3. x = b => k \notin (Len(c.block[b]) + 1)..Len(d.block[b])
      BY <2>2
    <2>4. \/ /\ k \in 1..Len(c.block[x]) /\ d.block[x][k] = c.block[x][k] /\ At(d, x, k) = At(c, x, k)
             /\ c.block[x][k] \in 1..Len(c.inst)
          \/ x = b /\ k \in (Len(c.block[b]) + 1)..Len(d.block[b])
      BY <1>1, <2>1, ExtendsAt, Zenon
    <2> QED BY <2>1, <2>3, <2>4, Zenon
  <1> QED BY <1>1, <1>2

\* d is c with one more block, which is empty.
Grown(c, d) ==
    /\ Built(d)
    /\ d.inst = c.inst
    /\ Len(d.block) = Len(c.block) + 1
    /\ \A b \in 1..Len(c.block) : d.block[b] = c.block[b]
    /\ d.block[Len(c.block) + 1] = <<>>

\* block_new keeps every block and adds an empty one.
LEMMA GrownAt ==
  ASSUME NEW c, Built(c), NEW d, Grown(c, d)
  PROVE  /\ Len(c.block) \in Nat /\ Len(d.block) = Len(c.block) + 1 /\ Len(c.block) + 1 \in 1..Len(d.block)
         /\ Len(c.block) + 1 \notin 1..Len(c.block)
         /\ \A x \in 1..Len(c.block) :
               x \in 1..Len(d.block) /\ d.block[x] = c.block[x]
               /\ \A k \in 1..Len(c.block[x]) : At(d, x, k) = At(c, x, k)
         /\ \A x \in 1..Len(d.block) : x \in 1..Len(c.block) \/ x = Len(c.block) + 1
         /\ Len(d.block[Len(c.block) + 1]) = 0
         /\ \A k \in 1..Len(d.block[Len(c.block) + 1]) : FALSE
  <1>1. Len(c.block) \in Nat /\ Len(d.block) = Len(c.block) + 1 /\ d.block[Len(c.block) + 1] = <<>>
    BY BuiltLens DEF Grown
  <1>2. \A x \in 1..Len(c.block) : d.block[x] = c.block[x] /\ \A k \in 1..Len(c.block[x]) : At(d, x, k) = At(c, x, k)
    BY DEF Grown, At
  <1> QED BY <1>1, <1>2

\* What block_new keeps of one block.
LEMMA GrownKeeps ==
  ASSUME NEW c, Built(c), NEW d, Grown(c, d), NEW x \in 1..Len(c.block)
  PROVE  /\ d.block[x] = c.block[x] /\ Len(c.block[x]) \in Nat /\ x # Len(c.block) + 1 /\ x \in 1..Len(d.block)
         /\ \A k \in 1..Len(c.block[x]) : At(d, x, k) = At(c, x, k)
  <1>1. Len(c.block[x]) \in Nat
    BY BuiltLens
  <1> QED BY <1>1, GrownAt

\* Block x holds the same instructions in c and d.
Same(c, d, x) == d.block[x] = c.block[x] /\ \A k \in 1..Len(c.block[x]) : At(d, x, k) = At(c, x, k)

\* What extends block b leaves the other blocks as they are.
LEMMA OthersSame ==
  ASSUME NEW c, Built(c), NEW b \in 1..Len(c.block), NEW d, NEW New, Extends(c, d, b, New),
         NEW x \in 1..Len(c.block), x # b
  PROVE  Same(c, d, x)
  <1>1. /\ x \in 1..Len(d.block) /\ Len(c.block[x]) \in Nat /\ Len(d.block[x]) \in Nat
        /\ Len(c.block[x]) <= Len(d.block[x])
        /\ x # b => d.block[x] = c.block[x]
        /\ \A k \in 1..Len(c.block[x]) :
              /\ k \in 1..Len(d.block[x]) /\ d.block[x][k] = c.block[x][k] /\ At(d, x, k) = At(c, x, k)
              /\ c.block[x][k] \in 1..Len(c.inst)
    BY ExtendsKeeps, Zenon
  <1> QED BY <1>1 DEF Same

\* block_new leaves the other blocks as they are.
LEMMA GrownSame ==
  ASSUME NEW c, Built(c), NEW d, Grown(c, d), NEW x \in 1..Len(c.block)
  PROVE  Same(c, d, x)
  <1>1. \A y \in 1..Len(c.block) :
           /\ d.block[y] = c.block[y] /\ Len(c.block[y]) \in Nat /\ y # Len(c.block) + 1 /\ y \in 1..Len(d.block)
           /\ \A m \in 1..Len(c.block[y]) : At(d, y, m) = At(c, y, m)
    BY GrownKeeps, Zenon
  <1> QED BY <1>1 DEF Same

-----------------------------------------------------------------------------
\* The region of a register: the blocks made while it was visible.  The only
\* way in is from the block D where it is declared, which assigns it.

Assigns(c, i, r) == c.inst[i].type = "INST_ASSIGN_VAR" /\ c.inst[i].rId = r

LoadIsSafe(c, R, r, b, k) ==
    \/ b \in R
    \/ \E j \in 1..(k - 1) : Assigns(c, c.block[b][j], r)
    \/ \A a \in 1..Len(c.inst) : Assigns(c, a, r) => c.block[b][k] < a

LoadsSafe(c, r, R) ==
    \A b \in 1..Len(c.block) : \A k \in 1..Len(c.block[b]) :
        At(c, b, k).type = "INST_LOAD_VAR" /\ At(c, b, k).rId = r => LoadIsSafe(c, R, r, b, k)

\* Instruction i jumps into R.
JumpsInto(i, R) == IsJump(i) /\ \E s \in 1..Len(i.uses) : i.uses[s][1] = "V_BLOCK" /\ i.uses[s][2] \in R

EnteredFrom(c, R, D) ==
    \A b \in 1..Len(c.block) : \A k \in 1..Len(c.block[b]) : JumpsInto(At(c, b, k), R) => b \in R \cup {D}

Region(c, r, R, D) ==
    /\ R \subseteq 1..Len(c.block)
    /\ D \in 1..Len(c.block)
    /\ 1 \notin R
    /\ \E k \in 1..Len(c.block[D]) : Assigns(c, c.block[D][k], r)
    /\ LoadsSafe(c, r, R)
    /\ EnteredFrom(c, R, D)

\* A region stays one if what is added loads its register and jumps into it
\* only from inside.
LEMMA RegionExtends ==
  ASSUME NEW c, Built(c), NEW b \in 1..Len(c.block), NEW d, NEW New, Extends(c, d, b, New),
         NEW r, NEW R, NEW D, Region(c, r, R, D),
         \A i \in New : (i.type = "INST_LOAD_VAR" /\ i.rId = r) \/ JumpsInto(i, R) => b \in R \cup {D}
  PROVE  Region(d, r, R, D)
  <1>1. D \in 1..Len(c.block) /\ Len(d.block) = Len(c.block) /\ Built(d)
    BY DEF Region, Extends
  <1>2. PICK j \in 1..Len(c.block[D]) : Assigns(c, c.block[D][j], r)
    BY DEF Region
  <1>a. ASSUME NEW x \in 1..Len(c.block), NEW k \in 1..Len(c.block[x])
        PROVE  /\ k \in 1..Len(d.block[x]) /\ d.block[x][k] = c.block[x][k] /\ At(d, x, k) = At(c, x, k)
               /\ Len(c.block[x]) \in Nat
    BY ExtendsKeeps, ZenonT(40)
  <1>b. ASSUME NEW x \in 1..Len(d.block), NEW k \in 1..Len(d.block[x])
        PROVE  \/ /\ k \in 1..Len(c.block[x]) /\ d.block[x][k] = c.block[x][k] /\ At(d, x, k) = At(c, x, k)
                  /\ c.block[x][k] \in 1..Len(c.inst)
               \/ /\ x = b /\ k \in (Len(c.block[b]) + 1)..Len(d.block[b])
                  /\ d.block[x][k] \in (Len(c.inst) + 1)..Len(d.inst) /\ At(d, x, k) \in New
    BY ExtendsAt, Zenon
  <1>3. j \in 1..Len(d.block[D]) /\ Assigns(d, d.block[D][j], r) /\ Len(c.block[D]) \in Nat
    <2>1. /\ j \in 1..Len(d.block[D]) /\ d.block[D][j] = c.block[D][j] /\ At(d, D, j) = At(c, D, j)
          /\ Len(c.block[D]) \in Nat
      BY <1>1, <1>2, <1>a
    <2> QED BY <1>2, <2>1 DEF Assigns, At
  <1>4. ASSUME NEW x \in 1..Len(d.block), NEW k \in 1..Len(d.block[x]),
               At(d, x, k).type = "INST_LOAD_VAR", At(d, x, k).rId = r
        PROVE  LoadIsSafe(d, R, r, x, k)
    <2>1. CASE /\ k \in 1..Len(c.block[x]) /\ d.block[x][k] = c.block[x][k] /\ At(d, x, k) = At(c, x, k)
               /\ c.block[x][k] \in 1..Len(c.inst)
      <3>0. x \in 1..Len(c.block)
        BY <1>1
      <3>1. LoadIsSafe(c, R, r, x, k)
        BY <3>0, <2>1, <1>4 DEF Region, LoadsSafe
      <3>2. CASE x \in R
        BY <3>2 DEF LoadIsSafe
      <3>3. CASE \E m \in 1..(k - 1) : Assigns(c, c.block[x][m], r)
        <4>1. PICK m \in 1..(k - 1) : Assigns(c, c.block[x][m], r)
          BY <3>3
        <4>2. m \in 1..Len(c.block[x])
          <5>1. Len(c.block[x]) \in Nat
            BY <3>0, BuiltLens
          <5> QED BY <2>1, <5>1
        <4>3. d.block[x][m] = c.block[x][m] /\ At(d, x, m) = At(c, x, m)
          BY <3>0, <4>2, <1>a
        <4>4. Assigns(d, d.block[x][m], r)
          BY <4>1, <4>3 DEF Assigns, At
        <4> QED BY <4>4 DEF LoadIsSafe
      <3>4. CASE \A a \in 1..Len(c.inst) : Assigns(c, a, r) => c.block[x][k] < a
        <4>1. ASSUME NEW a \in 1..Len(d.inst), Assigns(d, a, r) PROVE d.block[x][k] < a
          <5>0. Len(c.inst) \in Nat /\ Len(d.inst) \in Nat
            BY <1>1, BuiltLens
          <5>1. CASE a \in 1..Len(c.inst)
            <6>1. d.inst[a] = c.inst[a]
              BY <5>1 DEF Extends
            <6> QED BY <2>1, <3>4, <4>1, <5>1, <6>1 DEF Assigns
          <5>2. CASE a \notin 1..Len(c.inst)
            BY <2>1, <5>0, <5>2, SMTT(30)
          <5> QED BY <5>1, <5>2
        <4> QED BY <4>1 DEF LoadIsSafe
      <3> QED BY <3>1, <3>2, <3>3, <3>4 DEF LoadIsSafe
    <2>2. CASE x = b /\ k \in (Len(c.block[b]) + 1)..Len(d.block[b]) /\ At(d, x, k) \in New
      <3>1. b \in R \cup {D}
        BY <1>4, <2>2
      <3>2. CASE b \in R
        BY <2>2, <3>2 DEF LoadIsSafe
      <3>3. CASE b = D
        <4>1. j \in 1..(k - 1)
          BY <1>2, <1>3, <2>2, <3>3
        <4> QED BY <1>3, <2>2, <3>3, <4>1 DEF LoadIsSafe
      <3> QED BY <3>1, <3>2, <3>3
    <2> QED BY <2>1, <2>2, <1>b
  <1>5. ASSUME NEW x \in 1..Len(d.block), NEW k \in 1..Len(d.block[x]), JumpsInto(At(d, x, k), R)
        PROVE  x \in R \cup {D}
    <2>1. CASE k \in 1..Len(c.block[x]) /\ At(d, x, k) = At(c, x, k)
      <3>1. x \in 1..Len(c.block)
        BY <1>1
      <3> QED BY <3>1, <2>1, <1>5 DEF Region, EnteredFrom
    <2>2. CASE x = b /\ At(d, x, k) \in New
      BY <1>5, <2>2
    <2> QED BY <2>1, <2>2, <1>b
  <1> QED BY <1>1, <1>3, <1>4, <1>5 DEF Region, LoadsSafe, EnteredFrom

\* No instruction jumps to a block that is not there yet.
LEMMA JumpsInside ==
  ASSUME NEW c, Built(c), NEW b \in 1..Len(c.block), NEW k \in 1..Len(c.block[b]), NEW R, JumpsInto(At(c, b, k), R)
  PROVE  JumpsInto(At(c, b, k), R \cap 1..Len(c.block))
  <1> DEFINE i == At(c, b, k)
  <1>1. Shaped(i, Len(c.block)) /\ IsJump(i)
    <2>1. c.block[b][k] \in 1..Len(c.inst)
      BY DEF Built
    <2> QED BY <2>1 DEF Built, At, JumpsInto
  <1>2. PICK s \in 1..Len(i.uses) : i.uses[s][1] = "V_BLOCK" /\ i.uses[s][2] \in R
    BY DEF JumpsInto
  <1> HIDE DEF i
  <1>3. i.uses[s][2] \in 1..Len(c.block)
    <2>1. CASE i.type = "INST_JUMP"
      <3>1. Len(i.uses) = 1 /\ \E t \in 1..Len(c.block) : i.uses[1] = BlockValue(t)
        BY <1>1, <2>1 DEF Shaped
      <3> QED BY <1>2, <3>1 DEF BlockValue
    <2>2. CASE i.type = "INST_JUMP_COND"
      <3>1. /\ Len(i.uses) = 3 /\ i.uses[3] \in Operands
            /\ \E t, u \in 1..Len(c.block) : i.uses[1] = BlockValue(t) /\ i.uses[2] = BlockValue(u)
        BY <1>1, <2>2 DEF Shaped
      <3>2. s = 1 \/ s = 2 \/ s = 3
        BY <3>1
      <3>3. s # 3
        BY <1>2, <3>1, ValuesAre
      <3> QED BY <3>1, <3>2, <3>3 DEF BlockValue
    <2> QED BY <1>1, <2>1, <2>2 DEF IsJump
  <1> QED BY <1>1, <1>2, <1>3 DEF JumpsInto, i

\* The new block may belong to the region.
LEMMA RegionGrows ==
  ASSUME NEW c, Built(c), NEW d, Grown(c, d), NEW r, NEW R, NEW D, Region(c, r, R, D),
         NEW S, S = R \/ S = R \cup {Len(c.block) + 1}
  PROVE  Region(d, r, S, D)
  <1> DEFINE n == Len(c.block) + 1
  <1>1. n \in Nat /\ Len(d.block) = n /\ n # 1 /\ n \notin 1..Len(c.block) /\ 1..Len(c.block) \subseteq 1..n
        /\ d.inst = c.inst /\ Len(c.block) \in Nat /\ n \in 1..n
    <2>1. D \in 1..Len(c.block) /\ Len(c.block) \in Nat /\ Len(d.block) = n /\ d.inst = c.inst
      BY GrownAt DEF Region, Grown
    <2> QED BY <2>1
  <1>2. S \subseteq 1..Len(d.block) /\ R \subseteq S /\ S \cap 1..Len(c.block) = R /\ 1 \notin S
    BY <1>1 DEF Region
  <1>3. D \in 1..Len(d.block) /\ \E k \in 1..Len(d.block[D]) : Assigns(d, d.block[D][k], r)
    BY <1>1, GrownAt, ZenonT(40) DEF Region, Assigns
  <1>4. ASSUME NEW x \in 1..Len(d.block), NEW k \in 1..Len(d.block[x])
        PROVE  /\ x \in 1..Len(c.block) /\ d.block[x] = c.block[x] /\ k \in 1..Len(c.block[x])
               /\ At(d, x, k) = At(c, x, k)
    BY GrownAt, SMTT(30)
  <1>5. ASSUME NEW x \in 1..Len(d.block), NEW k \in 1..Len(d.block[x]),
               At(d, x, k).type = "INST_LOAD_VAR", At(d, x, k).rId = r
        PROVE  LoadIsSafe(d, S, r, x, k)
    <2>1. LoadIsSafe(c, R, r, x, k)
      BY <1>4, <1>5 DEF Region, LoadsSafe
    <2>2. d.block[x] = c.block[x]
      BY <1>4
    <2> QED BY <1>1, <1>2, <2>1, <2>2 DEF LoadIsSafe, Assigns
  <1>6. ASSUME NEW x \in 1..Len(d.block), NEW k \in 1..Len(d.block[x]), JumpsInto(At(d, x, k), S)
        PROVE  x \in S \cup {D}
    <2>1. JumpsInto(At(c, x, k), S \cap 1..Len(c.block))
      BY <1>4, <1>6, JumpsInside
    <2>2. x \in R \cup {D}
      BY <1>2, <1>4, <2>1 DEF Region, EnteredFrom
    <2> QED BY <1>2, <2>2
  <1> QED BY <1>2, <1>3, <1>5, <1>6 DEF Region, LoadsSafe, EnteredFrom

-----------------------------------------------------------------------------
\* Where jumps stand.

\* Block b ends in the jump back to head, which branches to b.
LoopClosed(c, b, head) ==
    /\ Len(c.block[b]) > 0 /\ Len(c.block[head]) > 0
    /\ At(c, b, Len(c.block[b])).type = "INST_JUMP"
    /\ At(c, b, Len(c.block[b])).uses[1] = BlockValue(head)
    /\ At(c, head, Len(c.block[head])).type = "INST_JUMP_COND"
    /\ At(c, head, Len(c.block[head])).uses[1] = BlockValue(b)

\* Outside X a jump that is not the last instruction stands in the finished
\* body of a finished loop; U are the blocks that are not finished.
JumpsTwice(c, U, X) ==
    \A b \in 1..Len(c.block) : \A k \in 1..(Len(c.block[b]) - 1) : JumpAt(c, b, k) =>
        \/ b \in X
        \/ /\ k = Len(c.block[b]) - 1
           /\ b \notin U
           /\ \E head \in 1..Len(c.block) : head \notin U /\ LoopClosed(c, b, head)

\* With fewer blocks still under construction there is less to allow.
LEMMA JumpsTwiceFewer ==
  ASSUME NEW c, NEW U, NEW V, NEW X, JumpsTwice(c, U, X), V \subseteq U
  PROVE  JumpsTwice(c, V, X)
  BY DEF JumpsTwice

\* What an addition to block b leaves of the other blocks.
LEMMA ExtendsElsewhere ==
  ASSUME NEW c, Built(c), NEW b \in 1..Len(c.block), NEW d, NEW New, Extends(c, d, b, New)
  PROVE  \A y \in 1..Len(c.block) : y # b =>
           /\ d.block[y] = c.block[y] /\ Len(c.block[y]) \in Nat
           /\ \A m \in 1..Len(c.block[y]) : At(d, y, m) = At(c, y, m)
  BY ExtendsKeeps, ZenonT(40)

\* Instructions added to a block under construction put nothing after a jump
\* unless the block is one of those that may jump twice.
LEMMA JumpsTwiceExtends ==
  ASSUME NEW c, Built(c), NEW b \in 1..Len(c.block), NEW d, NEW New, Extends(c, d, b, New),
         NEW U, NEW X, JumpsTwice(c, U, X), b \in U,
         b \in X \/ \A k \in 1..(Len(d.block[b]) - 1) : ~JumpAt(d, b, k)
  PROVE  JumpsTwice(d, U, X)
  <1>1. SUFFICES ASSUME NEW x \in 1..Len(d.block), NEW k \in 1..(Len(d.block[x]) - 1), JumpAt(d, x, k), x \notin X
                 PROVE  /\ k = Len(d.block[x]) - 1
                        /\ x \notin U
                        /\ \E head \in 1..Len(d.block) : head \notin U /\ LoopClosed(d, x, head)
    BY DEF JumpsTwice
  <1>2. x # b
    BY <1>1
  <1>3. \A y \in 1..Len(c.block) : y # b =>
           /\ d.block[y] = c.block[y] /\ Len(c.block[y]) \in Nat
           /\ \A m \in 1..Len(c.block[y]) : At(d, y, m) = At(c, y, m)
    BY ExtendsElsewhere, Zenon
  <1>4. Len(d.block) = Len(c.block)
    BY DEF Extends
  <1>5. k \in 1..(Len(c.block[x]) - 1) /\ JumpAt(c, x, k)
    <2>1. d.block[x] = c.block[x] /\ Len(c.block[x]) \in Nat
      BY <1>2, <1>3, <1>4
    <2>2. k \in 1..(Len(c.block[x]) - 1) /\ k \in 1..Len(c.block[x])
      BY <2>1
    <2> QED BY <1>1, <1>2, <1>3, <1>4, <2>2 DEF JumpAt
  <1>6. /\ k = Len(c.block[x]) - 1
        /\ x \notin U
        /\ \E head \in 1..Len(c.block) : head \notin U /\ LoopClosed(c, x, head)
    BY <1>1, <1>4, <1>5 DEF JumpsTwice
  <1>7. PICK head \in 1..Len(c.block) : head \notin U /\ LoopClosed(c, x, head)
    BY <1>6
  <1>8. LoopClosed(d, x, head)
    <2>1. \A y \in {x, head} : d.block[y] = c.block[y] /\ (Len(c.block[y]) > 0 => At(d, y, Len(c.block[y])) = At(c, y, Len(c.block[y])))
      <3> TAKE y \in {x, head}
      <3>1. y \in 1..Len(c.block) /\ y # b
        BY <1>2, <1>4, <1>7
      <3>2. d.block[y] = c.block[y] /\ Len(c.block[y]) \in Nat
        BY <1>3, <3>1
      <3>3. Len(c.block[y]) > 0 => Len(c.block[y]) \in 1..Len(c.block[y])
        BY <3>2
      <3> QED BY <1>3, <3>1, <3>2, <3>3
    <2> QED BY <1>7, <2>1 DEF LoopClosed
  <1> QED BY <1>2, <1>3, <1>4, <1>6, <1>7, <1>8

\* A new block is under construction.
LEMMA JumpsTwiceGrows ==
  ASSUME NEW c, Built(c), NEW d, Grown(c, d), NEW U, NEW X, JumpsTwice(c, U, X)
  PROVE  JumpsTwice(d, U \cup {Len(c.block) + 1}, X)
  <1> DEFINE V == U \cup {Len(c.block) + 1}
  <1>1. SUFFICES ASSUME NEW x \in 1..Len(d.block), NEW k \in 1..(Len(d.block[x]) - 1), JumpAt(d, x, k), x \notin X
                 PROVE  /\ k = Len(d.block[x]) - 1
                        /\ x \notin V
                        /\ \E head \in 1..Len(d.block) : head \notin V /\ LoopClosed(d, x, head)
    BY DEF JumpsTwice
  <1>2. x \in 1..Len(c.block)
    <2>1. x = Len(c.block) + 1 => Len(d.block[x]) = 0
      BY GrownAt
    <2> QED BY <1>1, <2>1, GrownAt
  <1>3. \A y \in 1..Len(c.block) :
           /\ d.block[y] = c.block[y] /\ Len(c.block[y]) \in Nat /\ y # Len(c.block) + 1 /\ y \in 1..Len(d.block)
           /\ \A m \in 1..Len(c.block[y]) : At(d, y, m) = At(c, y, m)
    BY GrownKeeps, Zenon
  <1>5. k \in 1..(Len(c.block[x]) - 1) /\ JumpAt(c, x, k)
    <2>1. d.block[x] = c.block[x] /\ Len(c.block[x]) \in Nat
      BY <1>2, <1>3
    <2>2. k \in 1..(Len(c.block[x]) - 1) /\ k \in 1..Len(c.block[x])
      BY <2>1
    <2> QED BY <1>1, <1>2, <1>3, <2>2 DEF JumpAt
  <1>6. /\ k = Len(c.block[x]) - 1
        /\ x \notin U
        /\ \E head \in 1..Len(c.block) : head \notin U /\ LoopClosed(c, x, head)
    BY <1>1, <1>2, <1>5 DEF JumpsTwice
  <1>7. PICK head \in 1..Len(c.block) : head \notin U /\ LoopClosed(c, x, head)
    BY <1>6
  <1>8. LoopClosed(d, x, head)
    <2>1. \A y \in {x, head} : d.block[y] = c.block[y] /\ (Len(c.block[y]) > 0 => At(d, y, Len(c.block[y])) = At(c, y, Len(c.block[y])))
      <3> TAKE y \in {x, head}
      <3>1. y \in 1..Len(c.block)
        BY <1>2, <1>7
      <3>2. d.block[y] = c.block[y] /\ Len(c.block[y]) \in Nat
        BY <1>3, <3>1
      <3>3. Len(c.block[y]) > 0 => Len(c.block[y]) \in 1..Len(c.block[y])
        BY <3>2
      <3> QED BY <1>3, <3>1, <3>2, <3>3
    <2> QED BY <1>7, <2>1 DEF LoopClosed
  <1> QED BY <1>2, <1>3, <1>6, <1>7, <1>8

\* A block without a jump stays one unless a jump is put there.
LEMMA NoJumpExtends ==
  ASSUME NEW c, Built(c), NEW b \in 1..Len(c.block), NEW d, NEW New, Extends(c, d, b, New),
         NEW x \in 1..Len(c.block), NoJump(c, x), x # b \/ \A i \in New : ~IsJump(i)
  PROVE  NoJump(d, x)
  <1>1. SUFFICES ASSUME NEW k \in 1..Len(d.block[x]) PROVE ~JumpAt(d, x, k)
    BY DEF NoJump
  <1>2. x \in 1..Len(d.block)
    BY DEF Extends
  <1>3. \/ k \in 1..Len(c.block[x]) /\ At(d, x, k) = At(c, x, k)
        \/ x = b /\ At(d, x, k) \in New
    <2>1. \/ /\ k \in 1..Len(c.block[x]) /\ d.block[x][k] = c.block[x][k] /\ At(d, x, k) = At(c, x, k)
             /\ c.block[x][k] \in 1..Len(c.inst)
          \/ /\ x = b /\ k \in (Len(c.block[b]) + 1)..Len(d.block[b])
             /\ d.block[x][k] \in (Len(c.inst) + 1)..Len(d.inst) /\ At(d, x, k) \in New
      BY <1>2, ExtendsAt, Zenon
    <2> QED BY <2>1
  <1> QED BY <1>3 DEF NoJump, JumpAt

\* A block that has a jump keeps it.
LEMMA JumpStays ==
  ASSUME NEW c, Built(c), NEW b \in 1..Len(c.block), NEW d, NEW New, Extends(c, d, b, New),
         NEW x \in 1..Len(c.block), ~NoJump(c, x)
  PROVE  ~NoJump(d, x)
  <1>1. PICK k \in 1..Len(c.block[x]) : JumpAt(c, x, k)
    BY DEF NoJump
  <1>2. k \in 1..Len(d.block[x]) /\ At(d, x, k) = At(c, x, k)
    BY ExtendsKeeps, Zenon
  <1> QED BY <1>1, <1>2 DEF NoJump, JumpAt

\* block_new adds no jump to any block, and the new one has none.
LEMMA NoJumpGrows ==
  ASSUME NEW c, Built(c), NEW d, Grown(c, d)
  PROVE  /\ \A x \in 1..Len(c.block) : NoJump(d, x) <=> NoJump(c, x)
         /\ NoJump(d, Len(c.block) + 1)
  <1>0. \A y \in 1..Len(c.block) :
           /\ d.block[y] = c.block[y] /\ Len(c.block[y]) \in Nat /\ y # Len(c.block) + 1 /\ y \in 1..Len(d.block)
           /\ \A m \in 1..Len(c.block[y]) : At(d, y, m) = At(c, y, m)
    BY GrownKeeps, Zenon
  <1>1. \A x \in 1..Len(c.block) : NoJump(d, x) <=> NoJump(c, x)
    BY <1>0 DEF NoJump, JumpAt
  <1>2. NoJump(d, Len(c.block) + 1)
    BY GrownAt DEF NoJump
  <1> QED BY <1>1, <1>2

-----------------------------------------------------------------------------
\* How blocks are connected.

JumpsTo(c, p, b) ==
    \E k \in 1..Len(c.block[p]) : JumpAt(c, p, k) /\ \E s \in 1..Len(At(c, p, k).uses) : At(c, p, k).uses[s] = BlockValue(b)

\* Every block outside W is entered from a block made before it.
ReachedFromBelow(c, W) ==
    \A b \in 2..Len(c.block) : b \in W \/ \E p \in 1..(b - 1) : JumpsTo(c, p, b)

JumpsEarly(c) ==
    \E b \in 1..Len(c.block) : \E k \in 1..(Len(c.block[b]) - 1) : At(c, b, k).type \in Terminators

\* Every block outside W goes on somewhere, or a block was ended twice.
Leaves(c, W) == JumpsEarly(c) \/ \A b \in 1..Len(c.block) : b \in W \/ ~NoJump(c, b)

\* A jump to x stays while a block is extended.
LEMMA JumpsToStays ==
  ASSUME NEW c, Built(c), NEW b \in 1..Len(c.block), NEW d, NEW New, Extends(c, d, b, New),
         NEW p \in 1..Len(c.block), NEW x, JumpsTo(c, p, x)
  PROVE  JumpsTo(d, p, x)
  <1>1. PICK k \in 1..Len(c.block[p]) :
           JumpAt(c, p, k) /\ \E s \in 1..Len(At(c, p, k).uses) : At(c, p, k).uses[s] = BlockValue(x)
    BY DEF JumpsTo
  <1>2. k \in 1..Len(d.block[p]) /\ At(d, p, k) = At(c, p, k)
    BY ExtendsKeeps, Zenon
  <1> QED BY <1>1, <1>2 DEF JumpsTo, JumpAt

\* A jump to x stays when a block is made.
LEMMA JumpsToGrows ==
  ASSUME NEW c, Built(c), NEW d, Grown(c, d), NEW p \in 1..Len(c.block), NEW x, JumpsTo(c, p, x)
  PROVE  JumpsTo(d, p, x)
  <1>1. d.block[p] = c.block[p] /\ \A k \in 1..Len(c.block[p]) : At(d, p, k) = At(c, p, k)
    BY GrownAt
  <1> QED BY <1>1 DEF JumpsTo, JumpAt

\* Extending a block loses no jump to any block.
LEMMA ReachedExtends ==
  ASSUME NEW c, Built(c), NEW b \in 1..Len(c.block), NEW d, NEW New, Extends(c, d, b, New),
         NEW W, ReachedFromBelow(c, W)
  PROVE  ReachedFromBelow(d, W)
  <1>1. SUFFICES ASSUME NEW x \in 2..Len(d.block), x \notin W PROVE \E p \in 1..(x - 1) : JumpsTo(d, p, x)
    BY DEF ReachedFromBelow
  <1>2. Len(d.block) = Len(c.block) /\ Len(c.block) \in Nat
    BY BuiltLens DEF Extends
  <1>3. PICK p \in 1..(x - 1) : JumpsTo(c, p, x)
    BY <1>1, <1>2 DEF ReachedFromBelow
  <1>4. p \in 1..Len(c.block)
    BY <1>2
  <1> QED BY <1>3, <1>4, JumpsToStays

\* A new block waits for a jump to it.
LEMMA ReachedGrows ==
  ASSUME NEW c, Built(c), NEW d, Grown(c, d), NEW W, ReachedFromBelow(c, W)
  PROVE  ReachedFromBelow(d, W \cup {Len(c.block) + 1})
  <1>1. SUFFICES ASSUME NEW x \in 2..Len(d.block), x \notin W, x # Len(c.block) + 1
                 PROVE  \E p \in 1..(x - 1) : JumpsTo(d, p, x)
    BY DEF ReachedFromBelow
  <1>2. Len(d.block) = Len(c.block) + 1 /\ Len(c.block) \in Nat
    BY GrownAt
  <1>3. x \in 2..Len(c.block)
    BY <1>1, <1>2
  <1>4. PICK p \in 1..(x - 1) : JumpsTo(c, p, x)
    BY <1>1, <1>3 DEF ReachedFromBelow
  <1>5. p \in 1..Len(c.block)
    BY <1>2, <1>3
  <1> QED BY <1>4, <1>5, JumpsToGrows

\* Block x is entered from below, so it need not wait for that any more.
LEMMA ReachedBy ==
  ASSUME NEW c, NEW W, NEW V, ReachedFromBelow(c, W), NEW x, NEW p \in 1..(x - 1), JumpsTo(c, p, x), W \subseteq V \cup {x}
  PROVE  ReachedFromBelow(c, V)
  BY DEF ReachedFromBelow

\* Extending a block loses no jump out of any block.
LEMMA LeavesExtends ==
  ASSUME NEW c, Built(c), NEW b \in 1..Len(c.block), NEW d, NEW New, Extends(c, d, b, New), NEW W, Leaves(c, W)
  PROVE  Leaves(d, W)
  <1>1. CASE JumpsEarly(c)
    <2>a. PICK x \in 1..Len(c.block) : \E k \in 1..(Len(c.block[x]) - 1) : At(c, x, k).type \in Terminators
      BY <1>1 DEF JumpsEarly
    <2>1. PICK k \in 1..(Len(c.block[x]) - 1) : At(c, x, k).type \in Terminators
      BY <2>a
    <2>2. /\ x \in 1..Len(d.block) /\ Len(c.block[x]) \in Nat /\ Len(d.block[x]) \in Nat
          /\ Len(c.block[x]) <= Len(d.block[x])
          /\ \A m \in 1..Len(c.block[x]) : At(d, x, m) = At(c, x, m)
      BY ExtendsKeeps, ZenonT(40)
    <2>3. k \in 1..(Len(d.block[x]) - 1) /\ k \in 1..Len(c.block[x])
      BY <2>2
    <2>4. At(d, x, k).type \in Terminators
      BY <2>1, <2>2, <2>3
    <2> QED BY <2>2, <2>3, <2>4 DEF Leaves, JumpsEarly
  <1>2. CASE \A x \in 1..Len(c.block) : x \in W \/ ~NoJump(c, x)
    <2>1. Len(d.block) = Len(c.block)
      BY DEF Extends
    <2> QED BY <1>2, <2>1, JumpStays DEF Leaves
  <1> QED BY <1>1, <1>2 DEF Leaves

\* A new block waits for a jump out of it.
LEMMA LeavesGrows ==
  ASSUME NEW c, Built(c), NEW d, Grown(c, d), NEW W, Leaves(c, W)
  PROVE  Leaves(d, W \cup {Len(c.block) + 1})
  <1>1. CASE JumpsEarly(c)
    <2>a. PICK x \in 1..Len(c.block) : \E k \in 1..(Len(c.block[x]) - 1) : At(c, x, k).type \in Terminators
      BY <1>1 DEF JumpsEarly
    <2>1. PICK k \in 1..(Len(c.block[x]) - 1) : At(c, x, k).type \in Terminators
      BY <2>a
    <2>2. /\ x \in 1..Len(d.block) /\ d.block[x] = c.block[x]
          /\ \A m \in 1..Len(c.block[x]) : At(d, x, m) = At(c, x, m)
      BY GrownAt
    <2>3. k \in 1..Len(c.block[x])
      BY BuiltLens
    <2>4. At(d, x, k).type \in Terminators /\ k \in 1..(Len(d.block[x]) - 1)
      BY <2>1, <2>2, <2>3
    <2> QED BY <2>2, <2>4 DEF Leaves, JumpsEarly
  <1>2. CASE \A x \in 1..Len(c.block) : x \in W \/ ~NoJump(c, x)
    <2>1. \A x \in 1..Len(d.block) : x \in W \cup {Len(c.block) + 1} \/ ~NoJump(d, x)
      BY <1>2, GrownAt, NoJumpGrows
    <2> QED BY <2>1 DEF Leaves
  <1> QED BY <1>1, <1>2 DEF Leaves

\* A block that has its jump waits no longer.
LEMMA LeavesBy ==
  ASSUME NEW c, NEW W, NEW V, Leaves(c, W), NEW x, ~NoJump(c, x), W \subseteq V \cup {x}
  PROVE  Leaves(c, V)
  BY DEF Leaves

\* A jump with operands u was added to block b.
Jumped(c, d, b, type, u) ==
    /\ Built(d) /\ Len(d.block) = Len(c.block) /\ b \in 1..Len(d.block)
    /\ ~NoJump(d, b)
    /\ \A t : \A s \in 1..Len(u) : u[s] = BlockValue(t) => JumpsTo(d, b, t)
    /\ NoJump(c, b) => \A k \in 1..(Len(d.block[b]) - 1) : ~JumpAt(d, b, k)
    /\ Len(d.block[b]) = Len(c.block[b]) + 1 /\ Len(c.block[b]) \in Nat
    /\ At(d, b, Len(c.block[b]) + 1).type = type /\ At(d, b, Len(c.block[b]) + 1).uses = u
    /\ Len(d.inst) = Len(c.inst) + 1 /\ d.block[b][Len(c.block[b]) + 1] = Len(c.inst) + 1
    /\ \E New : /\ Extends(c, d, b, New)
                /\ \A i \in New : IsJump(i) /\ i.uses = u /\ i.type \notin {"INST_LOAD_VAR", "INST_ASSIGN_VAR"}

\* A jump that is added to a block is the last instruction of it.
LEMMA AddedJump ==
  ASSUME NEW c, Built(c), NEW b \in 1..Len(c.block), NEW d, NEW type \in {"INST_JUMP", "INST_JUMP_COND"},
         NEW r, NEW u, Adds(c, d, b, type, r, u)
  PROVE  Jumped(c, d, b, type, u)
  <1> DEFINE n == Len(c.inst) + 1
             m == Len(c.block[b]) + 1
             New == {d.inst[n]}
  <1>1. Built(d) /\ Len(d.block) = Len(c.block) /\ Extends(c, d, b, New) /\ Len(d.block[b]) = m
        /\ d.block[b][m] = n /\ d.inst[n].type = type /\ d.inst[n].uses = u /\ Len(d.inst) = n
    BY DEF Adds, Extends
  <1>2. Len(c.block[b]) \in Nat /\ m \in 1..Len(d.block[b]) /\ b \in 1..Len(d.block)
    BY <1>1, BuiltLens, SMTT(30)
  <1>3. At(d, b, m) = d.inst[n] /\ At(d, b, m).type = type /\ At(d, b, m).uses = u /\ IsJump(At(d, b, m))
    BY <1>1 DEF At, IsJump
  <1>4. ~NoJump(d, b)
    BY <1>2, <1>3 DEF NoJump, JumpAt
  <1>5. \A t : \A s \in 1..Len(u) : u[s] = BlockValue(t) => JumpsTo(d, b, t)
    BY <1>2, <1>3 DEF JumpsTo, JumpAt
  <1>6. ASSUME NoJump(c, b), NEW k \in 1..(Len(d.block[b]) - 1) PROVE ~JumpAt(d, b, k)
    <2>1. k \in 1..Len(c.block[b])
      BY <1>1, <1>2
    <2>2. At(d, b, k) = At(c, b, k)
      BY <1>1, <2>1, ExtendsKeeps
    <2> QED BY <1>6, <2>1, <2>2 DEF NoJump, JumpAt
  <1>7. \A i \in New : IsJump(i) /\ i.uses = u /\ i.type \notin {"INST_LOAD_VAR", "INST_ASSIGN_VAR"}
    BY <1>1 DEF IsJump
  <1> HIDE DEF New
  <1> QED BY <1>1, <1>2, <1>3, <1>4, <1>5, <1>6, <1>7 DEF Jumped

-----------------------------------------------------------------------------
\* The calls of create_block in progress.

Frame == [kind : {"FUNCTION"}, bblock : Nat, oldBlock : Nat]
           \cup [kind : {"IF"}, cond : Operands, bblock : Nat, oldBlock : Nat]
           \cup [kind : {"WHILE"}, head : Nat, condition : Conditions, bblock : Nat, oldBlock : Nat]

\* The blocks of a call: those that are not finished, those that have no jump
\* yet, and the body, which nothing jumps to yet.
OpenIn(f) == IF f.kind = "FUNCTION" THEN {f.bblock}
             ELSE IF f.kind = "IF" THEN {f.bblock, f.oldBlock} ELSE {f.bblock, f.oldBlock, f.head}

WaitIn(f) == IF f.kind = "FUNCTION" THEN {} ELSE IF f.kind = "IF" THEN {f.oldBlock} ELSE {f.head}

BodyIn(f) == IF f.kind = "FUNCTION" THEN {} ELSE {f.bblock}

Opens(fs) == UNION {OpenIn(fs[m]) : m \in 1..Len(fs)}
Waits(fs) == UNION {WaitIn(fs[m]) : m \in 1..Len(fs)}
Bodies(fs) == UNION {BodyIn(fs[m]) : m \in 1..Len(fs)}

\* The blocks of a call exist and were made in order; n is how many there are.
InOrder(f, n) ==
    /\ f.bblock \in 1..n
    /\ f.kind # "FUNCTION" => f.oldBlock \in 1..n /\ f.oldBlock < f.bblock
    /\ f.kind = "WHILE" => f.head \in 1..n /\ f.oldBlock < f.head /\ f.head < f.bblock

\* The calls nest, and the blocks of a call were made after those of its caller.
CallStack(fs, blk, n) ==
    /\ fs \in Seq(Frame) /\ Len(fs) > 0
    /\ n \in Nat /\ blk \in 1..n
    /\ \A i \in 1..Len(fs) :
          /\ InOrder(fs[i], n)
          /\ fs[i].kind = "FUNCTION" <=> i = Len(fs)
          /\ fs[i].bblock <= blk
          /\ \A j \in 1..(i - 1) : fs[i].bblock <= fs[j].oldBlock
    /\ fs[Len(fs)].bblock = 1

\* The elements of a sequence with one more at the front.
LEMMA Consed ==
  ASSUME NEW S, NEW s \in Seq(S), NEW x \in S
  PROVE  /\ Cons(x, s) \in Seq(S) /\ Len(Cons(x, s)) = Len(s) + 1 /\ Cons(x, s)[1] = x
         /\ \A k \in 1..Len(s) : k + 1 \in 1..Len(Cons(x, s)) /\ Cons(x, s)[k + 1] = s[k]
         /\ \A k \in 1..Len(Cons(x, s)) : k = 1 \/ (k - 1 \in 1..Len(s) /\ Cons(x, s)[k] = s[k - 1])
         /\ Head(Cons(x, s)) = x /\ Tail(Cons(x, s)) = s
  <1>1. Cons(x, s) = <<x>> \o s /\ <<x>> \in Seq(S) /\ Len(<<x>>) = 1
    BY DEF Cons
  <1>2. /\ Cons(x, s) \in Seq(S) /\ Len(Cons(x, s)) = Len(s) + 1 /\ Cons(x, s)[1] = x
        /\ \A k \in 1..Len(s) : Cons(x, s)[k + 1] = s[k]
    BY <1>1
  <1>3. \A k \in 1..Len(s) : k + 1 \in 1..Len(Cons(x, s)) /\ Cons(x, s)[k + 1] = s[k]
    BY <1>2
  <1>4. ASSUME NEW k \in 1..Len(Cons(x, s)), k # 1 PROVE k - 1 \in 1..Len(s) /\ Cons(x, s)[k] = s[k - 1]
    <2>1. k - 1 \in 1..Len(s) /\ (k - 1) + 1 = k
      BY <1>2, <1>4
    <2> QED BY <1>2, <2>1
  <1> DEFINE c == Cons(x, s)
  <1>5. c \in Seq(S) /\ Len(c) = Len(s) + 1 /\ c[1] = x /\ (\A k \in 1..Len(s) : c[k + 1] = s[k]) /\ Len(s) \in Nat
    BY <1>2
  <1> HIDE DEF c
  <1>6. Head(c) = x /\ Tail(c) \in Seq(S) /\ Len(Tail(c)) = Len(s) /\ \A k \in 1..Len(s) : Tail(c)[k] = s[k]
    BY <1>5
  <1>7. Tail(c) = s
    BY <1>6
  <1> QED BY <1>2, <1>3, <1>4, <1>6, <1>7 DEF c

\* A stack is its top on the rest.
LEMMA Uncons ==
  ASSUME NEW S, NEW s \in Seq(S), Len(s) > 0
  PROVE  Head(s) \in S /\ Tail(s) \in Seq(S) /\ s = Cons(Head(s), Tail(s)) /\ Head(s) = s[1]
  <1>1. Head(s) \in S /\ Tail(s) \in Seq(S) /\ Head(s) = s[1] /\ Len(s) \in Nat /\ Len(Tail(s)) = Len(s) - 1
        /\ \A k \in 1..(Len(s) - 1) : Tail(s)[k] = s[k + 1]
    BY SMT
  <1> DEFINE x == Head(s)
             t == Tail(s)
  <1> HIDE DEF x, t
  <1>2. /\ Cons(x, t) \in Seq(S) /\ Len(Cons(x, t)) = Len(t) + 1 /\ Cons(x, t)[1] = x
        /\ \A k \in 1..Len(Cons(x, t)) : k = 1 \/ (k - 1 \in 1..Len(t) /\ Cons(x, t)[k] = t[k - 1])
    <2>1. x \in S /\ t \in Seq(S)
      BY <1>1 DEF x, t
    <2>2. /\ Cons(x, t) \in Seq(S) /\ Len(Cons(x, t)) = Len(t) + 1 /\ Cons(x, t)[1] = x
          /\ \A k \in 1..Len(t) : k + 1 \in 1..Len(Cons(x, t)) /\ Cons(x, t)[k + 1] = t[k]
          /\ \A k \in 1..Len(Cons(x, t)) : k = 1 \/ (k - 1 \in 1..Len(t) /\ Cons(x, t)[k] = t[k - 1])
          /\ Head(Cons(x, t)) = x /\ Tail(Cons(x, t)) = t
      BY <2>1, Consed, Zenon
    <2> QED BY <2>2
  <1> DEFINE c == Cons(x, t)
  <1>3. c \in Seq(S) /\ Len(c) = Len(s) /\ \A k \in 1..Len(s) : c[k] = s[k]
    <2>1. Len(c) = Len(s) /\ c \in Seq(S) /\ c[1] = x
      BY <1>1, <1>2 DEF t
    <2>2. ASSUME NEW k \in 1..Len(s), k # 1 PROVE c[k] = s[k]
      <3>1. k - 1 \in 1..(Len(s) - 1) /\ (k - 1) + 1 = k
        BY <1>1, <2>2
      <3>2. c[k] = t[k - 1]
        BY <1>2, <2>1, <2>2
      <3>3. t[k - 1] = s[(k - 1) + 1]
        BY <1>1, <3>1 DEF t
      <3> QED BY <3>1, <3>2, <3>3
    <2> QED BY <1>1, <2>1, <2>2 DEF x
  <1> HIDE DEF c
  <1>4. c = s
    BY <1>3
  <1> QED BY <1>1, <1>4 DEF c, x, t

\* What a call of create_statement adds to the open, waiting and body blocks.
LEMMA Pushed ==
  ASSUME NEW fs \in Seq(Frame), NEW f \in Frame
  PROVE  /\ Opens(Cons(f, fs)) = OpenIn(f) \cup Opens(fs)
         /\ Waits(Cons(f, fs)) = WaitIn(f) \cup Waits(fs)
         /\ Bodies(Cons(f, fs)) = BodyIn(f) \cup Bodies(fs)
  <1> DEFINE gs == Cons(f, fs)
  <1>1. /\ gs[1] = f /\ 1 \in 1..Len(gs)
        /\ \A k \in 1..Len(fs) : k + 1 \in 1..Len(gs) /\ gs[k + 1] = fs[k]
        /\ \A k \in 1..Len(gs) : k = 1 \/ (k - 1 \in 1..Len(fs) /\ gs[k] = fs[k - 1])
    <2>1. /\ gs[1] = f /\ Len(gs) = Len(fs) + 1
          /\ \A k \in 1..Len(fs) : k + 1 \in 1..Len(gs) /\ gs[k + 1] = fs[k]
          /\ \A k \in 1..Len(gs) : k = 1 \/ (k - 1 \in 1..Len(fs) /\ gs[k] = fs[k - 1])
      <3>1. /\ Cons(f, fs) \in Seq(Frame) /\ Len(Cons(f, fs)) = Len(fs) + 1 /\ Cons(f, fs)[1] = f
            /\ \A k \in 1..Len(fs) : k + 1 \in 1..Len(Cons(f, fs)) /\ Cons(f, fs)[k + 1] = fs[k]
            /\ \A k \in 1..Len(Cons(f, fs)) : k = 1 \/ (k - 1 \in 1..Len(fs) /\ Cons(f, fs)[k] = fs[k - 1])
            /\ Head(Cons(f, fs)) = f /\ Tail(Cons(f, fs)) = fs
        BY Consed, Zenon
      <3> QED BY <3>1
    <2>2. Len(fs) \in Nat
      OBVIOUS
    <2> QED BY <2>1, <2>2
  <1> HIDE DEF gs
  <1>2. {gs[m] : m \in 1..Len(gs)} = {f} \cup {fs[m] : m \in 1..Len(fs)}
    BY <1>1, SMTT(30)
  <1>3. Opens(gs) = OpenIn(f) \cup Opens(fs)
    BY <1>1 DEF Opens
  <1>4. Waits(gs) = WaitIn(f) \cup Waits(fs)
    BY <1>1 DEF Waits
  <1>5. Bodies(gs) = BodyIn(f) \cup Bodies(fs)
    BY <1>1 DEF Bodies
  <1> QED BY <1>3, <1>4, <1>5 DEF gs

\* Cons, position by position.
LEMMA ConsAt ==
  ASSUME NEW S, NEW s \in Seq(S), NEW x \in S, NEW t, t = Cons(x, s)
  PROVE  /\ t \in Seq(S) /\ Len(t) = Len(s) + 1 /\ t[1] = x /\ Len(s) \in Nat /\ 1 \in 1..Len(t)
         /\ \A k \in 1..Len(s) : k + 1 \in 1..Len(t) /\ t[k + 1] = s[k]
         /\ \A k \in 1..Len(t) : k = 1 \/ (k - 1 \in 1..Len(s) /\ t[k] = s[k - 1] /\ k \in Nat /\ k > 1)
  <1>1. /\ Cons(x, s) \in Seq(S) /\ Len(Cons(x, s)) = Len(s) + 1 /\ Cons(x, s)[1] = x
        /\ \A k \in 1..Len(s) : k + 1 \in 1..Len(Cons(x, s)) /\ Cons(x, s)[k + 1] = s[k]
        /\ \A k \in 1..Len(Cons(x, s)) : k = 1 \/ (k - 1 \in 1..Len(s) /\ Cons(x, s)[k] = s[k - 1])
        /\ Head(Cons(x, s)) = x /\ Tail(Cons(x, s)) = s
    BY Consed, Zenon
  <1>2. Len(s) \in Nat /\ Len(t) = Len(s) + 1
    BY <1>1
  <1> QED BY <1>1, <1>2

\* A nested call keeps the block it returns to and continues in a later one.
LEMMA CallPushed ==
  ASSUME NEW fs, NEW blk, NEW n, CallStack(fs, blk, n), NEW f \in Frame, NEW m \in Nat, n <= m, InOrder(f, m),
         f.kind # "FUNCTION", f.oldBlock = blk, NEW new \in 1..m, f.bblock <= new
  PROVE  CallStack(Cons(f, fs), new, m)
  <1> DEFINE gs == Cons(f, fs)
  <1>1. /\ fs \in Seq(Frame) /\ Len(fs) > 0 /\ n \in Nat /\ blk \in 1..n /\ fs[Len(fs)].bblock = 1
    BY DEF CallStack
  <1>2. /\ gs \in Seq(Frame) /\ Len(gs) = Len(fs) + 1 /\ gs[1] = f /\ Len(fs) \in Nat /\ 1 \in 1..Len(gs)
        /\ \A k \in 1..Len(fs) : k + 1 \in 1..Len(gs) /\ gs[k + 1] = fs[k]
        /\ \A k \in 1..Len(gs) : k = 1 \/ (k - 1 \in 1..Len(fs) /\ gs[k] = fs[k - 1] /\ k \in Nat /\ k > 1)
    <2> DEFINE t == gs
    <2>1. fs \in Seq(Frame) /\ t = Cons(f, fs)
      BY <1>1
    <2> HIDE DEF t
    <2> QED BY <2>1, ConsAt
  <1> HIDE DEF gs
  <1>3. f.bblock \in Nat /\ f.oldBlock \in Nat /\ f.oldBlock < f.bblock /\ new \in Nat /\ blk < f.bblock /\ blk \in Nat
    BY DEF InOrder
  <1>4. ASSUME NEW i \in 1..Len(gs)
        PROVE  /\ InOrder(gs[i], m)
               /\ gs[i].kind = "FUNCTION" <=> i = Len(gs)
               /\ gs[i].bblock <= new
               /\ \A j \in 1..(i - 1) : gs[i].bblock <= gs[j].oldBlock
    <2>1. CASE i = 1
      BY <1>1, <1>2, <2>1
    <2>2. CASE i # 1
      <3>1. i - 1 \in 1..Len(fs) /\ gs[i] = fs[i - 1] /\ i \in Nat /\ i > 1
        BY <1>2, <2>2
      <3>2. /\ InOrder(fs[i - 1], n) /\ (fs[i - 1].kind = "FUNCTION" <=> i - 1 = Len(fs))
            /\ fs[i - 1].bblock <= blk
            /\ \A j \in 1..((i - 1) - 1) : fs[i - 1].bblock <= fs[j].oldBlock
        BY <3>1 DEF CallStack
      <3>3. fs[i - 1].bblock \in Nat
        BY <3>2 DEF InOrder
      <3>4. InOrder(gs[i], m)
        <4>1. 1..n \subseteq 1..m
          BY <1>1
        <4> QED BY <3>1, <3>2, <4>1 DEF InOrder
      <3>5. gs[i].kind = "FUNCTION" <=> i = Len(gs)
        BY <1>2, <3>1, <3>2
      <3>6. gs[i].bblock <= new
        BY <1>3, <3>1, <3>2, <3>3
      <3>7. ASSUME NEW j \in 1..(i - 1) PROVE gs[i].bblock <= gs[j].oldBlock
        <4>1. CASE j = 1
          BY <1>2, <3>1, <3>2, <4>1
        <4>2. CASE j # 1
          <5>1. j \in 1..Len(gs)
            BY <1>2, <3>1
          <5>2. j - 1 \in 1..((i - 1) - 1) /\ gs[j] = fs[j - 1]
            BY <1>2, <3>1, <4>2, <5>1
          <5> QED BY <3>1, <3>2, <5>2
        <4> QED BY <4>1, <4>2
      <3> QED BY <3>4, <3>5, <3>6, <3>7
    <2> QED BY <2>1, <2>2
  <1>5. Len(gs) > 0 /\ gs[Len(gs)].bblock = 1
    <2>1. Len(fs) \in 1..Len(fs) /\ gs[Len(fs) + 1] = fs[Len(fs)]
      BY <1>1, <1>2
    <2> QED BY <1>1, <1>2, <2>1
  <1> QED BY <1>2, <1>4, <1>5 DEF CallStack, gs

\* A call returns to the block of its caller.
LEMMA CallPopped ==
  ASSUME NEW gs \in Seq(Frame), NEW f \in Frame, NEW blk, NEW n, CallStack(Cons(f, gs), blk, n), f.kind # "FUNCTION"
  PROVE  /\ CallStack(gs, f.oldBlock, n)
         /\ InOrder(f, n) /\ f.bblock <= blk /\ blk \in 1..n /\ n \in Nat
  <1> DEFINE fs == Cons(f, gs)
  <1>2. /\ fs \in Seq(Frame) /\ Len(fs) = Len(gs) + 1 /\ fs[1] = f /\ Len(gs) \in Nat /\ 1 \in 1..Len(fs)
        /\ \A k \in 1..Len(gs) : k + 1 \in 1..Len(fs) /\ fs[k + 1] = gs[k]
        /\ \A k \in 1..Len(fs) : k = 1 \/ (k - 1 \in 1..Len(gs) /\ fs[k] = gs[k - 1] /\ k \in Nat /\ k > 1)
    <2> DEFINE t == fs
    <2>1. t = Cons(f, gs)
      OBVIOUS
    <2> HIDE DEF t
    <2> QED BY <2>1, ConsAt
  <1> HIDE DEF fs
  <1>1. CallStack(fs, blk, n)
    BY DEF fs
  <1>3. /\ n \in Nat /\ blk \in 1..n /\ fs[Len(fs)].bblock = 1
        /\ \A i \in 1..Len(fs) :
              /\ InOrder(fs[i], n)
              /\ fs[i].kind = "FUNCTION" <=> i = Len(fs)
              /\ fs[i].bblock <= blk
              /\ \A j \in 1..(i - 1) : fs[i].bblock <= fs[j].oldBlock
    BY <1>1 DEF CallStack
  <1>4. InOrder(f, n) /\ f.bblock <= blk /\ 1 # Len(fs) /\ f.oldBlock \in 1..n
    BY <1>2, <1>3 DEF InOrder
  <1>5. Len(gs) > 0
    BY <1>2, <1>4
  <1>6. ASSUME NEW i \in 1..Len(gs)
        PROVE  /\ InOrder(gs[i], n)
               /\ gs[i].kind = "FUNCTION" <=> i = Len(gs)
               /\ gs[i].bblock <= f.oldBlock
               /\ \A j \in 1..(i - 1) : gs[i].bblock <= gs[j].oldBlock
    <2>1. i + 1 \in 1..Len(fs) /\ fs[i + 1] = gs[i]
      BY <1>2
    <2>2. InOrder(gs[i], n) /\ (gs[i].kind = "FUNCTION" <=> i + 1 = Len(fs))
      BY <1>3, <2>1
    <2>3. gs[i].kind = "FUNCTION" <=> i = Len(gs)
      BY <1>2, <2>2
    <2>4. gs[i].bblock <= f.oldBlock
      <3>1. 1 \in 1..((i + 1) - 1)
        OBVIOUS
      <3>2. fs[i + 1].bblock <= fs[1].oldBlock
        BY <1>3, <2>1, <3>1
      <3> QED BY <1>2, <2>1, <3>2
    <2>5. ASSUME NEW j \in 1..(i - 1) PROVE gs[i].bblock <= gs[j].oldBlock
      <3>1. j + 1 \in 1..((i + 1) - 1) /\ j \in 1..Len(gs)
        BY <1>2
      <3>2. fs[i + 1].bblock <= fs[j + 1].oldBlock
        BY <1>3, <2>1, <3>1
      <3> QED BY <1>2, <2>1, <3>1, <3>2
    <2> QED BY <2>2, <2>3, <2>4, <2>5
  <1>7. gs[Len(gs)].bblock = 1
    <2>1. Len(gs) \in 1..Len(gs)
      BY <1>2, <1>5
    <2> QED BY <1>2, <1>3, <2>1
  <1> QED BY <1>3, <1>4, <1>5, <1>6, <1>7 DEF CallStack

\* The current call moves on to a later block.
LEMMA CallMoves ==
  ASSUME NEW fs, NEW blk, NEW n, CallStack(fs, blk, n), NEW m \in Nat, n <= m, NEW new \in 1..m, blk <= new
  PROVE  CallStack(fs, new, m)
  <1>1. n \in Nat /\ blk \in Nat /\ 1..n \subseteq 1..m
    BY DEF CallStack
  <1>2. ASSUME NEW i \in 1..Len(fs)
        PROVE  InOrder(fs[i], m) /\ fs[i].bblock <= new
    <2>1. InOrder(fs[i], n) /\ fs[i].bblock <= blk
      BY DEF CallStack
    <2> QED BY <1>1, <2>1 DEF InOrder
  <1> QED BY <1>2 DEF CallStack

\* The blocks of the calls lie below the block where instructions go.
LEMMA CallsBelow ==
  ASSUME NEW fs, NEW blk, NEW n, CallStack(fs, blk, n)
  PROVE  /\ n \in Nat /\ blk \in 1..n /\ fs \in Seq(Frame)
         /\ \A x \in Opens(fs) : x \in 1..n /\ x <= blk
         /\ \A x \in Waits(fs) : x \in 1..n /\ x < blk
         /\ \A x \in Bodies(fs) : x \in 1..n /\ x <= blk
  <1>1. n \in Nat /\ blk \in 1..n /\ fs \in Seq(Frame)
    BY DEF CallStack
  <1>2. ASSUME NEW m \in 1..Len(fs)
        PROVE  /\ \A x \in OpenIn(fs[m]) : x \in 1..n /\ x <= blk
               /\ \A x \in WaitIn(fs[m]) : x \in 1..n /\ x < blk
               /\ \A x \in BodyIn(fs[m]) : x \in 1..n /\ x <= blk
    <2> DEFINE f == fs[m]
    <2>1. InOrder(f, n) /\ f.bblock <= blk /\ f \in Frame
      BY <1>1 DEF CallStack
    <2> HIDE DEF f
    <2>2. f.kind \in {"FUNCTION", "IF", "WHILE"}
      BY <2>1 DEF Frame
    <2>3. \A x \in OpenIn(f) : x \in 1..n /\ x <= blk
      BY <1>1, <2>1, <2>2 DEF InOrder, OpenIn
    <2>4. \A x \in WaitIn(f) : x \in 1..n /\ x < blk
      BY <1>1, <2>1, <2>2 DEF InOrder, WaitIn
    <2>5. \A x \in BodyIn(f) : x \in 1..n /\ x <= blk
      BY <1>1, <2>1, <2>2 DEF InOrder, BodyIn
    <2> QED BY <2>3, <2>4, <2>5 DEF f
  <1> QED BY <1>1, <1>2 DEF Opens, Waits, Bodies

-----------------------------------------------------------------------------
\* Regions and the calls in progress.

Inside(f, R, D) ==
    /\ f.bblock \in R
    /\ f.oldBlock \in R \cup {D}
    /\ f.kind = "WHILE" => f.head \in R

Outside(f, R) ==
    /\ f.bblock \notin R
    /\ f.kind = "WHILE" => f.head \notin R

\* The calls in which r is visible stay inside its region, the ones around
\* them stay outside: no jump that is still to come enters it from elsewhere.
Open(fs, ss, blk, r, R, D) ==
    /\ \A k \in 1..Len(ss) : r \in Visible(ss[k]) =>
          /\ blk \in R \cup {D}
          /\ \A m \in 1..(k - 1) : Inside(fs[m], R, D)
    /\ \A m \in 1..Len(fs) : (\A k \in 1..Len(ss) : r \in Visible(ss[k]) => k <= m) => Outside(fs[m], R)

\* A nested call opens a scope of its own, in which nothing is declared yet: the
\* region of r grows by its blocks if r is visible there.
LEMMA OpenPushed ==
  ASSUME NEW fs \in Seq(Frame), NEW ss \in Seq(Scope), Len(ss) = Len(fs), NEW blk, NEW r, NEW R, NEW D,
         Open(fs, ss, blk, r, R, D), NEW f \in Frame, NEW S, R \subseteq S,
         \A m \in 1..Len(fs) : Outside(fs[m], R) => Outside(fs[m], S),
         IF IsVisible(ss, r) THEN Inside(f, S, D) ELSE Outside(f, S),
         NEW map \in Scope, Visible(map) = {}
  PROVE  Open(Cons(f, fs), Cons(map, ss), f.bblock, r, S, D)
  <1> DEFINE gs == Cons(f, fs)
             ts == Cons(map, ss)
  <1>1. /\ gs \in Seq(Frame) /\ Len(gs) = Len(fs) + 1 /\ gs[1] = f /\ Len(fs) \in Nat /\ 1 \in 1..Len(gs)
        /\ \A k \in 1..Len(fs) : k + 1 \in 1..Len(gs) /\ gs[k + 1] = fs[k]
        /\ \A k \in 1..Len(gs) : k = 1 \/ (k - 1 \in 1..Len(fs) /\ gs[k] = fs[k - 1] /\ k \in Nat /\ k > 1)
    <2> DEFINE t == gs
    <2>1. t = Cons(f, fs)
      OBVIOUS
    <2> HIDE DEF t
    <2> QED BY <2>1, ConsAt
  <1>2. /\ ts \in Seq(Scope) /\ Len(ts) = Len(ss) + 1 /\ ts[1] = map /\ Len(ss) \in Nat /\ 1 \in 1..Len(ts)
        /\ \A k \in 1..Len(ss) : k + 1 \in 1..Len(ts) /\ ts[k + 1] = ss[k]
        /\ \A k \in 1..Len(ts) : k = 1 \/ (k - 1 \in 1..Len(ss) /\ ts[k] = ss[k - 1] /\ k \in Nat /\ k > 1)
    <2> DEFINE t == ts
    <2>1. t = Cons(map, ss)
      OBVIOUS
    <2> HIDE DEF t
    <2> QED BY <2>1, ConsAt
  <1>3. r \notin Visible(ts[1])
    BY <1>2
  <1> HIDE DEF gs, ts
  <1>4. ASSUME NEW k \in 1..Len(ts), r \in Visible(ts[k])
        PROVE  f.bblock \in S \cup {D} /\ \A m \in 1..(k - 1) : Inside(gs[m], S, D)
    <2>1. k - 1 \in 1..Len(ss) /\ ts[k] = ss[k - 1] /\ k \in Nat /\ k > 1
      BY <1>2, <1>3, <1>4
    <2>2. IsVisible(ss, r)
      BY <1>4, <2>1 DEF IsVisible
    <2>3. Inside(f, S, D)
      BY <2>2
    <2>4. ASSUME NEW m \in 1..(k - 1), m # 1 PROVE Inside(gs[m], S, D)
      <3>1. m \in 1..Len(gs) /\ m - 1 \in 1..((k - 1) - 1) /\ gs[m] = fs[m - 1]
        BY <1>1, <1>2, <2>1, <2>4
      <3>2. Inside(fs[m - 1], R, D)
        BY <1>4, <2>1, <3>1 DEF Open
      <3> QED BY <3>1, <3>2 DEF Inside
    <2> QED BY <1>1, <2>3, <2>4 DEF Inside
  <1>5. ASSUME NEW m \in 1..Len(gs), \A k \in 1..Len(ts) : r \in Visible(ts[k]) => k <= m
        PROVE  Outside(gs[m], S)
    <2>1. CASE m = 1
      <3>1. ~IsVisible(ss, r)
        <4>1. SUFFICES ASSUME NEW k \in 1..Len(ss), r \in Visible(ss[k]) PROVE FALSE
          BY DEF IsVisible
        <4>2. k + 1 \in 1..Len(ts) /\ ts[k + 1] = ss[k] /\ ~(k + 1 <= 1)
          BY <1>2
        <4> QED BY <1>5, <2>1, <4>1, <4>2
      <3> QED BY <1>1, <2>1, <3>1
    <2>2. CASE m # 1
      <3>1. m - 1 \in 1..Len(fs) /\ gs[m] = fs[m - 1] /\ m \in Nat
        BY <1>1, <2>2
      <3>2. ASSUME NEW k \in 1..Len(ss), r \in Visible(ss[k]) PROVE k <= m - 1
        <4>1. k + 1 \in 1..Len(ts) /\ ts[k + 1] = ss[k]
          BY <1>2
        <4>2. k + 1 <= m
          BY <1>5, <3>2, <4>1
        <4> QED BY <3>1, <4>2
      <3>3. Outside(fs[m - 1], R)
        BY <3>1, <3>2 DEF Open
      <3> QED BY <3>1, <3>3
    <2> QED BY <2>1, <2>2
  <1>6. Open(gs, ts, f.bblock, r, S, D)
    BY <1>4, <1>5 DEF Open
  <1> QED BY <1>6 DEF gs, ts

\* At the end of a scope the variables of the enclosing ones are visible again.
LEMMA OpenPopped ==
  ASSUME NEW gs \in Seq(Frame), NEW ms \in Seq(Scope), Len(ms) = Len(gs), NEW f \in Frame, NEW map \in Scope,
         NEW blk, NEW r, NEW R, NEW D, Open(Cons(f, gs), Cons(map, ms), blk, r, R, D)
  PROVE  /\ IsVisible(ms, r) => blk \in R \cup {D} /\ Inside(f, R, D)
         /\ ~IsVisible(ms, r) => Outside(f, R)
         /\ \A e, S : /\ R \subseteq S
                      /\ \A m \in 1..Len(gs) : Outside(gs[m], R) => Outside(gs[m], S)
                      /\ IsVisible(ms, r) => e \in S
                      => Open(gs, ms, e, r, S, D)
  <1> DEFINE fs == Cons(f, gs)
             ss == Cons(map, ms)
  <1>1. /\ fs \in Seq(Frame) /\ Len(fs) = Len(gs) + 1 /\ fs[1] = f /\ Len(gs) \in Nat /\ 1 \in 1..Len(fs)
        /\ \A k \in 1..Len(gs) : k + 1 \in 1..Len(fs) /\ fs[k + 1] = gs[k]
        /\ \A k \in 1..Len(fs) : k = 1 \/ (k - 1 \in 1..Len(gs) /\ fs[k] = gs[k - 1] /\ k \in Nat /\ k > 1)
    <2> DEFINE t == fs
    <2>1. t = Cons(f, gs)
      OBVIOUS
    <2> HIDE DEF t
    <2> QED BY <2>1, ConsAt
  <1>2. /\ ss \in Seq(Scope) /\ Len(ss) = Len(ms) + 1 /\ ss[1] = map /\ Len(ms) \in Nat /\ 1 \in 1..Len(ss)
        /\ \A k \in 1..Len(ms) : k + 1 \in 1..Len(ss) /\ ss[k + 1] = ms[k]
        /\ \A k \in 1..Len(ss) : k = 1 \/ (k - 1 \in 1..Len(ms) /\ ss[k] = ms[k - 1] /\ k \in Nat /\ k > 1)
    <2> DEFINE t == ss
    <2>1. t = Cons(map, ms)
      OBVIOUS
    <2> HIDE DEF t
    <2> QED BY <2>1, ConsAt
  <1> HIDE DEF fs, ss
  <1>0. Open(fs, ss, blk, r, R, D)
    BY DEF fs, ss
  <1>3. ASSUME IsVisible(ms, r) PROVE blk \in R \cup {D} /\ Inside(f, R, D)
    <2>1. PICK k \in 1..Len(ms) : r \in Visible(ms[k])
      BY <1>3 DEF IsVisible
    <2>2. k + 1 \in 1..Len(ss) /\ r \in Visible(ss[k + 1]) /\ 1 \in 1..((k + 1) - 1)
      BY <1>2, <2>1
    <2> QED BY <1>0, <1>1, <2>2 DEF Open
  <1>4. ASSUME ~IsVisible(ms, r) PROVE Outside(f, R)
    <2>1. ASSUME NEW k \in 1..Len(ss), r \in Visible(ss[k]) PROVE k <= 1
      <3>1. CASE k = 1
        BY <3>1
      <3>2. CASE k # 1
        BY <1>2, <1>4, <2>1, <3>2 DEF IsVisible
      <3> QED BY <3>1, <3>2
    <2> QED BY <1>0, <1>1, <2>1 DEF Open
  <1>5. ASSUME NEW e, NEW S, R \subseteq S, \A m \in 1..Len(gs) : Outside(gs[m], R) => Outside(gs[m], S),
               IsVisible(ms, r) => e \in S
        PROVE  Open(gs, ms, e, r, S, D)
    <2>1. ASSUME NEW k \in 1..Len(ms), r \in Visible(ms[k])
          PROVE  e \in S \cup {D} /\ \A m \in 1..(k - 1) : Inside(gs[m], S, D)
      <3>1. e \in S
        BY <1>5, <2>1 DEF IsVisible
      <3>2. ASSUME NEW m \in 1..(k - 1) PROVE Inside(gs[m], S, D)
        <4>1. m \in 1..Len(gs) /\ m + 1 \in 1..((k + 1) - 1) /\ fs[m + 1] = gs[m] /\ k + 1 \in 1..Len(ss) /\ ss[k + 1] = ms[k]
          <5>1. m \in 1..Len(gs)
            BY <1>1, <1>2
          <5>2. m + 1 \in 1..((k + 1) - 1)
            BY <1>1, <1>2
          <5>3. fs[m + 1] = gs[m]
            BY <1>1, <5>1
          <5> QED BY <1>2, <5>1, <5>2, <5>3
        <4>2. Inside(fs[m + 1], R, D)
          BY <1>0, <2>1, <4>1 DEF Open
        <4> QED BY <1>5, <4>1, <4>2 DEF Inside
      <3> QED BY <3>1, <3>2
    <2>2. ASSUME NEW m \in 1..Len(gs), \A k \in 1..Len(ms) : r \in Visible(ms[k]) => k <= m
          PROVE  Outside(gs[m], S)
      <3>1. m + 1 \in 1..Len(fs) /\ fs[m + 1] = gs[m]
        BY <1>1
      <3>2. ASSUME NEW k \in 1..Len(ss), r \in Visible(ss[k]) PROVE k <= m + 1
        <4>1. CASE k = 1
          BY <1>1, <4>1
        <4>2. CASE k # 1
          <5>1. k - 1 \in 1..Len(ms) /\ ss[k] = ms[k - 1] /\ k \in Nat
            BY <1>2, <4>2
          <5>2. k - 1 <= m
            BY <2>2, <3>2, <5>1
          <5> QED BY <1>1, <5>1, <5>2
        <4> QED BY <4>1, <4>2
      <3>3. Outside(fs[m + 1], R)
        BY <1>0, <3>1, <3>2 DEF Open
      <3> QED BY <1>5, <3>1, <3>3
    <2> QED BY <2>1, <2>2 DEF Open
  <1> QED BY <1>3, <1>4, <1>5

-----------------------------------------------------------------------------
\* The jumps while a function is being created: no block that is not finished
\* has a jump in front of its end, the blocks that wait for one have none, and
\* all others are connected.
Flow(c, fs, blk) ==
    /\ JumpsTwice(c, {blk} \cup Opens(fs), {})
    /\ \A x \in {blk} \cup Waits(fs) : NoJump(c, x)
    /\ ReachedFromBelow(c, Bodies(fs))
    /\ Leaves(c, {blk} \cup Waits(fs))

\* A statement without a jump.
LEMMA FlowExtends ==
  ASSUME NEW c, Built(c), NEW fs, NEW blk, CallStack(fs, blk, Len(c.block)), Flow(c, fs, blk),
         NEW d, NEW New, Extends(c, d, blk, New), \A i \in New : ~IsJump(i)
  PROVE  Flow(d, fs, blk)
  <1>1. blk \in 1..Len(c.block) /\ \A x \in Waits(fs) : x \in 1..Len(c.block)
    BY CallsBelow
  <1>2. ASSUME NEW x \in {blk} \cup Waits(fs) PROVE NoJump(d, x)
    <2>1. x \in 1..Len(c.block) /\ NoJump(c, x)
      BY <1>1 DEF Flow
    <2> QED BY <1>1, <2>1, NoJumpExtends
  <1>3. JumpsTwice(d, {blk} \cup Opens(fs), {})
    <2>1. \A k \in 1..(Len(d.block[blk]) - 1) : ~JumpAt(d, blk, k)
      <3>1. NoJump(d, blk)
        BY <1>2
      <3>2. Len(d.block[blk]) \in Nat
        BY <1>1, BuiltLens DEF Extends
      <3> QED BY <3>1, <3>2 DEF NoJump
    <2> DEFINE U == {blk} \cup Opens(fs)
    <2>2. JumpsTwice(c, U, {}) /\ blk \in U
      BY DEF Flow
    <2> HIDE DEF U
    <2>3. JumpsTwice(d, U, {})
      BY <1>1, <2>1, <2>2, JumpsTwiceExtends
    <2> QED BY <2>3 DEF U
  <1>4. ReachedFromBelow(d, Bodies(fs))
    BY <1>1, ReachedExtends DEF Flow
  <1>5. Leaves(d, {blk} \cup Waits(fs))
    <2> DEFINE W == {blk} \cup Waits(fs)
    <2>1. Leaves(c, W)
      BY DEF Flow
    <2> HIDE DEF W
    <2>2. Leaves(d, W)
      BY <1>1, <2>1, LeavesExtends
    <2> QED BY <2>2 DEF W
  <1> QED BY <1>2, <1>3, <1>4, <1>5 DEF Flow

\* if: the body waits for the jump that will be put at the end of the block.
LEMMA FlowIf ==
  ASSUME NEW c, Built(c), NEW fs, NEW blk, CallStack(fs, blk, Len(c.block)), Flow(c, fs, blk),
         NEW d, Grown(c, d), NEW f \in Frame, f.kind = "IF", f.oldBlock = blk, f.bblock = Len(c.block) + 1
  PROVE  Flow(d, Cons(f, fs), f.bblock)
  <1> DEFINE n == Len(c.block) + 1
             U == {blk} \cup Opens(fs)
             W == {blk} \cup Waits(fs)
             B == Bodies(fs)
  <1>1. /\ blk \in 1..Len(c.block) /\ \A x \in Waits(fs) : x \in 1..Len(c.block)
        /\ fs \in Seq(Frame)
    BY CallsBelow
  <1>2. /\ Opens(Cons(f, fs)) = {n, blk} \cup Opens(fs)
        /\ Waits(Cons(f, fs)) = {blk} \cup Waits(fs)
        /\ Bodies(Cons(f, fs)) = {n} \cup Bodies(fs)
    BY <1>1, Pushed DEF OpenIn, WaitIn, BodyIn
  <1>3. ASSUME NEW x \in {n} \cup W PROVE NoJump(d, x)
    <2>1. CASE x = n
      BY <2>1, NoJumpGrows
    <2>2. CASE x \in W
      BY <1>1, <2>2, NoJumpGrows DEF Flow
    <2> QED BY <2>1, <2>2
  <1>4. JumpsTwice(d, U \cup {n}, {}) /\ ReachedFromBelow(d, B \cup {n}) /\ Leaves(d, W \cup {n})
    <2>1. JumpsTwice(c, U, {}) /\ ReachedFromBelow(c, B) /\ Leaves(c, W)
      BY DEF Flow
    <2> HIDE DEF U, B, W
    <2> QED BY <2>1, JumpsTwiceGrows, ReachedGrows, LeavesGrows
  <1>5. {n} \cup Opens(Cons(f, fs)) = U \cup {n} /\ Bodies(Cons(f, fs)) = B \cup {n}
        /\ {n} \cup Waits(Cons(f, fs)) = W \cup {n} /\ {n} \cup W = W \cup {n}
    BY <1>2
  <1> HIDE DEF U, W, B
  <1>6. Flow(d, Cons(f, fs), n)
    BY <1>3, <1>4, <1>5 DEF Flow
  <1> QED BY <1>6

\* while: the head is entered from the block before it, and the body waits.
LEMMA FlowWhile ==
  ASSUME NEW c, Built(c), NEW fs, NEW blk, CallStack(fs, blk, Len(c.block)), Flow(c, fs, blk),
         NEW c1, Grown(c, c1), NEW u, Len(u) = 1, u[1] = BlockValue(Len(c.block) + 1),
         NEW c2, Adds(c1, c2, blk, "INST_JUMP", 0, u), NEW d, Grown(c2, d),
         NEW f \in Frame, f.kind = "WHILE", f.oldBlock = blk, f.head = Len(c.block) + 1, f.bblock = Len(c.block) + 2
  PROVE  Flow(d, Cons(f, fs), f.bblock)
  <1> DEFINE h == Len(c.block) + 1
             n == Len(c.block) + 2
             U == {blk} \cup Opens(fs)
             W == {blk} \cup Waits(fs)
             B == Bodies(fs)
  <1>1. /\ blk \in 1..Len(c.block) /\ \A x \in Waits(fs) : x \in 1..Len(c.block) /\ x < blk
        /\ fs \in Seq(Frame) /\ Len(c.block) \in Nat
    BY CallsBelow
  <1>2. /\ Opens(Cons(f, fs)) = {n, blk, h} \cup Opens(fs)
        /\ Waits(Cons(f, fs)) = {h} \cup Waits(fs)
        /\ Bodies(Cons(f, fs)) = {n} \cup Bodies(fs)
    BY <1>1, Pushed DEF OpenIn, WaitIn, BodyIn
  <1>3. Built(c1) /\ Len(c1.block) = h /\ blk \in 1..h /\ h \in 1..h /\ blk # h /\ n = h + 1 /\ blk < h /\ blk \in Nat
        /\ \A x \in Waits(fs) : x \in 1..h /\ x # blk
    BY <1>1 DEF Grown
  <1>4. /\ Built(c2) /\ Len(c2.block) = h
        /\ ~NoJump(c2, blk)
        /\ JumpsTo(c2, blk, h)
        /\ NoJump(c1, blk) => \A k \in 1..(Len(c2.block[blk]) - 1) : ~JumpAt(c2, blk, k)
        /\ \E New : Extends(c1, c2, blk, New)
    <2>1. 1 \in 1..Len(u) /\ blk \in 1..Len(c1.block) /\ "INST_JUMP" \in {"INST_JUMP", "INST_JUMP_COND"}
      BY <1>3
    <2>2. Jumped(c1, c2, blk, "INST_JUMP", u)
      BY <1>3, <2>1, AddedJump
    <2> QED BY <1>3, <2>1, <2>2 DEF Jumped
  <1>5. PICK New : Extends(c1, c2, blk, New)
    BY <1>4
  <1> HIDE DEF n
  <1>6. ASSUME NEW x \in {n, h} \cup Waits(fs) PROVE NoJump(d, x)
    <2>1. CASE x = n
      BY <1>3, <1>4, <2>1, NoJumpGrows
    <2>2. CASE x # n
      <3>1. x \in 1..h /\ x # blk
        BY <1>3, <2>2
      <3>2. NoJump(c1, x)
        <4>1. CASE x = h
          BY <4>1, NoJumpGrows
        <4>2. CASE x # h
          BY <1>1, <2>2, <4>2, NoJumpGrows DEF Flow
        <4> QED BY <4>1, <4>2
      <3>3. NoJump(c2, x)
        BY <1>3, <1>5, <3>1, <3>2, NoJumpExtends
      <3> QED BY <1>4, <3>1, <3>3, NoJumpGrows
    <2> QED BY <2>1, <2>2
  <1>7. JumpsTwice(d, (U \cup {h}) \cup {n}, {})
    <2>1. JumpsTwice(c, U, {}) /\ blk \in U
      BY DEF Flow
    <2> HIDE DEF U
    <2>2. JumpsTwice(c1, U \cup {h}, {})
      BY <2>1, JumpsTwiceGrows
    <2>3. NoJump(c1, blk)
      BY <1>1, NoJumpGrows DEF Flow
    <2> DEFINE V == U \cup {h}
    <2>4. JumpsTwice(c1, V, {}) /\ blk \in V /\ blk \in 1..Len(c1.block)
      BY <1>3, <2>1, <2>2
    <2> HIDE DEF V
    <2>5. JumpsTwice(c2, V, {})
      BY <1>3, <1>4, <1>5, <2>3, <2>4, JumpsTwiceExtends
    <2>6. JumpsTwice(d, V \cup {n}, {})
      BY <1>3, <1>4, <2>5, JumpsTwiceGrows
    <2> QED BY <2>6 DEF V
  <1>8. ReachedFromBelow(d, B \cup {n})
    <2>1. ReachedFromBelow(c, B)
      BY DEF Flow
    <2> HIDE DEF B
    <2>2. ReachedFromBelow(c1, B \cup {h})
      BY <2>1, ReachedGrows
    <2>3. ReachedFromBelow(c2, B \cup {h})
      BY <1>3, <1>5, <2>2, ReachedExtends
    <2>4. ReachedFromBelow(c2, B)
      <3>1. blk \in 1..(h - 1)
        BY <1>1
      <3> QED BY <1>4, <2>3, <3>1, ReachedBy
    <2> QED BY <1>3, <1>4, <2>4, ReachedGrows
  <1>9. Leaves(d, ({h} \cup Waits(fs)) \cup {n})
    <2>1. Leaves(c, W)
      BY DEF Flow
    <2> HIDE DEF W
    <2>2. Leaves(c1, W \cup {h})
      BY <2>1, LeavesGrows
    <2>3. Leaves(c2, W \cup {h})
      BY <1>3, <1>5, <2>2, LeavesExtends
    <2> DEFINE V == {h} \cup Waits(fs)
    <2>4. W \cup {h} \subseteq V \cup {blk}
      BY DEF W
    <2> HIDE DEF V
    <2>5. Leaves(c2, V)
      BY <1>4, <2>3, <2>4, LeavesBy
    <2>6. Leaves(d, V \cup {n})
      BY <1>3, <1>4, <2>5, LeavesGrows
    <2> QED BY <2>6 DEF V
  <1>10. {n} \cup Opens(Cons(f, fs)) = (U \cup {h}) \cup {n} /\ Bodies(Cons(f, fs)) = B \cup {n}
         /\ {n} \cup Waits(Cons(f, fs)) = ({h} \cup Waits(fs)) \cup {n}
         /\ {n, h} \cup Waits(fs) = ({h} \cup Waits(fs)) \cup {n} /\ f.bblock = n
    BY <1>2 DEF n
  <1> HIDE DEF U, B
  <1> QED BY <1>6, <1>7, <1>8, <1>9, <1>10 DEF Flow

\* The end of an if: the branch goes to the body and to the rest, and what was
\* the end of the body goes on to the rest.
LEMMA FlowEndIf ==
  ASSUME NEW c, Built(c), NEW gs \in Seq(Frame), NEW f \in Frame, f.kind = "IF", NEW blk,
         CallStack(Cons(f, gs), blk, Len(c.block)), Flow(c, Cons(f, gs), blk),
         NEW c1, Grown(c, c1), NEW u, Len(u) = 3, u[1] = BlockValue(f.bblock), u[2] = BlockValue(Len(c.block) + 1),
         NEW c2, Jumped(c1, c2, f.oldBlock, "INST_JUMP_COND", u),
         NEW w, NEW d, Jumped(c2, d, blk, "INST_JUMP", w)
  PROVE  Flow(d, gs, Len(c.block) + 1)
  <1> DEFINE e == Len(c.block) + 1
             old == f.oldBlock
             body == f.bblock
             U == {blk} \cup Opens(Cons(f, gs))
             W == {blk} \cup Waits(Cons(f, gs))
  <1>1. /\ CallStack(gs, old, Len(c.block)) /\ InOrder(f, Len(c.block)) /\ body <= blk /\ blk \in 1..Len(c.block)
        /\ Len(c.block) \in Nat
    BY CallPopped
  <1>2. old \in 1..Len(c.block) /\ body \in 1..Len(c.block) /\ old < body
    BY <1>1 DEF InOrder
  <1>3. /\ Opens(Cons(f, gs)) = {body, old} \cup Opens(gs)
        /\ Waits(Cons(f, gs)) = {old} \cup Waits(gs)
        /\ Bodies(Cons(f, gs)) = {body} \cup Bodies(gs)
    BY Pushed DEF OpenIn, WaitIn, BodyIn
  <1>4. \A x \in Waits(gs) : x \in 1..Len(c.block) /\ x < old
    BY <1>1, CallsBelow
  <1>5. Built(c1) /\ Len(c1.block) = e /\ e \in 1..e /\ e \notin 1..Len(c.block) /\ 1..Len(c.block) \subseteq 1..e
    BY <1>1 DEF Grown
  <1>6. Built(c2) /\ Len(c2.block) = e /\ Built(d) /\ Len(d.block) = e
    BY <1>5 DEF Jumped
  <1>7. PICK New : Extends(c1, c2, old, New)
    BY DEF Jumped
  <1>8. PICK More : Extends(c2, d, blk, More)
    BY DEF Jumped
  <1>9. old # blk /\ old \in 1..Len(c1.block) /\ blk \in 1..Len(c1.block) /\ blk \in 1..Len(c2.block) /\ blk # e /\ old # e
    BY <1>1, <1>2, <1>5, <1>6
  <1>10. NoJump(c1, old) /\ NoJump(c1, blk) /\ NoJump(c1, e) /\ NoJump(c2, blk)
    <2>1. NoJump(c, old) /\ NoJump(c, blk)
      BY <1>3 DEF Flow
    <2>2. NoJump(c1, old) /\ NoJump(c1, blk) /\ NoJump(c1, e)
      BY <1>1, <1>2, <2>1, NoJumpGrows
    <2>3. NoJump(c2, blk)
      BY <1>5, <1>7, <1>9, <2>2, NoJumpExtends
    <2> QED BY <2>2, <2>3
  <1> HIDE DEF e, old, body
  <1>11. ASSUME NEW x \in {e} \cup Waits(gs) PROVE NoJump(d, x)
    <2>1. x \in 1..e /\ x # old /\ x # blk /\ NoJump(c1, x)
      <3>1. CASE x = e
        BY <1>5, <1>9, <1>10, <3>1
      <3>2. CASE x # e
        <4>1. x \in Waits(gs) /\ x \in 1..Len(c.block) /\ x < old /\ old \in Nat /\ body \in Nat /\ blk \in Nat
          BY <1>1, <1>2, <1>4, <3>2
        <4>2. x # old /\ x # blk
          BY <1>1, <1>2, <4>1
        <4>3. NoJump(c, x)
          BY <1>3, <4>1 DEF Flow
        <4> QED BY <1>5, <4>1, <4>2, <4>3, NoJumpGrows
      <3> QED BY <3>1, <3>2
    <2>2. NoJump(c2, x)
      BY <1>5, <1>7, <1>9, <2>1, NoJumpExtends
    <2> QED BY <1>6, <1>8, <1>9, <2>1, <2>2, NoJumpExtends
  <1>12. JumpsTwice(d, {e} \cup Opens(gs), {})
    <2>1. JumpsTwice(c, U, {}) /\ blk \in U /\ old \in U
      BY <1>3 DEF Flow
    <2>2. {e} \cup Opens(gs) \subseteq U \cup {e}
      BY <1>3
    <2> HIDE DEF U
    <2> DEFINE V == U \cup {e}
    <2>3. JumpsTwice(c1, V, {}) /\ blk \in V /\ old \in V
      BY <2>1, JumpsTwiceGrows DEF e
    <2> HIDE DEF V
    <2>4. JumpsTwice(c2, V, {})
      <3>1. \A k \in 1..(Len(c2.block[old]) - 1) : ~JumpAt(c2, old, k)
        BY <1>10 DEF Jumped, old
      <3> QED BY <1>5, <1>7, <1>9, <2>3, <3>1, JumpsTwiceExtends
    <2>5. JumpsTwice(d, V, {})
      <3>1. \A k \in 1..(Len(d.block[blk]) - 1) : ~JumpAt(d, blk, k)
        BY <1>10 DEF Jumped
      <3> QED BY <1>6, <1>8, <1>9, <2>3, <2>4, <3>1, JumpsTwiceExtends
    <2> QED BY <2>2, <2>5, JumpsTwiceFewer DEF V
  <1>13. ReachedFromBelow(d, Bodies(gs))
    <2> DEFINE B == Bodies(gs)
    <2>1. ReachedFromBelow(c, B \cup {body})
      <3>1. B \cup {body} = Bodies(Cons(f, gs))
        BY <1>3
      <3> QED BY <3>1 DEF Flow
    <2> HIDE DEF B
    <2>2. ReachedFromBelow(c1, (B \cup {body}) \cup {e})
      BY <2>1, ReachedGrows DEF e
    <2>3. ReachedFromBelow(c2, (B \cup {body}) \cup {e})
      BY <1>5, <1>7, <1>9, <2>2, ReachedExtends
    <2>4. JumpsTo(c2, old, body) /\ JumpsTo(c2, old, e)
      <3>1. 1 \in 1..Len(u) /\ 2 \in 1..Len(u)
        OBVIOUS
      <3> QED BY <3>1 DEF Jumped, old, body, e
    <2>5. old \in 1..(body - 1) /\ old \in 1..(e - 1)
      BY <1>1, <1>2 DEF e
    <2>6. ReachedFromBelow(c2, B \cup {body})
      BY <2>3, <2>4, <2>5, ReachedBy
    <2>7. ReachedFromBelow(c2, B)
      BY <2>4, <2>5, <2>6, ReachedBy
    <2>8. ReachedFromBelow(d, B)
      BY <1>6, <1>8, <1>9, <2>7, ReachedExtends
    <2> QED BY <2>8 DEF B
  <1>14. Leaves(d, {e} \cup Waits(gs))
    <2> DEFINE V == {e} \cup Waits(gs)
    <2>1. Leaves(c, W) /\ W \cup {e} \subseteq (V \cup {blk}) \cup {old}
      BY <1>3 DEF Flow
    <2> HIDE DEF V, W
    <2>2. Leaves(c1, W \cup {e})
      BY <2>1, LeavesGrows DEF e
    <2>3. Leaves(c2, W \cup {e})
      BY <1>5, <1>7, <1>9, <2>2, LeavesExtends
    <2>4. Leaves(c2, V \cup {blk})
      <3>1. ~NoJump(c2, old)
        BY DEF Jumped, old
      <3> QED BY <2>1, <2>3, <3>1, LeavesBy
    <2>5. Leaves(d, V \cup {blk})
      BY <1>6, <1>8, <1>9, <2>4, LeavesExtends
    <2>6. Leaves(d, V)
      <3>1. ~NoJump(d, blk)
        BY DEF Jumped
      <3> QED BY <2>5, <3>1, LeavesBy
    <2> QED BY <2>6 DEF V
  <1>15. Flow(d, gs, e)
    BY <1>11, <1>12, <1>13, <1>14 DEF Flow
  <1> QED BY <1>15 DEF e

\* How many blocks there are when block_new, inst_new_jump or another
\* instruction was called.
LEMMA GrownLens ==
  ASSUME NEW c, NEW d, Grown(c, d)
  PROVE  Built(d) /\ Len(d.block) = Len(c.block) + 1
  BY Zenon DEF Grown

\* Adding instructions to a block makes no block.
LEMMA ExtendsLens ==
  ASSUME NEW c, NEW d, NEW b, NEW New, Extends(c, d, b, New)
  PROVE  Built(d) /\ Len(d.block) = Len(c.block)
  BY Zenon DEF Extends

\* inst_new_jump and inst_new_jump_cond make no block.
LEMMA JumpedLens ==
  ASSUME NEW c, NEW d, NEW b, NEW type, NEW u, Jumped(c, d, b, type, u)
  PROVE  Built(d) /\ Len(d.block) = Len(c.block)
  BY Zenon DEF Jumped

\* Allowing more blocks to jump twice allows no less.
LEMMA JumpsTwiceBut ==
  ASSUME NEW c, NEW U, NEW X, JumpsTwice(c, U, {})
  PROVE  JumpsTwice(c, U, X)
  BY DEF JumpsTwice

\* The end of a while: the jump back stands at the end of the first block of
\* the body, behind another jump if the body has several blocks; the condition
\* and the branch are put into the head.
LEMMA FlowEndWhile ==
  ASSUME NEW c, Built(c), NEW gs \in Seq(Frame), NEW f \in Frame, f.kind = "WHILE", NEW blk,
         CallStack(Cons(f, gs), blk, Len(c.block)), Flow(c, Cons(f, gs), blk),
         NEW w, Len(w) = 1, w[1] = BlockValue(f.head),
         NEW c1, Jumped(c, c1, f.bblock, "INST_JUMP", w), NEW c2, Grown(c1, c2),
         NEW c3, NEW Plain, Extends(c2, c3, f.head, Plain), \A i \in Plain : ~IsJump(i),
         NEW u, Len(u) = 3, u[1] = BlockValue(f.bblock), u[2] = BlockValue(Len(c.block) + 1),
         NEW d, Jumped(c3, d, f.head, "INST_JUMP_COND", u)
  PROVE  Flow(d, gs, Len(c.block) + 1)
  <1> DEFINE e == Len(c.block) + 1
             old == f.oldBlock
             body == f.bblock
             head == f.head
             U == {blk} \cup Opens(Cons(f, gs))
             W == {blk} \cup Waits(Cons(f, gs))
  <1>1. /\ CallStack(gs, old, Len(c.block)) /\ InOrder(f, Len(c.block)) /\ body <= blk /\ blk \in 1..Len(c.block)
        /\ Len(c.block) \in Nat
    BY CallPopped
  <1>2. /\ old \in 1..Len(c.block) /\ body \in 1..Len(c.block) /\ head \in 1..Len(c.block)
        /\ old < head /\ head < body
    BY <1>1 DEF InOrder
  <1>3. /\ Opens(Cons(f, gs)) = {body, old, head} \cup Opens(gs)
        /\ Waits(Cons(f, gs)) = {head} \cup Waits(gs)
        /\ Bodies(Cons(f, gs)) = {body} \cup Bodies(gs)
    BY Pushed DEF OpenIn, WaitIn, BodyIn
  <1>4. (\A x \in Waits(gs) : x \in 1..Len(c.block) /\ x < old) /\ (\A x \in Opens(gs) : x \in 1..Len(c.block) /\ x <= old)
    BY <1>1, CallsBelow
  <1>5. Built(c1) /\ Len(c1.block) = Len(c.block) /\ Built(c2) /\ Len(c2.block) = e /\ Built(c3) /\ Len(c3.block) = e
        /\ Built(d) /\ Len(d.block) = e
    <2>1. Built(c1) /\ Len(c1.block) = Len(c.block)
      BY JumpedLens, Zenon
    <2>2. Built(c2) /\ Len(c2.block) = e
      <3>1. Built(c2) /\ Len(c2.block) = Len(c1.block) + 1
        BY GrownLens, Zenon
      <3> QED BY <2>1, <3>1, Zenon
    <2>3. Built(c3) /\ Len(c3.block) = Len(c2.block)
      BY ExtendsLens, Zenon
    <2>4. Built(d) /\ Len(d.block) = Len(c3.block)
      BY JumpedLens, Zenon
    <2> QED BY <2>1, <2>2, <2>3, <2>4, Zenon
  <1>6. e \in 1..e /\ e \notin 1..Len(c.block) /\ 1..Len(c.block) \subseteq 1..e
    BY <1>1
  <1>7. PICK New : Extends(c, c1, body, New)
    BY DEF Jumped
  <1>8. PICK More : Extends(c3, d, head, More)
    BY DEF Jumped
  <1>9. /\ body \in 1..Len(c1.block) /\ head \in 1..Len(c1.block) /\ head \in 1..Len(c2.block) /\ head \in 1..Len(c3.block)
        /\ body # head /\ head # e /\ body # e /\ head # old /\ body # old
    BY <1>1, <1>2, <1>5, <1>6
  <1> HIDE DEF e, old, body, head
  <1>e. e = Len(c1.block) + 1
    BY <1>5 DEF e
  <1>x. Extends(c2, c3, head, Plain)
    BY DEF head
  <1>10. ASSUME NEW x \in {e} \cup Waits(gs) PROVE NoJump(d, x)
    <2>1. x \in 1..e /\ x # head /\ x # body /\ NoJump(c2, x)
      <3>1. CASE x = e
        <4>1. NoJump(c2, e)
          BY <1>5, <1>e, NoJumpGrows
        <4> QED BY <1>6, <1>9, <3>1, <4>1
      <3>2. CASE x # e
        <4>1. x \in Waits(gs) /\ x \in 1..Len(c.block) /\ x < old /\ old \in Nat /\ body \in Nat /\ head \in Nat
          BY <1>1, <1>2, <1>4, <3>2
        <4>2. x # head /\ x # body
          BY <1>1, <1>2, <4>1
        <4>3. NoJump(c, x)
          BY <1>3, <4>1 DEF Flow
        <4>4. NoJump(c1, x)
          BY <1>2, <1>7, <4>1, <4>2, <4>3, NoJumpExtends
        <4>5. NoJump(c2, x)
          BY <1>5, <4>1, <4>4, NoJumpGrows
        <4> QED BY <1>6, <4>1, <4>2, <4>5
      <3> QED BY <3>1, <3>2
    <2>2. NoJump(c3, x)
      BY <1>5, <1>x, <1>9, <2>1, NoJumpExtends
    <2> QED BY <1>5, <1>8, <1>9, <2>1, <2>2, NoJumpExtends
  <1>11. NoJump(c3, head)
    <2>1. NoJump(c, head)
      BY <1>3 DEF Flow
    <2>2. NoJump(c1, head)
      BY <1>2, <1>7, <1>9, <2>1, NoJumpExtends
    <2>3. NoJump(c2, head)
      BY <1>5, <1>9, <2>2, NoJumpGrows
    <2> QED BY <1>5, <1>x, <1>9, <2>3, NoJumpExtends
  <1>12. JumpsTwice(d, U \cup {e}, {body})
    <2>1. JumpsTwice(c, U, {body}) /\ body \in U /\ head \in U
      BY <1>3, JumpsTwiceBut DEF Flow
    <2> HIDE DEF U
    <2>2. JumpsTwice(c1, U, {body})
      BY <1>2, <1>7, <2>1, JumpsTwiceExtends
    <2> DEFINE V == U \cup {e}
    <2>3. JumpsTwice(c2, V, {body}) /\ head \in V
      BY <1>5, <1>e, <2>1, <2>2, JumpsTwiceGrows
    <2> HIDE DEF V
    <2>4. JumpsTwice(c3, V, {body})
      <3>1. \A k \in 1..(Len(c3.block[head]) - 1) : ~JumpAt(c3, head, k)
        <4>1. Len(c3.block[head]) \in Nat
          BY <1>5, <1>9, BuiltLens
        <4> QED BY <1>11, <4>1 DEF NoJump
      <3> QED BY <1>5, <1>x, <1>9, <2>3, <3>1, JumpsTwiceExtends
    <2>5. JumpsTwice(d, V, {body})
      <3>1. \A k \in 1..(Len(d.block[head]) - 1) : ~JumpAt(d, head, k)
        BY <1>11 DEF Jumped, head
      <3> QED BY <1>5, <1>8, <1>9, <2>3, <2>4, <3>1, JumpsTwiceExtends
    <2> QED BY <2>5 DEF V
  <1>13. /\ d.block[body] = c1.block[body] /\ Len(c1.block[body]) = Len(c.block[body]) + 1 /\ Len(c.block[body]) \in Nat
         /\ At(d, body, Len(c.block[body]) + 1).type = "INST_JUMP"
         /\ At(d, body, Len(c.block[body]) + 1).uses = w
         /\ \A k \in 1..Len(c.block[body]) : At(d, body, k) = At(c, body, k)
    <2> DEFINE m == Len(c.block[body]) + 1
    <2>1. /\ Len(c1.block[body]) = m /\ Len(c.block[body]) \in Nat
          /\ At(c1, body, m).type = "INST_JUMP" /\ At(c1, body, m).uses = w
      BY DEF Jumped, body
    <2>2. Same(c1, c2, body)
      BY <1>5, <1>9, GrownSame
    <2>3. Same(c2, c3, body)
      <3>1. body \in 1..Len(c2.block)
        BY <1>2, <1>5, <1>6
      <3> QED BY <1>5, <1>x, <1>9, <3>1, OthersSame
    <2>4. Same(c3, d, body)
      <3>1. body \in 1..Len(c3.block)
        BY <1>2, <1>5, <1>6
      <3> QED BY <1>5, <1>8, <1>9, <3>1, OthersSame
    <2>5. \A k \in 1..Len(c.block[body]) : At(c1, body, k) = At(c, body, k)
      BY <1>2, <1>7, ExtendsKeeps, ZenonT(40)
    <2>6. m \in 1..Len(c1.block[body]) /\ 1..Len(c.block[body]) \subseteq 1..Len(c1.block[body])
      BY <2>1
    <2> QED BY <2>1, <2>2, <2>3, <2>4, <2>5, <2>6 DEF Same
  <1>14. LoopClosed(d, body, head)
    <2>1. /\ Len(d.block[head]) = Len(c3.block[head]) + 1 /\ Len(c3.block[head]) \in Nat
          /\ At(d, head, Len(c3.block[head]) + 1).type = "INST_JUMP_COND"
          /\ At(d, head, Len(c3.block[head]) + 1).uses = u
      BY DEF Jumped, head
    <2>2. u[1] = BlockValue(body) /\ w[1] = BlockValue(head)
      BY DEF body, head
    <2> QED BY <1>13, <2>1, <2>2, SMTT(30) DEF LoopClosed
  <1>15. JumpsTwice(d, {e} \cup Opens(gs), {})
    <2>1. {e} \cup Opens(gs) \subseteq U \cup {e}
      BY <1>3
    <2>2. JumpsTwice(c, U, {}) /\ body \in U
      BY <1>3 DEF Flow
    <2>3. body \notin {e} \cup Opens(gs) /\ head \notin {e} \cup Opens(gs)
      <3>1. old \in Nat /\ head \in Nat /\ body \in Nat
        BY <1>1, <1>2
      <3>2. ASSUME NEW x \in Opens(gs) PROVE x # body /\ x # head
        <4>1. x \in Nat /\ x <= old
          BY <1>1, <1>4
        <4> QED BY <1>2, <3>1, <4>1
      <3> QED BY <1>9, <3>2
    <2> DEFINE V == {e} \cup Opens(gs)
    <2>4. V \subseteq U \cup {e} /\ body \notin V /\ head \notin V
      BY <2>1, <2>3
    <2> HIDE DEF U, V
    <2>5. ASSUME NEW k \in 1..(Len(d.block[body]) - 1), JumpAt(d, body, k)
          PROVE  k = Len(d.block[body]) - 1
      <3>1. k \in 1..Len(c.block[body]) /\ JumpAt(c, body, k)
        BY <1>13, <2>5 DEF JumpAt
      <3>2. k \notin 1..(Len(c.block[body]) - 1)
        BY <1>2, <2>2, <3>1 DEF JumpsTwice
      <3> QED BY <1>13, <3>1, <3>2
    <2>6. head \in 1..Len(d.block)
      BY <1>5, <1>9
    <2>7. JumpsTwice(d, V, {body})
      BY <1>12, <2>4, JumpsTwiceFewer
    <2>8. JumpsTwice(d, V, {})
      BY <1>14, <2>4, <2>5, <2>6, <2>7 DEF JumpsTwice
    <2> QED BY <2>8 DEF V
  <1>16. ReachedFromBelow(d, Bodies(gs))
    <2> DEFINE B == Bodies(gs)
    <2>1. ReachedFromBelow(c, B \cup {body})
      <3>1. B \cup {body} = Bodies(Cons(f, gs))
        BY <1>3
      <3> QED BY <3>1 DEF Flow
    <2> HIDE DEF B
    <2>2. ReachedFromBelow(c1, B \cup {body})
      BY <1>2, <1>7, <2>1, ReachedExtends
    <2>3. ReachedFromBelow(c2, (B \cup {body}) \cup {e})
      BY <1>5, <1>e, <2>2, ReachedGrows
    <2>4. ReachedFromBelow(c3, (B \cup {body}) \cup {e})
      BY <1>5, <1>x, <1>9, <2>3, ReachedExtends
    <2>5. ReachedFromBelow(d, (B \cup {body}) \cup {e})
      BY <1>5, <1>8, <1>9, <2>4, ReachedExtends
    <2>6. JumpsTo(d, head, body) /\ JumpsTo(d, head, e)
      <3>1. 1 \in 1..Len(u) /\ 2 \in 1..Len(u)
        OBVIOUS
      <3> QED BY <3>1 DEF Jumped, head, body, e
    <2>7. head \in 1..(body - 1) /\ head \in 1..(e - 1)
      BY <1>1, <1>2 DEF e
    <2>8. ReachedFromBelow(d, B \cup {body})
      BY <2>5, <2>6, <2>7, ReachedBy
    <2>9. ReachedFromBelow(d, B)
      BY <2>6, <2>7, <2>8, ReachedBy
    <2> QED BY <2>9 DEF B
  <1>17. Leaves(d, {e} \cup Waits(gs))
    <2> DEFINE V == {head} \cup Waits(gs)
    <2>1. Leaves(c1, V)
      <3>1. W \subseteq V \cup {blk} /\ Leaves(c, W)
        BY <1>3 DEF Flow
      <3>2. CASE blk = body
        <4>1. Leaves(c1, W)
          <5> HIDE DEF W
          <5> QED BY <1>2, <1>7, <3>1, LeavesExtends
        <4>2. ~NoJump(c1, blk)
          BY <3>2 DEF Jumped, body
        <4> HIDE DEF V, W
        <4> QED BY <3>1, <4>1, <4>2, LeavesBy
      <3>3. CASE blk # body
        <4>1. body \notin W
          <5>1. ASSUME NEW x \in Waits(gs) PROVE x # body
            <6>1. x \in Nat /\ old \in Nat /\ head \in Nat /\ body \in Nat /\ x < old
              BY <1>1, <1>2, <1>4
            <6> QED BY <1>2, <6>1
          <5> QED BY <1>3, <1>9, <3>3, <5>1
        <4>2. CASE JumpsEarly(c)
          <5>1. Leaves(c, V)
            BY <4>2 DEF Leaves
          <5> HIDE DEF V
          <5> QED BY <1>2, <1>7, <5>1, LeavesExtends
        <4>3. CASE ~JumpsEarly(c)
          <5>1. ~NoJump(c, body)
            BY <1>2, <3>1, <4>1, <4>3 DEF Leaves
          <5>2. PICK k \in 1..Len(c.block[body]) : JumpAt(c, body, k)
            BY <5>1 DEF NoJump
          <5>3. At(c1, body, k) = At(c, body, k)
            BY <1>2, <1>7, ExtendsKeeps, ZenonT(40)
          <5>4. k \in 1..(Len(c1.block[body]) - 1)
            BY <1>13
          <5>5. At(c1, body, k).type \in Terminators
            BY <5>2, <5>3 DEF JumpAt, IsJump, Terminators
          <5> QED BY <1>9, <5>4, <5>5 DEF Leaves, JumpsEarly
        <4> QED BY <4>2, <4>3
      <3> QED BY <3>2, <3>3
    <2> HIDE DEF V
    <2>2. Leaves(c2, V \cup {e})
      BY <1>5, <1>e, <2>1, LeavesGrows
    <2>3. Leaves(c3, V \cup {e})
      BY <1>5, <1>x, <1>9, <2>2, LeavesExtends
    <2>4. Leaves(d, V \cup {e})
      BY <1>5, <1>8, <1>9, <2>3, LeavesExtends
    <2>5. ~NoJump(d, head)
      BY DEF Jumped, head
    <2>6. V \cup {e} \subseteq ({e} \cup Waits(gs)) \cup {head}
      BY DEF V
    <2> QED BY <2>4, <2>5, <2>6, LeavesBy
  <1>18. Flow(d, gs, e)
    BY <1>10, <1>15, <1>16, <1>17 DEF Flow
  <1> QED BY <1>18 DEF e

-----------------------------------------------------------------------------
\* Registers while a function is being created.

Scoping(ss, n) ==
    /\ ss \in Seq(Scope)
    /\ \A k \in 1..Len(ss) : \A r \in Visible(ss[k]) : r \in 0..(n - 1)

\* Registers are used only after _createReg has handed them out.
RegsKnown(c, n) ==
    \A i \in 1..Len(c.inst) :
        c.inst[i].type \in {"INST_LOAD_VAR", "INST_ASSIGN_VAR"} => c.inst[i].rId \in 0..(n - 1)

HasRegion(c, fs, ss, blk, r) ==
    \E R \in SUBSET (1..Len(c.block)) : \E D \in 1..Len(c.block) : Region(c, r, R, D) /\ Open(fs, ss, blk, r, R, D)

RegionsOpen(c, fs, ss, blk, n) == \A r \in 0..(n - 1) : HasRegion(c, fs, ss, blk, r)

\* A region witnesses itself.
LEMMA RegionFound ==
  ASSUME NEW c, NEW fs, NEW ss, NEW blk, NEW r, NEW R, NEW D, Region(c, r, R, D), Open(fs, ss, blk, r, R, D)
  PROVE  HasRegion(c, fs, ss, blk, r)
  BY DEF Region, HasRegion

\* Registers stay known while only known ones are loaded and assigned.
LEMMA RegsExtend ==
  ASSUME NEW c, Built(c), NEW d, NEW b \in 1..Len(c.block), NEW New, Extends(c, d, b, New), NEW n \in Nat, RegsKnown(c, n),
         \A i \in New : i.type \in {"INST_LOAD_VAR", "INST_ASSIGN_VAR"} => i.rId \in 0..(n - 1)
  PROVE  RegsKnown(d, n)
  <1>1. SUFFICES ASSUME NEW i \in 1..Len(d.inst) PROVE
           d.inst[i].type \in {"INST_LOAD_VAR", "INST_ASSIGN_VAR"} => d.inst[i].rId \in 0..(n - 1)
    BY DEF RegsKnown
  <1>2. Len(c.inst) \in Nat /\ Len(d.inst) \in Nat
    BY BuiltLens DEF Extends
  <1>3. CASE i \in 1..Len(c.inst)
    BY <1>3 DEF Extends, RegsKnown
  <1>4. CASE i \notin 1..Len(c.inst)
    <2>1. i \in (Len(c.inst) + 1)..Len(d.inst)
      BY <1>2, <1>4
    <2>2. d.inst[i] \in New
      BY <2>1 DEF Extends
    <2> QED BY <2>2
  <1> QED BY <1>3, <1>4

\* The blocks of calls in progress are not new.
LEMMA OutsideGrows ==
  ASSUME NEW fs, NEW blk, NEW n, CallStack(fs, blk, n), NEW R, NEW S, S \cap 1..n \subseteq R,
         NEW m \in 1..Len(fs), Outside(fs[m], R)
  PROVE  Outside(fs[m], S)
  <1>1. InOrder(fs[m], n)
    BY DEF CallStack
  <1> QED BY <1>1 DEF InOrder, Outside

\* A statement that loads only what is visible, and does not jump.
LEMMA RegionsKeep ==
  ASSUME NEW c, Built(c), NEW fs, NEW ss, NEW blk, NEW n, CallStack(fs, blk, Len(c.block)),
         RegionsOpen(c, fs, ss, blk, n), NEW d, NEW New, Extends(c, d, blk, New),
         \A i \in New : ~IsJump(i) /\ (i.type = "INST_LOAD_VAR" => IsVisible(ss, i.rId))
  PROVE  RegionsOpen(d, fs, ss, blk, n)
  <1>1. SUFFICES ASSUME NEW r \in 0..(n - 1) PROVE HasRegion(d, fs, ss, blk, r)
    BY DEF RegionsOpen
  <1>2. PICK R, D : Region(c, r, R, D) /\ Open(fs, ss, blk, r, R, D)
    BY DEF RegionsOpen, HasRegion
  <1>3. blk \in 1..Len(c.block)
    BY CallsBelow
  <1>4. IsVisible(ss, r) => blk \in R \cup {D}
    BY <1>2 DEF IsVisible, Open
  <1>5. \A i \in New : (i.type = "INST_LOAD_VAR" /\ i.rId = r) \/ JumpsInto(i, R) => blk \in R \cup {D}
    BY <1>4 DEF JumpsInto
  <1>6. Region(d, r, R, D)
    BY <1>2, <1>3, <1>5, RegionExtends
  <1> QED BY <1>2, <1>6, RegionFound

\* if: what was visible stays visible in the body.
LEMMA RegionsIf ==
  ASSUME NEW c, Built(c), NEW fs, NEW ss \in Seq(Scope), Len(ss) = Len(fs), NEW blk, NEW n,
         CallStack(fs, blk, Len(c.block)), RegionsOpen(c, fs, ss, blk, n), NEW d, Grown(c, d),
         NEW map \in Scope, Visible(map) = {},
         NEW f \in Frame, f.kind = "IF", f.oldBlock = blk, f.bblock = Len(c.block) + 1
  PROVE  RegionsOpen(d, Cons(f, fs), Cons(map, ss), f.bblock, n)
  <1>1. SUFFICES ASSUME NEW r \in 0..(n - 1) PROVE HasRegion(d, Cons(f, fs), Cons(map, ss), f.bblock, r)
    BY DEF RegionsOpen
  <1>2. PICK R, D : Region(c, r, R, D) /\ Open(fs, ss, blk, r, R, D)
    BY DEF RegionsOpen, HasRegion
  <1>3. blk \in 1..Len(c.block) /\ Len(c.block) \in Nat /\ fs \in Seq(Frame)
    BY CallsBelow
  <1> DEFINE new == Len(c.block) + 1
             S == IF IsVisible(ss, r) THEN R \cup {new} ELSE R
  <1>4. (S = R \/ S = R \cup {new}) /\ R \subseteq S /\ R \subseteq 1..Len(c.block) /\ new \notin R /\ S \cap 1..Len(c.block) \subseteq R
    BY <1>2, <1>3 DEF Region
  <1>5. IsVisible(ss, r) => blk \in R \cup {D}
    BY <1>2 DEF IsVisible, Open
  <1>6. IF IsVisible(ss, r) THEN Inside(f, S, D) ELSE Outside(f, S)
    BY <1>4, <1>5 DEF Inside, Outside
  <1> HIDE DEF S, new
  <1>7. \A m \in 1..Len(fs) : Outside(fs[m], R) => Outside(fs[m], S)
    BY <1>4, OutsideGrows
  <1>8. Open(Cons(f, fs), Cons(map, ss), f.bblock, r, S, D)
    BY <1>2, <1>3, <1>4, <1>6, <1>7, OpenPushed
  <1>9. Region(d, r, S, D)
    BY <1>2, <1>4, RegionGrows DEF new
  <1> QED BY <1>8, <1>9, RegionFound

\* while: the head and the body, entered from the block before them.
LEMMA RegionsWhile ==
  ASSUME NEW c, Built(c), NEW fs, NEW ss \in Seq(Scope), Len(ss) = Len(fs), NEW blk, NEW n,
         CallStack(fs, blk, Len(c.block)), RegionsOpen(c, fs, ss, blk, n),
         NEW c1, Grown(c, c1), NEW u, Len(u) = 1, u[1] = BlockValue(Len(c.block) + 1),
         NEW c2, Jumped(c1, c2, blk, "INST_JUMP", u), NEW d, Grown(c2, d),
         NEW map \in Scope, Visible(map) = {},
         NEW f \in Frame, f.kind = "WHILE", f.oldBlock = blk, f.head = Len(c.block) + 1, f.bblock = Len(c.block) + 2
  PROVE  RegionsOpen(d, Cons(f, fs), Cons(map, ss), f.bblock, n)
  <1>1. SUFFICES ASSUME NEW r \in 0..(n - 1) PROVE HasRegion(d, Cons(f, fs), Cons(map, ss), f.bblock, r)
    BY DEF RegionsOpen
  <1>2. PICK R, D : Region(c, r, R, D) /\ Open(fs, ss, blk, r, R, D)
    BY DEF RegionsOpen, HasRegion
  <1>3. blk \in 1..Len(c.block) /\ Len(c.block) \in Nat /\ fs \in Seq(Frame)
    BY CallsBelow
  <1> DEFINE h == Len(c.block) + 1
             new == Len(c.block) + 2
             S == IF IsVisible(ss, r) THEN R \cup {h} ELSE R
             T == IF IsVisible(ss, r) THEN S \cup {new} ELSE S
  <1>4. /\ S = R \/ S = R \cup {h}
        /\ T = S \/ T = S \cup {new}
        /\ R \subseteq T /\ T \cap 1..Len(c.block) \subseteq R /\ h \notin R
    BY <1>2, <1>3 DEF Region
  <1>5. IsVisible(ss, r) => blk \in R \cup {D}
    BY <1>2 DEF IsVisible, Open
  <1>6. IF IsVisible(ss, r) THEN Inside(f, T, D) ELSE Outside(f, T)
    <2>1. ~IsVisible(ss, r) => h \notin T /\ new \notin T
      BY <1>2, <1>3, SMTT(30) DEF Region
    <2> QED BY <1>5, <2>1 DEF Inside, Outside
  <1>7. IsVisible(ss, r) => S = R \cup {h}
    OBVIOUS
  <1>8. ~IsVisible(ss, r) => S = R
    OBVIOUS
  <1> HIDE DEF S, T, new, h
  <1>9. \A m \in 1..Len(fs) : Outside(fs[m], R) => Outside(fs[m], T)
    BY <1>4, OutsideGrows
  <1>10. Open(Cons(f, fs), Cons(map, ss), f.bblock, r, T, D)
    BY <1>2, <1>3, <1>4, <1>6, <1>9, OpenPushed
  <1>11. Region(c1, r, S, D) /\ Built(c1) /\ Len(c1.block) = h /\ blk \in 1..Len(c1.block)
    <2>1. Region(c1, r, S, D)
      BY <1>2, <1>4, RegionGrows DEF h
    <2> QED BY <1>3, <2>1 DEF Grown, h
  <1>12. PICK New : /\ Extends(c1, c2, blk, New)
                    /\ \A i \in New : IsJump(i) /\ i.uses = u /\ i.type \notin {"INST_LOAD_VAR", "INST_ASSIGN_VAR"}
    BY DEF Jumped
  <1>13. Built(c2) /\ Len(c2.block) = h /\ new = Len(c2.block) + 1
    BY <1>3, <1>11 DEF Jumped, h, new
  <1>14. Region(c2, r, S, D)
    <2>1. ASSUME NEW i \in New, (i.type = "INST_LOAD_VAR" /\ i.rId = r) \/ JumpsInto(i, S) PROVE blk \in S \cup {D}
      <3>1. JumpsInto(i, S) /\ i.uses = u
        BY <1>12, <2>1
      <3>2. h \in S
        <4>1. PICK s \in 1..Len(u) : u[s][2] \in S
          BY <3>1 DEF JumpsInto
        <4>2. s = 1
          OBVIOUS
        <4>3. u[1][2] = h
          BY DEF h, BlockValue
        <4> QED BY <4>1, <4>2, <4>3
      <3>3. IsVisible(ss, r)
        BY <1>4, <1>8, <3>2
      <3> QED BY <1>5, <1>7, <3>3
    <2> QED BY <1>11, <1>12, <2>1, RegionExtends
  <1>15. Region(d, r, T, D)
    BY <1>4, <1>13, <1>14, RegionGrows
  <1> QED BY <1>10, <1>15, RegionFound

\* The end of an if: the branch and the jump stay in the region, or outside it.
LEMMA RegionsEndIf ==
  ASSUME NEW c, Built(c), NEW gs \in Seq(Frame), NEW f \in Frame, f.kind = "IF", NEW blk, NEW n,
         CallStack(Cons(f, gs), blk, Len(c.block)),
         NEW ms \in Seq(Scope), Len(ms) = Len(gs), NEW map \in Scope,
         RegionsOpen(c, Cons(f, gs), Cons(map, ms), blk, n),
         NEW c1, Grown(c, c1), NEW u, Len(u) = 3, u[1] = BlockValue(f.bblock), u[2] = BlockValue(Len(c.block) + 1),
         u[3] \in Operands,
         NEW c2, Jumped(c1, c2, f.oldBlock, "INST_JUMP_COND", u),
         NEW w, Len(w) = 1, w[1] = BlockValue(Len(c.block) + 1), NEW d, Jumped(c2, d, blk, "INST_JUMP", w)
  PROVE  RegionsOpen(d, gs, ms, Len(c.block) + 1, n)
  <1>1. SUFFICES ASSUME NEW r \in 0..(n - 1) PROVE HasRegion(d, gs, ms, Len(c.block) + 1, r)
    BY DEF RegionsOpen
  <1>2. PICK R, D : Region(c, r, R, D) /\ Open(Cons(f, gs), Cons(map, ms), blk, r, R, D)
    BY DEF RegionsOpen, HasRegion
  <1> DEFINE e == Len(c.block) + 1
             S == IF IsVisible(ms, r) THEN R \cup {e} ELSE R
  <1>3. /\ CallStack(gs, f.oldBlock, Len(c.block)) /\ InOrder(f, Len(c.block)) /\ blk \in 1..Len(c.block)
        /\ Len(c.block) \in Nat
    BY CallPopped
  <1>4. /\ f.bblock \in 1..Len(c.block) /\ f.oldBlock \in 1..Len(c.block)
    BY <1>3 DEF InOrder
  <1>5. /\ S = R \/ S = R \cup {e}
        /\ R \subseteq S /\ S \cap 1..Len(c.block) \subseteq R /\ e \notin R
        /\ IsVisible(ms, r) => e \in S
        /\ ~IsVisible(ms, r) => e \notin S
    BY <1>2, <1>3 DEF Region
  <1> HIDE DEF S
  <1>6. /\ IsVisible(ms, r) => blk \in S \cup {D} /\ f.oldBlock \in S \cup {D}
        /\ f.bblock \in S => IsVisible(ms, r)
        /\ \A x, X : /\ R \subseteq X
                     /\ \A m \in 1..Len(gs) : Outside(gs[m], R) => Outside(gs[m], X)
                     /\ IsVisible(ms, r) => x \in X
                     => Open(gs, ms, x, r, X, D)
    <2>1. /\ IsVisible(ms, r) => blk \in R \cup {D} /\ Inside(f, R, D)
          /\ ~IsVisible(ms, r) => Outside(f, R)
          /\ \A x, X : /\ R \subseteq X
                       /\ \A m \in 1..Len(gs) : Outside(gs[m], R) => Outside(gs[m], X)
                       /\ IsVisible(ms, r) => x \in X
                       => Open(gs, ms, x, r, X, D)
      BY <1>2, OpenPopped, ZenonT(40)
    <2> QED BY <1>4, <1>5, <2>1 DEF Inside, Outside
  <1>7. Open(gs, ms, e, r, S, D)
    <2>1. \A m \in 1..Len(gs) : Outside(gs[m], R) => Outside(gs[m], S)
      BY <1>3, <1>5, OutsideGrows
    <2> HIDE DEF e
    <2> QED BY <1>5, <1>6, <2>1
  <1>8. Region(c1, r, S, D) /\ Built(c1) /\ Len(c1.block) = e
    <2>1. Region(c1, r, S, D)
      BY <1>2, <1>5, RegionGrows
    <2> QED BY <2>1 DEF Grown
  <1>9. PICK New : /\ Extends(c1, c2, f.oldBlock, New)
                   /\ \A i \in New : IsJump(i) /\ i.uses = u /\ i.type \notin {"INST_LOAD_VAR", "INST_ASSIGN_VAR"}
    BY DEF Jumped
  <1>10. PICK More : /\ Extends(c2, d, blk, More)
                     /\ \A i \in More : IsJump(i) /\ i.uses = w /\ i.type \notin {"INST_LOAD_VAR", "INST_ASSIGN_VAR"}
    BY DEF Jumped
  <1>11. Built(c2) /\ f.oldBlock \in 1..Len(c1.block) /\ blk \in 1..Len(c2.block)
    BY <1>3, <1>4, <1>8 DEF Jumped
  <1>12. Region(c2, r, S, D)
    <2>1. ASSUME NEW i \in New, (i.type = "INST_LOAD_VAR" /\ i.rId = r) \/ JumpsInto(i, S) PROVE f.oldBlock \in S \cup {D}
      <3>1. JumpsInto(i, S) /\ i.uses = u
        BY <1>9, <2>1
      <3>2. PICK s \in 1..Len(u) : u[s][1] = "V_BLOCK" /\ u[s][2] \in S
        BY <3>1 DEF JumpsInto
      <3>3. (s = 1 \/ s = 2 \/ s = 3) /\ s # 3
        BY <3>2, ValuesAre
      <3>4. u[1][2] = f.bblock /\ u[2][2] = e
        BY DEF BlockValue
      <3>5. f.bblock \in S \/ e \in S
        BY <3>2, <3>3, <3>4
      <3> QED BY <1>5, <1>6, <3>5
    <2> QED BY <1>8, <1>9, <1>11, <2>1, RegionExtends
  <1>13. Region(d, r, S, D)
    <2>1. ASSUME NEW i \in More, (i.type = "INST_LOAD_VAR" /\ i.rId = r) \/ JumpsInto(i, S) PROVE blk \in S \cup {D}
      <3>1. JumpsInto(i, S) /\ i.uses = w
        BY <1>10, <2>1
      <3>2. e \in S
        <4>1. PICK s \in 1..Len(w) : w[s][2] \in S
          BY <3>1 DEF JumpsInto
        <4>2. s = 1
          OBVIOUS
        <4>3. w[1][2] = e
          BY DEF e, BlockValue
        <4> QED BY <4>1, <4>2, <4>3
      <3> QED BY <1>5, <1>6, <3>2
    <2> QED BY <1>10, <1>11, <1>12, <2>1, RegionExtends
  <1> QED BY <1>7, <1>13, RegionFound

\* What a jump and a branch jump into.
LEMMA JumpsIntoTargets ==
  ASSUME NEW i, NEW R, JumpsInto(i, R)
  PROVE  /\ \A t : Len(i.uses) = 1 /\ i.uses[1] = BlockValue(t) => t \in R
         /\ \A t, e : /\ Len(i.uses) = 3 /\ i.uses[1] = BlockValue(t) /\ i.uses[2] = BlockValue(e)
                      /\ i.uses[3] \in Operands
                      => t \in R \/ e \in R
  <1>1. PICK s \in 1..Len(i.uses) : i.uses[s][1] = "V_BLOCK" /\ i.uses[s][2] \in R
    BY DEF JumpsInto
  <1>2. ASSUME NEW t, Len(i.uses) = 1, i.uses[1] = BlockValue(t) PROVE t \in R
    <2>1. s = 1
      BY <1>2
    <2> QED BY <1>1, <1>2, <2>1 DEF BlockValue
  <1>3. ASSUME NEW t, NEW e, Len(i.uses) = 3, i.uses[1] = BlockValue(t), i.uses[2] = BlockValue(e), i.uses[3] \in Operands
        PROVE  t \in R \/ e \in R
    <2>1. s = 1 \/ s = 2 \/ s = 3
      BY <1>3
    <2>2. s # 3
      BY <1>1, <1>3, ValuesAre
    <2>3. i.uses[1][2] = t /\ i.uses[2][2] = e
      BY <1>3 DEF BlockValue
    <2> QED BY <1>1, <2>1, <2>2, <2>3
  <1> QED BY <1>2, <1>3

\* The end of a while: the head and the body are in the same regions.
LEMMA RegionsEndWhile ==
  ASSUME NEW c, Built(c), NEW gs \in Seq(Frame), NEW f \in Frame, f.kind = "WHILE", NEW blk, NEW n,
         CallStack(Cons(f, gs), blk, Len(c.block)),
         NEW ms \in Seq(Scope), Len(ms) = Len(gs), NEW map \in Scope,
         RegionsOpen(c, Cons(f, gs), Cons(map, ms), blk, n),
         NEW w, Len(w) = 1, w[1] = BlockValue(f.head),
         NEW c1, Jumped(c, c1, f.bblock, "INST_JUMP", w), NEW c2, Grown(c1, c2),
         NEW c3, Extends(c2, c3, f.head, Loaded(ms)),
         NEW u, Len(u) = 3, u[1] = BlockValue(f.bblock), u[2] = BlockValue(Len(c.block) + 1), u[3] \in Operands,
         NEW d, Jumped(c3, d, f.head, "INST_JUMP_COND", u)
  PROVE  RegionsOpen(d, gs, ms, Len(c.block) + 1, n)
  <1>1. SUFFICES ASSUME NEW r \in 0..(n - 1) PROVE HasRegion(d, gs, ms, Len(c.block) + 1, r)
    BY DEF RegionsOpen
  <1>2. PICK R, D : Region(c, r, R, D) /\ Open(Cons(f, gs), Cons(map, ms), blk, r, R, D)
    BY DEF RegionsOpen, HasRegion
  <1> DEFINE e == Len(c.block) + 1
             S == IF IsVisible(ms, r) THEN R \cup {e} ELSE R
  <1>3. /\ CallStack(gs, f.oldBlock, Len(c.block)) /\ InOrder(f, Len(c.block)) /\ blk \in 1..Len(c.block)
        /\ Len(c.block) \in Nat
    BY CallPopped
  <1>4. f.bblock \in 1..Len(c.block) /\ f.head \in 1..Len(c.block)
    BY <1>3 DEF InOrder
  <1>5. /\ S = R \/ S = R \cup {e}
        /\ R \subseteq S /\ S \cap 1..Len(c.block) \subseteq R /\ e \notin R
        /\ IsVisible(ms, r) => e \in S
        /\ ~IsVisible(ms, r) => e \notin S
    BY <1>2, <1>3 DEF Region
  <1> HIDE DEF S
  <1>6. /\ IsVisible(ms, r) => f.head \in R /\ f.bblock \in R
        /\ f.head \in R => IsVisible(ms, r)
        /\ f.bblock \in S => IsVisible(ms, r)
        /\ \A x, X : /\ R \subseteq X
                     /\ \A m \in 1..Len(gs) : Outside(gs[m], R) => Outside(gs[m], X)
                     /\ IsVisible(ms, r) => x \in X
                     => Open(gs, ms, x, r, X, D)
    <2>1. /\ IsVisible(ms, r) => blk \in R \cup {D} /\ Inside(f, R, D)
          /\ ~IsVisible(ms, r) => Outside(f, R)
          /\ \A x, X : /\ R \subseteq X
                       /\ \A m \in 1..Len(gs) : Outside(gs[m], R) => Outside(gs[m], X)
                       /\ IsVisible(ms, r) => x \in X
                       => Open(gs, ms, x, r, X, D)
      BY <1>2, OpenPopped, SMTT(30)
    <2> QED BY <1>4, <1>5, <2>1 DEF Inside, Outside
  <1>7. Open(gs, ms, e, r, S, D)
    <2>1. \A m \in 1..Len(gs) : Outside(gs[m], R) => Outside(gs[m], S)
      BY <1>3, <1>5, OutsideGrows
    <2> HIDE DEF e
    <2> QED BY <1>5, <1>6, <2>1
  <1>8. PICK New : /\ Extends(c, c1, f.bblock, New)
                   /\ \A i \in New : IsJump(i) /\ i.uses = w /\ i.type \notin {"INST_LOAD_VAR", "INST_ASSIGN_VAR"}
    BY DEF Jumped
  <1>9. Region(c1, r, R, D)
    <2>1. ASSUME NEW i \in New, (i.type = "INST_LOAD_VAR" /\ i.rId = r) \/ JumpsInto(i, R) PROVE f.bblock \in R \cup {D}
      <3>1. JumpsInto(i, R) /\ i.uses = w
        BY <1>8, <2>1
      <3>2. f.head \in R
        BY <3>1, JumpsIntoTargets
      <3> QED BY <1>6, <3>2
    <2> QED BY <1>2, <1>4, <1>8, <2>1, RegionExtends
  <1>10. Built(c1) /\ Len(c1.block) = Len(c.block)
    BY DEF Jumped
  <1>11. Region(c2, r, S, D) /\ Built(c2) /\ Len(c2.block) = e
    <2>1. Region(c2, r, S, D)
      BY <1>5, <1>9, <1>10, RegionGrows
    <2> QED BY <1>10, <2>1 DEF Grown
  <1>12. f.head \in 1..Len(c2.block)
    BY <1>3, <1>4, <1>11
  <1>13. Region(c3, r, S, D) /\ Built(c3) /\ f.head \in 1..Len(c3.block)
    <2>1. ASSUME NEW i \in Loaded(ms), (i.type = "INST_LOAD_VAR" /\ i.rId = r) \/ JumpsInto(i, S) PROVE f.head \in S \cup {D}
      <3>1. i.type = "INST_LOAD_VAR" /\ i.rId = r /\ IsVisible(ms, r)
        BY <2>1 DEF Loaded, JumpsInto, IsJump
      <3> QED BY <1>5, <1>6, <3>1
    <2>2. Region(c3, r, S, D)
      BY <1>11, <1>12, <2>1, RegionExtends
    <2> QED BY <1>12, <2>2 DEF Extends
  <1>14. PICK More : /\ Extends(c3, d, f.head, More)
                     /\ \A i \in More : IsJump(i) /\ i.uses = u /\ i.type \notin {"INST_LOAD_VAR", "INST_ASSIGN_VAR"}
    BY DEF Jumped
  <1>15. Region(d, r, S, D)
    <2>1. ASSUME NEW i \in More, (i.type = "INST_LOAD_VAR" /\ i.rId = r) \/ JumpsInto(i, S) PROVE f.head \in S \cup {D}
      <3>1. JumpsInto(i, S) /\ i.uses = u
        BY <1>14, <2>1
      <3>2. f.bblock \in S \/ e \in S
        BY <3>1, JumpsIntoTargets
      <3> QED BY <1>5, <1>6, <3>2
    <2> QED BY <1>13, <1>14, <2>1, RegionExtends
  <1> QED BY <1>7, <1>15, RegionFound

\* A declaration: the new register is assigned in this block, and no block is
\* in its region yet.
LEMMA RegionDeclared ==
  ASSUME NEW c, Built(c), NEW n \in Nat, RegsKnown(c, n), NEW blk \in 1..Len(c.block),
         NEW v, NEW maps, Extends(c, v, blk, Loaded(maps)), NEW d, NEW u, Adds(v, d, blk, "INST_ASSIGN_VAR", n, u)
  PROVE  Region(d, n, {}, blk)
  <1>1. /\ Built(v) /\ Built(d) /\ Len(v.block) = Len(c.block) /\ Len(d.block) = Len(c.block)
        /\ Len(d.inst) = Len(v.inst) + 1 /\ Len(c.inst) <= Len(v.inst)
        /\ blk \in 1..Len(d.block) /\ blk \in 1..Len(v.block)
    BY DEF Extends, Adds
  <1>2. Len(c.inst) \in Nat /\ Len(v.inst) \in Nat /\ Len(d.inst) \in Nat /\ Len(v.block[blk]) \in Nat
    BY <1>1, BuiltLens
  <1>3. ASSUME NEW a \in 1..Len(d.inst), Assigns(d, a, n) PROVE a = Len(d.inst)
    <2>1. SUFFICES ASSUME a # Len(d.inst) PROVE FALSE
      OBVIOUS
    <2>2. a \in 1..Len(v.inst) /\ d.inst[a] = v.inst[a]
      BY <1>1, <1>2, <2>1, SMTT(30) DEF Adds, Extends
    <2>3. CASE a \in 1..Len(c.inst)
      <3>1. v.inst[a] = c.inst[a]
        BY <2>3 DEF Extends
      <3>2. n \in 0..(n - 1)
        BY <1>3, <2>2, <2>3, <3>1 DEF Assigns, RegsKnown
      <3> QED BY <3>2
    <2>4. CASE a \notin 1..Len(c.inst)
      <3>1. a \in (Len(c.inst) + 1)..Len(v.inst)
        BY <1>2, <2>2, <2>4
      <3>2. v.inst[a] \in Loaded(maps)
        BY <3>1 DEF Extends
      <3> QED BY <1>3, <2>2, <3>2 DEF Loaded, Assigns
    <2> QED BY <2>3, <2>4
  <1>4. d.inst[Len(d.inst)].type = "INST_ASSIGN_VAR" /\ d.inst[Len(d.inst)].rId = n
    BY <1>1 DEF Adds
  <1>5. \E k \in 1..Len(d.block[blk]) : Assigns(d, d.block[blk][k], n)
    <2>1. Len(v.block[blk]) + 1 \in 1..Len(d.block[blk]) /\ d.block[blk][Len(v.block[blk]) + 1] = Len(d.inst)
      BY <1>1, <1>2 DEF Adds
    <2> QED BY <1>4, <2>1 DEF Assigns
  <1>6. LoadsSafe(d, n, {})
    <2>1. SUFFICES ASSUME NEW b \in 1..Len(d.block), NEW k \in 1..Len(d.block[b]), At(d, b, k).type = "INST_LOAD_VAR",
                          NEW a \in 1..Len(d.inst), Assigns(d, a, n)
                   PROVE  d.block[b][k] < a
      BY DEF LoadsSafe, LoadIsSafe
    <2>2. a = Len(d.inst)
      BY <1>3, <2>1
    <2>3. d.block[b][k] \in 1..Len(d.inst)
      BY <1>1 DEF Built
    <2>4. d.block[b][k] # Len(d.inst)
      BY <1>4, <2>1 DEF At
    <2> QED BY <1>2, <2>2, <2>3, <2>4
  <1>7. EnteredFrom(d, {}, blk)
    BY DEF EnteredFrom, JumpsInto
  <1> QED BY <1>1, <1>5, <1>6, <1>7 DEF Region

\* _createReg: the block that declares register n starts a region for it, and the
\* regions of the earlier registers stay.
LEMMA RegionsDeclare ==
  ASSUME NEW c, Built(c), NEW fs, NEW blk, CallStack(fs, blk, Len(c.block)), NEW n \in Nat, RegsKnown(c, n),
         NEW top \in Scope, NEW ms \in Seq(Scope), Scoping(Cons(top, ms), n), RegionsOpen(c, fs, Cons(top, ms), blk, n),
         NEW map \in Scope, Visible(map) = Visible(top) \cup {n},
         NEW v, Extends(c, v, blk, Loaded(Cons(map, ms))), NEW d, NEW u, Adds(v, d, blk, "INST_ASSIGN_VAR", n, u)
  PROVE  RegionsOpen(d, fs, Cons(map, ms), blk, n + 1)
  <1> DEFINE ss == Cons(top, ms)
             ts == Cons(map, ms)
  <1>1. ss = Cons(top, ms) /\ ts = Cons(map, ms)
    OBVIOUS
  <1>2. Scoping(ss, n) /\ RegionsOpen(c, fs, ss, blk, n) /\ Extends(c, v, blk, Loaded(ts))
    OBVIOUS
  <1> SUFFICES RegionsOpen(d, fs, ts, blk, n + 1)
    OBVIOUS
  <1> HIDE DEF ss, ts
  <1>3. /\ Len(ss) = Len(ts) /\ Len(ms) \in Nat /\ Len(ts) = Len(ms) + 1 /\ 1 \in 1..Len(ts) /\ ts[1] = map /\ ss[1] = top
        /\ \A k \in 1..Len(ts) : k = 1 \/ (k - 1 \in 1..Len(ms) /\ ts[k] = ms[k - 1])
        /\ \A k \in 1..Len(ss) : k = 1 \/ (k - 1 \in 1..Len(ms) /\ ss[k] = ms[k - 1])
    <2>1. /\ Cons(top, ms) \in Seq(Scope) /\ Len(Cons(top, ms)) = Len(ms) + 1 /\ Cons(top, ms)[1] = top
          /\ \A k \in 1..Len(ms) : k + 1 \in 1..Len(Cons(top, ms)) /\ Cons(top, ms)[k + 1] = ms[k]
          /\ \A k \in 1..Len(Cons(top, ms)) : k = 1 \/ (k - 1 \in 1..Len(ms) /\ Cons(top, ms)[k] = ms[k - 1])
          /\ Head(Cons(top, ms)) = top /\ Tail(Cons(top, ms)) = ms
      BY Consed, Zenon
    <2>2. /\ Cons(map, ms) \in Seq(Scope) /\ Len(Cons(map, ms)) = Len(ms) + 1 /\ Cons(map, ms)[1] = map
          /\ \A k \in 1..Len(ms) : k + 1 \in 1..Len(Cons(map, ms)) /\ Cons(map, ms)[k + 1] = ms[k]
          /\ \A k \in 1..Len(Cons(map, ms)) : k = 1 \/ (k - 1 \in 1..Len(ms) /\ Cons(map, ms)[k] = ms[k - 1])
          /\ Head(Cons(map, ms)) = map /\ Tail(Cons(map, ms)) = ms
      BY Consed, Zenon
    <2>3. Len(ms) \in Nat
      OBVIOUS
    <2> QED BY <2>1, <2>2, <2>3 DEF ss, ts
  <1>4. \A k \in 1..Len(ts) : k # 1 => ts[k] = ss[k]
    BY <1>3
  <1>5. \A k \in 1..Len(ts) : \A r \in 0..(n - 1) : r \in Visible(ts[k]) <=> r \in Visible(ss[k])
    BY <1>3, <1>4
  <1>6. blk \in 1..Len(c.block) /\ fs \in Seq(Frame)
    BY CallsBelow
  <1>7. SUFFICES ASSUME NEW r \in 0..((n + 1) - 1) PROVE HasRegion(d, fs, ts, blk, r)
    BY DEF RegionsOpen
  <1>8. CASE r \in 0..(n - 1)
    <2>1. PICK R, D : Region(c, r, R, D) /\ Open(fs, ss, blk, r, R, D)
      BY <1>2, <1>8 DEF RegionsOpen, HasRegion
    <2>2. Open(fs, ts, blk, r, R, D)
      <3>1. \A k \in 1..Len(ts) : r \in Visible(ts[k]) <=> r \in Visible(ss[k])
        BY <1>5, <1>8
      <3> QED BY <1>3, <2>1, <3>1 DEF Open
    <2>3. IsVisible(ts, r) => blk \in R \cup {D}
      BY <2>2 DEF IsVisible, Open
    <2>4. Region(v, r, R, D)
      <3>1. ASSUME NEW i \in Loaded(ts), (i.type = "INST_LOAD_VAR" /\ i.rId = r) \/ JumpsInto(i, R) PROVE blk \in R \cup {D}
        BY <2>3, <3>1 DEF Loaded, JumpsInto, IsJump
      <3> QED BY <1>2, <1>6, <2>1, <3>1, RegionExtends
    <2>5. Built(v) /\ blk \in 1..Len(v.block)
      BY <1>2, <1>6 DEF Extends
    <2>6. Region(d, r, R, D)
      <3>1. Extends(v, d, blk, {d.inst[Len(v.inst) + 1]}) /\ d.inst[Len(v.inst) + 1].type = "INST_ASSIGN_VAR"
        BY DEF Adds
      <3>2. \A i \in {d.inst[Len(v.inst) + 1]} : (i.type = "INST_LOAD_VAR" /\ i.rId = r) \/ JumpsInto(i, R) => blk \in R \cup {D}
        BY <3>1 DEF JumpsInto, IsJump
      <3> QED BY <2>4, <2>5, <3>1, <3>2, RegionExtends
    <2> QED BY <2>2, <2>6, RegionFound
  <1>9. CASE r \notin 0..(n - 1)
    <2>1. r = n
      BY <1>9
    <2>2. Region(d, n, {}, blk)
      BY <1>2, <1>6, RegionDeclared
    <2>3. \A k \in 1..Len(ts) : n \in Visible(ts[k]) => k = 1
      <3>1. SUFFICES ASSUME NEW k \in 1..Len(ts), n \in Visible(ts[k]), k # 1 PROVE FALSE
        OBVIOUS
      <3>2. n \in Visible(ss[k]) /\ k \in 1..Len(ss)
        BY <1>3, <1>4, <3>1
      <3> QED BY <1>2, <3>2 DEF Scoping
    <2>4. Open(fs, ts, blk, n, {}, blk)
      BY <2>3 DEF Open, Outside
    <2> QED BY <2>1, <2>2, <2>4, RegionFound
  <1> QED BY <1>8, <1>9

-----------------------------------------------------------------------------
\* The jumps of a context, and how the operations change them.

NamesBlock(i, t) == \E s \in 1..Len(i.uses) : i.uses[s] = BlockValue(t)

\* A jump names the block t.
LEMMA JumpsToIs ==
  ASSUME NEW c, NEW x, NEW t
  PROVE  JumpsTo(c, x, t) <=> \E k \in 1..Len(c.block[x]) : JumpAt(c, x, k) /\ NamesBlock(At(c, x, k), t)
  BY DEF JumpsTo, NamesBlock

\* d has the jumps of c, and its instructions in front.
Kept(c, d) ==
    /\ Built(c) /\ Built(d) /\ Len(c.block) <= Len(d.block) /\ Len(c.inst) <= Len(d.inst)
    /\ \A i \in 1..Len(c.inst) : d.inst[i] = c.inst[i]
    /\ \A x \in 1..Len(c.block) : \A k \in 1..Len(c.block[x]) : k \in 1..Len(d.block[x]) /\ At(d, x, k) = At(c, x, k)
    /\ \A x \in 1..Len(d.block) : \A k \in 1..Len(d.block[x]) :
          JumpAt(d, x, k) => x \in 1..Len(c.block) /\ k \in 1..Len(c.block[x])

\* d has one more jump, the last instruction of block b, to the blocks in X.
Added(c, d, b, X) ==
    /\ Built(c) /\ Built(d) /\ Len(d.block) = Len(c.block) /\ b \in 1..Len(c.block)
    /\ Len(d.block[b]) = Len(c.block[b]) + 1
    /\ Len(d.inst) = Len(c.inst) + 1 /\ d.block[b][Len(c.block[b]) + 1] = Len(c.inst) + 1
    /\ \A i \in 1..Len(c.inst) : d.inst[i] = c.inst[i]
    /\ \A x \in 1..Len(c.block) : \A k \in 1..Len(c.block[x]) : k \in 1..Len(d.block[x]) /\ At(d, x, k) = At(c, x, k)
    /\ \A x \in 1..Len(c.block) : \A k \in 1..Len(d.block[x]) :
          k \in 1..Len(c.block[x]) \/ (x = b /\ k = Len(c.block[b]) + 1)
    /\ JumpAt(d, b, Len(c.block[b]) + 1)
    /\ \A t \in Nat : NamesBlock(At(d, b, Len(c.block[b]) + 1), t) <=> t \in X

\* Instructions that are not jumps.
LEMMA ExtendsKept ==
  ASSUME NEW c, Built(c), NEW b \in 1..Len(c.block), NEW d, NEW New, Extends(c, d, b, New), \A i \in New : ~IsJump(i)
  PROVE  Kept(c, d)
  <1>1. /\ Built(d) /\ Len(d.block) = Len(c.block) /\ Len(c.inst) <= Len(d.inst) /\ Len(c.block) \in Nat
        /\ \A i \in 1..Len(c.inst) : d.inst[i] = c.inst[i]
    BY BuiltLens DEF Extends
  <1>2. ASSUME NEW x \in 1..Len(c.block), NEW k \in 1..Len(c.block[x])
        PROVE  k \in 1..Len(d.block[x]) /\ At(d, x, k) = At(c, x, k)
    BY ExtendsKeeps, Zenon
  <1>3. ASSUME NEW x \in 1..Len(d.block), NEW k \in 1..Len(d.block[x]), JumpAt(d, x, k)
        PROVE  x \in 1..Len(c.block) /\ k \in 1..Len(c.block[x])
    <2>1. \/ /\ k \in 1..Len(c.block[x]) /\ d.block[x][k] = c.block[x][k] /\ At(d, x, k) = At(c, x, k)
             /\ c.block[x][k] \in 1..Len(c.inst)
          \/ /\ x = b /\ k \in (Len(c.block[b]) + 1)..Len(d.block[b])
             /\ d.block[x][k] \in (Len(c.inst) + 1)..Len(d.inst) /\ At(d, x, k) \in New
      BY ExtendsAt, Zenon
    <2> QED BY <1>1, <1>3, <2>1 DEF JumpAt
  <1> QED BY <1>1, <1>2, <1>3 DEF Kept

\* A block without instructions.
LEMMA GrownKept ==
  ASSUME NEW c, Built(c), NEW d, Grown(c, d)
  PROVE  Kept(c, d)
  <1>1. /\ Built(d) /\ Len(d.block) = Len(c.block) + 1 /\ Len(c.block) \in Nat /\ d.inst = c.inst /\ Len(c.inst) \in Nat
    BY BuiltLens DEF Grown
  <1>2. \A y \in 1..Len(c.block) :
           /\ d.block[y] = c.block[y] /\ Len(c.block[y]) \in Nat /\ y # Len(c.block) + 1 /\ y \in 1..Len(d.block)
           /\ \A m \in 1..Len(c.block[y]) : At(d, y, m) = At(c, y, m)
    BY GrownKeeps, Zenon
  <1>3. ASSUME NEW x \in 1..Len(d.block), NEW k \in 1..Len(d.block[x]) PROVE x \in 1..Len(c.block)
    <2>1. x # Len(c.block) + 1
      BY <1>3, GrownAt
    <2> QED BY <1>1, <2>1
  <1> QED BY <1>1, <1>2, <1>3 DEF Kept

\* A jump at the end of a block.
LEMMA JumpedAdded ==
  ASSUME NEW c, Built(c), NEW b, NEW d, NEW type \in {"INST_JUMP", "INST_JUMP_COND"}, NEW u, Jumped(c, d, b, type, u),
         NEW X, \A t \in Nat : (\E s \in 1..Len(u) : u[s] = BlockValue(t)) <=> t \in X
  PROVE  Added(c, d, b, X)
  <1> DEFINE m == Len(c.block[b]) + 1
  <1>1. /\ Built(d) /\ Len(d.block) = Len(c.block) /\ b \in 1..Len(c.block) /\ Len(d.block[b]) = m
        /\ Len(d.inst) = Len(c.inst) + 1 /\ d.block[b][m] = Len(c.inst) + 1
        /\ At(d, b, m).type = type /\ At(d, b, m).uses = u /\ Len(c.block[b]) \in Nat
    BY DEF Jumped
  <1>2. PICK New : Extends(c, d, b, New)
    BY DEF Jumped
  <1>3. \A i \in 1..Len(c.inst) : d.inst[i] = c.inst[i]
    BY <1>2 DEF Extends
  <1>4. ASSUME NEW x \in 1..Len(c.block), NEW k \in 1..Len(c.block[x])
        PROVE  k \in 1..Len(d.block[x]) /\ At(d, x, k) = At(c, x, k)
    BY <1>1, <1>2, ExtendsKeeps, Zenon
  <1>5. ASSUME NEW x \in 1..Len(c.block), NEW k \in 1..Len(d.block[x])
        PROVE  k \in 1..Len(c.block[x]) \/ (x = b /\ k = m)
    <2>1. x = b \/ d.block[x] = c.block[x]
      BY <1>2 DEF Extends
    <2> QED BY <1>1, <2>1
  <1>6. JumpAt(d, b, m)
    BY <1>1 DEF JumpAt, IsJump
  <1>7. \A t \in Nat : NamesBlock(At(d, b, m), t) <=> t \in X
    BY <1>1 DEF NamesBlock
  <1> QED BY <1>1, <1>3, <1>4, <1>5, <1>6, <1>7 DEF Added

\* The jumps of a context with the same jumps, and of one with another jump.
LEMMA KeptJumps ==
  ASSUME NEW c, NEW d, Kept(c, d), NEW x \in 1..Len(d.block), NEW t
  PROVE  JumpsTo(d, x, t) <=> x \in 1..Len(c.block) /\ JumpsTo(c, x, t)
  <1>1. ASSUME JumpsTo(d, x, t) PROVE x \in 1..Len(c.block) /\ JumpsTo(c, x, t)
    <2>1. PICK k \in 1..Len(d.block[x]) : JumpAt(d, x, k) /\ NamesBlock(At(d, x, k), t)
      BY <1>1, JumpsToIs
    <2>2. x \in 1..Len(c.block) /\ k \in 1..Len(c.block[x]) /\ At(d, x, k) = At(c, x, k)
      BY <2>1 DEF Kept
    <2> QED BY <2>1, <2>2, JumpsToIs DEF JumpAt
  <1>2. ASSUME x \in 1..Len(c.block), JumpsTo(c, x, t) PROVE JumpsTo(d, x, t)
    <2>1. PICK k \in 1..Len(c.block[x]) : JumpAt(c, x, k) /\ NamesBlock(At(c, x, k), t)
      BY <1>2, JumpsToIs
    <2>2. k \in 1..Len(d.block[x]) /\ At(d, x, k) = At(c, x, k)
      BY <1>2, <2>1 DEF Kept
    <2> QED BY <2>1, <2>2, JumpsToIs DEF JumpAt
  <1> QED BY <1>1, <1>2

\* A new jump adds its own targets to those of its block, and nothing else.
LEMMA AddedJumps ==
  ASSUME NEW c, NEW d, NEW b, NEW X, Added(c, d, b, X), NEW x \in 1..Len(d.block), NEW t \in Nat
  PROVE  JumpsTo(d, x, t) <=> JumpsTo(c, x, t) \/ (x = b /\ t \in X)
  <1> DEFINE m == Len(c.block[b]) + 1
  <1>0. x \in 1..Len(c.block) /\ m \in 1..Len(d.block[b])
    <2>1. x \in 1..Len(c.block) /\ b \in 1..Len(c.block) /\ Len(d.block[b]) = m /\ Built(c)
      BY DEF Added
    <2> QED BY <2>1, BuiltLens
  <1>1. ASSUME JumpsTo(d, x, t) PROVE JumpsTo(c, x, t) \/ (x = b /\ t \in X)
    <2>1. PICK k \in 1..Len(d.block[x]) : JumpAt(d, x, k) /\ NamesBlock(At(d, x, k), t)
      BY <1>1, JumpsToIs
    <2>2. CASE k \in 1..Len(c.block[x])
      <3>1. At(d, x, k) = At(c, x, k)
        BY <1>0, <2>2 DEF Added
      <3> QED BY <2>1, <2>2, <3>1, JumpsToIs DEF JumpAt
    <2>3. CASE x = b /\ k = m
      BY <2>1, <2>3 DEF Added
    <2> QED BY <1>0, <2>2, <2>3 DEF Added
  <1>2. ASSUME JumpsTo(c, x, t) PROVE JumpsTo(d, x, t)
    <2>1. PICK k \in 1..Len(c.block[x]) : JumpAt(c, x, k) /\ NamesBlock(At(c, x, k), t)
      BY <1>2, JumpsToIs
    <2>2. k \in 1..Len(d.block[x]) /\ At(d, x, k) = At(c, x, k)
      BY <1>0, <2>1 DEF Added
    <2> QED BY <2>1, <2>2, JumpsToIs DEF JumpAt
  <1>3. ASSUME x = b, t \in X PROVE JumpsTo(d, x, t)
    <2>1. JumpAt(d, b, m) /\ NamesBlock(At(d, b, m), t)
      BY <1>3 DEF Added
    <2> QED BY <1>0, <1>3, <2>1, JumpsToIs
  <1> QED BY <1>1, <1>2, <1>3

\* Every operand that is a block belongs to a jump to a block that exists.
LEMMA NamesAreJumps ==
  ASSUME NEW i, NEW n \in Nat, Shaped(i, n), NEW t \in Nat, NamesBlock(i, t)
  PROVE  IsJump(i) /\ t \in 1..n
  <1>1. PICK s \in 1..Len(i.uses) : i.uses[s] = BlockValue(t)
    BY DEF NamesBlock
  <1>2. i.uses[s] \in Operands \/ \E x \in 1..n : i.uses[s] = BlockValue(x)
    BY ShapedUse
  <1>3. i.uses[s] \notin Operands
    BY <1>1, ValuesAre
  <1>4. t \in 1..n
    BY <1>1, <1>2, <1>3, ValuesAre
  <1>5. IsJump(i)
    <2> DEFINE u == i.uses
    <2>1. \/ i.type \in {"INST_LOAD_VAR", "INST_RETURN"} /\ Len(u) = 0
          \/ i.type = "INST_ASSIGN_VAR" /\ Len(u) = 1 /\ u[1] \in Operands
          \/ i.type = "INST_BINARY" /\ Len(u) = 2 /\ u[1] \in Operands /\ u[2] \in Operands
          \/ IsJump(i)
      BY DEF Shaped, IsJump
    <2>2. s \in 1..Len(u) /\ u[s] \notin Operands
      BY <1>3
    <2> HIDE DEF u
    <2>3. Len(u) # 0
      BY <2>2
    <2>4. Len(u) = 1 => s = 1
      BY <2>2
    <2>5. Len(u) = 2 => s = 1 \/ s = 2
      BY <2>2
    <2> QED BY <2>1, <2>2, <2>3, <2>4, <2>5
  <1> QED BY <1>4, <1>5

\* Jumps go to blocks that exist.
LEMMA JumpsStayIn ==
  ASSUME NEW c, Built(c), NEW x \in 1..Len(c.block), NEW t \in Nat, JumpsTo(c, x, t)
  PROVE  t \in 1..Len(c.block)
  <1>1. PICK k \in 1..Len(c.block[x]) : JumpAt(c, x, k) /\ NamesBlock(At(c, x, k), t)
    BY JumpsToIs
  <1>2. c.block[x][k] \in 1..Len(c.inst)
    BY DEF Built
  <1>3. Shaped(At(c, x, k), Len(c.block)) /\ Len(c.block) \in Nat
    BY <1>2, BuiltLens DEF Built, At
  <1> QED BY <1>1, <1>3, NamesAreJumps

\* A block that no jump goes to is no operand at all.
LEMMA NoJumpNoName ==
  ASSUME NEW c, Built(c), NEW t \in Nat, \A x \in 1..Len(c.block) : ~JumpsTo(c, x, t)
  PROVE  \A i \in 1..Len(c.inst) : ~NamesBlock(c.inst[i], t)
  <1>1. SUFFICES ASSUME NEW i \in 1..Len(c.inst), NamesBlock(c.inst[i], t) PROVE FALSE
    OBVIOUS
  <1>2. IsJump(c.inst[i])
    <2>1. Shaped(c.inst[i], Len(c.block)) /\ Len(c.block) \in Nat
      BY BuiltLens DEF Built
    <2> QED BY <1>1, <2>1, NamesAreJumps
  <1>3. PICK x \in 1..Len(c.block) : \E k \in 1..Len(c.block[x]) : c.block[x][k] = i
    BY DEF Built, Linked
  <1>4. PICK k \in 1..Len(c.block[x]) : c.block[x][k] = i
    BY <1>3
  <1>5. JumpAt(c, x, k) /\ NamesBlock(At(c, x, k), t)
    BY <1>1, <1>2, <1>4 DEF JumpAt, At
  <1>6. JumpsTo(c, x, t)
    BY <1>5, JumpsToIs
  <1> QED BY <1>6

-----------------------------------------------------------------------------
\* The shape of the control flow.

\* No jump goes to the entry, or to a body before its statement ends; the jumps
\* of the blocks from a body on go to blocks behind it, all others in front of it.
Nest(c, bodies) ==
    \A x \in 1..Len(c.block) : \A t \in Nat : JumpsTo(c, x, t) =>
        t # 1 /\ \A b \in bodies : t # b /\ (x >= b <=> t > b)

LaterJump(c, x, k) == \E m \in 1..Len(c.block[x]) : m > k /\ JumpAt(c, x, m)

\* S are blocks that only jumps which another jump follows lead into.
Cut(c, U, S) ==
    /\ S \subseteq 1..Len(c.block) /\ \A x \in U : x \notin S
    /\ \A x \in S : \A t \in Nat : JumpsTo(c, x, t) => t \in S
    /\ \A x \in 1..Len(c.block) : x \notin S => \A k \in 1..Len(c.block[x]) : \A t \in Nat :
          JumpAt(c, x, k) /\ NamesBlock(At(c, x, k), t) => (t \in S <=> LaterJump(c, x, k))

\* The first instruction that names block b stands in block p.
EnteredFirst(c, p, b) ==
    \E i \in 1..Len(c.inst) : /\ c.inst[i].parent = p /\ NamesBlock(c.inst[i], b)
                              /\ \A j \in 1..(i - 1) : ~NamesBlock(c.inst[j], b)

\* The blocks from a to e are entered from block p only.
Enclosed(c, p, a, e) ==
    \A x \in 1..Len(c.block) : \A t \in Nat : JumpsTo(c, x, t) /\ a <= t /\ t <= e => x = p \/ (a <= x /\ x <= e)

\* p, the block that is the first to name b, is also the only way into the blocks
\* around b.
Guard(c, b, p, a, e) ==
    /\ p \in 1..Len(c.block) /\ a \in Nat /\ e \in Nat
    /\ p < a /\ a <= b /\ b <= e /\ e <= Len(c.block)
    /\ EnteredFirst(c, p, b)
    /\ Enclosed(c, p, a, e)

\* What adds no jump leaves the jumps nested: expressions, assignments and
\* block_new.
LEMMA NestKept ==
  ASSUME NEW c, NEW d, Kept(c, d), NEW bodies, Nest(c, bodies)
  PROVE  Nest(d, bodies)
  <1>1. ASSUME NEW x \in 1..Len(d.block), NEW t \in Nat, JumpsTo(d, x, t)
        PROVE  x \in 1..Len(c.block) /\ JumpsTo(c, x, t)
    BY <1>1, KeptJumps
  <1> QED BY <1>1 DEF Nest

\* A new jump keeps the nesting when it does not cross the start of a body that
\* create_statement has still to enter.
LEMMA NestAdded ==
  ASSUME NEW c, NEW d, NEW y, NEW X, Added(c, d, y, X), NEW bodies, Nest(c, bodies),
         \A t \in X : t # 1 /\ \A b \in bodies : t # b /\ (y >= b <=> t > b)
  PROVE  Nest(d, bodies)
  <1>1. ASSUME NEW x \in 1..Len(d.block), NEW t \in Nat, JumpsTo(d, x, t)
        PROVE  x \in 1..Len(c.block) /\ (JumpsTo(c, x, t) \/ (x = y /\ t \in X))
    <2>1. x \in 1..Len(c.block)
      BY DEF Added
    <2> QED BY <1>1, <2>1, AddedJumps
  <1> QED BY <1>1 DEF Nest

\* Nothing names the block that block_new is about to make, so it may become the
\* body of the next statement.
LEMMA NestMore ==
  ASSUME NEW c, Built(c), NEW bodies, Nest(c, bodies), NEW y \in Nat, y > Len(c.block)
  PROVE  Nest(c, bodies \cup {y})
  <1>1. Len(c.block) \in Nat
    BY BuiltLens
  <1>2. ASSUME NEW x \in 1..Len(c.block), NEW t \in Nat, JumpsTo(c, x, t)
        PROVE  t # y /\ (x >= y <=> t > y)
    <2>1. t \in 1..Len(c.block)
      BY <1>2, JumpsStayIn
    <2> QED BY <1>1, <2>1
  <1> QED BY <1>2 DEF Nest

\* A statement that ends takes its body out of those that nothing may jump to.
LEMMA NestFewer ==
  ASSUME NEW c, NEW bodies, Nest(c, bodies), NEW less, less \subseteq bodies
  PROVE  Nest(c, less)
  BY DEF Nest

\* What adds no jump leaves each jump of a block last or followed as it was.
LEMMA LaterKept ==
  ASSUME NEW c, NEW d, Kept(c, d), NEW x \in 1..Len(c.block), NEW k
  PROVE  LaterJump(d, x, k) <=> LaterJump(c, x, k)
  <1>1. x \in 1..Len(d.block)
    BY BuiltLens DEF Kept
  <1>2. ASSUME NEW m \in 1..Len(d.block[x]), JumpAt(d, x, m) PROVE m \in 1..Len(c.block[x]) /\ JumpAt(c, x, m)
    <2>1. m \in 1..Len(c.block[x])
      BY <1>1, <1>2 DEF Kept
    <2> QED BY <1>2, <2>1 DEF Kept, JumpAt
  <1>3. ASSUME NEW m \in 1..Len(c.block[x]), JumpAt(c, x, m) PROVE m \in 1..Len(d.block[x]) /\ JumpAt(d, x, m)
    BY <1>3 DEF Kept, JumpAt
  <1> QED BY <1>2, <1>3 DEF LaterJump

\* What adds no jump leads into no other block.
LEMMA CutKept ==
  ASSUME NEW c, NEW d, Kept(c, d), NEW U, NEW S, Cut(c, U, S)
  PROVE  Cut(d, U, S)
  <1>1. S \subseteq 1..Len(d.block) /\ S \subseteq 1..Len(c.block)
    BY BuiltLens DEF Kept, Cut
  <1>2. ASSUME NEW x \in S, NEW t \in Nat, JumpsTo(d, x, t) PROVE t \in S
    <2>1. JumpsTo(c, x, t)
      BY <1>1, <1>2, KeptJumps
    <2> QED BY <2>1 DEF Cut
  <1>3. ASSUME NEW x \in 1..Len(d.block), x \notin S, NEW k \in 1..Len(d.block[x]), NEW t \in Nat,
               JumpAt(d, x, k), NamesBlock(At(d, x, k), t)
        PROVE  t \in S <=> LaterJump(d, x, k)
    <2>1. x \in 1..Len(c.block) /\ k \in 1..Len(c.block[x])
      BY <1>3 DEF Kept
    <2>2. At(d, x, k) = At(c, x, k)
      BY <2>1 DEF Kept
    <2>3. t \in S <=> LaterJump(c, x, k)
      BY <1>3, <2>1, <2>2 DEF Cut, JumpAt
    <2> QED BY <2>1, <2>3, LaterKept
  <1> QED BY <1>1, <1>2, <1>3 DEF Cut

\* The first jump of an unfinished block leads out of S, and takes no jump of
\* another block out of the last place.
LEMMA CutAdded ==
  ASSUME NEW c, NEW d, NEW b, NEW X, Added(c, d, b, X), NEW U, NEW S, Cut(c, U, S), NoJump(c, b), b \in U,
         \A t \in X : t \notin S
  PROVE  Cut(d, U, S)
  <1> DEFINE m == Len(c.block[b]) + 1
  <1>1. /\ S \subseteq 1..Len(d.block) /\ S \subseteq 1..Len(c.block) /\ b \notin S /\ Len(d.block) = Len(c.block)
        /\ Len(d.block[b]) = m /\ m \in Nat /\ b \in 1..Len(c.block)
    <2>1. Built(c) /\ b \in 1..Len(c.block) /\ Len(d.block) = Len(c.block) /\ Len(d.block[b]) = m
      BY DEF Added
    <2>2. S \subseteq 1..Len(c.block) /\ b \notin S
      BY DEF Cut
    <2>3. m \in Nat
      BY <2>1, BuiltLens
    <2> HIDE DEF m
    <2> QED BY <2>1, <2>2, <2>3
  <1>2. ASSUME NEW x \in S, NEW t \in Nat, JumpsTo(d, x, t) PROVE t \in S
    <2>1. JumpsTo(c, x, t)
      BY <1>1, <1>2, AddedJumps
    <2> QED BY <2>1 DEF Cut
  <1>3. ASSUME NEW x \in 1..Len(d.block), x \notin S, NEW k \in 1..Len(d.block[x]), NEW t \in Nat,
               JumpAt(d, x, k), NamesBlock(At(d, x, k), t)
        PROVE  t \in S <=> LaterJump(d, x, k)
    <2>0. x \in 1..Len(c.block) /\ (k \in 1..Len(c.block[x]) \/ (x = b /\ k = m))
      BY <1>1 DEF Added
    <2>1. CASE x = b /\ k = m
      <3>1. t \notin S
        BY <1>3, <2>1 DEF Added
      <3>2. ~LaterJump(d, x, k)
        BY <1>1, <2>1 DEF LaterJump
      <3> QED BY <3>1, <3>2
    <2>2. CASE k \in 1..Len(c.block[x])
      <3>1. At(d, x, k) = At(c, x, k)
        BY <2>0, <2>2 DEF Added
      <3>2. x # b
        BY <1>3, <2>2, <3>1 DEF NoJump, JumpAt
      <3>3. t \in S <=> LaterJump(c, x, k)
        BY <1>3, <2>0, <2>2, <3>1 DEF Cut, JumpAt
      <3>4. ASSUME NEW j \in 1..Len(d.block[x]) PROVE j \in 1..Len(c.block[x]) /\ At(d, x, j) = At(c, x, j)
        BY <2>0, <3>2 DEF Added
      <3>5. \A j \in 1..Len(c.block[x]) : j \in 1..Len(d.block[x])
        BY <2>0 DEF Added
      <3>6. LaterJump(d, x, k) <=> LaterJump(c, x, k)
        BY <3>4, <3>5 DEF LaterJump, JumpAt
      <3> QED BY <3>3, <3>6
    <2> QED BY <2>0, <2>1, <2>2
  <1>4. \A x \in U : x \notin S
    BY DEF Cut
  <1> QED BY <1>1, <1>2, <1>3, <1>4 DEF Cut

\* The jump back at the end of the first block of a body cuts off what that
\* block led to.
LEMMA CutBack ==
  ASSUME NEW c, NEW d, NEW body, NEW head \in Nat, Added(c, d, body, {head}), NEW U, NEW S, Cut(c, U, S),
         body \in U, head \in U, NEW bodies, Nest(c, bodies), body \in bodies, head < body,
         NEW V, \A x \in V : x \in U /\ x <= body
  PROVE  Cut(d, V, S \cup (body + 1)..Len(c.block))
  <1> DEFINE m == Len(c.block[body]) + 1
             n == Len(c.block)
             T == S \cup (body + 1)..n
  <1>1. /\ S \subseteq 1..n /\ Len(d.block) = n /\ n \in Nat /\ body \in 1..n /\ Built(c)
        /\ Len(d.block[body]) = m /\ m \in Nat /\ body \notin S /\ head \notin S
    BY BuiltLens DEF Added, Cut
  <1>2. T \subseteq 1..Len(d.block) /\ \A x \in V : x \notin T
    <2>1. ASSUME NEW x \in V PROVE x \notin S /\ x \notin (body + 1)..n
      <3>1. x \in U /\ x <= body
        OBVIOUS
      <3>2. x \notin S
        BY <3>1 DEF Cut
      <3>3. ASSUME x \in (body + 1)..n PROVE FALSE
        BY <1>1, <3>1, <3>3
      <3> QED BY <3>2, <3>3
    <2>2. \A x \in T : x \in S \/ x \in (body + 1)..n
      OBVIOUS
    <2>3. (body + 1)..n \subseteq 1..n
      BY <1>1
    <2> HIDE DEF n, T
    <2> QED BY <1>1, <2>1, <2>2, <2>3
  <1>3. ASSUME NEW x \in 1..n, NEW t \in Nat, JumpsTo(c, x, t) PROVE t \in 1..n /\ t # body /\ (x >= body <=> t > body)
    <2>1. t \in 1..n
      BY <1>1, <1>3, JumpsStayIn
    <2> QED BY <1>3, <2>1 DEF Nest
  <1>4. ASSUME NEW x \in T, NEW t \in Nat, JumpsTo(d, x, t) PROVE t \in T
    <2>1. x # body /\ x \in 1..n
      BY <1>1
    <2>2. JumpsTo(c, x, t)
      BY <1>1, <1>4, <2>1, AddedJumps
    <2>3. CASE x \in S
      BY <2>2, <2>3 DEF Cut
    <2>4. CASE x \in (body + 1)..n
      BY <1>1, <1>3, <2>1, <2>2, <2>4
    <2> QED BY <2>3, <2>4
  <1>5. ASSUME NEW x \in 1..Len(d.block), x \notin T, NEW k \in 1..Len(d.block[x]), NEW t \in Nat,
               JumpAt(d, x, k), NamesBlock(At(d, x, k), t)
        PROVE  t \in T <=> LaterJump(d, x, k)
    <2>0. x \in 1..n /\ x \notin S /\ x <= body /\ (k \in 1..Len(c.block[x]) \/ (x = body /\ k = m))
      <3>1. x \in 1..n /\ x \notin S /\ x <= body
        BY <1>1, <1>5
      <3> QED BY <3>1 DEF Added
    <2>1. CASE x = body /\ k = m
      <3>1. t = head
        BY <1>5, <2>1 DEF Added
      <3>2. ~LaterJump(d, x, k)
        BY <1>1, <2>1 DEF LaterJump
      <3> QED BY <1>1, <3>1, <3>2
    <2>2. CASE k \in 1..Len(c.block[x])
      <3>1. At(d, x, k) = At(c, x, k)
        BY <2>0, <2>2 DEF Added
      <3>2. JumpsTo(c, x, t)
        BY <1>5, <2>0, <2>2, <3>1, JumpsToIs DEF JumpAt
      <3>3. t \in 1..n /\ t # body /\ (x >= body <=> t > body)
        BY <1>3, <2>0, <3>2
      <3>4. CASE x = body
        <4>1. t \in T
          <5>1. body \in Nat /\ n \in Nat
            BY <1>1
          <5>2. t > body /\ t <= n
            BY <3>3, <3>4, <5>1
          <5> HIDE DEF n
          <5>3. t \in (body + 1)..n
            BY <5>1, <5>2
          <5> QED BY <5>3
        <4>2. JumpAt(d, x, m) /\ m \in 1..Len(d.block[x]) /\ m > k
          <5>1. JumpAt(d, x, m)
            BY <3>4 DEF Added
          <5>2. Len(d.block[x]) = m /\ Len(c.block[x]) + 1 = m /\ m \in Nat /\ k <= Len(c.block[x])
            BY <1>1, <2>2, <3>4
          <5>3. Len(c.block[x]) \in Nat /\ x \in 1..Len(c.block)
            BY <1>1, <2>0, BuiltLens
          <5> HIDE DEF m
          <5>4. m \in 1..Len(d.block[x]) /\ m > k
            BY <2>2, <5>2, <5>3
          <5> QED BY <5>1, <5>4
        <4> QED BY <4>1, <4>2 DEF LaterJump
      <3>5. CASE x # body
        <4>1. t \in S <=> LaterJump(c, x, k)
          BY <1>5, <2>0, <2>2, <3>1 DEF Cut, JumpAt
        <4>2. t \in T <=> t \in S
          BY <1>1, <2>0, <3>3, <3>5
        <4>3. ASSUME NEW j \in 1..Len(d.block[x]) PROVE j \in 1..Len(c.block[x]) /\ At(d, x, j) = At(c, x, j)
          BY <2>0, <3>5 DEF Added
        <4>4. \A j \in 1..Len(c.block[x]) : j \in 1..Len(d.block[x])
          BY <2>0 DEF Added
        <4>5. LaterJump(d, x, k) <=> LaterJump(c, x, k)
          BY <4>3, <4>4 DEF LaterJump, JumpAt
        <4> QED BY <4>1, <4>2, <4>5
      <3> QED BY <3>4, <3>5
    <2> QED BY <2>0, <2>1, <2>2
  <1> HIDE DEF T
  <1>6. Cut(d, V, T)
    BY <1>2, <1>4, <1>5 DEF Cut
  <1> QED BY <1>6 DEF T

\* A block outside S may be under construction.
LEMMA CutFor ==
  ASSUME NEW c, NEW U, NEW S, Cut(c, U, S), NEW V, \A x \in V : x \notin S
  PROVE  Cut(c, V, S)
  BY DEF Cut

\* Instructions at the end change nothing about the first one that names a block.
LEMMA EnteredStays ==
  ASSUME NEW c, Built(c), NEW d, Len(c.inst) <= Len(d.inst), Len(d.inst) \in Nat,
         \A i \in 1..Len(c.inst) : d.inst[i] = c.inst[i],
         NEW p, NEW b, EnteredFirst(c, p, b)
  PROVE  EnteredFirst(d, p, b)
  <1>1. PICK i \in 1..Len(c.inst) : /\ c.inst[i].parent = p /\ NamesBlock(c.inst[i], b)
                                    /\ \A j \in 1..(i - 1) : ~NamesBlock(c.inst[j], b)
    BY DEF EnteredFirst
  <1>2. Len(c.inst) \in Nat
    BY BuiltLens
  <1>3. i \in 1..Len(d.inst) /\ d.inst[i] = c.inst[i]
    BY <1>2
  <1>4. ASSUME NEW j \in 1..(i - 1) PROVE ~NamesBlock(d.inst[j], b)
    <2>1. j \in 1..Len(c.inst)
      BY <1>2
    <2> QED BY <1>1, <2>1
  <1> QED BY <1>1, <1>3, <1>4 DEF EnteredFirst

\* What adds no jump leaves the block behind its first predecessor.
LEMMA GuardKept ==
  ASSUME NEW c, NEW d, Kept(c, d), NEW b, NEW p, NEW a, NEW e, Guard(c, b, p, a, e)
  PROVE  Guard(d, b, p, a, e)
  <1>1. /\ Built(c) /\ Built(d) /\ Len(c.block) <= Len(d.block) /\ Len(c.block) \in Nat /\ Len(d.block) \in Nat
        /\ Len(c.inst) <= Len(d.inst) /\ Len(d.inst) \in Nat /\ \A i \in 1..Len(c.inst) : d.inst[i] = c.inst[i]
    BY BuiltLens DEF Kept
  <1>2. /\ p \in 1..Len(c.block) /\ a \in Nat /\ e \in Nat /\ p < a /\ a <= b /\ b <= e /\ e <= Len(c.block)
        /\ EnteredFirst(c, p, b) /\ Enclosed(c, p, a, e)
    BY DEF Guard
  <1>3. EnteredFirst(d, p, b)
    BY <1>1, <1>2, EnteredStays
  <1>4. Enclosed(d, p, a, e)
    <2>1. ASSUME NEW x \in 1..Len(d.block), NEW t \in Nat, JumpsTo(d, x, t)
          PROVE  x \in 1..Len(c.block) /\ JumpsTo(c, x, t)
      BY <2>1, KeptJumps
    <2> QED BY <1>2, <2>1 DEF Enclosed
  <1> QED BY <1>1, <1>2, <1>3, <1>4 DEF Guard

\* A new jump leaves a block behind its first predecessor when it enters the
\* blocks around it, if at all, from there or from among them.
LEMMA GuardAdded ==
  ASSUME NEW c, NEW d, NEW y, NEW X, Added(c, d, y, X), NEW b, NEW p, NEW a, NEW e, Guard(c, b, p, a, e),
         \A t \in X : a <= t /\ t <= e => y = p \/ (a <= y /\ y <= e)
  PROVE  Guard(d, b, p, a, e)
  <1>1. /\ Built(c) /\ Built(d) /\ Len(c.block) = Len(d.block)
        /\ Len(c.inst) <= Len(d.inst) /\ Len(d.inst) \in Nat /\ \A i \in 1..Len(c.inst) : d.inst[i] = c.inst[i]
    <2>1. /\ Built(c) /\ Built(d) /\ Len(c.block) = Len(d.block) /\ Len(d.inst) = Len(c.inst) + 1
          /\ \A i \in 1..Len(c.inst) : d.inst[i] = c.inst[i]
      BY DEF Added
    <2>2. Len(c.inst) \in Nat
      BY <2>1, BuiltLens
    <2> QED BY <2>1, <2>2
  <1>2. /\ p \in 1..Len(c.block) /\ a \in Nat /\ e \in Nat /\ p < a /\ a <= b /\ b <= e /\ e <= Len(c.block)
        /\ EnteredFirst(c, p, b) /\ Enclosed(c, p, a, e)
    BY DEF Guard
  <1>3. EnteredFirst(d, p, b)
    BY <1>1, <1>2, EnteredStays
  <1>4. Enclosed(d, p, a, e)
    <2>1. ASSUME NEW x \in 1..Len(d.block), NEW t \in Nat, JumpsTo(d, x, t)
          PROVE  x \in 1..Len(c.block) /\ (JumpsTo(c, x, t) \/ (x = y /\ t \in X))
      BY <1>1, <2>1, AddedJumps
    <2> QED BY <1>2, <2>1 DEF Enclosed
  <1> QED BY <1>1, <1>2, <1>3, <1>4 DEF Guard

\* The jump is the first instruction that names a block it goes to.
LEMMA NewEntry ==
  ASSUME NEW c, NEW d, NEW y, NEW X, Added(c, d, y, X), NEW t \in Nat, t \in X, \A x \in 1..Len(c.block) : ~JumpsTo(c, x, t)
  PROVE  EnteredFirst(d, y, t)
  <1> DEFINE n == Len(c.inst) + 1
             m == Len(c.block[y]) + 1
  <1>1. /\ Built(c) /\ Built(d) /\ Len(d.inst) = n /\ n \in 1..Len(d.inst) /\ y \in 1..Len(d.block) /\ m \in 1..Len(d.block[y])
        /\ d.block[y][m] = n /\ NamesBlock(At(d, y, m), t) /\ Len(c.inst) \in Nat
        /\ \A i \in 1..Len(c.inst) : d.inst[i] = c.inst[i]
    <2>1. /\ Built(c) /\ Built(d) /\ Len(d.inst) = n /\ Len(d.block) = Len(c.block) /\ y \in 1..Len(c.block)
          /\ Len(d.block[y]) = m /\ d.block[y][m] = n /\ NamesBlock(At(d, y, m), t)
          /\ \A i \in 1..Len(c.inst) : d.inst[i] = c.inst[i]
      BY DEF Added
    <2>2. Len(c.inst) \in Nat /\ Len(c.block[y]) \in Nat
      BY <2>1, BuiltLens
    <2> QED BY <2>1, <2>2
  <1>2. NamesBlock(d.inst[n], t) /\ d.inst[n].parent = y
    <2>1. d.inst[d.block[y][m]].parent = y
      BY <1>1 DEF Built, Linked
    <2> QED BY <1>1, <2>1 DEF At
  <1>3. ASSUME NEW j \in 1..(n - 1) PROVE ~NamesBlock(d.inst[j], t)
    <2>1. j \in 1..Len(c.inst)
      BY <1>1
    <2>2. ~NamesBlock(c.inst[j], t)
      BY <1>1, <2>1, NoJumpNoName
    <2> QED BY <1>1, <2>1, <2>2
  <1> HIDE DEF n
  <1> QED BY <1>1, <1>2, <1>3 DEF EnteredFirst

\* The body of an if is no part of the blocks from a to e, and a loop is either
\* no part of them or has its head and the start of its body among them.
Whole(f, a, e) ==
    /\ f.kind = "IF" => ~(a <= f.bblock /\ f.bblock <= e)
    /\ f.kind = "WHILE" => ((a <= f.bblock /\ f.bblock <= e) <=> (a <= f.head /\ f.head <= e))

\* b has such blocks around it, and they hold the statements fs in progress whole.
Guarded(c, fs, b) == \E p, a, e : Guard(c, b, p, a, e) /\ \A m \in 1..Len(fs) : Whole(fs[m], a, e)

\* What create_statement keeps of the control flow while the statements fs are in
\* progress and blk is the current block.
Shape(c, fs, blk) ==
    /\ Nest(c, Bodies(fs))
    /\ \E S : Cut(c, {blk} \cup Opens(fs), S)
    /\ \A b \in 2..Len(c.block) : b \in Bodies(fs) \/ Guarded(c, fs, b)

\* A statement that begins inside others keeps blocks whole when its own frame does.
LEMMA WholePushed ==
  ASSUME NEW fs \in Seq(Frame), NEW f \in Frame, NEW a, NEW e
  PROVE  (\A m \in 1..Len(Cons(f, fs)) : Whole(Cons(f, fs)[m], a, e)) <=> Whole(f, a, e) /\ \A m \in 1..Len(fs) : Whole(fs[m], a, e)
  <1> DEFINE gs == Cons(f, fs)
  <1>1. /\ gs \in Seq(Frame) /\ Len(gs) = Len(fs) + 1 /\ gs[1] = f /\ Len(fs) \in Nat /\ 1 \in 1..Len(gs)
        /\ \A k \in 1..Len(fs) : k + 1 \in 1..Len(gs) /\ gs[k + 1] = fs[k]
        /\ \A k \in 1..Len(gs) : k = 1 \/ (k - 1 \in 1..Len(fs) /\ gs[k] = fs[k - 1] /\ k \in Nat /\ k > 1)
    <2> DEFINE t == gs
    <2>1. t = Cons(f, fs)
      OBVIOUS
    <2> HIDE DEF t
    <2> QED BY <2>1, ConsAt
  <1> HIDE DEF gs
  <1>2. ASSUME \A m \in 1..Len(gs) : Whole(gs[m], a, e) PROVE Whole(f, a, e) /\ \A m \in 1..Len(fs) : Whole(fs[m], a, e)
    <2>1. Whole(f, a, e)
      BY <1>1, <1>2
    <2>2. ASSUME NEW m \in 1..Len(fs) PROVE Whole(fs[m], a, e)
      <3>1. m + 1 \in 1..Len(gs) /\ gs[m + 1] = fs[m]
        BY <1>1
      <3> QED BY <1>2, <3>1
    <2> QED BY <2>1, <2>2
  <1>3. ASSUME Whole(f, a, e), \A m \in 1..Len(fs) : Whole(fs[m], a, e), NEW m \in 1..Len(gs) PROVE Whole(gs[m], a, e)
    <2>1. CASE m = 1
      BY <1>1, <1>3, <2>1
    <2>2. CASE m # 1
      <3>1. m - 1 \in 1..Len(fs) /\ gs[m] = fs[m - 1]
        BY <1>1, <2>2
      <3> QED BY <1>3, <3>1
    <2> QED BY <2>1, <2>2
  <1>4. (\A m \in 1..Len(gs) : Whole(gs[m], a, e)) <=> Whole(f, a, e) /\ \A m \in 1..Len(fs) : Whole(fs[m], a, e)
    BY <1>2, <1>3
  <1> QED BY <1>4 DEF gs

\* Blocks made after the ones that the calls in progress know.
LEMMA WholeAbove ==
  ASSUME NEW fs, NEW blk, NEW n, CallStack(fs, blk, n), NEW a \in Nat, NEW e \in Nat, blk < a
  PROVE  \A m \in 1..Len(fs) : Whole(fs[m], a, e)
  <1>1. ASSUME NEW m \in 1..Len(fs) PROVE Whole(fs[m], a, e)
    <2> DEFINE f == fs[m]
    <2>1. InOrder(f, n) /\ f.bblock <= blk /\ n \in Nat /\ blk \in 1..n
      BY DEF CallStack
    <2> HIDE DEF f
    <2>2. f.bblock \in Nat /\ f.bblock < a /\ blk \in Nat
      BY <2>1 DEF InOrder
    <2>3. f.kind = "WHILE" => f.head \in Nat /\ f.head < a
      BY <2>1, <2>2 DEF InOrder
    <2>4. Whole(f, a, e)
      BY <2>2, <2>3 DEF Whole
    <2> QED BY <2>4 DEF f
  <1> QED BY <1>1

\* The blocks that a jump names.
LEMMA OneTo ==
  ASSUME NEW u, Len(u) = 1, NEW t \in Nat, u[1] = BlockValue(t)
  PROVE  \A x \in Nat : (\E s \in 1..Len(u) : u[s] = BlockValue(x)) <=> x \in {t}
  <1>1. \A s \in 1..Len(u) : s = 1
    OBVIOUS
  <1>2. 1 \in 1..Len(u)
    OBVIOUS
  <1>3. \A x \in Nat : BlockValue(x) = BlockValue(t) <=> x = t
    BY ValuesAre
  <1> QED BY <1>1, <1>2, <1>3, Zenon

\* The two arms are the only blocks that inst_new_jump_cond names.
LEMMA TwoTo ==
  ASSUME NEW u, Len(u) = 3, NEW t \in Nat, u[1] = BlockValue(t), NEW v \in Nat, u[2] = BlockValue(v), u[3] \in Operands
  PROVE  \A x \in Nat : (\E s \in 1..Len(u) : u[s] = BlockValue(x)) <=> x \in {t, v}
  <1>1. \A s \in 1..Len(u) : s = 1 \/ s = 2 \/ s = 3
    OBVIOUS
  <1>2. 1 \in 1..Len(u) /\ 2 \in 1..Len(u)
    OBVIOUS
  <1>3. \A x \in Nat : (BlockValue(x) = BlockValue(t) <=> x = t) /\ (BlockValue(x) = BlockValue(v) <=> x = v) /\ u[3] # BlockValue(x)
    BY ValuesAre
  <1> QED BY <1>1, <1>2, <1>3, Zenon

\* Blocks without a jump.
LEMMA NoJumpKept ==
  ASSUME NEW c, NEW d, Kept(c, d), NEW x \in 1..Len(d.block), x \in 1..Len(c.block) => NoJump(c, x)
  PROVE  NoJump(d, x)
  BY DEF Kept, NoJump, JumpAt

\* A jump ends the block it is added to and no other.
LEMMA NoJumpAdded ==
  ASSUME NEW c, NEW d, NEW y, NEW X, Added(c, d, y, X), NEW x \in 1..Len(c.block), x # y, NoJump(c, x)
  PROVE  NoJump(d, x)
  BY DEF Added, NoJump, JumpAt

\* A block without a jump leads nowhere.
LEMMA NoJumpTo ==
  ASSUME NEW c, NEW x, NoJump(c, x), NEW t
  PROVE  ~JumpsTo(c, x, t)
  BY DEF JumpsTo, NoJump

\* What adds no jump leaves a block guarded, for the same statements in progress.
LEMMA GuardedKept ==
  ASSUME NEW c, NEW d, Kept(c, d), NEW fs, NEW b, Guarded(c, fs, b)
  PROVE  Guarded(d, fs, b)
  BY GuardKept DEF Guarded

\* A statement without a jump.
LEMMA ShapeKept ==
  ASSUME NEW c, NEW d, Kept(c, d), Len(d.block) = Len(c.block), NEW fs, NEW blk, Shape(c, fs, blk)
  PROVE  Shape(d, fs, blk)
  <1>1. Nest(d, Bodies(fs))
    BY NestKept DEF Shape
  <1>2. PICK S : Cut(c, {blk} \cup Opens(fs), S)
    BY DEF Shape
  <1> DEFINE U == {blk} \cup Opens(fs)
  <1>3. Cut(d, U, S)
    <2>1. Cut(c, U, S)
      BY <1>2
    <2> HIDE DEF U
    <2> QED BY <2>1, CutKept
  <1>4. ASSUME NEW b \in 2..Len(d.block) PROVE b \in Bodies(fs) \/ Guarded(d, fs, b)
    BY GuardedKept DEF Shape
  <1> QED BY <1>1, <1>3, <1>4 DEF Shape

\* The instructions of an expression or an assignment keep the shape.
LEMMA ShapeExtends ==
  ASSUME NEW c, Built(c), NEW fs, NEW blk, CallStack(fs, blk, Len(c.block)), Shape(c, fs, blk),
         NEW d, NEW New, Extends(c, d, blk, New), \A i \in New : ~IsJump(i)
  PROVE  Shape(d, fs, blk)
  <1>1. blk \in 1..Len(c.block)
    BY CallsBelow
  <1>2. Kept(c, d) /\ Len(d.block) = Len(c.block)
    BY <1>1, ExtendsKept, ExtendsLens
  <1> QED BY <1>2, ShapeKept

\* if: nothing knows the new block yet.
LEMMA ShapeIf ==
  ASSUME NEW c, Built(c), NEW fs, NEW blk, CallStack(fs, blk, Len(c.block)), Shape(c, fs, blk),
         NEW d, Grown(c, d), NEW f \in Frame, f.kind = "IF", f.oldBlock = blk, f.bblock = Len(c.block) + 1
  PROVE  Shape(d, Cons(f, fs), f.bblock)
  <1> DEFINE n == Len(c.block) + 1
             gs == Cons(f, fs)
             U == {blk} \cup Opens(fs)
             V == {n} \cup Opens(gs)
             B == Bodies(fs)
  <1>1. /\ blk \in 1..Len(c.block) /\ \A x \in Opens(fs) : x \in 1..Len(c.block)
        /\ fs \in Seq(Frame) /\ Len(c.block) \in Nat
    BY CallsBelow
  <1>2. Opens(gs) = {n, blk} \cup Opens(fs) /\ Bodies(gs) = {n} \cup B
    BY <1>1, Pushed DEF OpenIn, WaitIn, BodyIn
  <1>3. Kept(c, d) /\ Len(d.block) = n /\ n \in Nat /\ n > Len(c.block)
    BY <1>1, GrownKept, GrownLens
  <1> HIDE DEF n
  <1>4. Nest(d, Bodies(gs))
    <2>1. Nest(c, B)
      BY DEF Shape
    <2> HIDE DEF B
    <2>2. Nest(c, B \cup {n})
      BY <1>3, <2>1, NestMore
    <2>3. Nest(d, B \cup {n})
      BY <1>3, <2>2, NestKept
    <2>4. Bodies(gs) = B \cup {n}
      BY <1>2
    <2> QED BY <2>3, <2>4
  <1>5. \E S : Cut(d, V, S)
    <2>1. PICK S : Cut(c, U, S)
      BY DEF Shape
    <2>2. \A x \in V : x \notin S
      <3>1. n \notin S
        BY <1>1, <1>3, <2>1 DEF Cut
      <3>2. \A x \in U : x \notin S
        BY <2>1 DEF Cut
      <3> QED BY <1>2, <3>1, <3>2
    <2> HIDE DEF U, V
    <2>3. Cut(c, V, S)
      BY <2>1, <2>2, CutFor
    <2> QED BY <1>3, <2>3, CutKept
  <1>6. ASSUME NEW b \in 2..Len(d.block), b \notin Bodies(gs) PROVE Guarded(d, gs, b)
    <2>1. b \in 2..Len(c.block) /\ b \notin B
      BY <1>1, <1>2, <1>3, <1>6 DEF n
    <2>2. PICK p, a, e : Guard(c, b, p, a, e) /\ \A m \in 1..Len(fs) : Whole(fs[m], a, e)
      BY <2>1 DEF Shape, Guarded
    <2>3. Guard(d, b, p, a, e)
      BY <1>3, <2>2, GuardKept
    <2>4. Whole(f, a, e)
      <3>1. e \in Nat /\ e <= Len(c.block)
        BY <2>2 DEF Guard
      <3> QED BY <1>1, <1>3, <3>1 DEF Whole, n
    <2>5. \A m \in 1..Len(gs) : Whole(gs[m], a, e)
      BY <1>1, <2>2, <2>4, WholePushed
    <2> QED BY <2>3, <2>5 DEF Guarded
  <1>7. Shape(d, gs, n)
    <2> HIDE DEF gs
    <2> QED BY <1>4, <1>5, <1>6 DEF Shape
  <1> QED BY <1>7 DEF n

\* No jump goes to a block that was just made.
LEMMA NewUnnamed ==
  ASSUME NEW c, Built(c), NEW d, Kept(c, d), NEW t \in Nat, t > Len(c.block)
  PROVE  \A x \in 1..Len(d.block) : ~JumpsTo(d, x, t)
  <1>1. Len(c.block) \in Nat
    BY BuiltLens
  <1>2. ASSUME NEW x \in 1..Len(d.block), JumpsTo(d, x, t) PROVE FALSE
    <2>1. x \in 1..Len(c.block) /\ JumpsTo(c, x, t)
      BY <1>2, KeptJumps
    <2>2. t \in 1..Len(c.block)
      BY <2>1, JumpsStayIn
    <2> QED BY <1>1, <2>2
  <1> QED BY <1>2

\* while: the head is entered from the block before it, and the body, which no
\* jump goes to yet, will be entered from the head.
LEMMA ShapeWhile ==
  ASSUME NEW c, Built(c), NEW fs, NEW blk, CallStack(fs, blk, Len(c.block)), Shape(c, fs, blk), NoJump(c, blk),
         NEW c1, Kept(c, c1), NEW h, h = Len(c.block) + 1, Len(c1.block) = h,
         NEW c2, Added(c1, c2, blk, {h}), NEW d, Kept(c2, d), Len(d.block) = h + 1,
         NEW f \in Frame, f.kind = "WHILE", f.oldBlock = blk, f.head = h, f.bblock = h + 1
  PROVE  Shape(d, Cons(f, fs), f.bblock)
  <1> DEFINE gs == Cons(f, fs)
             U == {blk} \cup Opens(fs)
             V == {h + 1} \cup Opens(gs)
             B == Bodies(fs)
  <1>1. /\ blk \in 1..Len(c.block) /\ (\A x \in Opens(fs) : x \in 1..Len(c.block))
        /\ fs \in Seq(Frame) /\ Len(c.block) \in Nat /\ \A x \in B : x \in 1..Len(c.block) /\ x <= blk
    <2> HIDE DEF B
    <2>1. B = Bodies(fs)
      BY DEF B
    <2> QED BY <2>1, CallsBelow
  <1>2. Opens(gs) = {h + 1, blk, h} \cup Opens(fs) /\ Bodies(gs) = {h + 1} \cup B
    BY <1>1, Pushed DEF OpenIn, WaitIn, BodyIn
  <1>3. /\ Built(c1) /\ Built(c2) /\ Built(d) /\ Len(c2.block) = h /\ h \in Nat /\ h + 1 \in Nat /\ blk \in Nat /\ blk < h
        /\ blk \in 1..h /\ h + 1 > Len(c2.block) /\ h > Len(c.block)
    <2>1. Built(c1) /\ Built(d)
      BY DEF Kept
    <2>2. Built(c2) /\ Len(c2.block) = h
      BY DEF Added
    <2> QED BY <1>1, <2>1, <2>2
  <1>4. Nest(d, Bodies(gs))
    <2>1. Nest(c, B)
      BY DEF Shape
    <2>2. \A t \in {h} : t # 1 /\ \A b \in B : t # b /\ (blk >= b <=> t > b)
      BY <1>1, <1>3
    <2> HIDE DEF B
    <2>3. Nest(c1, B)
      BY <2>1, NestKept
    <2>4. Nest(c2, B)
      BY <2>2, <2>3, NestAdded
    <2>5. Nest(c2, B \cup {h + 1})
      BY <1>3, <2>4, NestMore
    <2>6. Nest(d, B \cup {h + 1})
      BY <2>5, NestKept
    <2>7. Bodies(gs) = B \cup {h + 1}
      BY <1>2
    <2> QED BY <2>6, <2>7
  <1>5. \E S : Cut(d, V, S)
    <2>1. PICK S : Cut(c, U, S)
      BY DEF Shape
    <2>2. h \notin S /\ h + 1 \notin S
      BY <1>3, <2>1 DEF Cut
    <2>3. \A x \in V : x \notin S
      <3>1. \A x \in U : x \notin S
        BY <2>1 DEF Cut
      <3> QED BY <1>2, <2>2, <3>1
    <2>4. blk \in U
      OBVIOUS
    <2> HIDE DEF U, V
    <2>5. Cut(c1, U, S)
      BY <2>1, CutKept
    <2>6. NoJump(c1, blk)
      BY <1>1, <1>3, NoJumpKept
    <2>7. \A t \in {h} : t \notin S
      BY <2>2
    <2>8. Cut(c2, U, S)
      BY <2>4, <2>5, <2>6, <2>7, CutAdded
    <2>9. Cut(c2, V, S)
      BY <2>3, <2>8, CutFor
    <2> QED BY <2>9, CutKept
  <1>6. ASSUME NEW b \in 2..Len(c.block), b \notin B PROVE Guarded(d, gs, b)
    <2>1. PICK p, a, e : Guard(c, b, p, a, e) /\ \A m \in 1..Len(fs) : Whole(fs[m], a, e)
      BY <1>6 DEF Shape, Guarded
    <2>2. e \in Nat /\ e <= Len(c.block) /\ a \in Nat
      BY <2>1 DEF Guard
    <2>3. Guard(c1, b, p, a, e)
      BY <2>1, GuardKept
    <2>4. \A t \in {h} : a <= t /\ t <= e => blk = p \/ (a <= blk /\ blk <= e)
      BY <1>3, <2>2
    <2>5. Guard(c2, b, p, a, e)
      BY <2>3, <2>4, GuardAdded
    <2>6. Guard(d, b, p, a, e)
      BY <2>5, GuardKept
    <2>7. Whole(f, a, e)
      BY <1>1, <1>3, <2>2 DEF Whole
    <2>8. \A m \in 1..Len(gs) : Whole(gs[m], a, e)
      BY <1>1, <2>1, <2>7, WholePushed
    <2> QED BY <2>6, <2>8 DEF Guarded
  <1>7. Guarded(d, gs, h)
    <2>1. \A x \in 1..Len(c1.block) : ~JumpsTo(c1, x, h)
      BY <1>3, NewUnnamed
    <2>2. EnteredFirst(c2, blk, h)
      BY <1>3, <2>1, NewEntry
    <2>3. /\ Len(c2.inst) <= Len(d.inst) /\ Len(d.inst) \in Nat /\ \A i \in 1..Len(c2.inst) : d.inst[i] = c2.inst[i]
      BY <1>3, BuiltLens DEF Kept
    <2>4. EnteredFirst(d, blk, h)
      BY <1>3, <2>2, <2>3, EnteredStays
    <2>5. Enclosed(d, blk, h, h + 1)
      <3>1. ASSUME NEW x \in 1..Len(d.block), NEW t \in Nat, JumpsTo(d, x, t), h <= t, x # blk PROVE FALSE
        <4>1. x \in 1..Len(c2.block) /\ JumpsTo(c2, x, t)
          BY <3>1, KeptJumps
        <4>2. JumpsTo(c1, x, t)
          BY <3>1, <4>1, AddedJumps
        <4>3. x \in 1..Len(c1.block)
          BY <1>3, <4>1
        <4>4. t > Len(c.block)
          BY <1>1, <3>1
        <4> QED BY <4>2, <4>3, <4>4, NewUnnamed
      <3> QED BY <3>1 DEF Enclosed
    <2>6. Guard(d, h, blk, h, h + 1)
      BY <1>3, <2>4, <2>5 DEF Guard
    <2>7. \A m \in 1..Len(fs) : Whole(fs[m], h, h + 1)
      BY <1>3, WholeAbove
    <2>8. Whole(f, h, h + 1)
      BY <1>3 DEF Whole
    <2>9. \A m \in 1..Len(gs) : Whole(gs[m], h, h + 1)
      BY <1>1, <2>7, <2>8, WholePushed
    <2> QED BY <2>6, <2>9 DEF Guarded
  <1>8. ASSUME NEW b \in 2..Len(d.block) PROVE b \in Bodies(gs) \/ Guarded(d, gs, b)
    <2>1. b \in 2..Len(c.block) \/ b = h \/ b = h + 1
      BY <1>1
    <2> QED BY <1>2, <1>6, <1>7, <2>1
  <1>9. Shape(d, gs, h + 1)
    <2> HIDE DEF gs
    <2> QED BY <1>4, <1>5, <1>8 DEF Shape
  <1> QED BY <1>9

\* Two steps without a jump are one.
LEMMA KeptTwice ==
  ASSUME NEW c, NEW d, Kept(c, d), NEW e, Kept(d, e)
  PROVE  Kept(c, e)
  <1>1. /\ Built(c) /\ Built(e) /\ Len(c.block) <= Len(e.block) /\ Len(c.inst) <= Len(e.inst)
        /\ Len(c.block) \in Nat /\ Len(d.block) \in Nat /\ Len(c.inst) \in Nat /\ Len(d.inst) \in Nat
        /\ Len(c.block) <= Len(d.block) /\ Len(c.inst) <= Len(d.inst)
    <2>1. Built(c) /\ Built(d) /\ Len(c.block) <= Len(d.block) /\ Len(c.inst) <= Len(d.inst)
      BY DEF Kept
    <2>2. Built(e) /\ Len(d.block) <= Len(e.block) /\ Len(d.inst) <= Len(e.inst)
      BY DEF Kept
    <2> QED BY <2>1, <2>2, BuiltLens
  <1>2. \A i \in 1..Len(c.inst) : e.inst[i] = c.inst[i]
    <2>1. ASSUME NEW i \in 1..Len(c.inst) PROVE e.inst[i] = c.inst[i]
      <3>1. i \in 1..Len(d.inst)
        BY <1>1
      <3> QED BY <3>1 DEF Kept
    <2> QED BY <2>1
  <1>3. ASSUME NEW x \in 1..Len(c.block), NEW k \in 1..Len(c.block[x])
        PROVE  k \in 1..Len(e.block[x]) /\ At(e, x, k) = At(c, x, k)
    <2>1. x \in 1..Len(d.block)
      BY <1>1
    <2>2. k \in 1..Len(d.block[x]) /\ At(d, x, k) = At(c, x, k)
      BY DEF Kept
    <2> QED BY <2>1, <2>2 DEF Kept
  <1>4. ASSUME NEW x \in 1..Len(e.block), NEW k \in 1..Len(e.block[x]), JumpAt(e, x, k)
        PROVE  x \in 1..Len(c.block) /\ k \in 1..Len(c.block[x])
    <2>1. x \in 1..Len(d.block) /\ k \in 1..Len(d.block[x])
      BY <1>4 DEF Kept
    <2>2. At(e, x, k) = At(d, x, k)
      BY <2>1 DEF Kept
    <2>3. JumpAt(d, x, k)
      BY <1>4, <2>2 DEF JumpAt
    <2> QED BY <2>1, <2>3 DEF Kept
  <1> QED BY <1>1, <1>2, <1>3, <1>4 DEF Kept

\* The end of an if: the blocks of the body and the rest are entered from the
\* block that branches.
LEMMA ShapeEndIf ==
  ASSUME NEW c, Built(c), NEW gs \in Seq(Frame), NEW f \in Frame, f.kind = "IF", NEW blk,
         CallStack(Cons(f, gs), blk, Len(c.block)), Shape(c, Cons(f, gs), blk),
         NEW old, old = f.oldBlock, NEW body, body = f.bblock, NoJump(c, old), NoJump(c, blk),
         NEW r, r = Len(c.block) + 1, NEW c1, Kept(c, c1), Len(c1.block) = r,
         NEW c2, Added(c1, c2, old, {body, r}), NEW d, Added(c2, d, blk, {r})
  PROVE  Shape(d, gs, r)
  <1> DEFINE fs == Cons(f, gs)
             U == {blk} \cup Opens(fs)
             V == {r} \cup Opens(gs)
             B == Bodies(gs)
             n == Len(c.block)
  <1>1. /\ CallStack(gs, old, n) /\ body <= blk /\ blk \in 1..n /\ n \in Nat
        /\ old \in 1..n /\ body \in 1..n /\ old < body
    <2>1. CallStack(gs, old, n) /\ InOrder(f, n) /\ body <= blk /\ blk \in 1..n /\ n \in Nat
      BY CallPopped
    <2> QED BY <2>1 DEF InOrder
  <1>2. (\A x \in Opens(gs) : x \in 1..n /\ x <= old) /\ (\A x \in Bodies(gs) : x \in 1..n /\ x <= old)
    BY <1>1, CallsBelow
  <1>3. Opens(fs) = {body, old} \cup Opens(gs) /\ Bodies(fs) = {body} \cup B
    BY Pushed DEF OpenIn, BodyIn
  <1>4. Built(c1) /\ Built(c2) /\ Built(d) /\ Len(c1.block) = r /\ Len(c2.block) = r /\ Len(d.block) = r
    BY DEF Kept, Added
  <1>5. /\ r = n + 1 /\ r \in Nat /\ old \in Nat /\ body \in Nat /\ blk \in Nat /\ body > 1 /\ old # blk
        /\ old < body /\ body <= blk /\ blk < r
    BY <1>1
  <1>6. Nest(d, B)
    <2>1. Nest(c, B)
      <3>1. Nest(c, Bodies(fs)) /\ B \subseteq Bodies(fs)
        BY <1>3 DEF Shape
      <3> HIDE DEF B, fs
      <3> QED BY <3>1, NestFewer
    <2>2. \A t \in {body, r} : t # 1 /\ \A b \in B : t # b /\ (old >= b <=> t > b)
      BY <1>2, <1>5
    <2>3. \A t \in {r} : t # 1 /\ \A b \in B : t # b /\ (blk >= b <=> t > b)
      BY <1>2, <1>5
    <2> HIDE DEF B
    <2>4. Nest(c1, B)
      BY <2>1, NestKept
    <2>5. Nest(c2, B)
      BY <2>2, <2>4, NestAdded
    <2> QED BY <2>3, <2>5, NestAdded
  <1>7. \E S : Cut(d, V, S)
    <2>1. PICK S : Cut(c, U, S)
      BY DEF Shape
    <2>2. (\A x \in U : x \notin S) /\ r \notin S
      BY <1>5, <2>1 DEF Cut
    <2>3. old \in U /\ blk \in U /\ body \in U /\ \A x \in V : x \notin S
      BY <1>3, <2>2
    <2>4. (\A t \in {body, r} : t \notin S) /\ (\A t \in {r} : t \notin S)
      BY <2>2, <2>3
    <2> HIDE DEF U, V
    <2>5. Cut(c1, U, S)
      BY <2>1, CutKept
    <2>6. NoJump(c1, old) /\ NoJump(c1, blk)
      <3>1. old \in 1..Len(c1.block) /\ blk \in 1..Len(c1.block)
        BY <1>1, <1>4
      <3> QED BY <3>1, NoJumpKept
    <2>7. Cut(c2, U, S)
      BY <2>3, <2>4, <2>5, <2>6, CutAdded
    <2>8. NoJump(c2, blk)
      <3>1. blk \in 1..Len(c1.block) /\ blk # old
        BY <1>1, <1>4, <1>5
      <3> QED BY <2>6, <3>1, NoJumpAdded
    <2>9. Cut(d, U, S)
      BY <2>3, <2>4, <2>7, <2>8, CutAdded
    <2> QED BY <2>3, <2>9, CutFor
  <1>8. ASSUME NEW b \in 2..n, b \notin Bodies(fs) PROVE Guarded(d, gs, b)
    <2>1. PICK p, a, e : Guard(c, b, p, a, e) /\ \A m \in 1..Len(fs) : Whole(fs[m], a, e)
      BY <1>8 DEF Shape, Guarded
    <2>2. e \in Nat /\ e <= n /\ a \in Nat
      BY <2>1 DEF Guard
    <2>3. Whole(f, a, e) /\ \A m \in 1..Len(gs) : Whole(gs[m], a, e)
      BY <2>1, WholePushed
    <2>4. ~(a <= body /\ body <= e) /\ ~(r <= e)
      BY <1>5, <2>2, <2>3 DEF Whole
    <2>5. Guard(c1, b, p, a, e)
      BY <2>1, GuardKept
    <2>6. \A t \in {body, r} : a <= t /\ t <= e => old = p \/ (a <= old /\ old <= e)
      BY <2>4
    <2>7. Guard(c2, b, p, a, e)
      BY <2>5, <2>6, GuardAdded
    <2>8. \A t \in {r} : a <= t /\ t <= e => blk = p \/ (a <= blk /\ blk <= e)
      BY <2>4
    <2>9. Guard(d, b, p, a, e)
      BY <2>7, <2>8, GuardAdded
    <2> QED BY <2>3, <2>9 DEF Guarded
  <1>9. ASSUME NEW b \in {body, r} PROVE Guarded(d, gs, b)
    <2>1. ASSUME NEW x \in 1..Len(c1.block), NEW t \in Nat, JumpsTo(c1, x, t)
          PROVE  x \in 1..n /\ t # body /\ (x >= body <=> t > body)
      <3>1. x \in 1..n /\ JumpsTo(c, x, t)
        BY <1>4, <2>1, KeptJumps
      <3>2. body \in Bodies(fs) /\ Nest(c, Bodies(fs))
        BY <1>3 DEF Shape
      <3> QED BY <3>1, <3>2 DEF Nest
    <2>2. \A x \in 1..Len(c1.block) : ~JumpsTo(c1, x, b)
      <3>1. CASE b = body
        BY <1>5, <2>1, <3>1
      <3>2. CASE b = r
        <4>1. r > n
          BY <1>5
        <4> QED BY <1>5, <3>2, <4>1, NewUnnamed
      <3> QED BY <3>1, <3>2
    <2>3. EnteredFirst(c2, old, b)
      BY <1>5, <2>2, NewEntry
    <2>4. Len(c2.inst) <= Len(d.inst) /\ Len(d.inst) \in Nat /\ \A i \in 1..Len(c2.inst) : d.inst[i] = c2.inst[i]
      <3>1. Len(d.inst) = Len(c2.inst) + 1 /\ \A i \in 1..Len(c2.inst) : d.inst[i] = c2.inst[i]
        BY DEF Added
      <3> QED BY <1>4, <3>1, BuiltLens
    <2>5. EnteredFirst(d, old, b)
      BY <1>4, <2>3, <2>4, EnteredStays
    <2>6. Enclosed(d, old, body, r)
      <3>1. ASSUME NEW x \in 1..Len(d.block), NEW t \in Nat, JumpsTo(d, x, t), body <= t, x # old
            PROVE  body <= x /\ x <= r
        <4>1. JumpsTo(c2, x, t) \/ x = blk
          BY <3>1, AddedJumps
        <4>2. JumpsTo(c2, x, t) => JumpsTo(c1, x, t)
          <5>1. x \in 1..Len(c2.block)
            BY <1>4
          <5> QED BY <3>1, <5>1, AddedJumps
        <4>3. JumpsTo(c1, x, t) => body <= x /\ x <= r
          BY <1>4, <1>5, <2>1, <3>1
        <4> QED BY <1>5, <4>1, <4>2, <4>3
      <3> QED BY <3>1 DEF Enclosed
    <2>7. Guard(d, b, old, body, r)
      BY <1>1, <1>4, <1>5, <2>5, <2>6 DEF Guard
    <2>8. \A m \in 1..Len(gs) : Whole(gs[m], body, r)
      BY <1>1, <1>5, WholeAbove
    <2> QED BY <2>7, <2>8 DEF Guarded
  <1>10. ASSUME NEW b \in 2..Len(d.block) PROVE b \in B \/ Guarded(d, gs, b)
    <2>1. b \in 2..n \/ b = r
      BY <1>4, <1>5
    <2> QED BY <1>3, <1>8, <1>9, <2>1
  <1> QED BY <1>6, <1>7, <1>10 DEF Shape

\* The end of a while: the jump back cuts off what the first block of the body
\* led to; the blocks of the body and the rest are entered from the head.
LEMMA ShapeEndWhile ==
  ASSUME NEW c, Built(c), NEW gs \in Seq(Frame), NEW f \in Frame, f.kind = "WHILE", NEW blk,
         CallStack(Cons(f, gs), blk, Len(c.block)), Shape(c, Cons(f, gs), blk),
         NEW head, head = f.head, NEW body, body = f.bblock, NoJump(c, head),
         NEW r, r = Len(c.block) + 1, NEW c1, Added(c, c1, body, {head}),
         NEW c2, Kept(c1, c2), Len(c2.block) = r, NEW d, Added(c2, d, head, {body, r})
  PROVE  Shape(d, gs, r)
  <1> DEFINE fs == Cons(f, gs)
             U == {blk} \cup Opens(fs)
             W == {body, head} \cup Opens(gs)
             V == {r} \cup Opens(gs)
             B == Bodies(gs)
             n == Len(c.block)
             old == f.oldBlock
  <1>1. /\ CallStack(gs, old, n) /\ body <= blk /\ blk \in 1..n /\ n \in Nat
        /\ old \in 1..n /\ head \in 1..n /\ body \in 1..n /\ old < head /\ head < body
    <2>1. CallStack(gs, old, n) /\ InOrder(f, n) /\ body <= blk /\ blk \in 1..n /\ n \in Nat
      BY CallPopped
    <2> QED BY <2>1 DEF InOrder
  <1>2. (\A x \in Opens(gs) : x \in 1..n /\ x <= old) /\ (\A x \in Bodies(gs) : x \in 1..n /\ x <= old)
    BY <1>1, CallsBelow
  <1>3. Opens(fs) = {body, old, head} \cup Opens(gs) /\ Bodies(fs) = {body} \cup B
    BY Pushed DEF OpenIn, BodyIn
  <1>4. Built(c1) /\ Len(c1.block) = n /\ Built(c2) /\ Built(d) /\ Len(c2.block) = r /\ Len(d.block) = r
    BY DEF Kept, Added
  <1> HIDE DEF old
  <1>5. /\ r = n + 1 /\ r \in Nat /\ old \in Nat /\ head \in Nat /\ body \in Nat /\ blk \in Nat /\ head > 1 /\ body > 1
        /\ old < head /\ head < body /\ body <= blk /\ blk < r /\ body # head /\ body < r
    BY <1>1
  <1>6. Nest(d, B)
    <2>1. Nest(c, B)
      <3>1. Nest(c, Bodies(fs)) /\ B \subseteq Bodies(fs)
        BY <1>3 DEF Shape
      <3> HIDE DEF B, fs
      <3> QED BY <3>1, NestFewer
    <2>2. \A t \in {head} : t # 1 /\ \A b \in B : t # b /\ (body >= b <=> t > b)
      BY <1>2, <1>5
    <2>3. \A t \in {body, r} : t # 1 /\ \A b \in B : t # b /\ (head >= b <=> t > b)
      BY <1>2, <1>5
    <2> HIDE DEF B
    <2>4. Nest(c1, B)
      BY <2>1, <2>2, NestAdded
    <2>5. Nest(c2, B)
      BY <2>4, NestKept
    <2> QED BY <2>3, <2>5, NestAdded
  <1>7. \E S : Cut(d, V, S)
    <2>1. PICK S : Cut(c, U, S)
      BY DEF Shape
    <2> DEFINE T == S \cup (body + 1)..n
    <2>2. body \in U /\ head \in U
      BY <1>3
    <2>3. \A x \in W : x \in U /\ x <= body
      BY <1>2, <1>3, <1>5
    <2>4. body \in Bodies(fs) /\ Nest(c, Bodies(fs))
      BY <1>3 DEF Shape
    <2> HIDE DEF U
    <2>5. Cut(c1, W, T)
      <3> HIDE DEF W, fs
      <3> QED BY <1>5, <2>1, <2>2, <2>3, <2>4, CutBack
    <2> HIDE DEF T
    <2>6. (\A x \in W : x \notin T) /\ r \notin T
      BY <1>4, <1>5, <2>5 DEF Cut
    <2>7. \A t \in {body, r} : t \notin T
      BY <2>6
    <2>8. head \in W /\ \A x \in V : x \notin T
      BY <2>6
    <2> HIDE DEF W, V
    <2>9. Cut(c2, W, T)
      BY <2>5, CutKept
    <2>10. NoJump(c2, head)
      <3>1. NoJump(c1, head)
        BY <1>1, <1>5, NoJumpAdded
      <3>2. head \in 1..Len(c2.block)
        BY <1>1, <1>4
      <3> QED BY <3>1, <3>2, NoJumpKept
    <2>11. Cut(d, W, T)
      BY <2>7, <2>8, <2>9, <2>10, CutAdded
    <2> QED BY <2>8, <2>11, CutFor
  <1>8. ASSUME NEW b \in 2..n, b \notin Bodies(fs) PROVE Guarded(d, gs, b)
    <2>1. PICK p, a, e : Guard(c, b, p, a, e) /\ \A m \in 1..Len(fs) : Whole(fs[m], a, e)
      BY <1>8 DEF Shape, Guarded
    <2>2. e \in Nat /\ e <= n /\ a \in Nat
      BY <2>1 DEF Guard
    <2>3. Whole(f, a, e) /\ \A m \in 1..Len(gs) : Whole(gs[m], a, e)
      BY <2>1, WholePushed
    <2>4. ((a <= body /\ body <= e) <=> (a <= head /\ head <= e)) /\ ~(r <= e)
      BY <1>5, <2>2, <2>3 DEF Whole
    <2>5. \A t \in {head} : a <= t /\ t <= e => body = p \/ (a <= body /\ body <= e)
      BY <2>4
    <2>6. Guard(c1, b, p, a, e)
      BY <2>1, <2>5, GuardAdded
    <2>7. Guard(c2, b, p, a, e)
      BY <2>6, GuardKept
    <2>8. \A t \in {body, r} : a <= t /\ t <= e => head = p \/ (a <= head /\ head <= e)
      BY <2>4
    <2>9. Guard(d, b, p, a, e)
      BY <2>7, <2>8, GuardAdded
    <2> QED BY <2>3, <2>9 DEF Guarded
  <1>9. ASSUME NEW b \in {body, r} PROVE Guarded(d, gs, b)
    <2>1. ASSUME NEW x \in 1..Len(c2.block), NEW t \in Nat, JumpsTo(c2, x, t)
          PROVE  x \in 1..n /\ t # body /\ (t > body => x >= body)
      <3>1. x \in 1..n /\ JumpsTo(c1, x, t)
        BY <1>4, <2>1, KeptJumps
      <3>2. JumpsTo(c, x, t) \/ (x = body /\ t = head)
        BY <1>4, <3>1, AddedJumps
      <3>3. body \in Bodies(fs) /\ Nest(c, Bodies(fs))
        BY <1>3 DEF Shape
      <3>4. JumpsTo(c, x, t) => t # body /\ (x >= body <=> t > body)
        BY <3>1, <3>3 DEF Nest
      <3> QED BY <1>5, <3>1, <3>2, <3>4
    <2>2. \A x \in 1..Len(c2.block) : ~JumpsTo(c2, x, b)
      <3>1. CASE b = body
        BY <1>5, <2>1, <3>1
      <3>2. CASE b = r
        <4>1. r > Len(c1.block)
          BY <1>4, <1>5
        <4> QED BY <1>4, <1>5, <3>2, <4>1, NewUnnamed
      <3> QED BY <3>1, <3>2
    <2>3. EnteredFirst(d, head, b)
      BY <1>5, <2>2, NewEntry
    <2>4. Enclosed(d, head, body, r)
      <3>1. ASSUME NEW x \in 1..Len(d.block), NEW t \in Nat, JumpsTo(d, x, t), body <= t, x # head
            PROVE  body <= x /\ x <= r
        <4>1. JumpsTo(c2, x, t)
          BY <3>1, AddedJumps
        <4>2. x \in 1..Len(c2.block)
          BY <1>4
        <4>3. x \in 1..n /\ t # body /\ (t > body => x >= body)
          BY <2>1, <4>1, <4>2
        <4>4. body \in Nat /\ r \in Nat /\ r = n + 1
          BY <1>5
        <4>5. n \in Nat
          BY <1>1, BuiltLens
        <4> HIDE DEF n
        <4>6. t > body
          BY <3>1, <4>3, <4>4
        <4> QED BY <4>3, <4>4, <4>5, <4>6
      <3> QED BY <3>1 DEF Enclosed
    <2>5. Guard(d, b, head, body, r)
      BY <1>1, <1>4, <1>5, <2>3, <2>4 DEF Guard
    <2>6. \A m \in 1..Len(gs) : Whole(gs[m], body, r)
      <3>1. CallStack(gs, old, n) /\ body \in Nat /\ r \in Nat /\ old < body
        BY <1>1, <1>5
      <3> HIDE DEF n
      <3> QED BY <3>1, WholeAbove
    <2> QED BY <2>5, <2>6 DEF Guarded
  <1>10. ASSUME NEW b \in 2..Len(d.block) PROVE b \in B \/ Guarded(d, gs, b)
    <2>1. b \in 2..n \/ b = r
      BY <1>4, <1>5
    <2> QED BY <1>3, <1>8, <1>9, <2>1
  <1> QED BY <1>6, <1>7, <1>10 DEF Shape

-----------------------------------------------------------------------------
\* What holds while a function is being created: blk is where instructions go,
\* n registers were handed out.
Creating(c, fs, ss, blk, n) ==
    /\ Built(c) /\ n \in Nat /\ RegsKnown(c, n)
    /\ CallStack(fs, blk, Len(c.block))
    /\ Len(ss) = Len(fs)
    /\ Scoping(ss, n)
    /\ RegionsOpen(c, fs, ss, blk, n)
    /\ Flow(c, fs, blk)
    /\ Shape(c, fs, blk)

\* Statements that put loads of visible variables, binary operations, returns
\* or assignments at the end of the block.
LEMMA Keeps ==
  ASSUME NEW c, NEW fs, NEW ss, NEW blk, NEW n, Creating(c, fs, ss, blk, n),
         NEW d, NEW New, Extends(c, d, blk, New),
         \A i \in New : /\ ~IsJump(i)
                        /\ i.type = "INST_LOAD_VAR" => IsVisible(ss, i.rId)
                        /\ i.type = "INST_ASSIGN_VAR" => i.rId \in 0..(n - 1)
  PROVE  Creating(d, fs, ss, blk, n)
  <1>1. Built(c) /\ n \in Nat /\ RegsKnown(c, n) /\ CallStack(fs, blk, Len(c.block)) /\ Len(ss) = Len(fs)
        /\ Scoping(ss, n) /\ RegionsOpen(c, fs, ss, blk, n) /\ Flow(c, fs, blk) /\ Shape(c, fs, blk)
    BY DEF Creating
  <1>2. blk \in 1..Len(c.block)
    BY <1>1, CallsBelow
  <1>3. Built(d) /\ CallStack(fs, blk, Len(d.block))
    BY <1>1 DEF Extends
  <1>4. \A r : IsVisible(ss, r) => r \in 0..(n - 1)
    BY <1>1 DEF IsVisible, Scoping
  <1>5. RegsKnown(d, n)
    BY <1>1, <1>2, <1>4, RegsExtend
  <1>6. RegionsOpen(d, fs, ss, blk, n)
    BY <1>1, RegionsKeep
  <1>7. Flow(d, fs, blk)
    BY <1>1, FlowExtends
  <1>8. Shape(d, fs, blk)
    BY <1>1, ShapeExtends
  <1> QED BY <1>1, <1>3, <1>5, <1>6, <1>7, <1>8 DEF Creating

\* create_assignment: the value, then the store into the register of the name.
LEMMA Assigned ==
  ASSUME NEW c, Built(c), NEW b \in 1..Len(c.block), NEW maps \in Seq(Scope), NEW x, NEW e \in Expressions,
         create_assignment(c, maps, b, x, e).ok
  PROVE  /\ Declared(maps, x)
         /\ \E v, u : /\ Extends(c, v, b, Loaded(maps))
                      /\ Adds(v, create_assignment(c, maps, b, x, e).ir, b, "INST_ASSIGN_VAR", _findReg(maps, x).rId, u)
  <1> DEFINE val == create_value(c, maps, b, e)
             r == _findReg(maps, x).rId
  <1>1. Declared(maps, x)
    BY DEF create_assignment
  <1>2. val.ok
    BY <1>1 DEF create_assignment
  <1>3. create_assignment(c, maps, b, x, e).ir =
          block_insert(inst_new_assign_var(val.ir, r, ValueOf(val)), b, Len(val.ir.inst) + 1)
    BY <1>1, <1>2 DEF create_assignment
  <1>4. Extends(c, val.ir, b, Loaded(maps)) /\ ValueOf(val) \in Operands
    BY <1>2, ValueCreated
  <1>5. r \in Nat
    BY <1>1, Found DEF Var
  <1>6. Built(val.ir) /\ b \in 1..Len(val.ir.block)
    BY <1>4 DEF Extends
  <1> HIDE DEF val, r
  <1>7. \E u \in Seq(Values) :
           /\ Len(u) = 1 /\ u[1] = ValueOf(val)
           /\ Adds(val.ir, block_insert(inst_new_assign_var(val.ir, r, ValueOf(val)), b, Len(val.ir.inst) + 1),
                   b, "INST_ASSIGN_VAR", r, u)
    BY <1>4, <1>5, <1>6, AddAssign, Zenon
  <1> QED BY <1>1, <1>3, <1>4, <1>7 DEF r

\* x = e;
LEMMA AssignmentCreates ==
  ASSUME NEW c, NEW fs, NEW ss, NEW blk, NEW n, Creating(c, fs, ss, blk, n), NEW x, NEW e \in Expressions,
         create_assignment(c, ss, blk, x, e).ok
  PROVE  Creating(create_assignment(c, ss, blk, x, e).ir, fs, ss, blk, n)
  <1> DEFINE d == create_assignment(c, ss, blk, x, e).ir
             r == _findReg(ss, x).rId
  <1>1. Built(c) /\ ss \in Seq(Scope) /\ blk \in 1..Len(c.block) /\ Scoping(ss, n)
    BY CallsBelow DEF Creating, Scoping
  <1>2. /\ Declared(ss, x)
        /\ \E v, u : Extends(c, v, blk, Loaded(ss)) /\ Adds(v, d, blk, "INST_ASSIGN_VAR", r, u)
    BY <1>1, Assigned
  <1>3. r \in 0..(n - 1)
    <2>1. PICK k \in 1..Len(ss) : r \in Visible(ss[k])
      BY <1>1, <1>2, Found
    <2> QED BY <1>1, <2>1 DEF Scoping
  <1> HIDE DEF d, r
  <1>4. PICK v, u : Extends(c, v, blk, Loaded(ss)) /\ Adds(v, d, blk, "INST_ASSIGN_VAR", r, u)
    BY <1>2
  <1>5. Creating(v, fs, ss, blk, n)
    <2>1. \A i \in Loaded(ss) : /\ ~IsJump(i)
                                /\ i.type = "INST_LOAD_VAR" => IsVisible(ss, i.rId)
                                /\ i.type = "INST_ASSIGN_VAR" => i.rId \in 0..(n - 1)
      BY DEF Loaded, IsJump
    <2> QED BY <1>4, <2>1, Keeps
  <1>6. Extends(v, d, blk, {d.inst[Len(v.inst) + 1]}) /\ d.inst[Len(v.inst) + 1].type = "INST_ASSIGN_VAR"
        /\ d.inst[Len(v.inst) + 1].rId = r
    BY <1>4 DEF Adds
  <1>7. \A i \in {d.inst[Len(v.inst) + 1]} : /\ ~IsJump(i)
                                             /\ i.type = "INST_LOAD_VAR" => IsVisible(ss, i.rId)
                                             /\ i.type = "INST_ASSIGN_VAR" => i.rId \in 0..(n - 1)
    BY <1>3, <1>6 DEF IsJump
  <1> QED BY <1>5, <1>6, <1>7, Keeps DEF d

\* A scope without variables, and one with another variable.
LEMMA ScopesAre ==
  /\ <<>> \in Scope /\ Visible(<<>>) = {}
  /\ \A map \in Scope : \A x \in Names \ DOMAIN map : \A var \in Var :
        /\ WithVariable(map, x, var) \in Scope
        /\ Visible(WithVariable(map, x, var)) = Visible(map) \cup {var.rId}
        /\ WithVariable(map, x, var)[x] = var /\ x \in DOMAIN WithVariable(map, x, var)
  <1>1. <<>> \in Scope
    <2>1. <<>> \in [{} -> Var]
      OBVIOUS
    <2>2. {} \in SUBSET Names
      OBVIOUS
    <2> QED BY <2>1, <2>2 DEF Scope
  <1>2. Visible(<<>>) = {}
    BY DEF Visible
  <1>3. ASSUME NEW map \in Scope, NEW x \in Names \ DOMAIN map, NEW var \in Var
        PROVE  /\ WithVariable(map, x, var) \in Scope
               /\ Visible(WithVariable(map, x, var)) = Visible(map) \cup {var.rId}
               /\ WithVariable(map, x, var)[x] = var /\ x \in DOMAIN WithVariable(map, x, var)
    <2> DEFINE new == WithVariable(map, x, var)
    <2>1. PICK A \in SUBSET Names : map \in [A -> Var]
      BY DEF Scope
    <2>2. new \in [A \cup {x} -> Var] /\ DOMAIN new = A \cup {x} /\ DOMAIN map = A
      BY <2>1 DEF WithVariable
    <2>3. A \cup {x} \in SUBSET Names
      BY <2>1
    <2>4. new \in Scope
      BY <2>2, <2>3 DEF Scope
    <2>5. new[x] = var /\ \A y \in A : new[y] = map[y]
      BY <2>1, <1>3 DEF WithVariable
    <2> HIDE DEF new
    <2>6. Visible(new) = Visible(map) \cup {var.rId}
      BY <2>2, <2>5 DEF Visible
    <2> QED BY <2>2, <2>4, <2>5, <2>6 DEF new
  <1> QED BY <1>1, <1>2, <1>3

\* The same of scopes.
LEMMA ScopesConsed ==
  ASSUME NEW ms \in Seq(Scope), NEW map \in Scope
  PROVE  /\ Cons(map, ms) \in Seq(Scope) /\ Len(Cons(map, ms)) = Len(ms) + 1 /\ Cons(map, ms)[1] = map
         /\ \A k \in 1..Len(ms) : k + 1 \in 1..Len(Cons(map, ms)) /\ Cons(map, ms)[k + 1] = ms[k]
         /\ \A k \in 1..Len(Cons(map, ms)) : k = 1 \/ (k - 1 \in 1..Len(ms) /\ Cons(map, ms)[k] = ms[k - 1])
         /\ Head(Cons(map, ms)) = map /\ Tail(Cons(map, ms)) = ms
  BY Consed, Zenon

\* type x = e;
LEMMA DeclarationCreates ==
  ASSUME NEW c, NEW fs, NEW top \in Scope, NEW ms \in Seq(Scope), NEW blk, NEW n, Creating(c, fs, Cons(top, ms), blk, n),
         NEW name \in Names \ DOMAIN top, NEW t \in ValueTypes, NEW e \in Expressions,
         NEW map, map = WithVariable(top, name, [rId |-> n, dataType |-> t]),
         create_assignment(c, Cons(map, ms), blk, name, e).ok
  PROVE  Creating(create_assignment(c, Cons(map, ms), blk, name, e).ir, fs, Cons(map, ms), blk, n + 1)
  <1> DEFINE d == create_assignment(c, Cons(map, ms), blk, name, e).ir
  <1>1. /\ Built(c) /\ n \in Nat /\ RegsKnown(c, n) /\ CallStack(fs, blk, Len(c.block))
        /\ Len(Cons(top, ms)) = Len(fs)
        /\ Scoping(Cons(top, ms), n) /\ RegionsOpen(c, fs, Cons(top, ms), blk, n) /\ Flow(c, fs, blk)
        /\ Shape(c, fs, blk)
        /\ blk \in 1..Len(c.block)
    BY CallsBelow DEF Creating
  <1>2. map \in Scope /\ Visible(map) = Visible(top) \cup {n} /\ map[name].rId = n /\ name \in DOMAIN map
    <2>1. [rId |-> n, dataType |-> t] \in Var
      BY <1>1 DEF Var
    <2> QED BY <2>1, ScopesAre
  <1>3. /\ Cons(map, ms) \in Seq(Scope) /\ Len(Cons(map, ms)) = Len(ms) + 1 /\ Cons(map, ms)[1] = map
        /\ \A k \in 1..Len(ms) : k + 1 \in 1..Len(Cons(map, ms)) /\ Cons(map, ms)[k + 1] = ms[k]
        /\ \A k \in 1..Len(Cons(map, ms)) : k = 1 \/ (k - 1 \in 1..Len(ms) /\ Cons(map, ms)[k] = ms[k - 1])
        /\ Head(Cons(map, ms)) = map /\ Tail(Cons(map, ms)) = ms
    BY <1>2, ScopesConsed, ZenonT(40)
  <1>4. /\ Cons(top, ms) \in Seq(Scope) /\ Len(Cons(top, ms)) = Len(ms) + 1 /\ Cons(top, ms)[1] = top
        /\ \A k \in 1..Len(ms) : k + 1 \in 1..Len(Cons(top, ms)) /\ Cons(top, ms)[k + 1] = ms[k]
        /\ \A k \in 1..Len(Cons(top, ms)) : k = 1 \/ (k - 1 \in 1..Len(ms) /\ Cons(top, ms)[k] = ms[k - 1])
        /\ Head(Cons(top, ms)) = top /\ Tail(Cons(top, ms)) = ms
    BY ScopesConsed, Zenon
  <1> DEFINE ts == Cons(map, ms)
  <1>5. Scoping(ts, n + 1)
    <2>1. \A k \in 1..Len(ms) : \A r \in Visible(ms[k]) : r \in 0..(n - 1)
      BY <1>1, <1>4 DEF Scoping
    <2>2. \A r \in Visible(top) : r \in 0..(n - 1)
      <3>1. 1 \in 1..Len(Cons(top, ms))
        BY <1>4
      <3> QED BY <1>1, <1>4, <3>1 DEF Scoping
    <2>0. (n + 1) - 1 = n /\ ts \in Seq(Scope)
      BY <1>1, <1>3
    <2> HIDE DEF ts
    <2>3. SUFFICES ASSUME NEW k \in 1..Len(ts), NEW r \in Visible(ts[k]) PROVE r \in 0..n
      BY <2>0 DEF Scoping
    <2>4. CASE k = 1
      <3>1. ts[1] = map
        BY <1>3 DEF ts
      <3> QED BY <1>1, <1>2, <2>2, <2>3, <2>4, <3>1
    <2>5. CASE k # 1
      <3>1. k - 1 \in 1..Len(ms) /\ ts[k] = ms[k - 1]
        BY <1>3, <2>5 DEF ts
      <3>2. r \in 0..(n - 1)
        BY <2>1, <2>3, <3>1
      <3> QED BY <1>1, <3>2
    <2> QED BY <2>4, <2>5
  <1>6. _findReg(ts, name).rId = n
    <2>1. Declared(ts, name)
      <3>1. 1 \in DOMAIN ts /\ name \in DOMAIN ts[1]
        BY <1>2, <1>3
      <3> QED BY <3>1 DEF Declared
    <2>2. PICK k \in 1..Len(ts) : /\ name \in DOMAIN ts[k] /\ _findReg(ts, name) = ts[k][name]
                                  /\ \A m \in 1..(k - 1) : name \notin DOMAIN ts[m]
      BY <1>3, <2>1, Found
    <2>3. k = 1
      <3>1. k # 1 => 1 \in 1..(k - 1)
        BY <1>3
      <3> QED BY <1>2, <1>3, <2>2, <3>1
    <2> QED BY <1>2, <1>3, <2>2, <2>3
  <1>7. \E v, u : Extends(c, v, blk, Loaded(ts)) /\ Adds(v, d, blk, "INST_ASSIGN_VAR", _findReg(ts, name).rId, u)
    BY <1>1, <1>3, Assigned
  <1> HIDE DEF d
  <1>8. PICK v, u : Extends(c, v, blk, Loaded(ts)) /\ Adds(v, d, blk, "INST_ASSIGN_VAR", n, u)
    BY <1>6, <1>7
  <1>9. RegionsOpen(d, fs, ts, blk, n + 1)
    BY <1>1, <1>2, <1>8, RegionsDeclare
  <1>10. Extends(v, d, blk, {d.inst[Len(v.inst) + 1]}) /\ d.inst[Len(v.inst) + 1].type = "INST_ASSIGN_VAR"
         /\ d.inst[Len(v.inst) + 1].rId = n
    BY <1>8 DEF Adds
  <1>11. /\ Built(v) /\ Built(d) /\ Len(v.block) = Len(c.block) /\ Len(d.block) = Len(c.block)
    BY <1>8, <1>10 DEF Extends
  <1> HIDE DEF ts
  <1>15. CallStack(fs, blk, Len(d.block)) /\ n + 1 \in Nat
    BY <1>1, <1>11
  <1>12. Flow(d, fs, blk) /\ Shape(d, fs, blk)
    <2>1. Flow(v, fs, blk) /\ Shape(v, fs, blk)
      <3>1. \A i \in Loaded(ts) : ~IsJump(i)
        BY DEF Loaded, IsJump
      <3>2. Flow(v, fs, blk)
        BY <1>1, <1>8, <3>1, FlowExtends
      <3>3. Shape(v, fs, blk)
        BY <1>1, <1>8, <3>1, ShapeExtends
      <3> QED BY <3>2, <3>3
    <2>2. \A i \in {d.inst[Len(v.inst) + 1]} : ~IsJump(i)
      BY <1>10 DEF IsJump
    <2>3. CallStack(fs, blk, Len(v.block))
      BY <1>1, <1>11
    <2>4. Flow(d, fs, blk)
      BY <1>10, <1>11, <2>1, <2>2, <2>3, FlowExtends
    <2>5. Shape(d, fs, blk)
      BY <1>10, <1>11, <2>1, <2>2, <2>3, ShapeExtends
    <2> QED BY <2>4, <2>5
  <1>13. RegsKnown(d, n + 1)
    <2>1. RegsKnown(c, n + 1)
      BY <1>1 DEF RegsKnown
    <2>2. RegsKnown(v, n + 1)
      <3>1. \A r : IsVisible(ts, r) => r \in 0..((n + 1) - 1)
        <4>1. \A k \in 1..Len(ts) : \A r \in Visible(ts[k]) : r \in 0..((n + 1) - 1)
          BY <1>5 DEF Scoping
        <4> QED BY <4>1 DEF IsVisible
      <3>2. \A i \in Loaded(ts) : i.type \in {"INST_LOAD_VAR", "INST_ASSIGN_VAR"} => i.rId \in 0..((n + 1) - 1)
        BY <3>1 DEF Loaded
      <3> QED BY <1>1, <1>8, <1>15, <2>1, <3>2, RegsExtend
    <2>3. \A i \in {d.inst[Len(v.inst) + 1]} : i.type \in {"INST_LOAD_VAR", "INST_ASSIGN_VAR"} => i.rId \in 0..((n + 1) - 1)
      BY <1>1, <1>10
    <2>4. n + 1 \in Nat /\ blk \in 1..Len(v.block)
      BY <1>1, <1>11
    <2> QED BY <1>10, <1>11, <2>2, <2>3, <2>4, RegsExtend
  <1>14. Len(ts) = Len(fs)
    BY <1>1, <1>3, <1>4 DEF ts
  <1>16. Creating(d, fs, ts, blk, n + 1)
    BY <1>5, <1>9, <1>11, <1>12, <1>13, <1>14, <1>15 DEF Creating
  <1> QED BY <1>16 DEF d, ts

\* return;
LEMMA ReturnCreates ==
  ASSUME NEW c, NEW fs, NEW ss, NEW blk, NEW n, Creating(c, fs, ss, blk, n)
  PROVE  Creating(block_insert(inst_new_return(c), blk, Len(c.inst) + 1), fs, ss, blk, n)
  <1> DEFINE d == block_insert(inst_new_return(c), blk, Len(c.inst) + 1)
  <1>1. Built(c) /\ blk \in 1..Len(c.block)
    BY CallsBelow DEF Creating
  <1>2. \E u \in Seq(Values) : Len(u) = 0 /\ Adds(c, d, blk, "INST_RETURN", 0, u)
    BY <1>1, AddReturn
  <1> HIDE DEF d
  <1>3. Extends(c, d, blk, {d.inst[Len(c.inst) + 1]}) /\ d.inst[Len(c.inst) + 1].type = "INST_RETURN"
    BY <1>2 DEF Adds
  <1>4. \A i \in {d.inst[Len(c.inst) + 1]} : /\ ~IsJump(i)
                                             /\ i.type = "INST_LOAD_VAR" => IsVisible(ss, i.rId)
                                             /\ i.type = "INST_ASSIGN_VAR" => i.rId \in 0..(n - 1)
    BY <1>3 DEF IsJump
  <1> QED BY <1>3, <1>4, Keeps DEF d

\* A new scope has no variables, so every register stays where it was.
LEMMA ScopingPushed ==
  ASSUME NEW ss, NEW n, Scoping(ss, n)
  PROVE  Scoping(Cons(<<>>, ss), n) /\ Len(Cons(<<>>, ss)) = Len(ss) + 1
  <1>1. ss \in Seq(Scope) /\ <<>> \in Scope /\ Visible(<<>>) = {}
    BY ScopesAre DEF Scoping
  <1> DEFINE ts == Cons(<<>>, ss)
  <1>2. /\ Cons(<<>>, ss) \in Seq(Scope) /\ Len(Cons(<<>>, ss)) = Len(ss) + 1 /\ Cons(<<>>, ss)[1] = <<>>
        /\ \A k \in 1..Len(ss) : k + 1 \in 1..Len(Cons(<<>>, ss)) /\ Cons(<<>>, ss)[k + 1] = ss[k]
        /\ \A k \in 1..Len(Cons(<<>>, ss)) : k = 1 \/ (k - 1 \in 1..Len(ss) /\ Cons(<<>>, ss)[k] = ss[k - 1])
        /\ Head(Cons(<<>>, ss)) = <<>> /\ Tail(Cons(<<>>, ss)) = ss
    BY <1>1, ScopesConsed, Zenon
  <1>3. \A k \in 1..Len(ts) : \A r \in Visible(ts[k]) : r \in 0..(n - 1)
    <2>1. SUFFICES ASSUME NEW k \in 1..Len(ts), NEW r \in Visible(ts[k]) PROVE r \in 0..(n - 1)
      OBVIOUS
    <2>2. k # 1
      BY <1>1, <1>2, <2>1
    <2> QED BY <1>2, <2>1, <2>2 DEF Scoping
  <1> QED BY <1>2, <1>3 DEF Scoping

\* if: what is known at the end of the condition holds at the start of the body.
LEMMA IfCreates ==
  ASSUME NEW c, NEW fs, NEW ss, NEW blk, NEW n, Creating(c, fs, ss, blk, n), NEW e \in Conditions,
         create_value(c, ss, blk, e).ok
  PROVE  LET v == create_value(c, ss, blk, e)
             f == [kind |-> "IF", cond |-> ValueOf(v), bblock |-> Len(v.ir.block) + 1, oldBlock |-> blk]
         IN  Creating(block_new(v.ir), Cons(f, fs), Cons(<<>>, ss), f.bblock, n)
  <1> DEFINE v == create_value(c, ss, blk, e)
             f == [kind |-> "IF", cond |-> ValueOf(v), bblock |-> Len(v.ir.block) + 1, oldBlock |-> blk]
             b == v.ir
             d == block_new(v.ir)
  <1>1. Built(c) /\ ss \in Seq(Scope) /\ blk \in 1..Len(c.block)
    BY CallsBelow DEF Creating, Scoping
  <1>2. Extends(c, b, blk, Loaded(ss)) /\ ValueOf(v) \in Operands
    BY <1>1, ValueCreated
  <1>3. Creating(b, fs, ss, blk, n)
    <2>1. \A i \in Loaded(ss) : /\ ~IsJump(i)
                                /\ i.type = "INST_LOAD_VAR" => IsVisible(ss, i.rId)
                                /\ i.type = "INST_ASSIGN_VAR" => i.rId \in 0..(n - 1)
      BY DEF Loaded, IsJump
    <2> HIDE DEF b
    <2> QED BY <1>2, <2>1, Keeps
  <1> HIDE DEF v
  <1>4. /\ Built(b) /\ n \in Nat /\ RegsKnown(b, n) /\ CallStack(fs, blk, Len(b.block)) /\ Len(ss) = Len(fs)
        /\ Scoping(ss, n) /\ RegionsOpen(b, fs, ss, blk, n) /\ Flow(b, fs, blk) /\ Shape(b, fs, blk)
    BY <1>3 DEF Creating
  <1>5. blk \in 1..Len(b.block) /\ Len(b.block) \in Nat /\ fs \in Seq(Frame)
    BY <1>4, CallsBelow
  <1>6. f \in Frame /\ f.kind = "IF" /\ f.oldBlock = blk /\ f.bblock = Len(b.block) + 1
    BY <1>2, <1>5 DEF Frame
  <1>7. Grown(b, d)
    BY <1>4, BlockMade DEF Grown
  <1> HIDE DEF b, d, f
  <1>8. Built(d) /\ Len(d.block) = Len(b.block) + 1 /\ RegsKnown(d, n)
    BY <1>4, <1>7 DEF Grown, RegsKnown
  <1>9. CallStack(Cons(f, fs), f.bblock, Len(d.block))
    <2>1. InOrder(f, Len(d.block)) /\ f.bblock \in 1..Len(d.block) /\ Len(b.block) <= Len(d.block)
          /\ Len(d.block) \in Nat /\ f.kind # "FUNCTION" /\ f.bblock <= f.bblock
      BY <1>5, <1>6, <1>8 DEF InOrder
    <2> QED BY <1>4, <1>6, <2>1, CallPushed
  <1>10. RegionsOpen(d, Cons(f, fs), Cons(<<>>, ss), f.bblock, n)
    <2>1. <<>> \in Scope /\ Visible(<<>>) = {}
      BY ScopesAre
    <2> QED BY <1>1, <1>4, <1>6, <1>7, <2>1, RegionsIf
  <1>11. Flow(d, Cons(f, fs), f.bblock)
    BY <1>4, <1>6, <1>7, FlowIf
  <1>14. Shape(d, Cons(f, fs), f.bblock)
    BY <1>4, <1>6, <1>7, ShapeIf
  <1>12. Scoping(Cons(<<>>, ss), n) /\ Len(Cons(<<>>, ss)) = Len(Cons(f, fs))
    <2>1. Scoping(Cons(<<>>, ss), n) /\ Len(Cons(<<>>, ss)) = Len(ss) + 1
      BY <1>4, ScopingPushed
    <2>2. Len(Cons(f, fs)) = Len(fs) + 1
      BY <1>5, <1>6, Consed
    <2> QED BY <1>4, <2>1, <2>2
  <1>13. Creating(d, Cons(f, fs), Cons(<<>>, ss), f.bblock, n)
    BY <1>4, <1>8, <1>9, <1>10, <1>11, <1>12, <1>14 DEF Creating
  <1> QED BY <1>13 DEF d, f, b, v

\* A jump or a branch that was made and put at the end of a block.
LEMMA JumpMade ==
  ASSUME NEW c, Built(c), NEW b \in 1..Len(c.block), NEW t \in 1..Len(c.block)
  PROVE  \E u : LET d == block_insert(inst_new_jump(c, t), b, Len(inst_new_jump(c, t).inst))
                IN  /\ Len(u) = 1 /\ u[1] = BlockValue(t)
                    /\ Adds(c, d, b, "INST_JUMP", 0, u) /\ Jumped(c, d, b, "INST_JUMP", u)
  <1> DEFINE d == block_insert(inst_new_jump(c, t), b, Len(c.inst) + 1)
  <1>1. /\ Len(inst_new_jump(c, t).inst) = Len(c.inst) + 1
        /\ \E u \in Seq(Values) :
              /\ Len(u) = 1 /\ u[1] = BlockValue(t)
              /\ Adds(c, block_insert(inst_new_jump(c, t), b, Len(c.inst) + 1), b, "INST_JUMP", 0, u)
    BY AddJump, Zenon
  <1>2. PICK u \in Seq(Values) : Len(u) = 1 /\ u[1] = BlockValue(t) /\ Adds(c, d, b, "INST_JUMP", 0, u)
    BY <1>1
  <1>3. Jumped(c, d, b, "INST_JUMP", u)
    <2> HIDE DEF d
    <2> QED BY <1>2, AddedJump
  <1> QED BY <1>1, <1>2, <1>3

\* create_if and create_while end a block with the conditional jump they make.
LEMMA BranchMade ==
  ASSUME NEW c, Built(c), NEW b \in 1..Len(c.block), NEW t \in 1..Len(c.block), NEW e \in 1..Len(c.block),
         NEW v \in Operands
  PROVE  \E u : LET d == block_insert(inst_new_jump_cond(c, t, e, v), b, Len(inst_new_jump_cond(c, t, e, v).inst))
                IN  /\ Len(u) = 3 /\ u[1] = BlockValue(t) /\ u[2] = BlockValue(e) /\ u[3] \in Operands
                    /\ Jumped(c, d, b, "INST_JUMP_COND", u)
  <1> DEFINE d == block_insert(inst_new_jump_cond(c, t, e, v), b, Len(c.inst) + 1)
  <1>1. /\ Len(inst_new_jump_cond(c, t, e, v).inst) = Len(c.inst) + 1
        /\ \E u \in Seq(Values) :
              /\ Len(u) = 3 /\ u[1] = BlockValue(t) /\ u[2] = BlockValue(e) /\ u[3] = v
              /\ Adds(c, block_insert(inst_new_jump_cond(c, t, e, v), b, Len(c.inst) + 1), b, "INST_JUMP_COND", 0, u)
    BY AddJumpCond, Zenon
  <1>2. PICK u \in Seq(Values) : /\ Len(u) = 3 /\ u[1] = BlockValue(t) /\ u[2] = BlockValue(e) /\ u[3] = v
                                 /\ Adds(c, d, b, "INST_JUMP_COND", 0, u)
    BY <1>1
  <1>3. Jumped(c, d, b, "INST_JUMP_COND", u)
    <2> HIDE DEF d
    <2> QED BY <1>2, AddedJump
  <1> QED BY <1>1, <1>2, <1>3

\* Jumps and new blocks use no register.
LEMMA RegsStay ==
  ASSUME NEW c, Built(c), NEW n \in Nat, RegsKnown(c, n)
  PROVE  /\ \A d : Grown(c, d) => RegsKnown(d, n)
         /\ \A d, b, type, u : b \in 1..Len(c.block) /\ Jumped(c, d, b, type, u) => RegsKnown(d, n)
  <1>1. ASSUME NEW d, Grown(c, d) PROVE RegsKnown(d, n)
    BY <1>1 DEF Grown, RegsKnown
  <1>2. ASSUME NEW d, NEW b \in 1..Len(c.block), NEW type, NEW u, Jumped(c, d, b, type, u) PROVE RegsKnown(d, n)
    <2>1. PICK New : /\ Extends(c, d, b, New)
                     /\ \A i \in New : IsJump(i) /\ i.uses = u /\ i.type \notin {"INST_LOAD_VAR", "INST_ASSIGN_VAR"}
      BY <1>2 DEF Jumped
    <2> QED BY <2>1, RegsExtend
  <1> QED BY <1>1, <1>2

\* while: the head is made and entered, and the body is made.
LEMMA WhileCreates ==
  ASSUME NEW c, NEW fs, NEW ss, NEW blk, NEW n, Creating(c, fs, ss, blk, n), NEW e \in Conditions
  PROVE  LET h == Len(c.block) + 1
             b1 == block_new(c)
             b2 == block_insert(inst_new_jump(b1, h), blk, Len(b1.inst) + 1)
             f == [kind |-> "WHILE", head |-> h, condition |-> e, bblock |-> Len(b2.block) + 1, oldBlock |-> blk]
         IN  Creating(block_new(b2), Cons(f, fs), Cons(<<>>, ss), f.bblock, n)
  <1> DEFINE h == Len(c.block) + 1
             b1 == block_new(c)
             b2 == block_insert(inst_new_jump(b1, h), blk, Len(b1.inst) + 1)
             f == [kind |-> "WHILE", head |-> h, condition |-> e, bblock |-> Len(b2.block) + 1, oldBlock |-> blk]
             d == block_new(b2)
  <1>1. /\ Built(c) /\ n \in Nat /\ RegsKnown(c, n) /\ CallStack(fs, blk, Len(c.block)) /\ Len(ss) = Len(fs)
        /\ Scoping(ss, n) /\ RegionsOpen(c, fs, ss, blk, n) /\ Flow(c, fs, blk) /\ Shape(c, fs, blk)
    BY DEF Creating
  <1>2. blk \in 1..Len(c.block) /\ Len(c.block) \in Nat /\ fs \in Seq(Frame) /\ ss \in Seq(Scope)
    BY <1>1, CallsBelow DEF Scoping
  <1>3. Grown(c, b1)
    BY <1>1, BlockMade DEF Grown
  <1>4. Built(b1) /\ Len(b1.block) = h /\ blk \in 1..Len(b1.block) /\ h \in 1..Len(b1.block)
    BY <1>2, <1>3 DEF Grown
  <1> HIDE DEF b1, h
  <1>5. PICK u : Len(u) = 1 /\ u[1] = BlockValue(h) /\ Adds(b1, b2, blk, "INST_JUMP", 0, u)
    <2>1. /\ Len(inst_new_jump(b1, h).inst) = Len(b1.inst) + 1
          /\ \E u \in Seq(Values) :
                /\ Len(u) = 1 /\ u[1] = BlockValue(h)
                /\ Adds(b1, block_insert(inst_new_jump(b1, h), blk, Len(b1.inst) + 1), blk, "INST_JUMP", 0, u)
      BY <1>4, AddJump, Zenon
    <2> QED BY <2>1
  <1> HIDE DEF b2
  <1>6. Jumped(b1, b2, blk, "INST_JUMP", u)
    BY <1>4, <1>5, AddedJump
  <1>7. Built(b2) /\ Len(b2.block) = h
    BY <1>4, <1>6 DEF Jumped
  <1>8. Grown(b2, d)
    BY <1>7, BlockMade DEF Grown
  <1>9. f \in Frame /\ f.kind = "WHILE" /\ f.oldBlock = blk /\ f.head = h /\ f.bblock = h + 1
    BY <1>2, <1>7 DEF Frame, h
  <1> HIDE DEF d, f
  <1>10. Built(d) /\ Len(d.block) = h + 1
    BY <1>7, <1>8 DEF Grown
  <1>11. RegsKnown(d, n)
    <2>1. RegsKnown(b1, n)
      BY <1>1, <1>3, RegsStay
    <2>2. RegsKnown(b2, n)
      BY <1>1, <1>4, <1>6, <2>1, RegsStay
    <2> QED BY <1>1, <1>7, <1>8, <2>2, RegsStay
  <1>12. CallStack(Cons(f, fs), f.bblock, Len(d.block))
    <2>1. InOrder(f, Len(d.block)) /\ f.bblock \in 1..Len(d.block) /\ Len(c.block) <= Len(d.block)
          /\ Len(d.block) \in Nat /\ f.kind # "FUNCTION" /\ f.bblock <= f.bblock
      BY <1>2, <1>9, <1>10 DEF InOrder, h
    <2> QED BY <1>1, <1>9, <2>1, CallPushed
  <1>13. RegionsOpen(d, Cons(f, fs), Cons(<<>>, ss), f.bblock, n)
    <2>1. <<>> \in Scope /\ Visible(<<>>) = {}
      BY ScopesAre
    <2>2. u[1] = BlockValue(Len(c.block) + 1) /\ f.head = Len(c.block) + 1 /\ f.bblock = Len(c.block) + 2
      BY <1>2, <1>5, <1>9 DEF h
    <2> QED BY <1>1, <1>2, <1>3, <1>5, <1>6, <1>8, <1>9, <2>1, <2>2, RegionsWhile
  <1>14. Flow(d, Cons(f, fs), f.bblock)
    <2>1. u[1] = BlockValue(Len(c.block) + 1) /\ f.head = Len(c.block) + 1 /\ f.bblock = Len(c.block) + 2
      BY <1>2, <1>5, <1>9 DEF h
    <2> QED BY <1>1, <1>3, <1>5, <1>8, <1>9, <2>1, FlowWhile
  <1>17. Shape(d, Cons(f, fs), f.bblock)
    <2>1. Kept(c, b1) /\ Kept(b2, d)
      BY <1>1, <1>3, <1>7, <1>8, GrownKept
    <2>2. Added(b1, b2, blk, {h})
      <3>1. \A t \in Nat : (\E s \in 1..Len(u) : u[s] = BlockValue(t)) <=> t \in {h}
        <4>1. h \in Nat
          BY <1>2 DEF h
        <4> QED BY <1>5, <4>1, OneTo
      <3> QED BY <1>4, <1>6, <3>1, JumpedAdded
    <2>3. NoJump(c, blk)
      BY <1>1 DEF Flow
    <2>4. h = Len(c.block) + 1
      BY DEF h
    <2> QED BY <1>1, <1>4, <1>9, <1>10, <2>1, <2>2, <2>3, <2>4, ShapeWhile
  <1>15. Scoping(Cons(<<>>, ss), n) /\ Len(Cons(<<>>, ss)) = Len(Cons(f, fs))
    <2>1. Scoping(Cons(<<>>, ss), n) /\ Len(Cons(<<>>, ss)) = Len(ss) + 1
      BY <1>1, ScopingPushed
    <2>2. Len(Cons(f, fs)) = Len(fs) + 1
      BY <1>2, <1>9, Consed
    <2> QED BY <1>1, <2>1, <2>2
  <1>16. Creating(d, Cons(f, fs), Cons(<<>>, ss), f.bblock, n)
    BY <1>1, <1>10, <1>11, <1>12, <1>13, <1>14, <1>15, <1>17 DEF Creating
  <1> QED BY <1>16 DEF d, f, b2, b1, h

\* The scope of a block is left.
LEMMA ScopingPopped ==
  ASSUME NEW ms \in Seq(Scope), NEW map \in Scope, NEW gs \in Seq(Frame), NEW f \in Frame, NEW n,
         Scoping(Cons(map, ms), n), Len(Cons(map, ms)) = Len(Cons(f, gs))
  PROVE  Scoping(ms, n) /\ Len(ms) = Len(gs)
  <1>1. /\ Cons(map, ms) \in Seq(Scope) /\ Len(Cons(map, ms)) = Len(ms) + 1 /\ Cons(map, ms)[1] = map
        /\ \A k \in 1..Len(ms) : k + 1 \in 1..Len(Cons(map, ms)) /\ Cons(map, ms)[k + 1] = ms[k]
        /\ \A k \in 1..Len(Cons(map, ms)) : k = 1 \/ (k - 1 \in 1..Len(ms) /\ Cons(map, ms)[k] = ms[k - 1])
        /\ Head(Cons(map, ms)) = map /\ Tail(Cons(map, ms)) = ms
    BY ScopesConsed, Zenon
  <1>2. Len(Cons(f, gs)) = Len(gs) + 1
    BY Consed
  <1>3. Len(ms) = Len(gs)
    <2>1. Len(ms) \in Nat /\ Len(gs) \in Nat
      OBVIOUS
    <2>2. Len(Cons(map, ms)) = Len(ms) + 1
      BY <1>1
    <2>3. Len(ms) + 1 = Len(gs) + 1
      BY <1>2, <2>2, Zenon
    <2> QED BY <2>1, <2>3
  <1> QED BY <1>1, <1>3 DEF Scoping

\* The end of an if: what holds at the end of the body holds after it.
LEMMA EndIfCreates ==
  ASSUME NEW gs \in Seq(Frame), NEW f \in Frame, f.kind = "IF", NEW ms \in Seq(Scope), NEW map \in Scope,
         NEW blk, NEW n, Creating(ir, Cons(f, gs), Cons(map, ms), blk, n)
  PROVE  Creating(FinishIf(f, blk).ir, gs, ms, FinishIf(f, blk).block, n)
  <1> DEFINE rest == Len(ir.block) + 1
             r1 == block_new(ir)
             r2 == inst_new_jump_cond(r1, f.bblock, rest, f.cond)
             r3 == block_insert(r2, f.oldBlock, Len(r2.inst))
             r4 == inst_new_jump(r3, rest)
             d == block_insert(r4, blk, Len(r4.inst))
  <1>1. /\ Built(ir) /\ n \in Nat /\ RegsKnown(ir, n) /\ CallStack(Cons(f, gs), blk, Len(ir.block))
        /\ Len(Cons(map, ms)) = Len(Cons(f, gs)) /\ Scoping(Cons(map, ms), n)
        /\ RegionsOpen(ir, Cons(f, gs), Cons(map, ms), blk, n) /\ Flow(ir, Cons(f, gs), blk)
        /\ Shape(ir, Cons(f, gs), blk)
    BY DEF Creating
  <1>2. Scoping(ms, n) /\ Len(ms) = Len(gs)
    BY <1>1, ScopingPopped
  <1>3. /\ CallStack(gs, f.oldBlock, Len(ir.block)) /\ InOrder(f, Len(ir.block)) /\ blk \in 1..Len(ir.block)
        /\ Len(ir.block) \in Nat /\ f.bblock \in 1..Len(ir.block) /\ f.oldBlock \in 1..Len(ir.block)
        /\ f.cond \in Operands
    <2>1. CallStack(gs, f.oldBlock, Len(ir.block)) /\ InOrder(f, Len(ir.block)) /\ blk \in 1..Len(ir.block)
          /\ Len(ir.block) \in Nat
      BY <1>1, CallPopped
    <2> QED BY <2>1 DEF InOrder, Frame
  <1>4. FinishIf(f, blk).ir = d /\ FinishIf(f, blk).block = rest
    BY DEF FinishIf
  <1>5. Grown(ir, r1)
    BY <1>1, BlockMade DEF Grown
  <1>6. /\ Built(r1) /\ Len(r1.block) = rest /\ f.oldBlock \in 1..Len(r1.block)
        /\ f.bblock \in 1..Len(r1.block) /\ rest \in 1..Len(r1.block)
    BY <1>3, <1>5 DEF Grown
  <1> HIDE DEF r1, rest
  <1>7. PICK u : /\ Len(u) = 3 /\ u[1] = BlockValue(f.bblock) /\ u[2] = BlockValue(rest) /\ u[3] \in Operands
                 /\ Jumped(r1, r3, f.oldBlock, "INST_JUMP_COND", u)
    BY <1>3, <1>6, BranchMade
  <1> HIDE DEF r2, r3
  <1>8. Built(r3) /\ Len(r3.block) = rest /\ rest \in 1..Len(r3.block) /\ blk \in 1..Len(r3.block)
    BY <1>3, <1>6, <1>7 DEF Jumped, rest
  <1>9. PICK w : Len(w) = 1 /\ w[1] = BlockValue(rest) /\ Jumped(r3, d, blk, "INST_JUMP", w)
    BY <1>8, JumpMade
  <1> HIDE DEF r4, d
  <1>10. Built(d) /\ Len(d.block) = rest
    BY <1>8, <1>9 DEF Jumped
  <1>11. RegsKnown(d, n)
    <2>1. RegsKnown(r1, n)
      BY <1>1, <1>5, RegsStay
    <2>2. RegsKnown(r3, n)
      BY <1>1, <1>6, <1>7, <2>1, RegsStay
    <2> QED BY <1>1, <1>8, <1>9, <2>2, RegsStay
  <1>12. u[2] = BlockValue(Len(ir.block) + 1) /\ w[1] = BlockValue(Len(ir.block) + 1) /\ rest = Len(ir.block) + 1
    BY <1>7, <1>9 DEF rest
  <1>13. CallStack(gs, rest, Len(d.block))
    <2>1. Len(ir.block) <= Len(d.block) /\ Len(d.block) \in Nat /\ rest \in 1..Len(d.block) /\ f.oldBlock <= rest
      BY <1>3, <1>10, <1>12
    <2> QED BY <1>3, <2>1, CallMoves
  <1>14. RegionsOpen(d, gs, ms, rest, n)
    <2>1. RegionsOpen(d, gs, ms, Len(ir.block) + 1, n)
      BY <1>1, <1>2, <1>5, <1>7, <1>9, <1>12, RegionsEndIf
    <2> QED BY <1>12, <2>1
  <1>15. Flow(d, gs, rest)
    <2>1. Flow(d, gs, Len(ir.block) + 1)
      BY <1>1, <1>5, <1>7, <1>9, <1>12, FlowEndIf
    <2> QED BY <1>12, <2>1
  <1>17. Shape(d, gs, rest)
    <2> DEFINE old == f.oldBlock
               body == f.bblock
    <2>1. NoJump(ir, old) /\ NoJump(ir, blk)
      <3>1. old \in {blk} \cup Waits(Cons(f, gs))
        BY Pushed DEF WaitIn
      <3> QED BY <1>1, <3>1 DEF Flow
    <2>2. Kept(ir, r1)
      BY <1>1, <1>5, GrownKept
    <2>3. body \in Nat /\ rest \in Nat
      BY <1>3, <1>12
    <2>4. Added(r1, r3, old, {body, rest})
      <3>1. Len(u) = 3 /\ u[1] = BlockValue(body) /\ u[2] = BlockValue(rest) /\ u[3] \in Operands
        BY <1>7
      <3>2. \A t \in Nat : (\E s \in 1..Len(u) : u[s] = BlockValue(t)) <=> t \in {body, rest}
        <4> HIDE DEF body
        <4> QED BY <2>3, <3>1, TwoTo
      <3> QED BY <1>6, <1>7, <3>2, JumpedAdded
    <2>5. Added(r3, d, blk, {rest})
      <3>1. \A t \in Nat : (\E s \in 1..Len(w) : w[s] = BlockValue(t)) <=> t \in {rest}
        BY <1>9, <2>3, OneTo
      <3> QED BY <1>8, <1>9, <3>1, JumpedAdded
    <2>6. old = f.oldBlock /\ body = f.bblock
      OBVIOUS
    <2> HIDE DEF old, body
    <2> QED BY <1>1, <1>6, <1>12, <2>1, <2>2, <2>4, <2>5, <2>6, ShapeEndIf
  <1>16. Creating(d, gs, ms, rest, n)
    BY <1>1, <1>2, <1>10, <1>11, <1>13, <1>14, <1>15, <1>17 DEF Creating
  <1> QED BY <1>4, <1>16

\* The end of a while, unless an assert fails in the condition.
LEMMA EndWhileCreates ==
  ASSUME NEW gs \in Seq(Frame), NEW f \in Frame, f.kind = "WHILE", NEW ms \in Seq(Scope), NEW map \in Scope,
         NEW blk, NEW n, Creating(ir, Cons(f, gs), Cons(map, ms), blk, n), FinishWhile(f, blk, ms).ok
  PROVE  Creating(FinishWhile(f, blk, ms).ir, gs, ms, FinishWhile(f, blk, ms).block, n)
  <1> DEFINE r1 == inst_new_jump(ir, f.head)
             r2 == block_insert(r1, f.bblock, Len(r1.inst))
             exit == Len(r2.block) + 1
             b == block_new(r2)
             cond == create_value(b, ms, f.head, f.condition)
             q == cond.ir
             r3 == inst_new_jump_cond(q, f.bblock, exit, ValueOf(cond))
             d == block_insert(r3, f.head, Len(r3.inst))
  <1>1. /\ Built(ir) /\ n \in Nat /\ RegsKnown(ir, n) /\ CallStack(Cons(f, gs), blk, Len(ir.block))
        /\ Len(Cons(map, ms)) = Len(Cons(f, gs)) /\ Scoping(Cons(map, ms), n)
        /\ RegionsOpen(ir, Cons(f, gs), Cons(map, ms), blk, n) /\ Flow(ir, Cons(f, gs), blk)
        /\ Shape(ir, Cons(f, gs), blk)
    BY DEF Creating
  <1>2. Scoping(ms, n) /\ Len(ms) = Len(gs)
    BY <1>1, ScopingPopped
  <1>3. /\ CallStack(gs, f.oldBlock, Len(ir.block)) /\ InOrder(f, Len(ir.block)) /\ blk \in 1..Len(ir.block)
        /\ Len(ir.block) \in Nat /\ f.bblock \in 1..Len(ir.block) /\ f.oldBlock \in 1..Len(ir.block)
        /\ f.head \in 1..Len(ir.block) /\ f.condition \in Conditions
    <2>1. CallStack(gs, f.oldBlock, Len(ir.block)) /\ InOrder(f, Len(ir.block)) /\ blk \in 1..Len(ir.block)
          /\ Len(ir.block) \in Nat
      BY <1>1, CallPopped
    <2> QED BY <2>1 DEF InOrder, Frame
  <1>4. cond.ok
    BY DEF FinishWhile
  <1>5. FinishWhile(f, blk, ms).ir = d /\ FinishWhile(f, blk, ms).block = exit
    BY <1>4 DEF FinishWhile
  <1>6. PICK w : Len(w) = 1 /\ w[1] = BlockValue(f.head) /\ Jumped(ir, r2, f.bblock, "INST_JUMP", w)
    BY <1>1, <1>3, JumpMade
  <1> HIDE DEF r1, r2
  <1>7. Built(r2) /\ exit = Len(ir.block) + 1
    BY <1>6 DEF Jumped
  <1>8. Grown(r2, b)
    BY <1>7, BlockMade DEF Grown
  <1>9. Built(b) /\ Len(b.block) = exit /\ f.head \in 1..Len(b.block)
    BY <1>3, <1>7, <1>8 DEF Grown
  <1> HIDE DEF b, exit
  <1>10. Extends(b, q, f.head, Loaded(ms)) /\ ValueOf(cond) \in Operands
    BY <1>3, <1>4, <1>9, ValueCreated
  <1> HIDE DEF cond, q
  <1>11. Built(q) /\ Len(q.block) = exit /\ f.head \in 1..Len(q.block) /\ f.bblock \in 1..Len(q.block) /\ exit \in 1..Len(q.block)
    <2>1. Built(q) /\ Len(q.block) = exit
      BY <1>9, <1>10 DEF Extends
    <2> QED BY <1>3, <1>7, <2>1
  <1>12. PICK u : /\ Len(u) = 3 /\ u[1] = BlockValue(f.bblock) /\ u[2] = BlockValue(exit) /\ u[3] \in Operands
                  /\ Jumped(q, d, f.head, "INST_JUMP_COND", u)
    BY <1>10, <1>11, BranchMade
  <1> HIDE DEF r3, d
  <1>13. Built(d) /\ Len(d.block) = exit /\ u[2] = BlockValue(Len(ir.block) + 1)
    BY <1>7, <1>11, <1>12 DEF Jumped
  <1>14. RegsKnown(d, n)
    <2>1. RegsKnown(r2, n)
      BY <1>1, <1>3, <1>6, RegsStay
    <2>2. RegsKnown(b, n)
      BY <1>1, <1>7, <1>8, <2>1, RegsStay
    <2>3. \A i \in Loaded(ms) : i.type \in {"INST_LOAD_VAR", "INST_ASSIGN_VAR"} => i.rId \in 0..(n - 1)
      BY <1>2 DEF Loaded, IsVisible, Scoping
    <2>4. RegsKnown(q, n)
      BY <1>1, <1>9, <1>10, <2>2, <2>3, RegsExtend
    <2> QED BY <1>1, <1>11, <1>12, <2>4, RegsStay
  <1>15. CallStack(gs, exit, Len(d.block))
    <2>1. Len(ir.block) <= Len(d.block) /\ Len(d.block) \in Nat /\ exit \in 1..Len(d.block) /\ f.oldBlock <= exit
      BY <1>3, <1>7, <1>13
    <2> QED BY <1>3, <2>1, CallMoves
  <1>16. RegionsOpen(d, gs, ms, exit, n)
    <2>1. RegionsOpen(d, gs, ms, Len(ir.block) + 1, n)
      BY <1>1, <1>2, <1>6, <1>8, <1>10, <1>12, <1>13, RegionsEndWhile
    <2> QED BY <1>7, <2>1
  <1>17. Flow(d, gs, exit)
    <2>1. \A i \in Loaded(ms) : ~IsJump(i)
      BY DEF Loaded, IsJump
    <2>2. Flow(d, gs, Len(ir.block) + 1)
      BY <1>1, <1>6, <1>8, <1>10, <1>12, <1>13, <2>1, FlowEndWhile
    <2> QED BY <1>7, <2>2
  <1>19. Shape(d, gs, exit)
    <2> DEFINE head == f.head
               body == f.bblock
    <2>1. NoJump(ir, head)
      <3>1. head \in {blk} \cup Waits(Cons(f, gs))
        BY Pushed DEF WaitIn
      <3> QED BY <1>1, <3>1 DEF Flow
    <2>2. head \in Nat /\ body \in Nat /\ exit \in Nat
      BY <1>3, <1>7
    <2>3. Added(ir, r2, body, {head})
      <3>1. \A t \in Nat : (\E s \in 1..Len(w) : w[s] = BlockValue(t)) <=> t \in {head}
        BY <1>6, <2>2, OneTo
      <3> QED BY <1>1, <1>6, <3>1, JumpedAdded
    <2>4. Kept(r2, q)
      <3>1. Kept(r2, b)
        BY <1>7, <1>8, GrownKept
      <3>2. \A i \in Loaded(ms) : ~IsJump(i)
        BY DEF Loaded, IsJump
      <3>3. Kept(b, q)
        BY <1>9, <1>10, <3>2, ExtendsKept
      <3> QED BY <3>1, <3>3, KeptTwice
    <2>5. Added(q, d, head, {body, exit})
      <3>1. \A t \in Nat : (\E s \in 1..Len(u) : u[s] = BlockValue(t)) <=> t \in {body, exit}
        BY <1>12, <2>2, TwoTo
      <3> QED BY <1>11, <1>12, <3>1, JumpedAdded
    <2>6. head = f.head /\ body = f.bblock
      OBVIOUS
    <2> HIDE DEF head, body
    <2> QED BY <1>1, <1>7, <1>11, <2>1, <2>3, <2>4, <2>5, <2>6, ShapeEndWhile
  <1>18. Creating(d, gs, ms, exit, n)
    BY <1>1, <1>2, <1>13, <1>14, <1>15, <1>16, <1>17, <1>19 DEF Creating
  <1> QED BY <1>5, <1>18

-----------------------------------------------------------------------------
\* The invariant of ir_creation.c.

\* What is left of it when the function is finished.
Finished(c, n) ==
    /\ Built(c) /\ n \in Nat /\ RegsKnown(c, n)
    /\ \A r \in 0..(n - 1) : \E R, D : Region(c, r, R, D)
    /\ JumpsTwice(c, {}, {})
    /\ ReachedFromBelow(c, {})
    /\ \E end \in 1..Len(c.block) : NoJump(c, end) /\ Leaves(c, {end})
    /\ Nest(c, {})
    /\ \E S : Cut(c, {1}, S)
    /\ \A b \in 2..Len(c.block) : Guarded(c, <<>>, b)

CreationInv ==
    /\ pc \in {"create", "abort", "dominators"}
    /\ pc = "create" => Creating(ir, frames, scopes, block, regCount)
    /\ pc = "dominators" => entry = 1 /\ Finished(ir, regCount)

\* The end of the function body.
LEMMA FunctionCreated ==
  ASSUME NEW c, NEW fs, NEW ss, NEW blk, NEW n, Creating(c, fs, ss, blk, n), Head(fs).kind = "FUNCTION"
  PROVE  Head(fs).bblock = 1 /\ Finished(c, n)
  <1>1. /\ Built(c) /\ n \in Nat /\ RegsKnown(c, n) /\ CallStack(fs, blk, Len(c.block)) /\ Flow(c, fs, blk)
        /\ RegionsOpen(c, fs, ss, blk, n) /\ blk \in 1..Len(c.block) /\ Shape(c, fs, blk)
    BY CallsBelow DEF Creating
  <1>2. Len(fs) = 1 /\ fs[1].kind = "FUNCTION" /\ fs[1].bblock = 1 /\ Head(fs) = fs[1]
    <2>1. fs \in Seq(Frame) /\ Len(fs) > 0 /\ fs[Len(fs)].bblock = 1
          /\ \A i \in 1..Len(fs) : fs[i].kind = "FUNCTION" <=> i = Len(fs)
      BY <1>1 DEF CallStack
    <2>2. Head(fs) = fs[1] /\ 1 \in 1..Len(fs)
      BY <2>1
    <2> QED BY <2>1, <2>2
  <1>3. Waits(fs) = {} /\ Bodies(fs) = {}
    BY <1>2 DEF Waits, WaitIn, Bodies, BodyIn
  <1>4. JumpsTwice(c, {}, {})
    BY <1>1, JumpsTwiceFewer DEF Flow
  <1>5. ReachedFromBelow(c, {})
    BY <1>1, <1>3 DEF Flow
  <1>6. NoJump(c, blk) /\ Leaves(c, {blk})
    <2>1. {blk} \cup Waits(fs) = {blk}
      BY <1>3
    <2> QED BY <1>1, <2>1 DEF Flow
  <1>7. \A r \in 0..(n - 1) : \E R, D : Region(c, r, R, D)
    BY <1>1 DEF RegionsOpen, HasRegion
  <1>8. Nest(c, {})
    BY <1>1, <1>3 DEF Shape
  <1>9. \E S : Cut(c, {1}, S)
    <2>1. PICK S : Cut(c, {blk} \cup Opens(fs), S)
      BY <1>1 DEF Shape
    <2>2. 1 \in Opens(fs)
      BY <1>2 DEF Opens, OpenIn
    <2> DEFINE U == {blk} \cup Opens(fs)
               V == {1}
    <2>3. Cut(c, U, S) /\ \A x \in V : x \notin S
      BY <2>1, <2>2 DEF Cut
    <2> HIDE DEF U, V
    <2>4. Cut(c, V, S)
      BY <2>3, CutFor
    <2> QED BY <2>4 DEF V
  <1>10. ASSUME NEW b \in 2..Len(c.block) PROVE Guarded(c, <<>>, b)
    <2>1. Guarded(c, fs, b)
      BY <1>1, <1>3 DEF Shape
    <2>2. PICK p, a, e : Guard(c, b, p, a, e)
      BY <2>1 DEF Guarded
    <2>3. \A m \in 1..Len(<<>>) : Whole(<<>>[m], a, e)
      OBVIOUS
    <2> QED BY <2>2, <2>3 DEF Guarded
  <1> QED BY <1>1, <1>2, <1>4, <1>5, <1>6, <1>7, <1>8, <1>9, <1>10 DEF Finished

\* The entry block, and an empty scope.
LEMMA InitCreates ==
  LET f == [kind |-> "FUNCTION", bblock |-> 1, oldBlock |-> 0]
  IN  Creating(block_new(ir_context_init), <<f>>, <<<<>>>>, 1, 0)
  <1> DEFINE f == [kind |-> "FUNCTION", bblock |-> 1, oldBlock |-> 0]
             d == block_new(ir_context_init)
             fs == <<f>>
             ss == <<<<>>>>
  <1>1. Built(ir_context_init) /\ Len(ir_context_init.block) = 0 /\ Len(ir_context_init.inst) = 0
    <2> DEFINE x == ir_context_init
    <2>1. x.inst = <<>> /\ x.block = <<>> /\ x.consts = 0
          /\ x = [inst |-> x.inst, block |-> x.block, consts |-> x.consts, uses |-> x.uses]
      BY DEF ir_context_init
    <2> HIDE DEF x
    <2>2. x.inst \in Seq(Inst) /\ x.block \in Seq(Seq(Nat)) /\ Len(x.inst) = 0 /\ Len(x.block) = 0 /\ x.consts \in Nat
      BY <2>1
    <2>3. IsIR(x)
      BY <2>1, <2>2 DEF IsIR
    <2>4. Linked(x)
      BY <2>2 DEF Linked
    <2> QED BY <2>2, <2>3, <2>4 DEF Built, x
  <1>2. Grown(ir_context_init, d)
    BY <1>1, BlockMade DEF Grown
  <1> HIDE DEF d
  <1>3. Built(d) /\ Len(d.inst) = 0 /\ Len(d.block) = 1 /\ d.block[1] = <<>> /\ Len(d.block[1]) = 0
    BY <1>1, <1>2 DEF Grown
  <1>4. RegsKnown(d, 0)
    BY <1>3 DEF RegsKnown
  <1>5. f \in Frame /\ f.kind = "FUNCTION" /\ f.bblock = 1
    BY DEF Frame
  <1>6. fs \in Seq(Frame) /\ Len(fs) = 1 /\ fs[1] = f
    BY <1>5
  <1>7. ss \in Seq(Scope) /\ Len(ss) = 1 /\ ss[1] = <<>>
    BY ScopesAre
  <1> HIDE DEF f, fs, ss
  <1>8. CallStack(fs, 1, 1)
    <2>1. InOrder(f, 1)
      BY <1>5 DEF InOrder
    <2> QED BY <1>5, <1>6, <2>1 DEF CallStack
  <1>9. Scoping(ss, 0)
    BY <1>7, ScopesAre DEF Scoping
  <1>10. RegionsOpen(d, fs, ss, 1, 0)
    BY DEF RegionsOpen
  <1>11. Flow(d, fs, 1)
    <2>1. JumpsTwice(d, {1} \cup Opens(fs), {})
      BY <1>3 DEF JumpsTwice
    <2>2. Waits(fs) = {}
      BY <1>5, <1>6 DEF Waits, WaitIn
    <2>3. NoJump(d, 1)
      BY <1>3 DEF NoJump
    <2>4. ReachedFromBelow(d, Bodies(fs))
      BY <1>3 DEF ReachedFromBelow
    <2>5. Leaves(d, {1} \cup Waits(fs))
      BY <1>3 DEF Leaves
    <2> QED BY <2>1, <2>2, <2>3, <2>4, <2>5 DEF Flow
  <1>13. Shape(d, fs, 1)
    <2>1. \A x \in 1..Len(d.block) : \A k \in 1..Len(d.block[x]) : FALSE
      BY <1>3
    <2>2. Nest(d, Bodies(fs))
      BY <2>1 DEF Nest, JumpsTo
    <2>3. Cut(d, {1} \cup Opens(fs), {})
      BY <2>1 DEF Cut
    <2>4. \A b \in 2..Len(d.block) : FALSE
      BY <1>3
    <2> QED BY <2>2, <2>3, <2>4 DEF Shape
  <1>12. Creating(d, fs, ss, 1, 0)
    BY <1>3, <1>4, <1>6, <1>7, <1>8, <1>9, <1>10, <1>11, <1>13 DEF Creating
  <1> QED BY <1>12 DEF d, fs, f, ss

\* The function starts with its entry block alone.
LEMMA CreationInit == Init => CreationInv
  <1>1. SUFFICES ASSUME Init PROVE CreationInv
    OBVIOUS
  <1>2. pc = "create" /\ ir = block_new(ir_context_init) /\ block = 1 /\ scopes = <<<<>>>> /\ regCount = 0
        /\ frames = <<[kind |-> "FUNCTION", bblock |-> 1, oldBlock |-> 0]>>
    BY <1>1 DEF Init
  <1>3. Creating(ir, frames, scopes, block, regCount)
    BY <1>2, InitCreates
  <1> QED BY <1>2, <1>3 DEF CreationInv

\* No action can break the invariant.
LEMMA CreationStep == CreationInv /\ [Next]_creationVars => CreationInv'
  <1> SUFFICES ASSUME CreationInv, [Next]_creationVars PROVE CreationInv'
    OBVIOUS
  <1>a. ASSUME pc = "create"
        PROVE  /\ Creating(ir, frames, scopes, block, regCount)
               /\ frames \in Seq(Frame) /\ Len(frames) > 0 /\ scopes \in Seq(Scope) /\ Len(scopes) = Len(frames)
    <2>1. Creating(ir, frames, scopes, block, regCount)
      BY <1>a DEF CreationInv
    <2> QED BY <2>1 DEF Creating, CallStack, Scoping
  <1>b. Abort => CreationInv'
    BY DEF Abort, CreationInv
  <1>c. ASSUME pc = "create", pc' = pc, Creating(ir', frames', scopes', block', regCount') PROVE CreationInv'
    BY <1>c DEF CreationInv
  <1>1. ASSUME NEW x \in Names, NEW e \in Expressions, Assignment(x, e) PROVE CreationInv'
    <2> DEFINE made == create_assignment(ir, scopes, block, x, e)
    <2>1. pc = "create"
      BY <1>1 DEF Assignment, ChooseStatement
    <2>2. CASE made.ok /\ ir' = made.ir /\ UNCHANGED <<entry, pc, block, scopes, frames, regCount>>
      <3>1. Creating(made.ir, frames, scopes, block, regCount)
        BY <1>a, <2>1, <2>2, AssignmentCreates
      <3> HIDE DEF made
      <3> QED BY <1>c, <2>1, <2>2, <3>1
    <2>3. CASE Abort
      BY <1>b, <2>3
    <2> QED BY <1>1, <2>2, <2>3 DEF Assignment
  <1>2. ASSUME NEW x \in Names, NEW t \in DataTypes, NEW e \in Expressions, Declaration(x, t, e) PROVE CreationInv'
    <2> DEFINE map == WithVariable(Head(scopes), x, [rId |-> regCount, dataType |-> t])
               maps == Cons(map, Tail(scopes))
               made == create_assignment(ir, maps, block, x, e)
    <2>1. pc = "create"
      BY <1>2 DEF Declaration, ChooseStatement
    <2>2. CASE /\ x \notin DOMAIN Head(scopes) /\ made.ok
               /\ ir' = made.ir /\ scopes' = maps /\ regCount' = regCount + 1
               /\ UNCHANGED <<entry, pc, block, frames>>
      <3>1. /\ Head(scopes) \in Scope /\ Tail(scopes) \in Seq(Scope) /\ scopes = Cons(Head(scopes), Tail(scopes))
        BY <1>a, <2>1, Uncons
      <3>2. Creating(ir, frames, Cons(Head(scopes), Tail(scopes)), block, regCount)
        BY <1>a, <2>1, <3>1
      <3>3. x \in Names \ DOMAIN Head(scopes) /\ t \in ValueTypes
        BY <2>2, DataTypesAssumption DEF ValueTypes
      <3> DEFINE top == Head(scopes)
                 ms == Tail(scopes)
      <3>4. /\ Creating(ir, frames, Cons(top, ms), block, regCount) /\ top \in Scope /\ ms \in Seq(Scope)
            /\ x \in Names \ DOMAIN top /\ map = WithVariable(top, x, [rId |-> regCount, dataType |-> t])
            /\ create_assignment(ir, Cons(map, ms), block, x, e).ok
        BY <2>2, <3>1, <3>2, <3>3
      <3> HIDE DEF top, ms, map
      <3>5. Creating(create_assignment(ir, Cons(map, ms), block, x, e).ir, frames, Cons(map, ms), block, regCount + 1)
        BY <3>3, <3>4, DeclarationCreates
      <3>6. Creating(made.ir, frames, maps, block, regCount + 1)
        BY <3>5 DEF ms
      <3> HIDE DEF made, maps
      <3> QED BY <1>c, <2>1, <2>2, <3>6
    <2>3. CASE Abort
      BY <1>b, <2>3
    <2> QED BY <1>2, <2>2, <2>3 DEF Declaration
  <1>3. ASSUME Return PROVE CreationInv'
    <2>1. pc = "create" /\ ir' = block_insert(inst_new_return(ir), block, Len(ir.inst) + 1)
          /\ UNCHANGED <<entry, pc, block, scopes, frames, regCount>>
      BY <1>3 DEF Return, ChooseStatement
    <2>2. Creating(block_insert(inst_new_return(ir), block, Len(ir.inst) + 1), frames, scopes, block, regCount)
      BY <1>a, <2>1, ReturnCreates
    <2> QED BY <1>c, <2>1, <2>2
  <1>4. ASSUME NEW e \in Conditions, If(e) PROVE CreationInv'
    <2> DEFINE v == create_value(ir, scopes, block, e)
               f == [kind |-> "IF", cond |-> ValueOf(v), bblock |-> Len(v.ir.block) + 1, oldBlock |-> block]
    <2>1. pc = "create"
      BY <1>4 DEF If, ChooseStatement
    <2>2. CASE v.ok /\ EnterBlock(v.ir, f)
      <3>1. Creating(block_new(v.ir), Cons(f, frames), Cons(<<>>, scopes), f.bblock, regCount)
        BY <1>a, <2>1, <2>2, IfCreates
      <3> HIDE DEF v, f
      <3>2. ir' = block_new(v.ir) /\ frames' = Cons(f, frames) /\ scopes' = Cons(<<>>, scopes) /\ block' = f.bblock
            /\ pc' = pc /\ regCount' = regCount
        BY <2>2 DEF EnterBlock
      <3> QED BY <1>c, <2>1, <3>1, <3>2
    <2>3. CASE Abort
      BY <1>b, <2>3
    <2> QED BY <1>4, <2>2, <2>3 DEF If
  <1>5. ASSUME NEW e \in Conditions, While(e) PROVE CreationInv'
    <2> DEFINE h == Len(ir.block) + 1
               b1 == block_new(ir)
               b2 == block_insert(inst_new_jump(b1, h), block, Len(b1.inst) + 1)
               f == [kind |-> "WHILE", head |-> h, condition |-> e, bblock |-> Len(b2.block) + 1, oldBlock |-> block]
    <2>1. pc = "create" /\ EnterBlock(b2, f)
      BY <1>5 DEF While, ChooseStatement
    <2>2. Creating(block_new(b2), Cons(f, frames), Cons(<<>>, scopes), f.bblock, regCount)
      BY <1>a, <2>1, WhileCreates
    <2> HIDE DEF f, b2
    <2>3. ir' = block_new(b2) /\ frames' = Cons(f, frames) /\ scopes' = Cons(<<>>, scopes) /\ block' = f.bblock
          /\ pc' = pc /\ regCount' = regCount
      BY <2>1 DEF EnterBlock
    <2> QED BY <1>c, <2>1, <2>2, <2>3
  <1>6. ASSUME EndBlock PROVE CreationInv'
    <2> DEFINE f == Head(frames)
               gs == Tail(frames)
               map == Head(scopes)
               ms == Tail(scopes)
               done == IF f.kind = "IF" THEN FinishIf(f, block) ELSE FinishWhile(f, block, ms)
    <2>1. pc = "create" /\ f.kind \in {"IF", "WHILE"}
      BY <1>6 DEF EndBlock
    <2>2. /\ f \in Frame /\ gs \in Seq(Frame) /\ frames = Cons(f, gs)
          /\ map \in Scope /\ ms \in Seq(Scope) /\ scopes = Cons(map, ms)
      BY <1>a, <2>1, Uncons
    <2>3. Creating(ir, Cons(f, gs), Cons(map, ms), block, regCount)
      BY <1>a, <2>1, <2>2
    <2>4. CASE /\ done.ok /\ ir' = done.ir /\ block' = done.block /\ scopes' = ms /\ frames' = gs
               /\ UNCHANGED <<entry, pc, regCount, statements>>
      <3>1. f \in Frame /\ gs \in Seq(Frame) /\ map \in Scope /\ ms \in Seq(Scope)
        BY <2>2
      <3> HIDE DEF f, gs, map, ms
      <3>2. CASE f.kind = "IF"
        <4>1. Creating(FinishIf(f, block).ir, gs, ms, FinishIf(f, block).block, regCount)
          BY <2>3, <3>1, <3>2, EndIfCreates
        <4>2. done = FinishIf(f, block)
          BY <3>2
        <4> HIDE DEF done
        <4>3. Creating(done.ir, gs, ms, done.block, regCount)
          BY <4>1, <4>2
        <4> QED BY <1>c, <2>1, <2>4, <4>3
      <3>3. CASE f.kind = "WHILE"
        <4>1. done = FinishWhile(f, block, ms)
          BY <3>3
        <4>2. FinishWhile(f, block, ms).ok
          BY <2>4, <4>1
        <4>3. Creating(FinishWhile(f, block, ms).ir, gs, ms, FinishWhile(f, block, ms).block, regCount)
          BY <2>3, <3>1, <3>3, <4>2, EndWhileCreates
        <4> HIDE DEF done
        <4>4. Creating(done.ir, gs, ms, done.block, regCount)
          BY <4>1, <4>3
        <4> QED BY <1>c, <2>1, <2>4, <4>4
      <3> QED BY <2>1, <3>2, <3>3
    <2>5. CASE Abort
      BY <1>b, <2>5
    <2> QED BY <1>6, <2>4, <2>5 DEF EndBlock, LeaveScope
  <1>7. ASSUME EndFunction PROVE CreationInv'
    <2>1. /\ pc = "create" /\ Head(frames).kind = "FUNCTION" /\ entry' = Head(frames).bblock
          /\ pc' = "dominators" /\ UNCHANGED <<ir, regCount, statements>>
      BY <1>7 DEF EndFunction
    <2>2. Head(frames).bblock = 1 /\ Finished(ir, regCount)
      BY <1>a, <2>1, FunctionCreated
    <2> QED BY <2>1, <2>2 DEF CreationInv
  <1>8. ASSUME UNCHANGED creationVars PROVE CreationInv'
    <2>1. ir' = ir /\ entry' = entry /\ pc' = pc /\ block' = block /\ scopes' = scopes /\ frames' = frames /\ regCount' = regCount
      BY <1>8 DEF creationVars
    <2> QED BY <2>1 DEF CreationInv
  <1> QED BY <1>1, <1>2, <1>3, <1>4, <1>5, <1>6, <1>7, <1>8 DEF Next

\* CreationInv holds of every program: scopes and calls nest, every register
\* has a region with a single way in, and the blocks that are finished are
\* connected.
THEOREM CreationInvariant == Spec => []CreationInv
  BY CreationInit, CreationStep, PTL DEF Spec

-----------------------------------------------------------------------------
\* block_successor: the block operands of the last instruction.

\* The recursion over the operands.
IsTargets(f, uses) ==
    f = [n \in 0..Len(uses) |-> IF n = 0 THEN <<>>
                                ELSE IF uses[n][1] = "V_BLOCK" THEN Append(f[n - 1], uses[n][2])
                                ELSE f[n - 1]]

\* It exists and leaves the sequence s.
Targets(uses, s) == (\E f : IsTargets(f, uses)) /\ \A f : IsTargets(f, uses) => f[Len(uses)] = s

\* The recursion, chosen.
TargetsOf(uses) ==
    LET targets[n \in 0..Len(uses)] ==
            IF n = 0 THEN <<>>
            ELSE IF uses[n][1] = "V_BLOCK" THEN Append(targets[n - 1], uses[n][2])
            ELSE targets[n - 1]
    IN  targets[Len(uses)]

\* The recursive function that collects the targets of a jump collects these.
LEMMA TargetsOfIs ==
  ASSUME NEW uses, NEW s, Targets(uses, s)
  PROVE  TargetsOf(uses) = s
  <1> DEFINE g == CHOOSE h : h = [n \in 0..Len(uses) |-> IF n = 0 THEN <<>>
                                ELSE IF uses[n][1] = "V_BLOCK" THEN Append(h[n - 1], uses[n][2])
                                ELSE h[n - 1]]
  <1>1. g = [n \in 0..Len(uses) |-> IF n = 0 THEN <<>>
                                    ELSE IF uses[n][1] = "V_BLOCK" THEN Append(g[n - 1], uses[n][2])
                                    ELSE g[n - 1]]
    BY DEF Targets, IsTargets
  <1>2. TargetsOf(uses) = g[Len(uses)]
    BY DEF TargetsOf
  <1> HIDE DEF g
  <1>3. IsTargets(g, uses)
    BY <1>1 DEF IsTargets
  <1> QED BY <1>2, <1>3 DEF Targets

\* A block goes where the operands of its last instruction lead.
LEMMA TargetsChosen ==
  ASSUME NEW c, Built(c), NEW b \in 1..Len(c.block), Len(c.block[b]) > 0, NEW s,
         Targets(At(c, b, Len(c.block[b])).uses, s)
  PROVE  block_successor(c, b) = s
  <1> DEFINE last == c.inst[Last(c.block[b])]
  <1>1. /\ c.block[b] # <<>> /\ last = At(c, b, Len(c.block[b])) /\ last.type # "INST_PHI"
    <2>1. c.block[b] \in Seq(Nat) /\ Len(c.block[b]) \in 1..Len(c.block[b]) /\ c.block[b] # <<>>
      BY BuiltLens
    <2>2. c.block[b][Len(c.block[b])] \in 1..Len(c.inst)
      BY <2>1 DEF Built
    <2>3. last = At(c, b, Len(c.block[b])) /\ last \in Inst
      BY <2>2, BuiltLens DEF Last, At
    <2> QED BY <2>1, <2>3 DEF Inst, InstTypes
  <1>2. block_successor(c, b) = IF c.block[b] = <<>> \/ last.type = "INST_PHI" THEN <<>> ELSE TargetsOf(last.uses)
    BY Zenon DEF block_successor, TargetsOf
  <1>3. block_successor(c, b) = TargetsOf(last.uses)
    <2> HIDE DEF last
    <2> QED BY <1>1, <1>2, Zenon
  <1>4. TargetsOf(At(c, b, Len(c.block[b])).uses) = s
    BY TargetsOfIs, Zenon
  <1> HIDE DEF last
  <1> QED BY <1>1, <1>3, <1>4, Zenon

\* block_successor looks at one operand after the other.
LEMMA TargetsAt ==
  ASSUME NEW uses, Len(uses) \in Nat, NEW g, IsTargets(g, uses)
  PROVE  /\ g[0] = <<>>
         /\ \A n \in 1..Len(uses) : /\ uses[n][1] = "V_BLOCK" => g[n] = Append(g[n - 1], uses[n][2])
                                    /\ uses[n][1] # "V_BLOCK" => g[n] = g[n - 1]
  <1>1. \A n \in 0..Len(uses) : g[n] = IF n = 0 THEN <<>>
                                       ELSE IF uses[n][1] = "V_BLOCK" THEN Append(g[n - 1], uses[n][2])
                                       ELSE g[n - 1]
    BY DEF IsTargets
  <1>2. 0 \in 0..Len(uses) /\ \A n \in 1..Len(uses) : n \in 0..Len(uses) /\ n # 0
    OBVIOUS
  <1> QED BY <1>1, <1>2

\* At most two operands, and none of them a block.
LEMMA NoTargets ==
  ASSUME NEW uses, Len(uses) \in 0..2, \A s \in 1..Len(uses) : uses[s][1] # "V_BLOCK"
  PROVE  Targets(uses, <<>>)
  <1>1. IsTargets([n \in 0..Len(uses) |-> <<>>], uses)
    BY DEF IsTargets
  <1>2. ASSUME NEW g, IsTargets(g, uses) PROVE g[Len(uses)] = <<>>
    <2>1. g[0] = <<>> /\ \A n \in 1..Len(uses) : g[n] = g[n - 1]
      BY <1>2, TargetsAt
    <2>2. CASE Len(uses) = 0
      BY <2>1, <2>2
    <2>3. CASE Len(uses) = 1
      BY <2>1, <2>3
    <2>4. CASE Len(uses) = 2
      <3>1. g[1] = g[0] /\ g[2] = g[1]
        BY <2>1, <2>4
      <3> QED BY <2>1, <2>4, <3>1
    <2> QED BY <2>2, <2>3, <2>4
  <1> QED BY <1>1, <1>2 DEF Targets

\* A jump has one target.
LEMMA OneTarget ==
  ASSUME NEW uses, Len(uses) = 1, NEW t, uses[1] = BlockValue(t)
  PROVE  Targets(uses, <<t>>)
  <1>1. uses[1][1] = "V_BLOCK" /\ uses[1][2] = t
    BY DEF BlockValue
  <1>2. IsTargets([n \in 0..1 |-> IF n = 0 THEN <<>> ELSE <<t>>], uses)
    <2> DEFINE f == [n \in 0..1 |-> IF n = 0 THEN <<>> ELSE <<t>>]
    <2>1. f[0] = <<>> /\ f[1] = <<t>> /\ Append(<<>>, t) = <<t>> /\ f = [n \in 0..1 |-> f[n]]
      OBVIOUS
    <2> HIDE DEF f
    <2>2. \A n \in 0..1 : f[n] = IF n = 0 THEN <<>>
                                 ELSE IF uses[n][1] = "V_BLOCK" THEN Append(f[n - 1], uses[n][2]) ELSE f[n - 1]
      <3>1. SUFFICES ASSUME NEW n \in 0..1
                     PROVE f[n] = IF n = 0 THEN <<>>
                                  ELSE IF uses[n][1] = "V_BLOCK" THEN Append(f[n - 1], uses[n][2]) ELSE f[n - 1]
        OBVIOUS
      <3>2. CASE n = 0
        BY <2>1, <3>2
      <3>3. CASE n = 1
        <4>1. f[n - 1] = <<>> /\ f[n] = <<t>>
          BY <2>1, <3>3
        <4> QED BY <1>1, <2>1, <3>3, <4>1
      <3> QED BY <3>1, <3>2, <3>3
    <2>3. IsTargets(f, uses)
      BY <2>1, <2>2 DEF IsTargets
    <2> QED BY <2>3 DEF f
  <1>3. ASSUME NEW g, IsTargets(g, uses) PROVE g[Len(uses)] = <<t>>
    <2>1. g[0] = <<>> /\ g[1] = Append(g[0], uses[1][2])
      BY <1>1, <1>3, TargetsAt
    <2> QED BY <1>1, <2>1
  <1> QED BY <1>2, <1>3 DEF Targets

\* A conditional jump has two targets.
LEMMA TwoTargets ==
  ASSUME NEW uses, Len(uses) = 3, NEW t, NEW e, uses[1] = BlockValue(t), uses[2] = BlockValue(e), uses[3] \in Operands
  PROVE  Targets(uses, <<t, e>>)
  <1>1. /\ uses[1][1] = "V_BLOCK" /\ uses[1][2] = t /\ uses[2][1] = "V_BLOCK" /\ uses[2][2] = e
        /\ uses[3][1] # "V_BLOCK"
    BY ValuesAre DEF BlockValue
  <1>4. Append(<<>>, t) = <<t>> /\ Append(<<t>>, e) = <<t, e>>
    <2>1. <<>> \in Seq({t, e}) /\ <<t>> \in Seq({t, e}) /\ t \in {t, e} /\ e \in {t, e}
          /\ Len(<<t>>) = 1 /\ <<t>>[1] = t /\ Len(<<t, e>>) = 2 /\ <<t, e>>[1] = t /\ <<t, e>>[2] = e
          /\ <<t, e>> \in Seq({t, e}) /\ Len(<<>>) = 0
      OBVIOUS
    <2>2. /\ Append(<<>>, t) \in Seq({t, e}) /\ Len(Append(<<>>, t)) = 1 /\ Append(<<>>, t)[1] = t
      BY <2>1, Appended
    <2>3. /\ Append(<<t>>, e) \in Seq({t, e}) /\ Len(Append(<<t>>, e)) = 2
          /\ Append(<<t>>, e)[1] = t /\ Append(<<t>>, e)[2] = e
      BY <2>1, Appended
    <2>4. \A u, w \in Seq({t, e}) : Len(u) = Len(w) /\ (\A k \in 1..Len(u) : u[k] = w[k]) => u = w
      OBVIOUS
    <2>5. Append(<<>>, t) = <<t>>
      BY <2>1, <2>2, <2>4
    <2>6. Append(<<t>>, e) = <<t, e>>
      <3>1. \A k \in 1..2 : Append(<<t>>, e)[k] = <<t, e>>[k]
        <4>1. \A k \in 1..2 : k = 1 \/ k = 2
          OBVIOUS
        <4> QED BY <2>1, <2>3, <4>1
      <3> QED BY <2>1, <2>3, <2>4, <3>1
    <2> QED BY <2>5, <2>6
  <1>2. \E f : IsTargets(f, uses)
    <2> DEFINE f == [n \in 0..3 |-> IF n = 0 THEN <<>> ELSE IF n = 1 THEN <<t>> ELSE <<t, e>>]
    <2>1. f[0] = <<>> /\ f[1] = <<t>> /\ f[2] = <<t, e>> /\ f[3] = <<t, e>> /\ f = [n \in 0..3 |-> f[n]]
      OBVIOUS
    <2> HIDE DEF f
    <2>2. \A n \in 0..3 : f[n] = IF n = 0 THEN <<>>
                                 ELSE IF uses[n][1] = "V_BLOCK" THEN Append(f[n - 1], uses[n][2]) ELSE f[n - 1]
      <3>1. SUFFICES ASSUME NEW n \in 0..3
                     PROVE f[n] = IF n = 0 THEN <<>>
                                  ELSE IF uses[n][1] = "V_BLOCK" THEN Append(f[n - 1], uses[n][2]) ELSE f[n - 1]
        OBVIOUS
      <3>2. CASE n = 0
        BY <2>1, <3>2
      <3>3. CASE n = 1
        <4>1. f[n - 1] = <<>> /\ f[n] = <<t>>
          BY <2>1, <3>3
        <4> QED BY <1>1, <1>4, <3>3, <4>1
      <3>4. CASE n = 2
        <4>1. f[n - 1] = <<t>> /\ f[n] = <<t, e>>
          BY <2>1, <3>4
        <4> QED BY <1>1, <1>4, <3>4, <4>1
      <3>5. CASE n = 3
        <4>1. f[n - 1] = <<t, e>> /\ f[n] = <<t, e>>
          BY <2>1, <3>5
        <4> QED BY <1>1, <3>5, <4>1
      <3> QED BY <3>1, <3>2, <3>3, <3>4, <3>5
    <2>3. IsTargets(f, uses)
      BY <2>1, <2>2 DEF IsTargets
    <2> QED BY <2>3
  <1>3. ASSUME NEW g, IsTargets(g, uses) PROVE g[Len(uses)] = <<t, e>>
    <2>1. g[0] = <<>> /\ g[1] = Append(g[0], uses[1][2])
      BY <1>1, <1>3, TargetsAt, SMTT(30)
    <2>2. g[2] = Append(g[1], uses[2][2])
      BY <1>1, <1>3, TargetsAt
    <2>4. g[3] = g[2]
      <3>1. \A n \in 1..Len(uses) : uses[n][1] # "V_BLOCK" => g[n] = g[n - 1]
        BY <1>3, TargetsAt
      <3>2. g[3] = g[3 - 1]
        BY <1>1, <3>1
      <3> QED BY <3>2
    <2>5. g[1] = <<t>>
      BY <1>1, <1>4, <2>1
    <2>3. g[2] = <<t, e>>
      BY <1>1, <1>4, <2>2, <2>5
    <2> QED BY <2>3, <2>4
  <1> QED BY <1>2, <1>3 DEF Targets

\* A block goes where its last instruction jumps to.
LEMMA Successors ==
  ASSUME NEW c, Built(c), NEW b \in 1..Len(c.block)
  PROVE  LET last == At(c, b, Len(c.block[b]))
         IN  /\ Len(c.block[b]) = 0 \/ ~IsJump(last) => block_successor(c, b) = <<>>
             /\ Len(c.block[b]) > 0 /\ last.type = "INST_JUMP" =>
                   \A t : last.uses[1] = BlockValue(t) => block_successor(c, b) = <<t>>
             /\ Len(c.block[b]) > 0 /\ last.type = "INST_JUMP_COND" =>
                   \A t, e : last.uses[1] = BlockValue(t) /\ last.uses[2] = BlockValue(e) => block_successor(c, b) = <<t, e>>
  <1> DEFINE last == At(c, b, Len(c.block[b]))
             uses == last.uses
  <1>1. c.block[b] \in Seq(Nat) /\ Len(c.block[b]) \in Nat
    BY BuiltLens
  <1>2. CASE Len(c.block[b]) = 0
    <2>1. c.block[b] = <<>>
      BY <1>1, <1>2
    <2> QED BY <1>2, <2>1 DEF block_successor
  <1>3. CASE Len(c.block[b]) > 0
    <2>1. last \in Inst /\ Shaped(last, Len(c.block))
      <3>1. c.block[b][Len(c.block[b])] \in 1..Len(c.inst)
        BY <1>1, <1>3 DEF Built
      <3>2. c.inst[c.block[b][Len(c.block[b])]] \in Inst
        BY <3>1, BuiltLens
      <3> QED BY <3>1, <3>2 DEF At, Built
    <2>2. Len(uses) \in Nat
      BY <2>1 DEF Inst
    <2>3. ASSUME ~IsJump(last) PROVE block_successor(c, b) = <<>>
      <3>1. Len(uses) \in 0..2 /\ \A s \in 1..Len(uses) : uses[s] \in Operands
        <4>1. \/ Len(uses) = 0
              \/ Len(uses) = 1 /\ uses[1] \in Operands
              \/ Len(uses) = 2 /\ uses[1] \in Operands /\ uses[2] \in Operands
          BY <2>1, <2>3, Zenon DEF Shaped, IsJump
        <4> HIDE DEF uses
        <4> QED BY <4>1
      <3>2. \A s \in 1..Len(uses) : uses[s][1] # "V_BLOCK"
        BY <3>1, ValuesAre
      <3>3. uses = At(c, b, Len(c.block[b])).uses
        OBVIOUS
      <3> HIDE DEF uses
      <3>4. Targets(uses, <<>>)
        BY <3>1, <3>2, NoTargets
      <3> QED BY <1>3, <3>3, <3>4, TargetsChosen
    <2>4. ASSUME last.type = "INST_JUMP", NEW t, uses[1] = BlockValue(t) PROVE block_successor(c, b) = <<t>>
      <3>1. Len(uses) = 1 /\ uses[1] = BlockValue(t) /\ uses = At(c, b, Len(c.block[b])).uses
        BY <2>1, <2>4 DEF Shaped
      <3> HIDE DEF uses
      <3>2. Targets(uses, <<t>>)
        BY <3>1, OneTarget
      <3> QED BY <1>3, <3>1, <3>2, TargetsChosen
    <2>5. ASSUME last.type = "INST_JUMP_COND", NEW t, NEW e, uses[1] = BlockValue(t), uses[2] = BlockValue(e)
          PROVE block_successor(c, b) = <<t, e>>
      <3>1. Len(uses) = 3 /\ uses[3] \in Operands /\ uses[1] = BlockValue(t) /\ uses[2] = BlockValue(e)
            /\ uses = At(c, b, Len(c.block[b])).uses
        BY <2>1, <2>5 DEF Shaped
      <3> HIDE DEF uses
      <3>2. Targets(uses, <<t, e>>)
        BY <3>1, TwoTargets
      <3> QED BY <1>3, <3>1, <3>2, TargetsChosen
    <2> QED BY <1>3, <2>3, <2>4, <2>5
  <1> QED BY <1>1, <1>2, <1>3

\* The blocks that follow a block are the ones its last instruction jumps to.
LEMMA SuccessorIs ==
  ASSUME NEW c, Built(c), NEW p \in 1..Len(c.block), NEW x
  PROVE  x \in ToSet(block_successor(c, p)) <=>
           /\ Len(c.block[p]) > 0 /\ JumpAt(c, p, Len(c.block[p]))
           /\ \E s \in 1..Len(At(c, p, Len(c.block[p])).uses) : At(c, p, Len(c.block[p])).uses[s] = BlockValue(x)
  <1> DEFINE last == At(c, p, Len(c.block[p]))
             uses == last.uses
  <1>1. c.block[p] \in Seq(Nat) /\ Len(c.block[p]) \in Nat
    BY BuiltLens
  <1>5. ASSUME Len(c.block[p]) > 0 PROVE Shaped(last, Len(c.block))
    <2>1. Len(c.block[p]) \in 1..Len(c.block[p])
      BY <1>1, <1>5
    <2>2. c.block[p][Len(c.block[p])] \in 1..Len(c.inst)
      BY <2>1 DEF Built
    <2>3. \A i \in 1..Len(c.inst) : Shaped(c.inst[i], Len(c.block))
      BY DEF Built
    <2> QED BY <2>2, <2>3, Zenon DEF At
  <1>2. CASE Len(c.block[p]) = 0 \/ ~IsJump(last)
    <2>1. block_successor(c, p) = <<>>
      BY <1>2, Successors
    <2>2. ToSet(<<>>) = {}
      BY DEF ToSet
    <2>3. ~(Len(c.block[p]) > 0 /\ JumpAt(c, p, Len(c.block[p])))
      <3>1. CASE Len(c.block[p]) = 0
        BY <3>1
      <3>2. CASE ~IsJump(last)
        BY <3>2, Zenon DEF JumpAt
      <3> QED BY <1>2, <3>1, <3>2
    <2> QED BY <2>1, <2>2, <2>3, Zenon
  <1>3. CASE Len(c.block[p]) > 0 /\ last.type = "INST_JUMP"
    <2>1. Shaped(last, Len(c.block))
      BY <1>3, <1>5
    <2>2. PICK t \in 1..Len(c.block) : Len(uses) = 1 /\ uses[1] = BlockValue(t)
      BY <1>3, <2>1 DEF Shaped
    <2>3. block_successor(c, p) = <<t>>
      BY <1>3, <2>2, Successors
    <2>4. ToSet(block_successor(c, p)) = {t}
      BY <2>3 DEF ToSet
    <2>5. (\E s \in 1..Len(uses) : uses[s] = BlockValue(x)) <=> x = t
      BY <2>2 DEF BlockValue
    <2> QED BY <1>3, <2>4, <2>5 DEF JumpAt, IsJump
  <1>4. CASE Len(c.block[p]) > 0 /\ last.type = "INST_JUMP_COND"
    <2>1. Shaped(last, Len(c.block))
      BY <1>4, <1>5
    <2>2. PICK t \in 1..Len(c.block) :
            Len(uses) = 3 /\ uses[1] = BlockValue(t) /\ uses[3] \in Operands
            /\ \E u \in 1..Len(c.block) : uses[2] = BlockValue(u)
      BY <1>4, <2>1 DEF Shaped
    <2>3. PICK u \in 1..Len(c.block) : uses[2] = BlockValue(u)
      BY <2>2
    <2>4. block_successor(c, p) = <<t, u>>
      BY <1>4, <2>2, <2>3, Successors
    <2>5. ToSet(block_successor(c, p)) = {t, u}
      BY <2>4 DEF ToSet
    <2>6. (\E s \in 1..Len(uses) : uses[s] = BlockValue(x)) <=> x \in {t, u}
      <3>1. \A s \in 1..Len(uses) : s = 1 \/ s = 2 \/ s = 3
        BY <2>2
      <3>2. 1 \in 1..Len(uses) /\ 2 \in 1..Len(uses)
        BY <2>2
      <3>3. uses[3] # BlockValue(x)
        BY <2>2, ValuesAre DEF BlockValue
      <3>4. (uses[1] = BlockValue(x) <=> x = t) /\ (uses[2] = BlockValue(x) <=> x = u)
        BY <2>2, <2>3 DEF BlockValue
      <3> HIDE DEF uses
      <3> QED BY <3>1, <3>2, <3>3, <3>4
    <2> QED BY <1>4, <2>5, <2>6 DEF JumpAt, IsJump
  <1> QED BY <1>1, <1>2, <1>3, <1>4 DEF IsJump

\* Successors are blocks of the function.
LEMMA SuccessorsInside ==
  ASSUME NEW c, Built(c), NEW S, S \subseteq 1..Len(c.block)
  PROVE  /\ SuccessorsOf(c, S) \subseteq 1..Len(c.block)
         /\ \A x : x \in SuccessorsOf(c, S) <=> \E p \in S : x \in ToSet(block_successor(c, p))
  <1>1. \A x : x \in SuccessorsOf(c, S) <=> \E p \in S : x \in ToSet(block_successor(c, p))
    BY DEF SuccessorsOf
  <1>2. ASSUME NEW p \in S, NEW x \in ToSet(block_successor(c, p)) PROVE x \in 1..Len(c.block)
    <2> DEFINE k == Len(c.block[p])
    <2>1. k > 0 /\ JumpAt(c, p, k) /\ \E s \in 1..Len(At(c, p, k).uses) : At(c, p, k).uses[s] = BlockValue(x)
      BY <1>2, SuccessorIs
    <2>2. p \in 1..Len(c.block) /\ k \in Nat
      BY BuiltLens
    <2>3. k \in 1..Len(c.block[p])
      BY <2>1, <2>2
    <2> HIDE DEF k
    <2>4. JumpsInto(At(c, p, k), {x})
      BY <2>1 DEF JumpsInto, JumpAt, BlockValue
    <2>5. JumpsInto(At(c, p, k), {x} \cap 1..Len(c.block))
      BY <2>2, <2>3, <2>4, JumpsInside
    <2> QED BY <2>5 DEF JumpsInto
  <1> QED BY <1>1, <1>2

-----------------------------------------------------------------------------
\* Closure: what the recursion over the steps gives.

\* A function can be applied again and again.
CanIterate(D, a, F, n) == \E f \in [0..n -> D] : f[0] = a /\ \A k \in 1..n : f[k] = F[f[k - 1]]

\* A function can be applied n times, one after the other.
LEMMA Iterates ==
  ASSUME NEW D, NEW a \in D, NEW F \in [D -> D], NEW n \in Nat
  PROVE  CanIterate(D, a, F, n)
  <1> DEFINE P(m) == \E f \in [0..m -> D] : f[0] = a /\ \A k \in 1..m : f[k] = F[f[k - 1]]
             T == {m \in Nat : ~P(m)}
  <1>1. SUFFICES ASSUME T # {} PROVE FALSE
    <2>1. P(n)
      BY <1>1
    <2> QED BY <2>1 DEF CanIterate
  <1>2. PICK m \in T : \A y \in T : m <= y
    <2> HIDE DEF T
    <2>1. T \subseteq Nat
      BY DEF T
    <2> QED BY <1>1, <2>1, Least
  <1>3. m \in Nat /\ ~P(m)
    OBVIOUS
  <1>4. CASE m = 0
    <2> DEFINE f == [k \in 0..0 |-> a]
    <2>1. f \in [0..0 -> D] /\ f[0] = a
      OBVIOUS
    <2> HIDE DEF f
    <2>2. P(0)
      BY <2>1
    <2> HIDE DEF P
    <2> QED BY <1>3, <1>4, <2>2
  <1>5. CASE m # 0
    <2>1. m - 1 \in Nat /\ ~(m <= m - 1)
      BY <1>3, <1>5
    <2>2. P(m - 1)
      <3> HIDE DEF P
      <3> QED BY <1>2, <2>1
    <2>3. PICK g \in [0..(m - 1) -> D] : g[0] = a /\ \A k \in 1..(m - 1) : g[k] = F[g[k - 1]]
      BY <2>2
    <2> DEFINE f == [k \in 0..m |-> IF k = m THEN F[g[m - 1]] ELSE g[k]]
    <2>4. g[m - 1] \in D
      BY <2>1, <2>3
    <2>5. f \in [0..m -> D] /\ (\A k \in 0..(m - 1) : f[k] = g[k]) /\ f[m] = F[g[m - 1]]
      <3>1. \A k \in 0..m : k = m \/ k \in 0..(m - 1)
        BY <1>3
      <3>2. \A k \in 0..m : f[k] \in D
        BY <2>3, <2>4, <3>1
      <3>3. \A k \in 0..(m - 1) : k \in 0..m /\ k # m
        BY <1>3
      <3>4. m \in 0..m
        BY <1>3
      <3> QED BY <3>2, <3>3, <3>4
    <2> HIDE DEF f
    <2>6. ASSUME NEW k \in 1..m PROVE f[k] = F[f[k - 1]]
      <3>1. k - 1 \in 0..(m - 1)
        BY <1>3
      <3>2. CASE k = m
        BY <2>5, <3>1, <3>2
      <3>3. CASE k # m
        <4>1. k \in 1..(m - 1) /\ k \in 0..(m - 1)
          BY <1>3, <3>3
        <4> QED BY <2>3, <2>5, <3>1, <4>1
      <3> QED BY <3>2, <3>3
    <2>7. f[0] = a
      BY <2>1, <2>3, <2>5
    <2>8. P(m)
      BY <2>5, <2>6, <2>7
    <2> HIDE DEF P
    <2> QED BY <1>3, <2>8
  <1> QED BY <1>4, <1>5

\* ReachableFrom, step by step.
ReachedStepwise(c, e) ==
    \E f : /\ ReachableFrom(c, e) = f[Len(c.block)] /\ f[0] = {e}
           /\ \A k \in 0..Len(c.block) : f[k] \subseteq 1..Len(c.block)
           /\ \A k \in 1..Len(c.block) : f[k] = f[k - 1] \cup SuccessorsOf(c, f[k - 1])

\* ReachableFrom grows by one edge a step, and ends in its last step.
LEMMA ReachableSteps ==
  ASSUME NEW c, Built(c), NEW e \in 1..Len(c.block)
  PROVE  ReachedStepwise(c, e)
  <1> DEFINE n == Len(c.block)
             D == SUBSET (1..n)
             F == [X \in D |-> X \cup SuccessorsOf(c, X)]
             grow == CHOOSE g : g = [k \in 0..n |-> IF k = 0 THEN {e} ELSE g[k - 1] \cup SuccessorsOf(c, g[k - 1])]
  <1>1. n \in Nat
    BY BuiltLens
  <1>2. {e} \in D /\ \A X \in D : X \cup SuccessorsOf(c, X) \in D
    BY SuccessorsInside
  <1>3. F \in [D -> D]
    BY <1>2
  <1>4. PICK f \in [0..n -> D] : f[0] = {e} /\ \A k \in 1..n : f[k] = F[f[k - 1]]
    <2> DEFINE a == {e}
    <2>1. a \in D
      BY <1>2
    <2> HIDE DEF n, D, F, a
    <2>2. CanIterate(D, a, F, n)
      BY <1>1, <1>3, <2>1, Iterates
    <2> QED BY <2>2 DEF CanIterate, a
  <1>5. ASSUME NEW k \in 1..n PROVE f[k] = f[k - 1] \cup SuccessorsOf(c, f[k - 1])
    <2>1. k - 1 \in 0..n
      BY <1>1
    <2>2. f[k - 1] \in D
      BY <2>1
    <2> QED BY <1>4, <2>2
  <1> HIDE DEF D, F
  <1>6. f = [k \in 0..n |-> IF k = 0 THEN {e} ELSE f[k - 1] \cup SuccessorsOf(c, f[k - 1])]
    <2>1. \A k \in 0..n : k = 0 \/ k \in 1..n
      BY <1>1
    <2>2. \A k \in 0..n : f[k] = IF k = 0 THEN {e} ELSE f[k - 1] \cup SuccessorsOf(c, f[k - 1])
      BY <1>4, <1>5, <2>1
    <2>3. f = [k \in 0..n |-> f[k]]
      OBVIOUS
    <2> QED BY <2>2, <2>3
  <1>7. grow = [k \in 0..n |-> IF k = 0 THEN {e} ELSE grow[k - 1] \cup SuccessorsOf(c, grow[k - 1])]
    BY <1>6
  <1>8. ReachableFrom(c, e) = grow[n]
    BY DEF ReachableFrom, Closure
  <1> HIDE DEF grow
  <1>9. grow[0] = {e} /\ \A k \in 1..n : grow[k] = grow[k - 1] \cup SuccessorsOf(c, grow[k - 1])
    <2>1. 0 \in 0..n /\ \A k \in 1..n : k \in 0..n /\ k # 0
      BY <1>1
    <2> QED BY <1>7, <2>1
  <1>10. \A k \in 0..n : grow[k] \subseteq 1..n
    <2> DEFINE T == {k \in 0..n : ~(grow[k] \subseteq 1..n)}
    <2>1. SUFFICES ASSUME T # {} PROVE FALSE
      OBVIOUS
    <2>2. PICK m \in T : \A y \in T : m <= y
      <3>1. T \subseteq Nat
        BY <1>1
      <3> HIDE DEF T
      <3> QED BY <2>1, <3>1, Least
    <2>3. m # 0
      BY <1>9, <2>2
    <2>4. m - 1 \in 0..n /\ ~(m <= m - 1) /\ m \in 1..n
      BY <1>1, <2>2, <2>3
    <2>5. grow[m - 1] \subseteq 1..n
      BY <2>2, <2>4
    <2>6. SuccessorsOf(c, grow[m - 1]) \subseteq 1..n
      BY <2>5, SuccessorsInside
    <2> QED BY <1>9, <2>2, <2>4, <2>5, <2>6
  <1> QED BY <1>8, <1>9, <1>10 DEF ReachedStepwise

\* Block b assigns register r.
AssignsIn(c, b, r) ==
    \E k \in DOMAIN c.block[b] : LET i == c.inst[c.block[b][k]]
                                 IN  i.type = "INST_ASSIGN_VAR" /\ i.rId = r

\* AssignFree, step by step.
AssignFreeStepwise(r) ==
    \E f : /\ AssignFree(r) = f[Len(ir.block)] /\ f[0] = {entry}
           /\ \A k \in 0..Len(ir.block) : f[k] \subseteq 1..Len(ir.block)
           /\ \A k \in 1..Len(ir.block) :
                 f[k] = f[k - 1] \cup SuccessorsOf(ir, {b \in f[k - 1] : ~AssignsIn(ir, b, r)})

\* AssignFree grows from the entry by one edge a step, and ends in its last step.
LEMMA AssignFreeSteps ==
  ASSUME Built(ir), entry \in 1..Len(ir.block), NEW r
  PROVE  AssignFreeStepwise(r)
  <1> DEFINE n == Len(ir.block)
             next(X) == SuccessorsOf(ir, {b \in X : ~AssignsIn(ir, b, r)})
             D == SUBSET (1..n)
             F == [X \in D |-> X \cup next(X)]
             grow == CHOOSE g : g = [k \in 0..n |-> IF k = 0 THEN {entry} ELSE g[k - 1] \cup next(g[k - 1])]
  <1>1. n \in Nat
    BY BuiltLens
  <1>2. {entry} \in D /\ \A X \in D : next(X) \in D /\ X \cup next(X) \in D
    <2>1. \A X \in D : {b \in X : ~AssignsIn(ir, b, r)} \subseteq 1..n
      OBVIOUS
    <2>2. \A X \in D : next(X) \in D
      BY <2>1, SuccessorsInside
    <2> HIDE DEF next
    <2> QED BY <2>2
  <1>3. F \in [D -> D]
    <2> HIDE DEF next
    <2> QED BY <1>2
  <1>4. PICK f \in [0..n -> D] : f[0] = {entry} /\ \A k \in 1..n : f[k] = F[f[k - 1]]
    <2> DEFINE a == {entry}
    <2>1. a \in D
      BY <1>2
    <2> HIDE DEF n, D, F, a
    <2>2. CanIterate(D, a, F, n)
      BY <1>1, <1>3, <2>1, Iterates
    <2> QED BY <2>2 DEF CanIterate, a
  <1>5. ASSUME NEW k \in 1..n PROVE f[k] = f[k - 1] \cup next(f[k - 1])
    <2>1. k - 1 \in 0..n
      BY <1>1
    <2>2. f[k - 1] \in D
      BY <2>1
    <2> HIDE DEF next
    <2> QED BY <1>4, <2>2
  <1> HIDE DEF D, F
  <1>6. f = [k \in 0..n |-> IF k = 0 THEN {entry} ELSE f[k - 1] \cup next(f[k - 1])]
    <2>1. \A k \in 0..n : k = 0 \/ k \in 1..n
      BY <1>1
    <2> HIDE DEF next
    <2>2. \A k \in 0..n : f[k] = IF k = 0 THEN {entry} ELSE f[k - 1] \cup next(f[k - 1])
      BY <1>4, <1>5, <2>1
    <2>3. f = [k \in 0..n |-> f[k]]
      OBVIOUS
    <2> QED BY <2>2, <2>3
  <1>7. grow = [k \in 0..n |-> IF k = 0 THEN {entry} ELSE grow[k - 1] \cup next(grow[k - 1])]
    <2> HIDE DEF next
    <2> QED BY <1>6
  <1>8. AssignFree(r) = grow[n]
    BY DEF AssignFree, Closure, AssignsIn
  <1> HIDE DEF grow
  <1>9. grow[0] = {entry} /\ \A k \in 1..n : grow[k] = grow[k - 1] \cup next(grow[k - 1])
    <2>1. 0 \in 0..n /\ \A k \in 1..n : k \in 0..n /\ k # 0
      BY <1>1
    <2> HIDE DEF next
    <2> QED BY <1>7, <2>1
  <1>10. \A k \in 0..n : grow[k] \subseteq 1..n
    <2> DEFINE T == {k \in 0..n : ~(grow[k] \subseteq 1..n)}
    <2> HIDE DEF next
    <2>1. SUFFICES ASSUME T # {} PROVE FALSE
      OBVIOUS
    <2>2. PICK m \in T : \A y \in T : m <= y
      <3>1. T \subseteq Nat
        BY <1>1
      <3> HIDE DEF T
      <3> QED BY <2>1, <3>1, Least
    <2>3. m # 0
      BY <1>9, <2>2
    <2>4. m - 1 \in 0..n /\ ~(m <= m - 1) /\ m \in 1..n
      BY <1>1, <2>2, <2>3
    <2>5. grow[m - 1] \in D
      BY <2>2, <2>4 DEF D
    <2>6. next(grow[m - 1]) \subseteq 1..n
      BY <1>2, <2>5 DEF D
    <2>7. grow[m - 1] \subseteq 1..n
      BY <2>5 DEF D
    <2> QED BY <1>9, <2>2, <2>4, <2>6, <2>7
  <1> QED BY <1>8, <1>9, <1>10 DEF AssignFreeStepwise

-----------------------------------------------------------------------------
\* The theorems.

\* What a finished function guarantees.
LEMMA DominatorsNext == CreationInv /\ Created => pc = "dominators" /\ entry = 1 /\ Finished(ir, regCount)
  BY DEF CreationInv, Created

\* A block without a jump leads nowhere, and a jump at the end leads somewhere.
LEMMA EndsIn ==
  ASSUME NEW c, Built(c), NEW b \in 1..Len(c.block), \A k \in 1..(Len(c.block[b]) - 1) : ~JumpAt(c, b, k)
  PROVE  (block_successor(c, b) = <<>>) <=> NoJump(c, b)
  <1> DEFINE n == Len(c.block[b])
  <1>1. n \in Nat
    BY BuiltLens
  <1>2. ASSUME NoJump(c, b) PROVE block_successor(c, b) = <<>>
    <2>1. n = 0 \/ n \in 1..n
      BY <1>1
    <2>2. n = 0 \/ ~IsJump(At(c, b, n))
      BY <1>2, <2>1 DEF NoJump, JumpAt
    <2> QED BY <2>2, Successors
  <1>3. ASSUME ~NoJump(c, b) PROVE block_successor(c, b) # <<>>
    <2>1. PICK k \in 1..n : JumpAt(c, b, k)
      BY <1>3 DEF NoJump
    <2>2. k = n
      BY <1>1, <2>1
    <2>3. Shaped(At(c, b, n), Len(c.block)) /\ n > 0
      BY <1>1, <2>1, <2>2 DEF Built, At
    <2>4. \E t : block_successor(c, b) = <<t>> \/ \E u : block_successor(c, b) = <<t, u>>
      <3>1. CASE At(c, b, n).type = "INST_JUMP"
        <4>1. \E t : At(c, b, n).uses[1] = BlockValue(t)
          BY <2>3, <3>1 DEF Shaped
        <4> QED BY <2>3, <3>1, <4>1, Successors
      <3>2. CASE At(c, b, n).type = "INST_JUMP_COND"
        <4>1. \E t, u : At(c, b, n).uses[1] = BlockValue(t) /\ At(c, b, n).uses[2] = BlockValue(u)
          BY <2>3, <3>2 DEF Shaped
        <4> QED BY <2>3, <3>2, <4>1, Successors
      <3> QED BY <2>1, <2>2, <3>1, <3>2 DEF JumpAt, IsJump
    <2>5. \A t, u : <<t>> # <<>> /\ <<t, u>> # <<>>
      BY Len(<<>>) = 0
    <2> QED BY <2>4, <2>5
  <1> QED BY <1>2, <1>3

\* A finished loop is what JumpsTwiceOnlyInLoopBody looks for.
LEMMA LoopIsClosed ==
  ASSUME Built(ir), NEW b \in 1..Len(ir.block), NEW head \in 1..Len(ir.block), LoopClosed(ir, b, head)
  PROVE  IsLoopBody(b)
  <1>1. Len(ir.block[b]) \in Nat /\ Len(ir.block[head]) \in Nat
    BY BuiltLens
  <1>2. block_successor(ir, b) = <<head>>
    BY Successors DEF LoopClosed
  <1>3. head \in ToSet(block_successor(ir, b))
    BY <1>2 DEF ToSet
  <1>4. ir.inst[Last(ir.block[b])].type = "INST_JUMP"
    BY DEF LoopClosed, At, Last
  <1>5. Shaped(At(ir, head, Len(ir.block[head])), Len(ir.block))
    <2>1. Len(ir.block[head]) \in 1..Len(ir.block[head])
      BY <1>1 DEF LoopClosed
    <2> QED BY <2>1 DEF Built, At
  <1>6. PICK t : At(ir, head, Len(ir.block[head])).uses[2] = BlockValue(t)
    BY <1>5 DEF LoopClosed, Shaped
  <1>7. block_successor(ir, head) = <<b, t>>
    BY <1>6, Successors DEF LoopClosed
  <1> QED BY <1>3, <1>4, <1>7 DEF IsLoopBody

\* A finished function has a second jump only in the body of a finished loop.
LEMMA InvJumpsTwice == CreationInv => JumpsTwiceOnlyInLoopBody
  <1>1. SUFFICES ASSUME CreationInv, Created, NEW b \in Blocks(ir), NEW k \in 1..(Len(ir.block[b]) - 1),
                        ir.inst[ir.block[b][k]].type \in Terminators \ {"INST_RETURN"}
                 PROVE  k = Len(ir.block[b]) - 1 /\ IsLoopBody(b)
    BY DEF JumpsTwiceOnlyInLoopBody
  <1>2. Built(ir) /\ JumpsTwice(ir, {}, {})
    BY <1>1, DominatorsNext DEF Finished
  <1>3. b \in 1..Len(ir.block) /\ JumpAt(ir, b, k)
    <2>1. ir.block \in Seq(Seq(Nat))
      BY <1>2, BuiltLens
    <2>2. b \in 1..Len(ir.block)
      BY <1>1, <2>1 DEF Blocks
    <2>3. \A t : t \in Terminators \ {"INST_RETURN"} => t \in {"INST_JUMP", "INST_JUMP_COND"}
      BY DEF Terminators
    <2>4. At(ir, b, k).type \in Terminators \ {"INST_RETURN"}
      BY <1>1 DEF At
    <2>5. At(ir, b, k).type \in {"INST_JUMP", "INST_JUMP_COND"}
      BY <2>3, <2>4
    <2> QED BY <2>2, <2>5 DEF JumpAt, IsJump
  <1>4. k = Len(ir.block[b]) - 1 /\ \E head \in 1..Len(ir.block) : LoopClosed(ir, b, head)
    BY <1>2, <1>3 DEF JumpsTwice
  <1> QED BY <1>2, <1>3, <1>4, LoopIsClosed

\* A jump that is not followed by an instruction of its block leads to the
\* blocks it names.
LEMMA InvConnected == CreationInv => EveryBlockConnected
  <1>1. SUFFICES ASSUME CreationInv, Created, JumpsOnlyAtEnd
                 PROVE  /\ ReachableFrom(ir, entry) = Blocks(ir)
                        /\ \E end \in Blocks(ir) : \A b \in Blocks(ir) : (block_successor(ir, b) = <<>>) <=> (b = end)
    BY DEF EveryBlockConnected
  <1> DEFINE n == Len(ir.block)
  <1>2. Built(ir) /\ ReachedFromBelow(ir, {}) /\ entry = 1 /\ \E end \in 1..n : NoJump(ir, end) /\ Leaves(ir, {end})
    BY <1>1, DominatorsNext DEF Finished
  <1>3. Blocks(ir) = 1..n /\ n \in Nat /\ \A b \in 1..n : Len(ir.block[b]) \in Nat
    BY <1>2, BuiltLens DEF Blocks
  <1>4. \A b \in 1..n : \A k \in 1..(Len(ir.block[b]) - 1) : At(ir, b, k).type \notin Terminators /\ ~JumpAt(ir, b, k)
    BY <1>1, <1>3 DEF JumpsOnlyAtEnd, At, JumpAt, IsJump, Terminators
  <1>5. \E end \in Blocks(ir) : \A b \in Blocks(ir) : (block_successor(ir, b) = <<>>) <=> (b = end)
    <2>1. PICK end \in 1..n : NoJump(ir, end) /\ Leaves(ir, {end})
      BY <1>2
    <2>2. \A b \in 1..n : b = end \/ ~NoJump(ir, b)
      BY <1>4, <2>1 DEF Leaves, JumpsEarly
    <2>3. \A b \in 1..n : (block_successor(ir, b) = <<>>) <=> NoJump(ir, b)
      BY <1>2, <1>4, EndsIn
    <2> QED BY <1>3, <2>1, <2>2, <2>3
  <1>6. 1 \in 1..n
    BY <1>2, <1>3
  <1>7. PICK f : /\ ReachableFrom(ir, 1) = f[n] /\ f[0] = {1}
                 /\ \A k \in 0..n : f[k] \subseteq 1..n
                 /\ \A k \in 1..n : f[k] = f[k - 1] \cup SuccessorsOf(ir, f[k - 1])
    <2>1. ReachedStepwise(ir, 1)
      BY <1>2, <1>6, ReachableSteps
    <2> QED BY <2>1 DEF ReachedStepwise
  <1>8. ASSUME NEW x \in 2..n, NEW p \in 1..(x - 1), JumpsTo(ir, p, x)
        PROVE  p \in 1..n /\ x \in ToSet(block_successor(ir, p))
    <2>1. p \in 1..n
      BY <1>3
    <2>2. PICK k \in 1..Len(ir.block[p]) : JumpAt(ir, p, k) /\ \E s \in 1..Len(At(ir, p, k).uses) : At(ir, p, k).uses[s] = BlockValue(x)
      BY <1>8 DEF JumpsTo
    <2>3. k = Len(ir.block[p])
      BY <1>3, <1>4, <2>1, <2>2
    <2> QED BY <1>2, <1>3, <2>1, <2>2, <2>3, SuccessorIs
  <1> DEFINE T == {k \in 0..n : ~(\A x \in 1..n : x <= k + 1 => x \in f[k])}
  <1>9. T = {}
    <2>1. SUFFICES ASSUME T # {} PROVE FALSE
      OBVIOUS
    <2>2. PICK m \in T : \A y \in T : m <= y
      <3>1. T \subseteq Nat
        BY <1>3
      <3> HIDE DEF T
      <3> QED BY <2>1, <3>1, Least
    <2>3. PICK x \in 1..n : x <= m + 1 /\ x \notin f[m]
      BY <2>2
    <2>4. m # 0
      BY <1>3, <1>7, <2>3
    <2>5. m \in 1..n /\ m - 1 \in 0..n /\ ~(m <= m - 1) /\ (m - 1) + 1 = m
      BY <1>3, <2>2, <2>4
    <2>6. \A y \in 1..n : y <= m => y \in f[m - 1]
      BY <2>2, <2>5
    <2>7. f[m] = f[m - 1] \cup SuccessorsOf(ir, f[m - 1]) /\ f[m - 1] \subseteq 1..n
      BY <1>7, <2>5
    <2>8. x = m + 1 /\ x \in 2..n
      BY <1>3, <2>3, <2>5, <2>6, <2>7
    <2>9. PICK p \in 1..(x - 1) : JumpsTo(ir, p, x)
      BY <1>2, <2>8 DEF ReachedFromBelow
    <2>10. p \in 1..n /\ x \in ToSet(block_successor(ir, p))
      BY <1>8, <2>8, <2>9
    <2>11. p \in f[m - 1]
      BY <1>3, <2>5, <2>6, <2>8, <2>9, <2>10
    <2>12. x \in SuccessorsOf(ir, f[m - 1])
      BY <1>2, <2>7, <2>10, <2>11, SuccessorsInside
    <2> QED BY <2>3, <2>7, <2>12
  <1>10. f[n] = 1..n
    <2>1. n \in 0..n
      BY <1>3
    <2>2. \A x \in 1..n : x <= n + 1 => x \in f[n]
      BY <1>9, <2>1
    <2>3. \A x \in 1..n : x <= n + 1
      BY <1>3
    <2> QED BY <1>7, <2>1, <2>2, <2>3
  <1> QED BY <1>2, <1>3, <1>5, <1>7, <1>10

\* Control enters a region through the block that declares the register, and
\* that block assigns it.
LEMMA RegionNotAssignFree ==
  ASSUME Built(ir), entry = 1, NEW r, NEW R, NEW D, Region(ir, r, R, D)
  PROVE  AssignFree(r) \cap R = {}
  <1> DEFINE n == Len(ir.block)
  <1>1. R \subseteq 1..n /\ D \in 1..n /\ 1 \notin R /\ EnteredFrom(ir, R, D)
    BY DEF Region
  <1>2. n \in Nat /\ 1 \in 1..n /\ ir.block \in Seq(Seq(Nat))
    BY <1>1, BuiltLens
  <1>3. AssignsIn(ir, D, r)
    <2>1. ir.block[D] \in Seq(Nat)
      BY <1>1, <1>2
    <2> QED BY <1>1, <2>1 DEF Region, Assigns, AssignsIn
  <1>4. PICK f : /\ AssignFree(r) = f[n] /\ f[0] = {1}
                 /\ \A k \in 0..n : f[k] \subseteq 1..n
                 /\ \A k \in 1..n : f[k] = f[k - 1] \cup SuccessorsOf(ir, {b \in f[k - 1] : ~AssignsIn(ir, b, r)})
    <2>1. AssignFreeStepwise(r)
      BY <1>2, AssignFreeSteps
    <2> QED BY <2>1 DEF AssignFreeStepwise
  <1>5. ASSUME NEW p \in 1..n, NEW x \in R, x \in ToSet(block_successor(ir, p)), p \notin R
        PROVE  AssignsIn(ir, p, r)
    <2> DEFINE last == Len(ir.block[p])
    <2>1. last \in Nat
      BY BuiltLens
    <2>2. last > 0 /\ JumpAt(ir, p, last) /\ \E s \in 1..Len(At(ir, p, last).uses) : At(ir, p, last).uses[s] = BlockValue(x)
      BY <1>5, SuccessorIs
    <2>3. JumpsInto(At(ir, p, last), R)
      BY <1>5, <2>2 DEF JumpsInto, JumpAt, BlockValue
    <2>4. p \in R \cup {D}
      BY <1>1, <1>5, <2>1, <2>2, <2>3 DEF EnteredFrom
    <2> QED BY <1>3, <1>5, <2>4
  <1> DEFINE T == {k \in 0..n : f[k] \cap R # {}}
  <1>6. T = {}
    <2>1. SUFFICES ASSUME T # {} PROVE FALSE
      OBVIOUS
    <2>2. PICK m \in T : \A y \in T : m <= y
      <3>1. T \subseteq Nat
        BY <1>2
      <3> HIDE DEF T
      <3> QED BY <2>1, <3>1, Least
    <2>3. PICK x \in R : x \in f[m]
      BY <2>2
    <2>4. m # 0
      BY <1>1, <1>4, <2>3
    <2>5. m \in 1..n /\ m - 1 \in 0..n /\ ~(m <= m - 1)
      BY <1>2, <2>2, <2>4
    <2> DEFINE S == {b \in f[m - 1] : ~AssignsIn(ir, b, r)}
    <2>6. f[m - 1] \cap R = {}
      BY <2>2, <2>5
    <2>7. S \subseteq 1..n /\ f[m] = f[m - 1] \cup SuccessorsOf(ir, S)
      BY <1>4, <2>5
    <2>8. \A p \in S : p \in f[m - 1] /\ ~AssignsIn(ir, p, r)
      OBVIOUS
    <2> HIDE DEF S
    <2>9. x \in SuccessorsOf(ir, S)
      BY <2>3, <2>6, <2>7
    <2>10. PICK p \in S : x \in ToSet(block_successor(ir, p))
      BY <2>7, <2>9, SuccessorsInside
    <2>11. p \in 1..n /\ p \notin R /\ ~AssignsIn(ir, p, r)
      BY <2>6, <2>7, <2>8, <2>10
    <2> QED BY <1>5, <2>3, <2>10, <2>11
  <1>7. n \in 0..n
    BY <1>2
  <1> QED BY <1>4, <1>6, <1>7

\* No path that avoids the assignments to a register reaches a load of it.
LEMMA InvAssignedBeforeLoad == CreationInv => AssignedBeforeLoad
  <1>1. SUFFICES ASSUME CreationInv, Created, NEW b \in Blocks(ir), NEW k \in DOMAIN ir.block[b],
                        ir.inst[ir.block[b][k]].type = "INST_LOAD_VAR"
                 PROVE  LET i == ir.block[b][k]
                            r == ir.inst[i].rId
                        IN  \/ b \notin AssignFree(r)
                            \/ \E j \in 1..(k - 1) : LET a == ir.inst[ir.block[b][j]]
                                                    IN  a.type = "INST_ASSIGN_VAR" /\ a.rId = r
                            \/ OwnInitialiser(i)
    BY DEF AssignedBeforeLoad
  <1> DEFINE i == ir.block[b][k]
             r == ir.inst[i].rId
  <1>2. /\ Built(ir) /\ entry = 1 /\ RegsKnown(ir, regCount)
        /\ \A x \in 0..(regCount - 1) : \E R, D : Region(ir, x, R, D)
    BY <1>1, DominatorsNext DEF Finished
  <1>3. ir.block \in Seq(Seq(Nat)) /\ ir.inst \in Seq(Inst) /\ Len(ir.inst) \in Nat
    BY <1>2, BuiltLens
  <1>4. b \in 1..Len(ir.block) /\ ir.block[b] \in Seq(Nat)
    BY <1>1, <1>3 DEF Blocks
  <1>5. k \in 1..Len(ir.block[b])
    BY <1>1, <1>4
  <1>6. i \in 1..Len(ir.inst)
    BY <1>2, <1>4, <1>5 DEF Built
  <1>7. r \in 0..(regCount - 1)
    BY <1>1, <1>2, <1>6 DEF RegsKnown
  <1>8. PICK R, D : Region(ir, r, R, D)
    <2> HIDE DEF r
    <2> QED BY <1>2, <1>7
  <1>9. LoadIsSafe(ir, R, r, b, k)
    <2>1. At(ir, b, k).type = "INST_LOAD_VAR" /\ At(ir, b, k).rId = r
      BY <1>1 DEF At
    <2>2. LoadsSafe(ir, r, R)
      BY <1>8 DEF Region
    <2> HIDE DEF r
    <2> QED BY <1>4, <1>5, <2>1, <2>2 DEF LoadsSafe
  <1>10. CASE b \in R
    <2>1. AssignFree(r) \cap R = {}
      <3> HIDE DEF r
      <3> QED BY <1>2, <1>8, RegionNotAssignFree
    <2> QED BY <1>10, <2>1
  <1>11. CASE \E j \in 1..(k - 1) : Assigns(ir, ir.block[b][j], r)
    BY <1>11 DEF Assigns
  <1>12. CASE \A a \in 1..Len(ir.inst) : Assigns(ir, a, r) => i < a
    <2> DEFINE A == {a \in DOMAIN ir.inst : ir.inst[a].type = "INST_ASSIGN_VAR" /\ ir.inst[a].rId = r}
    <2>1. DOMAIN ir.inst = 1..Len(ir.inst)
      BY <1>3
    <2>2. A \subseteq Nat /\ \A a \in A : i < a
      BY <1>3, <1>12, <2>1 DEF Assigns
    <2>3. A # {}
      <3>1. PICK q \in 1..Len(ir.block[D]) : Assigns(ir, ir.block[D][q], r)
        BY <1>8 DEF Region
      <3>2. D \in 1..Len(ir.block)
        BY <1>8 DEF Region
      <3>3. ir.block[D][q] \in 1..Len(ir.inst)
        BY <1>2, <3>1, <3>2 DEF Built
      <3> QED BY <2>1, <3>1, <3>3 DEF Assigns
    <2>4. OwnInitialiser(i) <=> i < Min(A)
      BY DEF OwnInitialiser
    <2> HIDE DEF A
    <2>5. \E n \in A : \A m \in A : n <= m
      BY <2>2, <2>3, Least
    <2>6. Min(A) \in A
      BY <2>5 DEF Min
    <2> QED BY <2>2, <2>4, <2>6
  <1> QED BY <1>9, <1>10, <1>11, <1>12 DEF LoadIsSafe

-----------------------------------------------------------------------------
\* The first predecessor of a block.

\* A block comes after the blocks whose jumps name it, in the order in which
\* those jumps were made.
LEMMA Predecessors ==
  ASSUME NEW c, Built(c), NEW b \in 1..Len(c.block)
  PROVE  LET preds == block_predecessor(c, b)
         IN  /\ preds \in Seq(1..Len(c.block)) /\ Len(preds) = Len(UsersOf(c, b))
             /\ \A k \in 1..Len(preds) : \E i \in 1..Len(c.inst) :
                   UsersOf(c, b)[k][1] = i /\ preds[k] = c.inst[i].parent /\ NamesBlock(c.inst[i], b)
  <1> DEFINE users == UsersOf(c, b)
             preds == block_predecessor(c, b)
             n == Len(users)
  <1>1. Listed(c, b)
    BY DEF Built, Linked
  <1>2. users \in Seq(Nat \X Nat) /\ n \in Nat /\ DOMAIN users = 1..n
    <2>1. users \in Seq(Nat \X Nat)
      BY <1>1 DEF Listed, HasUsers
    <2> HIDE DEF users
    <2> QED BY <2>1
  <1>3. preds = [k \in 1..n |-> c.inst[users[k][1]].parent]
    <2>1. DOMAIN c.uses[BlockValue(b)] = 1..n
      <3> HIDE DEF n
      <3> QED BY <1>2 DEF UsersOf
    <2> HIDE DEF n
    <2> QED BY <2>1 DEF block_predecessor, UsersOf
  <1>4. ASSUME NEW k \in 1..n
        PROVE  \E i \in 1..Len(c.inst) : users[k][1] = i /\ preds[k] = c.inst[i].parent /\ NamesBlock(c.inst[i], b)
    <2>0. \A j \in 1..Len(users) : \E i \in 1..Len(c.inst) : \E s \in 1..Len(c.inst[i].uses) :
             users[j][1] = i /\ users[j][2] = s /\ c.inst[i].uses[s] = BlockValue(b)
      BY <1>1, Zenon DEF Listed
    <2> HIDE DEF users
    <2>1. PICK i \in 1..Len(c.inst) : \E s \in 1..Len(c.inst[i].uses) : users[k][1] = i /\ c.inst[i].uses[s] = BlockValue(b)
      BY <2>0, Zenon
    <2>2. users[k][1] = i /\ NamesBlock(c.inst[i], b)
      BY <2>1 DEF NamesBlock
    <2>3. preds[k] = c.inst[i].parent
      BY <1>3, <2>2
    <2> QED BY <2>2, <2>3
  <1>5. \A k \in 1..n : preds[k] \in 1..Len(c.block)
    <2>1. ASSUME NEW i \in 1..Len(c.inst) PROVE c.inst[i].parent \in 1..Len(c.block)
      <3>1. PICK x \in 1..Len(c.block) : \E k \in 1..Len(c.block[x]) : c.block[x][k] = i
        BY DEF Built, Linked
      <3>2. PICK k \in 1..Len(c.block[x]) : c.block[x][k] = i
        BY <3>1
      <3> QED BY <3>2 DEF Built, Linked
    <2> QED BY <1>4, <2>1
  <1> HIDE DEF users, n
  <1>6. preds \in Seq(1..Len(c.block)) /\ Len(preds) = n
    <2> DEFINE q == preds
               T == 1..Len(c.block)
    <2>1. q = [k \in 1..n |-> q[k]] /\ \A k \in 1..n : q[k] \in T
      BY <1>3, <1>5
    <2> HIDE DEF q, T
    <2>2. q \in [1..n -> T]
      BY <2>1
    <2>3. q \in Seq(T) /\ Len(q) = n
      BY <1>2, <2>2
    <2> QED BY <2>3 DEF q, T
  <1> QED BY <1>4, <1>6 DEF n, users

\* Predecessors jump to the block.
LEMMA PredecessorsJump ==
  ASSUME NEW c, Built(c), NEW b \in 1..Len(c.block), NEW i \in 1..Len(c.inst), NamesBlock(c.inst[i], b)
  PROVE  JumpsTo(c, c.inst[i].parent, b)
  <1>1. IsJump(c.inst[i])
    <2>1. Shaped(c.inst[i], Len(c.block)) /\ Len(c.block) \in Nat /\ b \in Nat
      BY BuiltLens DEF Built
    <2> QED BY <2>1, NamesAreJumps
  <1>2. PICK x \in 1..Len(c.block) : \E k \in 1..Len(c.block[x]) : c.block[x][k] = i
    BY DEF Built, Linked
  <1>3. PICK k \in 1..Len(c.block[x]) : c.block[x][k] = i
    BY <1>2
  <1>4. c.inst[i].parent = x
    BY <1>3 DEF Built, Linked
  <1>5. JumpAt(c, x, k) /\ NamesBlock(At(c, x, k), b)
    BY <1>1, <1>3 DEF JumpAt, At
  <1> QED BY <1>4, <1>5, JumpsToIs

\* A block that a jump leads to has the block of that jump among its predecessors.
LEMMA JumpsArePredecessors ==
  ASSUME NEW c, Built(c), NEW b \in 1..Len(c.block), NEW x \in 1..Len(c.block), JumpsTo(c, x, b)
  PROVE  x \in ToSet(block_predecessor(c, b))
  <1> DEFINE users == UsersOf(c, b)
             preds == block_predecessor(c, b)
  <1>1. PICK k \in 1..Len(c.block[x]) : JumpAt(c, x, k) /\ NamesBlock(At(c, x, k), b)
    BY JumpsToIs
  <1> DEFINE i == c.block[x][k]
  <1>2. i \in 1..Len(c.inst) /\ c.inst[i].parent = x /\ NamesBlock(c.inst[i], b)
    BY <1>1 DEF Built, Linked, At
  <1>3. PICK s \in 1..Len(c.inst[i].uses) : c.inst[i].uses[s] = BlockValue(b)
    BY <1>2 DEF NamesBlock
  <1>4. Listed(c, b)
    BY DEF Built, Linked
  <1> HIDE DEF i
  <1>5. PICK m \in 1..Len(users) : users[m][1] = i
    BY <1>2, <1>3, <1>4 DEF Listed
  <1>6. /\ preds \in Seq(1..Len(c.block)) /\ Len(preds) = Len(users)
        /\ \A n \in 1..Len(preds) : \E j \in 1..Len(c.inst) : users[n][1] = j /\ preds[n] = c.inst[j].parent
    <2>1. /\ preds \in Seq(1..Len(c.block)) /\ Len(preds) = Len(users)
          /\ \A n \in 1..Len(preds) : \E j \in 1..Len(c.inst) :
                users[n][1] = j /\ preds[n] = c.inst[j].parent /\ NamesBlock(c.inst[j], b)
      BY Predecessors, Zenon
    <2> HIDE DEF preds, users
    <2> QED BY <2>1
  <1>7. m \in 1..Len(preds) /\ preds[m] = x
    BY <1>2, <1>5, <1>6
  <1>8. DOMAIN preds = 1..Len(preds)
    <2> HIDE DEF preds
    <2> QED BY <1>6
  <1> QED BY <1>7, <1>8 DEF ToSet

\* The first predecessor is the block with the first instruction that names
\* the block.
LEMMA FirstPredecessor ==
  ASSUME NEW c, Built(c), NEW b \in 1..Len(c.block), NEW p, EnteredFirst(c, p, b)
  PROVE  block_predecessor(c, b) # <<>> /\ Head(block_predecessor(c, b)) = p
  <1> DEFINE users == UsersOf(c, b)
             preds == block_predecessor(c, b)
  <1>1. PICK i \in 1..Len(c.inst) : /\ c.inst[i].parent = p /\ NamesBlock(c.inst[i], b)
                                    /\ \A j \in 1..(i - 1) : ~NamesBlock(c.inst[j], b)
    BY DEF EnteredFirst
  <1>2. PICK s \in 1..Len(c.inst[i].uses) : c.inst[i].uses[s] = BlockValue(b)
    BY <1>1 DEF NamesBlock
  <1>3. Listed(c, b) /\ Len(c.inst) \in Nat
    BY BuiltLens DEF Built, Linked
  <1>4. PICK k \in 1..Len(users) : users[k][1] = i
    BY <1>2, <1>3 DEF Listed
  <1>5. /\ preds \in Seq(1..Len(c.block)) /\ Len(preds) = Len(users)
        /\ \A m \in 1..Len(preds) : \E j \in 1..Len(c.inst) :
              users[m][1] = j /\ preds[m] = c.inst[j].parent /\ NamesBlock(c.inst[j], b)
    BY Predecessors
  <1>6. Len(preds) \in Nat /\ 1 \in 1..Len(preds) /\ 1 \in 1..k
    <2> HIDE DEF preds, users
    <2> QED BY <1>4, <1>5
  <1>7. PICK j \in 1..Len(c.inst) : users[1][1] = j /\ preds[1] = c.inst[j].parent /\ NamesBlock(c.inst[j], b)
    BY <1>5, <1>6
  <1>8. users[1][1] <= users[k][1]
    BY <1>3, <1>4, <1>6 DEF Listed
  <1>9. j = i
    <2>1. j <= i
      BY <1>4, <1>7, <1>8
    <2>2. j \notin 1..(i - 1)
      BY <1>1, <1>7
    <2> QED BY <1>3, <2>1, <2>2
  <1>10. preds # <<>> /\ Head(preds) = preds[1]
    <2> HIDE DEF preds
    <2> QED BY <1>5, <1>6
  <1> QED BY <1>1, <1>7, <1>9, <1>10

\* Jumps from blocks outside the cut are the last instructions of their blocks
\* unless they lead into it.
LEMMA SuccessorsOutside ==
  ASSUME NEW c, Built(c), JumpsTwice(c, {}, {}), NEW U, NEW S, Cut(c, U, S),
         NEW x \in 1..Len(c.block), x \notin S, NEW t \in Nat
  PROVE  t \in ToSet(block_successor(c, x)) <=> JumpsTo(c, x, t) /\ t \notin S
  <1> DEFINE n == Len(c.block[x])
  <1>1. n \in Nat
    BY BuiltLens
  <1>2. t \in ToSet(block_successor(c, x)) <=> n > 0 /\ JumpAt(c, x, n) /\ NamesBlock(At(c, x, n), t)
    BY SuccessorIs DEF NamesBlock
  <1>3. ASSUME NEW k \in 1..n, JumpAt(c, x, k), NamesBlock(At(c, x, k), t)
        PROVE  t \in S <=> k # n
    <2>1. t \in S <=> LaterJump(c, x, k)
      BY <1>3 DEF Cut
    <2>2. CASE k = n
      <3>1. ~LaterJump(c, x, k)
        BY <1>1, <2>2 DEF LaterJump
      <3> QED BY <2>1, <2>2, <3>1
    <2>3. CASE k # n
      <3>1. k \in 1..(n - 1)
        BY <1>1, <2>3
      <3>2. k = n - 1 /\ \E head \in 1..Len(c.block) : LoopClosed(c, x, head)
        BY <1>3, <3>1 DEF JumpsTwice
      <3>3. JumpAt(c, x, n)
        BY <3>2 DEF LoopClosed, JumpAt, IsJump
      <3>4. LaterJump(c, x, k)
        BY <1>1, <3>1, <3>3 DEF LaterJump
      <3> QED BY <2>1, <2>3, <3>4
    <2> QED BY <2>2, <2>3
  <1>4. ASSUME t \in ToSet(block_successor(c, x)) PROVE JumpsTo(c, x, t) /\ t \notin S
    <2>1. n \in 1..n /\ JumpAt(c, x, n) /\ NamesBlock(At(c, x, n), t)
      BY <1>1, <1>2, <1>4
    <2> QED BY <1>3, <2>1, JumpsToIs
  <1>5. ASSUME JumpsTo(c, x, t), t \notin S PROVE t \in ToSet(block_successor(c, x))
    <2>1. PICK k \in 1..n : JumpAt(c, x, k) /\ NamesBlock(At(c, x, k), t)
      BY <1>5, JumpsToIs
    <2>2. k = n
      BY <1>3, <1>5, <2>1
    <2> QED BY <1>1, <1>2, <2>1, <2>2
  <1> QED BY <1>4, <1>5

\* A sequence of blocks, all of them in R.
LEMMA SeqInto ==
  ASSUME NEW T, NEW s \in Seq(T), NEW R, \A k \in 1..Len(s) : s[k] \in R
  PROVE  s \in Seq(R)
  <1>1. Len(s) \in Nat /\ s = [k \in 1..Len(s) |-> s[k]]
    OBVIOUS
  <1>2. s \in [1..Len(s) -> R]
    BY <1>1
  <1> QED BY <1>1, <1>2

\* A block has at most two successors.
LEMMA SuccessorSeq ==
  ASSUME NEW c, Built(c), NEW b \in 1..Len(c.block), NEW R, \A t \in ToSet(block_successor(c, b)) : t \in R
  PROVE  block_successor(c, b) \in Seq(R)
  <1> DEFINE n == Len(c.block[b])
             last == At(c, b, n)
             succs == block_successor(c, b)
  <1>1. n \in Nat
    BY BuiltLens
  <1>2. \/ succs = <<>> \/ (\E t : succs = <<t>>) \/ \E t, u : succs = <<t, u>>
    <2>1. CASE n = 0 \/ ~IsJump(last)
      BY <2>1, Successors
    <2>2. CASE n > 0 /\ IsJump(last)
      <3>1. Shaped(last, Len(c.block))
        BY <1>1, <2>2 DEF Built, At
      <3>2. CASE last.type = "INST_JUMP"
        <4>1. PICK t : last.uses[1] = BlockValue(t)
          BY <3>1, <3>2 DEF Shaped
        <4> QED BY <2>2, <3>2, <4>1, Successors
      <3>3. CASE last.type = "INST_JUMP_COND"
        <4>1. PICK t, u : last.uses[1] = BlockValue(t) /\ last.uses[2] = BlockValue(u)
          BY <3>1, <3>3 DEF Shaped
        <4> QED BY <2>2, <3>3, <4>1, Successors
      <3> QED BY <2>2, <3>2, <3>3 DEF IsJump
    <2> QED BY <1>1, <2>1, <2>2
  <1> DEFINE q == succs
  <1>3. (\/ q = <<>> \/ (\E t : q = <<t>>) \/ \E t, u : q = <<t, u>>) /\ \A t \in ToSet(q) : t \in R
    BY <1>2
  <1> HIDE DEF q
  <1>4. \A k \in DOMAIN q : q[k] \in R
    BY <1>3 DEF ToSet
  <1>5. q \in Seq(R)
    <2>1. CASE q = <<>>
      BY <2>1
    <2>2. CASE \E t : q = <<t>>
      <3>1. PICK t : q = <<t>>
        BY <2>2
      <3>2. 1 \in DOMAIN q /\ q[1] = t
        BY <3>1
      <3>3. t \in R
        BY <1>4, <3>2
      <3> QED BY <3>1, <3>3
    <2>3. CASE \E t, u : q = <<t, u>>
      <3>1. PICK t, u : q = <<t, u>>
        BY <2>3
      <3>2. 1 \in DOMAIN q /\ q[1] = t /\ 2 \in DOMAIN q /\ q[2] = u
        BY <3>1
      <3>3. t \in R /\ u \in R
        BY <1>4, <3>2
      <3> QED BY <3>1, <3>3
    <2> QED BY <1>3, <2>1, <2>2, <2>3
  <1> QED BY <1>5 DEF q

\* A finished function has the shape that Dominators.tla needs: the blocks outside
\* the cut are those that can be reached.
LEMMA Ordered ==
  ASSUME NEW c, NEW n, Finished(c, n)
  PROVE  FirstPredecessorDominates(c, 1)
  <1>1. /\ Built(c) /\ JumpsTwice(c, {}, {}) /\ ReachedFromBelow(c, {}) /\ Nest(c, {})
        /\ (\A b \in 2..Len(c.block) : Guarded(c, <<>>, b)) /\ \E end : end \in 1..Len(c.block)
    BY DEF Finished
  <1>2. PICK S : Cut(c, {1}, S)
    BY DEF Finished
  <1> DEFINE m == Len(c.block)
             R == (1..m) \ S
             preds(b) == block_predecessor(c, b)
             succs(b) == block_successor(c, b)
  <1>3. m \in Nat /\ Blocks(c) = 1..m /\ 1 \in 1..m
    BY <1>1, BuiltLens DEF Blocks
  <1>4. R \subseteq Blocks(c) /\ 1 \in R
    BY <1>2, <1>3 DEF Cut
  <1>5. ASSUME NEW x \in 1..m, NEW t \in Nat, JumpsTo(c, x, t) PROVE t \in 1..m /\ t # 1 /\ (x \in S => t \in S)
    <2>1. t \in 1..m
      BY <1>1, <1>5, JumpsStayIn
    <2>2. t # 1
      BY <1>1, <1>5 DEF Nest
    <2>3. x \in S => t \in S
      BY <1>2, <1>5 DEF Cut
    <2> QED BY <2>1, <2>2, <2>3
  <1>6. ASSUME NEW b \in 1..m
        PROVE  /\ preds(b) \in Seq(1..m)
               /\ \A k \in 1..Len(preds(b)) : preds(b)[k] \in 1..m /\ JumpsTo(c, preds(b)[k], b)
    <2>1. /\ preds(b) \in Seq(1..m)
          /\ \A k \in 1..Len(preds(b)) : \E i \in 1..Len(c.inst) : preds(b)[k] = c.inst[i].parent /\ NamesBlock(c.inst[i], b)
      BY <1>1, Predecessors
    <2>2. ASSUME NEW k \in 1..Len(preds(b)) PROVE preds(b)[k] \in 1..m /\ JumpsTo(c, preds(b)[k], b)
      <3>1. PICK i \in 1..Len(c.inst) : preds(b)[k] = c.inst[i].parent /\ NamesBlock(c.inst[i], b)
        BY <2>1
      <3>2. JumpsTo(c, preds(b)[k], b)
        BY <1>1, <3>1, PredecessorsJump
      <3>3. preds(b)[k] \in 1..m
        <4> DEFINE q == preds(b)
                   T == 1..m
        <4>1. q \in Seq(T) /\ k \in 1..Len(q)
          BY <2>1
        <4> HIDE DEF q, T
        <4>2. q[k] \in T
          BY <4>1
        <4> QED BY <4>2 DEF q, T
      <3> QED BY <3>2, <3>3
    <2> QED BY <2>1, <2>2
  <1>7. preds(1) = <<>>
    <2> DEFINE q == preds(1)
    <2>1. q \in Seq(1..m) /\ \A k \in 1..Len(q) : FALSE
      BY <1>3, <1>5, <1>6
    <2> HIDE DEF q
    <2>2. q = <<>>
      BY <2>1
    <2> QED BY <2>2 DEF q
  <1>8. ASSUME NEW x \in R, NEW t \in ToSet(succs(x)) PROVE t \in R /\ JumpsTo(c, x, t)
    <2>1. t \in 1..m
      <3>1. {x} \subseteq 1..m
        OBVIOUS
      <3>2. t \in SuccessorsOf(c, {x})
        BY <1>1, <3>1, SuccessorsInside
      <3> QED BY <1>1, <3>1, <3>2, SuccessorsInside
    <2>2. JumpsTo(c, x, t) /\ t \notin S
      <3>1. t \in Nat /\ x \in 1..m /\ x \notin S
        BY <2>1
      <3> QED BY <1>1, <1>2, <3>1, SuccessorsOutside
    <2> QED BY <2>1, <2>2
  <1>9. ASSUME NEW b \in R PROVE succs(b) \in Seq(R) /\ preds(b) \in Seq(R)
    <2>1. succs(b) \in Seq(R)
      <3>1. b \in 1..m /\ \A t \in ToSet(succs(b)) : t \in R
        BY <1>8
      <3> HIDE DEF R
      <3> QED BY <1>1, <3>1, SuccessorSeq
    <2>2. preds(b) \in Seq(R)
      <3>1. b \in 1..m /\ b \in Nat /\ b \notin S
        OBVIOUS
      <3>2. \A k \in 1..Len(preds(b)) : preds(b)[k] \in R
        BY <1>5, <1>6, <3>1
      <3>3. preds(b) \in Seq(1..m)
        BY <1>6
      <3> HIDE DEF R
      <3> QED BY <3>2, <3>3, SeqInto
    <2> QED BY <2>1, <2>2
  <1>12. ASSUME NEW b \in R, NEW x \in R PROVE x \in ToSet(succs(b)) <=> b \in ToSet(preds(x))
    <2>1. b \in 1..m /\ x \in 1..m /\ x \in Nat /\ b \notin S /\ x \notin S
      BY <1>3
    <2>2. x \in ToSet(succs(b)) <=> JumpsTo(c, b, x)
      BY <1>1, <1>2, <2>1, SuccessorsOutside
    <2>3. ASSUME JumpsTo(c, b, x) PROVE b \in ToSet(preds(x))
      BY <1>1, <2>1, <2>3, JumpsArePredecessors
    <2>4. ASSUME b \in ToSet(preds(x)) PROVE JumpsTo(c, b, x)
      <3> DEFINE q == preds(x)
      <3>1. q \in Seq(1..m) /\ \A k \in 1..Len(q) : JumpsTo(c, q[k], x)
        BY <1>6, <2>1
      <3>2. b \in ToSet(q)
        BY <2>4
      <3> HIDE DEF q
      <3>3. PICK k \in 1..Len(q) : q[k] = b
        BY <3>1, <3>2 DEF ToSet
      <3> QED BY <3>1, <3>3
    <2> QED BY <2>2, <2>3, <2>4
  <1>13. EdgesAgree(c, R)
    <2> HIDE DEF R
    <2> QED BY <1>9, <1>12 DEF EdgesAgree
  <1>10. ASSUME NEW b \in R \ {1}
         PROVE  /\ preds(b) # <<>>
                /\ \E x \in R : x < b /\ b \in ToSet(succs(x))
                /\ \E A \in SUBSET Blocks(c) : b \in A /\ Head(preds(b)) \notin A /\ 1 \notin A /\ OnlyEntry(c, R, A, Head(preds(b)))
    <2>1. b \in 2..m /\ b \in 1..m /\ b \in Nat /\ b \notin S
      BY <1>3
    <2>2. PICK p, a, e : Guard(c, b, p, a, e)
      BY <1>1, <2>1 DEF Guarded
    <2>3. preds(b) # <<>> /\ Head(preds(b)) = p
      BY <1>1, <2>1, <2>2, FirstPredecessor DEF Guard
    <2>4. \E x \in R : x < b /\ b \in ToSet(succs(x))
      <3>1. PICK x \in 1..(b - 1) : JumpsTo(c, x, b)
        BY <1>1, <2>1 DEF ReachedFromBelow
      <3>2. x \in 1..m /\ x < b
        BY <1>3, <2>1
      <3>3. x \notin S
        BY <1>5, <2>1, <3>1, <3>2
      <3>4. b \in ToSet(succs(x))
        BY <1>1, <1>2, <2>1, <3>1, <3>2, <3>3, SuccessorsOutside
      <3> QED BY <3>2, <3>3, <3>4
    <2>5. \E A \in SUBSET Blocks(c) : b \in A /\ p \notin A /\ 1 \notin A /\ OnlyEntry(c, R, A, p)
      <3> DEFINE A == a..e
      <3>1. /\ p \in 1..m /\ a \in Nat /\ e \in Nat /\ p < a /\ a <= b /\ b <= e /\ e <= m /\ Enclosed(c, p, a, e)
        BY <2>2 DEF Guard
      <3>2. A \subseteq 1..m /\ b \in A /\ p \notin A /\ 1 \notin A
        BY <1>3, <2>1, <3>1
      <3>3. ASSUME NEW x \in R \ A, x # p, NEW t \in ToSet(succs(x)) \cap A PROVE FALSE
        <4>1. JumpsTo(c, x, t) /\ t \in Nat /\ a <= t /\ t <= e
          BY <1>8, <3>1, <3>3
        <4>2. a <= x /\ x <= e /\ x \in Nat
          BY <3>1, <3>3, <4>1 DEF Enclosed
        <4> QED BY <3>1, <3>3, <4>2
      <3>4. OnlyEntry(c, R, A, p)
        BY <3>3 DEF OnlyEntry
      <3> HIDE DEF A
      <3> QED BY <1>3, <3>2, <3>4
    <2> QED BY <2>3, <2>4, <2>5
  <1>11. ASSUME NEW b \in R \ {1}
         PROVE  \E A \in SUBSET R : b \in A /\ Head(preds(b)) \notin A /\ 1 \notin A /\ OnlyEntry(c, R, A, Head(preds(b)))
    <2>1. PICK A \in SUBSET Blocks(c) : b \in A /\ Head(preds(b)) \notin A /\ 1 \notin A /\ OnlyEntry(c, R, A, Head(preds(b)))
      BY <1>10
    <2>2. OnlyEntry(c, R, A \cap R, Head(preds(b)))
      <3>1. ASSUME NEW x \in R \ (A \cap R), x # Head(preds(b)) PROVE ToSet(succs(x)) \cap (A \cap R) = {}
        <4>1. x \in R \ A
          BY <3>1
        <4>2. ToSet(succs(x)) \cap A = {}
          BY <2>1, <3>1, <4>1 DEF OnlyEntry
        <4> QED BY <4>2
      <3> HIDE DEF R, preds
      <3> QED BY <3>1 DEF OnlyEntry
    <2> HIDE DEF R, preds
    <2> QED BY <2>1, <2>2
  <1> HIDE DEF R
  <1>14. HeadedBy(c, 1, R)
    BY <1>4, <1>7, <1>10, <1>11, <1>13 DEF HeadedBy
  <1> QED BY <1>4, <1>14 DEF FirstPredecessorDominates

\* Where ir_creation is done, the first predecessor of each block dominates it.
LEMMA InvFirstPredecessor == CreationInv => (Created => FirstPredecessorDominates(ir, entry))
  <1>1. SUFFICES ASSUME CreationInv, Created PROVE FirstPredecessorDominates(ir, entry)
    OBVIOUS
  <1>2. entry = 1 /\ Finished(ir, regCount)
    BY <1>1, DominatorsNext
  <1> QED BY <1>2, Ordered

\* On every path of the control flow graph a register is assigned before it is
\* loaded, except in the initial value of its own declaration: what _findReg,
\* _createReg and the parent link of block_info make of scoping.
THEOREM AssignedBeforeLoadAlways == Spec => []AssignedBeforeLoad
  BY CreationInvariant, InvAssignedBeforeLoad, PTL

\* A jump is followed by another instruction of its block only where
\* create_statement closes a loop in the first block of its body, and then by
\* the jump back alone.
THEOREM JumpsTwiceOnlyInLoopBodyAlways == Spec => []JumpsTwiceOnlyInLoopBody
  BY CreationInvariant, InvJumpsTwice, PTL

\* Where every block keeps its jump at the end, all the blocks that
\* create_statement makes can be reached from the entry, and the function ends
\* in the only one that has no jump.
THEOREM EveryBlockConnectedAlways == Spec => []EveryBlockConnected
  BY CreationInvariant, InvConnected, PTL

\* Every block that the entry reaches has predecessors, all of them reached, one
\* of them made before it; the entry has none; and the first in the list of its
\* predecessors, the block with the first jump that create_statement gave it,
\* dominates it.  dominators_compute takes that block for its first estimate.
THEOREM FirstPredecessorDominatesAlways == Spec => [](Created => FirstPredecessorDominates(ir, entry))
  BY CreationInvariant, InvFirstPredecessor, PTL
=============================================================================
