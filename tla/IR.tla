--------------------------------- MODULE IR ---------------------------------
(***************************************************************************)
(* The intermediate representation of ir.h / ir.c: basic blocks that hold   *)
(* instructions, values that know their users, and the operations that      *)
(* build and edit them.  An IR context is one record                        *)
(*   inst   instructions in creation order; an instruction is its index     *)
(*   block  blocks in creation order, each the list of its instructions     *)
(*   consts how many constants ir_constant_value has made (never uniqued)   *)
(*   uses   the use list of every value: <<instruction, operand>> pairs in  *)
(*          list order (list_add appends, so creation order)                *)
(* Pointers are indices, names and printed text are left out.  The field    *)
(* "parent" of an instruction outside every block is 0 (NULL).              *)
(***************************************************************************)
EXTENDS Integers, Sequences, SequencesExt

BlockValue(b) == <<"V_BLOCK", b>>
InstValue(i)  == <<"INST", i>>
ConstValue(c) == <<"CONST", c>>
NoValue       == <<"NULL", 0>>

ir_context_init == [inst |-> <<>>, block |-> <<>>, consts |-> 0, uses |-> <<>>]

\* _value_init: a fresh value has an empty use list.
ValueInit(ir, v) ==
    [ir EXCEPT !.uses = [x \in DOMAIN @ \cup {v} |-> IF x = v THEN <<>> ELSE @[x]]]

value_hasUse(ir, v) == ir.uses[v] # <<>>

\* The data type of a value: constants are INT64, blocks DT_BLOCK.
DataTypeOf(ir, v) == CASE v[1] = "CONST"   -> "INT64"
                       [] v[1] = "V_BLOCK" -> "DT_BLOCK"
                       [] OTHER            -> ir.inst[v[2]].dataType

\* block_new appends a block; its id is Len(ir.block) afterwards.
block_new(ir) ==
    ValueInit([ir EXCEPT !.block = Append(@, <<>>)], BlockValue(Len(ir.block) + 1))

\* ir_constant_value makes constant number ir.consts + 1.
ir_constant_value(ir) ==
    ValueInit([ir EXCEPT !.consts = @ + 1], ConstValue(ir.consts + 1))

\* Mutant: list_add at the head of the list.
SetUseAtHead(ir, i, slot, v) ==
    [ir EXCEPT !.inst[i].uses[slot] = v, !.uses[v] = Cons(<<i, slot>>, @)]

\* inst_setUse: a use that exists already leaves the list of its old value;
\* then the use goes to the end of the new value's list.
inst_setUse(ir, i, slot, v) ==
    LET old == ir.inst[i].uses[slot]
        detached == IF old = NoValue THEN ir.uses
                    ELSE [ir.uses EXCEPT ![old] = Remove(@, <<i, slot>>)]
    IN  [ir EXCEPT !.inst[i].uses[slot] = v,
                   !.uses = [detached EXCEPT ![v] = Append(@, <<i, slot>>)]]

\* _inst_new_*: an instruction whose operands are not set yet.  It is number
\* Len(ir.inst) + 1 and lies in no block yet.
InstNew(ir, type, dataType, rId, operands) ==
    ValueInit([ir EXCEPT !.inst = Append(@,
                  [type |-> type, dataType |-> dataType, rId |-> rId, parent |-> 0,
                   uses |-> [s \in 1..operands |-> NoValue]])],
              InstValue(Len(ir.inst) + 1))

inst_new_load_var(ir, rId, dataType) == InstNew(ir, "INST_LOAD_VAR", dataType, rId, 0)

inst_new_assign_var(ir, rId, v) ==
    inst_setUse(InstNew(ir, "INST_ASSIGN_VAR", "VOID", rId, 1), Len(ir.inst) + 1, 1, v)

inst_new_binary(ir, a, b) ==
    LET i == Len(ir.inst) + 1
    IN  inst_setUse(inst_setUse(InstNew(ir, "INST_BINARY", DataTypeOf(ir, a), 0, 2), i, 1, a), i, 2, b)

inst_new_jump(ir, b) ==
    inst_setUse(InstNew(ir, "INST_JUMP", "VOID", 0, 1), Len(ir.inst) + 1, 1, BlockValue(b))

inst_new_jump_cond(ir, a, b, cond) ==
    LET i == Len(ir.inst) + 1
        made == InstNew(ir, "INST_JUMP_COND", "VOID", 0, 3)
    IN  inst_setUse(inst_setUse(inst_setUse(made, i, 1, BlockValue(a)), i, 2, BlockValue(b)), i, 3, cond)

inst_new_return(ir) == InstNew(ir, "INST_RETURN", "VOID", 0, 0)
inst_new_phi(ir, dataType, rId) == InstNew(ir, "INST_PHI", dataType, rId, 0)

block_insert(ir, b, i) ==
    [ir EXCEPT !.block[b] = Append(@, i), !.inst[i].parent = b]

block_insertTop(ir, b, i) ==
    [ir EXCEPT !.block[b] = Cons(i, @), !.inst[i].parent = b]

\* inst_remove unlinks the instruction from its block and nothing else: its
\* parent pointer and the uses it makes of other values stay.
inst_remove(ir, i) == [ir EXCEPT !.block[ir.inst[i].parent] = Remove(@, i)]

\* Mutant: the operands change and the use lists do not.
ReplaceOperandsOnly(ir, v, replacement) ==
    [ir EXCEPT !.inst = [i \in DOMAIN @ |->
        [@[i] EXCEPT !.uses = [s \in DOMAIN @ |-> IF @[s] = v THEN replacement ELSE @[s]]]]]

\* value_replaceAllUses moves every use, in order, to the end of the
\* replacement's list (for a replacement other than the value itself).
value_replaceAllUses(ir, v, replacement) ==
    LET moved == ir.uses[v]
        redirect == [i \in DOMAIN ir.inst |->
                       [ir.inst[i] EXCEPT !.uses =
                          [s \in DOMAIN @ |->
                              IF <<i, s>> \in ToSet(moved) THEN replacement ELSE @[s]]]]
    IN  [ir EXCEPT !.inst = redirect,
                   !.uses = [@ EXCEPT ![v] = <<>>, ![replacement] = @ \o moved]]

\* inst_phi_insertValue adds the pair (block, value) unless it is there.
inst_phi_insertValue(ir, phi, b, v) ==
    LET uses == ir.inst[phi].uses
        n == Len(uses)
        known == \E k \in DOMAIN uses :
                    k % 2 = 1 /\ uses[k] = BlockValue(b) /\ uses[k + 1] = v
        grown == [ir EXCEPT !.inst[phi].uses = @ \o <<NoValue, NoValue>>]
    IN  IF known THEN ir
        ELSE inst_setUse(inst_setUse(grown, phi, n + 1, BlockValue(b)), phi, n + 2, v)

\* block_successor_*: the block operands of the last instruction, none when
\* the block is empty or ends in a phi.
block_successor(ir, b) ==
    IF ir.block[b] = <<>> \/ ir.inst[Last(ir.block[b])].type = "INST_PHI" THEN <<>>
    ELSE LET uses == ir.inst[Last(ir.block[b])].uses
             targets[n \in 0..Len(uses)] ==
                 IF n = 0 THEN <<>>
                 ELSE IF uses[n][1] = "V_BLOCK" THEN Append(targets[n - 1], uses[n][2])
                 ELSE targets[n - 1]
         IN  targets[Len(uses)]

\* block_predecessor_*: the block of every user of the block, in use order.
block_predecessor(ir, b) ==
    LET users == ir.uses[BlockValue(b)]
    IN  [k \in DOMAIN users |-> ir.inst[users[k][1]].parent]

-----------------------------------------------------------------------------
\* Notions the specifications and their properties share.

Blocks(ir) == DOMAIN ir.block

Terminators == {"INST_JUMP", "INST_JUMP_COND", "INST_RETURN"}

\* The n-fold closure of a set under an operator that finds neighbours.
Closure(Neighbours(_), S, n) ==
    LET grow[k \in 0..n] == IF k = 0 THEN S
                            ELSE LET reached == grow[k - 1] IN reached \cup Neighbours(reached)
    IN  grow[n]

SuccessorsOf(ir, S) == UNION {ToSet(block_successor(ir, b)) : b \in S}

\* Blocks that can be reached from the entry along block_successor edges.
ReachableFrom(ir, entry) ==
    Closure(LAMBDA R : SuccessorsOf(ir, R), {entry}, Len(ir.block))

\* The blocks of R have their edges among themselves, and each edge is seen from
\* either end: in R every jump is the last instruction of its block.
EdgesAgree(ir, R) ==
    \A b \in R :
        /\ block_successor(ir, b) \in Seq(R)
        /\ block_predecessor(ir, b) \in Seq(R)
        /\ \A c \in R : c \in ToSet(block_successor(ir, b)) <=> b \in ToSet(block_predecessor(ir, c))

\* Control enters the blocks of A, of those in R, from block p only.
OnlyEntry(ir, R, A, p) ==
    \A x \in R \ A : x # p => ToSet(block_successor(ir, x)) \cap A = {}

\* R is a part of the graph that the entry heads: nothing leads to the entry, and
\* the first predecessor of every other block dominates it, b cannot be reached
\* but through p.
HeadedBy(ir, entry, R) ==
    /\ entry \in R
    /\ block_predecessor(ir, entry) = <<>>
    /\ EdgesAgree(ir, R)
    /\ \A b \in R \ {entry} :
          /\ block_predecessor(ir, b) # <<>>
          /\ \E x \in R : x < b /\ b \in ToSet(block_successor(ir, x))
          /\ LET p == Head(block_predecessor(ir, b))
             IN  \E A \in SUBSET R : b \in A /\ p \notin A /\ entry \notin A /\ OnlyEntry(ir, R, A, p)

FirstPredecessorDominates(ir, entry) == \E R \in SUBSET Blocks(ir) : HeadedBy(ir, entry, R)

\* Every operand is on the use list of its value exactly once, and nothing else is.
UseListsMatchOperands(ir) ==
    /\ \A v \in DOMAIN ir.uses : IsInjective(ir.uses[v])
    /\ UNION {{<<v, use>> : use \in ToSet(ir.uses[v])} : v \in DOMAIN ir.uses}
         = UNION {{<<ir.inst[i].uses[s], <<i, s>>>> : s \in DOMAIN ir.inst[i].uses} : i \in DOMAIN ir.inst}
=============================================================================
