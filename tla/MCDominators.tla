---------------------------- MODULE MCDominators ----------------------------
(***************************************************************************)
(* Every control flow graph over BlockCount blocks that the functions of    *)
(* ir.h can build: the blocks first, then at most one jump or conditional   *)
(* jump each.  The order in which the jumps are made is the order of the    *)
(* predecessor lists, which the algorithm depends on.                       *)
(***************************************************************************)
EXTENDS Dominators

CONSTANTS BlockCount,   \* number of blocks; block 1 is the entry
          Targets       \* blocks that jumps may lead to

MCInit ==
    /\ ir = FoldLeft(LAMBDA acc, k : block_new(acc), ir_context_init, [k \in 1..BlockCount |-> k])
    /\ entry = 1
    /\ pc = "build"
    /\ InitDominators

Insert(b, made) == ir' = block_insert(made, b, Len(made.inst))

AddJump(b, target) == Insert(b, inst_new_jump(ir, target))

AddCondJump(b, x, y) ==
    LET made == ir_constant_value(ir)
    IN  x # y /\ Insert(b, inst_new_jump_cond(made, x, y, ConstValue(made.consts)))

\* The entry gets its jump at any time, the others in their order: up to a
\* renaming of blocks these are all orders.
Open == {b \in Blocks(ir) : /\ ir.block[b] = <<>>
                             /\ (b = entry \/ \A c \in Blocks(ir) : c > b => ir.block[c] = <<>>)}

Build ==
    /\ pc = "build"
    /\ \E b \in Open :
          \/ \E t \in Targets : AddJump(b, t)
          \/ \E x, y \in Targets : AddCondJump(b, x, y)
    /\ UNCHANGED <<entry, pc, domVars>>

EndBuild == pc = "build" /\ pc' = "dominators" /\ UNCHANGED <<ir, entry, domVars>>

MCNext == Build \/ EndBuild \/ Next

MCSpec == MCInit /\ [][MCNext]_vars /\ WF_vars(Next)
=============================================================================
