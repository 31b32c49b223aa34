--------------------------- MODULE SsaConversion ---------------------------
(***************************************************************************)
(* ssa_conversion.c: ssa_convert turns load_var / assign_var into direct     *)
(* uses of values and phi instructions, given the dominators and dominance   *)
(* frontiers.  One step per block of step 1 (analyse), per variable and per  *)
(* worklist item of step 2 (place phis), per call and return of ssa_rename,  *)
(* and one for the clean-up.                                                 *)
(***************************************************************************)
EXTENDS IR, FiniteSets

VARIABLES ir, entry, pc,
          number, postorder, children, df,  \* from Dominators, read only
          source,         \* the IR as it was before the conversion
          blockInfo,      \* struct block_info by block number
          variableList,   \* register ids, in the order they were found
          assigns,        \* reg_info.assigns: register -> last assignments
          valueStack,     \* reg_info.valueStack, last element on top
          lastIteration,  \* block number -> variable index, a set per variable
          work,           \* the variable index and the worklist of step 2
          renaming        \* the ssa_rename calls in progress, innermost first

ssaVars == <<source, blockInfo, variableList, assigns, valueStack, lastIteration, work, renaming>>

BlockNo(i) == postorder[i + 1]
Numbers == 0..(Len(postorder) - 1)

InitSsa ==
    /\ source = ir_context_init
    /\ blockInfo = <<>> /\ variableList = <<>> /\ assigns = <<>> /\ valueStack = <<>>
    /\ lastIteration = <<>> /\ renaming = <<>>
    /\ work = [i |-> 0, list |-> <<>>]

-----------------------------------------------------------------------------
\* Step 1.

\* The loads and assignments of a block, in their order.
LoadAssigns(b) ==
    LET code == ir.block[b]
        found[k \in 0..Len(code)] ==
            IF k = 0 THEN <<>>
            ELSE IF ir.inst[code[k]].type \in {"INST_LOAD_VAR", "INST_ASSIGN_VAR"}
                 THEN Append(found[k - 1], code[k])
                 ELSE found[k - 1]
    IN  found[Len(code)]

\* The list of variables with those of a block, in the order they are first met.
WithRegisters(list, insts) ==
    LET met[k \in 0..Len(insts)] ==
            IF k = 0 THEN list
            ELSE LET r == ir.inst[insts[k]].rId
                 IN  IF Contains(met[k - 1], r) THEN met[k - 1] ELSE Append(met[k - 1], r)
    IN  met[Len(insts)]

\* The last assignment of a register in a block.
LastAssign(insts, r) ==
    LET of == {k \in DOMAIN insts : ir.inst[insts[k]].type = "INST_ASSIGN_VAR" /\ ir.inst[insts[k]].rId = r}
    IN  IF of = {} THEN <<>> ELSE <<insts[Max(of)]>>

AnalyzeBlock ==
    LET n == Cardinality(DOMAIN blockInfo)
        insts == LoadAssigns(BlockNo(n))
        list == WithRegisters(variableList, insts)
    IN  /\ pc = "ssa"
        /\ n \in Numbers
        /\ blockInfo' = [m \in 0..n |-> IF m = n THEN [loadAssigns |-> insts, phiList |-> <<>>, isRenamed |-> FALSE]
                                        ELSE blockInfo[m]]
        /\ variableList' = list
        /\ valueStack' = [r \in ToSet(list) |-> <<>>]
        /\ assigns' = [r \in ToSet(list) |->
                         (IF Contains(variableList, r) THEN assigns[r] ELSE <<>>) \o LastAssign(insts, r)]
        /\ source' = ir
        /\ UNCHANGED <<ir, entry, pc, lastIteration, work, renaming>>

AnalysisDone ==
    /\ pc = "ssa"
    /\ DOMAIN blockInfo = Numbers
    /\ lastIteration' = [n \in Numbers |-> 0]
    /\ pc' = "variable"
    /\ UNCHANGED <<ir, entry, source, blockInfo, variableList, assigns, valueStack, work, renaming>>

-----------------------------------------------------------------------------
\* Step 2.  The worklist holds <<value, block>> pairs.

BeginVariable ==
    LET as == assigns[variableList[work.i + 1]]
    IN  /\ pc = "variable"
        /\ work.i < Len(variableList)
        /\ work' = [work EXCEPT !.list = [k \in DOMAIN as |->
                        <<ir.inst[as[k]].uses[1], ir.inst[as[k]].parent>>]]
        /\ lastIteration' = [n \in Numbers |->
                IF \E k \in DOMAIN as : number[ir.inst[as[k]].parent] = n THEN work.i
                ELSE lastIteration[n]]
        /\ pc' = "worklist"
        /\ UNCHANGED <<ir, entry, source, blockInfo, variableList, assigns, valueStack, renaming>>

HasPhi(info, r) == \E k \in DOMAIN info.phiList : info.phiList[k].rId = r

\* block_info_getOrCreatePhi; a phi remembers its register for the properties.
block_info_getOrCreatePhi(acc, b, r, dataType) ==
    IF HasPhi(acc.blockInfo[number[b]], r) THEN acc
    ELSE LET made == inst_new_phi(acc.ir, dataType, r)
             phi == Len(made.inst)
         IN  [acc EXCEPT !.ir = block_insertTop(made, b, phi),
                         !.blockInfo[number[b]].phiList = Append(@, [rId |-> r, phi |-> phi])]

PhiOf(info, r) == info.phiList[CHOOSE k \in DOMAIN info.phiList : info.phiList[k].rId = r].phi

\* Mutant: an off-by-one in the test below.
NotVisitedLate(last, n, i) == last[n] + 1 < i

\* "if we haven't visited this block for this variable"
NotVisited(last, n, i) == last[n] < i

\* One element of the dominance frontier of a worklist item.
PlacePhi(acc, b, r, i, dataType) ==
    LET placed == block_info_getOrCreatePhi(acc, b, r, dataType)
        phi == PhiOf(placed.blockInfo[number[b]], r)
    IN  IF NotVisited(acc.lastIteration, number[b], i)
        THEN [placed EXCEPT !.lastIteration[number[b]] = i,
                            !.list = Append(@, <<InstValue(phi), b>>)]
        ELSE placed

\* All of them, in their order.
PlacePhis(acc, frontier, r, i, dataType) ==
    LET placing[k \in 0..Len(frontier)] ==
            IF k = 0 THEN acc ELSE PlacePhi(placing[k - 1], frontier[k], r, i, dataType)
    IN  placing[Len(frontier)]

WorkItem ==
    LET item == Head(work.list)
        done == PlacePhis([ir |-> ir, blockInfo |-> blockInfo, lastIteration |-> lastIteration,
                           list |-> Tail(work.list)],
                          df[item[2]], variableList[work.i + 1], work.i, DataTypeOf(ir, item[1]))
    IN  /\ pc = "worklist"
        /\ work.list # <<>>
        /\ ir' = done.ir
        /\ blockInfo' = done.blockInfo
        /\ lastIteration' = done.lastIteration
        /\ work' = [work EXCEPT !.list = done.list]
        /\ UNCHANGED <<entry, pc, source, variableList, assigns, valueStack, renaming>>

EndVariable ==
    /\ pc = "worklist"
    /\ work.list = <<>>
    /\ work' = [work EXCEPT !.i = @ + 1]
    /\ pc' = "variable"
    /\ UNCHANGED <<ir, entry, source, blockInfo, variableList, assigns, valueStack, lastIteration, renaming>>

PlacementDone ==
    /\ pc = "variable"
    /\ work.i = Len(variableList)
    /\ pc' = "rename"
    /\ UNCHANGED <<ir, entry, ssaVars>>

-----------------------------------------------------------------------------
\* Step 3.

\* Mutants: the oldest value; nothing is popped.
FirstValue(stack) == Head(stack)
PopNothing(stacks, r) == stacks

_getLastValue(stack) == Last(stack)
_pushValue(stacks, r, v) == [stacks EXCEPT ![r] = Append(@, v)]
_popValue(stacks, r) == [stacks EXCEPT ![r] = Front(@)]

PushPhis(stacks, info) ==
    FoldLeft(LAMBDA acc, p : _pushValue(acc, p.rId, InstValue(p.phi)), stacks, info.phiList)

\* A load is replaced by the top of its stack (an assert fails when there is
\* none), an assignment pushes its value; both leave the block.
RenameInst(acc, i) ==
    LET inst == acc.ir.inst[i]
        stack == acc.stacks[inst.rId]
    IN  CASE ~acc.ok -> acc
          [] acc.ok /\ inst.type = "INST_LOAD_VAR" ->
                IF stack = <<>> THEN [acc EXCEPT !.ok = FALSE]
                ELSE [acc EXCEPT !.ir = inst_remove(value_replaceAllUses(@, InstValue(i), _getLastValue(stack)), i)]
          [] acc.ok /\ inst.type = "INST_ASSIGN_VAR" ->
                [acc EXCEPT !.stacks = _pushValue(@, inst.rId, inst.uses[1]),
                            !.ir = inst_remove(@, i)]

\* Mutant: the phi is given its own block in place of the predecessor.
FillPhisOwnBlock(context, stacks, b) ==
    LET fill(acc, succ) ==
            FoldLeft(LAMBDA c, p : IF stacks[p.rId] = <<>> THEN c
                                   ELSE inst_phi_insertValue(c, p.phi, succ, Last(stacks[p.rId])),
                     acc, blockInfo[number[succ]].phiList)
    IN  FoldLeft(fill, context, block_successor(context, b))

\* The phis of the successors get the value that leaves block b, if there is one.
FillPhis(context, stacks, b) ==
    LET fill(acc, succ) ==
            FoldLeft(LAMBDA c, p : IF stacks[p.rId] = <<>> THEN c
                                   ELSE inst_phi_insertValue(c, p.phi, b, _getLastValue(stacks[p.rId])),
                     acc, blockInfo[number[succ]].phiList)
    IN  FoldLeft(fill, context, block_successor(context, b))

\* The part of ssa_rename before the dominated blocks.
Rename(b) ==
    LET n == number[b]
        renamed == FoldLeft(RenameInst, [ir |-> ir, stacks |-> PushPhis(valueStack, blockInfo[n]), ok |-> TRUE],
                            blockInfo[n].loadAssigns)
    IN  \/ /\ renamed.ok
           /\ ir' = FillPhis(renamed.ir, renamed.stacks, b)
           /\ valueStack' = renamed.stacks
           /\ blockInfo' = [blockInfo EXCEPT ![n].isRenamed = TRUE]
           /\ UNCHANGED pc
        \/ ~renamed.ok /\ pc' = "abort" /\ UNCHANGED <<ir, valueStack, blockInfo>>

Renaming(b) == [block |-> b, left |-> children[number[b]]]

RenameEntry ==
    /\ pc = "rename"
    /\ renaming = <<>>
    /\ Rename(entry)
    /\ renaming' = <<Renaming(entry)>>
    /\ UNCHANGED <<entry, source, variableList, assigns, lastIteration, work>>

RenameChild ==
    LET top == Head(renaming)
        child == BlockNo(Head(top.left))
        back == Cons([top EXCEPT !.left = Tail(@)], Tail(renaming))
    IN  /\ pc = "rename"
        /\ renaming # <<>>
        /\ top.left # <<>>
        /\ IF blockInfo[Head(top.left)].isRenamed
           THEN UNCHANGED <<ir, pc, valueStack, blockInfo>> /\ renaming' = back
           ELSE Rename(child) /\ renaming' = Cons(Renaming(child), back)
        /\ UNCHANGED <<entry, source, variableList, assigns, lastIteration, work>>

\* Before it returns, ssa_rename pops what it pushed.
PopAll(stacks, info) ==
    LET stored == SelectSeq(info.loadAssigns, LAMBDA i : ir.inst[i].type = "INST_ASSIGN_VAR")
        popped == FoldLeft(LAMBDA acc, i : _popValue(acc, ir.inst[i].rId), stacks, stored)
    IN  FoldLeft(LAMBDA acc, p : _popValue(acc, p.rId), popped, info.phiList)

RenameReturn ==
    LET top == Head(renaming)
    IN  /\ pc = "rename"
        /\ renaming # <<>>
        /\ top.left = <<>>
        /\ valueStack' = PopAll(valueStack, blockInfo[number[top.block]])
        /\ renaming' = Tail(renaming)
        /\ pc' = IF Tail(renaming) = <<>> THEN "cleanup" ELSE pc
        /\ UNCHANGED <<ir, entry, source, blockInfo, variableList, assigns, lastIteration, work>>

\* The clean-up: a phi without uses leaves its block.
RemoveUnusedPhis(context) ==
    LET phis == FoldLeft(LAMBDA acc, n : acc \o blockInfo[n].phiList, <<>>, [k \in DOMAIN postorder |-> k - 1])
    IN  FoldLeft(LAMBDA acc, p : IF value_hasUse(acc, InstValue(p.phi)) THEN acc
                                 ELSE inst_remove(acc, p.phi), context, phis)

Cleanup ==
    /\ pc = "cleanup"
    /\ ir' = RemoveUnusedPhis(ir)
    /\ pc' = "done"
    /\ UNCHANGED <<entry, ssaVars>>

Next ==
    \/ AnalyzeBlock \/ AnalysisDone
    \/ BeginVariable \/ WorkItem \/ EndVariable \/ PlacementDone
    \/ RenameEntry \/ RenameChild \/ RenameReturn
    \/ Cleanup

-----------------------------------------------------------------------------
\* Step 2 alone, with whatever the analyses and step 1 can leave behind: numbered
\* blocks, frontiers among them, registers listed once, and assignments in
\* numbered blocks.
Reached == ToSet(postorder)

StartPlacement ==
    /\ pc = "variable"
    /\ work = [i |-> 0, list |-> <<>>]
    /\ postorder \in Seq(Nat) /\ IsInjective(postorder)
    /\ \A n \in Numbers : number[BlockNo(n)] = n
    /\ \A b \in Reached : df[b] \in Seq(Reached)
    /\ ir = [inst |-> ir.inst, block |-> ir.block, consts |-> ir.consts, uses |-> ir.uses]
    /\ ir.inst \in Seq(ToSet(ir.inst))
    /\ source = ir
    /\ variableList \in Seq(Nat) /\ IsInjective(variableList)
    /\ \A r \in ToSet(variableList) :
          /\ assigns[r] \in Seq(DOMAIN ir.inst)
          /\ \A i \in ToSet(assigns[r]) : ir.inst[i].parent \in Reached
    /\ blockInfo = [n \in Numbers |-> [loadAssigns |-> blockInfo[n].loadAssigns, phiList |-> <<>>,
                                       isRenamed |-> blockInfo[n].isRenamed]]
    /\ lastIteration = [n \in Numbers |-> 0]

PlacementNext ==
    /\ BeginVariable \/ WorkItem \/ EndVariable \/ PlacementDone
    /\ UNCHANGED <<number, postorder, children, df>>

placementVars == <<ir, entry, pc, number, postorder, children, df, ssaVars>>

PlacementSpec == StartPlacement /\ [][PlacementNext]_placementVars

-----------------------------------------------------------------------------
\* Blocks of the function that hold a phi for register r, before the clean-up.
PhiBlocks(r) == {b \in Reached : HasPhi(blockInfo[number[b]], r)}

Frontier(S) == UNION {ToSet(df[b]) : b \in S}

\* The iterated dominance frontier of the assignments to r: where its values
\* from different assignments first meet.
JoinBlocks(r) ==
    LET start == {source.inst[assigns[r][k]].parent : k \in DOMAIN assigns[r]}
    IN  Closure(Frontier, Frontier(start), Len(postorder))

Placed == pc = "rename"

\* Step 2 has done its job for every register.
PlacementComplete == \A r \in ToSet(variableList) : PhiBlocks(r) = JoinBlocks(r)

\* "When we insert a new phi it is a new assignment. so we need a worklist
\* algorithm": step 2 starts from what step 1 should leave, and places phis at the
\* iterated dominance frontier of the assignments, for every register but the
\* first one found.
PhisAtJoinsAfterFirst ==
    /\ pc = "variable" /\ work.i = 0 => StartPlacement
    /\ Placed => \A k \in 2..Len(variableList) :
                    PhiBlocks(variableList[k]) = JoinBlocks(variableList[k])

-----------------------------------------------------------------------------
\* The result, in the blocks that can be reached from the entry.

IsPhi(i) == ir.inst[i].type = "INST_PHI"

\* Blocks that dominate b, read off the dominator tree.
Ancestors(b) ==
    Closure(LAMBDA R : {d \in Reached : \E c \in R : Contains(children[number[d]], number[c])},
            {b}, Len(postorder))

\* Instruction d has run when control leaves block b.
AvailableAtEnd(d, b) == \E a \in Ancestors(b) : Contains(ir.block[a], d)

\* Instruction d has run when control reaches position k of block b.
AvailableAt(d, b, k) ==
    \/ \E j \in 1..(k - 1) : ir.block[b][j] = d
    \/ \E a \in Ancestors(b) \ {b} : Contains(ir.block[a], d)

\* ssa_convert delivers SSA form: no load_var or assign_var is left ("only valid
\* before SSA conversion"), and a value is computed on every path before it is
\* used, where a phi uses its operand at the end of the operand's block.
SsaForm ==
    pc = "done" => \A b \in Reached : \A k \in DOMAIN ir.block[b] :
        LET i == ir.block[b][k]
            operand(s) == ir.inst[i].uses[s]
        IN  /\ ir.inst[i].type \notin {"INST_LOAD_VAR", "INST_ASSIGN_VAR"}
            /\ \A s \in DOMAIN ir.inst[i].uses : operand(s)[1] = "INST" =>
                    IF IsPhi(i) THEN AvailableAtEnd(operand(s)[2], operand(s - 1)[2])
                    ELSE AvailableAt(operand(s)[2], b, k)

\* A phi takes at most one value from each block, and only from blocks that
\* could branch to it before the conversion.
PhiOperandsMatchEdges ==
    pc \in {"cleanup", "done"} => \A b \in Reached : \A k \in DOMAIN ir.block[b] :
        LET uses == ir.inst[ir.block[b][k]].uses
            from == [j \in 1..(Len(uses) \div 2) |-> uses[2 * j - 1][2]]
        IN  IsPhi(ir.block[b][k]) =>
                /\ IsInjective(from)
                /\ ToSet(from) \subseteq ToSet(block_predecessor(source, b))

\* Def-use chains survive the conversion (value_replaceAllUses, inst_setUse).
UseListsConsistent == UseListsMatchOperands(ir)
=============================================================================
