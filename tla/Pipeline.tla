------------------------------ MODULE Pipeline ------------------------------
(***************************************************************************)
(* The middle of the compiler, as tests/ssa_test.c drives it:               *)
(*   ir_creator_createFunction; dominators_compute; domfrontiers_compute;   *)
(*   ssa_convert; function_dumpDot                                          *)
(* on one function, each part being a module of its own that shares ir,     *)
(* entry and pc.  When the conversion is done the function is run twice     *)
(* along one path, as it was before (source) and as it is now (ir); or it   *)
(* is printed.                                                              *)
(***************************************************************************)
EXTENDS IR, FiniteSets

CONSTANTS Names, DataTypes, Statements, Expressions, Conditions,
          MaxDepth, MaxFrontier

VARIABLES ir, entry, pc,
          block, scopes, frames, regCount, statements,
          visit, number, seen, postorder, doms, cursor, children, df,
          source, blockInfo, variableList, assigns, valueStack, lastIteration, work, renaming,
          dump,
          at,      \* the block that has just been run, 0 before
          regs,    \* what the variables hold in the run of source
          env,     \* what binary and phi instructions hold
          agree    \* FALSE once the two runs have computed with different values

\* The first three parts come with the theorems about them.
C == INSTANCE IrCreationProofs
D == INSTANCE DominatorsProofs
S == INSTANCE SsaProofs
P == INSTANCE Dump

\* As in IrCreation.
ASSUME ExpressionsAssumption == \A e \in Expressions \cup Conditions : C!IsExpression(e)

ASSUME DataTypesAssumption == DataTypes \subseteq {"INT64", "VOID"}

creatorVars == <<block, scopes, frames, regCount, statements>>
domVars == <<visit, number, seen, postorder, doms, cursor, children, df>>
ssaVars == <<source, blockInfo, variableList, assigns, valueStack, lastIteration, work, renaming>>
runVars == <<at, regs, env, agree>>
vars == <<ir, entry, pc, creatorVars, domVars, ssaVars, dump, runVars>>

-----------------------------------------------------------------------------
\* Running one block in both forms.  A dynamic value is a constant, or the
\* instruction that computed it with a bit that changes at each execution, so
\* that the value of the previous iteration of a loop is told from this one's.

Undefined == <<"undefined", 0, 0>>

Holds(store, v) == CASE v[1] = "CONST" -> <<"CONST", v[2], 0>>
                     [] v[1] = "INST" /\ v[2] \in DOMAIN store -> store[v[2]]
                     [] OTHER -> Undefined

Fresh(store, i) == IF i \in DOMAIN store /\ store[i] = <<"INST", i, 0>> THEN <<"INST", i, 1>>
                   ELSE <<"INST", i, 0>>

\* The phis of block b, all at once, when control comes from block p.
EnterPhis(b, p) ==
    LET phis == {i \in ToSet(ir.block[b]) : ir.inst[i].type = "INST_PHI"}
        pairs(i) == {k \in DOMAIN ir.inst[i].uses : k % 2 = 1 /\ ir.inst[i].uses[k] = BlockValue(p)}
    IN  [i \in phis |-> IF pairs(i) = {} THEN Undefined
                        ELSE Holds(env, ir.inst[i].uses[Min(pairs(i)) + 1])] @@ env

\* One instruction of source; loads are the values loaded in this block.
RunInst(acc, i) ==
    LET inst == source.inst[i]
        before(s) == Holds(acc.loads @@ acc.env, inst.uses[s])
        after(s) == Holds(acc.env, ir.inst[i].uses[s])
        same(slots) == \A s \in slots : before(s) = after(s)
    IN  CASE inst.type = "INST_LOAD_VAR" ->
               [acc EXCEPT !.loads = (i :> acc.regs[inst.rId]) @@ @]
          [] inst.type = "INST_ASSIGN_VAR" ->
               [acc EXCEPT !.regs[inst.rId] = before(1)]
          [] inst.type = "INST_BINARY" ->
               [acc EXCEPT !.env = (i :> Fresh(acc.env, i)) @@ @, !.agree = @ /\ same({1, 2})]
          [] inst.type = "INST_JUMP_COND" ->
               [acc EXCEPT !.agree = @ /\ same({3})]
          [] OTHER -> acc

RunBlock(b, p, registers) ==
    LET ran == FoldLeft(RunInst, [regs |-> registers, env |-> EnterPhis(b, p), loads |-> <<>>, agree |-> agree],
                        source.block[b])
    IN  /\ at' = b
        /\ regs' = ran.regs
        /\ env' = ran.env
        /\ agree' = ran.agree

Start ==
    /\ pc = "done"
    /\ pc' = "run"
    /\ RunBlock(entry, 0, [r \in 0..(regCount - 1) |-> Undefined])
    /\ UNCHANGED <<ir, entry, creatorVars, domVars, ssaVars, dump>>

Branch ==
    /\ pc = "run"
    /\ \E b \in ToSet(block_successor(source, at)) : RunBlock(b, at, regs)
    /\ UNCHANGED <<ir, entry, pc, creatorVars, domVars, ssaVars, dump>>

-----------------------------------------------------------------------------
Init ==
    /\ C!Init
    /\ D!InitDominators
    /\ S!InitSsa
    /\ dump = P!NoDump
    /\ at = 0 /\ regs = <<>> /\ env = <<>> /\ agree = TRUE

Create == C!Next /\ UNCHANGED <<domVars, ssaVars, dump, runVars>>
Analyze == D!Next /\ UNCHANGED <<creatorVars, ssaVars, dump, runVars>>
Convert == S!Next /\ UNCHANGED <<creatorVars, domVars, dump, runVars>>
Show == P!Next /\ UNCHANGED <<creatorVars, domVars, ssaVars, runVars>>

\* The only ends: a failed assert, a run that has left its last block, a text.
Stopped ==
    /\ pc \in {"abort", "dumped"} \/ (pc = "run" /\ block_successor(source, at) = <<>>)
    /\ UNCHANGED vars

Next == Create \/ Analyze \/ Convert \/ Show \/ Start \/ Branch \/ Stopped

Spec == Init /\ [][Next]_vars

-----------------------------------------------------------------------------
\* ir_creation.c delivers what dominators.c needs but does not check: the entry
\* has no predecessors, predecessors of reachable blocks are reachable, and the
\* first one created lies before the block in reverse postorder.
CreatedIsAnalysable == pc = "sweep" => D!Analysable

\* The conversion keeps the meaning of a function wherever the phis are
\* complete: on every path both forms compute and branch on the same values.
MeaningKept == (pc = "run" /\ S!PlacementComplete) => agree

\* The conversion keeps the meaning of every function.
AlwaysMeaningKept == pc = "run" => agree

\* Phis stand at the iterated dominance frontier of the assignments (step 2 of
\* ssa_convert) for every register but the first one found.
PhisAtJoinsAfterFirst == S!PhisAtJoinsAfterFirst

\* The result of ssa_convert is in SSA form.
SsaForm == S!SsaForm

\* The operands of a phi belong to different predecessors of its block.
PhiOperandsMatchEdges == S!PhiOperandsMatchEdges

\* The graph that is printed is the control-flow graph.
GraphIsCfg == P!GraphIsCfg

\* The names in the printed text tell the values apart, and can be resolved.
NamesResolve == P!NamesResolve

\* The use lists agree with the operands after the conversion.
UseListsConsistent == S!UseListsConsistent
=============================================================================
