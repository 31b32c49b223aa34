--------------------------- MODULE PipelineProofs ---------------------------
(***************************************************************************)
(* From the AST to the phis: what ir_creation.c delivers is what            *)
(* dominators.c needs, and what both deliver is what ssa_conversion.c needs, *)
(* so that in the whole pipeline, for every program of any length and        *)
(* nesting, the analyses work on a graph for which they are right and the    *)
(* phis of every register but the first stand where they should.  At the end *)
(* function_dumpDot, by itself: the graph it prints is that of the function. *)
(***************************************************************************)
EXTENDS Pipeline, FiniteSetTheorems, TLAPS

-----------------------------------------------------------------------------
\* The parts read the same graph.

LEMMA SameEdges ==
  ASSUME NEW g, NEW b
  PROVE  /\ C!block_successor(g, b) = D!block_successor(g, b)
         /\ C!block_predecessor(g, b) = D!block_predecessor(g, b)
  <1>1. C!block_successor(g, b) = D!block_successor(g, b)
    BY DEF C!block_successor, D!block_successor, C!Last, D!Last
  <1>2. C!block_predecessor(g, b) = D!block_predecessor(g, b)
    BY DEF C!block_predecessor, D!block_predecessor, C!BlockValue, D!BlockValue
  <1> QED BY <1>1, <1>2

LEMMA SameHead ==
  C!FirstPredecessorDominates(ir, entry) => D!FirstPredecessorDominates(ir, entry)
  <1>1. ASSUME NEW s PROVE C!ToSet(s) = D!ToSet(s)
    BY DEF C!ToSet, D!ToSet
  <1>2. ASSUME NEW R PROVE C!EdgesAgree(ir, R) <=> D!EdgesAgree(ir, R)
    BY SameEdges, <1>1 DEF C!EdgesAgree, D!EdgesAgree
  <1>3. ASSUME NEW R, NEW A, NEW p PROVE C!OnlyEntry(ir, R, A, p) <=> D!OnlyEntry(ir, R, A, p)
    BY SameEdges, <1>1 DEF C!OnlyEntry, D!OnlyEntry
  <1>4. ASSUME NEW R PROVE C!HeadedBy(ir, entry, R) => D!HeadedBy(ir, entry, R)
    BY SameEdges, <1>1, <1>2, <1>3 DEF C!HeadedBy, D!HeadedBy
  <1> QED BY <1>4 DEF C!FirstPredecessorDominates, D!FirstPredecessorDominates, C!Blocks, D!Blocks

-----------------------------------------------------------------------------
\* The phases of ir_creation.c, up to the first step of the analyses.
Creating == {"create", "dominators"}

\* The phases of the analyses, up to the first step of ssa_convert.
Analysing == {"visit", "sweep", "preds", "intersect", "tree", "df", "runner", "ssa"}

\* The phases of ssa_convert after its first step, and those that come last.
Converting == {"variable", "worklist", "rename", "cleanup", "done"}
Ending == {"abort", "dump", "dumped", "run"}

PipelineInv ==
    /\ pc \in Creating \cup Analysing \cup Converting \cup Ending
    /\ pc \in Creating => C!CreationInv /\ D!InitDominators /\ S!InitSsa
    /\ pc \in Analysing => D!OrderedSafe /\ C!Built(ir)
    /\ pc \in Analysing => S!InitSsa \/ S!ConversionInv
    /\ pc \in Converting => S!ConversionInv

\* Where the first part ends, the second can start.
LEMMA CreationHandover == C!CreationInv /\ D!InitDominators /\ pc = "dominators" => D!OrderedSafe
  <1> SUFFICES ASSUME C!CreationInv, D!InitDominators, pc = "dominators" PROVE D!OrderedSafe
    OBVIOUS
  <1>1. C!Created
    BY DEF C!Created
  <1>2. C!FirstPredecessorDominates(ir, entry)
    BY <1>1, C!InvFirstPredecessor, ExpressionsAssumption, DataTypesAssumption
  <1>3. Len(ir.block) \in Nat /\ D!Blocks(ir) = 1..Len(ir.block)
    BY DEF C!CreationInv, C!Finished, C!Built, C!IsIR, D!Blocks
  <1>4. D!StartOrdered
    BY <1>2, <1>3, SameHead DEF D!StartOrdered
  <1> QED BY <1>4, D!OrderedSafeInit

\* Where the analyses end, ssa_convert has what it needs.
LEMMA AnalysisHandover == D!OrderedSafe /\ C!Built(ir) /\ pc = "ssa" => S!Given
  <1> SUFFICES ASSUME D!OrderedSafe, C!Built(ir), pc = "ssa" PROVE S!Given
    OBVIOUS
  <1>1. D!Analysable
    BY DEF D!OrderedSafe, D!OrderedInv
  <1>2. D!GraphInv /\ D!Numbered /\ D!FrontierInv
    BY <1>1 DEF D!OrderedSafe, D!DominatorsInv, D!AnalysisInv
  <1>3. PICK R : R = D!Part(ir, entry)
    OBVIOUS
  <1>4. /\ Len(ir.block) \in Nat /\ R \subseteq 1..Len(ir.block)
        /\ postorder \in Seq(R) /\ Len(postorder) \in Nat \ {0}
        /\ seen = D!ToSet(postorder)
        /\ df \in [D!Blocks(ir) -> Seq(R)] /\ R \subseteq D!Blocks(ir)
    BY <1>2, <1>3 DEF D!GraphInv, D!Numbered, D!FrontierInv, D!Count
  <1>5. S!Reached = seen /\ S!Reached \subseteq R
    BY <1>4 DEF S!Reached, S!ToSet, D!ToSet
  <1>6. \A n \in S!Numbers : number[S!BlockNo(n)] = n
    BY <1>2 DEF D!Numbered, S!Numbers, S!BlockNo, D!Numbers, D!BlockNo, D!Count
  <1>7. postorder \in Seq(Nat) /\ S!IsInjective(postorder) /\ postorder # <<>>
    <2>1. postorder \in Seq(Nat) /\ postorder # <<>> /\ DOMAIN postorder = 1..Len(postorder)
      <3>1. R \subseteq Nat
        BY <1>4
      <3>2. DOMAIN postorder = 1..Len(postorder) /\ postorder # <<>>
        BY <1>4
      <3>3. \A k \in 1..Len(postorder) : postorder[k] \in R
        BY <1>4
      <3>4. postorder = [k \in 1..Len(postorder) |-> postorder[k]]
        BY <1>4
      <3>5. \A k \in 1..Len(postorder) : postorder[k] \in Nat
        BY <3>1, <3>3
      <3>6. postorder \in [1..Len(postorder) -> Nat]
        BY <3>4, <3>5
      <3>7. postorder \in Seq(Nat)
        BY <1>4, <3>6
      <3> QED BY <3>2, <3>7
    <2>2. ASSUME NEW k \in 1..Len(postorder) PROVE number[postorder[k]] = k - 1
      <3>1. k - 1 \in S!Numbers /\ (k - 1) + 1 = k
        BY <1>4 DEF S!Numbers
      <3> QED BY <1>6, <3>1 DEF S!BlockNo
    <2>3. ASSUME NEW k \in 1..Len(postorder), NEW l \in 1..Len(postorder), postorder[k] = postorder[l]
          PROVE  k = l
      <3>1. k - 1 = l - 1
        BY <2>2, <2>3
      <3> QED BY <3>1
    <2> QED BY <2>1, <2>3 DEF S!IsInjective
  <1>8. ASSUME NEW b \in S!Reached PROVE df[b] \in Seq(S!Reached)
    <2>1. PICK f : f = df[b]
      OBVIOUS
    <2>2. f \in Seq(R)
      BY <1>4, <1>5, <2>1
    <2>3. \A y \in D!ToSet(f) : y \in seen
      BY <1>2, <1>5, <2>1 DEF D!FrontierInv
    <2>4. \A k \in 1..Len(f) : f[k] \in seen
      BY <2>2, <2>3 DEF D!ToSet
    <2>5. f \in Seq(seen)
      BY <2>2, <2>4
    <2> QED BY <1>5, <2>1, <2>5
  <1>9. S!IsContext(ir)
    <2>1. ir = [inst |-> ir.inst, block |-> ir.block, consts |-> ir.consts, uses |-> ir.uses] /\ ir.inst \in Seq(C!Inst)
      BY DEF C!Built, C!IsIR
    <2>2. S!IsSeq(ir.inst)
      BY <2>1, S!SeqIsSeq
    <2> QED BY <2>1, <2>2 DEF S!IsContext
  <1>10. ASSUME NEW b \in S!Reached
         PROVE  /\ S!IsSeq(ir.block[b])
                /\ \A k \in 1..Len(ir.block[b]) :
                      /\ ir.block[b][k] \in 1..Len(ir.inst)
                      /\ ir.inst[ir.block[b][k]].parent = b
                      /\ ir.inst[ir.block[b][k]].rId \in Nat
    <2>1. b \in 1..Len(ir.block)
      BY <1>4, <1>5
    <2>2. ir.block[b] \in Seq(Nat)
      BY <2>1 DEF C!Built, C!IsIR
    <2>3. S!IsSeq(ir.block[b])
      BY <2>2, S!SeqIsSeq
    <2>4. ASSUME NEW k \in 1..Len(ir.block[b])
          PROVE  /\ ir.block[b][k] \in 1..Len(ir.inst)
                 /\ ir.inst[ir.block[b][k]].parent = b
                 /\ ir.inst[ir.block[b][k]].rId \in Nat
      <3>1. PICK i : i = ir.block[b][k]
        OBVIOUS
      <3>2. i \in 1..Len(ir.inst) /\ ir.inst[i].parent = b
        BY <2>1, <3>1 DEF C!Built, C!Linked
      <3>3. ir.inst \in Seq(C!Inst)
        BY DEF C!Built, C!IsIR
      <3>4. ir.inst[i] \in C!Inst
        BY <3>2, <3>3
      <3>5. ir.inst[i].rId \in Nat
        BY <3>4 DEF C!Inst
      <3> QED BY <3>1, <3>2, <3>5
    <2> QED BY <2>3, <2>4
  <1> QED BY <1>6, <1>7, <1>8, <1>9, <1>10 DEF S!Given

\* In all its phases ssa_convert has what it needs.
LEMMA Converts ==
  ASSUME PipelineInv, pc \in {"ssa"} \cup Converting
  PROVE  S!ConversionInv
  <1>1. CASE pc = "ssa" /\ S!InitSsa
    <2>1. S!AnalyzedInv
      BY <1>1, AnalysisHandover, S!AnalyzedInit DEF PipelineInv, Analysing
    <2> QED BY <1>1, <2>1 DEF S!ConversionInv
  <1> QED BY <1>1 DEF PipelineInv, Analysing

\* ir_creation works on its own part of the state, until it is done.
LEMMA CreateStep ==
  ASSUME PipelineInv, Create
  PROVE  PipelineInv'
  <1>1. pc = "create"
    BY DEF Create, C!Next, C!Assignment, C!Declaration, C!Return, C!If, C!While, C!EndBlock, C!EndFunction, C!ChooseStatement
  <1>2. C!CreationInv /\ C!Next
    BY <1>1 DEF PipelineInv, Create, Creating
  <1>3. C!CreationInv'
    BY <1>2, C!CreationStep, ExpressionsAssumption, DataTypesAssumption, Zenon
  <1>4. D!InitDominators'
    BY <1>1 DEF PipelineInv, Create, Creating, D!InitDominators, domVars
  <1>5. S!InitSsa'
    BY <1>1 DEF PipelineInv, Create, Creating, S!InitSsa, ssaVars
  <1>6. pc' \in {"create", "abort", "dominators"}
    BY <1>3 DEF C!CreationInv
  <1> QED BY <1>3, <1>4, <1>5, <1>6 DEF PipelineInv, Creating, Analysing, Converting, Ending

\* The analyses go on until ssa_convert takes over.
LEMMA AnalyzeStep ==
  ASSUME PipelineInv, Analyze
  PROVE  PipelineInv'
  <1>1. D!Next
    BY DEF Analyze
  <1>2. pc \in {"dominators"} \cup (Analysing \ {"ssa"})
    BY <1>1 DEF Analysing, D!Next, D!VisitEntry, D!VisitSuccessor, D!VisitLeave, D!BeginBlock,
           D!NextPredecessor, D!IntersectStep, D!EndBlock, D!BuildTree, D!DfPredecessor, D!RunnerStep, D!DfEndBlock
  <1>3. D!OrderedSafe /\ C!Built(ir)
    BY <1>2, CreationHandover DEF PipelineInv, Creating, C!CreationInv, C!Finished
  <1>4. D!OrderedSafe'
    BY <1>1, <1>3, D!OrderedSafeStep
  <1>5. pc' \in Analysing
    <2>1. pc' \in {"dominators", "crash"} \cup Analysing
      BY <1>4 DEF D!OrderedSafe, D!DominatorsInv, D!Phases, Analysing
    <2>2. pc' # "dominators"
      BY <1>1 DEF D!Next, D!VisitEntry, D!VisitSuccessor, D!VisitLeave, D!BeginBlock, D!Crash,
             D!NextPredecessor, D!IntersectStep, D!EndBlock, D!BuildTree, D!DfPredecessor, D!RunnerStep, D!DfEndBlock
    <2>3. pc' # "crash"
      BY <1>4 DEF D!OrderedSafe
    <2> QED BY <2>1, <2>2, <2>3
  <1>6. ir' = ir
    BY <1>1 DEF D!Next
  <1>7. C!Built(ir')
    BY <1>3, <1>6
  <1>8. S!InitSsa
    BY <1>2 DEF PipelineInv, Creating, Analysing, S!ConversionInv
  <1>9. S!InitSsa'
    BY <1>8 DEF Analyze, ssaVars, S!InitSsa
  <1> QED BY <1>4, <1>5, <1>7, <1>9 DEF PipelineInv, Creating, Analysing, Converting, Ending

\* ssa_convert, from what the others have left it.
LEMMA ConvertStep ==
  ASSUME PipelineInv, Convert
  PROVE  PipelineInv'
  <1>1. S!Next /\ UNCHANGED <<number, postorder, children, df>> /\ UNCHANGED domVars
    BY DEF Convert, domVars
  <1>2. pc \in {"ssa"} \cup Converting
    BY <1>1 DEF Converting, S!Next, S!AnalyzeBlock, S!AnalysisDone, S!BeginVariable, S!WorkItem, S!EndVariable,
                S!PlacementDone, S!RenameEntry, S!RenameChild, S!RenameReturn, S!Cleanup
  <1>3. S!ConversionInv'
    BY <1>1, <1>2, Converts, S!ConversionStep
  <1>4. CASE S!AnalyzeBlock
    <2>1. UNCHANGED <<ir, entry, pc>> /\ pc = "ssa"
      BY <1>4 DEF S!AnalyzeBlock
    <2>2. UNCHANGED D!vars
      BY <1>1, <2>1 DEF D!vars, D!domVars, domVars
    <2>3. D!OrderedSafe /\ C!Built(ir)
      BY <2>1 DEF PipelineInv, Analysing
    <2>4. D!OrderedSafe'
      BY <2>2, <2>3, D!OrderedSafeStep
    <2>5. C!Built(ir')
      BY <2>1, <2>3
    <2> QED BY <1>3, <2>1, <2>4, <2>5 DEF PipelineInv, Creating, Analysing, Converting, Ending
  <1>5. CASE ~S!AnalyzeBlock
    <2>1. pc' \in Converting \cup {"abort"}
      BY <1>1, <1>2, <1>5 DEF Converting, S!Next, S!AnalysisDone, S!BeginVariable, S!WorkItem, S!EndVariable,
                S!PlacementDone, S!RenameEntry, S!RenameChild, S!RenameReturn, S!Cleanup, S!Rename
    <2> QED BY <1>3, <2>1 DEF PipelineInv, Creating, Analysing, Converting, Ending
  <1> QED BY <1>4, <1>5

\* Nothing that comes later goes back.
LEMMA EndingStep ==
  ASSUME PipelineInv, Show \/ Start \/ Branch \/ Stopped
  PROVE  PipelineInv'
  <1>1. pc' \in Ending
    <2>1. CASE Show \/ Start \/ Branch
      BY <2>1 DEF Show, P!Next, P!function_dumpDot, P!DumpBlock, P!NextLevel, P!EndDump, Start, Branch, Ending
    <2>2. CASE Stopped
      BY <2>2 DEF Stopped, vars, Ending
    <2> QED BY <2>1, <2>2
  <1> QED BY <1>1 DEF PipelineInv, Creating, Analysing, Converting, Ending

\* The phases hold what their part has promised the next one.
THEOREM PipelineInvariant == Spec => []PipelineInv
  <1>1. Init => PipelineInv
    <2> SUFFICES ASSUME Init PROVE PipelineInv
      OBVIOUS
    <2>1. C!CreationInv
      BY C!CreationInit, ExpressionsAssumption, DataTypesAssumption DEF Init
    <2>2. pc = "create"
      BY DEF Init, C!Init
    <2> QED BY <2>1, <2>2 DEF Init, PipelineInv, Creating, Analysing, Converting
  <1>2. PipelineInv /\ [Next]_vars => PipelineInv'
    <2> SUFFICES ASSUME PipelineInv, [Next]_vars PROVE PipelineInv'
      OBVIOUS
    <2>1. CASE UNCHANGED vars
      <3>1. /\ pc' = pc /\ ir' = ir /\ UNCHANGED C!creationVars /\ UNCHANGED D!vars
            /\ UNCHANGED ssaVars /\ UNCHANGED S!placementVars
        BY <2>1 DEF vars, creatorVars, domVars, ssaVars, C!creationVars, D!vars, D!domVars, S!placementVars, S!ssaVars
      <3>2. S!InitSsa => S!InitSsa'
        BY <3>1 DEF S!InitSsa, ssaVars
      <3>3. S!ConversionInv => S!ConversionInv'
        BY <3>1, S!ConversionStep
      <3>4. CASE pc \in Creating
        <4>1. C!CreationInv /\ D!InitDominators /\ S!InitSsa
          BY <3>4 DEF PipelineInv
        <4>2. C!CreationInv'
          BY <3>1, <4>1, C!CreationStep, ExpressionsAssumption, DataTypesAssumption, Zenon
        <4>3. D!InitDominators'
          BY <3>1, <4>1 DEF D!InitDominators, D!vars, D!domVars
        <4> QED BY <3>1, <3>2, <3>4, <4>1, <4>2, <4>3 DEF PipelineInv, Creating, Analysing, Converting
      <3>5. CASE pc \in Analysing
        <4>1. D!OrderedSafe /\ C!Built(ir) /\ (S!InitSsa \/ S!ConversionInv)
          BY <3>5 DEF PipelineInv
        <4>2. D!OrderedSafe' /\ C!Built(ir') /\ (S!InitSsa' \/ S!ConversionInv')
          BY <3>1, <3>2, <3>3, <4>1, D!OrderedSafeStep
        <4> QED BY <3>1, <3>5, <4>2 DEF PipelineInv, Creating, Analysing, Converting
      <3>6. CASE pc \in Converting
        <4>1. S!ConversionInv'
          BY <3>3, <3>6 DEF PipelineInv
        <4> QED BY <3>1, <3>6, <4>1 DEF PipelineInv, Creating, Analysing, Converting
      <3>7. CASE pc \in Ending
        BY <3>1, <3>7 DEF PipelineInv, Creating, Analysing, Converting, Ending
      <3> QED BY <3>4, <3>5, <3>6, <3>7 DEF PipelineInv
    <2> QED BY <2>1, CreateStep, AnalyzeStep, ConvertStep, EndingStep DEF Next
  <1> QED BY <1>1, <1>2, PTL DEF Spec

\* What the sweeps of dominators_compute rely on, ir_creation.c provides: the
\* entry has no predecessors, predecessors of reachable blocks are reachable, and
\* the first one created lies before the block in reverse postorder.
THEOREM CreatedIsAnalysableAlways == Spec => []CreatedIsAnalysable
  <1>1. PipelineInv => CreatedIsAnalysable
    BY DEF PipelineInv, Analysing, CreatedIsAnalysable, D!OrderedSafe, D!OrderedInv
  <1> QED BY <1>1, PipelineInvariant, PTL

\* For every program, dominators_compute and domfrontiers_compute follow no NULL
\* pointer, dominators_getIDom is the closest strict dominator of each reachable
\* block, and the frontier lists ssa_convert is given are the dominance frontiers.
THEOREM AnalysesAreRight ==
  Spec => [](/\ pc # "crash"
             /\ pc \in Analysing \ {"visit"} => D!Analysable
             /\ D!IDomIsClosest
             /\ D!FrontierIsExact)
  <1>1. PipelineInv => /\ pc # "crash"
                       /\ pc \in Analysing \ {"visit"} => D!Analysable
                       /\ D!IDomIsClosest
                       /\ D!FrontierIsExact
    <2> SUFFICES ASSUME PipelineInv
                 PROVE  /\ pc # "crash"
                        /\ pc \in Analysing \ {"visit"} => D!Analysable
                        /\ D!IDomIsClosest
                        /\ D!FrontierIsExact
      OBVIOUS
    <2>1. pc # "crash"
      BY DEF PipelineInv, Creating, Analysing, Converting, Ending
    <2>2. CASE pc \in Analysing
      <3>1. D!OrderedSafe
        BY <2>2 DEF PipelineInv
      <3>2. pc \in Analysing \ {"visit"} => D!Analysable
        BY <3>1 DEF D!OrderedSafe, D!OrderedInv, Analysing
      <3> QED BY <2>1, <3>1, <3>2, D!OrderedSafeIsRight
    <2>3. CASE pc \notin Analysing
      BY <2>1, <2>3 DEF Analysing, D!IDomIsClosest, D!FrontierIsExact
    <2> QED BY <2>2, <2>3
  <1> QED BY <1>1, PipelineInvariant, PTL

\* "When we insert a new phi it is a new assignment. so we need a worklist
\* algorithm" (ssa_convert): for every program, step 2 begins with numbered blocks,
\* their frontiers, and each register of the function listed once with its
\* assignments, and ends with the phis of every register but the first exactly on
\* the iterated dominance frontier of its assignments.
THEOREM PhisAtJoinsAfterFirstAlways == Spec => []PhisAtJoinsAfterFirst
  <1>1. PipelineInv => PhisAtJoinsAfterFirst
    <2> SUFFICES ASSUME PipelineInv PROVE S!PhisAtJoinsAfterFirst
      BY DEF PhisAtJoinsAfterFirst
    <2>1. CASE pc \in Converting
      BY <2>1, S!ConversionPlacesPhis DEF PipelineInv
    <2>2. CASE pc \notin Converting
      BY <2>2 DEF Converting, S!PhisAtJoinsAfterFirst, S!Placed
    <2> QED BY <2>1, <2>2
  <1> QED BY <1>1, PipelineInvariant, PTL
-----------------------------------------------------------------------------
\* The printed graph.

\* Any number is reached from 0 by steps of one.
LEMMA ByOnes ==
  ASSUME NEW n \in Nat, NEW T, 0 \in T, \A k \in 1..n : k - 1 \in T => k \in T
  PROVE  \A k \in 0..n : k \in T
  <1> DEFINE f == [k \in 0..n |-> IF k \in T THEN 1 ELSE 0]
             V == {1}
  <1>1. f[0] \in V /\ \A k \in 1..n : f[k - 1] \in V => f[k] \in V
    <2>1. \A k \in 0..n : f[k] \in V <=> k \in T
      OBVIOUS
    <2>2. 0 \in 0..n /\ \A k \in 1..n : k \in 0..n /\ k - 1 \in 0..n
      OBVIOUS
    <2> HIDE DEF f, V
    <2> QED BY <2>1, <2>2
  <1>2. \A k \in 0..n : f[k] \in V
    <2> HIDE DEF f, V
    <2> QED BY <1>1, S!RecursionStays
  <1> QED BY <1>2

\* The numbers up to n are n numbers.
LEMMA Interval ==
  ASSUME NEW n \in Nat
  PROVE  IsFiniteSet(1..n) /\ Cardinality(1..n) = n
  <1>1. n \in Int /\ 1 \in Int
    OBVIOUS
  <1>2. IsFiniteSet(1..n) /\ Cardinality(1..n) = IF 1 > n THEN 0 ELSE n - 1 + 1
    BY <1>1, FS_Interval
  <1>3. (IF 1 > n THEN 0 ELSE n - 1 + 1) = n
    OBVIOUS
  <1> QED BY <1>2, <1>3

\* A set among n blocks that grows by the successors n times is closed in the end.
LEMMA ReachStops ==
  ASSUME NEW g, NEW n \in Nat, NEW f, f[0] # {},
         \A k \in 0..n : f[k] \subseteq 1..n,
         \A k \in 1..n : f[k] = f[k - 1] \cup P!SuccessorsOf(g, f[k - 1])
  PROVE  P!SuccessorsOf(g, f[n]) \subseteq f[n]
  <1>0. n \in 0..n /\ 0 \in 0..n
    OBVIOUS
  <1>1. SUFFICES ASSUME ~(P!SuccessorsOf(g, f[n]) \subseteq f[n]) PROVE FALSE
    OBVIOUS
  <1>2. ASSUME NEW k \in 0..n, P!SuccessorsOf(g, f[k]) \subseteq f[k] PROVE FALSE
    <2> DEFINE T == {j \in 0..n : j < k \/ f[j] = f[k]}
    <2>1. 0 \in T
      BY <1>0
    <2>2. ASSUME NEW j \in 1..n, j - 1 \in T PROVE j \in T
      <3>1. CASE j <= k
        BY <3>1
      <3>2. CASE ~(j <= k)
        <4>1. f[j - 1] = f[k] /\ j \in 0..n
          BY <2>2, <3>2
        <4>2. f[j] = f[k]
          BY <1>2, <4>1
        <4> QED BY <4>1, <4>2
      <3> QED BY <3>1, <3>2
    <2>3. n \in T
      <3> HIDE DEF T
      <3> QED BY <1>0, <2>1, <2>2, ByOnes
    <2>4. f[n] = f[k]
      BY <2>3
    <2> QED BY <1>1, <1>2, <2>4
  <1>3. ASSUME NEW k \in 0..n PROVE IsFiniteSet(f[k]) /\ Cardinality(f[k]) \in Nat
    BY Interval, FS_Subset, FS_CardinalityType
  <1> DEFINE T == {k \in 0..n : Cardinality(f[k]) >= k + 1}
  <1>4. 0 \in T
    <2>1. IsFiniteSet(f[0]) /\ Cardinality(f[0]) \in Nat
      BY <1>0, <1>3
    <2>2. Cardinality(f[0]) # 0
      BY <2>1, FS_EmptySet
    <2> QED BY <1>0, <2>1, <2>2
  <1>5. ASSUME NEW k \in 1..n, k - 1 \in T PROVE k \in T
    <2>1. k \in 0..n /\ k - 1 \in 0..n /\ Cardinality(f[k - 1]) >= (k - 1) + 1
      BY <1>5
    <2>2. f[k - 1] \subseteq f[k] /\ f[k - 1] # f[k]
      <3>1. ~(P!SuccessorsOf(g, f[k - 1]) \subseteq f[k - 1])
        BY <1>2, <2>1
      <3> QED BY <3>1
    <2>3. IsFiniteSet(f[k]) /\ Cardinality(f[k - 1]) \in Nat /\ Cardinality(f[k]) \in Nat
      BY <1>3, <2>1
    <2>5. Cardinality(f[k - 1]) <= Cardinality(f[k])
          /\ (Cardinality(f[k - 1]) = Cardinality(f[k]) => f[k - 1] = f[k])
      BY <2>2, <2>3, FS_Subset
    <2>4. Cardinality(f[k]) >= k + 1
      BY <2>1, <2>2, <2>3, <2>5
    <2> QED BY <2>1, <2>4
  <1>6. n \in T
    <2> HIDE DEF T
    <2> QED BY <1>0, <1>4, <1>5, ByOnes
  <1>7. Cardinality(f[n]) <= n /\ Cardinality(f[n]) \in Nat
    <2>1. f[n] \subseteq 1..n /\ IsFiniteSet(1..n)
      BY <1>0, Interval
    <2>2. Cardinality(f[n]) <= Cardinality(1..n)
      BY <2>1, FS_Subset
    <2> QED BY <1>0, <1>3, <2>2, Interval
  <1> QED BY <1>6, <1>7

\* ReachableFrom is the least set of blocks that holds the entry and what its
\* blocks jump to.
LEMMA ReachableIs ==
  ASSUME NEW g, NEW e, NEW n \in Nat, Len(g.block) = n, NEW X \in SUBSET (1..n), e \in X,
         \A Y \in SUBSET (1..n) : P!SuccessorsOf(g, Y) \subseteq 1..n,
         P!SuccessorsOf(g, X) \subseteq X,
         \A Y \in SUBSET (1..n) : e \in Y /\ P!SuccessorsOf(g, Y) \subseteq Y => X \subseteq Y
  PROVE  P!ReachableFrom(g, e) = X
  <1> DEFINE Sets == SUBSET (1..n)
             step == [k \in 1..n |-> [Y \in Sets |-> Y \cup P!SuccessorsOf(g, Y)]]
             f == CHOOSE h : h = [k \in 0..n |-> IF k = 0 THEN {e} ELSE h[k - 1] \cup P!SuccessorsOf(g, h[k - 1])]
  <1>1. {e} \in Sets /\ \A k \in 1..n : \A Y \in Sets : step[k][Y] \in Sets /\ step[k][Y] = Y \cup P!SuccessorsOf(g, Y)
    OBVIOUS
  <1>2. PICK h : h = [k \in 0..n |-> IF k = 0 THEN {e} ELSE step[k][h[k - 1]]]
    <2> DEFINE a == {e}
    <2> HIDE DEF step, a
    <2>1. \E h : S!Recurs(h, a, step, n)
      BY S!RecursionExists
    <2>2. \E h : h = [k \in 0..n |-> IF k = 0 THEN a ELSE step[k][h[k - 1]]]
      BY <2>1 DEF S!Recurs
    <2> QED BY <2>2 DEF a
  <1> HIDE DEF Sets, step
  <1>3. h[0] = {e} /\ \A k \in 1..n : h[k] = step[k][h[k - 1]]
    <2>1. 0 \in 0..n /\ \A k \in 1..n : k \in 0..n /\ k # 0
      OBVIOUS
    <2> QED BY <1>2, <2>1
  <1>4. \A k \in 0..n : h[k] \in Sets
    <2>1. h[0] \in Sets
      BY <1>1, <1>3
    <2>2. \A k \in 1..n : h[k - 1] \in Sets => h[k] \in Sets
      BY <1>1, <1>3
    <2> QED BY <2>1, <2>2, S!RecursionStays
  <1>5. h = [k \in 0..n |-> IF k = 0 THEN {e} ELSE h[k - 1] \cup P!SuccessorsOf(g, h[k - 1])]
    <2>1. ASSUME NEW k \in 0..n
          PROVE  h[k] = IF k = 0 THEN {e} ELSE h[k - 1] \cup P!SuccessorsOf(g, h[k - 1])
      <3>1. CASE k = 0
        BY <1>3, <3>1
      <3>2. CASE k # 0
        <4>1. k \in 1..n /\ k - 1 \in 0..n
          BY <3>2
        <4> QED BY <1>1, <1>3, <1>4, <3>2, <4>1
      <3> QED BY <3>1, <3>2
    <2>2. h = [k \in 0..n |-> h[k]]
      BY <1>2
    <2> QED BY <2>1, <2>2
  <1>6. f = [k \in 0..n |-> IF k = 0 THEN {e} ELSE f[k - 1] \cup P!SuccessorsOf(g, f[k - 1])]
    BY <1>5
  <1>7. P!ReachableFrom(g, e) = f[n]
    BY DEF P!ReachableFrom, P!Closure
  <1> HIDE DEF f
  <1>8. f[0] = {e} /\ \A k \in 1..n : f[k] = f[k - 1] \cup P!SuccessorsOf(g, f[k - 1])
    <2>1. 0 \in 0..n /\ \A k \in 1..n : k \in 0..n /\ k # 0
      OBVIOUS
    <2> QED BY <1>6, <2>1
  <1>9. \A k \in 0..n : f[k] \in SUBSET X
    <2>1. f[0] \in SUBSET X
      BY <1>8
    <2>2. ASSUME NEW k \in 1..n, f[k - 1] \in SUBSET X PROVE f[k] \in SUBSET X
      <3>1. P!SuccessorsOf(g, f[k - 1]) \subseteq P!SuccessorsOf(g, X)
        BY <2>2 DEF P!SuccessorsOf
      <3> QED BY <1>8, <2>2, <3>1
    <2> DEFINE V == SUBSET X
    <2> HIDE DEF V
    <2>3. f[0] \in V /\ \A k \in 1..n : f[k - 1] \in V => f[k] \in V
      BY <2>1, <2>2 DEF V
    <2>4. \A k \in 0..n : f[k] \in V
      BY <2>3, S!RecursionStays
    <2> QED BY <2>4 DEF V
  <1>10. P!SuccessorsOf(g, f[n]) \subseteq f[n]
    <2>1. f[0] # {} /\ \A k \in 0..n : f[k] \subseteq 1..n
      BY <1>8, <1>9
    <2> QED BY <1>8, <2>1, ReachStops
  <1>11. \A k \in 0..n : e \in f[k]
    <2> DEFINE T == {k \in 0..n : e \in f[k]}
    <2>1. 0 \in T
      BY <1>8
    <2>2. \A k \in 1..n : k - 1 \in T => k \in T
      BY <1>8
    <2> HIDE DEF T
    <2>3. \A k \in 0..n : k \in T
      BY <2>1, <2>2, ByOnes
    <2> QED BY <2>3 DEF T
  <1>12. n \in 0..n
    OBVIOUS
  <1>13. X \subseteq f[n]
    BY <1>9, <1>10, <1>11, <1>12
  <1> QED BY <1>7, <1>9, <1>12, <1>13

\* Sequences of blocks.
LEMMA Elements ==
  ASSUME NEW B, NEW q \in Seq(B)
  PROVE  P!ToSet(q) \subseteq B
  <1>1. DOMAIN q = 1..Len(q) /\ \A k \in 1..Len(q) : q[k] \in B
    OBVIOUS
  <1> QED BY <1>1 DEF P!ToSet

LEMMA HeadAndTail ==
  ASSUME NEW B, NEW q \in Seq(B), q # <<>>
  PROVE  Head(q) \in B /\ Tail(q) \in Seq(B) /\ P!ToSet(q) = {Head(q)} \cup P!ToSet(Tail(q))
  <1>1. PICK t : t = Tail(q)
    OBVIOUS
  <1>2. /\ Len(q) \in Nat \ {0} /\ Head(q) = q[1] /\ t \in Seq(B) /\ Len(t) = Len(q) - 1
        /\ \A k \in 1..(Len(q) - 1) : t[k] = q[k + 1]
        /\ \A k \in 1..Len(q) : q[k] \in B
    BY <1>1
  <1>3. P!ToSet(q) = {q[k] : k \in 1..Len(q)} /\ P!ToSet(t) = {t[k] : k \in 1..Len(t)}
    <2>1. DOMAIN q = 1..Len(q) /\ DOMAIN t = 1..Len(t)
      BY <1>2
    <2> QED BY <2>1 DEF P!ToSet
  <1>4. ASSUME NEW k \in 1..Len(q) PROVE q[k] \in {Head(q)} \cup P!ToSet(t)
    <2>1. CASE k = 1
      BY <1>2, <2>1
    <2>2. CASE k # 1
      <3>1. k - 1 \in 1..(Len(q) - 1) /\ (k - 1) + 1 = k
        BY <1>2, <2>2
      <3>2. q[k] = t[k - 1]
        BY <1>2, <3>1
      <3> QED BY <1>2, <1>3, <3>1, <3>2
    <2> QED BY <2>1, <2>2
  <1>5. ASSUME NEW k \in 1..Len(t) PROVE t[k] \in P!ToSet(q)
    <2>1. k + 1 \in 1..Len(q) /\ t[k] = q[k + 1]
      BY <1>2
    <2> QED BY <1>3, <2>1
  <1>6. 1 \in 1..Len(q)
    BY <1>2
  <1>7. P!ToSet(q) = {Head(q)} \cup P!ToSet(t)
    BY <1>2, <1>3, <1>4, <1>5, <1>6
  <1> QED BY <1>1, <1>2, <1>6, <1>7

LEMMA Joined ==
  ASSUME NEW B, NEW q \in Seq(B), NEW r \in Seq(B)
  PROVE  q \o r \in Seq(B) /\ P!ToSet(q \o r) = P!ToSet(q) \cup P!ToSet(r)
  <1>1. /\ q \o r \in Seq(B) /\ Len(q) \in Nat /\ Len(r) \in Nat /\ Len(q \o r) = Len(q) + Len(r)
        /\ \A k \in 1..Len(q) : (q \o r)[k] = q[k]
        /\ \A k \in 1..Len(r) : (q \o r)[Len(q) + k] = r[k]
    OBVIOUS
  <1>2. /\ P!ToSet(q) = {q[k] : k \in 1..Len(q)} /\ P!ToSet(r) = {r[k] : k \in 1..Len(r)}
        /\ P!ToSet(q \o r) = {(q \o r)[k] : k \in 1..(Len(q) + Len(r))}
    BY <1>1 DEF P!ToSet
  <1>3. ASSUME NEW k \in 1..(Len(q) + Len(r)) PROVE (q \o r)[k] \in P!ToSet(q) \cup P!ToSet(r)
    <2>1. CASE k <= Len(q)
      BY <1>1, <1>2, <2>1
    <2>2. CASE ~(k <= Len(q))
      <3>1. k - Len(q) \in 1..Len(r) /\ Len(q) + (k - Len(q)) = k
        BY <1>1, <2>2
      <3>2. (q \o r)[k] = r[k - Len(q)]
        BY <1>1, <3>1
      <3> QED BY <1>2, <3>1, <3>2
    <2> QED BY <2>1, <2>2
  <1>4. \A k \in 1..Len(q) : k \in 1..(Len(q) + Len(r))
    BY <1>1
  <1>5. \A k \in 1..Len(r) : Len(q) + k \in 1..(Len(q) + Len(r))
    BY <1>1
  <1> QED BY <1>1, <1>2, <1>3, <1>4, <1>5

LEMMA NodeAdded ==
  ASSUME NEW B, NEW q \in Seq(B), NEW b \in B
  PROVE  /\ Append(q, b) \in Seq(B) /\ P!ToSet(Append(q, b)) = P!ToSet(q) \cup {b}
         /\ P!IsInjective(q) /\ b \notin P!ToSet(q) => P!IsInjective(Append(q, b))
  <1> DEFINE l == Append(q, b)
             n == Len(q)
  <1>1. /\ n \in Nat /\ l \in Seq(B) /\ Len(l) = n + 1 /\ l[n + 1] = b /\ \A k \in 1..n : l[k] = q[k]
        /\ DOMAIN l = 1..(n + 1) /\ DOMAIN q = 1..n
    OBVIOUS
  <1> HIDE DEF l, n
  <1>2. P!ToSet(q) = {q[k] : k \in 1..n} /\ P!ToSet(l) = {l[k] : k \in 1..(n + 1)}
    BY <1>1 DEF P!ToSet
  <1>3. (\A k \in 1..(n + 1) : k \in 1..n \/ k = n + 1) /\ n + 1 \in 1..(n + 1) /\ \A k \in 1..n : k \in 1..(n + 1)
    BY <1>1
  <1>4. P!ToSet(l) = P!ToSet(q) \cup {b}
    BY <1>1, <1>2, <1>3
  <1>5. ASSUME P!IsInjective(q), b \notin P!ToSet(q) PROVE P!IsInjective(l)
    <2>1. \A j, k \in 1..n : q[j] = q[k] => j = k
      BY <1>1, <1>5 DEF P!IsInjective
    <2>2. \A k \in 1..n : q[k] # b
      BY <1>2, <1>5
    <2>3. \A j, k \in 1..(n + 1) : l[j] = l[k] => j = k
      BY <1>1, <1>3, <2>1, <2>2
    <2> QED BY <1>1, <2>3 DEF P!IsInjective
  <1> QED BY <1>1, <1>4, <1>5 DEF l

\* What the dump relies on: the jumps of the function lead to its blocks.
Drawable ==
    /\ ir.block \in Seq(P!ToSet(ir.block))
    /\ entry \in P!Blocks(ir)
    /\ \A b \in P!Blocks(ir) : P!block_successor(ir, b) \in Seq(P!Blocks(ir))

\* A dump of a graph with the blocks B.
IsDump(d, B) ==
    /\ d = [toVisit |-> d.toVisit, newVisit |-> d.newVisit, visited |-> d.visited, nodes |-> d.nodes,
            edges |-> d.edges, text |-> d.text]
    /\ d.toVisit \in Seq(B) /\ d.newVisit \in Seq(B) /\ d.nodes \in Seq(B) /\ d.edges \in Seq(B \X B)

Met(d) == d.visited \cup P!ToSet(d.toVisit) \cup P!ToSet(d.newVisit)

\* A set of blocks with the entry that no jump leads out of.
Around(Y) == entry \in Y /\ P!SuccessorsOf(ir, Y) \subseteq Y

\* Every block that has been visited is drawn once, with its edges.
DrawnOnce(d) ==
    /\ d.visited = P!ToSet(d.nodes) /\ P!IsInjective(d.nodes)
    /\ P!ToSet(d.edges) = P!EdgesOf(d.visited)

\* What is to be visited leads on from there, and nothing else does.
LeadsOn(d) ==
    /\ entry \in Met(d)
    /\ P!SuccessorsOf(ir, d.visited) \subseteq Met(d)
    /\ \A Y \in SUBSET P!Blocks(ir) : Around(Y) => Met(d) \subseteq Y

DumpInv ==
    /\ Drawable /\ IsDump(dump, P!Blocks(ir)) /\ DrawnOnce(dump)
    /\ pc \in {"done", "dump", "dumped"}
    /\ pc = "done" => dump = P!NoDump
    /\ pc # "done" => LeadsOn(dump)
    /\ pc = "dumped" => dump.toVisit = <<>> /\ dump.newVisit = <<>>

LEMMA DumpStarts == P!StartDump => DumpInv
  <1> SUFFICES ASSUME P!StartDump PROVE DumpInv
    OBVIOUS
  <1>1. Drawable /\ pc = "done" /\ dump = P!NoDump
    BY DEF P!StartDump, Drawable
  <1>2. P!ToSet(<<>>) = {} /\ P!IsInjective(<<>>)
    BY DEF P!ToSet, P!IsInjective
  <1>3. dump = [toVisit |-> <<>>, newVisit |-> <<>>, visited |-> {}, nodes |-> <<>>, edges |-> <<>>, text |-> P!NoText]
    BY <1>1 DEF P!NoDump
  <1>4. IsDump(dump, P!Blocks(ir))
    BY <1>3 DEF IsDump
  <1>5. DrawnOnce(dump)
    BY <1>2, <1>3 DEF DrawnOnce, P!EdgesOf
  <1> QED BY <1>1, <1>4, <1>5 DEF DumpInv

\* A block that is visited again is only taken off the list.
LEMMA VisitsAgain ==
  ASSUME Drawable, NEW B, B = P!Blocks(ir), NEW d, IsDump(d, B), DrawnOnce(d), LeadsOn(d),
         d.toVisit # <<>>, Head(d.toVisit) \in d.visited,
         NEW e, e = [d EXCEPT !.toVisit = Tail(@)]
  PROVE  IsDump(e, B) /\ DrawnOnce(e) /\ LeadsOn(e)
  <1>1. e = [toVisit |-> Tail(d.toVisit), newVisit |-> d.newVisit, visited |-> d.visited, nodes |-> d.nodes,
             edges |-> d.edges, text |-> d.text]
    BY DEF IsDump
  <1>2. Tail(d.toVisit) \in Seq(B) /\ P!ToSet(d.toVisit) = {Head(d.toVisit)} \cup P!ToSet(Tail(d.toVisit))
    BY HeadAndTail DEF IsDump
  <1>3. IsDump(e, B)
    BY <1>1, <1>2 DEF IsDump
  <1>4. DrawnOnce(e)
    BY <1>1 DEF DrawnOnce
  <1>5. Met(e) = Met(d)
    BY <1>1, <1>2 DEF Met
  <1>6. LeadsOn(e)
    BY <1>1, <1>5 DEF LeadsOn
  <1> QED BY <1>3, <1>4, <1>6

\* A block that is visited for the first time is drawn, and its successors wait.
LEMMA VisitsFirst ==
  ASSUME Drawable, NEW B, B = P!Blocks(ir), NEW d, IsDump(d, B), DrawnOnce(d), LeadsOn(d),
         d.toVisit # <<>>, NEW b, b = Head(d.toVisit), b \notin d.visited,
         NEW t, NEW e,
         e = [P!Drawn([d EXCEPT !.toVisit = Tail(@)], b, P!block_successor(ir, b))
                EXCEPT !.visited = P!Visited(@, b), !.newVisit = @ \o P!block_successor(ir, b), !.text = t]
  PROVE  IsDump(e, B) /\ DrawnOnce(e) /\ LeadsOn(e)
  <1>1. b \in B /\ Tail(d.toVisit) \in Seq(B) /\ P!ToSet(d.toVisit) = {b} \cup P!ToSet(Tail(d.toVisit))
    BY HeadAndTail DEF IsDump
  <1>2. PICK next : next = P!block_successor(ir, b)
    OBVIOUS
  <1>3. next \in Seq(B)
    BY <1>1, <1>2 DEF Drawable
  <1>4. PICK out : out = [k \in DOMAIN next |-> <<b, next[k]>>]
    OBVIOUS
  <1>5. e = [toVisit |-> Tail(d.toVisit), newVisit |-> d.newVisit \o next, visited |-> d.visited \cup {b},
             nodes |-> Append(d.nodes, b), edges |-> d.edges \o out, text |-> t]
    <2>1. PICK rest : rest = [d EXCEPT !.toVisit = Tail(@)]
      OBVIOUS
    <2>2. rest = [toVisit |-> Tail(d.toVisit), newVisit |-> d.newVisit, visited |-> d.visited, nodes |-> d.nodes,
                  edges |-> d.edges, text |-> d.text]
      BY <2>1 DEF IsDump
    <2>3. PICK drawn : drawn = P!Drawn(rest, b, next)
      OBVIOUS
    <2>4. drawn = [rest EXCEPT !.nodes = Append(@, b), !.edges = @ \o out]
      BY <1>4, <2>3 DEF P!Drawn
    <2>5. drawn = [toVisit |-> Tail(d.toVisit), newVisit |-> d.newVisit, visited |-> d.visited,
                   nodes |-> Append(d.nodes, b), edges |-> d.edges \o out, text |-> d.text]
      BY <2>2, <2>4
    <2>6. e = [drawn EXCEPT !.visited = @ \cup {b}, !.newVisit = @ \o next, !.text = t]
      BY <1>2, <2>1, <2>3 DEF P!Visited
    <2> QED BY <2>5, <2>6
  <1>0. /\ e.toVisit = Tail(d.toVisit) /\ e.newVisit = d.newVisit \o next /\ e.visited = d.visited \cup {b}
        /\ e.nodes = Append(d.nodes, b) /\ e.edges = d.edges \o out
    <2>1. PICK new : new = d.newVisit \o next
      OBVIOUS
    <2>2. PICK nodes : nodes = Append(d.nodes, b)
      OBVIOUS
    <2>3. PICK edges : edges = d.edges \o out
      OBVIOUS
    <2>4. PICK rest : rest = Tail(d.toVisit)
      OBVIOUS
    <2>5. PICK drawn : drawn = d.visited \cup {b}
      OBVIOUS
    <2>6. e = [toVisit |-> rest, newVisit |-> new, visited |-> drawn, nodes |-> nodes, edges |-> edges, text |-> t]
      BY <1>5, <2>1, <2>2, <2>3, <2>4, <2>5
    <2>7. e.toVisit = rest /\ e.newVisit = new /\ e.visited = drawn /\ e.nodes = nodes /\ e.edges = edges
      BY ONLY <2>6
    <2> QED BY <2>1, <2>2, <2>3, <2>4, <2>5, <2>7
  <1>6. out \in Seq(B \X B) /\ P!ToSet(out) = {<<b, s>> : s \in P!ToSet(next)}
    <2>1. DOMAIN next = 1..Len(next) /\ Len(next) \in Nat /\ \A k \in 1..Len(next) : next[k] \in B
      BY <1>3
    <2>2. out = [k \in 1..Len(next) |-> <<b, next[k]>>]
      BY <1>4, <2>1
    <2>3. out \in Seq(B \X B)
      BY <1>1, <2>1, <2>2
    <2>4. P!ToSet(out) = {out[k] : k \in 1..Len(next)} /\ P!ToSet(next) = {next[k] : k \in 1..Len(next)}
      BY <2>1, <2>2 DEF P!ToSet
    <2> QED BY <2>2, <2>3, <2>4
  <1>7. /\ Append(d.nodes, b) \in Seq(B) /\ P!ToSet(Append(d.nodes, b)) = d.visited \cup {b}
        /\ P!IsInjective(Append(d.nodes, b))
    <2>1. d.nodes \in Seq(B) /\ P!IsInjective(d.nodes) /\ P!ToSet(d.nodes) = d.visited /\ b \notin P!ToSet(d.nodes)
      BY DEF IsDump, DrawnOnce
    <2> QED BY <1>1, <2>1, NodeAdded
  <1>8. d.newVisit \o next \in Seq(B) /\ P!ToSet(d.newVisit \o next) = P!ToSet(d.newVisit) \cup P!ToSet(next)
    BY <1>3, Joined DEF IsDump
  <1>9. d.edges \o out \in Seq(B \X B) /\ P!ToSet(d.edges \o out) = P!ToSet(d.edges) \cup P!ToSet(out)
    <2>1. PICK A : A = B \X B
      OBVIOUS
    <2>2. d.edges \in Seq(A) /\ out \in Seq(A)
      BY <1>6, <2>1 DEF IsDump
    <2> QED BY <2>1, <2>2, Joined
  <1>10. IsDump(e, B)
    <2>1. e = [toVisit |-> e.toVisit, newVisit |-> e.newVisit, visited |-> e.visited, nodes |-> e.nodes,
               edges |-> e.edges, text |-> e.text]
      BY <1>5
    <2>2. e.toVisit \in Seq(B) /\ e.newVisit \in Seq(B)
      BY <1>0, <1>1, <1>8
    <2>3. e.nodes \in Seq(B) /\ e.edges \in Seq(B \X B)
      BY <1>0, <1>7, <1>9
    <2> QED BY <2>1, <2>2, <2>3 DEF IsDump
  <1>11. DrawnOnce(e)
    <2>1. P!EdgesOf(d.visited \cup {b}) = P!EdgesOf(d.visited) \cup {<<b, s>> : s \in P!ToSet(next)}
      BY <1>2 DEF P!EdgesOf
    <2>2. P!ToSet(d.edges) = P!EdgesOf(d.visited)
      BY DEF DrawnOnce
    <2>3. P!ToSet(e.edges) = P!EdgesOf(e.visited)
      BY <1>0, <1>6, <1>9, <2>1, <2>2
    <2>4. e.visited = P!ToSet(e.nodes) /\ P!IsInjective(e.nodes)
      BY <1>0, <1>7
    <2> QED BY <2>3, <2>4 DEF DrawnOnce
  <1>12. Met(e) = Met(d) \cup P!ToSet(next)
    <2>1. P!ToSet(e.toVisit) \cup {b} = P!ToSet(d.toVisit)
      BY <1>0, <1>1
    <2>2. P!ToSet(e.newVisit) = P!ToSet(d.newVisit) \cup P!ToSet(next)
      BY <1>0, <1>8
    <2> QED BY <1>0, <2>1, <2>2 DEF Met
  <1>13. P!SuccessorsOf(ir, d.visited \cup {b}) = P!SuccessorsOf(ir, d.visited) \cup P!ToSet(next)
    BY <1>2 DEF P!SuccessorsOf
  <1>14. ASSUME NEW Y \in SUBSET P!Blocks(ir), Around(Y) PROVE Met(e) \subseteq Y
    <2>1. Met(d) \subseteq Y
      BY <1>14 DEF LeadsOn
    <2>2. b \in Y
      BY <1>1, <2>1 DEF Met
    <2>3. P!ToSet(next) \subseteq Y
      BY <1>2, <1>14, <2>2 DEF Around, P!SuccessorsOf
    <2> QED BY <1>12, <2>1, <2>3
  <1>15. LeadsOn(e)
    <2>1. entry \in Met(d) /\ P!SuccessorsOf(ir, d.visited) \subseteq Met(d)
      BY DEF LeadsOn
    <2>2. entry \in Met(e) /\ P!SuccessorsOf(ir, e.visited) \subseteq Met(e)
      BY <1>0, <1>12, <1>13, <2>1
    <2> QED BY <1>14, <2>2 DEF LeadsOn
  <1> QED BY <1>10, <1>11, <1>15

\* A block taken off the list keeps the invariant.
LEMMA DumpBlockKeeps ==
  ASSUME DumpInv, P!DumpBlock
  PROVE  IsDump(dump', P!Blocks(ir)) /\ DrawnOnce(dump') /\ LeadsOn(dump')
  <1>1. PICK B : B = P!Blocks(ir)
    OBVIOUS
  <1>2. PICK d : d = dump
    OBVIOUS
  <1>3. PICK e : e = dump'
    OBVIOUS
  <1>4. PICK b : b = Head(d.toVisit)
    OBVIOUS
  <1>5. Drawable /\ IsDump(d, B) /\ DrawnOnce(d) /\ LeadsOn(d) /\ d.toVisit # <<>>
    BY <1>1, <1>2 DEF DumpInv, P!DumpBlock
  <1>6. \/ b \in d.visited /\ e = [d EXCEPT !.toVisit = Tail(@)]
        \/ /\ b \notin d.visited
           /\ e = [P!Drawn([d EXCEPT !.toVisit = Tail(@)], b, P!block_successor(ir, b))
                     EXCEPT !.visited = P!Visited(@, b), !.newVisit = @ \o P!block_successor(ir, b),
                            !.text = P!_block_dump(@, b)]
    BY <1>2, <1>3, <1>4 DEF P!DumpBlock
  <1>7. CASE b \in d.visited /\ e = [d EXCEPT !.toVisit = Tail(@)]
    <2>1. IsDump(e, B) /\ DrawnOnce(e) /\ LeadsOn(e)
      BY <1>1, <1>4, <1>5, <1>7, VisitsAgain
    <2> QED BY <1>1, <1>3, <2>1
  <1>8. CASE b \notin d.visited
    <2>1. PICK drawn : drawn = P!Drawn([d EXCEPT !.toVisit = Tail(@)], b, P!block_successor(ir, b))
      OBVIOUS
    <2>2. PICK t : t = P!_block_dump(drawn.text, b)
      OBVIOUS
    <2>3. e = [drawn EXCEPT !.visited = P!Visited(@, b), !.newVisit = @ \o P!block_successor(ir, b), !.text = t]
      BY <1>6, <1>8, <2>1, <2>2
    <2>4. IsDump(e, B) /\ DrawnOnce(e) /\ LeadsOn(e)
      BY <1>1, <1>4, <1>5, <1>8, <2>1, <2>3, VisitsFirst
    <2> QED BY <1>1, <1>3, <2>4
  <1> QED BY <1>6, <1>7, <1>8

\* The next level is what the visited blocks jump to.
LEMMA NextLevelKeeps ==
  ASSUME DumpInv, P!NextLevel
  PROVE  IsDump(dump', P!Blocks(ir)) /\ DrawnOnce(dump') /\ LeadsOn(dump')
  <1>1. PICK d : d = dump
    OBVIOUS
  <1>2. PICK e : e = dump'
    OBVIOUS
  <1>3. PICK B : B = P!Blocks(ir)
    OBVIOUS
  <1>4. IsDump(d, B) /\ DrawnOnce(d) /\ LeadsOn(d) /\ d.toVisit = <<>>
    BY <1>1, <1>3 DEF DumpInv, P!NextLevel
  <1>5. e = [toVisit |-> d.newVisit, newVisit |-> <<>>, visited |-> d.visited, nodes |-> d.nodes,
             edges |-> d.edges, text |-> d.text]
    <2>1. e = [d EXCEPT !.toVisit = d.newVisit, !.newVisit = <<>>]
      BY <1>1, <1>2 DEF P!NextLevel
    <2> QED BY <1>4, <2>1 DEF IsDump
  <1>6. IsDump(e, B)
    BY <1>4, <1>5 DEF IsDump
  <1>7. DrawnOnce(e)
    BY <1>4, <1>5 DEF DrawnOnce
  <1>8. Met(e) = Met(d)
    BY <1>4, <1>5 DEF Met
  <1>9. LeadsOn(e)
    BY <1>4, <1>5, <1>8 DEF LeadsOn
  <1> QED BY <1>2, <1>3, <1>6, <1>7, <1>9

\* The walk begins at the entry.
LEMMA FirstLevel ==
  ASSUME DumpInv, P!function_dumpDot
  PROVE  IsDump(dump', P!Blocks(ir)) /\ DrawnOnce(dump') /\ LeadsOn(dump')
  <1>1. PICK garbage \in {{}, {entry}, P!Blocks(ir)} :
          dump' = [P!NoDump EXCEPT !.toVisit = <<entry>>,
                                   !.text.names = [v \in {P!BlockValue(b) : b \in garbage} |-> P!Garbage]]
    BY DEF P!function_dumpDot
  <1>2. PICK t : t = [P!NoText EXCEPT !.names = [v \in {P!BlockValue(b) : b \in garbage} |-> P!Garbage]]
    OBVIOUS
  <1>3. PICK e : e = dump'
    OBVIOUS
  <1>4. PICK B : B = P!Blocks(ir)
    OBVIOUS
  <1>5. e = [toVisit |-> <<entry>>, newVisit |-> <<>>, visited |-> {}, nodes |-> <<>>, edges |-> <<>>, text |-> t]
    BY <1>1, <1>2, <1>3 DEF P!NoDump
  <1>6. entry \in B
    BY <1>4 DEF DumpInv, Drawable
  <1>7. P!ToSet(<<>>) = {} /\ P!IsInjective(<<>>) /\ P!ToSet(<<entry>>) = {entry}
    BY DEF P!ToSet, P!IsInjective
  <1>8. IsDump(e, B)
    BY <1>5, <1>6 DEF IsDump
  <1>9. DrawnOnce(e)
    BY <1>5, <1>7 DEF DrawnOnce, P!EdgesOf
  <1>10. Met(e) = {entry}
    BY <1>5, <1>7 DEF Met
  <1>11. LeadsOn(e)
    BY <1>5, <1>10 DEF LeadsOn, P!SuccessorsOf, Around
  <1> QED BY <1>3, <1>4, <1>8, <1>9, <1>11

LEMMA DumpStep ==
  DumpInv /\ [P!Next /\ UNCHANGED <<number, postorder, doms, df>>]_P!dumpVars => DumpInv'
  <1> SUFFICES ASSUME DumpInv, [P!Next /\ UNCHANGED <<number, postorder, doms, df>>]_P!dumpVars PROVE DumpInv'
    OBVIOUS
  <1>1. ir' = ir /\ entry' = entry
    BY DEF P!Next, P!function_dumpDot, P!DumpBlock, P!NextLevel, P!EndDump, P!dumpVars
  <1>2. Drawable'
    BY <1>1 DEF DumpInv, Drawable
  <1>3. ASSUME IsDump(dump', P!Blocks(ir)), DrawnOnce(dump'), LeadsOn(dump')
        PROVE  IsDump(dump, P!Blocks(ir))' /\ DrawnOnce(dump)' /\ LeadsOn(dump)'
    <2>1. IsDump(dump, P!Blocks(ir))'
      BY <1>1, <1>3 DEF IsDump
    <2>2. DrawnOnce(dump)'
      BY <1>1, <1>3 DEF DrawnOnce, P!EdgesOf
    <2>3. LeadsOn(dump)'
      BY <1>1, <1>3 DEF LeadsOn, Met, Around
    <2> QED BY <2>1, <2>2, <2>3
  <1>4. CASE P!function_dumpDot
    <2>1. pc' = "dump"
      BY <1>4 DEF P!function_dumpDot
    <2> QED BY <1>2, <1>3, <1>4, <2>1, FirstLevel DEF DumpInv
  <1>5. CASE P!DumpBlock
    <2>1. pc' = "dump"
      BY <1>5 DEF P!DumpBlock
    <2> QED BY <1>2, <1>3, <1>5, <2>1, DumpBlockKeeps DEF DumpInv
  <1>6. CASE P!NextLevel
    <2>1. pc' = "dump"
      BY <1>6 DEF P!NextLevel
    <2> QED BY <1>2, <1>3, <1>6, <2>1, NextLevelKeeps DEF DumpInv
  <1>7. CASE P!EndDump
    <2>1. pc = "dump" /\ pc' = "dumped" /\ dump' = dump /\ dump.toVisit = <<>> /\ dump.newVisit = <<>>
      BY <1>7 DEF P!EndDump
    <2>2. IsDump(dump', P!Blocks(ir)) /\ DrawnOnce(dump') /\ LeadsOn(dump')
      BY <2>1 DEF DumpInv
    <2> QED BY <1>2, <1>3, <2>1, <2>2 DEF DumpInv
  <1>8. CASE UNCHANGED P!dumpVars
    <2>1. pc' = pc /\ dump' = dump
      BY <1>8 DEF P!dumpVars
    <2>2. CASE pc = "done"
      <3>1. IsDump(dump, P!Blocks(ir))'
        BY <1>1, <2>1 DEF DumpInv, IsDump
      <3>2. DrawnOnce(dump)'
        BY <1>1, <2>1 DEF DumpInv, DrawnOnce, P!EdgesOf
      <3> QED BY <1>2, <2>1, <2>2, <3>1, <3>2 DEF DumpInv, P!NoDump
    <2>3. CASE pc # "done"
      <3>1. IsDump(dump', P!Blocks(ir)) /\ DrawnOnce(dump') /\ LeadsOn(dump')
        BY <2>1, <2>3 DEF DumpInv
      <3> QED BY <1>2, <1>3, <2>1, <2>3, <3>1 DEF DumpInv
    <2> QED BY <2>2, <2>3
  <1> QED BY <1>4, <1>5, <1>6, <1>7, <1>8 DEF P!Next

\* When nothing is left to visit, what was visited is what can be reached.
LEMMA DumpShows == DumpInv => P!GraphIsCfg
  <1> SUFFICES ASSUME DumpInv PROVE P!GraphIsCfg
    OBVIOUS
  <1>1. pc = "done" => P!StartDump
    BY DEF DumpInv, Drawable, P!StartDump
  <1>2. /\ dump.visited = P!ToSet(dump.nodes) /\ P!IsInjective(dump.nodes)
        /\ P!ToSet(dump.edges) = P!EdgesOf(P!ToSet(dump.nodes))
    BY DEF DumpInv, DrawnOnce
  <1>3. ASSUME pc = "dumped" PROVE P!ReachableFrom(ir, entry) = dump.visited
    <2>1. PICK X : X = dump.visited
      OBVIOUS
    <2>2. PICK n : n = Len(ir.block)
      OBVIOUS
    <2>3. n \in Nat /\ P!Blocks(ir) = 1..n
      BY <2>2 DEF DumpInv, Drawable, P!Blocks
    <2>4. Met(dump) = X
      <3>1. P!ToSet(<<>>) = {}
        BY DEF P!ToSet
      <3> QED BY <1>3, <2>1, <3>1 DEF DumpInv, Met
    <2>5. X \in SUBSET (1..n)
      <3>1. dump.nodes \in Seq(1..n) /\ X = P!ToSet(dump.nodes)
        BY <1>2, <2>1, <2>3 DEF DumpInv, IsDump
      <3> QED BY <3>1, Elements
    <2>6. entry \in X /\ P!SuccessorsOf(ir, X) \subseteq X
      BY <1>3, <2>1, <2>4 DEF DumpInv, LeadsOn
    <2>7. \A Y \in SUBSET (1..n) : entry \in Y /\ P!SuccessorsOf(ir, Y) \subseteq Y => X \subseteq Y
      BY <1>3, <2>3, <2>4 DEF DumpInv, LeadsOn, Around
    <2>8. ASSUME NEW Y \in SUBSET (1..n) PROVE P!SuccessorsOf(ir, Y) \subseteq 1..n
      <3>1. ASSUME NEW b \in Y PROVE P!ToSet(P!block_successor(ir, b)) \subseteq 1..n
        <4>1. PICK next : next = P!block_successor(ir, b)
          OBVIOUS
        <4>2. next \in Seq(1..n)
          BY <2>3, <3>1, <4>1 DEF DumpInv, Drawable
        <4> QED BY <4>1, <4>2, Elements
      <3> QED BY <3>1 DEF P!SuccessorsOf
    <2>9. P!ReachableFrom(ir, entry) = X
      BY <2>2, <2>3, <2>5, <2>6, <2>7, <2>8, ReachableIs
    <2> QED BY <2>1, <2>9
  <1> QED BY <1>1, <1>2, <1>3 DEF P!GraphIsCfg

\* The dump of any function whose jumps lead to blocks of it prints the
\* control-flow graph: every block that can be reached once, with its edges.
THEOREM GraphIsCfgAlways == P!DumpSpec => []GraphIsCfg
  <1>1. P!StartDump => DumpInv
    BY DumpStarts
  <1>2. DumpInv /\ [P!Next /\ UNCHANGED <<number, postorder, doms, df>>]_P!dumpVars => DumpInv'
    BY DumpStep
  <1>3. DumpInv => GraphIsCfg
    BY DumpShows DEF GraphIsCfg
  <1> QED BY <1>1, <1>2, <1>3, PTL DEF P!DumpSpec
=============================================================================
