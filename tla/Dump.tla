-------------------------------- MODULE Dump --------------------------------
(***************************************************************************)
(* function_dumpDot of ir.c, and function_dump, which visits and prints the  *)
(* same: blocks are printed level by level from the entry, and a value gets  *)
(* its name when it is first printed.  Of the text the model keeps what is   *)
(* defined under which name, and the nodes and edges of the graph.           *)
(*                                                                          *)
(* The name of an instruction starts empty.  That of a block is what the     *)
(* zone held before (block_new does not set it): a block in garbage has one. *)
(***************************************************************************)
EXTENDS IR, FiniteSets, TLC

VARIABLES ir, entry, pc,
          number, postorder, doms, df,  \* the annotations, read only
          dump                          \* the locals of function_dumpDot, and the output

\* The names that have been given, by value, and those in the text, as defined.
NoText == [names |-> <<>>, counter |-> 0, defined |-> <<>>]

NoDump == [toVisit |-> <<>>, newVisit |-> <<>>, visited |-> {}, nodes |-> <<>>, edges |-> <<>>, text |-> NoText]

Garbage == -1

-----------------------------------------------------------------------------
\* Mutant: the counter stays.
GetNameUncounted(text, v) ==
    IF v \in DOMAIN text.names THEN text ELSE [text EXCEPT !.names = @ @@ (v :> text.counter)]

\* value_getName, with value_setName.
value_getName(text, v) ==
    IF v \in DOMAIN text.names THEN text
    ELSE [text EXCEPT !.names = @ @@ (v :> text.counter), !.counter = @ + 1]

NamedAll(text, values) == FoldLeft(value_getName, text, values)

\* "!name:" of a block, "%name = " of an instruction.
Defined(text, v) == LET named == value_getName(text, v) IN [named EXCEPT !.defined = Append(@, named.names[v])]

\* Constants are printed inline.
Nameable(v) == v[1] \in {"V_BLOCK", "INST"}

inst_dumpd(text, i) ==
    NamedAll(IF ir.inst[i].dataType = "VOID" THEN text ELSE Defined(text, InstValue(i)),
             SelectSeq(ir.inst[i].uses, Nameable))

dominators_getIDom(b) == postorder[doms[number[b]] + 1]

\* The block, its immediate dominator, its frontier, its instructions.
_block_dump(text, b) ==
    LET frontier == [k \in DOMAIN df[b] |-> BlockValue(df[b][k])]
        headed == NamedAll(Defined(text, BlockValue(b)), <<BlockValue(dominators_getIDom(b))>> \o frontier)
    IN  FoldLeft(inst_dumpd, headed, ir.block[b])

\* graph_setNodeProps and graph_addEdge, each node under its address (getNodeId).
Drawn(d, b, successors) ==
    [d EXCEPT !.nodes = Append(@, b), !.edges = @ \o [k \in DOMAIN successors |-> <<b, successors[k]>>]]

function_dumpDot ==
    /\ pc = "done"
    /\ pc' = "dump"
    /\ \E garbage \in {{}, {entry}, Blocks(ir)} :   \* a bound: none, one or all of them
          dump' = [NoDump EXCEPT !.toVisit = <<entry>>, !.text.names = [v \in {BlockValue(b) : b \in garbage} |-> Garbage]]
    /\ UNCHANGED <<ir, entry>>

\* Mutant: the block is not inserted into visited.
VisitedForgotten(visited, b) == visited

Visited(visited, b) == visited \cup {b}

\* The next element of toVisit.
DumpBlock ==
    /\ pc = "dump"
    /\ dump.toVisit # <<>>
    /\ LET b == Head(dump.toVisit)
           successors == block_successor(ir, b)
           rest == [dump EXCEPT !.toVisit = Tail(@)]
       IN  \/ b \in dump.visited /\ dump' = rest
           \/ /\ b \notin dump.visited
              /\ dump' = [Drawn(rest, b, successors) EXCEPT !.visited = Visited(@, b),
                                                           !.newVisit = @ \o successors,
                                                           !.text = _block_dump(@, b)]
    /\ UNCHANGED <<ir, entry, pc>>

\* toVisit is cleared and swapped with newVisit.
NextLevel ==
    /\ pc = "dump"
    /\ dump.toVisit = <<>> /\ dump.newVisit # <<>>
    /\ dump' = [dump EXCEPT !.toVisit = dump.newVisit, !.newVisit = <<>>]
    /\ UNCHANGED <<ir, entry, pc>>

EndDump ==
    /\ pc = "dump"
    /\ dump.toVisit = <<>> /\ dump.newVisit = <<>>
    /\ pc' = "dumped"
    /\ UNCHANGED <<ir, entry, dump>>

Next == function_dumpDot \/ DumpBlock \/ NextLevel \/ EndDump

-----------------------------------------------------------------------------
\* The dump of any function whose jumps lead to blocks of it.
StartDump ==
    /\ pc = "done" /\ dump = NoDump
    /\ ir.block \in Seq(ToSet(ir.block))
    /\ entry \in Blocks(ir)
    /\ \A b \in Blocks(ir) : block_successor(ir, b) \in Seq(Blocks(ir))

dumpVars == <<ir, entry, pc, number, postorder, doms, df, dump>>

DumpSpec == StartDump /\ [][Next /\ UNCHANGED <<number, postorder, doms, df>>]_dumpVars

-----------------------------------------------------------------------------
EdgesOf(S) == UNION {{<<b, s>> : s \in ToSet(block_successor(ir, b))} : b \in S}

\* The graph is the control-flow graph: the function that is dumped jumps to its
\* own blocks, and every block that can be reached is drawn once, with its edges,
\* however the blocks are linked.
GraphIsCfg ==
    /\ pc = "done" => StartDump
    /\ IsInjective(dump.nodes)
    /\ ToSet(dump.edges) = EdgesOf(ToSet(dump.nodes))
    /\ pc = "dumped" => ToSet(dump.nodes) = ReachableFrom(ir, entry)

\* The names a reader of the text has to resolve: a jump in front of another
\* jump (in a loop body of several blocks) may name blocks that are not printed.
Mentioned ==
    UNION {UNION {{ir.inst[i].uses[s] : s \in {t \in DOMAIN ir.inst[i].uses :
                                                Nameable(ir.inst[i].uses[t])
                                                /\ (ir.inst[i].uses[t][1] = "V_BLOCK" =>
                                                      i = Last(ir.block[b]) \/ ir.inst[i].type = "INST_PHI")}} :
                  i \in ToSet(ir.block[b])} : b \in ToSet(dump.nodes)}

\* The text can be read back: a name is given to one value only, and what is
\* named in an operand is defined under that name; blocks with garbage excepted.
NamesResolve ==
    LET proper == SelectSeq(dump.text.defined, LAMBDA n : n # Garbage)
    IN  /\ IsInjective(proper)
        /\ pc = "dumped" => \A v \in Mentioned : dump.text.names[v] \in ToSet(dump.text.defined)
=============================================================================
