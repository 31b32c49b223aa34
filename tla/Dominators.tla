----------------------------- MODULE Dominators -----------------------------
(***************************************************************************)
(* dominators.c: dominators_compute (postorder numbering, the iterative     *)
(* data-flow solution of Cooper, Harvey and Kennedy, the dominator tree)    *)
(* and domfrontiers_compute.  Every loop iteration is one step, because the *)
(* questions are whether the loops end and what they leave behind.          *)
(*                                                                          *)
(* Blocks are numbered from 0 in postorder, as in the code; postorder[i] of *)
(* the code is postorder[i + 1] here.                                       *)
(***************************************************************************)
EXTENDS IR

CONSTANT MaxFrontier    \* bound on the length of one frontier list

VARIABLES ir, entry, pc,
          visit,      \* the _visit calls in progress, innermost first
          number,     \* dom->nodeToNum, for the blocks that have their number
          seen,       \* blocks with an entry in dom->nodeToNum
          postorder,  \* dom->postorder
          doms,       \* dom->doms: number -> number of the immediate dominator
          cursor,     \* the locals of the loops
          children,   \* dom->domNodes[i].childs
          df          \* df->dfMap: block -> dlist

domVars == <<visit, number, seen, postorder, doms, cursor, children, df>>
vars == <<ir, entry, pc, domVars>>

\* Stands for 2^64 - 1: any number above every block number.
SIZE_MAX == Len(ir.block)

Count == Len(postorder)
BlockNo(i) == postorder[i + 1]

InitDominators ==
    /\ visit = <<>> /\ number = <<>> /\ seen = {} /\ postorder = <<>>
    /\ doms = <<>> /\ children = <<>> /\ df = <<>>
    /\ cursor = [i |-> 0, preds |-> <<>>, newDom |-> 0, a |-> 0, b |-> 0,
                 changed |-> FALSE, runner |-> 0]

\* A read through a NULL entry or past the end of doms.
Crash == pc' = "crash" /\ UNCHANGED domVars

-----------------------------------------------------------------------------
\* _visit: a depth-first search; a block gets its number when it is left.
Visiting(b) == [block |-> b, succs |-> block_successor(ir, b)]

VisitEntry ==
    /\ pc = "dominators"
    /\ visit' = <<Visiting(entry)>>
    /\ seen' = {entry}
    /\ pc' = "visit"
    /\ UNCHANGED <<number, postorder, doms, cursor, children, df>>

VisitSuccessor ==
    LET top == Head(visit)
        succ == Head(top.succs)
        back == Cons([top EXCEPT !.succs = Tail(@)], Tail(visit))
    IN  /\ pc = "visit"
        /\ top.succs # <<>>
        /\ visit' = IF succ \in seen THEN back ELSE Cons(Visiting(succ), back)
        /\ seen' = seen \cup {succ}
        /\ UNCHANGED <<pc, number, postorder, doms, cursor, children, df>>

\* The number of the block that is left next: *i before it is incremented.
NextNumber == Len(postorder)

\* The last block to be left is the entry; dominators_compute then allocates
\* doms, with every element but the entry's at SIZE_MAX, and starts sweeping.
VisitLeave ==
    LET top == Head(visit)
        last == Len(postorder)
    IN  /\ pc = "visit"
        /\ top.succs = <<>>
        /\ number' = [b \in DOMAIN number \cup {top.block} |->
                         IF b = top.block THEN NextNumber ELSE number[b]]
        /\ postorder' = Append(postorder, top.block)
        /\ visit' = Tail(visit)
        /\ \/ Tail(visit) # <<>> /\ UNCHANGED <<pc, doms, cursor>>
           \/ /\ Tail(visit) = <<>>
              /\ pc' = "sweep"
              /\ doms' = [i \in 0..last |-> IF i = last THEN last ELSE SIZE_MAX]
              /\ cursor' = [cursor EXCEPT !.i = last, !.changed = FALSE]
        /\ UNCHANGED <<seen, children, df>>

-----------------------------------------------------------------------------
\* One iteration of the for loop over the blocks, in reverse postorder.  The
\* first predecessor is taken as it is, whatever doms says of it.
BeginBlock ==
    LET preds == block_predecessor(ir, BlockNo(cursor.i))
    IN  /\ pc = "sweep"
        /\ \/ /\ preds = <<>>
              /\ cursor' = [cursor EXCEPT !.newDom = doms[cursor.i], !.preds = <<>>]
              /\ pc' = "preds"
              /\ UNCHANGED <<visit, number, seen, postorder, doms, children, df>>
           \/ /\ preds # <<>>
              /\ Head(preds) \in seen
              /\ cursor' = [cursor EXCEPT !.newDom = number[Head(preds)], !.preds = Tail(preds)]
              /\ pc' = "preds"
              /\ UNCHANGED <<visit, number, seen, postorder, doms, children, df>>
           \/ preds # <<>> /\ Head(preds) \notin seen /\ Crash

\* The other predecessors; one that has no dominator yet is skipped.
NextPredecessor ==
    LET pred == Head(cursor.preds)
        rest == [cursor EXCEPT !.preds = Tail(@)]
    IN  /\ pc = "preds"
        /\ cursor.preds # <<>>
        /\ \/ /\ pred \in seen
              /\ doms[number[pred]] = SIZE_MAX
              /\ cursor' = rest
              /\ UNCHANGED <<pc, visit, number, seen, postorder, doms, children, df>>
           \/ /\ pred \in seen
              /\ doms[number[pred]] # SIZE_MAX
              /\ cursor' = [rest EXCEPT !.a = number[pred], !.b = cursor.newDom]
              /\ pc' = "intersect"
              /\ UNCHANGED <<visit, number, seen, postorder, doms, children, df>>
           \/ pred \notin seen /\ Crash

\* Mutants: the wrong finger moves.
TakesOldDom(f) == [f EXCEPT !.a = f.b]
ClimbsHigher(f) == IF f.a > f.b THEN [f EXCEPT !.a = doms[f.a]] ELSE [f EXCEPT !.b = doms[f.b]]

\* intersect: the lower of the two fingers climbs until they meet.
Climb(f) == IF f.a < f.b THEN [f EXCEPT !.a = doms[f.a]] ELSE [f EXCEPT !.b = doms[f.b]]

IntersectStep ==
    /\ pc = "intersect"
    /\ \/ /\ cursor.a = cursor.b
          /\ cursor' = [cursor EXCEPT !.newDom = cursor.a]
          /\ pc' = "preds"
       \/ /\ cursor.a # cursor.b
          /\ cursor' = Climb(cursor)
          /\ UNCHANGED pc
    /\ UNCHANGED <<visit, number, seen, postorder, doms, children, df>>

\* The end of the iteration, and after block 0 the end of the sweep.
EndBlock ==
    LET changed == cursor.changed \/ doms[cursor.i] # cursor.newDom
    IN  /\ pc = "preds"
        /\ cursor.preds = <<>>
        /\ doms' = [doms EXCEPT ![cursor.i] = cursor.newDom]
        /\ \/ /\ cursor.i > 0
              /\ cursor' = [cursor EXCEPT !.i = @ - 1, !.changed = changed]
              /\ pc' = "sweep"
           \/ /\ cursor.i = 0 /\ changed
              /\ cursor' = [cursor EXCEPT !.i = Count - 1, !.changed = FALSE]
              /\ pc' = "sweep"
           \/ /\ cursor.i = 0 /\ ~changed
              /\ pc' = "tree"
              /\ UNCHANGED cursor
        /\ UNCHANGED <<visit, number, seen, postorder, children, df>>

\* domNodes[d].childs: the blocks whose immediate dominator is d, d itself left out.
ChildrenOf(d) == SelectSeq([k \in 1..Count |-> k - 1], LAMBDA i : doms[i] = d /\ i # d)

\* The tree: every block but a root is a child of its immediate dominator,
\* children in increasing order.  domfrontiers_compute then starts.
BuildTree ==
    /\ pc = "tree"
    /\ \/ /\ \A i \in DOMAIN doms : doms[i] # SIZE_MAX
          /\ children' = [d \in 0..(Count - 1) |-> ChildrenOf(d)]
          /\ df' = [b \in Blocks(ir) |-> <<>>]
          /\ cursor' = [cursor EXCEPT !.i = 0, !.preds = block_predecessor(ir, BlockNo(0))]
          /\ pc' = "df"
          /\ UNCHANGED <<visit, number, seen, postorder, doms>>
       \/ (\E i \in DOMAIN doms : doms[i] = SIZE_MAX) /\ Crash

-----------------------------------------------------------------------------
dominators_getIDom(b) == BlockNo(doms[number[b]])

\* Mutant: the two blocks swapped.
FrontierSwapped(f, runner, b) == [f EXCEPT ![b] = Append(@, runner)]

\* _df_getElement and dbuffer_pushPtr: b joins the frontier of runner.
AddToFrontier(f, runner, b) == [f EXCEPT ![runner] = Append(@, b)]

\* domfrontiers_compute: from each predecessor of a block a runner climbs the
\* tree up to the block's immediate dominator (never, when the input is not
\* Analysable and the entry is not its own dominator: MaxFrontier stops that).
DfPredecessor ==
    /\ pc = "df"
    /\ cursor.preds # <<>>
    /\ cursor' = [cursor EXCEPT !.runner = Head(cursor.preds), !.preds = Tail(@)]
    /\ pc' = "runner"
    /\ UNCHANGED <<visit, number, seen, postorder, doms, children, df>>

RunnerStep ==
    LET b == BlockNo(cursor.i)
        runner == cursor.runner
    IN  /\ pc = "runner"
        /\ \/ /\ runner # dominators_getIDom(b)
              /\ Len(df[runner]) < MaxFrontier
              /\ df' = AddToFrontier(df, runner, b)
              /\ cursor' = [cursor EXCEPT !.runner = dominators_getIDom(runner)]
              /\ UNCHANGED pc
           \/ /\ runner = dominators_getIDom(b)
              /\ pc' = "df"
              /\ UNCHANGED <<df, cursor>>
        /\ UNCHANGED <<visit, number, seen, postorder, doms, children>>

DfEndBlock ==
    /\ pc = "df"
    /\ cursor.preds = <<>>
    /\ \/ /\ cursor.i + 1 < Count
          /\ cursor' = [cursor EXCEPT !.i = @ + 1,
                                      !.preds = block_predecessor(ir, BlockNo(cursor.i + 1))]
          /\ UNCHANGED pc
       \/ /\ cursor.i + 1 = Count
          /\ pc' = "ssa"
          /\ UNCHANGED cursor
    /\ UNCHANGED <<visit, number, seen, postorder, doms, children, df>>

\* The analyses only read the IR.
Next ==
    /\ \/ VisitEntry \/ VisitSuccessor \/ VisitLeave
       \/ BeginBlock \/ NextPredecessor \/ IntersectStep \/ EndBlock
       \/ BuildTree \/ DfPredecessor \/ RunnerStep \/ DfEndBlock
    /\ UNCHANGED <<ir, entry>>

-----------------------------------------------------------------------------
\* Where the two analyses start, on any graph whose edges agree around the
\* entry; the graphs of the runs are such graphs.
StartAnalysis ==
    /\ Len(ir.block) \in Nat /\ Blocks(ir) = 1..Len(ir.block)
    /\ \E R \in SUBSET Blocks(ir) : entry \in R /\ EdgesAgree(ir, R)
    /\ pc = "dominators"
    /\ InitDominators

\* The two analyses alone.
AnalysisSpec == StartAnalysis /\ [][Next]_vars

\* The two analyses on a graph such as ir_creation makes.
StartOrdered ==
    /\ Len(ir.block) \in Nat /\ Blocks(ir) = 1..Len(ir.block)
    /\ FirstPredecessorDominates(ir, entry)
    /\ pc = "dominators"
    /\ InitDominators

OrderedSpec == StartOrdered /\ [][Next]_vars

\* What the algorithm needs of its input, although nothing checks it: the
\* entry has no predecessors, every predecessor of a numbered block is
\* numbered, and the first one comes before the block in reverse postorder.
Analysable ==
    /\ block_predecessor(ir, entry) = <<>>
    /\ \A b \in seen \ {entry} :
          LET preds == block_predecessor(ir, b)
          IN  /\ ToSet(preds) \subseteq seen
              /\ preds # <<>>
              /\ number[Head(preds)] > number[b]

\* Blocks reachable from the entry when block d is taken out: the least set
\* with the entry that successors do not lead out of, other than to d.
ReachableAvoiding(d) ==
    {b \in Blocks(ir) : \A R \in SUBSET Blocks(ir) :
        {entry} \ {d} \subseteq R /\ SuccessorsOf(ir, R) \ {d} \subseteq R => b \in R}

\* d dominates b: every path from the entry to b goes through d.
Dominates(d, b) == d = b \/ b \notin ReachableAvoiding(d)

StrictlyDominates(d, b) == d # b /\ Dominates(d, b)

\* dominators_getIDom returns the closest strict dominator of every reachable
\* block but the entry, which is its own.
IDomIsClosest ==
    (pc = "tree" /\ Analysable) =>
        /\ dominators_getIDom(entry) = entry
        /\ \A b \in seen \ {entry} :
              LET d == dominators_getIDom(b)
              IN  /\ StrictlyDominates(d, b)
                  /\ \A s \in seen : StrictlyDominates(s, b) => Dominates(s, d)

\* domfrontiers_get lists the dominance frontier of a block: the blocks it
\* does not strictly dominate that have a predecessor it dominates.
FrontierIsExact ==
    (pc = "ssa" /\ Analysable) =>
        \A b \in seen :
            ToSet(df[b]) = {y \in seen : /\ ~StrictlyDominates(b, y)
                                         /\ \E p \in ToSet(block_predecessor(ir, y)) : Dominates(b, p)}

\* On such an input both computations come to an end.
Terminates == (pc = "sweep" /\ Analysable) ~> (pc = "ssa")
=============================================================================
