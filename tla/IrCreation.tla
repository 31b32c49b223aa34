----------------------------- MODULE IrCreation -----------------------------
(***************************************************************************)
(* ir_creation.c: from the AST of one function to IR that is not in SSA     *)
(* form.  create_block and create_statement call each other; here the call  *)
(* stack is the variable frames and every statement is one step, so that    *)
(* the program being compiled is chosen statement by statement.             *)
(*                                                                          *)
(* An expression is its nodes in the order create_value finishes them       *)
(* (postorder): <<"NUMBER">>, <<"VARIABLE", name>> and <<"BINARY_EXP">>.    *)
(***************************************************************************)
EXTENDS IR

CONSTANTS Names,          \* variable names the program may use
          DataTypes,      \* the types it may declare: subset of {"INT64", "VOID"}
          Statements,     \* the kinds of statement allowed first, second, ...
          Expressions,    \* right-hand sides, in postorder
          Conditions,     \* conditions of if and while, in postorder
          MaxDepth        \* bound on the nesting of blocks

Nodes == {<<"NUMBER">>, <<"BINARY_EXP">>} \cup {<<"VARIABLE", x>> : x \in Names}

\* A sequence of nodes is the postorder of a tree: height values are waiting
\* after each node, two or more before a binary expression, and one at the end.
IsExpression(e) ==
    /\ e \in Seq(Nodes)
    /\ \E height \in [0..Len(e) -> 0..Len(e)] :
          /\ height[0] = 0
          /\ height[Len(e)] = 1
          /\ \A n \in 1..Len(e) :
                IF e[n] = <<"BINARY_EXP">> THEN height[n - 1] > 1 /\ height[n] = height[n - 1] - 1
                ELSE height[n] = height[n - 1] + 1

ASSUME ExpressionsAssumption == \A e \in Expressions \cup Conditions : IsExpression(e)

ASSUME DataTypesAssumption == DataTypes \subseteq {"INT64", "VOID"}

VARIABLES ir,        \* the IR context
          entry,     \* function_t.entry, 0 until the function is finished
          pc,        \* "create", "abort" (a failed assert), or what runs next
          block,     \* ir_creator.block: where instructions go
          scopes,    \* ir_creator.blockInfo: variable maps, innermost first
          frames,    \* the create_block calls in progress, innermost first
          regCount,  \* ir_creator.regCount
          statements \* how many statements were chosen so far

creationVars == <<ir, entry, pc, block, scopes, frames, regCount, statements>>

-----------------------------------------------------------------------------
\* _findReg looks from the innermost scope outwards and asserts that it finds
\* the name: Declared is that assert.
Declared(maps, x) == \E k \in DOMAIN maps : x \in DOMAIN maps[k]

_findReg(maps, x) ==
    LET k == CHOOSE n \in DOMAIN maps :
                x \in DOMAIN maps[n] /\ \A m \in 1..(n - 1) : x \notin DOMAIN maps[m]
    IN  maps[k][x]

\* create_value (create_number, create_variable, create_binary): each node
\* leaves its value on a stack; ok is FALSE after a failed assert.
CreateNode(maps, b, acc, node) ==
    CASE ~acc.ok -> acc
      [] acc.ok /\ node[1] = "NUMBER" ->
            [acc EXCEPT !.ir = ir_constant_value(@),
                        !.stack = Append(@, ConstValue(acc.ir.consts + 1))]
      [] acc.ok /\ node[1] = "VARIABLE" ->
            IF ~Declared(maps, node[2]) THEN [acc EXCEPT !.ok = FALSE]
            ELSE LET var == _findReg(maps, node[2])
                     i == Len(acc.ir.inst) + 1
                 IN  [acc EXCEPT !.ir = block_insert(inst_new_load_var(@, var.rId, var.dataType), b, i),
                                 !.stack = Append(@, InstValue(i))]
      [] acc.ok /\ node[1] = "BINARY_EXP" ->
            LET n == Len(acc.stack)
                left == acc.stack[n - 1]
                right == acc.stack[n]
                i == Len(acc.ir.inst) + 1
            IN  IF DataTypeOf(acc.ir, left) # DataTypeOf(acc.ir, right) THEN [acc EXCEPT !.ok = FALSE]
                ELSE [acc EXCEPT !.ir = block_insert(inst_new_binary(@, left, right), b, i),
                                 !.stack = Append(SubSeq(@, 1, n - 2), InstValue(i))]

create_value(context, maps, b, expression) ==
    LET created[n \in 0..Len(expression)] ==
            IF n = 0 THEN [ir |-> context, stack |-> <<>>, ok |-> TRUE]
            ELSE CreateNode(maps, b, created[n - 1], expression[n])
    IN  created[Len(expression)]

ValueOf(created) == created.stack[1]

\* create_assignment: the variable first, then the value, then the store.
create_assignment(context, maps, b, x, expression) ==
    IF ~Declared(maps, x) THEN [ir |-> context, ok |-> FALSE]
    ELSE LET val == create_value(context, maps, b, expression)
         IN  IF ~val.ok THEN [ir |-> context, ok |-> FALSE]
             ELSE [ir |-> block_insert(inst_new_assign_var(val.ir, _findReg(maps, x).rId, ValueOf(val)),
                                       b, Len(val.ir.inst) + 1),
                   ok |-> TRUE]

-----------------------------------------------------------------------------
\* ir_creator_init and ir_creator_createFunction up to the first statement:
\* create_block has made the entry block and an empty scope.
Init ==
    /\ ir = block_new(ir_context_init)
    /\ entry = 0
    /\ pc = "create"
    /\ block = 1
    /\ scopes = <<<<>>>>
    /\ frames = <<[kind |-> "FUNCTION", bblock |-> 1, oldBlock |-> 0]>>
    /\ regCount = 0
    /\ statements = 0

ChooseStatement(kind) ==
    /\ pc = "create"
    /\ statements < Len(Statements)
    /\ kind \in Statements[statements + 1]
    /\ statements' = statements + 1

Abort == /\ pc' = "abort"
         /\ UNCHANGED <<ir, entry, block, scopes, frames, regCount>>

\* x = expression;
Assignment(x, expression) ==
    LET made == create_assignment(ir, scopes, block, x, expression)
    IN  /\ ChooseStatement("BINARY_EXP")
        /\ \/ /\ made.ok
              /\ ir' = made.ir
              /\ UNCHANGED <<entry, pc, block, scopes, frames, regCount>>
           \/ ~made.ok /\ Abort

\* A scope with one more variable.
WithVariable(map, x, var) == [y \in DOMAIN map \cup {x} |-> IF y = x THEN var ELSE map[y]]

\* type x = expression;   _createReg comes first, so the initial value
\* already sees the new variable.
Declaration(x, dataType, expression) ==
    LET maps == Cons(WithVariable(Head(scopes), x, [rId |-> regCount, dataType |-> dataType]), Tail(scopes))
        made == create_assignment(ir, maps, block, x, expression)
    IN  /\ ChooseStatement("DECLARATION")
        /\ \/ /\ x \notin DOMAIN Head(scopes)
              /\ made.ok
              /\ ir' = made.ir
              /\ scopes' = maps
              /\ regCount' = regCount + 1
              /\ UNCHANGED <<entry, pc, block, frames>>
           \/ (x \in DOMAIN Head(scopes) \/ ~made.ok) /\ Abort

Return ==
    /\ ChooseStatement("RETURN")
    /\ ir' = block_insert(inst_new_return(ir), block, Len(ir.inst) + 1)
    /\ UNCHANGED <<entry, pc, block, scopes, frames, regCount>>

\* create_block up to its first statement.
EnterBlock(context, frame) ==
    /\ ir' = block_new(context)
    /\ frames' = Cons(frame, frames)
    /\ scopes' = Cons(<<>>, scopes)
    /\ block' = frame.bblock
    /\ UNCHANGED <<entry, pc, regCount>>

\* if (condition): the condition is computed where the if stands.
If(condition) ==
    LET cond == create_value(ir, scopes, block, condition)
    IN  /\ ChooseStatement("IF")
        /\ Len(frames) <= MaxDepth
        /\ \/ cond.ok /\ EnterBlock(cond.ir, [kind |-> "IF", cond |-> ValueOf(cond),
                                             bblock |-> Len(cond.ir.block) + 1, oldBlock |-> block])
           \/ ~cond.ok /\ Abort

\* Mutant: no jump into the loop.
WhileNotEntered(condition) ==
    /\ ChooseStatement("WHILE")
    /\ Len(frames) <= MaxDepth
    /\ EnterBlock(block_new(ir), [kind |-> "WHILE", head |-> Len(ir.block) + 1, condition |-> condition,
                                  bblock |-> Len(ir.block) + 2, oldBlock |-> block])

\* while (condition): a block for the condition, and the jump to it.
While(condition) ==
    LET head == Len(ir.block) + 1
        made == block_new(ir)
        jumped == block_insert(inst_new_jump(made, head), block, Len(made.inst) + 1)
    IN  /\ ChooseStatement("WHILE")
        /\ Len(frames) <= MaxDepth
        /\ EnterBlock(jumped, [kind |-> "WHILE", head |-> head, condition |-> condition,
                               bblock |-> Len(jumped.block) + 1, oldBlock |-> block])

-----------------------------------------------------------------------------
\* What create_statement does once create_block of the body has returned; the
\* result holds the IR and the block where the statements after it go.

\* Mutant: later statements go on in the block of the if.
FinishIfInPlace(frame, last) ==
    LET rest == Len(ir.block) + 1
        r1 == block_new(ir)
        r2 == inst_new_jump_cond(r1, frame.bblock, rest, frame.cond)
        r3 == block_insert(r2, frame.oldBlock, Len(r2.inst))
        r4 == inst_new_jump(r3, rest)
    IN  [ir |-> block_insert(r4, last, Len(r4.inst)), block |-> frame.oldBlock, ok |-> TRUE]

FinishIf(frame, last) ==
    LET rest == Len(ir.block) + 1
        r1 == block_new(ir)
        r2 == inst_new_jump_cond(r1, frame.bblock, rest, frame.cond)
        r3 == block_insert(r2, frame.oldBlock, Len(r2.inst))
        r4 == inst_new_jump(r3, rest)
    IN  [ir |-> block_insert(r4, last, Len(r4.inst)), block |-> rest, ok |-> TRUE]

\* The jump back is put at the end of the first block of the body.
FinishWhile(frame, last, maps) ==
    LET r1 == inst_new_jump(ir, frame.head)
        r2 == block_insert(r1, frame.bblock, Len(r1.inst))
        exit == Len(r2.block) + 1
        cond == create_value(block_new(r2), maps, frame.head, frame.condition)
        r3 == inst_new_jump_cond(cond.ir, frame.bblock, exit, ValueOf(cond))
    IN  IF ~cond.ok THEN [ir |-> ir, block |-> block, ok |-> FALSE]
        ELSE [ir |-> block_insert(r3, frame.head, Len(r3.inst)), block |-> exit, ok |-> TRUE]

\* Mutant: the variables of a block stay visible after it.
ScopeLeaks(maps) == maps

\* create_block returns: ir_creator.blockInfo is the enclosing one again.
LeaveScope(maps) == Tail(maps)

\* The end of a block: its scope is gone before the statement is finished.
EndBlock ==
    LET frame == Head(frames)
        done == IF frame.kind = "IF" THEN FinishIf(frame, block)
                ELSE FinishWhile(frame, block, LeaveScope(scopes))
    IN  /\ pc = "create"
        /\ frame.kind \in {"IF", "WHILE"}
        /\ \/ /\ done.ok
              /\ ir' = done.ir
              /\ block' = done.block
              /\ scopes' = LeaveScope(scopes)
              /\ frames' = Tail(frames)
              /\ UNCHANGED <<entry, pc, regCount, statements>>
           \/ ~done.ok /\ Abort /\ UNCHANGED statements

\* The end of the function body: createFunction sets the entry and returns.
EndFunction ==
    /\ pc = "create"
    /\ Head(frames).kind = "FUNCTION"
    /\ entry' = Head(frames).bblock
    /\ block' = Head(frames).oldBlock
    /\ scopes' = LeaveScope(scopes)
    /\ frames' = Tail(frames)
    /\ pc' = "dominators"
    /\ UNCHANGED <<ir, regCount, statements>>

Next ==
    \/ \E x \in Names, e \in Expressions : Assignment(x, e)
    \/ \E x \in Names, t \in DataTypes, e \in Expressions : Declaration(x, t, e)
    \/ Return
    \/ \E c \in Conditions : If(c)
    \/ \E c \in Conditions : While(c)
    \/ EndBlock
    \/ EndFunction

Spec == Init /\ [][Next]_creationVars

-----------------------------------------------------------------------------
Created == pc \notin {"create", "abort"}

\* ir.h: "A block, can only contain a jump at the end", so that the last
\* instruction, the only one block_successor looks at, tells where a block goes.
JumpsOnlyAtEnd ==
    Created => \A b \in Blocks(ir) : \A k \in 1..(Len(ir.block[b]) - 1) :
                  ir.inst[ir.block[b][k]].type \notin Terminators

\* Block b is the body of a loop: it ends in the jump to a head that branches to b.
IsLoopBody(b) ==
    \E head \in ToSet(block_successor(ir, b)) :
        /\ ir.inst[Last(ir.block[b])].type = "INST_JUMP"
        /\ Head(block_successor(ir, head)) = b

\* As far as create_statement keeps that rule: a jump is followed only by the
\* jump back to the head of a loop, in the first block of its body; anything
\* may follow a return.
JumpsTwiceOnlyInLoopBody ==
    Created => \A b \in Blocks(ir) : \A k \in 1..(Len(ir.block[b]) - 1) :
                  ir.inst[ir.block[b][k]].type \in Terminators \ {"INST_RETURN"} =>
                      k = Len(ir.block[b]) - 1 /\ IsLoopBody(b)

\* create_statement chains the blocks it makes, unless a loop body consists of
\* several blocks or something follows a return: no block is lost, and the only
\* block without a jump is the one where the function ends.
EveryBlockConnected ==
    (Created /\ JumpsOnlyAtEnd) =>
        /\ ReachableFrom(ir, entry) = Blocks(ir)
        /\ \E end \in Blocks(ir) : \A b \in Blocks(ir) :
              (block_successor(ir, b) = <<>>) <=> (b = end)

\* Blocks whose start can be reached from the entry without an assignment to
\* register r on the way.
AssignFree(r) ==
    LET Assigns(b) == \E k \in DOMAIN ir.block[b] :
                         LET i == ir.inst[ir.block[b][k]]
                         IN  i.type = "INST_ASSIGN_VAR" /\ i.rId = r
    IN  Closure(LAMBDA R : SuccessorsOf(ir, {b \in R : ~Assigns(b)}), {entry}, Len(ir.block))

\* The value of load i goes into the first assignment of its own register:
\* the initial value of a declaration that mentions the declared variable.
OwnInitialiser(i) ==
    LET assigns == {a \in DOMAIN ir.inst :
                      ir.inst[a].type = "INST_ASSIGN_VAR" /\ ir.inst[a].rId = ir.inst[i].rId}
    IN  i < Min(assigns)

\* Scoping (_findReg, _createReg, the parent link of block_info) keeps a
\* variable within reach of its declaration only: on every path of the CFG a
\* register is assigned before it is loaded, except by "int64 a = a;".
AssignedBeforeLoad ==
    Created => \A b \in Blocks(ir) : \A k \in DOMAIN ir.block[b] :
        LET i == ir.block[b][k]
            r == ir.inst[i].rId
        IN  ir.inst[i].type = "INST_LOAD_VAR" =>
              \/ b \notin AssignFree(r)
              \/ \E j \in 1..(k - 1) : LET a == ir.inst[ir.block[b][j]]
                                      IN  a.type = "INST_ASSIGN_VAR" /\ a.rId = r
              \/ OwnInitialiser(i)
=============================================================================
