------------------------------- MODULE Parser -------------------------------
(***************************************************************************)
(* The statements of parser.c, on top of its expressions.  The functions    *)
(* that call each other are a stack of frames, innermost first; a frame says *)
(* which function it is, where it goes on and what it has so far.  Each step  *)
(* reads at most one token.                                                  *)
(*                                                                          *)
(* mode, beside its values in ExpressionParser, is "call" while the function *)
(* of the innermost frame runs, and "returned" when it gets the result of    *)
(* the function it has called; an expression comes back as "done".           *)
(***************************************************************************)
EXTENDS ExpressionParser

CONSTANTS Entries,              \* the functions that are called from outside
          MaxText,              \* bound on the tokens outside of expressions
          StatementLexemes,     \* Lexemes and MaxSource for statements
          MaxStatementSource,
          BlockRoom             \* how many pointers the buffer of parser_parseBlock holds

ASSUME EntriesAssumption == Entries \subseteq {"expression", "block", "function", "module"}

VARIABLES entry,   \* the function that was called
          calls,   \* the frames
          text     \* history: the tokens that were taken, an expression as "exp"

vars == <<expressionVars, entry, calls, text>>

Frame(fn, at) == [fn |-> fn, at |-> at, dataType |-> "", condition |-> 0, childs |-> <<>>]

Init ==
    /\ entry \in Entries
    /\ IF entry = "expression" THEN ExpressionInit /\ calls = <<>>
       ELSE ParserInit("call", StatementLexemes, MaxStatementSource) /\ calls = <<Frame(entry, "start")>>
    /\ text = <<>>

-----------------------------------------------------------------------------
\* parser_next and parser_peekToken, outside of an expression.
StatementToken(l) ==
    /\ l \in {peek, stuck, "eof"} \/ Len(text) < MaxText
    /\ stuck' = IF l \in NotPassed THEN l ELSE stuck

Takes(l) == StatementToken(l) /\ peek' = ""
Peeks(l) == StatementToken(l) /\ peek' = l

At(m, fns, at) == mode = m /\ calls # <<>> /\ Head(calls).fn \in fns /\ Head(calls).at = at

NoExpression == UNCHANGED <<stack, hasPrefix, source, levels>>

CallExpression ==
    /\ mode' = "atom"
    /\ stack' = <<Level("")>>
    /\ hasPrefix' = "" /\ source' = <<>> /\ levels' = {}
    /\ UNCHANGED result

\* The innermost function goes on as frame f, or calls another one.
GoesOn(f) == calls' = <<f>> \o Tail(calls) /\ mode' = "call" /\ UNCHANGED result
CallsFrom(f, fn) == calls' = <<Frame(fn, "start"), f>> \o Tail(calls) /\ mode' = "call" /\ UNCHANGED result

\* return node, and parser->error = ...; return NULL
Returns(node) == calls' = Tail(calls) /\ mode' = "returned" /\ result' = node
Fails == Returns(0) /\ error' = TRUE

\* Allocates the nodes and returns the last of them.
ReturnsNew(nodes) == heap' = heap \o nodes /\ Returns(Len(heap) + Len(nodes)) /\ UNCHANGED error

Top == Head(calls)
GoTo(at) == [Top EXCEPT !.at = at]

-----------------------------------------------------------------------------
_isDataType == {"int64", "void"}

\* The functions parser_parseStatement chooses from; each takes the token first.
Starts == [int64 |-> Frame("declaration", "name"), void |-> Frame("declaration", "name"),
           if |-> Frame("if", "open"), while |-> Frame("while", "open"),
           return |-> Frame("return", "semi"), a |-> Frame("assignment", "assign")]

parser_parseStatement(l) ==
    /\ At("call", {"statement"}, "start")
    /\ \/ /\ l \in DOMAIN Starts
          /\ Takes(l)
          /\ text' = Append(text, l)
          /\ GoesOn([Starts[l] EXCEPT !.dataType = l])
          /\ UNCHANGED error
       \/ l \notin DOMAIN Starts /\ Peeks(l) /\ Fails /\ UNCHANGED text
    /\ NoExpression /\ UNCHANGED heap

\* A token where one of another type may be accepted.
Seen(l, wanted) == IF l = wanted THEN l ELSE "other"

\* Any token is taken for the name: the check assigns the type it should compare.
DeclarationName(l) ==
    /\ At("call", {"declaration"}, "name")
    /\ Takes(l)
    /\ text' = Append(text, Seen(l, "a"))
    /\ GoesOn(GoTo("assign"))
    /\ NoExpression /\ UNCHANGED <<heap, error>>

\* Mutant: the error is not set.
NotAssignmentSilent == Returns(0) /\ UNCHANGED error

\* parser_parseAssignmentOrCall on a token that is no '='.
NotAssignment == Fails

\* parser_parseAssignment takes one token; only parser_parseAssignmentOrCall
\* has looked at it.
parser_parseAssignment(l) ==
    /\ At("call", {"declaration", "assignment"}, "assign")
    /\ \/ /\ Top.fn = "declaration" \/ l = "assign"
          /\ Takes(l)
          /\ text' = Append(text, Seen(l, "assign"))
          /\ calls' = <<GoTo("value")>> \o Tail(calls)
          /\ CallExpression
          /\ UNCHANGED error
       \/ /\ Top.fn = "assignment" /\ l # "assign"
          /\ Peeks(l) /\ NotAssignment
          /\ NoExpression /\ UNCHANGED text
    /\ UNCHANGED heap

Assignment(variable, value) == BinaryExp("TK_ASSIGN", variable, value)
Declaration(dataType, assignment) == [type |-> "DECLARATION", dataType |-> dataType, assignment |-> assignment]

\* The nodes of the statement whose value is the result.
AssignmentNodes ==
    LET n == Len(heap)
    IN  <<Leaf("TK_ID"), Assignment(n + 1, result)>>
            \o (IF Top.fn = "declaration" THEN <<Declaration(Top.dataType, n + 2)>> ELSE <<>>)

\* The semicolon.  Without a value, a declaration does not come to it
\* (ExpressionFails), and an assignment takes a token all the same.
AssignmentEnds(l) ==
    /\ At("done", {"declaration", "assignment"}, "value")
    /\ result # 0 \/ Top.fn = "assignment"
    /\ Takes(l)
    /\ text' = text \o <<"exp", l>>
    /\ \/ l = "semi" /\ result # 0 /\ ReturnsNew(AssignmentNodes)
       \/ l = "semi" /\ result = 0 /\ Returns(0) /\ UNCHANGED <<heap, error>>
       \/ l # "semi" /\ Fails /\ UNCHANGED heap
    /\ NoExpression

\* parser_check_silent on the value of a declaration or on a condition.
ExpressionFails ==
    /\ At("done", {"declaration"}, "value") \/ At("done", {"if", "while"}, "condition")
    /\ result = 0
    /\ Returns(0)
    /\ NoExpression /\ UNCHANGED <<heap, peek, stuck, error, text>>

-----------------------------------------------------------------------------
\* parser_parseIf and parser_parseWhile up to the expression.
ConditionOpens(l) ==
    /\ At("call", {"if", "while"}, "open")
    /\ Takes(l)
    /\ text' = Append(text, l)
    /\ \/ l = "open" /\ calls' = <<GoTo("condition")>> \o Tail(calls) /\ CallExpression /\ UNCHANGED error
       \/ l # "open" /\ Fails /\ NoExpression
    /\ UNCHANGED heap

ConditionEnds(l) ==
    /\ At("done", {"if", "while"}, "condition")
    /\ result # 0
    /\ Takes(l)
    /\ text' = text \o <<"exp", l>>
    /\ \/ l = "close" /\ CallsFrom([Top EXCEPT !.at = "block", !.condition = result], "block") /\ UNCHANGED error
       \/ l # "close" /\ Fails
    /\ NoExpression /\ UNCHANGED heap

If(condition, ifBlock) == [type |-> "IF", condition |-> condition, ifBlock |-> ifBlock, childCount |-> 2]
While(condition, block) == [type |-> "WHILE", condition |-> condition, block |-> block]
Function(returnType, block) == [type |-> "FUNCTION", returnType |-> returnType, childs |-> <<block>>]

\* The block has been parsed.
BlockReturned ==
    /\ At("returned", {"if", "while", "function"}, "block")
    /\ \/ result = 0 /\ Returns(0) /\ UNCHANGED <<heap, error>>
       \/ /\ result # 0
          /\ ReturnsNew(<<CASE Top.fn = "if" -> If(Top.condition, result)
                            [] Top.fn = "while" -> While(Top.condition, result)
                            [] Top.fn = "function" -> Function(Top.dataType, result)>>)
    /\ NoExpression /\ UNCHANGED <<peek, stuck, text>>

parser_parseReturn(l) ==
    /\ At("call", {"return"}, "semi")
    /\ Takes(l)
    /\ text' = Append(text, l)
    /\ \/ l = "semi" /\ ReturnsNew(<<[type |-> "RETURN"]>>)
       \/ l # "semi" /\ Fails /\ UNCHANGED heap
    /\ NoExpression

-----------------------------------------------------------------------------
Block(childs) == [type |-> "BLOCK", childs |-> childs]

\* parser_parseBlock: braces, or one statement.
BlockStarts(l) ==
    /\ At("call", {"block"}, "start")
    /\ \/ l = "curlyOpen" /\ Takes(l) /\ GoesOn(GoTo("loop")) /\ text' = Append(text, l)
       \/ l # "curlyOpen" /\ Peeks(l) /\ CallsFrom(GoTo("single"), "statement") /\ UNCHANGED text
    /\ NoExpression /\ UNCHANGED <<heap, error>>

\* Mutant: the brace is looked at and left there.
BraceLeft(l) == Peeks(l)

\* The brace that ends the loop is taken behind it.
ClosingBrace(l) == Takes(l)

BlockLoop(l) ==
    /\ At("call", {"block"}, "loop")
    /\ \/ l = "eof" /\ Peeks(l) /\ Fails /\ UNCHANGED <<heap, text>>
       \/ l = "curlyClose" /\ ClosingBrace(l) /\ ReturnsNew(<<Block(Top.childs)>>) /\ text' = Append(text, l)
       \/ /\ l \notin {"eof", "curlyClose"}
          /\ Peeks(l)
          /\ CallsFrom(Top, "statement")
          /\ UNCHANGED <<heap, error, text>>
    /\ NoExpression

\* Mutant: the loop tries a token that starts no statement again.
StatementTriedAgain ==
    IF Top.at = "loop" /\ peek \notin DOMAIN Starts \cup {"", "curlyClose"}
    THEN GoesOn(Top) /\ UNCHANGED <<heap, error>>
    ELSE Returns(0) /\ UNCHANGED <<heap, error>>

StatementFailed == Returns(0) /\ UNCHANGED <<heap, error>>

\* A statement comes back to parser_parseBlock.  Once the buffer of pointers has
\* grown, it is written behind its end by the next push (Buffer).
StatementReturned ==
    LET childs == Append(Top.childs, result)
    IN  /\ mode = "returned" /\ calls # <<>> /\ Top.fn = "block"
        /\ \/ result = 0 /\ StatementFailed
           \/ /\ result # 0 /\ Len(childs) <= BlockRoom
              /\ \/ Top.at = "loop" /\ GoesOn([Top EXCEPT !.childs = childs]) /\ UNCHANGED <<heap, error>>
                 \/ Top.at = "single" /\ ReturnsNew(<<Block(childs)>>)
           \/ /\ result # 0 /\ Len(childs) > BlockRoom
              /\ mode' = "undefined" /\ UNCHANGED <<heap, error, calls, result>>
        /\ NoExpression /\ UNCHANGED <<peek, stuck, text>>

\* parser_parseFunction up to its block: the tokens it wants, and where it goes
\* on after each.
FunctionWants == [start |-> _isDataType, name |-> {"a"}, open |-> {"open"}, close |-> {"close"}]
FunctionGoesTo == [start |-> "name", name |-> "open", open |-> "close", close |-> "block"]

parser_parseFunction(l) ==
    /\ mode = "call" /\ calls # <<>> /\ Top.fn = "function"
    /\ Takes(l)
    /\ text' = Append(text, l)
    /\ LET f == [Top EXCEPT !.at = FunctionGoesTo[@], !.dataType = IF Top.at = "start" THEN l ELSE @]
       IN  \/ /\ l \in FunctionWants[Top.at]
              /\ IF Top.at = "close" THEN CallsFrom(f, "block") ELSE GoesOn(f)
              /\ UNCHANGED error
           \/ l \notin FunctionWants[Top.at] /\ Fails
    /\ NoExpression /\ UNCHANGED heap

\* The loop has no body; at the end of the text the function returns no value.
parser_module(l) ==
    /\ At("call", {"module"}, "start")
    /\ Peeks(l)
    /\ mode' = IF l = "eof" THEN "undefined" ELSE mode
    /\ NoExpression /\ UNCHANGED <<heap, error, calls, result, text>>

-----------------------------------------------------------------------------
Finished == calls = <<>> /\ mode \in {"done", "returned"}
Ended == Finished \/ mode = "undefined"

Stopped == Ended /\ UNCHANGED vars

StatementNext ==
    \/ \E l \in Tokens :
          \/ parser_parseStatement(l) \/ DeclarationName(l) \/ parser_parseAssignment(l) \/ AssignmentEnds(l)
          \/ ConditionOpens(l) \/ ConditionEnds(l) \/ parser_parseReturn(l)
          \/ BlockStarts(l) \/ BlockLoop(l) \/ parser_parseFunction(l) \/ parser_module(l)
    \/ ExpressionFails \/ BlockReturned \/ StatementReturned

Next ==
    \/ mode \in {"atom", "operator", "return"} /\ ExpressionNext /\ UNCHANGED <<entry, calls, text>>
    \/ StatementNext /\ UNCHANGED <<bounds, entry>>
    \/ Stopped

\* The program has one thread, which does not stop before its end.
Spec == Init /\ [][Next]_vars /\ WF_vars(Next)

-----------------------------------------------------------------------------
\* Mutant: the condition of a loop is its only child.
WhileWithoutBlock(node) ==
    CASE node.type \in {"TK_NUMBER", "TK_ID"} -> <<>>
      [] node.type = "WHILE" -> <<node.condition>>
      [] node.type = "DECLARATION" -> <<node.assignment>>
      [] node.type = "BINARY_EXP" -> <<node.left, node.right>>
      [] node.type = "IF" -> SubSeq(<<node.condition, node.ifBlock, 0>>, 1, node.childCount)
      [] node.type \in {"FUNCTION", "BLOCK"} -> node.childs

\* The children of a node.  There is no case for RETURN: an assertion fails.
ast_getChilds(node) ==
    CASE node.type \in {"TK_NUMBER", "TK_ID"} -> <<>>
      [] node.type = "WHILE" -> <<node.condition, node.block>>
      [] node.type = "DECLARATION" -> <<node.assignment>>
      [] node.type = "BINARY_EXP" -> <<node.left, node.right>>
      [] node.type = "IF" -> SubSeq(<<node.condition, node.ifBlock, 0>>, 1, node.childCount)
      [] node.type \in {"FUNCTION", "BLOCK"} -> node.childs

IsReturn(n) == heap[n].type = "RETURN"

\* What ast_dump prints, in this order: a node, then its children, up to the first
\* return statement, which is printed before the assertion fails.  ast_dumpDot
\* walks in the same order and stops just before it.
ast_dump(root) ==
    LET childs(n) == IF IsReturn(n) THEN <<>> ELSE ast_getChilds(heap[n])
        visit[n \in 0..Len(heap)] == <<n>> \o FlattenSeq([i \in DOMAIN childs(n) |-> visit[childs(n)[i]]])
        all == visit[root]
        stop == SelectInSeq(all, IsReturn)
    IN  IF stop = 0 THEN all ELSE SubSeq(all, 1, stop)

\* A dump of what was parsed prints every node the parser has allocated for it,
\* once: nothing is lost or shared, through all rotations.  Exactly when the program
\* has a return statement the dump breaks off, at one.
DumpVisitsAll ==
    (Finished /\ result # 0 /\ ~error) =>
        LET printed == ast_dump(result)
        IN  /\ IsInjective(printed)
            /\ IF \E n \in DOMAIN heap : IsReturn(n) THEN IsReturn(Last(printed))
               ELSE ToSet(printed) = DOMAIN heap

\* The texts of a tree, as the grammar has them, up to the name and the '=' of a
\* declaration, where any token is accepted.
Texts(root) ==
    LET exp(n) == IF heap[n].type \in {"TK_NUMBER", "TK_ID"} \/ (heap[n].type = "BINARY_EXP" /\ heap[n].op # "TK_ASSIGN")
                  THEN "exp" ELSE "none"
        texts[n \in 0..Len(heap)] ==
            LET node == heap[n]
                joined == FoldLeft(LAMBDA acc, c : {x \o y : x \in acc, y \in texts[c]}, {<<>>}, node.childs)
            IN  CASE node.type = "BINARY_EXP" -> {<<"a", "assign", exp(node.right), "semi">>}
                  [] node.type = "DECLARATION" ->
                        {<<node.dataType, name, assign, exp(heap[node.assignment].right), "semi">> :
                            name \in {"a", "other"}, assign \in {"assign", "other"}}
                  [] node.type = "RETURN" -> {<<"return", "semi">>}
                  [] node.type = "IF" -> {<<"if", "open", exp(node.condition), "close">> \o b : b \in texts[node.ifBlock]}
                  [] node.type = "WHILE" -> {<<"while", "open", exp(node.condition), "close">> \o b : b \in texts[node.block]}
                  [] node.type = "BLOCK" -> {<<"curlyOpen">> \o b \o <<"curlyClose">> : b \in joined}
                                                \cup IF Len(node.childs) = 1 THEN joined ELSE {}
                  [] node.type = "FUNCTION" -> {<<node.returnType, "a", "open", "close">> \o b : b \in joined}
    IN  texts[root]

\* What parser_parseBlock and parser_parseFunction return is the tree of exactly
\* the text that was taken: no token is skipped, and none behind it is gone.
ProgramKept ==
    (Finished /\ result # 0 /\ ~error /\ entry # "expression") =>
        text \in Texts(result) /\ peek = ""

\* An operator whose left operand was not read.
Incomplete == \E n \in DOMAIN heap : heap[n].type = "BINARY_EXP" /\ heap[n].left = 0

\* A function that returns NULL has set the error, however deep the call was that
\* met it.  A tree comes with an error in one case: the first operand of an
\* expression has failed, the operators behind it were read all the same, and
\* the tree has no operand in its place.
FailureReported == Finished => (error <=> result = 0 \/ Incomplete)

\* Parsing ends, with a result or in undefined behaviour, also before a character
\* the tokenizer does not pass; except for parser_module, on any text but the
\* empty one.
ParsingEnds == <>(Ended \/ (entry = "module" /\ peek \notin {"", "eof"}))
=============================================================================
