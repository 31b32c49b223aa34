-------------------------- MODULE ExpressionParser --------------------------
(***************************************************************************)
(* The expressions of parser.c with the tokenizer: one call of               *)
(* parser_parseExpression.  The mutually recursive functions are a stack:    *)
(* one frame per parenthesis level, holding the parser_parseBinary calls in  *)
(* progress there.  The source text is chosen lexeme by lexeme as it is read.*)
(*                                                                          *)
(* AST nodes are indices into heap, so that the pointer assignments of the   *)
(* tree rotation are what they are in the code; 0 is NULL.                   *)
(***************************************************************************)
EXTENDS Integers, Sequences, SequencesExt

CONSTANTS Lexemes,     \* what an expression and what follows it is made of
          MaxSource,   \* bound on the operands and operators of an expression
          MaxDepth     \* bound on the nesting of parentheses

VARIABLES heap,      \* AST nodes
          stack,     \* parenthesis levels, innermost first
          mode,      \* what the innermost level does next
          hasPrefix, \* parser_readAtomInternal has read a sign: "", "+" or "-"
          peek,      \* parser->peek, "" when hasPeek is 0
          stuck,     \* the tokenizer stands before a lexeme it does not pass
          error,     \* parser->error is set
          result,    \* what parser_parseBinary returns
          bounds,    \* the lexemes of the text, and the bound on an expression in it
          source,    \* history: its operands and operators so far
          levels     \* history: its finished levels

expressionVars == <<heap, stack, mode, hasPrefix, peek, stuck, error, result, bounds, source, levels>>

-----------------------------------------------------------------------------
\* token_next by lexeme.  '>' falls through into the case of '<', which
\* replaces the type; that case does not advance past its own character, so
\* the next token is the same again.
TokenType ==
    [one    |-> "TK_NUMBER",     a    |-> "TK_ID",
     plus   |-> "TK_PLUS",       mul  |-> "TK_MUL",
     minus  |-> "TK_MINUS",      div  |-> "TK_DIV",
     eq     |-> "TK_EQUALS",
     gt     |-> "TK_LESS_THAN",  ge   |-> "TK_LESS_EQ",
     lt     |-> "TK_LESS_THAN",  le   |-> "TK_LESS_THAN",
     open   |-> "TK_PARAN_OPEN", close |-> "TK_PARAN_CLOSE",
     assign |-> "TK_ASSIGN",     semi |-> "TK_SEMI_COLON",
     curlyOpen |-> "TK_CURLY_OPEN", curlyClose |-> "TK_CURLY_CLOSE",
     int64  |-> "TK_KW_INT64",   void |-> "TK_KW_VOID",
     if     |-> "TK_KW_IF",      while |-> "TK_KW_WHILE",
     else   |-> "TK_KW_ELSE",    return |-> "TK_KW_RETURN",
     bad    |-> "TK_ERROR",      eof  |-> "TK_EEOF"]

NotPassed == {"lt", "le", "bad", "eof"}

getPresedence(type) ==
    CASE type \in {"TK_GREATER", "TK_GREATER_EQ", "TK_LESS_THAN", "TK_LESS_EQ", "TK_EQUALS"} -> 3
      [] type \in {"TK_PLUS", "TK_MINUS"} -> 4
      [] type \in {"TK_MUL", "TK_DIV"} -> 5
      [] OTHER -> -1

\* What parser_next and parser_peekToken may find: the token that is peeked, the
\* one the tokenizer does not pass, or any other.
Tokens == IF peek # "" THEN {peek} ELSE IF stuck # "" THEN {stuck} ELSE bounds.lexemes

Continues(l) == l \in {"one", "a", "open"} \/ getPresedence(TokenType[l]) # -1

Reads(l) ==
    /\ Continues(l) => l = stuck \/ Len(source) < bounds.limit
    /\ stuck' = IF l \in NotPassed THEN l ELSE stuck

-----------------------------------------------------------------------------
\* A level: the left operand so far, the operator whose right operand is being
\* read, opPrec of the parser_parseBinary calls, the sign before the parenthesis,
\* and, for the record, the precedences of all operators.
Level(outerPrefix) == [left |-> 0, op |-> "", precs |-> <<>>, prefix |-> outerPrefix, ops |-> <<>>]

\* parser_init, and the call of a function that starts in state m.
ParserInit(m, lexemes, limit) ==
    /\ heap = <<>>
    /\ stack = <<Level("")>>
    /\ mode = m
    /\ hasPrefix = "" /\ peek = "" /\ stuck = ""
    /\ error = FALSE
    /\ result = 0
    /\ bounds = [lexemes |-> lexemes, limit |-> limit]
    /\ source = <<>>
    /\ levels = {}

ExpressionInit == ParserInit("atom", Lexemes, MaxSource)

BinaryExp(op, left, right) == [type |-> "BINARY_EXP", op |-> op, left |-> left, right |-> right]
Leaf(type) == [type |-> type, op |-> "", left |-> 0, right |-> 0]

\* parser_readAtom has returned node (0: NULL) to level s[1]: it is the first
\* atom of parser_parseExpression, or the right operand in parser_parseBinary,
\* where NULL is returned at once, through all parser_parseBinary calls.
Operand(nodes, s, node) ==
    LET top == Head(s)
    IN  \/ /\ top.op = ""
           /\ heap' = nodes
           /\ stack' = <<[top EXCEPT !.left = node]>> \o Tail(s)
           /\ mode' = "operator"
           /\ UNCHANGED result
        \/ /\ top.op # ""
           /\ node # 0
           /\ heap' = Append(nodes, BinaryExp(top.op, top.left, node))
           /\ stack' = <<[top EXCEPT !.left = Len(nodes) + 1, !.op = ""]>> \o Tail(s)
           /\ mode' = "operator"
           /\ UNCHANGED result
        \/ /\ top.op # ""
           /\ node = 0
           /\ heap' = nodes
           /\ stack' = <<[top EXCEPT !.precs = <<>>, !.op = ""]>> \o Tail(s)
           /\ mode' = "return"
           /\ result' = 0

Undefined == /\ mode' = "undefined"
             /\ UNCHANGED <<heap, stack, hasPrefix, peek, error, result, source, levels>>

ReadPrefix(l) ==
    /\ mode = "atom"
    /\ Reads(l)
    /\ hasPrefix = "" /\ l \in {"minus", "plus"}
    /\ hasPrefix' = IF l = "plus" THEN "+" ELSE "-"
    /\ peek' = ""
    /\ UNCHANGED <<heap, stack, mode, error, result, source, levels>>

\* A '-' negates the num field of the node; in a variable, that is a part of
\* its name.
ReadLeaf(l) ==
    /\ mode = "atom"
    /\ Reads(l)
    /\ l \in {"one", "a"}
    /\ \/ /\ l = "one" \/ hasPrefix # "-"
          /\ Operand(Append(heap, Leaf(TokenType[l])), stack, Len(heap) + 1)
          /\ source' = Append(source, l)
          /\ hasPrefix' = "" /\ peek' = ""
          /\ UNCHANGED <<error, levels>>
       \/ l = "a" /\ hasPrefix = "-" /\ Undefined

ReadOpen(l) ==
    /\ mode = "atom"
    /\ Reads(l)
    /\ l = "open"
    /\ Len(stack) <= MaxDepth
    /\ stack' = <<Level(hasPrefix)>> \o stack
    /\ hasPrefix' = "" /\ peek' = ""
    /\ UNCHANGED <<heap, mode, error, result, source, levels>>

\* For any other token parser_readAtomInternal returns without a value.
ReadOther(l) ==
    /\ mode = "atom"
    /\ Reads(l)
    /\ l \notin {"one", "a", "open"}
    /\ hasPrefix # "" \/ l \notin {"minus", "plus"}
    /\ Undefined

\* parser_parseBinary: an operator starts another call, anything else is left
\* for the caller.
ReadOperator(l) ==
    LET type == TokenType[l]
        top == Head(stack)
    IN  /\ mode = "operator"
        /\ Reads(l)
        /\ \/ /\ getPresedence(type) # -1
              /\ stack' = <<[top EXCEPT !.op = type,
                                        !.precs = Append(@, getPresedence(type)),
                                        !.ops = Append(@, getPresedence(type))]>> \o Tail(stack)
              /\ source' = Append(source, l)
              /\ peek' = ""
              /\ mode' = "atom"
              /\ UNCHANGED result
           \/ /\ getPresedence(type) = -1
              /\ peek' = l
              /\ result' = top.left
              /\ mode' = "return"
              /\ UNCHANGED <<stack, source>>
        /\ UNCHANGED <<heap, hasPrefix, error, levels>>

-----------------------------------------------------------------------------
\* Mutant: the operands of the old root change sides.
RotateExchanged(nodes, root) ==
    LET left == nodes[root].left
    IN  [nodes EXCEPT ![left].right = root, ![root].left = nodes[root].right, ![root].right = nodes[left].right]

\* The right rotation: the left child becomes the root.
Rotate(nodes, root) ==
    LET left == nodes[root].left
    IN  [nodes EXCEPT ![left].right = root, ![root].left = nodes[left].right]

\* Mutant: operators of the same precedence are rotated too.
NeedsRotationOrEqual(nodes, root, opPrec) ==
    nodes[nodes[root].left].type = "BINARY_EXP" /\ getPresedence(nodes[root].op) >= opPrec

NeedsRotation(nodes, root, opPrec) ==
    nodes[nodes[root].left].type = "BINARY_EXP" /\ getPresedence(nodes[root].op) > opPrec

\* A parser_parseBinary call goes on after its recursive call has returned.
ReturnBinary ==
    LET top == Head(stack)
        popped == <<[top EXCEPT !.precs = Front(@)]>> \o Tail(stack)
    IN  /\ mode = "return"
        /\ top.precs # <<>>
        /\ \/ /\ heap[result].left # 0
              /\ NeedsRotation(heap, result, Last(top.precs))
              /\ heap' = Rotate(heap, result)
              /\ result' = heap[result].left
              /\ stack' = popped
              /\ UNCHANGED <<mode, hasPrefix, peek, stuck, error, source, levels>>
           \/ /\ heap[result].left # 0
              /\ ~NeedsRotation(heap, result, Last(top.precs))
              /\ stack' = popped
              /\ UNCHANGED <<heap, mode, hasPrefix, peek, stuck, error, result, source, levels>>
           \/ heap[result].left = 0 /\ Undefined /\ UNCHANGED stuck

\* The nodes under root, from left to right.
InOrder(nodes, root) ==
    LET walk[n \in 0..Len(nodes)] ==
            IF n = 0 THEN <<>>
            ELSE IF nodes[n].type # "BINARY_EXP" THEN <<n>>
            ELSE walk[nodes[n].left] \o <<n>> \o walk[nodes[n].right]
    IN  walk[root]

Numbers == {n \in DOMAIN heap : heap[n].type = "TK_NUMBER"}

FinishedLevel == [root |-> result, ops |-> Head(stack).ops, order |-> InOrder(heap, result)]

\* parser_parseExpression returns to parser_readAtomInternal, which expects a
\* parenthesis and returns NULL if there is none, and then to the level around
\* it; a '-' before the parenthesis negates a part of the node.
ReturnToAtom(l) ==
    LET outer == Tail(stack)
        closed == l = "close"
        node == IF closed THEN result ELSE 0
        corrupted == Head(stack).prefix = "-" /\ node \notin Numbers
    IN  /\ mode = "return"
        /\ Head(stack).precs = <<>>
        /\ outer # <<>>
        /\ Reads(l)
        /\ \/ /\ ~corrupted
              /\ Operand(heap, outer, node)
              /\ error' = (error \/ ~closed)
              /\ peek' = ""
              /\ levels' = levels \cup {FinishedLevel}
              /\ UNCHANGED <<hasPrefix, source>>
           \/ corrupted /\ Undefined

Return ==
    /\ mode = "return"
    /\ Head(stack).precs = <<>>
    /\ Tail(stack) = <<>>
    /\ mode' = "done"
    /\ levels' = levels \cup {FinishedLevel}
    /\ UNCHANGED <<heap, stack, hasPrefix, peek, stuck, error, result, source>>

ExpressionNext ==
    /\ \/ \E l \in Tokens : \/ ReadPrefix(l) \/ ReadLeaf(l) \/ ReadOpen(l) \/ ReadOther(l)
                             \/ ReadOperator(l) \/ ReturnToAtom(l)
       \/ ReturnBinary \/ Return
    /\ UNCHANGED bounds

ExpressionSpec == ExpressionInit /\ [][ExpressionNext]_expressionVars

-----------------------------------------------------------------------------
Parsed == mode = "done" /\ ~error

TokenOf(n) == IF heap[n].type = "BINARY_EXP" THEN heap[n].op ELSE heap[n].type

\* Building and rotating the tree keeps the text: read from left to right the
\* tree is the token sequence, nothing is lost, doubled or moved, and what was
\* in parentheses stays together as one subtree.
TextKept ==
    Parsed =>
        /\ LET order == InOrder(heap, result)
           IN  [i \in DOMAIN order |-> TokenOf(order[i])] = [i \in DOMAIN source |-> TokenType[source[i]]]
        /\ \A l \in levels : InOrder(heap, l.root) = l.order

Grouped == {l.root : l \in levels}

Binds(n) == getPresedence(heap[n].op)

\* The tree groups by precedence, and from left to right where it is equal: a
\* left operand without parentheses does not bind less, a right one binds more.
GroupsByPrecedence ==
    \A n \in ToSet(InOrder(heap, result)) : heap[n].type = "BINARY_EXP" =>
        LET free(c) == heap[c].type = "BINARY_EXP" /\ c \notin Grouped
        IN  /\ free(heap[n].left) => Binds(heap[n].left) >= Binds(n)
            /\ free(heap[n].right) => Binds(heap[n].right) > Binds(n)

\* The operators never bind more than the one before, up to a point from where
\* each one does: * / + -, + *, - * + *, > + *.
RisesOnlyAtEnd(precs) ==
    \E m \in 0..Len(precs) :
        /\ \A i \in 1..(m - 1) : precs[i] >= precs[i + 1]
        /\ \A i \in (IF m = 0 THEN 1 ELSE m)..(Len(precs) - 1) : precs[i] < precs[i + 1]

\* One rotation per operator (parser_parseBinary) is enough for such operators.
PrecedenceIfRisesAtEnd ==
    (Parsed /\ \A l \in levels : RisesOnlyAtEnd(l.ops)) => GroupsByPrecedence

\* "We fix the operator precedence with a right tree rotation."
PrecedenceAlways == Parsed => GroupsByPrecedence
=============================================================================
