----------------------------- MODULE Tokenizer -----------------------------
(***************************************************************************)
(* The tokenizer of parser.c on the level of characters, in the loop of      *)
(* token_dumpAll.  The reader is its position: what is left of the range     *)
(* starts behind pos.offset characters of the text.  ExpressionParser and    *)
(* Parser continue with lexemes.                                             *)
(***************************************************************************)
EXTENDS Integers, Sequences, SequencesExt

CONSTANTS Letters,    \* the letters in use
          Digits,     \* the digits
          Keywords,   \* the keywords that can be spelled with them, with their tokens
          OtherChars, \* the other characters in use
          INT_MAX,
          MaxText     \* bound on the length of the text

Numerals == <<"0", "1", "2", "3", "4", "5", "6", "7", "8", "9">>
DigitOf(c) == CHOOSE n \in 0..9 : Numerals[n + 1] = c
White == {" ", "\t", "\n", "\r"}

ASSUME CharsAssumption ==
    /\ INT_MAX \in Nat
    /\ Digits \subseteq ToSet(Numerals)
    /\ Letters \cap (Digits \cup OtherChars) = {} /\ Digits \cap OtherChars = {}

VARIABLES text,     \* the characters
          pos,      \* reader->pos
          token,    \* the last token
          looping   \* the loop of token_dumpAll goes on

tokenVars == <<text, pos, token, looping>>

-----------------------------------------------------------------------------
position_ingest(p, c) ==
    IF c = "\n" THEN [p EXCEPT !.offset = @ + 1, !.line = @ + 1, !.col = 0]
    ELSE [p EXCEPT !.offset = @ + 1, !.col = IF c = "\r" THEN @ ELSE @ + 1]

reader_advance(p, n) == FoldLeft(position_ingest, p, SubSeq(text, p.offset + 1, p.offset + n))

\* How many characters of a set follow.
Span(p, chars) ==
    CHOOSE n \in 0..(Len(text) - p.offset) :
        /\ \A i \in 1..n : text[p.offset + i] \in chars
        /\ p.offset + n = Len(text) \/ text[p.offset + n + 1] \notin chars

reader_skipWhite(p) == reader_advance(p, Span(p, White))

_reader_isEq(p) == p.offset < Len(text) /\ text[p.offset + 1] = "="

\* Mutant: the loop ends when the next digit could pass the limit.
LimitBeforeDigit(n, negative) == n * 10 + 9 >= INT_MAX

LimitReached(n, negative) == IF negative THEN n - 1 >= INT_MAX ELSE n >= INT_MAX

\* The conversion of long to int.
ToInt(n) == ((n + INT_MAX + 1) % (2 * (INT_MAX + 1))) - (INT_MAX + 1)

\* range_parseInt: the loop stops behind the digit with which the limit is reached.
range_parseInt(chars) ==
    LET negative == Head(chars) = "-"
        digits == IF Head(chars) \in {"-", "+"} THEN Tail(chars) ELSE chars
        read == FoldLeft(LAMBDA acc, c : IF acc.stop THEN acc
                                         ELSE LET n == acc.n * 10 + DigitOf(c)
                                              IN  [n |-> n, stop |-> LimitReached(n, negative)],
                         [n |-> 0, stop |-> FALSE], digits)
    IN  ToInt(IF negative THEN -read.n ELSE read.n)

-----------------------------------------------------------------------------
\* A token of so many characters, and the reader behind it.
Read(type, size, next) == [type |-> type, size |-> size, next |-> next]

Single == [c \in {"{", "}", "(", ")", "+", "-", "*", "/", ";"} |->
              CASE c = "{" -> "TK_CURLY_OPEN" [] c = "}" -> "TK_CURLY_CLOSE"
                [] c = "(" -> "TK_PARAN_OPEN" [] c = ")" -> "TK_PARAN_CLOSE"
                [] c = "+" -> "TK_PLUS" [] c = "-" -> "TK_MINUS" [] c = "*" -> "TK_MUL"
                [] c = "/" -> "TK_DIV" [] c = ";" -> "TK_SEMI_COLON"]

\* Mutant: the reader stays at the second =.
AssignReadTwice(p) == Read("TK_ASSIGN", 1, p)

Assign(p) ==
    LET q == reader_advance(p, 1)
    IN  IF _reader_isEq(q) THEN Read("TK_EQUALS", 2, reader_advance(q, 1)) ELSE Read("TK_ASSIGN", 1, q)

\* The case of <, which does not pass it.
LessThan(p) ==
    IF _reader_isEq(p) THEN Read("TK_LESS_EQ", 2, reader_advance(p, 1)) ELSE Read("TK_LESS_THAN", 1, p)

\* The case of > looks for = at the > itself, and continues in the one of <.
Greater(p) == LessThan(reader_advance(p, IF _reader_isEq(p) THEN 2 ELSE 1))

read_id(p) ==
    LET size == Span(p, Letters \cup Digits)
        word == SubSeq(text, p.offset + 1, p.offset + size)
    IN  Read(IF word \in DOMAIN Keywords THEN Keywords[word] ELSE "TK_ID", size, reader_advance(p, size))

read_num(p) == LET size == Span(p, Digits) IN Read("TK_NUMBER", size, reader_advance(p, size))

TokenAt(p) ==
    IF p.offset = Len(text) THEN Read("TK_EEOF", 0, p)
    ELSE LET c == text[p.offset + 1]
         IN  CASE c \in DOMAIN Single -> Read(Single[c], 1, reader_advance(p, 1))
               [] c = "=" -> Assign(p)
               [] c = ">" -> Greater(p)
               [] c = "<" -> LessThan(p)
               [] c \in Letters -> read_id(p)
               [] c \in Digits -> read_num(p)
               [] OTHER -> Read("TK_ERROR", 1, p)

NoToken == [type |-> "none", pos |-> [offset |-> 0, line |-> 0, col |-> 0], size |-> 0, num |-> 0]

\* token_dumpAll of a string.
Reading(string) ==
    /\ text = string
    /\ pos = NoToken.pos
    /\ token = NoToken
    /\ looping = TRUE

TokenizerInit == \E string \in BoundedSeq(Letters \cup Digits \cup OtherChars, MaxText) : Reading(string)

Loops(type) == type \notin {"TK_ERROR", "TK_EEOF"}

\* An iteration of token_dumpAll, with the number parser_readAtomInternal takes
\* from the token.
token_next ==
    /\ looping
    /\ \E start \in {reader_skipWhite(pos)} : \E read \in {TokenAt(start)} :
          LET chars == SubSeq(text, start.offset + 1, start.offset + read.size)
          IN  /\ pos' = read.next
              /\ token' = [type |-> read.type, pos |-> start, size |-> read.size,
                           num |-> IF read.type = "TK_NUMBER" THEN range_parseInt(chars) ELSE 0]
              /\ looping' = Loops(read.type)
    /\ UNCHANGED text

TokenizerSpecification == TokenizerInit /\ [][token_next]_tokenVars

-----------------------------------------------------------------------------
\* What is between two tokens is white, and each starts behind the one before,
\* unless that one is a < (which is read for ever).
TokensTile ==
    [][/\ \A i \in (pos.offset + 1)..token'.pos.offset : text[i] \in White
       /\ \/ pos'.offset = token'.pos.offset + token'.size
          \/ ~looping'
          \/ text[token'.pos.offset + 1] = "<" /\ pos' = token'.pos]_tokenVars

Chars(k) == SubSeq(text, 1, k)

\* The position of a token, shown with an error, is the number of lines before
\* it and of characters before it in its line; \r takes no column.
PositionTracks ==
    LET before == token.pos.offset
        lineStart == IF "\n" \in ToSet(Chars(before))
                     THEN CHOOSE i \in 1..before : text[i] = "\n" /\ "\n" \notin ToSet(SubSeq(text, i + 1, before))
                     ELSE 0
    IN  /\ token.pos.line = Len(SelectSeq(Chars(before), LAMBDA c : c = "\n"))
        /\ token.pos.col = Len(SelectSeq(SubSeq(text, lineStart + 1, before), LAMBDA c : c # "\r"))

\* The value of a number.
ValueOf(chars) == FoldLeft(LAMBDA n, c : n * 10 + DigitOf(c), 0, chars)

\* A number that an int can hold is read as that number, although the reading
\* stops as soon as the limit is reached.
NumberKept ==
    token.type = "TK_NUMBER" =>
        LET value == ValueOf(SubSeq(text, token.pos.offset + 1, token.pos.offset + token.size))
        IN  value <= INT_MAX => token.num = value

\* Every token comes with its place and its value.
TokenIsRight == PositionTracks /\ NumberKept
=============================================================================
