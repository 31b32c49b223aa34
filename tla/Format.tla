------------------------------- MODULE Format -------------------------------
(***************************************************************************)
(* The formatter of format.c: text in which a name in braces stands for the  *)
(* next argument.  A format is a sequence of braces and words; the output is *)
(* a sequence of words, braces and arguments.                                *)
(* One step of the loop of format_listDbuffer reads and emits one token.     *)
(***************************************************************************)
EXTENDS Integers, Sequences, FiniteSets, SequencesExt

CONSTANTS Words,       \* the words of formats, among them names of tokens
          MaxFormat    \* bound on the length of a format

VARIABLES fmt,      \* the format
          rest,     \* range: what is left of it
          out,      \* the buffer
          args,     \* how many arguments va_arg has taken
          status    \* "loop", "done", or "assert" after a failed assertion

formatVars == <<fmt, rest, out, args, status>>

Symbols == Words \cup {"{", "}"}

-----------------------------------------------------------------------------
\* The names, as format_token_emit handles them: those that take an argument,
\* those that stand for a brace, and those it has no case for.
Argument == {"hex_uint", "uint", "int", "str", "range"}
Brace == [co |-> "{", cc |-> "}"]
Unhandled == {"hex_int", "dbuffer", "printer", "list"}

\* The length of the prefix without symbol s.
Until(text, s) == SelectInSeq(text \o <<s>>, LAMBDA x : x = s) - 1

\* What the output is made of.
Text(w) == [word |-> w, arg |-> 0]
Arg(n) == [word |-> "", arg |-> n]

Token(type, contents, skipped) == [type |-> type, contents |-> contents, skipped |-> skipped]

\* Mutant: a placeholder ends before its closing brace.
ClosingBraceKept(name) == 1 + Len(name)

\* How much is skipped for a name and its braces.
NameLength(name) == 2 + Len(name)

\* The next token of a text; the brace behind an empty name is not skipped.
format_nextToken(text) ==
    LET name == SubSeq(text, 2, 1 + Until(Tail(text), "}"))
    IN  IF text = <<>> THEN Token("EEOF", <<>>, 0)
        ELSE IF Until(text, "{") > 0
             THEN Token("STRING", SubSeq(text, 1, Until(text, "{")), Until(text, "{"))
        ELSE IF name = <<>> THEN Token("ERROR", <<>>, 1)
        ELSE Token(IF Len(name) = 1 /\ name[1] \in Argument \cup DOMAIN Brace \cup Unhandled
                   THEN name[1] ELSE "ERROR",
                   name, NameLength(name))

FormatInit ==
    /\ fmt \in BoundedSeq(Symbols, MaxFormat)
    /\ rest = fmt
    /\ out = <<>>
    /\ args = 0
    /\ status = "loop"

\* format_token_emit
Emits(token) ==
    /\ args' = IF token.type \in Argument THEN args + 1 ELSE args
    /\ out' = CASE token.type \in Argument -> Append(out, Arg(args + 1))
                [] token.type \in DOMAIN Brace -> Append(out, Text(Brace[token.type]))
                [] token.type = "STRING" -> out \o [i \in DOMAIN token.contents |-> Text(token.contents[i])]
                [] OTHER -> out

\* format_listDbuffer; range_skip asserts that there is a brace to skip.
format_listDbuffer ==
    LET token == format_nextToken(rest)
    IN  /\ status = "loop"
        /\ \/ /\ token.skipped > Len(rest)
              /\ status' = "assert"
              /\ UNCHANGED <<rest, out, args>>
           \/ /\ token.skipped <= Len(rest)
              /\ Emits(token)
              /\ rest' = SubSeq(rest, token.skipped + 1, Len(rest))
              /\ status' = IF token.type \in {"ERROR", "EEOF"} THEN "done" ELSE "loop"
        /\ UNCHANGED fmt

FormatNext == format_listDbuffer

FormatSpecification == FormatInit /\ [][FormatNext]_formatVars

-----------------------------------------------------------------------------
\* A brace that opens a name.
Opens(i) == /\ i + 2 <= Len(fmt)
            /\ fmt[i] = "{" /\ fmt[i + 2] = "}"
            /\ fmt[i + 1] \in Argument \cup DOMAIN Brace \cup Unhandled

\* The first brace that opens nothing: the text ends there, without an error.
TextEnd == CHOOSE n \in 0..Len(fmt) :
              /\ \A i \in 1..n : fmt[i] = "{" => Opens(i)
              /\ n < Len(fmt) => fmt[n + 1] = "{" /\ ~Opens(n + 1)

\* What should come out of position i: a word, a brace, or the argument whose
\* number is that of the names before it which take one.
Expected(i) ==
    IF i \in DOMAIN fmt /\ Opens(i)
    THEN IF fmt[i + 1] \in Argument
         THEN <<Arg(Cardinality({j \in 1..i : Opens(j) /\ fmt[j + 1] \in Argument}))>>
         ELSE IF fmt[i + 1] \in Unhandled THEN <<>> ELSE <<Text(Brace[fmt[i + 1]])>>
    ELSE IF \E j \in {i - 1, i - 2} \cap DOMAIN fmt : Opens(j) THEN <<>> ELSE <<Text(fmt[i])>>

Unterminated == TextEnd + 1 < Len(fmt) /\ \A j \in (TextEnd + 2)..Len(fmt) : fmt[j] # "}"

\* The output is the text up to the first brace that opens no name, with every
\* name replaced: an argument for each name that takes one, in order.  The names
\* without a case leave their argument to the next name.  A name without its
\* closing brace fails an assertion.
FormatKept ==
    /\ status = "done" => /\ out = FlattenSeq([i \in 1..TextEnd |-> Expected(i)])
                          /\ ~Unterminated
    /\ status = "assert" => Unterminated
=============================================================================
