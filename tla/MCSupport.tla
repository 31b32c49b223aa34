----------------------------- MODULE MCSupport -----------------------------
(***************************************************************************)
(* The libraries under the compiler in one instance: every behaviour is one  *)
(* of Buffer, ZoneAlloc, List, Format, Tokenizer or Assembler, which share no *)
(* state.                                                                    *)
(***************************************************************************)
EXTENDS Buffer, ZoneAlloc, List, Format, Tokenizer, Assembler

VARIABLE subject

vars == <<bufferVars, zoneVars, listVars, formatVars, tokenVars, assemblerVars, subject>>

Init ==
    /\ BufferInit /\ ZoneInit /\ ListInit /\ FormatInit /\ AssemblerInit
    /\ subject \in {"buffer", "zone", "list", "format", "text", "code"}
    /\ subject # "buffer" => \A b \in Buffers : buf[b].capacity = Min(InitSizes)
    /\ subject # "format" => fmt = <<>>
    /\ IF subject = "text" THEN TokenizerInit ELSE Reading(<<>>)

Tokenize == subject = "text" /\ token_next
            /\ UNCHANGED <<bufferVars, zoneVars, listVars, formatVars, assemblerVars, subject>>

Next ==
    \/ subject = "buffer" /\ BufferNext
       /\ UNCHANGED <<zoneVars, listVars, formatVars, tokenVars, assemblerVars, subject>>
    \/ subject = "zone" /\ ZoneNext
       /\ UNCHANGED <<bufferVars, listVars, formatVars, tokenVars, assemblerVars, subject>>
    \/ subject = "list" /\ ListNext
       /\ UNCHANGED <<bufferVars, zoneVars, formatVars, tokenVars, assemblerVars, subject>>
    \/ subject = "format" /\ FormatNext
       /\ UNCHANGED <<bufferVars, zoneVars, listVars, tokenVars, assemblerVars, subject>>
    \/ Tokenize
    \/ subject = "code" /\ AssemblerNext
       /\ UNCHANGED <<bufferVars, zoneVars, listVars, formatVars, tokenVars, subject>>

Spec == Init /\ [][Next]_vars

MCStrings == {<<1>>, <<1, 2>>}
\* 258 is 1 * 256 + 2, and its text differs from its hexadecimal text.
MCNumbers == {-10, 7, 258}

MCOtherChars == {"=", ">", "<", ";", " ", "\n", "\r", "#"}
MCKeywords == [word \in {<<"i", "f">>} |-> "TK_KW_IF"]

\* Bytes of eight values: a jump reaches from -4 to 3.
MCOffsetOf == [puts |-> 40, frame |-> 16]
=============================================================================
