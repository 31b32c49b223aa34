----------------------------- MODULE BufferSpec -----------------------------
(***************************************************************************)
(* What buffer.h promises of its dbuffer_t: byte strings that grow at their  *)
(* end to hold everything that is pushed.  A call takes effect at once; the  *)
(* functions that push a number are cut into the call, which says what form  *)
(* of the number is asked for, and the return, with which exactly that form  *)
(* appears: low byte first, in decimal or, for dbuffer_pushUIntHexStr, in    *)
(* hexadecimal.                                                              *)
(***************************************************************************)
EXTENDS Integers, Sequences

CONSTANTS Buffers, Strings, Numbers, IntSizes, PtrSize

VARIABLES content,   \* the byte string of each buffer
          asked      \* the number that a call is pushing, if any

Nothing == [on |-> "none"]

\* The number in so many bytes, the low byte first.
LittleEndian(n, bytes) == [i \in 1..bytes |-> (n \div 256 ^ (i - 1)) % 256]

\* The characters '0' to '9' are 48 to 57, and 'A' to 'F' are 65 to 70.
Character(digit) == IF digit < 10 THEN 48 + digit ELSE 55 + digit

\* The number as text in a base, without leading zeros.
Numeral(n, base) ==
    LET width == CHOOSE w \in 1..10 : n < base ^ w /\ (w = 1 \/ n >= base ^ (w - 1))
    IN  [i \in 1..width |-> Character((n \div base ^ (width - i)) % base)]

\* With '-' before a number below zero.
SignedDecimal(n) == IF n < 0 THEN <<45>> \o Numeral(-n, 10) ELSE Numeral(n, 10)

\* What a call has to push.
Form(call) == CASE call.form = "bytes" -> LittleEndian(call.number, call.bytes)
                [] call.form = "decimal" -> SignedDecimal(call.number)
                [] call.form = "hexadecimal" -> Numeral(call.number, 16)

Init == content = [b \in Buffers |-> <<>>] /\ asked = Nothing

Push(b, bytes) == content' = [content EXCEPT ![b] = @ \o bytes]

\* A call of dbuffer_pushInt, dbuffer_pushLong, dbuffer_pushIntStr,
\* dbuffer_pushUIntStr or dbuffer_pushUIntHexStr.
AskNumber(b, n, form, bytes) ==
    /\ form = "decimal" \/ n >= 0
    /\ asked' = [on |-> b, form |-> form, number |-> n, bytes |-> bytes]
    /\ UNCHANGED content

\* Its return.
PushNumber == asked # Nothing /\ Push(asked.on, Form(asked)) /\ asked' = Nothing

\* Shortens the string, from its end or anywhere.
Remove(b, offset, size) ==
    /\ offset + size <= Len(content[b])
    /\ content' = [content EXCEPT ![b] = SubSeq(@, 1, offset) \o SubSeq(@, offset + size + 1, Len(@))]

PopPtr(b) == Len(content[b]) >= PtrSize /\ Remove(b, Len(content[b]) - PtrSize, PtrSize)

Clear(b) == content' = [content EXCEPT ![b] = <<>>]

Swap(a, b) == content' = [content EXCEPT ![a] = content[b], ![b] = content[a]]

\* The calls that take effect at once.
Whole(b) ==
    \/ \E s \in Strings : Push(b, s)
    \/ \E offset, size \in 0..Len(content[b]) : Remove(b, offset, size)
    \/ PopPtr(b)
    \/ Clear(b)
    \/ \E a \in Buffers : Swap(a, b)

Next ==
    /\ <<content, asked>>' # <<content, asked>>
    /\ \/ PushNumber
       \/ /\ asked = Nothing
          /\ \E b \in Buffers :
                \/ Whole(b) /\ UNCHANGED asked
                \/ \E n \in Numbers :
                      \/ \E bytes \in IntSizes : AskNumber(b, n, "bytes", bytes)
                      \/ \E form \in {"decimal", "hexadecimal"} : AskNumber(b, n, form, -1)

Spec == Init /\ [][Next]_<<content, asked>>
=============================================================================
