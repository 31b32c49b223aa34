------------------------------- MODULE Buffer -------------------------------
(***************************************************************************)
(* The dynamic buffer of buffer.c.  A buffer is the memory that was          *)
(* allocated for it, the capacity field and the usage field.  The functions  *)
(* that push a number byte by byte take one step per byte, because each byte *)
(* may make the buffer grow.                                                 *)
(*                                                                          *)
(* A write behind the allocated memory, and a memmove of a length that has   *)
(* wrapped around, are undefined: they stop the model in a fault.            *)
(***************************************************************************)
EXTENDS Integers, Sequences, FiniteSetsExt

CONSTANTS Buffers,    \* the buffers in use at the same time
          InitSizes,  \* the sizes they are initialised with
          Strings,    \* what is pushed in one piece
          Numbers,    \* what is pushed byte by byte
          IntSizes,   \* in how many bytes dbuffer_pushInt and dbuffer_pushLong do
          PtrSize,    \* sizeof(void *)
          SizeMod,    \* 1 + SIZE_MAX
          MaxUsage    \* bound on the bytes in use before a push

ASSUME SizesAssumption ==
    /\ PtrSize \in Nat \ {0}
    /\ SizeMod \in Nat
    /\ InitSizes \subseteq 0..(SizeMod - 1)

ASSUME ArgumentsAssumption ==
    /\ \A s \in Strings : s \in Seq(0..255)
    /\ Numbers \subseteq Int
    /\ IntSizes \subseteq Nat
    /\ "none" \notin Buffers

VARIABLES buf,     \* the buffers
          job,     \* the call that is pushing a number, with its local variables
          fault    \* what undefined behaviour was met, if any

bufferVars == <<buf, job, fault>>

Idle == [on |-> "none"]
NoFault == [kind |-> "none"]

\* The content of memory that was not written yet.
Garbage == -1

-----------------------------------------------------------------------------
dbuffer_initSize(size) ==
    [mem |-> [i \in 1..size |-> Garbage], capacity |-> size, usage |-> 0]

\* The difference of two values of type size_t.
Difference(m, n) == (m - n) % SizeMod

\* Mutant: half as much again, whatever the size of the push.
NewSizeHalfMore(d, size) == (d.capacity * 3) \div 2

NewSize(d, size) ==
    IF d.capacity * 2 > (d.capacity * 3) \div 2 + size
    THEN d.capacity * 2 ELSE (d.capacity * 3) \div 2 + size

\* The new memory starts with the bytes in use; capacity stays what it was.
dbuffer_ensureCap(d, size) ==
    IF size > Difference(d.capacity, d.usage)
    THEN [d EXCEPT !.mem = [i \in 1..NewSize(d, size) |-> IF i <= d.usage THEN d.mem[i] ELSE Garbage]]
    ELSE d

\* The memcpy of dbuffer_pushData stays inside of the allocated memory.
Fits(d, size) == d.usage + size <= Len(dbuffer_ensureCap(d, size).mem)

dbuffer_pushData(d, bytes) ==
    LET e == dbuffer_ensureCap(d, Len(bytes))
    IN  [e EXCEPT !.mem = [i \in DOMAIN e.mem |-> IF i \in (e.usage + 1)..(e.usage + Len(bytes))
                                                   THEN bytes[i - e.usage] ELSE e.mem[i]],
                  !.usage = e.usage + Len(bytes)]

\* Lowers usage.  What is behind it is never read; the model forgets it.
Truncated(d, size) ==
    [d EXCEPT !.mem = [i \in DOMAIN d.mem |-> IF i <= size THEN d.mem[i] ELSE Garbage],
              !.usage = size]

\* dbuffer_removeRange of a range that ends inside of the buffer.
Shifted(d, offset, size) ==
    Truncated([d EXCEPT !.mem = [i \in DOMAIN d.mem |->
                                    IF i \in (offset + 1)..(d.usage - size) THEN d.mem[i + size] ELSE d.mem[i]]],
              d.usage - size)

\* Mutant: the swaps start at the beginning of the call.
SignReversedToo(d, from) ==
    [d EXCEPT !.mem = [i \in DOMAIN d.mem |->
                          IF i \in from..d.usage /\ from > 0 THEN d.mem[d.usage + from - i] ELSE d.mem[i]]]

\* The swaps that put the digits behind position from in order.
DigitsReversed(d, from) ==
    [d EXCEPT !.mem = [i \in DOMAIN d.mem |->
                          IF i \in (from + 1)..d.usage THEN d.mem[d.usage + from + 1 - i] ELSE d.mem[i]]]

-----------------------------------------------------------------------------
BufferInit ==
    /\ \E size \in InitSizes : buf = [b \in Buffers |-> dbuffer_initSize(size)]
    /\ job = Idle
    /\ fault = NoFault

InUse == MapThenSumSet(LAMBDA b : buf[b].usage, Buffers)

Ready == job = Idle /\ fault = NoFault

Overrun(b, size) == fault' = [kind |-> "write", on |-> b, end |-> buf[b].usage + size]

\* The effect of pushing bytes to buffer b, which is d at this point.
Pushed(b, d, bytes) ==
    \/ /\ Fits(d, Len(bytes))
       /\ buf' = [buf EXCEPT ![b] = dbuffer_pushData(d, bytes)]
       /\ UNCHANGED fault
    \/ /\ ~Fits(d, Len(bytes))
       /\ Overrun(b, Len(bytes))
       /\ UNCHANGED buf

\* dbuffer_pushData, and dbuffer_pushStr, dbuffer_pushChar, dbuffer_push,
\* dbuffer_pushChars and dbuffer_pushRange, which do the same with other arguments.
Push(b, bytes) ==
    /\ Ready
    /\ InUse < MaxUsage
    /\ Pushed(b, buf[b], bytes)
    /\ UNCHANGED job

\* dbuffer_pushPtr ensures the capacity before dbuffer_pushData does.
PushPtr(b, bytes) ==
    /\ Ready
    /\ Len(bytes) = PtrSize
    /\ InUse < MaxUsage
    /\ Pushed(b, dbuffer_ensureCap(buf[b], PtrSize), bytes)
    /\ UNCHANGED job

\* Callers pop only what they pushed: it is their obligation.
dbuffer_popPtr(b) ==
    /\ Ready
    /\ buf[b].usage >= PtrSize
    /\ buf' = [buf EXCEPT ![b] = Truncated(@, @.usage - PtrSize)]
    /\ UNCHANGED <<job, fault>>

\* The two conditions are asserted, and do not exclude a range that ends
\* behind the bytes in use.
dbuffer_removeRange(b, offset, size) ==
    /\ Ready
    /\ buf[b].usage >= size /\ offset < buf[b].usage
    /\ \/ /\ offset + size <= buf[b].usage
          /\ buf' = [buf EXCEPT ![b] = Shifted(@, offset, size)]
          /\ UNCHANGED fault
       \/ /\ offset + size > buf[b].usage
          /\ fault' = [kind |-> "move", on |-> b, end |-> offset + size]
          /\ UNCHANGED buf
    /\ UNCHANGED job

dbuffer_clear(b) ==
    /\ Ready
    /\ buf' = [buf EXCEPT ![b] = Truncated(@, 0)]
    /\ UNCHANGED <<job, fault>>

dbuffer_swap(a, b) ==
    /\ Ready
    /\ a # b
    /\ buf' = [buf EXCEPT ![a] = buf[b], ![b] = buf[a]]
    /\ UNCHANGED <<job, fault>>

\* The start of a call that pushes number n behind so many characters: in a
\* number of bytes or, at -1, in as many digits as it takes.
Begin(b, n, form, bytes, signs) ==
    job' = [on |-> b, form |-> form, number |-> n, bytes |-> bytes,
            num |-> IF n < 0 THEN -n ELSE n, left |-> bytes,
            start |-> buf[b].usage, first |-> buf[b].usage + signs]

\* dbuffer_pushInt and dbuffer_pushLong: the low byte is pushed, the rest is
\* shifted down, bytes times.
dbuffer_pushLong(b, n, bytes) ==
    /\ Ready
    /\ n >= 0
    /\ InUse < MaxUsage
    /\ Begin(b, n, "bytes", bytes, 0)
    /\ UNCHANGED <<buf, fault>>

\* dbuffer_pushIntStr pushes the sign, and what follows is dbuffer_pushUIntStr.
dbuffer_pushIntStr(b, n) ==
    /\ Ready
    /\ InUse < MaxUsage
    /\ \/ n >= 0 /\ Begin(b, n, "decimal", -1, 0) /\ UNCHANGED <<buf, fault>>
       \/ n < 0 /\ Begin(b, n, "decimal", -1, 1) /\ Pushed(b, buf[b], <<45>>)

dbuffer_pushUIntHexStr(b, n) ==
    /\ Ready
    /\ n >= 0
    /\ InUse < MaxUsage
    /\ Begin(b, n, "hexadecimal", -1, 0)
    /\ UNCHANGED <<buf, fault>>

\* dbuffer_pushUIntHexStr computes a hexadecimal digit and drops it; what it
\* pushes and divides by is decimal.
Base(j) == IF j.form = "bytes" THEN 256 ELSE 10

DigitByte(j) == IF Base(j) = 10 THEN 48 + (j.num % 10) ELSE j.num % 256

\* Another byte: left counts down, or, at -1, the do loop goes on until the
\* number is 0.
PushDigit ==
    /\ job # Idle /\ fault = NoFault
    /\ job.left # 0
    /\ Pushed(job.on, buf[job.on], <<DigitByte(job)>>)
    /\ LET rest == job.num \div Base(job)
       IN  job' = [job EXCEPT !.num = rest,
                              !.left = IF @ > 0 THEN @ - 1 ELSE IF rest = 0 THEN 0 ELSE @]

EndNumber ==
    /\ job # Idle /\ fault = NoFault
    /\ job.left = 0
    /\ buf' = IF Base(job) = 10
              THEN [buf EXCEPT ![job.on] = DigitsReversed(@, job.first)] ELSE buf
    /\ job' = Idle
    /\ UNCHANGED fault

BufferNext ==
    \/ \E b \in Buffers :
          \/ \E s \in Strings : Push(b, s) \/ PushPtr(b, s)
          \/ \E n \in Numbers :
                \/ \E bytes \in IntSizes : dbuffer_pushLong(b, n, bytes)
                \/ dbuffer_pushIntStr(b, n)
                \/ dbuffer_pushUIntHexStr(b, n)
          \/ dbuffer_popPtr(b)
          \/ \E offset, size \in 0..buf[b].usage : dbuffer_removeRange(b, offset, size)
          \/ dbuffer_clear(b)
          \/ \E a \in Buffers : dbuffer_swap(a, b)
    \/ PushDigit \/ EndNumber

BufferSpecification == BufferInit /\ [][BufferNext]_bufferVars

-----------------------------------------------------------------------------
BufferType ==
    \A b \in Buffers :
        /\ buf[b].capacity \in Nat /\ buf[b].usage \in Nat
        /\ buf[b].usage <= Len(buf[b].mem)

\* The bytes of finished calls.
Content == [b \in Buffers |-> SubSeq(buf[b].mem, 1, IF job.on = b THEN job.start ELSE buf[b].usage)]

\* What the call in progress was asked to push.
Asked == IF job = Idle THEN Idle
         ELSE [on |-> job.on, form |-> job.form, number |-> job.number, bytes |-> job.bytes]

Abstract == INSTANCE BufferSpec WITH content <- Content, asked <- Asked

\* The one departure from buffer.h: dbuffer_pushUIntHexStr of a number with more
\* than one decimal digit returns with the decimal text.
DecimalForHex ==
    /\ Asked # Idle /\ Asked' = Idle
    /\ Asked.form = "hexadecimal" /\ Asked.number > 9
    /\ Content' = [Content EXCEPT ![Asked.on] = @ \o Abstract!SignedDecimal(Asked.number)]

\* Up to the first fault, a write or a memmove outside of the bytes of a buffer,
\* a buffer is the byte string it should be: every number arrives in the form its
\* call asked for, but for the decimal text of dbuffer_pushUIntHexStr, and growing
\* in the middle of one, reversing digits and moving bytes loses, doubles or
\* reorders nothing.
IsByteString == Abstract!Init /\ [][Abstract!Next \/ DecimalForHex]_<<Content, Asked>>

\* A buffer of capacity n, whatever happens to it, holds 2 * n bytes: a write
\* outside of the allocated memory ends behind them.
SafeUpToTwice == fault.kind = "write" => fault.end > 2 * buf[fault.on].capacity
=============================================================================
