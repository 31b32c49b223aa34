------------------------------ MODULE Encoder ------------------------------
(***************************************************************************)
(* The instruction encoder of x86_64_assembly.c.  A byte of code is a record *)
(* of the fields it is packed from: a REX prefix, a ModR/M byte, an opcode,  *)
(* or a byte of a number.  Each emit function of the code is an operator     *)
(* with the bytes it pushes; a label operand is a run of zero bytes, which   *)
(* relocation_emit pushes.                                                   *)
(***************************************************************************)
EXTENDS Integers, Sequences, SequencesExt

CONSTANT ByteBase    \* the number of values of a byte

ASSUME ByteAssumption == ByteBase \in Nat /\ ByteBase > 1

\* The low bytes of a number, the lowest first: dbuffer_pushInt,
\* dbuffer_pushLong and writeLong.
NumberBytes(n, bytes) ==
    [i \in 1..bytes |-> [kind |-> "number", value |-> (n \div ByteBase ^ (i - 1)) % ByteBase]]

Opcode(code) == <<[kind |-> "opcode", code |-> code]>>

emit_rex(w, r, x, b) == <<[kind |-> "rex", w |-> w, r |-> r, x |-> x, b |-> b]>>

emit_modrm(mod, regop, rm) == <<[kind |-> "modrm", mod |-> mod, regop |-> regop, rm |-> rm]>>

\* kReg32Number and kReg64Number: the number of a register is its position.
RBP == 5
IsHigh(reg) == IF reg > 7 THEN 1 ELSE 0
Low(reg) == reg % 8

emit_syscall == Opcode(15) \o Opcode(5)

emit_checkZero32(reg) ==
    (IF reg > 7 THEN emit_rex(0, 1, 0, 1) ELSE <<>>) \o Opcode(133) \o emit_modrm(3, Low(reg), Low(reg))

emit_checkZero64(reg) ==
    emit_rex(1, IsHigh(reg), 0, IsHigh(reg)) \o Opcode(133) \o emit_modrm(3, Low(reg), Low(reg))

emit_loadRegRBP32(reg, disp) ==
    (IF reg > 7 THEN emit_rex(0, 1, 0, 0) ELSE <<>>)
        \o Opcode(139) \o emit_modrm(1, Low(reg), RBP) \o NumberBytes(disp, 1)

emit_loadRegRBP64(reg, disp) ==
    emit_rex(1, 0, 0, IsHigh(reg)) \o Opcode(139) \o emit_modrm(1, Low(reg), RBP) \o NumberBytes(disp, 1)

emit_storeConst32(reg, cons) ==
    (IF reg > 7 THEN emit_rex(0, 0, 0, 1) ELSE <<>>) \o Opcode(184 + Low(reg)) \o NumberBytes(cons, 4)

emit_storeConst64(reg, cons) ==
    emit_rex(1, 0, 0, IsHigh(reg)) \o Opcode(184 + Low(reg)) \o NumberBytes(cons, 8)

emit_storeLabel64(reg) ==
    emit_rex(1, 0, 0, IsHigh(reg)) \o Opcode(184 + Low(reg)) \o NumberBytes(0, 8)

emit_storeRegRBP64(reg, disp) ==
    emit_rex(1, IsHigh(reg), 0, 0) \o Opcode(137) \o emit_modrm(1, Low(reg), RBP) \o NumberBytes(disp, 1)

\* Mutant: the extensions of the two registers are exchanged.
StoreRegExchanged(from, to) ==
    emit_rex(1, IsHigh(to), 0, IsHigh(from)) \o Opcode(137) \o emit_modrm(3, Low(from), Low(to))

emit_storeReg64(from, to) ==
    emit_rex(1, IsHigh(from), 0, IsHigh(to)) \o Opcode(137) \o emit_modrm(3, Low(from), Low(to))

emit_subConst64(reg, imm) ==
    emit_rex(1, 0, IsHigh(reg), 0) \o Opcode(129) \o emit_modrm(3, 5, Low(reg)) \o NumberBytes(imm, 4)

emit_subLabel64(reg) ==
    emit_rex(1, 0, IsHigh(reg), 0) \o Opcode(129) \o emit_modrm(3, 5, Low(reg)) \o NumberBytes(0, 4)

emit_pushReg(reg) == (IF reg > 7 THEN emit_rex(1, 0, 0, 1) ELSE <<>>) \o Opcode(80 + Low(reg))

emit_popReg(reg) == (IF reg > 7 THEN emit_rex(1, 0, 0, 1) ELSE <<>>) \o Opcode(88 + Low(reg))

emit_ret == Opcode(195)

emit_decReg64(reg) == emit_rex(1, 0, 0, IsHigh(reg)) \o Opcode(255) \o emit_modrm(3, 1, Low(reg))

emit_jumpRel8 == Opcode(235) \o NumberBytes(0, 1)

emit_jumpZeroRel8 == Opcode(117) \o NumberBytes(0, 1)

emit_call == Opcode(232) \o NumberBytes(0, 4)

-----------------------------------------------------------------------------
\* The processor's view of the bytes, as the x86_64 manual defines it.

NumberAt(code, from, bytes) ==
    FoldLeft(LAMBDA acc, i : acc + code[from + i - 1].value * ByteBase ^ (i - 1), 0, [i \in 1..bytes |-> i])

Reg(n) == [kind |-> "register", number |-> n]
Mem(base, disp) == [kind |-> "memory", base |-> base, disp |-> disp]
Imm(n) == [kind |-> "immediate", value |-> n]

\* The instruction at a position: what it does in which width, its operands,
\* destination first, and its length.
Instruction(op, width, operands, length) ==
    [op |-> op, width |-> width, operands |-> operands, length |-> length]

DecodeAt(code, at) ==
    LET prefixed == code[at].kind = "rex"
        rex == IF prefixed THEN code[at] ELSE [w |-> 0, r |-> 0, x |-> 0, b |-> 0]
        start == IF prefixed THEN at + 1 ELSE at
        skipped == start - at
        opcode == code[start].code
        modrm == code[start + 1]
        width == IF rex.w = 1 THEN 8 ELSE 4
        inOpcode(base) == Reg(8 * rex.b + opcode - base)
        inReg == Reg(8 * rex.r + modrm.regop)
        inRm == IF modrm.mod = 3 THEN Reg(8 * rex.b + modrm.rm)
                ELSE Mem(8 * rex.b + modrm.rm, NumberAt(code, start + 2, 1))
        afterRm == IF modrm.mod = 3 THEN 2 ELSE 3
    IN  CASE opcode = 133 -> Instruction("test", width, <<inRm, inReg>>, skipped + afterRm)
          [] opcode = 137 -> Instruction("mov", width, <<inRm, inReg>>, skipped + afterRm)
          [] opcode = 139 -> Instruction("mov", width, <<inReg, inRm>>, skipped + afterRm)
          [] opcode \in 184..191 ->
                Instruction("mov", width, <<inOpcode(184), Imm(NumberAt(code, start + 1, width))>>, skipped + 1 + width)
          [] opcode = 129 /\ modrm.regop = 5 ->
                Instruction("sub", width, <<inRm, Imm(NumberAt(code, start + 2, 4))>>, skipped + 6)
          [] opcode = 255 /\ modrm.regop = 1 -> Instruction("dec", width, <<inRm>>, skipped + 2)
          [] opcode \in 80..87 -> Instruction("push", 8, <<inOpcode(80)>>, skipped + 1)
          [] opcode \in 88..95 -> Instruction("pop", 8, <<inOpcode(88)>>, skipped + 1)
          [] opcode = 15 -> Instruction("syscall", 8, <<>>, 2)
          [] opcode = 195 -> Instruction("ret", 8, <<>>, 1)
          [] opcode = 235 -> Instruction("jmp", 8, <<Imm(NumberAt(code, start + 1, 1))>>, 2)
          [] opcode = 117 -> Instruction("jnz", 8, <<Imm(NumberAt(code, start + 1, 1))>>, 2)
          [] opcode = 232 -> Instruction("call", 8, <<Imm(NumberAt(code, start + 1, 4))>>, 5)
=============================================================================
