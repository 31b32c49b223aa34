----------------------------- MODULE Assembler -----------------------------
(***************************************************************************)
(* Code with labels: the calls of the emit functions, and relocation.c.      *)
(* A caller emits instructions, places labels at the current position        *)
(* (codegen_pushBlock), gives others the address or the value they stand     *)
(* for, and applies each label once it has its offset, as codegen_test.c     *)
(* does.  Emission may go on after that: a later use is applied by a later   *)
(* call.  The offsets of the code start at 0.                                *)
(***************************************************************************)
EXTENDS Encoder

CONSTANTS Registers,    \* the registers that are used
          BlockLabels,  \* labels of positions in the code
          Routines,     \* labels of addresses outside of it
          Values,       \* labels of values, such as the size of the frame
          OffsetOf,     \* what the last two are set to
          MemLocation,  \* where the code will be placed
          MaxCalls      \* bound on the number of instructions

Labels == BlockLabels \cup Routines \cup Values

ASSUME LabelAssumption == \A l \in Routines \cup Values : OffsetOf[l] \in Nat

VARIABLES code,     \* the buffer with the code
          labels,   \* label_t by label
          program   \* history: the calls, and where the instruction starts

assemblerVars == <<code, labels, program>>

-----------------------------------------------------------------------------
\* The calls of emit functions: name, registers, a number, a label.
Call(name, reg, to, num, label) == [name |-> name, reg |-> reg, to |-> to, num |-> num, label |-> label]

\* A displacement of one byte, and a number that needs two.
Disp == 3
Const == ByteBase + 2

PlainCalls ==
    {Call(name, 0, 0, 0, "none") : name \in {"syscall", "ret"}}
    \cup {Call(name, r, 0, 0, "none") : name \in {"checkZero32", "checkZero64", "pushReg", "popReg", "decReg64"},
                                       r \in Registers}
    \cup {Call(name, r, 0, Disp, "none") : name \in {"loadRegRBP32", "loadRegRBP64", "storeRegRBP64"}, r \in Registers}
    \cup {Call(name, r, 0, Const, "none") : name \in {"storeConst32", "storeConst64", "subConst64"}, r \in Registers}
    \cup {Call("storeReg64", r, s, 0, "none") : r, s \in Registers}

LabelCalls ==
    {Call(name, 0, 0, 0, l) : name \in {"jumpRel8", "jumpZeroRel8"}, l \in BlockLabels}
    \cup {Call("call", 0, 0, 0, l) : l \in Routines}
    \cup {Call("storeLabel64", r, 0, 0, l) : r \in Registers, l \in Routines}
    \cup {Call("subLabel64", r, 0, 0, l) : r \in Registers, l \in Values}

Emitted(c) ==
    CASE c.name = "syscall" -> emit_syscall
      [] c.name = "ret" -> emit_ret
      [] c.name = "checkZero32" -> emit_checkZero32(c.reg)
      [] c.name = "checkZero64" -> emit_checkZero64(c.reg)
      [] c.name = "pushReg" -> emit_pushReg(c.reg)
      [] c.name = "popReg" -> emit_popReg(c.reg)
      [] c.name = "decReg64" -> emit_decReg64(c.reg)
      [] c.name = "loadRegRBP32" -> emit_loadRegRBP32(c.reg, c.num)
      [] c.name = "loadRegRBP64" -> emit_loadRegRBP64(c.reg, c.num)
      [] c.name = "storeRegRBP64" -> emit_storeRegRBP64(c.reg, c.num)
      [] c.name = "storeConst32" -> emit_storeConst32(c.reg, c.num)
      [] c.name = "storeConst64" -> emit_storeConst64(c.reg, c.num)
      [] c.name = "subConst64" -> emit_subConst64(c.reg, c.num)
      [] c.name = "storeReg64" -> emit_storeReg64(c.reg, c.to)
      [] c.name = "jumpRel8" -> emit_jumpRel8
      [] c.name = "jumpZeroRel8" -> emit_jumpZeroRel8
      [] c.name = "call" -> emit_call
      [] c.name = "storeLabel64" -> emit_storeLabel64(c.reg)
      [] c.name = "subLabel64" -> emit_subLabel64(c.reg)

\* The arguments of relocation_emit, with getRelocSize.
FieldOf(name) ==
    CASE name \in {"jumpRel8", "jumpZeroRel8"} -> [type |-> "RELATIVE", size |-> 1, bias |-> 1]
      [] name = "call" -> [type |-> "RELATIVE", size |-> 4, bias |-> 4]
      [] name = "storeLabel64" -> [type |-> "ABSOLUTE", size |-> 8, bias |-> 0]
      [] name = "subLabel64" -> [type |-> "ABSOLUTE", size |-> 4, bias |-> 0]

-----------------------------------------------------------------------------
AssemblerInit ==
    /\ code = <<>>
    /\ labels = [l \in Labels |-> [hasOffset |-> FALSE, offset |-> 0, relocations |-> <<>>]]
    /\ program = <<>>

Recorded(c) == program' = Append(program, [at |-> Len(code), call |-> c])

Emit(c) ==
    /\ Len(program) < MaxCalls
    /\ code' = code \o Emitted(c)
    /\ Recorded(c)
    /\ UNCHANGED labels

\* Mutant: the relocation takes the place of the one before.
SetAlone(list, reloc) == <<reloc>>

\* relocation_set: the newest relocation is the first.
relocation_set(list, reloc) == <<reloc>> \o list

\* relocation_emit: the field is at the end of the instruction.
EmitWithLabel(c) ==
    LET bytes == Emitted(c)
        field == FieldOf(c.name)
        reloc == [type |-> field.type, size |-> field.size, bias |-> field.bias,
                  offset |-> Len(code) + Len(bytes) - field.size]
    IN  /\ Len(program) < MaxCalls
        /\ code' = code \o bytes
        /\ labels' = [labels EXCEPT ![c.label].relocations = relocation_set(@, reloc)]
        /\ Recorded(c)

label_setOffset(l, offset) ==
    labels' = [labels EXCEPT ![l].offset = offset, ![l].hasOffset = TRUE]

codegen_pushBlock(l) ==
    /\ l \in BlockLabels
    /\ ~labels[l].hasOffset
    /\ label_setOffset(l, Len(code))
    /\ UNCHANGED <<code, program>>

Resolve(l) ==
    /\ l \in Routines \cup Values
    /\ ~labels[l].hasOffset
    /\ label_setOffset(l, OffsetOf[l])
    /\ UNCHANGED <<code, program>>

\* The value is computed as unsigned long, then cut to the size of the field.
RelocationValue(reloc, offset, memLocation) ==
    IF reloc.type = "ABSOLUTE" THEN offset
    ELSE (offset - (memLocation + reloc.offset + reloc.bias)) % ByteBase ^ 8

relocation_apply(bytes, reloc, offset, memLocation) ==
    LET field == NumberBytes(RelocationValue(reloc, offset, memLocation) % ByteBase ^ reloc.size, reloc.size)
    IN  [i \in DOMAIN bytes |-> IF i - reloc.offset \in 1..reloc.size THEN field[i - reloc.offset] ELSE bytes[i]]

\* hasOffset is not looked at: that it is set is the caller's obligation.
label_applyMemory(l, memLocation) ==
    /\ labels[l].hasOffset
    /\ labels[l].relocations # <<>>
    /\ code' = FoldLeft(LAMBDA bytes, reloc : relocation_apply(bytes, reloc, labels[l].offset, memLocation),
                        code, labels[l].relocations)
    /\ labels' = [labels EXCEPT ![l].relocations = <<>>]
    /\ UNCHANGED program

label_apply(l) == label_applyMemory(l, 0)

AssemblerNext ==
    \/ \E c \in PlainCalls : Emit(c)
    \/ \E c \in LabelCalls : EmitWithLabel(c)
    \/ \E l \in Labels : codegen_pushBlock(l) \/ Resolve(l)
    \/ \E l \in Routines : label_applyMemory(l, MemLocation)
    \/ \E l \in BlockLabels \cup Values : label_apply(l)

AssemblerSpecification == AssemblerInit /\ [][AssemblerNext]_assemblerVars

-----------------------------------------------------------------------------
\* What the caller of an emit function wants, as an instruction.  What both callers
\* of emit_jumpZeroRel8 want, and its opcode 0x75 is, is a jump if the result is
\* not zero (jnz): the opposite of what its name says.
Wanted(c) ==
    CASE c.name = "syscall" -> <<"syscall", 8, <<>>>>
      [] c.name = "ret" -> <<"ret", 8, <<>>>>
      [] c.name = "checkZero32" -> <<"test", 4, <<Reg(c.reg), Reg(c.reg)>>>>
      [] c.name = "checkZero64" -> <<"test", 8, <<Reg(c.reg), Reg(c.reg)>>>>
      [] c.name = "pushReg" -> <<"push", 8, <<Reg(c.reg)>>>>
      [] c.name = "popReg" -> <<"pop", 8, <<Reg(c.reg)>>>>
      [] c.name = "decReg64" -> <<"dec", 8, <<Reg(c.reg)>>>>
      [] c.name = "loadRegRBP32" -> <<"mov", 4, <<Reg(c.reg), Mem(RBP, c.num)>>>>
      [] c.name = "loadRegRBP64" -> <<"mov", 8, <<Reg(c.reg), Mem(RBP, c.num)>>>>
      [] c.name = "storeRegRBP64" -> <<"mov", 8, <<Mem(RBP, c.num), Reg(c.reg)>>>>
      [] c.name = "storeConst32" -> <<"mov", 4, <<Reg(c.reg), Imm(c.num)>>>>
      [] c.name = "storeConst64" -> <<"mov", 8, <<Reg(c.reg), Imm(c.num)>>>>
      [] c.name = "subConst64" -> <<"sub", 8, <<Reg(c.reg), Imm(c.num)>>>>
      [] c.name = "storeReg64" -> <<"mov", 8, <<Reg(c.to), Reg(c.reg)>>>>
      [] c.name = "jumpRel8" -> <<"jmp", 8, <<>>>>
      [] c.name = "jumpZeroRel8" -> <<"jnz", 8, <<>>>>
      [] c.name = "call" -> <<"call", 8, <<>>>>
      [] c.name = "storeLabel64" -> <<"mov", 8, <<Reg(c.reg)>>>>
      [] c.name = "subLabel64" -> <<"sub", 8, <<Reg(c.reg)>>>>

Decoded(p) == DecodeAt(code, p.at + 1)

\* In these the bit that extends the register is put in another place of the
\* prefix, where it means nothing or something else.
ExtensionMisplaced(c) == c.reg > 7 /\ c.name \in {"loadRegRBP64", "subConst64", "subLabel64"}

\* Read by a processor from its first byte, the code is the sequence of
\* instructions that was asked for, whatever was patched in it.  Exactly the three
\* functions that misplace the extension of a register reach another one, and
\* only when there is something to extend.
CodeIsProgram ==
    /\ code # <<>> => program # <<>>
    /\ \A i \in DOMAIN program :
        LET p == program[i]
            found == Decoded(p)
            wanted == Wanted(p.call)
            own == IF p.call.label = "none" THEN found.operands ELSE Front(found.operands)
        IN  /\ p.at + found.length = IF i = Len(program) THEN Len(code) ELSE program[i + 1].at
            /\ <<found.op, found.width>> = <<wanted[1], wanted[2]>>
            /\ own = wanted[3] <=> ~ExtensionMisplaced(p.call)

\* The uses of labels.
Uses == {i \in DOMAIN program : program[i].call.label # "none"}

\* The relocations of the field that ends at a position.
Waiting(label, end) ==
    {i \in DOMAIN label.relocations : label.relocations[i].offset + label.relocations[i].size = end}

\* How far label l is from a position of the code, once the code is in place.
Distance(l, from) ==
    (IF l \in BlockLabels THEN MemLocation ELSE 0) + labels[l].offset - (MemLocation + from)

\* A number of a field as a signed one.
Signed(value, span) == IF value * 2 >= span THEN value - span ELSE value

\* The field of every use of a label is waiting, once, and still zero; or it
\* leads to where the label is: exactly when the distance fits in the field,
\* and otherwise, as nothing checks that, modulo its span.
TargetsReached ==
    \A i \in Uses :
        LET call == program[i].call
            label == labels[call.label]
            found == Decoded(program[i])
            end == program[i].at + found.length
            value == Last(found.operands).value
            span == ByteBase ^ FieldOf(call.name).size
            distance == Distance(call.label, end)
        IN  \/ Cardinality(Waiting(label, end)) = 1 /\ value = 0
            \/ /\ Waiting(label, end) = {} /\ label.hasOffset
               /\ IF FieldOf(call.name).type = "ABSOLUTE" THEN value = label.offset % span
                  ELSE /\ (value - distance) % span = 0
                       /\ Signed(value, span) = distance <=> distance * 2 \in (-span)..(span - 1)
=============================================================================
