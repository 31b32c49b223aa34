------------------------------ MODULE Codegen ------------------------------
(***************************************************************************)
(* codegen.c with the arch_* functions of x86_64_assembly.c: a register      *)
(* allocator that hands registers to variables while code is emitted, and    *)
(* spills the least recently used variable when it runs out.                 *)
(*                                                                          *)
(* Besides the allocator's own state, cg says what the emitted code leaves   *)
(* in the machine: regs[r] and mem[d] are the variable whose current value   *)
(* the register, or the stack cell at RBP + 8d, holds (NoVar: none).  The    *)
(* instruction bytes themselves are left out.                                *)
(***************************************************************************)
EXTENDS Integers, Sequences

CONSTANTS Vars,           \* the struct variable objects
          NoVar,          \* NULL
          registerCount,  \* argument of codegen_init
          SlotReach,      \* slots that a char displacement reaches below RBP: 16
          ArgLists        \* argument lists that functions and calls may have

ASSUME NoVarAssumption == NoVar \notin Vars

\* _getRealReg has ten entries.
ASSUME RegisterCountAssumption == registerCount \in 1..10

ASSUME SlotReachAssumption == SlotReach \in Nat \ {0}

ASSUME ArgListsAssumption == ArgLists \subseteq Seq(Vars)

Regs == 0..(registerCount - 1)

\* Allocator ids of the argument registers RDI, RSI, RDX, RCX, R8 and R9.
ArgRegs == <<4, 3, 2, 1, 5, 6>>

\* _getRealReg: allocator id -> hardware number.
RealRegs == <<0, 1, 2, 6, 7, 8, 9, 10, 11, 12>>
_getRealReg(r) == RealRegs[r + 1]

\* The displacement of a slot is passed as a char: -stackPos * 8 in 8 bits, here
\* in units of the 8 bytes of a slot.
Disp(pos) == ((SlotReach - pos) % (2 * SlotReach)) - SlotReach
Disps == (-SlotReach)..(SlotReach - 1)

VARIABLES cg,       \* struct codegen, the variables' fields, and the machine
          created,  \* variables made so far
          phase,    \* "ready", or the loop that is running
          k,        \* its loop variable
          args      \* the variables given to the running call or function

vars == <<cg, created, phase, k, args>>

-----------------------------------------------------------------------------
\* list.c on the LRU list, oldest first.
list_add(s, v) == Append(s, v)
Position(s, v) == CHOOSE p \in 1..Len(s) : s[p] = v
list_deattach(s, v) ==
    [i \in 1..(Len(s) - 1) |-> IF i < Position(s, v) THEN s[i] ELSE s[i + 1]]

codegen_init ==
    [registerStatus |-> [r \in Regs |-> NoVar],
     lru            |-> <<>>,
     frameSize      |-> 0,
     reg            |-> [v \in Vars |-> -1],
     stackPos       |-> [v \in Vars |-> -1],
     regs           |-> [r \in Regs |-> NoVar],
     mem            |-> [d \in Disps |-> NoVar],
     highLoad       |-> FALSE]   \* a load into R8..R12 has been emitted

\* Mutant: the list keeps the order in which the variables were loaded.
LoadOrder(c, v) == c

_lruBump(c, v) == [c EXCEPT !.lru = list_add(list_deattach(@, v), v)]

\* Mutant: the store is not emitted.
StoreNotEmitted(c, v) == c

\* emit_storeRegRBP64
EmitStore(c, v) == [c EXCEPT !.mem[Disp(c.stackPos[v])] = c.regs[c.reg[v]]]

\* arch_loadReg, emit_loadRegRBP64.  For R8 and up the REX bit set is B, not R:
\* the load goes to the register 8 below, from an address based on R13.
EmitLoad(c, v) ==
    LET r == c.reg[v]
    IN  IF r <= 4 THEN [c EXCEPT !.regs[r] = c.mem[Disp(c.stackPos[v])]]
        ELSE [c EXCEPT !.highLoad = TRUE,
                       !.regs = [q \in Regs |-> IF _getRealReg(q) = _getRealReg(r) - 8
                                                THEN NoVar ELSE c.regs[q]]]

\* Mutant: frameSize is not incremented.
SameSlot(c, v) == IF c.stackPos[v] < 0 THEN [c EXCEPT !.stackPos[v] = c.frameSize + 1] ELSE c

\* The first lines of variable_store: a slot for a variable that has none.
AllocateSlot(c, v) ==
    IF c.stackPos[v] < 0 THEN [c EXCEPT !.frameSize = @ + 1, !.stackPos[v] = c.frameSize + 1]
    ELSE c

\* Mutant: the variable stays on the LRU list.
ReleaseStillListed(c, v) ==
    [c EXCEPT !.registerStatus[c.reg[v]] = NoVar, !.reg[v] = -1]

\* Its last lines: the variable gives up its register.
Release(c, v) ==
    [c EXCEPT !.lru = list_deattach(@, v),
              !.registerStatus[c.reg[v]] = NoVar,
              !.reg[v] = -1]

\* variable_store of a variable that is in a register; arch_store refers to it
\* with variable_ref, which only moves it to the end of the LRU list.
StoreHeld(c, v) == Release(EmitStore(_lruBump(AllocateSlot(c, v), v), v), v)

Free(c) == {r \in Regs : c.registerStatus[r] = NoVar}

\* Mutant: the oldest variable is not spilled.
AllocateWithoutSpill(c) == c

\* codegen_allocateReg: the first free register, else the oldest variable's.
AllocatedReg(c) ==
    IF Free(c) # {} THEN CHOOSE r \in Free(c) : \A q \in Free(c) : r <= q
    ELSE c.reg[Head(c.lru)]
codegen_allocateReg(c) == IF Free(c) # {} THEN c ELSE StoreHeld(c, Head(c.lru))

\* A variable enters register r: the common part of codegen_newVarReg and
\* variable_ref.
Occupy(c, v, r) == [c EXCEPT !.reg[v] = r, !.registerStatus[r] = v, !.lru = list_add(@, v)]

\* codegen_newVarReg: whatever the register holds is the value of the new variable.
codegen_newVarReg(c, v, r) == [Occupy(c, v, r) EXCEPT !.regs[r] = v]

variable_ref(c, v) ==
    IF c.reg[v] >= 0 THEN _lruBump(c, v)
    ELSE EmitLoad(Occupy(codegen_allocateReg(c), v, AllocatedReg(c)), v)

\* variable_store of a variable in memory loads it first, and may evict another.
variable_store(c, v) ==
    IF c.reg[v] >= 0 THEN StoreHeld(c, v)
    ELSE Release(EmitStore(variable_ref(AllocateSlot(c, v), v), v), v)

\* An emitted instruction gives v a new value in its register: other cells
\* that held its value hold an old one now.
Overwrite(c, v) ==
    [c EXCEPT !.regs = [r \in Regs |-> IF r = c.reg[v] THEN v
                                       ELSE IF c.regs[r] = v THEN NoVar ELSE c.regs[r]],
              !.mem = [d \in Disps |-> IF c.mem[d] = v THEN NoVar ELSE c.mem[d]]]

-----------------------------------------------------------------------------
Init ==
    /\ cg = codegen_init
    /\ created = {}
    /\ phase = "ready"
    /\ k = 0
    /\ args = <<>>

\* codegen_initFunction, before anything else: one variable per argument.
BeginFunction(vs) ==
    /\ phase = "ready"
    /\ created = {}
    /\ \A i \in DOMAIN vs : i <= 6 /\ ArgRegs[i] \in Regs
    /\ \A i, j \in DOMAIN vs : vs[i] = vs[j] => i = j
    /\ phase' = "arguments" /\ k' = 0 /\ args' = vs
    /\ UNCHANGED <<cg, created>>

arch_initFunctionArg ==
    /\ phase = "arguments"
    /\ k < Len(args)
    /\ cg' = codegen_newVarReg(cg, args[k + 1], ArgRegs[k + 1])
    /\ created' = created \cup {args[k + 1]}
    /\ k' = k + 1
    /\ UNCHANGED <<phase, args>>

EndFunctionArgs ==
    /\ phase = "arguments"
    /\ k = Len(args)
    /\ phase' = "ready" /\ k' = 0 /\ args' = <<>>
    /\ UNCHANGED <<cg, created>>

codegen_newVar(v) ==
    /\ phase = "ready"
    /\ v \notin created
    /\ cg' = codegen_newVarReg(codegen_allocateReg(cg), v, AllocatedReg(cg))
    /\ created' = created \cup {v}
    /\ UNCHANGED <<phase, k, args>>

Ref(v) ==
    /\ phase = "ready"
    /\ v \in created
    /\ cg' = variable_ref(cg, v)
    /\ UNCHANGED <<created, phase, k, args>>

\* variable_ref, then an instruction that writes the register it returns, as
\* codegen_test.c does with emit_storeConst64 and emit_decReg64.
Write(v) ==
    /\ phase = "ready"
    /\ v \in created
    /\ cg' = Overwrite(variable_ref(cg, v), v)
    /\ UNCHANGED <<created, phase, k, args>>

Store(v) ==
    /\ phase = "ready"
    /\ v \in created
    /\ cg' = variable_store(cg, v)
    /\ UNCHANGED <<created, phase, k, args>>

\* codegen_popBlock, and the first loop of arch_functionCall, which needs the
\* argument registers to exist and takes at most six arguments.
codegen_popBlock ==
    /\ phase = "ready"
    /\ phase' = "pop" /\ k' = 0
    /\ UNCHANGED <<cg, created, args>>

arch_functionCall(vs) ==
    /\ phase = "ready"
    /\ Len(vs) < 7 /\ registerCount >= 7
    /\ \A i \in DOMAIN vs : vs[i] \in created
    /\ phase' = "spill" /\ k' = 0 /\ args' = vs
    /\ UNCHANGED <<cg, created>>

SpillRegister ==
    /\ phase \in {"pop", "spill"}
    /\ k < registerCount
    /\ cg' = IF cg.registerStatus[k] = NoVar THEN cg ELSE variable_store(cg, cg.registerStatus[k])
    /\ k' = k + 1
    /\ UNCHANGED <<created, phase, args>>

\* Mutant: the loop ends one register early.
EndSpillEarly ==
    /\ phase \in {"pop", "spill"}
    /\ k = registerCount - 1
    /\ phase' = IF phase = "pop" THEN "ready" ELSE "call"
    /\ k' = 0
    /\ UNCHANGED <<cg, created, args>>

EndSpill ==
    /\ phase \in {"pop", "spill"}
    /\ k = registerCount
    /\ phase' = IF phase = "pop" THEN "ready" ELSE "call"
    /\ k' = 0
    /\ UNCHANGED <<cg, created, args>>

\* Mutant: an argument that has been passed already is not copied.
PassOnce ==
    LET v == args[k + 1]
    IN  /\ phase = "call"
        /\ k < Len(args)
        /\ cg' = IF cg.reg[v] = -1 THEN EmitLoad([cg EXCEPT !.reg[v] = ArgRegs[k + 1]], v) ELSE cg
        /\ k' = k + 1
        /\ UNCHANGED <<created, phase, args>>

\* The second loop: argument k + 1 is loaded into its register, or copied
\* there when the same variable has been loaded for an earlier argument.
PassArgument ==
    LET v == args[k + 1]
        r == ArgRegs[k + 1]
    IN  /\ phase = "call"
        /\ k < Len(args)
        /\ cg' = IF cg.reg[v] = -1 THEN EmitLoad([cg EXCEPT !.reg[v] = r], v)
                 ELSE [cg EXCEPT !.regs[r] = cg.regs[cg.reg[v]]]
        /\ k' = k + 1
        /\ UNCHANGED <<created, phase, args>>

\* The arguments leave their registers, and the call overwrites all of them.
EmitCall ==
    /\ phase = "call"
    /\ k = Len(args)
    /\ cg' = [cg EXCEPT !.reg = [v \in Vars |-> IF \E i \in DOMAIN args : args[i] = v THEN -1 ELSE cg.reg[v]],
                        !.regs = [r \in Regs |-> NoVar]]
    /\ phase' = "ready" /\ k' = 0 /\ args' = <<>>
    /\ UNCHANGED created

Next ==
    \/ \E vs \in ArgLists : BeginFunction(vs) \/ arch_functionCall(vs)
    \/ arch_initFunctionArg \/ EndFunctionArgs
    \/ \E v \in Vars : codegen_newVar(v) \/ Ref(v) \/ Write(v) \/ Store(v)
    \/ codegen_popBlock \/ SpillRegister \/ EndSpill
    \/ PassArgument \/ EmitCall

Spec == Init /\ [][Next]_vars

-----------------------------------------------------------------------------
CodegenType ==
    [registerStatus : [Regs -> Vars \cup {NoVar}],
     lru            : Seq(Vars),
     frameSize      : Nat,
     reg            : [Vars -> Regs \cup {-1}],
     stackPos       : [Vars -> Int],
     regs           : [Regs -> Vars \cup {NoVar}],
     mem            : [Disps -> Vars \cup {NoVar}],
     highLoad       : BOOLEAN]

\* Every field has the type the C structures give it.
TypeOK ==
    /\ cg \in CodegenType
    /\ created \subseteq Vars
    /\ phase \in {"ready", "arguments", "pop", "spill", "call"}
    /\ k \in Nat
    /\ args \in Seq(Vars)

\* registerStatus and the reg fields describe the same assignment of registers:
\* no register has two owners, no owner is forgotten.  Between the spilling
\* and the call itself arch_functionCall uses the reg fields of the arguments
\* as scratch; no register has an owner then.
RegisterFile ==
    /\ \A r \in Regs : cg.registerStatus[r] # NoVar => cg.reg[cg.registerStatus[r]] = r
    /\ phase # "call" => \A v \in Vars : cg.reg[v] >= 0 => cg.registerStatus[cg.reg[v]] = v
    /\ phase = "call" => \A r \in Regs : cg.registerStatus[r] = NoVar

\* The LRU list holds the owners of registers, each of them once: list_deattach
\* is never called on a variable that is not on the list, and an eviction
\* always finds a variable that owns a register.
LruHoldsOwners ==
    /\ \A i, j \in 1..Len(cg.lru) : cg.lru[i] = cg.lru[j] => i = j
    /\ \A i \in 1..Len(cg.lru) : \E r \in Regs : cg.registerStatus[r] = cg.lru[i]
    /\ \A r \in Regs : cg.registerStatus[r] # NoVar =>
          \E i \in 1..Len(cg.lru) : cg.lru[i] = cg.registerStatus[r]

\* A variable keeps one slot for good, and no two variables share one; and what
\* is spilled lands below RBP, not in the frame of the caller, up to the last slot
\* that a char displacement reaches.
SlotsDistinct ==
    /\ \A v \in Vars : cg.stackPos[v] = -1 \/ cg.stackPos[v] \in 1..cg.frameSize
    /\ \A u, v \in Vars : (cg.stackPos[u] = cg.stackPos[v] /\ cg.stackPos[u] # -1) => u = v
    /\ \A d \in Disps : (d >= 0 /\ cg.mem[d] # NoVar) => cg.frameSize > SlotReach

\* The frame is within reach of an 8-bit displacement, and no load went to a
\* register that emit_loadRegRBP64 cannot encode.
Encodable(c) == c.frameSize <= SlotReach /\ ~c.highLoad

\* Where v is, according to the allocator, is the current value of v.
InPlace(c, v) == IF c.reg[v] >= 0 THEN c.regs[c.reg[v]] = v
                 ELSE c.stackPos[v] > 0 /\ c.mem[Disp(c.stackPos[v])] = v

\* No value is lost: through spilling, eviction, reloading and calls, the
\* register or else the slot of a variable holds its current value.
ValueKept == Encodable(cg) => \A v \in created : InPlace(cg, v)

\* When the call is emitted, argument i is in the i-th argument register.  This
\* leaves out calls whose fifth or sixth argument is not a repetition: it is loaded
\* into R8 or R9.
CallArgumentsInPlace ==
    (Encodable(cg) /\ phase = "call") => \A i \in 1..k : cg.regs[ArgRegs[i]] = args[i]

\* codegen_popBlock leaves every register free, so that a block that is
\* entered by several jumps starts from one allocation.
PopFreesAll == [][(phase = "pop" /\ phase' = "ready") => Free(cg') = Regs]_vars

\* variable_ref of two operands in a row, as an instruction with two register
\* operands needs it: when there are two registers, the reference to the second
\* operand does not take the register of the first.
OperandsTogether ==
    (phase = "ready" /\ registerCount >= 2) =>
        \A u, v \in created :
            LET first == variable_ref(cg, u)
                second == variable_ref(first, v)
            IN  second.reg[u] = first.reg[u] /\ second.reg[v] >= 0
=============================================================================
