# Verification of mcompiler

mcompiler is a small compiler in C: text is parsed to an AST, the AST is turned
into an IR with mutable registers, the IR is converted to SSA form with the help
of the dominator tree and printed, and, separately, a register allocator emits
x86_64 code. Below them lies a small library: lists, hash maps, growing buffers, a
zone allocator, a formatter, labels with relocations. This directory holds TLA+
models of these parts, TLC configurations that check them on small instances, and
TLAPS proofs about the creation of the IR, the dominator tree and frontiers, the two
together in the pipeline as far as the placement of phis, the printed graph, the register allocator, the hash
map, the parser, the lists, the buffers and the zones.

Everything is sequential. There are no threads, messages, timeouts or persisted
state. What is hard here is of another kind: intrusive data structures that say
the same thing in several places (use lists and operands; LRU list, register
table and variables; next and prev), recursion that moves shared state (the current
block, the scopes, the value stacks), loops over structures that change under
them, a worklist with a set encoded in integers, limits (registers, load factor, 8-bit
displacements, capacities, widths of relocations), error returns through many
levels of recursion, and long sequences of legal calls.

## Inventory

| Part | State | Operations | Uses | What makes it correct |
|---|---|---|---|---|
| `ir.c` | instructions, blocks, constants, use lists | constructors, `inst_setUse`, `value_replaceAllUses`, `inst_remove`, `inst_phi_insertValue`, predecessor and successor iterators | lists, zones, buffers | use lists and operands agree; a block jumps at its end only |
| `ir_creation.c` | current block, chain of scopes, register count | `create_statement`, `create_block`, `create_value` | IR, hash map | every block is connected; a register is assigned before it is loaded |
| `dominators.c` | numbering, `doms`, tree, frontiers | `dominators_compute`, `domfrontiers_compute`, getters | IR iterators, hash map | immediate dominators and frontiers as defined by paths; termination |
| `ssa_conversion.c` | per block and per register tables, worklist, value stacks | `ssa_convert`, `ssa_rename` | IR, dominators, frontiers, hash map | phis at the iterated frontier; SSA form; same meaning |
| `codegen.c`, `arch_*` of `x86_64_assembly.c` | register table, LRU list, slots, frame size | `codegen_newVar`, `variable_ref`, `variable_store`, `codegen_popBlock`, `codegen_initFunction`, `arch_functionCall` | lists, buffer, encoder | every value is where the allocator says it is |
| `hashmap.c` | array of lazily initialised lists, size | set, get, remove, rehash, iterator, hash set | lists | it is a map; the iterator gives each key once |
| `parser.c`, tokenizer | reader with position, one token of lookahead | `token_next`, `position_ingest`, `read_num`, `read_id` | ranges | tokens tile the text, positions and numbers are right |
| `parser.c`, expressions | stack of calls, AST | `parser_parseExpression`, `parser_parseBinary`, `parser_readAtom` | tokenizer, zones | the tree has the text's tokens in order, grouped by precedence |
| `parser.c`, statements | stack of calls, AST, error flag | `parser_parseFunction`, `parser_parseBlock`, `parser_parseStatement`, `parser_module`, dumps of the AST | expressions, buffer | the tree is the program; failure is reported; parsing ends |
| `list.c` | next and prev of every node | add, add after, detach, and the loops that take lists apart | | rings are closed; a list is a sequence |
| `buffer.c` | memory, capacity, usage; range position | push, pop, remove, clear, swap, numbers byte by byte; `range_parseInt` | | writes stay in the memory; a buffer is a byte string |
| `relocation.c`, `emit_*` of `x86_64_assembly.c` | labels, pending relocations, code bytes | `relocation_emit`, `label_setOffset`, `label_apply`, every `emit_*` | buffer | the bytes are the instructions asked for; patched fields hold the distance |
| `zone_alloc.c` | chain of zones, bump pointer | init, allocate, free | | allocations are disjoint; each zone is freed once |
| `format.c` | format, rest of it, output | `format_listDbuffer` | buffer | every placeholder takes one argument, every brace is kept |
| `ir.c`, dumps; `dot_builder.c` | names, visited set, levels | `function_dump`, `function_dumpDot`, `value_getName` | hash set, buffer | the graph is the control-flow graph; names are unique and defined |
| `elf.h`, `platform_utils.c`, `main.c`, rest of `utils.c` | none that matters | system calls, I/O | | not modelled |

The drivers under `tests/` show how the parts are put together: `ssa_test.c`
calls the parser, IR creation, dominators, frontiers and SSA conversion in this
order; `codegen_test.c` drives the register allocator by hand. Nothing in the
repository connects SSA form to the code generator.

## Modules

| Module | Models | Role |
|---|---|---|
| `IR` | `ir.c`, `ir.h` | operators on a record `[inst, block, consts, uses]`; no variables |
| `IrCreation`, `MCIrCreation` | `ir_creation.c` | component |
| `Dominators`, `MCDominators` | `dominators.c` | component |
| `SsaConversion` | `ssa_conversion.c` | component |
| `Dump` | `function_dump`, `function_dumpDot` of `ir.c` | component |
| `Pipeline`, `MCPipeline` | `tests/ssa_test.c` | composes the four, or runs the program in both forms |
| `Codegen`, `MCCodegen` | `codegen.c`, `arch_*`, the frame accesses of the encoder | component |
| `MapSpec`; `HashMap`, `MCHashMap` | `hashmap.c` | what a map promises; the component that implements it |
| `ExpressionParser` | expressions of `parser.c` | component, by lexemes |
| `Parser` | statements of `parser.c` | component on top of `ExpressionParser` |
| `Tokenizer` | the tokenizer of `parser.c`, `range_parseInt` | component, by characters |
| `ListSpec`; `List` | `list.c` and two loops over lists | sequences; the pointers that implement them |
| `BufferSpec`; `Buffer` | `buffer.c` | byte strings; the memory that implements them |
| `ZoneAlloc` | `zone_alloc.c` | component |
| `Format` | `format.c` | component |
| `Encoder`; `Assembler` | `emit_*`; labels and `relocation.c` | operators with a decoder; component |
| `MCSupport` | | one instance of `Buffer`, `ZoneAlloc`, `List`, `Format`, `Tokenizer` and `Assembler` |
| `IrCreationProofs`, `DominatorsProofs`, `CodegenProofs`, `HashMapProofs`, `ParserProofs` | | theorems about the component each is named for |
| `SsaProofs` | | theorems about steps 1 and 2 of `SsaConversion` |
| `LibraryProofs` | | theorems about `List`, `Buffer` and `ZoneAlloc` |
| `PipelineProofs` | | theorems about `Pipeline`, composed from those about its parts, and about `Dump` |

### IR

A value is a pair of a kind and a number (`<<"INST", 3>>`, `<<"V_BLOCK", 1>>`,
`<<"CONST", 2>>`); an instruction is a record with its type, register, parent
block and operands. `ir.uses[v]` is the use list of `v`, as a sequence of
(instruction, operand) pairs in list order. The order is kept because the
predecessor iterator walks it. Numbers, operators and value names carry no
information the properties need and are left out. `block_new` lacks its
`return`; the models take it to return the block, as the rest of the code does.

### IrCreation

The AST is not an input: whenever `create_block` would look at its next
statement, the model picks a statement (from `Statements[n]` for the n-th one of
the program) or ends the block. Expressions are given in postfix form. The
recursion `create_statement` / `create_block` is the sequence `frames`, the chain
of `block_info` structures is `scopes`; `EndBlock` is everything between the
return of `create_block` and the next statement. A failed lookup is an assertion
failure in the code and ends in `pc = "abort"`. Two assumptions say what the parser
guarantees: an expression is the postorder of a tree (`ExpressionsAssumption`), and a
declaration has one of the two types (`DataTypesAssumption`).

### Dominators

One step per iteration of each loop: visiting a successor, a predecessor in the
fixpoint, one move of `intersect`, one move of the frontier runner. Numbers are
postorder numbers starting at 0, as in the code; `SIZE_MAX` stands for the mark
of a block without dominator. The lookup of a block without a number dereferences
NULL: `pc = "crash"`. The algorithm relies on three things it never checks, called
`Analysable`; `CreatedIsAnalysable` says that IR creation delivers them.
`AnalysisSpec` is the two analyses on any graph whose successor and predecessor
iterators agree (`EdgesAgree`) on some part that holds the entry and what follows it; the proofs are about it, and
TLC's graphs are some of its initial states. `OrderedSpec` is the same on the graphs
IR creation makes, in which the first predecessor of a block dominates it
(`FirstPredecessorDominates`).

### SsaConversion and Pipeline

`AnalyzeBlock` is one iteration of step 1, `BeginVariable`, `WorkItem` and
`EndVariable` are step 2, `RenameEntry`, `RenameChild` and `RenameReturn` are the
recursion of `ssa_rename` with the sequence `renaming` as its call stack, and
`Cleanup` is the rest of `ssa_convert`. `source` keeps the IR of the start of the
conversion, for the properties only. `PlacementSpec` is step 2 alone, on any numbered blocks,
frontiers, registers and assignments (`StartPlacement`); that step 1 ends in such a state is a part of
`PhisAtJoinsAfterFirst`. Lists and tables of registers are built by functions on 0..n (`LoadAssigns`,
`WithRegisters`, `PlacePhis`) where a proof has to look into them, and by folds elsewhere.
`Pipeline` takes the first three parts as instances
of their proof modules, so that `PipelineProofs` can cite the theorems about them.

After the conversion `Pipeline` runs the function: `source` with a store for its
registers, and the converted IR with an environment for its values, along the
same path (any branch may be taken). `agree` becomes FALSE when an operand of a
binary instruction or a branch condition differs. Each execution of an instruction
yields a value distinguishable from that of the previous execution, so a value
left over from an earlier iteration is noticed.

### Codegen

`cg` holds `struct codegen`, the fields of all variables, and the machine as the
emitted code leaves it: which variable's current value is in each register and
stack cell. `Disp` is the conversion of the displacement to `char`, in slots, of which
it reaches `SlotReach` below RBP: 16 in the code. What comes behind wraps around to a cell
above RBP.
`EmitLoad` has the effect of the bytes `emit_loadRegRBP64` emits: for R8 and
up it writes the register with the number 8 lower, from an unknown address. The
loops of `codegen_popBlock` and `arch_functionCall` take one step per register or
argument. Guards that are not in the code are the caller's obligations: variables
exist, calls need seven registers and at most six arguments (asserted).

### HashMap and MapSpec

A bucket is the sequence of its entries; `buckets` has no value for a list that was
never initialised. `MapSpec` has a function from keys to entries and an iteration
that gives every key once, in any order. The refinement mapping reads the function off
the buckets. `hashmap_rehash` takes one step per entry it moves; `old` is what it has not
moved yet, and the map is what is in both arrays. Callers never store NULL
(`EntryAssumption`), which `hashmap_get` returns for a missing key. An entry stands for
the structure that a caller embeds the list node in; that it is in no other bucket when it is
set is the caller's obligation (`Set`), and every caller allocates a structure for
each set. A loop over the
iterator makes no other calls, as in the code's uses; the search for the next used bucket takes a step per
bucket. `visited` counts, up to `MaxVisits`, how often the loop was given a key, so
that a key given twice is no step of `MapSpec`.

### Dump

After the conversion a behaviour of `Pipeline` either runs the program or prints it.
`dump` holds the locals of `function_dumpDot` (levels to visit, visited blocks,
counter of names) and of the output what is defined under which name and the nodes and
edges. `function_dump` goes through the function in the same way. `block_new` leaves
the name of a block as the zone had it: which blocks have a name from before
(`Garbage`) is chosen, as a bound none, the entry, or all of them.

### Tokenizer, ExpressionParser, Parser

`Tokenizer` reads a text character by character, in the loop of `token_dumpAll`, with
lines, columns and the value of a number. The two parsers continue with lexemes,
which are chosen while they are read; `TokenType` gives each the type the tokenizer
gives it, `>` and `<` included as the fall-through of the switch leaves them.

AST nodes are indices into `heap`, so that a rotation is the same three pointer
assignments as in the code. In `ExpressionParser` a level of parentheses is an element
of `stack`, with the precedences of the `parser_parseBinary` calls in progress. Falling
off the end of `parser_readAtomInternal`, and negating a node that is not a number, are
undefined and stop the model.

In `Parser` the functions that call each other are frames of `calls`: which function,
where it goes on, what it has so far. Every error return is a disjunct. `text` keeps
the tokens that were taken, for the properties. A call starts at any of `Entries`;
`parser_module`, on a text that is not empty, peeks for ever.

### List and ListSpec

The fields next and prev of every node, with the two loops that take lists apart:
`value_replaceAllUses`, which detaches what it moves, and `hashmap_rehash`, which adds
to new lists what still hangs in the old one. `member` is history: the list an element
is in. `ListSpec` is a sequence per head; the refinement mapping walks along next.

### Buffer and BufferSpec

A buffer is its memory, capacity and usage. Numbers are pushed one byte per step, since
every byte may make the buffer grow. `dbuffer_ensureCap` does not store the new
capacity, and its test `size > capacity - usage` is on unsigned numbers: once usage has
passed capacity the difference wraps around and nothing grows. A write behind the memory,
or a `memmove` of a wrapped length, is undefined and stops the model in `fault`.
`BufferSpec` has byte strings. The call of a function that pushes a number says which form
is asked for (so many bytes, low byte first; decimal, with a sign; hexadecimal), and at its
return that form is in the string, whole; the mapping hides the bytes of a number in
progress. `dbuffer_pushUIntHexStr` does not do this: it computes a hexadecimal digit, drops
it and pushes the decimal one. `IsByteString` therefore allows one step besides those of
`BufferSpec`, `DecimalForHex`.

### ZoneAlloc, Format

A pointer into a zone is the number of the zone and an offset. `parser_init` initialises
a zone and then overwrites the allocator with zeros (`parser.c:382`); that zone is in
`dropped`. In `Format` a format is a sequence of words and braces, and a step is one token
of the loop of `format_listDbuffer`.

### Encoder and Assembler

A byte is a record of the fields it is packed from (a REX prefix, a ModR/M byte, an
opcode, a byte of a number). `Encoder` also decodes: how a processor reads the bytes.
`Assembler` calls the emit functions, places labels, resolves others, applies
relocations and emits more. `program` is history: what was asked for, and where.
`Wanted` is the instruction a call stands for. For `emit_jumpZeroRel8` that is a jump if the
result is *not* zero, which its opcode is and both of its callers want; its name says
the opposite. `CodeIsProgram` holds with one exact exception: an operand differs from the one
wanted if and only if the function misplaces an extension bit and there is one
(`ExtensionMisplaced`).

## Runs

| Run | Instance | Shows |
|---|---|---|
| `IrCreation` | every program of up to 4 statements of 5 kinds, 2 names, 3 expressions, 2 types, nesting 2 | scoping makes every load follow an assignment; a block has a jump before its end only where a loop body of several blocks starts; otherwise all blocks are connected |
| `IrCreation_nested` | two blocks | the rule of `ir.h:71` does not hold for nested loop bodies |
| `Dominators` | every graph of 4 blocks with entry 1 that is no target, conditional jumps, unreachable blocks, every order of use lists | on the graphs that the search leaves `Analysable`: immediate dominators and frontiers are those of the definitions by paths, both computations end |
| `Pipeline` | 2 declarations, up to 2 blocks (nested or in sequence), assignments, an early return | the stages fit together; use lists agree with operands; phi placement starts in a state the proofs are about, and phis are complete for all but the first variable; the result is in SSA form; the meaning is kept where the phis are complete; the printed graph is the control-flow graph and its names resolve |
| `Pipeline_meaning` | 1 variable, up to 4 statements | for the first variable the meaning is not kept |
| `Codegen` | 4 variables, 2 registers, displacements that reach 3 slots | eviction, reloading, blocks; the fourth slot is the first that lands above RBP |
| `Codegen_calls` | 3 variables, 7 registers, lists of up to 2, and of 6 with repetitions | arguments of functions and calls, one variable passed twice or more often |
| `HashMap` | 5 keys, 3 of them colliding before the first rehash, 2 entries, 2 to 8 buckets | the hash map is a map of bounded load; the iterator loop ends |
| `HashMap_iterator` | the same | the iterator dereferences NULL when bucket 0 was never used |
| `Parser` | 3 operators, 4 operands, signs, 1 level of parentheses; or up to 12 tokens of a block, a function or a module; correct or not | the tree keeps the text; precedence holds if it rises only at the end; the tree is the program; failure sets the error; the dump prints every node, or breaks off at a return; parsing ends |
| `ExpressionParser_precedence` | 3 operators, no parentheses | `a + b * c + d` is grouped as `((a + b) * c) + d` |
| `Support` | see below | buffers are byte strings up to twice the first capacity, with numbers in the form asked for (hexadecimal excepted), zones are disjoint and freed once, linked lists are sequences, formats, texts and numbers are read as written, instructions mean what was asked for and labels are reached |

`Support` puts six components that share no state in one instance: a behaviour is one of
`Buffer`, `ZoneAlloc`, `List`, `Format`, `Tokenizer` or `Assembler`.

Why the bounds are enough. Two names and two nested blocks give shadowing, leaking
scopes, loops in loops and ifs in loops, which is every way `create_block` can
disturb its caller. Four blocks contain irreducible loops, diamonds, and loops with
two exits. The allocator has all its cases with more variables than registers and
two registers, and calls need the seven registers that hold the arguments. Five keys
over two buckets rehash twice, and leave buckets empty after removals. Four operands
contain every relation between three adjacent precedences. `MaxFrontier` bounds
the length of a frontier list, which the code lets grow by duplicates; it is never
reached in these instances. A `StatementLexemes` text of 12 tokens holds a block in a
block and every place where a statement can break off; `BlockRoom` is what the buffer
of `parser_parseBlock` holds, 16 pointers in the code and 2 here, so that a block can
have one statement too many.

Numbers are scaled down so that their limits are met: a byte of the encoder has
`ByteBase` = 8 values, so that one-byte jumps from -4 to 3 reach or miss a label within two
instructions; `INT_MAX` is 19, so that a number of two digits is exactly that, or passes it;
zones have six bytes with a
header of one; buffers start with at most two bytes and hold up to `MaxUsage` = 3 before a
push, which ends behind twice the capacity; the numbers pushed are 258, whose two low bytes
differ and which is another text in each base, 7, whose text is the same in both, and -10;
a displacement reaches `SlotReach` = 3 of the four slots in `Codegen`; `SizeMod` is 2^16
instead of 2^64, far above any size here. Three list elements make every case of a neighbour that is the head,
another element, or the element itself. Formats of six symbols hold two placeholders or an
unclosed one; texts of four characters hold every pair of tokens with white space between.

Where a run says `CHECK_DEADLOCK FALSE` the program ends: creation, analysis, parsing
or a text are over, or it has crashed.

### Fairness

One thread executes straight through, so a function that is running takes its next
step. `Terminates` assumes weak fairness of the next step of `dominators.c`, `ParsingEnds`
of the next step of the parser, `IterationEnds` of the steps inside a call or the iterator
loop (`hashmap_rehash`, `EndRehash`, `Iterate`), not of calls on the map. No other
property needs fairness. `ParsingEnds`
excepts the call of `parser_module` on a text that is not empty, which does not end.

### Findings

The four violation runs each refute something the repository says; PROJECT.json
quotes the lines. In short: `ssa_conversion.c:396` uses 0 both for "never" and for the
first variable; `ir_creation.c:229` closes a loop in the first block of its body;
`hashmap.c:234` dereferences a bucket that is not initialised; `parser.c:501` rotates
once per operator.

Other departures are part of the models, and the properties are stated up to them:

- `x86_64_assembly.c:83`, `:143`: in three emit functions the bit that extends a register
  is put at the place of the index register, so R8 is reloaded into RAX (`EmitLoad` and
  `Encodable` in `Codegen`, `ExtensionMisplaced` in `Assembler`).
- `buffer.c:107`: the capacity is not updated when a buffer has grown; what is still
  true is `SafeUpToTwice`.
- `parser.c:141-151`: `>` is read as `<`, and `<` is never passed.
- `parser.c:534`: any token is accepted as the name of a declaration (`DeclarationName`).
- `parser.c:720`: `parser_module` does not come to an end.
- `parser.c:382`: the zone of a parser is lost (`dropped`).
- `parser.c:236`: the dump of the AST has no case for `return` (`ast_getChilds`), so it
  fails an assertion at the first one; `DumpVisitsAll` says that it does so exactly then.
- `buffer.c:201-209`: `dbuffer_pushUIntHexStr` computes a hexadecimal digit, never uses it,
  and pushes the number in decimal (`DecimalForHex`); the digit would be wrong, too, for
  10 to 15 are added to 'A'. Nothing calls the function.
- `buffer.c:118`: the assertions of `dbuffer_removeRange` let a range end behind the bytes in
  use; the length of its `memmove` then wraps around (`fault`). Nothing calls the function.
- `x86_64_assembly.c:43`: `emit_jumpZeroRel8` emits 0x75, a jump if not zero. Its callers
  want that one.
- `relocation.c:49`: a distance is cut to the width of its field; `TargetsReached` says
  when it arrives.
- `x86_64_assembly.c:204`: the tenth register is R12, which a comment excludes; from
  the 17th slot on displacements wrap around (`x86_64_assembly.c:234`, in `Disp`) to
  addresses above RBP; `SlotsDistinct` says that no store does so earlier.
- `x86_64_assembly.c:252`: a fifth or sixth argument of a call that is not a repetition is
  loaded into R8 or R9, by the encoder that cannot (`x86_64_assembly.c:83`); `Encodable`
  excludes these calls from `CallArgumentsInPlace`.
- `ir.c:90`: a block may have a name made of what the zone held before. `NamesResolve` says
  that such names leave the others alone, and nothing of themselves.
- `ssa_conversion.c:434`: phis used only by phis that are removed later stay; this costs a move
  and changes no value. `ir.c:539`: after the conversion the predecessor iterator also
  gives blocks of phis.
- A declaration that uses its own variable, `int64 a = a;`, fails an assertion in the
  conversion rather than being reported.

## Proofs

The theorems hold for every value of the constants.

| Module | Theorem | States |
|---|---|---|
| `IrCreationProofs` | `CreationInvariant` | `CreationInv` always holds |
| | `AssignedBeforeLoadAlways` | `AssignedBeforeLoad`: on every path a register is assigned before it is loaded |
| | `JumpsTwiceOnlyInLoopBodyAlways` | `JumpsTwiceOnlyInLoopBody`: a second jump stands in a block only where a loop is closed |
| | `EveryBlockConnectedAlways` | `EveryBlockConnected`: apart from that, no block is lost |
| | `FirstPredecessorDominatesAlways` | of a finished function: edges agree, nothing jumps to the entry, and the first predecessor of every other block dominates it |
| `DominatorsProofs` | `DominatorsInvariant` | `DominatorsInv` always holds |
| | `IDomIsClosestAlways` | `IDomIsClosest`: on `Analysable` graphs the immediate dominators are those of the definition by paths |
| | `FrontierIsExactAlways` | `FrontierIsExact`: on `Analysable` graphs so are the dominance frontiers |
| | `OrderedIsAnalysable` | on graphs as IR creation makes them the search leaves an `Analysable` graph |
| | `OrderedIsRight` | on those graphs there is no crash, and both results are right without the hypothesis |
| `PipelineProofs` | `PipelineInvariant` | `PipelineInv`: the invariants of the parts hold in the pipeline, and each hands over what the next one needs |
| | `CreatedIsAnalysableAlways` | `CreatedIsAnalysable`: what IR creation makes is what `dominators.c` relies on |
| | `AnalysesAreRight` | from the source text to the conversion: no lookup fails, immediate dominators and frontiers are exact |
| | `PhisAtJoinsAfterFirstAlways` | `PhisAtJoinsAfterFirst`, for every program: step 2 starts with numbered blocks, their frontiers and every register listed once with its assignments, and when it is over every register but the first has its phis exactly on the iterated dominance frontier of its assignments |
| | `GraphIsCfgAlways` | `GraphIsCfg`, for every function whose jumps lead to its blocks: the printed graph has every block that can be reached once, and the edges of these |
| `HashMapProofs` | `WellFormedAlways` | `WellFormed`: entries in their buckets, keys once, the size right, the load below 80% |
| | `HashMapIsAMap` | `IsAMap`: `HashMap` implements `MapSpec` |
| `CodegenProofs` | `Invariant` | `IInv` always holds |
| | `TypeCorrect` | `TypeOK` |
| | `RegistersExclusive` | `RegisterFile`: table and variables agree, no register has two owners |
| | `LruExact` | `LruHoldsOwners`: the list holds the owners of registers, each once |
| | `SlotsNeverShared` | `SlotsDistinct`: no two variables have one slot, and nothing is stored above RBP while the slots are within reach |
| | `NoValueLost` | `ValueKept`, for `Encodable` code |
| | `ArgumentsPassed` | `CallArgumentsInPlace`, for `Encodable` code: no argument is loaded into R8 or R9 |
| | `PopEmptiesRegisters` | `PopFreesAll`, an action property |
| | `TwoOperands` | `OperandsTogether` |
| `ParserProofs` | `FailureReportedAlways` | `FailureReported`: the error is set exactly if NULL, or a tree with NULL in it, is returned |
| `SsaProofs` | `PlacementInvariant` | `PlacementInv` holds throughout step 2 of the conversion |
| `LibraryProofs` | `RingClosedAlways` | `RingClosed`: next and prev agree in every list, through both loops |
| | `ListIsSequence` | `IsSequence`: `List` implements `ListSpec` |
| | `SafeUpToTwiceAlways` | `SafeUpToTwice`: no write ends outside of the memory before twice the capacity |
| | `ZonesAlwaysSafe` | `ZonesSafe`: allocations are disjoint and in live zones; each zone is freed once, or was dropped |

### IrCreation

Assumptions: `ExpressionsAssumption`, `DataTypesAssumption`. The statements, their
number, the nesting and the names are arbitrary. What a finished
function satisfies (`Finished`) cannot be carried through the creation as it is: while a
block is open, loads, jumps and blocks are missing. `Creating` is what holds in the middle:

- `Built`: every instruction has the operands of its kind, and blocks hold instructions.
- `CallStack`: every active call of `create_block` holds blocks that were made after
  those of its caller, the current block is the last of them, and the outermost one is
  the function's. Everything about order below is a consequence.
- `RegionsOpen`, for `AssignedBeforeLoad`: every register has a region, the blocks in which it
  may be visible, and one block D outside of it, which declares and assigns it. Only D
  and the region itself jump into the region, and each load is in it, or behind the
  assignment in D, or part of the initial value. `Open` says why this stays so:
  the blocks that calls inside the scope will still link up are in the region, those of the
  calls around it are not. When a scope ends (`LeaveScope`), the region is complete.
- `Flow`, for the other two: only blocks of finished loops jump twice; the current block
  and those waiting for the end of a call have no jump yet (`Waits`); every block but the
  entry and the bodies of unfinished loops is jumped to from an older block
  (`ReachedFromBelow`); every block that does not wait has its jump, unless one was put in
  front of the end already (`Leaves`).

There is one lemma per operation of the IR for what it appends (`AddAssign`, `AddJump`, ...),
one for each part of the invariant under each kind of change (a block extended, a block
made, a call pushed or popped), and one per action. That no path without an
assignment leads into a region (`RegionNotAssignFree`) and that all blocks are reached
(`InvConnected`) then follow for finished functions, by a least counterexample over the
steps of the closure.

For `FirstPredecessorDominatesAlways`, `Finished` also holds the shape of the control flow:

- `Nest`: nothing jumps to the entry or into an unfinished body from outside; jumps of the
  blocks from a body on go to blocks behind it, all others in front of it.
- `Cut`: the blocks that only a jump in front of another jump leads into. `block_successor`
  does not follow these jumps, but the predecessor iterator does, so edges agree only on
  the rest, and nothing in the rest follows them.
- `Guard`: for each block, the block p that is the first to name it lies before a row of blocks
  that is entered from p only (`Enclosed`). So every path to it takes p.

### Dominators

No assumption on constants: `StartAnalysis` allows every graph with an entry and a part
around it where the iterators agree and that control does not leave. What lies outside of it
is never visited. The two properties are claimed for
`Analysable` graphs. Neither is inductive. `DominatorsInv` has a part per phase:

- `VisitInv`, `Numbered`: the search numbers exactly the reachable blocks, in postorder.
- `SweepInv`: `doms` is a tree growing to the root (`IsTree`, numbers increase along it); what
  strictly dominates a block dominates its `doms` (`Respects`), at every moment, because
  each finger of `intersect` is below all common dominators (`FingersInv`); and if the current
  sweep has changed nothing, the blocks it has visited are `Settled`: their
  `doms` is on the chain of every predecessor.
- `TreeInv`: after a sweep without a change all blocks are settled. Then the chain of a
  block is a set no path to it can avoid, so it is exactly its dominators (`TreeIsClosest`).
- `FrontierInv`, `RunnerInv`: y is in the list of x only if x is on the chain of a
  predecessor of y and not above y, and for all blocks behind the runner also if.

Dominance is defined by `ReachableAvoiding`, the least set closed under edges that
avoid a block, so no induction over paths is needed. That the sweeps come to an end is left
to TLC.

`Analysable` compares numbers that the search has yet to give. `OrderedSpec` starts instead from
graphs in which the first predecessor p of a block is the only way into a part A around
that block (`OnlyEntry`). `Behind` follows the search through every such part: as long as p has no number,
every block of A on the stack lies above p, hence gets its number first. At the end p
has the greater number, which is what `Analysable` asks for (`OrderedInv`); that
every block of the graph is reached follows because each has a predecessor made before it. No
step crashes on an analysable graph (`NoCrashStep`), so both results hold without
a hypothesis.

### Pipeline

Assumptions: `ExpressionsAssumption` and `DataTypesAssumption`, as in `IrCreation`.
`PipelineInv` says by phase whose invariant holds: `CreationInv`, with the analyses and the conversion not begun,
until `ir_creator_createFunction` is done; `OrderedSafe`, the invariants of the analyses, and that the
function is as it was created, up to the end of step 1 of the conversion; `ConversionInv` from there until
the conversion is done. Two lemmas join them:

- `CreationHandover`: what `FirstPredecessorDominates` says of the created function is what `OrderedSpec` starts
  from; both parts read the same graph (`SameEdges`, `SameHead`).
- `AnalysisHandover`: the numbers and frontiers of the analyses, and the links between the blocks and the
  instructions of the created function, are what step 1 is given (`Given`).

The execution of the program says nothing here: TLC checks its properties.

### Dump (in `PipelineProofs`)

Assumptions: none on constants. `StartDump` says what the dump relies on: the jumps of the function lead to blocks
of it. The walk goes level by level; between the steps (`DumpInv`)

- what was visited has been drawn once, with its edges (`DrawnOnce`);
- the entry and the successors of what was visited have been met, which is to say, visited or waiting in one of the
  two lists, and no block outside of any set that holds the entry and that no jump leaves has been (`LeadsOn`).

When both lists are empty, what was visited is therefore the least such set. That `ReachableFrom`, as many rounds of
successors as there are blocks, computes the same set (`ReachableIs`) is again the counting argument of `GrowthStops`.
That a converted function satisfies `StartDump` is a part of `GraphIsCfg` that TLC checks in `Pipeline`: it
needs the folds of step 3 over instructions and phis.

### SsaConversion

Assumptions: none on constants. In step 1 `AnalyzedInv` says that the blocks analysed so far have their loads and
assignments listed, and that `variableList` holds the registers of these, each once, with assignments in numbered
blocks (`Found`); `source` is the function, which step 1 does not change. `ConversionInv` is this invariant, that of
step 2, and of step 3 that `ssa_rename` marks blocks and moves no phi (`PhisPlaced`). The
recursive functions of step 1 are taken by `RecursionExists` and `RecursionStays`: a function on 0..n
defined by its predecessor exists, and what its start satisfies and each step keeps, all its values satisfy.

`StartPlacement` says what step 2 needs: every block has its number, frontiers
hold numbered blocks, registers are listed once, assignments are instructions of numbered blocks, there are no phis
yet and `lastIteration` is 0. The frontiers are arbitrary lists, so the theorem does not depend on
`dominators.c`. `PlacementInv` says that registers that are done have complete phis, that
those to come have none, and of the current one (`Working`):

- the blocks visited in this iteration are those with an assignment and those with a phi;
- a visited block that does not wait in the worklist has a phi in every block of its frontier;
- no phi stands outside of any set of blocks that is closed under frontiers (`ClosedFrom`).

When the worklist is empty, the second makes the phis closed and the third makes them the least closed
set, which is what `Complete` means. All of it is about registers with an index above 0, for
`lastIteration` holds 0 both for "never" and for the first register: its worklist is not extended, and nothing
is claimed of it but that its phis do not disturb the others. `UpTo` keeps the integer set honest: no
entry exceeds the current index, and at its beginning all are below.

`JoinBlocks` computes the iterated frontier as many rounds as there are blocks. That this is enough
(`GrowthStops`) is a counting argument: a round that is not the last adds a block, so
after n of them there would be more than n blocks. `PlacesAll` takes the loop over a frontier, and
`JoinIs` the rounds, by a least counterexample.

### HashMap

Assumptions: hashes are natural numbers, the initial length is positive, NULL is no entry.
`HashMapInv` adds to `WellFormed` the types and `IteratorInv`: the loop has been given
exactly the keys in front of the iterator, which is what makes "each key once" inductive.
`WellFormed` itself covers the middle of a rehash, with both arrays, and
includes that the load is below 80%, so that after doubling there is room again and one
rehash is enough. The refinement has a lemma per operation (set, get, remove, insert, an
entry moved, the iterator's steps); moving an entry is a stutter of `MapSpec`.

### Codegen

Assumptions: `NoVarAssumption` (NULL is no variable), `RegisterCountAssumption` (1 to
10: `_getRealReg` has ten entries), `SlotReachAssumption` (a displacement reaches at least one
slot), `ArgListsAssumption` (lists of variables).

The inductive invariant. `ValueKept` alone is not inductive: that an evicted
value survives depends on slots being distinct, that the right variable is evicted
on the LRU list holding exactly the owners, and both on the register table. `Good(cg)`
collects the agreement of table, list, slots and variables between operations, and that a
store lands above RBP only in a frame that is out of reach already; `IInv`
adds that variables not created have no register, and what the loops have
achieved so far: the arguments created (`ArgumentsState`), the registers below `k`
free (`SpillState`), all values in memory and arguments 1 to `k` in their
registers (`CallState`). During the second loop of a call the code sets `reg` of a
variable without entering it in the table, so `Good` is not claimed there. `IInv` was
checked with TLC on the instances of both passing runs before it was proved.

The argument has one lemma per operator of the model (`DeattachLemma`, `BumpLemma`,
`SlotLemma`, `ReleaseLemma`, `StoreHeldLemma`, `AllocateLemma`, `LoadLemma`,
`RefLemma`, `StoreLemma`, ...), saying what it keeps, and one per action of `Next`.

`ValueKept` and `CallArgumentsInPlace` are stated for code in which no frame exceeds
`SlotReach` slots and no register from R8 up has been loaded from the frame (`Encodable`);
outside that the encoder does not do what it should.

### Parser

No assumptions. The text, its length and the nesting of parentheses and blocks are
arbitrary. `FailureReported` speaks of the end of parsing only, while errors are set deep
in the calls. `ParserInv` follows them out:

- `ErrorInv`: at any time the error is set exactly if something has `Failed`. That is a node
  with NULL for its left operand; an operator on the stack that has NULL for its left operand
  and waits for the right one (`Hangs`), at any level of parentheses; or NULL on its
  way out, as the operand read last or as the result. So NULL is never
  forgotten, and the error never set for nothing.
- `ReadingInv`: a level waits for its first operand or for the right one of its operator
  (`Waits`); a level whose operand is NULL has at most one operator, since
  `parser_parseBinary` returns NULL at once; and a call of `parser_parseBinary` that goes on
  has a result.
- `IsHeap`, `ResultInv`: operators point to nodes, and the result is NULL, an operator or a
  leaf. The right operand of a left child, which the rotation makes the left one of the
  root, is never NULL, because only left operands can be; so a rotation neither adds a
  NULL nor loses one (`Rotated`).

Statements add little to this: each error return sets the error together with NULL, and
each NULL that is passed on has been reported already. The stack of frames (`calls`) does not
occur in the invariant.

### List (in `LibraryProofs`)

Assumptions: heads and elements are different nodes, and there are finitely many elements
(`ElementsAssumption`; `Contents` walks at most that many). `RingClosed` is about all lists but
the old one of a rehash in progress, which `hashmap_rehash` leaves broken. It is not
inductive, since `list_deattach` needs that both neighbours are in the same list, and the loops need to
know where they are. `ListInv` adds that next stays in a list (`SameOwner`), that
`value_replaceAllUses` is always at the first element (`ReplaceInv`), and of
`hashmap_rehash` that what it has not moved yet leads by different pointers to more of it
or to the old head, and nothing there leads back to the current element (`RehashInv`):
the old pointers are overwritten behind the loop, never in front of it.

The refinement needs more: closed rings could still be several rings with one head. `Rings`
says that there is a sequence for each head which begins where the list or the loop does,
follows next, and has every member once (`IsRing`). Two lemmas say what becomes of
such a sequence when an element is linked in or taken out at any place (`RingInsert`,
`RingRemove`); they know nothing of prev, which `ListInv` supplies (`Around`). Each action is
then an insertion, a removal, one of each in two lists, or none (`StepsTo`). That the walks of
`Contents` find these sequences is a lemma about the walk (`WalkIs`), shown by a
least counterexample in place of induction; it needs that no sequence is longer than
the number of elements (`RingFits`).

### Buffer (in `LibraryProofs`)

Assumptions: sizes are below `SizeMod`, strings are byte sequences. The invariant
`BufferInv` says of every buffer that it is `Sound`: its memory is what it was
initialised with, and usage is at most capacity, or it has grown, and then it has at
least twice the capacity. In the first case the unsigned difference of the test is right
(`DifferenceIsFree`), so a push that does not fit makes the buffer grow; in the second a
write has to pass twice the capacity to leave the memory.

### ZoneAlloc (in `LibraryProofs`)

Assumptions: the header fits in a zone, sizes are natural numbers. `BlocksDisjoint` is
not inductive: a new allocation is apart from the old ones because everything in the
newest zone ends before the pointer (`Room`), and a new zone has a number no block has.
That zones are freed once needs that headers point to older zones (`Descending`): a
chain, the least set closed under the headers, then loses exactly its first zone when the
loop of `zone_free` goes on (`ChainStarts`, `ChainDescends`), and a new zone is in no
chain (`ChainAppend`).

### Only model-checked

All properties of `Pipeline` but `CreatedIsAnalysable`, `PhisAtJoinsAfterFirst` and `GraphIsCfg` (of the latter, that
the conversion leaves a function that can be dumped), those of `Parser` but `FailureReported`, and in `Support`
`IsByteString`, `FormatKept`, `TokensTile`, `TokenIsRight`, `CodeIsProgram` and
`TargetsReached`. They fold over sequences of instructions, tokens or bytes; what those folds compute for every input needs
induction over data, which is out of the prover's reach. So are the liveness properties
`Terminates`, `IterationEnds` and `ParsingEnds`.

## Not modelled, and the plan

- Executable memory, `main.c`, `elf.h`: one `mmap`, a driver that prints an IR built by
  hand, and structures nothing uses.
- `utils.c` beyond `writeLong`: wrappers of `malloc` that exit on failure, and reading a
  file. Memory allocation never fails in the models.
- Freeing of whole structures (`hashmap_free`, `free_context` and the like): it releases
  memory and changes nothing else. The zone allocator, where the order of freeing matters, is
  modelled.
- The text of GraphViz files and dumps: fonts, escapes and colours. Nodes, edges and
  names are modelled. A node is named after the lower half of its address
  (`dot_builder.c:70`); addresses are not modelled.
- Function calls and arguments in the IR: `ir.c` has constructors for them, and no front
  end uses them. Arithmetic of `ir_creation.c` on constants is a value like any other.
- `parser_parseModule`, `parser_fresh` and `codegen_newTmp`, which nothing calls.
- `value_replaceAllUses` of a value by itself, which would not end; no caller does it.
- Hash functions are a parameter of `HashMap`.

What could come next:

1. Step 3 of the conversion keeps the control flow, with its folds written as recursive functions: then
   `PipelineInv` reaches the dump, and `GraphIsCfg` needs no `StartDump`.
2. Lemmas about `IR` (use lists against operands for `inst_setUse` and
   `value_replaceAllUses`), for a proof of `UseListsConsistent`; the folds of `IR` over use
   lists need a least counterexample each.
3. The refinement `Buffer` implements `BufferSpec` as a theorem. It needs the digits of a
   number as a sum of powers, which is beyond the arithmetic of the provers.
4. `doms` climbs in postorder, as the safety half of `Terminates`.
5. A generator of code from SSA form does not exist; when it does, `Pipeline` and
   `Codegen` are to be composed.
